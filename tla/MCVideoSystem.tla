---------------------------- MODULE MCVideoSystem ----------------------------
(* VideoSystem for TLC: two slots and six iterations.  With GPU conversion  *)
(* the first picture leaves the pipeline in the fifth iteration, without in *)
(* the second: the cache fills, overflows and wraps around.  MaxTicks is    *)
(* never reached.                                                           *)
EXTENDS VideoSystem
=============================================================================
