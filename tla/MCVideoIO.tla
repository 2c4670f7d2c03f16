----------------------------- MODULE MCVideoIO -----------------------------
(* VideoIO for TLC: three slots, so that the ring is empty, partly filled,  *)
(* full and wraps around, and two callbacks.  No symmetry: the run checks   *)
(* liveness too.                                                            *)
EXTENDS VideoIO
=============================================================================
