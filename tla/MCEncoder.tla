------------------------------- MODULE MCEncoder -------------------------------
(* Encoder for TLC: a stream and a recording share it; six starts, so that  *)
(* each output may come back to an encoder that was taken down, or failed.  *)
EXTENDS Encoder
=============================================================================
