------------------------------- MODULE MCAudioIO -------------------------------
(* AudioIO for TLC: sound that is on time, too late to be heard, or ahead.  *)
EXTENDS AudioIO

MCLate == {-4, 1}
=============================================================================
