------------------------- MODULE MCBroadcastControl -------------------------
(* BroadcastControl for TLC.  A run ends when the window is closed, or when *)
(* the user has used up the clicks and closes nothing.                      *)
EXTENDS BroadcastControl
=============================================================================
