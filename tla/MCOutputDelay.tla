---------------------------- MODULE MCOutputDelay -----------------------------
(* OutputDelay for TLC.  A run ends where the frontend has used up its      *)
(* calls and the output is off.                                             *)
EXTENDS OutputDelay
=============================================================================
