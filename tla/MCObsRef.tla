------------------------------- MODULE MCObsRef -------------------------------
(* ObsRef for TLC.  A run stops where every reference is gone.              *)
EXTENDS ObsRef
=============================================================================
