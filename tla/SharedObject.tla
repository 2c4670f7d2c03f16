----------------------------- MODULE SharedObject -----------------------------
(***************************************************************************)
(* What reference counting promises (obs_source_release and its siblings   *)
(* in libobs): an object lives as long as somebody owns a reference, is    *)
(* freed once nobody does, and nobody ever owns it again.                  *)
(***************************************************************************)
CONSTANT Owner      \* whoever may own a strong reference

VARIABLES
    owners,     \* the owners now
    object      \* "alive" or "freed"

Init == owners \in SUBSET Owner /\ owners # {} /\ object = "alive"

(* References are taken and dropped while there is one.                    *)
Own == owners # {} /\ owners' \in SUBSET Owner /\ UNCHANGED object

Free == owners = {} /\ object = "alive" /\ object' = "freed" /\ UNCHANGED owners

Spec == Init /\ [][Own \/ Free]_<<owners, object>>

=============================================================================
