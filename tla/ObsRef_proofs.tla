---------------------------- MODULE ObsRef_proofs ----------------------------
(***************************************************************************)
(* Proofs about reference counting, for every set of threads: an object is *)
(* not used after it is freed, its control block lives as long as it is    *)
(* needed, and the counts implement SharedObject.  The array of the user's *)
(* sources is used by one thread, as in the frontend.                      *)
(***************************************************************************)
EXTENDS ObsRef, FiniteSetTheorems, TLAPS

OneArrayUser == \A t, u \in ArrayUser : t = u

(* The two counts are numbers of owners, less one.                         *)
Counts ==
    /\ IsFiniteSet(strong) /\ refs + 1 = Cardinality(strong)
    /\ IsFiniteSet(weak) /\ weak_refs + 1 = Cardinality(weak)

(* From the last release to the end of the control block, at most one      *)
(* thread at a time takes the object down, in this order.                  *)
Dying == {"destroy", "free", "release_control"}
Phases ==
    /\ listed => object = "alive" /\ None \in weak
    /\ ~listed => strong = {}
    /\ strong = {} /\ object = "alive" => \E t \in Thread : pc[t] \in {"destroy", "free"}
    /\ \A t \in Thread :
          /\ pc[t] = "destroy" => listed /\ strong = {}
          /\ pc[t] = "free" => ~listed /\ object = "alive" /\ None \in weak
          /\ pc[t] = "release_control" => object = "freed" /\ None \in weak
    /\ \A t, u \in Thread : pc[t] \in Dying /\ pc[u] \in Dying => t = u

Control == control = "freed" <=> weak = {}

(* Whoever works on the object without a strong reference holds the mutex  *)
(* of the list it is in, or a weak reference.                              *)
Holders ==
    /\ mutex["sources_mutex"] # None => listed
    /\ \A t \in Thread :
          /\ mutex["sources_mutex"] = t => pc[t] \in {"read", "swap", "ticking"}
          /\ mutex["user_sources_mutex"] = t => pc[t] = "found"
          /\ pc[t] = "ticking" => mutex["sources_mutex"] = t
          /\ pc[t] \in {"read", "swap"} => t \in weak \/ mutex["sources_mutex"] = t

(* What a thread's step says of its own references.                        *)
Private ==
    \A t \in Thread :
        /\ pc[t] \in {"read", "swap", "found"} => Own(t) \notin strong
        /\ pc[t] = "removing" <=> Temp(t) \in strong
        /\ pc[t] = "swap" => expected[t] >= 0
        /\ pc[t] = "found" => t \in ArrayUser /\ UserList \in strong

(* The inductive invariant.                                                *)
IInv == TypeOK /\ Counts /\ Phases /\ Control /\ Holders /\ Private

-----------------------------------------------------------------------------
(* The three kinds of references are different.                            *)
LEMMA References ==
    /\ UserList \in Ref
    /\ \A t \in Thread : /\ Own(t) \in Ref /\ Temp(t) \in Ref
                         /\ Own(t) # UserList /\ Temp(t) # UserList
                         /\ \A u \in Thread : /\ Own(t) # Temp(u)
                                              /\ Own(t) = Own(u) => t = u
                                              /\ Temp(t) = Temp(u) => t = u
  BY DEF Ref, Own, Temp, UserList

(* A new owner is one more.                                                *)
LEMMA Taken ==
    ASSUME NEW S, NEW x, IsFiniteSet(S), x \notin S
    PROVE  IsFiniteSet(S \cup {x}) /\ Cardinality(S \cup {x}) = Cardinality(S) + 1
  BY FS_AddElement

(* An owner that goes is one less.                                         *)
LEMMA Dropped ==
    ASSUME NEW S, NEW x, IsFiniteSet(S), x \in S
    PROVE  IsFiniteSet(S \ {x}) /\ Cardinality(S \ {x}) = Cardinality(S) - 1
  BY FS_RemoveElement

(* -1 stands for no owner.                                                 *)
LEMMA NoOwner ==
    ASSUME TypeOK, Counts
    PROVE  /\ refs = -1 <=> strong = {}
           /\ weak_refs = -1 <=> weak = {}
           /\ refs \in Int /\ weak_refs \in Int
           /\ Cardinality(strong) \in Nat /\ Cardinality(weak) \in Nat
  <1>1. /\ refs \in Int /\ weak_refs \in Int
    BY DEF TypeOK
  <1>2. /\ Cardinality(strong) \in Nat /\ Cardinality(weak) \in Nat
        /\ Cardinality(strong) = 0 <=> strong = {}
        /\ Cardinality(weak) = 0 <=> weak = {}
    BY FS_CardinalityType, FS_EmptySet DEF Counts
  <1>3. QED
    BY <1>1, <1>2 DEF Counts

(* The creator of the object is its only owner.                            *)
LEMMA InitIInv == Init => IInv
  <1> SUFFICES ASSUME Init PROVE IInv
    OBVIOUS
  <1>1. PICK t \in Thread : strong = {Own(t)}
    BY DEF Init
  <1>2. TypeOK
    BY <1>1, References, RefAssumption DEF Init, TypeOK, Pcs, Mutexes
  <1>3. Counts
    <2>1. /\ IsFiniteSet({Own(t)}) /\ Cardinality({Own(t)}) = 1
          /\ IsFiniteSet({None}) /\ Cardinality({None}) = 1
      BY FS_Singleton
    <2>2. QED
      BY <1>1, <2>1 DEF Init, Counts
  <1>4. Phases /\ Control /\ Holders /\ Private
    BY <1>1, References, RefAssumption DEF Init, Phases, Dying, Control, Holders, Private, Mutexes
  <1>5. QED
    BY <1>2, <1>3, <1>4 DEF IInv

(* The counts follow the owners.                                           *)
LEMMA TakeStrong ==
    ASSUME TypeOK, Counts, NEW x, x \notin strong,
           refs' = refs + 1, strong' = strong \cup {x}, UNCHANGED <<weak_refs, weak>>
    PROVE  Counts'
  BY NoOwner, Taken DEF Counts

(* A strong reference dropped: -1 if it was the last.                      *)
LEMMA DropStrong ==
    ASSUME TypeOK, Counts, NEW x \in strong,
           refs' = refs - 1, strong' = strong \ {x}, UNCHANGED <<weak_refs, weak>>
    PROVE  Counts' /\ (refs' = -1 <=> strong' = {}) /\ refs' \in Nat \cup {-1}
  <1>1. Counts'
    BY NoOwner, Dropped DEF Counts
  <1>2. /\ Cardinality(strong') \in Nat
        /\ Cardinality(strong') = 0 <=> strong' = {}
    BY <1>1, FS_CardinalityType, FS_EmptySet DEF Counts
  <1>3. QED
    BY <1>1, <1>2, NoOwner DEF Counts

(* A weak reference dropped: the last frees the control block.             *)
LEMMA DropWeakCounts ==
    ASSUME TypeOK, Counts, Control, NEW who \in weak, DropWeak(who), UNCHANGED <<refs, strong>>
    PROVE  /\ Counts' /\ Control' /\ weak_refs' \in Nat \cup {-1}
           /\ weak' = weak \ {who} /\ control' \in {"alive", "freed"}
  <1>0. /\ IsFiniteSet(weak \ {who}) /\ Cardinality(weak \ {who}) = Cardinality(weak) - 1
    BY Dropped DEF Counts
  <1>1. Counts'
    <2>1. weak' = weak \ {who} /\ weak_refs' = weak_refs - 1
      BY DEF DropWeak
    <2>2. IsFiniteSet(weak') /\ Cardinality(weak') = Cardinality(weak) - 1
      BY <1>0, <2>1
    <2>3. weak_refs' + 1 = Cardinality(weak')
      BY <2>1, <2>2, NoOwner DEF Counts
    <2>4. IsFiniteSet(strong') /\ refs' + 1 = Cardinality(strong')
      BY DEF Counts
    <2>5. QED
      BY <2>2, <2>3, <2>4 DEF Counts
  <1>2. /\ Cardinality(weak') \in Nat
        /\ Cardinality(weak') = 0 <=> weak' = {}
    BY <1>1, FS_CardinalityType, FS_EmptySet DEF Counts
  <1>3. weak_refs' \in Nat \cup {-1} /\ (weak_refs' = -1 <=> weak' = {})
    BY <1>1, <1>2, NoOwner DEF Counts, DropWeak
  <1>4. weak # {}
    OBVIOUS
  <1>5. QED
    BY <1>1, <1>3, <1>4 DEF DropWeak, Control, TypeOK

(* While somebody owns the object, nobody takes it down.                   *)
LEMMA StillOwned ==
    ASSUME TypeOK, Phases, strong # {}, strong' # {}, UNCHANGED <<listed, object, weak>>,
           \A t \in Thread : pc'[t] \in Dying => pc[t] \in Dying
    PROVE  Phases'
  BY DEF Phases, Dying

(* The last owner does.                                                    *)
LEMMA LastOwner ==
    ASSUME TypeOK, Phases, strong # {}, strong' = {}, UNCHANGED <<listed, object, weak>>,
           NEW t \in Thread, pc' = [pc EXCEPT ![t] = "destroy"]
    PROVE  Phases'
  BY DEF Phases, Dying, TypeOK

-----------------------------------------------------------------------------
(* Steps that take a strong reference: there is one already.               *)
LEMMA AddrefIInv ==
    ASSUME IInv, NEW t \in Thread, NEW u \in Thread, Addref(t, u)
    PROVE  IInv'
  <1> USE References, RefAssumption, NoOwner
  <1>2. TypeOK'
    BY DEF IInv, Addref, Mutexes, blocks, lists, local, TypeOK, Pcs
  <1>3. Counts'
    BY TakeStrong DEF IInv, Addref, Private
  <1>4. Phases'
    <2>1. strong # {} /\ strong' # {} /\ UNCHANGED <<listed, object, weak>>
      BY DEF IInv, Addref, Private, blocks, lists, local
    <2>2. \A v \in Thread : pc'[v] \in Dying => pc[v] \in Dying
      BY DEF IInv, TypeOK, Addref, Goto, Dying, local
    <2>3. QED
      BY <2>1, <2>2, StillOwned DEF IInv
  <1>5. Control'
    BY DEF IInv, Addref, Mutexes, blocks, lists, local, Control, Counts, Phases, TypeOK
  <1>6. Holders'
    BY DEF IInv, Addref, Mutexes, blocks, lists, local, Holders, Phases, TypeOK, Pcs
  <1>7. Private'
    BY DEF IInv, Addref, Mutexes, blocks, lists, local, Private, Phases, TypeOK, Pcs
  <1>8. QED
    BY <1>2, <1>3, <1>4, <1>5, <1>6, <1>7 DEF IInv

(* The swap succeeds only on a count that is not -1, so somebody owns it.  *)
LEMMA SwapIInv ==
    ASSUME IInv, NEW t \in Thread, Swap(t)
    PROVE  IInv'
  <1> USE References, RefAssumption, NoOwner
  <1>2. TypeOK'
    BY DEF IInv, Swap, Goto, Unlock, Mutexes, blocks, lists, TypeOK, Pcs
  <1>3. Counts'
    <2>1. CASE refs = expected[t]
      BY <2>1, TakeStrong DEF IInv, Swap, Private
    <2>2. CASE refs # expected[t]
      BY <2>2 DEF IInv, Swap, Counts
    <2>3. QED
      BY <2>1, <2>2
  <1>4. Phases'
    <2>1. CASE refs = expected[t]
      <3>1. strong # {} /\ strong' # {} /\ UNCHANGED <<listed, object, weak>>
        BY <2>1 DEF IInv, Swap, Private, blocks, lists
      <3>2. \A v \in Thread : pc'[v] \in Dying => pc[v] \in Dying
        BY <2>1 DEF IInv, TypeOK, Swap, Goto, Dying
      <3>3. QED
        BY <3>1, <3>2, StillOwned DEF IInv
    <2>2. CASE refs # expected[t]
      BY <2>2 DEF IInv, Swap, Phases, Dying, TypeOK, Goto, blocks, lists
    <2>3. QED
      BY <2>1, <2>2
  <1>5. Control'
    BY DEF IInv, Swap, Goto, Unlock, Mutexes, blocks, lists, Control, Counts, Phases, TypeOK
  <1>6. Holders'
    BY DEF IInv, Swap, Goto, Unlock, Mutexes, blocks, lists, Holders, Phases, TypeOK, Pcs
  <1>7. Private'
    BY DEF IInv, Swap, Goto, Unlock, Mutexes, blocks, lists, Private, Phases, TypeOK, Pcs
  <1>8. QED
    BY <1>2, <1>3, <1>4, <1>5, <1>6, <1>7 DEF IInv

(* The array's own reference is still there when the one found is added.   *)
LEMMA AddrefFoundIInv ==
    ASSUME IInv, NEW t \in Thread, AddrefFound(t)
    PROVE  IInv'
  <1> USE References, RefAssumption, NoOwner
  <1>2. TypeOK'
    BY DEF IInv, AddrefFound, Goto, Unlock, Mutexes, blocks, lists, TypeOK, Pcs
  <1>3. Counts'
    BY TakeStrong DEF IInv, AddrefFound, Private
  <1>4. Phases'
    <2>1. strong # {} /\ strong' # {} /\ UNCHANGED <<listed, object, weak>>
      BY DEF IInv, AddrefFound, Private, blocks, lists
    <2>2. \A v \in Thread : pc'[v] \in Dying => pc[v] \in Dying
      BY DEF IInv, TypeOK, AddrefFound, Goto, Dying, local
    <2>3. QED
      BY <2>1, <2>2, StillOwned DEF IInv
  <1>5. Control'
    BY DEF IInv, AddrefFound, Goto, Unlock, Mutexes, blocks, lists, Control, Counts, Phases, TypeOK
  <1>6. Holders'
    BY DEF IInv, AddrefFound, Goto, Unlock, Mutexes, blocks, lists, Holders, Phases, TypeOK, Pcs
  <1>7. Private'
    BY DEF IInv, AddrefFound, Goto, Unlock, Mutexes, blocks, lists, Private, Phases, TypeOK, Pcs
  <1>8. QED
    BY <1>2, <1>3, <1>4, <1>5, <1>6, <1>7 DEF IInv

(* Its caller owns a reference.                                            *)
LEMMA AddSourceIInv ==
    ASSUME IInv, NEW t \in Thread, AddSource(t)
    PROVE  IInv'
  <1> USE References, RefAssumption, NoOwner
  <1>2. TypeOK'
    BY DEF IInv, AddSource, Mutexes, blocks, lists, local, TypeOK, Pcs
  <1>3. Counts'
    BY TakeStrong DEF IInv, AddSource, Private
  <1>4. Phases'
    <2>1. strong # {} /\ strong' # {} /\ UNCHANGED <<listed, object, weak>>
      BY DEF IInv, AddSource, Private, blocks, lists, local
    <2>2. \A v \in Thread : pc'[v] \in Dying => pc[v] \in Dying
      BY DEF IInv, TypeOK, AddSource, Goto, Dying, local
    <2>3. QED
      BY <2>1, <2>2, StillOwned DEF IInv
  <1>5. Control'
    BY DEF IInv, AddSource, Mutexes, blocks, lists, local, Control, Counts, Phases, TypeOK
  <1>6. Holders'
    BY DEF IInv, AddSource, Mutexes, blocks, lists, local, Holders, Phases, TypeOK, Pcs
  <1>7. Private'
    BY DEF IInv, AddSource, Mutexes, blocks, lists, local, Private, Phases, TypeOK, Pcs
  <1>8. QED
    BY <1>2, <1>3, <1>4, <1>5, <1>6, <1>7 DEF IInv

(* Steps that drop one, perhaps the last.                                  *)
LEMMA ReleaseIInv ==
    ASSUME IInv, NEW t \in Thread, NEW ref, NEW at, Release(t, ref, at),
           (ref = Own(t) /\ at = "idle") \/ (ref = Temp(t) /\ at = "removing")
    PROVE  IInv'
  <1> USE References, RefAssumption
  <1>1. /\ Counts' /\ (LastRelease <=> strong' = {}) /\ refs' \in Nat \cup {-1}
        /\ strong # {} /\ UNCHANGED <<listed, object, weak>>
    BY DropStrong DEF IInv, Release, LastRelease, blocks, lists
  <1>2. TypeOK'
    BY <1>1 DEF IInv, Release, TypeOK, Goto, Pcs, blocks, lists
  <1>3. Phases'
    <2>1. CASE strong' = {}
      BY <1>1, <2>1, LastOwner DEF IInv, Release, Goto
    <2>2. CASE strong' # {}
      <3>1. \A v \in Thread : pc'[v] \in Dying => pc[v] \in Dying
        BY <1>1, <2>2 DEF IInv, TypeOK, Release, Goto, Dying
      <3>2. QED
        BY <1>1, <2>2, <3>1, StillOwned DEF IInv
    <2>3. QED
      BY <2>1, <2>2
  <1>4. Control'
    BY DEF IInv, Release, Control, blocks
  <1>5. Holders'
    BY DEF IInv, Release, Holders, TypeOK, Goto, lists
  <1>6. Private'
    BY DEF IInv, Release, Private, TypeOK, Goto
  <1>7. QED
    BY <1>1, <1>2, <1>3, <1>4, <1>5, <1>6 DEF IInv

(* The array's reference goes, a temporary one comes.                      *)
LEMMA RemoveIInv ==
    ASSUME IInv, OneArrayUser, NEW t \in Thread, Remove(t)
    PROVE  IInv'
  <1> USE References, RefAssumption, NoOwner
  <1>2. TypeOK'
    BY DEF IInv, Remove, Goto, Mutexes, blocks, TypeOK, Pcs
  <1>3. Counts'
    <2>1. CASE UserList \in strong
      <3>1. /\ IsFiniteSet(strong \ {UserList})
            /\ Cardinality(strong \ {UserList}) = Cardinality(strong) - 1
        BY <2>1, Dropped DEF IInv, Counts
      <3>2. Temp(t) \notin strong \ {UserList}
        BY DEF IInv, Remove, Private
      <3>3. /\ IsFiniteSet(strong')
            /\ Cardinality(strong') = Cardinality(strong \ {UserList}) + 1
        BY <3>1, <3>2, Taken DEF Remove
      <3>4. QED
        BY <2>1, <3>1, <3>3, NoOwner DEF IInv, Remove, Counts
    <2>2. CASE UserList \notin strong
      <3>1. strong' = strong \cup {Temp(t)} /\ Temp(t) \notin strong
        BY <2>2 DEF IInv, Remove, Private
      <3>2. QED
        BY <2>2, <3>1, TakeStrong DEF IInv, Remove
    <2>3. QED
      BY <2>1, <2>2
  <1>4. Phases'
    <2>1. strong # {} /\ strong' # {} /\ UNCHANGED <<listed, object, weak>>
      BY DEF IInv, Remove, Private, blocks
    <2>2. \A v \in Thread : pc'[v] \in Dying => pc[v] \in Dying
      BY DEF IInv, TypeOK, Remove, Goto, Dying, local
    <2>3. QED
      BY <2>1, <2>2, StillOwned DEF IInv
  <1>5. Control'
    BY DEF IInv, Remove, Goto, Mutexes, blocks, Control, Counts, Phases, TypeOK
  <1>6. Holders'
    BY DEF IInv, Remove, Goto, Mutexes, blocks, Holders, Phases, TypeOK, Pcs
  <1>7. Private'
    <2>1. /\ pc' = [pc EXCEPT ![t] = "removing"] /\ pc[t] = "idle" /\ t \in ArrayUser
          /\ strong' = (strong \ {UserList}) \cup {Temp(t)} /\ UNCHANGED expected
      BY DEF Remove, Goto
    <2>2. \A u \in Thread : pc[u] = "found" => u = t
      BY <2>1 DEF IInv, Private, OneArrayUser
    <2>3. QED
      BY <2>1, <2>2 DEF IInv, Private, TypeOK
  <1>8. QED
    BY <1>2, <1>3, <1>4, <1>5, <1>6, <1>7 DEF IInv

(* The end of the object, and the weak references.                         *)
LEMMA DestroyIInv ==
    ASSUME IInv, NEW t \in Thread, Destroy(t)
    PROVE  IInv'
  <1> USE References, RefAssumption
  <1>2. TypeOK'
    BY DEF IInv, Destroy, Goto, Mutexes, blocks, TypeOK, Pcs
  <1>3. Counts'
    BY DEF IInv, Destroy, Goto, Mutexes, blocks, Counts, TypeOK
  <1>4. Phases'
    BY DEF IInv, Destroy, Goto, Mutexes, blocks, Phases, Dying, TypeOK, Pcs
  <1>5. Control'
    BY DEF IInv, Destroy, Goto, Mutexes, blocks, Control, Counts, Phases, TypeOK
  <1>6. Holders'
    BY DEF IInv, Destroy, Goto, Mutexes, blocks, Holders, Phases, TypeOK, Pcs
  <1>7. Private'
    BY DEF IInv, Destroy, Goto, Mutexes, blocks, Private, Phases, TypeOK, Pcs
  <1>8. QED
    BY <1>2, <1>3, <1>4, <1>5, <1>6, <1>7 DEF IInv

(* The list is left already: nobody comes to visit.                        *)
LEMMA FreeIInv ==
    ASSUME IInv, NEW t \in Thread, Free(t)
    PROVE  IInv'
  <1> USE References, RefAssumption
  <1>2. TypeOK'
    BY DEF IInv, Free, Goto, Mutexes, lists, TypeOK, Pcs
  <1>3. Counts'
    BY DEF IInv, Free, Goto, Mutexes, lists, Counts, TypeOK
  <1>4. Phases'
    BY DEF IInv, Free, Goto, Mutexes, lists, Phases, Dying, TypeOK, Pcs
  <1>5. Control'
    BY DEF IInv, Free, Goto, Mutexes, lists, Control, Counts, Phases, TypeOK
  <1>6. Holders'
    BY DEF IInv, Free, Goto, Mutexes, lists, Holders, Phases, TypeOK, Pcs
  <1>7. Private'
    BY DEF IInv, Free, Goto, Mutexes, lists, Private, Phases, TypeOK, Pcs
  <1>8. QED
    BY <1>2, <1>3, <1>4, <1>5, <1>6, <1>7 DEF IInv

(* The object's own weak reference goes last of all that is its own.       *)
LEMMA ReleaseControlIInv ==
    ASSUME IInv, NEW t \in Thread, ReleaseControl(t)
    PROVE  IInv'
  <1> USE References, RefAssumption
  <1>1. None \in weak /\ DropWeak(None) /\ UNCHANGED <<refs, strong>>
    BY DEF IInv, ReleaseControl, Phases
  <1>2. TypeOK'
    BY <1>1, DropWeakCounts DEF IInv, ReleaseControl, Goto, Mutexes, lists, TypeOK, Pcs
  <1>3. Counts'
    BY <1>1, DropWeakCounts DEF IInv
  <1>4. Phases'
    BY <1>1, DropWeakCounts DEF IInv, ReleaseControl, Goto, Mutexes, lists, Phases, Dying, TypeOK, Pcs
  <1>5. Control'
    BY <1>1, DropWeakCounts DEF IInv
  <1>6. Holders'
    BY <1>1, DropWeakCounts DEF IInv, ReleaseControl, Goto, Mutexes, lists, Holders, Phases, TypeOK, Pcs
  <1>7. Private'
    BY <1>1, DropWeakCounts DEF IInv, ReleaseControl, Goto, Mutexes, lists, Private, Phases, TypeOK, Pcs
  <1>8. QED
    BY <1>2, <1>3, <1>4, <1>5, <1>6, <1>7 DEF IInv

(* A thread in the middle of a lookup keeps its weak reference.            *)
LEMMA ReleaseWeakIInv ==
    ASSUME IInv, NEW t \in Thread, ReleaseWeak(t)
    PROVE  IInv'
  <1> USE References, RefAssumption
  <1>1. t \in weak /\ DropWeak(t) /\ UNCHANGED <<refs, strong>>
    BY DEF IInv, ReleaseWeak, Phases
  <1>2. TypeOK'
    BY <1>1, DropWeakCounts DEF IInv, ReleaseWeak, Mutexes, lists, local, TypeOK, Pcs
  <1>3. Counts'
    BY <1>1, DropWeakCounts DEF IInv
  <1>4. Phases'
    BY <1>1, DropWeakCounts DEF IInv, ReleaseWeak, Mutexes, lists, local, Phases, Dying, TypeOK, Pcs
  <1>5. Control'
    BY <1>1, DropWeakCounts DEF IInv
  <1>6. Holders'
    BY <1>1, DropWeakCounts DEF IInv, ReleaseWeak, Mutexes, lists, local, Holders, Phases, TypeOK, Pcs
  <1>7. Private'
    BY <1>1, DropWeakCounts DEF IInv, ReleaseWeak, Mutexes, lists, local, Private, Phases, TypeOK, Pcs
  <1>8. QED
    BY <1>2, <1>3, <1>4, <1>5, <1>6, <1>7 DEF IInv

(* A strong reference implies the object's own weak one.                   *)
LEMMA GetWeakIInv ==
    ASSUME IInv, NEW t \in Thread, GetWeak(t)
    PROVE  IInv'
  <1> USE References, RefAssumption
  <1>2. TypeOK'
    BY DEF IInv, GetWeak, Mutexes, blocks, lists, local, TypeOK, Pcs
  <1>3. Counts'
    BY Taken, NoOwner DEF IInv, GetWeak, Mutexes, blocks, lists, local, Counts, TypeOK
  <1>4. Phases'
    BY DEF IInv, GetWeak, Mutexes, blocks, lists, local, Phases, Dying, TypeOK, Pcs
  <1>5. Control'
    BY DEF IInv, GetWeak, Mutexes, blocks, lists, local, Control, Counts, Phases, TypeOK
  <1>6. Holders'
    BY DEF IInv, GetWeak, Mutexes, blocks, lists, local, Holders, Phases, TypeOK, Pcs
  <1>7. Private'
    BY DEF IInv, GetWeak, Mutexes, blocks, lists, local, Private, Phases, TypeOK, Pcs
  <1>8. QED
    BY <1>2, <1>3, <1>4, <1>5, <1>6, <1>7 DEF IInv

(* Steps that only move a thread, or take or release a mutex.              *)
LEMMA GetRefIInv ==
    ASSUME IInv, NEW t \in Thread, GetRef(t)
    PROVE  IInv'
  <1> USE References, RefAssumption
  <1>2. TypeOK'
    BY DEF IInv, GetRef, Goto, Mutexes, blocks, lists, TypeOK, Pcs
  <1>3. Counts'
    BY DEF IInv, GetRef, Goto, Mutexes, blocks, lists, Counts, TypeOK
  <1>4. Phases'
    BY DEF IInv, GetRef, Goto, Mutexes, blocks, lists, Phases, Dying, TypeOK, Pcs
  <1>5. Control'
    BY DEF IInv, GetRef, Goto, Mutexes, blocks, lists, Control, Counts, Phases, TypeOK
  <1>6. Holders'
    BY DEF IInv, GetRef, Goto, Mutexes, blocks, lists, Holders, Phases, TypeOK, Pcs
  <1>7. Private'
    BY DEF IInv, GetRef, Goto, Mutexes, blocks, lists, Private, Phases, TypeOK, Pcs
  <1>8. QED
    BY <1>2, <1>3, <1>4, <1>5, <1>6, <1>7 DEF IInv

(* What is found in the list is listed as long as the mutex is held.       *)
LEMMA LookupIInv ==
    ASSUME IInv, NEW t \in Thread, Lookup(t)
    PROVE  IInv'
  <1> USE References, RefAssumption
  <1>2. TypeOK'
    BY DEF IInv, Lookup, Goto, Lock, Mutexes, blocks, lists, TypeOK, Pcs
  <1>3. Counts'
    BY DEF IInv, Lookup, Goto, Lock, Mutexes, blocks, lists, Counts, TypeOK
  <1>4. Phases'
    BY DEF IInv, Lookup, Goto, Lock, Mutexes, blocks, lists, Phases, Dying, TypeOK, Pcs
  <1>5. Control'
    BY DEF IInv, Lookup, Goto, Lock, Mutexes, blocks, lists, Control, Counts, Phases, TypeOK
  <1>6. Holders'
    BY DEF IInv, Lookup, Goto, Lock, Mutexes, blocks, lists, Holders, Phases, TypeOK, Pcs
  <1>7. Private'
    BY DEF IInv, Lookup, Goto, Lock, Mutexes, blocks, lists, Private, Phases, TypeOK, Pcs
  <1>8. QED
    BY <1>2, <1>3, <1>4, <1>5, <1>6, <1>7 DEF IInv

(* A count that was read as -1 ends the lookup.                            *)
LEMMA ReadOwnersIInv ==
    ASSUME IInv, NEW t \in Thread, ReadOwners(t)
    PROVE  IInv'
  <1> USE References, RefAssumption
  <1>2. TypeOK'
    BY DEF IInv, ReadOwners, Goto, Unlock, Mutexes, blocks, lists, TypeOK, Pcs
  <1>3. Counts'
    BY DEF IInv, ReadOwners, Goto, Unlock, Mutexes, blocks, lists, Counts, TypeOK
  <1>4. Phases'
    BY DEF IInv, ReadOwners, Goto, Unlock, Mutexes, blocks, lists, Phases, Dying, TypeOK, Pcs
  <1>5. Control'
    BY DEF IInv, ReadOwners, Goto, Unlock, Mutexes, blocks, lists, Control, Counts, Phases, TypeOK
  <1>6. Holders'
    BY DEF IInv, ReadOwners, Goto, Unlock, Mutexes, blocks, lists, Holders, Phases, TypeOK, Pcs
  <1>7. Private'
    BY DEF IInv, ReadOwners, Goto, Unlock, Mutexes, blocks, lists, Private, Phases, TypeOK, Pcs
  <1>8. QED
    BY <1>2, <1>3, <1>4, <1>5, <1>6, <1>7 DEF IInv

(* What is found in the array is owned by it.                              *)
LEMMA FindIInv ==
    ASSUME IInv, NEW t \in Thread, Find(t)
    PROVE  IInv'
  <1> USE References, RefAssumption
  <1>2. TypeOK'
    BY DEF IInv, Find, Goto, Lock, Mutexes, blocks, lists, TypeOK, Pcs
  <1>3. Counts'
    BY DEF IInv, Find, Goto, Lock, Mutexes, blocks, lists, Counts, TypeOK
  <1>4. Phases'
    BY DEF IInv, Find, Goto, Lock, Mutexes, blocks, lists, Phases, Dying, TypeOK, Pcs
  <1>5. Control'
    BY DEF IInv, Find, Goto, Lock, Mutexes, blocks, lists, Control, Counts, Phases, TypeOK
  <1>6. Holders'
    BY DEF IInv, Find, Goto, Lock, Mutexes, blocks, lists, Holders, Phases, TypeOK, Pcs
  <1>7. Private'
    BY DEF IInv, Find, Goto, Lock, Mutexes, blocks, lists, Private, Phases, TypeOK, Pcs
  <1>8. QED
    BY <1>2, <1>3, <1>4, <1>5, <1>6, <1>7 DEF IInv

(* The visit holds the list's mutex.                                       *)
LEMMA TickIInv ==
    ASSUME IInv, NEW t \in Thread, Tick(t)
    PROVE  IInv'
  <1> USE References, RefAssumption
  <1>2. TypeOK'
    BY DEF IInv, Tick, Goto, Lock, Mutexes, blocks, lists, TypeOK, Pcs
  <1>3. Counts'
    BY DEF IInv, Tick, Goto, Lock, Mutexes, blocks, lists, Counts, TypeOK
  <1>4. Phases'
    BY DEF IInv, Tick, Goto, Lock, Mutexes, blocks, lists, Phases, Dying, TypeOK, Pcs
  <1>5. Control'
    BY DEF IInv, Tick, Goto, Lock, Mutexes, blocks, lists, Control, Counts, Phases, TypeOK
  <1>6. Holders'
    BY DEF IInv, Tick, Goto, Lock, Mutexes, blocks, lists, Holders, Phases, TypeOK, Pcs
  <1>7. Private'
    BY DEF IInv, Tick, Goto, Lock, Mutexes, blocks, lists, Private, Phases, TypeOK, Pcs
  <1>8. QED
    BY <1>2, <1>3, <1>4, <1>5, <1>6, <1>7 DEF IInv

(* And releases it.                                                        *)
LEMMA TickEndsIInv ==
    ASSUME IInv, NEW t \in Thread, TickEnds(t)
    PROVE  IInv'
  <1> USE References, RefAssumption
  <1>2. TypeOK'
    BY DEF IInv, TickEnds, Goto, Unlock, Mutexes, blocks, lists, TypeOK, Pcs
  <1>3. Counts'
    BY DEF IInv, TickEnds, Goto, Unlock, Mutexes, blocks, lists, Counts, TypeOK
  <1>4. Phases'
    BY DEF IInv, TickEnds, Goto, Unlock, Mutexes, blocks, lists, Phases, Dying, TypeOK, Pcs
  <1>5. Control'
    BY DEF IInv, TickEnds, Goto, Unlock, Mutexes, blocks, lists, Control, Counts, Phases, TypeOK
  <1>6. Holders'
    BY DEF IInv, TickEnds, Goto, Unlock, Mutexes, blocks, lists, Holders, Phases, TypeOK, Pcs
  <1>7. Private'
    BY DEF IInv, TickEnds, Goto, Unlock, Mutexes, blocks, lists, Private, Phases, TypeOK, Pcs
  <1>8. QED
    BY <1>2, <1>3, <1>4, <1>5, <1>6, <1>7 DEF IInv

-----------------------------------------------------------------------------
(* Every step keeps the invariant.                                         *)
LEMMA NextIInv == OneArrayUser /\ IInv /\ [Next]_vars => IInv'
  <1> SUFFICES ASSUME OneArrayUser, IInv, [Next]_vars PROVE IInv'
    OBVIOUS
  <1>1. ASSUME NEW t \in Thread, Proceed(t) PROVE IInv'
    BY <1>1, ReleaseIInv, DestroyIInv, FreeIInv, ReleaseControlIInv, ReadOwnersIInv,
       SwapIInv, AddrefFoundIInv, TickEndsIInv DEF Proceed, ReleaseTemp
  <1>2. ASSUME NEW t \in Thread, Begin(t) PROVE IInv'
    <2>1. CASE \E u \in Thread \ {t} : Addref(t, u)
      BY <2>1, AddrefIInv
    <2>2. CASE ReleaseOwn(t)
      <3>1. Release(t, Own(t), "idle")
        BY <2>2 DEF ReleaseOwn
      <3>2. QED
        BY <3>1, ReleaseIInv, Zenon
    <2>3. CASE ReleaseWeak(t) \/ GetWeak(t) \/ GetRef(t) \/ Lookup(t) \/ AddSource(t)
      BY <2>3, ReleaseWeakIInv, GetWeakIInv, GetRefIInv, LookupIInv, AddSourceIInv
    <2>4. CASE Remove(t) \/ Find(t) \/ Tick(t)
      BY <2>4, RemoveIInv, FindIInv, TickIInv
    <2>5. QED
      BY <1>2, <2>1, <2>2, <2>3, <2>4 DEF Begin
  <1>3. CASE UNCHANGED vars
    BY <1>3 DEF vars, blocks, lists, local, IInv, TypeOK, Counts, Phases, Dying,
                Control, Holders, Private
  <1>4. QED
    BY <1>1, <1>2, <1>3 DEF Next

(* The invariant is inductive, whatever the number of threads.             *)
LEMMA Invariance == OneArrayUser /\ Spec => []IInv
  <1>1. SUFFICES ASSUME OneArrayUser PROVE Spec => []IInv
    OBVIOUS
  <1>2. IInv /\ [Next]_vars => IInv'
    BY <1>1, NextIInv
  <1>3. QED
    BY <1>2, InitIInv, PTL DEF Spec

(* Nobody uses the object after it is freed: not the owners of references, *)
(* not the thread that destroys it, not the graphics thread that visits it *)
(* in the list, not obs_get_source_by_name.                                *)
THEOREM NoUseAfterFreeHolds == OneArrayUser /\ Spec => []NoUseAfterFree
  <1>1. IInv => NoUseAfterFree
    <2> SUFFICES ASSUME IInv, object = "freed" PROVE NoUseAfterFree
      BY DEF NoUseAfterFree
    <2>1. ~listed /\ strong = {}
      BY DEF IInv, Phases
    <2>2. \A t \in Thread : pc[t] \notin {"ticking", "found", "destroy", "free"}
      BY <2>1, RefAssumption DEF IInv, Phases, Holders, Private
    <2>3. QED
      BY <2>1, <2>2 DEF NoUseAfterFree
  <1>2. QED
    BY <1>1, Invariance, PTL

(* The control block lives exactly as long as a weak reference, the object *)
(* or a lookup under the list's mutex needs it, and nothing is leaked.     *)
THEOREM ControlSoundHolds == OneArrayUser /\ Spec => []ControlSound
  <1>1. IInv => ControlSound
    <2> SUFFICES ASSUME IInv PROVE ControlSound
      OBVIOUS
    <2>1. ControlOutlives
      <3> SUFFICES ASSUME control = "freed" PROVE ControlOutlives
        BY DEF ControlOutlives
      <3>1. weak = {} /\ ~listed /\ strong = {}
        BY DEF IInv, Control, Phases
      <3>2. object = "freed"
        BY <3>1 DEF IInv, Phases, TypeOK
      <3>3. \A t \in Thread : pc[t] \notin {"read", "swap", "release_control"}
        BY <3>1, RefAssumption DEF IInv, Phases, Holders
      <3>4. QED
        BY <3>1, <3>2, <3>3 DEF ControlOutlives
    <2>2. NothingLeaks
      BY DEF IInv, NothingLeaks, Phases, Control, TypeOK
    <2>3. QED
      BY <2>1, <2>2 DEF ControlSound, IInv
  <1>2. QED
    BY <1>1, Invariance, PTL

(* The counts, the list and the control block implement SharedObject: an   *)
(* object nobody owns is never owned again, and is freed only then.        *)
THEOREM RefinementHolds == OneArrayUser /\ Spec => RefinesSharedObject
  <1> DEFINE Step == [Abstract!Own \/ Abstract!Free]_<<strong, object>>
  <1>1. Init => Abstract!Init
    BY References DEF Init, Abstract!Init
  <1>2. IInv /\ IInv' /\ [Next]_vars => Step
    <2> SUFFICES ASSUME IInv, IInv', [Next]_vars PROVE Step
      OBVIOUS
    <2>1. CASE UNCHANGED vars
      BY <2>1 DEF vars, blocks
    <2>2. ASSUME NEW t \in Thread, Proceed(t) PROVE Step
      <3>1. CASE ReleaseTemp(t) \/ Swap(t) \/ AddrefFound(t)
        <4>1. UNCHANGED object
          BY <3>1 DEF ReleaseTemp, Release, Swap, AddrefFound, blocks
        <4>2. strong # {} \/ UNCHANGED strong
          BY <3>1, NoOwner DEF ReleaseTemp, Release, Swap, AddrefFound, IInv, Private
        <4>3. QED
          BY <4>1, <4>2 DEF Abstract!Own, IInv, TypeOK
      <3>2. CASE Free(t)
        BY <3>2 DEF Free, Abstract!Free, IInv, Phases
      <3>3. CASE Destroy(t) \/ ReleaseControl(t) \/ ReadOwners(t) \/ TickEnds(t)
        BY <3>3 DEF Destroy, ReleaseControl, ReadOwners, TickEnds, blocks
      <3>4. QED
        BY <2>2, <3>1, <3>2, <3>3 DEF Proceed
    <2>3. ASSUME NEW t \in Thread, Begin(t) PROVE Step
      <3>1. CASE \E u \in Thread \ {t} : Addref(t, u)
        BY <3>1 DEF Addref, blocks, Abstract!Own, IInv, TypeOK
      <3>2. CASE ReleaseOwn(t) \/ AddSource(t) \/ Remove(t)
        <4>1. UNCHANGED object /\ strong # {}
          BY <3>2 DEF ReleaseOwn, Release, AddSource, Remove, blocks
        <4>2. QED
          BY <4>1 DEF Abstract!Own, IInv, TypeOK
      <3>3. CASE ReleaseWeak(t) \/ GetWeak(t) \/ GetRef(t) \/ Lookup(t) \/ Find(t) \/ Tick(t)
        BY <3>3 DEF ReleaseWeak, GetWeak, GetRef, Lookup, Find, Tick, blocks
      <3>4. QED
        BY <2>3, <3>1, <3>2, <3>3 DEF Begin
    <2>4. QED
      BY <2>1, <2>2, <2>3 DEF Next
  <1>3. QED
    BY <1>1, <1>2, Invariance, PTL DEF Spec, RefinesSharedObject, Abstract!Spec

=============================================================================
