-------------------------------- MODULE ObsRef --------------------------------
(***************************************************************************)
(* Strong and weak references of libobs objects (struct obs_weak_ref in    *)
(* obs-internal.h): one object with its control block, the list of         *)
(* contexts it is in, and the array of the user's sources, which owns a    *)
(* reference.  The functions named are those of sources; outputs, encoders *)
(* and services count the same way and only have no array.                 *)
(*                                                                         *)
(* Every atomic instruction is a step; what runs under a mutex is one step *)
(* unless another thread can see the middle of it.  A thread owns at most  *)
(* one strong and one weak reference: threads that own more are several    *)
(* members of Thread.                                                      *)
(***************************************************************************)
EXTENDS Integers, FiniteSets

CONSTANTS
    Thread,     \* the threads that use the object
    None,       \* no thread
    ArrayUser   \* the threads that use the array of the user's sources

ASSUME RefAssumption ==
    /\ IsFiniteSet(Thread) /\ None \notin Thread
    /\ ArrayUser \subseteq Thread

VARIABLES
    refs, weak_refs,    \* struct obs_weak_ref
    object, control,    \* the two blocks of memory: "alive" or "freed"
    listed,             \* the context is in data->first_source
    removed,            \* source->removed
    mutex,              \* who holds each of the two mutexes
    pc, expected,       \* per thread: where it is, its local `owners`
    strong,             \* the strong references: <<who, what for>>
    weak                \* who owns a weak reference; None: the object itself

blocks == <<object, control>>
lists == <<listed, removed>>
local == <<pc, expected>>
vars == <<refs, weak_refs, blocks, lists, mutex, local, strong, weak>>

Mutexes == {"sources_mutex", "user_sources_mutex"}
UserList == <<None, "list">>
Ref == (Thread \X {"own", "temp"}) \cup {UserList}
Own(t) == <<t, "own">>
Temp(t) == <<t, "temp">>

(* obs_source_create: its caller owns the reference that refs = 0 stands   *)
(* for, the object itself the one of weak_refs = 0.                        *)
Init ==
    /\ refs = 0 /\ weak_refs = 0
    /\ object = "alive" /\ control = "alive"
    /\ listed = TRUE /\ removed = FALSE
    /\ mutex = [m \in Mutexes |-> None]
    /\ pc = [t \in Thread |-> "idle"] /\ expected = [t \in Thread |-> 0]
    /\ \E t \in Thread : strong = {Own(t)}
    /\ weak = {None}

Goto(t, to) == pc' = [pc EXCEPT ![t] = to]
Lock(t, m) == mutex[m] = None /\ mutex' = [mutex EXCEPT ![m] = t]
Unlock(t) == mutex' = [m \in Mutexes |-> IF mutex[m] = t THEN None ELSE mutex[m]]

\* -------------------------------------------------------- strong references

(* obs_source_addref, for somebody else.                                   *)
Addref(t, u) ==
    /\ pc[t] = "idle" /\ Own(t) \in strong
    /\ pc[u] = "idle" /\ Own(u) \notin strong
    /\ refs' = refs + 1 /\ strong' = strong \cup {Own(u)}
    /\ UNCHANGED <<weak_refs, blocks, lists, mutex, local, weak>>

(* Mutant: an owner too early.                                             *)
LastRelease_early == refs' = 0

(* Mutant: 0 taken for one more owner.                                     *)
LastRelease_late == refs' = -2

(* obs_ref_release: os_atomic_dec_long returned -1.                        *)
LastRelease == refs' = -1

(* obs_source_release: the last one destroys.                              *)
Release(t, ref, at) ==
    /\ pc[t] = at /\ ref \in strong
    /\ refs' = refs - 1 /\ strong' = strong \ {ref}
    /\ Goto(t, IF LastRelease THEN "destroy" ELSE "idle")
    /\ UNCHANGED <<weak_refs, blocks, lists, mutex, expected, weak>>

ReleaseOwn(t) == Release(t, Own(t), "idle")
ReleaseTemp(t) == Release(t, Temp(t), "removing")

(* Mutant: the context stays listed.                                       *)
Destroy_listed(t) ==
    /\ pc[t] = "destroy"
    /\ Goto(t, "free")
    /\ UNCHANGED <<refs, weak_refs, blocks, lists, mutex, expected, strong, weak>>

(* obs_source_destroy: obs_context_data_remove takes the list's mutex.     *)
Destroy(t) ==
    /\ pc[t] = "destroy" /\ mutex["sources_mutex"] = None
    /\ listed' = FALSE
    /\ Goto(t, "free")
    /\ UNCHANGED <<refs, weak_refs, blocks, removed, mutex, expected, strong, weak>>

Free(t) ==
    /\ pc[t] = "free"
    /\ object' = "freed"
    /\ Goto(t, "release_control")
    /\ UNCHANGED <<refs, weak_refs, control, lists, mutex, expected, strong, weak>>

\* ---------------------------------------------------------- weak references

(* obs_weak_source_release: the last one frees the control block.          *)
DropWeak(who) ==
    /\ weak_refs' = weak_refs - 1 /\ weak' = weak \ {who}
    /\ control' = IF weak_refs' = -1 THEN "freed" ELSE control

(* The end of obs_source_release: the object's own weak reference.         *)
ReleaseControl(t) ==
    /\ pc[t] = "release_control"
    /\ DropWeak(None)
    /\ Goto(t, "idle")
    /\ UNCHANGED <<refs, object, lists, mutex, expected, strong>>

ReleaseWeak(t) ==
    /\ pc[t] = "idle" /\ t \in weak
    /\ DropWeak(t)
    /\ UNCHANGED <<refs, object, lists, mutex, local, strong>>

(* obs_source_get_weak_source.                                             *)
GetWeak(t) ==
    /\ pc[t] = "idle" /\ Own(t) \in strong /\ t \notin weak
    /\ weak_refs' = weak_refs + 1 /\ weak' = weak \cup {t}
    /\ UNCHANGED <<refs, blocks, lists, mutex, local, strong>>

(* obs_weak_source_get_source: begins obs_weak_ref_get_ref.                *)
GetRef(t) ==
    /\ pc[t] = "idle" /\ t \in weak /\ Own(t) \notin strong
    /\ Goto(t, "read")
    /\ UNCHANGED <<refs, weak_refs, blocks, lists, mutex, expected, strong, weak>>

(* obs_get_output_by_name, get_context_by_name: the same, under the list's *)
(* mutex and with no reference at all.                                     *)
Lookup(t) ==
    /\ pc[t] = "idle" /\ Own(t) \notin strong /\ listed
    /\ Lock(t, "sources_mutex")
    /\ Goto(t, "read")
    /\ UNCHANGED <<refs, weak_refs, blocks, lists, expected, strong, weak>>

(* owners = ref->refs; while (owners > -1).                                *)
ReadOwners(t) ==
    /\ pc[t] = "read"
    /\ expected' = [expected EXCEPT ![t] = refs]
    /\ IF refs > -1
       THEN Goto(t, "swap") /\ UNCHANGED mutex
       ELSE Goto(t, "idle") /\ Unlock(t)
    /\ UNCHANGED <<refs, weak_refs, blocks, lists, strong, weak>>

(* Mutant: an increment in place of the compare-and-swap.                  *)
Swap_blind(t) ==
    /\ pc[t] = "swap"
    /\ refs' = refs + 1 /\ strong' = strong \cup {Own(t)}
    /\ Goto(t, "idle") /\ Unlock(t)
    /\ UNCHANGED <<weak_refs, blocks, lists, expected, weak>>

(* os_atomic_compare_swap_long; owners is read again when it fails.        *)
Swap(t) ==
    /\ pc[t] = "swap"
    /\ IF refs = expected[t]
       THEN /\ refs' = refs + 1 /\ strong' = strong \cup {Own(t)}
            /\ Goto(t, "idle") /\ Unlock(t)
       ELSE /\ Goto(t, "read")
            /\ UNCHANGED <<refs, strong, mutex>>
    /\ UNCHANGED <<weak_refs, blocks, lists, expected, weak>>

\* -------------------------------------------------- the array user_sources

(* obs_add_source: once, of a source that is not removed.                  *)
AddSource(t) ==
    /\ t \in ArrayUser /\ pc[t] = "idle" /\ Own(t) \in strong
    /\ UserList \notin strong /\ ~removed
    /\ mutex["sources_mutex"] = None
    /\ refs' = refs + 1 /\ strong' = strong \cup {UserList}
    /\ UNCHANGED <<weak_refs, blocks, lists, mutex, local, weak>>

(* obs_source_remove: a reference of its own, and the array's is released. *)
Remove(t) ==
    /\ t \in ArrayUser /\ pc[t] = "idle" /\ Own(t) \in strong /\ ~removed
    /\ mutex["sources_mutex"] = None
    /\ removed' = TRUE
    /\ strong' = (strong \ {UserList}) \cup {Temp(t)}
    /\ refs' = IF UserList \in strong THEN refs ELSE refs + 1
    /\ Goto(t, "removing")
    /\ UNCHANGED <<weak_refs, blocks, listed, mutex, expected, weak>>

(* obs_get_source_by_name finds it in the array, which it reads under      *)
(* another mutex than the two that write it.                               *)
Find(t) ==
    /\ t \in ArrayUser /\ pc[t] = "idle"
    /\ Own(t) \notin strong /\ UserList \in strong
    /\ Lock(t, "user_sources_mutex")
    /\ Goto(t, "found")
    /\ UNCHANGED <<refs, weak_refs, blocks, lists, expected, strong, weak>>

(* obs_source_addref in obs_get_source_by_name.                            *)
AddrefFound(t) ==
    /\ pc[t] = "found"
    /\ refs' = refs + 1 /\ strong' = strong \cup {Own(t)}
    /\ Goto(t, "idle") /\ Unlock(t)
    /\ UNCHANGED <<weak_refs, blocks, lists, expected, weak>>

(* tick_sources (obs-video.c) visits what is listed and takes no reference. *)
Tick(t) ==
    /\ pc[t] = "idle" /\ listed
    /\ Lock(t, "sources_mutex")
    /\ Goto(t, "ticking")
    /\ UNCHANGED <<refs, weak_refs, blocks, lists, expected, strong, weak>>

TickEnds(t) ==
    /\ pc[t] = "ticking"
    /\ Goto(t, "idle") /\ Unlock(t)
    /\ UNCHANGED <<refs, weak_refs, blocks, lists, expected, strong, weak>>

(* What a thread does by itself once it has begun.                         *)
Proceed(t) ==
    \/ ReleaseTemp(t) \/ Destroy(t) \/ Free(t) \/ ReleaseControl(t)
    \/ ReadOwners(t) \/ Swap(t) \/ AddrefFound(t) \/ TickEnds(t)

Begin(t) ==
    \/ \E u \in Thread \ {t} : Addref(t, u)
    \/ ReleaseOwn(t) \/ ReleaseWeak(t) \/ GetWeak(t) \/ GetRef(t)
    \/ Lookup(t) \/ AddSource(t) \/ Remove(t) \/ Find(t) \/ Tick(t)

Next == \E t \in Thread : Proceed(t) \/ Begin(t)

Spec == Init /\ [][Next]_vars

(* Every thread goes on with what it has begun.                            *)
FairSpec == Spec /\ \A t \in Thread : WF_vars(Proceed(t)) /\ SF_vars(Destroy(t))

\* ---------------------------------------------------------------- properties

Pcs == {"idle", "destroy", "free", "release_control", "read", "swap",
        "removing", "found", "ticking"}

(* The type invariant.                                                     *)
TypeOK ==
    /\ refs \in Nat \cup {-1} /\ weak_refs \in Nat \cup {-1}
    /\ object \in {"alive", "freed"} /\ control \in {"alive", "freed"}
    /\ listed \in BOOLEAN /\ removed \in BOOLEAN
    /\ mutex \in [Mutexes -> Thread \cup {None}]
    /\ pc \in [Thread -> Pcs] /\ expected \in [Thread -> Nat \cup {-1}]
    /\ strong \in SUBSET Ref /\ weak \in SUBSET (Thread \cup {None})

(* The object is not freed while anybody uses it: the owner of a strong    *)
(* reference, the thread that frees it, the one that visits it in the list *)
(* without a reference (obs_context_data_remove waits for its end), or the *)
(* one that obs_get_source_by_name finds it for.  The last holds while one *)
(* thread, the frontend's, adds, removes and finds.                        *)
NoUseAfterFree ==
    object = "freed" =>
        /\ strong = {}
        /\ \A t \in Thread : pc[t] \notin {"ticking", "found", "destroy", "free"}

(* The control block outlives the object, every weak reference, and every  *)
(* lookup that reaches it only through the list (the comment in            *)
(* obs_output_release on the order of its operations).                     *)
ControlOutlives ==
    control = "freed" =>
        /\ object = "freed" /\ weak = {}
        /\ \A t \in Thread : pc[t] \notin {"read", "swap", "release_control"}

(* Nothing is leaked: without references and with nobody at work on it,    *)
(* the object is gone, and so is its control block.                        *)
NothingLeaks ==
    /\ strong = {} /\ (\A t \in Thread : pc[t] \notin {"destroy", "free"})
          => object = "freed"
    /\ weak = {} => control = "freed"

(* An object nobody owns is freed, although lookups and ticks may keep     *)
(* taking the mutex that its destruction needs.                            *)
EventuallyFreed == strong = {} ~> object = "freed"

(* The counts, the list and the control block together keep the promise of *)
(* SharedObject.                                                           *)
Abstract == INSTANCE SharedObject WITH
    Owner <- Ref, owners <- strong, object <- object
RefinesSharedObject == Abstract!Spec

(* The control block lives exactly as long as it is needed.                *)
ControlSound == TypeOK /\ ControlOutlives /\ NothingLeaks

=============================================================================
