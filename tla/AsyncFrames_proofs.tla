--------------------------- MODULE AsyncFrames_proofs ---------------------------
(***************************************************************************)
(* Proofs about the frames of an asynchronous source, for all timestamps,  *)
(* sizes of the queue and bounds: no frame is used after it was freed,     *)
(* leaked or shared, and a tick takes the newest frame that is due.        *)
(***************************************************************************)
EXTENDS AsyncFrames, FiniteSetTheorems, SequenceTheorems, WellFoundedInduction,
        TLAPS

(* What the theorems suppose: one thread captures the source, its textures *)
(* can be made, and memory lasts for the frames that are ever allocated at *)
(* a time.                                                                 *)
OneSource == \E c : Capture = {c}
MemoryLasts == ~IsFiniteSet(Frame) \/ Cardinality(Frame) > MaxFrames + 5
Supposed == OneSource /\ ~TextureFails /\ MemoryLasts

Pending == [frame : Frame, ts : Int]
Copy == [frame : Frame \cup {None}, ts : Int, at : {"idle", "copy", "push"}]

(* Types, and the part of them that only the steps before it ensure: there *)
(* is room in the queue for the picture that is being copied.              *)
Types ==
    /\ refs \in [Frame -> Nat]
    /\ used \subseteq async_cache /\ async_cache \subseteq Frame
    /\ unused_count \in [Frame -> 0..(MaxUnused - 1)]
    /\ async_frames \in Seq(Pending) /\ Len(async_frames) <= MaxFrames
    /\ cur_async_frame \in Frame \cup {None}
    /\ last_set \in BOOLEAN /\ unbuffered \in BOOLEAN /\ newest \in Int
    /\ copy \in [Capture -> Copy]
    /\ hold \in [Reader -> Frame \cup {None}]
    /\ at \in {"tick", "get", "render"} /\ changes \in 0..MaxChanges

Room(c) ==
    IF copy[c].at = "idle" THEN copy[c].frame = None
    ELSE copy[c].frame \in Frame /\ Len(async_frames) < MaxFrames

(* Nothing is at two places.                                               *)
Apart(c) ==
    /\ \A i, j \in DOMAIN async_frames :
          async_frames[i].frame = async_frames[j].frame => i = j
    /\ hold["graphics"] = hold["frontend"] => hold["graphics"] = None
    /\ \A f \in Queued : f # cur_async_frame /\ f # copy[c].frame /\ f \notin Held
    /\ cur_async_frame # None =>
          cur_async_frame # copy[c].frame /\ cur_async_frame \notin Held
    /\ copy[c].frame \notin Held

(* The frames in use are those that are somewhere.  A reader may hold one  *)
(* that the cache has let go, and nobody else.                             *)
InUse(c) ==
    /\ Queued \subseteq used /\ NotDrawn \subseteq used
    /\ copy[c].frame # None => copy[c].frame \in used
    /\ Held \cap async_cache \subseteq used
    /\ \A f \in used : f \in Queued \/ f = cur_async_frame \/ f = copy[c].frame \/ f \in Held

(* References are counted.                                                 *)
Refs(f, frames, c) ==
    (IF f \in frames THEN 1 ELSE 0) + (IF f \in Held THEN 1 ELSE 0)
    + (IF copy[c].frame = f /\ copy[c].at = "copy" THEN 1 ELSE 0)

Counted(c) == \A f \in Frame : refs[f] = Refs(f, async_cache, c)

(* A frame is allocated only when all others of the cache are in use.      *)
Bounded == IsFiniteSet(async_cache) /\ Cardinality(async_cache) <= MaxFrames + 3

(* The inductive invariant.                                                *)
IInv(c) == Types /\ Room(c) /\ Apart(c) /\ InUse(c) /\ Counted(c) /\ Bounded
-----------------------------------------------------------------------------
(* Every set of numbers has a least one.                                   *)
LEMMA LeastExists ==
    ASSUME NEW S \in SUBSET Nat, S # {}
    PROVE  \E m \in S : \A n \in S : m <= n
  <1> DEFINE R == OpToRel(<, Nat)
  <1>1. IsWellFoundedOn(R, Nat)
    BY NatLessThanWellFounded
  <1>2. \A m, n \in Nat : m < n => <<m, n>> \in R
    BY DEF OpToRel
  <1> HIDE DEF R
  <1>3. PICK m \in S : \A n \in S : <<n, m>> \notin R
    BY <1>1, WFMin
  <1>4. ASSUME NEW n \in S PROVE m <= n
    <2>1. m \in Nat /\ n \in Nat
      OBVIOUS
    <2>2. ~(n < m)
      BY <1>2, <1>3, <2>1
    <2>3. QED
      BY <2>1, <2>2
  <1>5. QED
    BY <1>4

(* Induction over the natural numbers, for a set.                          *)
LEMMA NatSet ==
    ASSUME NEW T, 0 \in T, \A n \in Nat : n \in T => n + 1 \in T
    PROVE  \A n \in Nat : n \in T
  <1> SUFFICES ASSUME Nat \ T # {} PROVE FALSE
    OBVIOUS
  <1>1. PICK m \in Nat \ T : \A n \in Nat \ T : m <= n
    BY LeastExists
  <1>2. m # 0 /\ m - 1 \in Nat
    BY <1>1
  <1>3. m - 1 \in T
    BY <1>1, <1>2
  <1>4. QED
    BY <1>1, <1>2, <1>3

(* The address that is taken, and where the loop ends, are in their sets.  *)
LEMMA LowestIsThere ==
    ASSUME NEW S \in SUBSET Nat, S # {}
    PROVE  Lowest(S) \in S
  BY LeastExists DEF Lowest

LEMMA MinIsThere ==
    ASSUME NEW S \in SUBSET Nat, S # {}
    PROVE  Min(S) \in S /\ \A n \in S : Min(S) <= n
  BY LeastExists DEF Min

-----------------------------------------------------------------------------
(* The sets of the properties: with one capture thread, and with the two   *)
(* readers.                                                                *)
LEMMA OneCopy ==
    ASSUME NEW c, Capture = {c}
    PROVE  Copying = {copy[c].frame} \ {None}
  BY DEF Copying

LEMMA HeldFrames ==
    \A f : f \in Held <=> f # None /\ (hold["graphics"] = f \/ hold["frontend"] = f)
  BY DEF Held, Reader

(* A set with one element more.                                            *)
LEMMA OneMore ==
    ASSUME NEW S, NEW x, NEW n \in Nat, IsFiniteSet(S), Cardinality(S) <= n
    PROVE  IsFiniteSet(S \cup {x}) /\ Cardinality(S \cup {x}) <= n + 1
  <1>1. Cardinality(S) \in Nat
    BY FS_CardinalityType
  <1>2. /\ IsFiniteSet(S \cup {x})
        /\ \/ Cardinality(S \cup {x}) = Cardinality(S)
           \/ Cardinality(S \cup {x}) = Cardinality(S) + 1
    BY FS_AddElement
  <1>3. QED
    BY <1>1, <1>2

(* Frames that are allocated: at most those of the cache and of the two    *)
(* readers.                                                                *)
LEMMA RoomLeft ==
    ASSUME NEW c, IInv(c), MemoryLasts, MaxFrames \in Nat
    PROVE  IsFiniteSet(Alive) /\ Alive # Frame /\ Alive \subseteq Frame
  <1> DEFINE all == (async_cache \cup {hold["graphics"]}) \cup {hold["frontend"]}
  <1>1. Alive \subseteq all
    <2> SUFFICES ASSUME NEW f \in Alive PROVE f \in all
      OBVIOUS
    <2>1. f \in Frame /\ refs[f] > 0 /\ refs[f] = Refs(f, async_cache, c)
      BY DEF Alive, IInv, Counted
    <2>2. CASE copy[c].frame = f /\ copy[c].at = "copy"
      BY <2>1, <2>2, AsyncAssumption DEF IInv, Types, InUse
    <2>3. CASE ~(copy[c].frame = f /\ copy[c].at = "copy")
      BY <2>1, <2>3, HeldFrames DEF Refs
    <2>4. QED
      BY <2>2, <2>3
  <1>2. PICK n \in Nat : n = MaxFrames + 3
    OBVIOUS
  <1>3. n + 1 \in Nat /\ IsFiniteSet(all) /\ Cardinality(all) <= (n + 1) + 1
    <2>1. IsFiniteSet(async_cache) /\ Cardinality(async_cache) <= n
      BY <1>2 DEF IInv, Bounded
    <2> DEFINE some == async_cache \cup {hold["graphics"]}
    <2>2. IsFiniteSet(some) /\ Cardinality(some) <= n + 1
      BY <2>1, OneMore
    <2>3. n + 1 \in Nat
      OBVIOUS
    <2> HIDE DEF some
    <2>4. IsFiniteSet(some \cup {hold["frontend"]})
          /\ Cardinality(some \cup {hold["frontend"]}) <= (n + 1) + 1
      BY <2>2, <2>3, OneMore
    <2>5. QED
      BY <2>3, <2>4 DEF some
  <1>4. IsFiniteSet(all) /\ Cardinality(all) <= MaxFrames + 5 /\ Cardinality(all) \in Nat
    BY <1>2, <1>3, FS_CardinalityType
  <1> HIDE DEF all
  <1>5. /\ IsFiniteSet(Alive) /\ Cardinality(Alive) <= Cardinality(all)
        /\ Cardinality(Alive) \in Nat
    BY <1>1, <1>4, FS_Subset, FS_CardinalityType
  <1>6. Alive # Frame
    BY <1>4, <1>5 DEF MemoryLasts
  <1>7. QED
    BY <1>5, <1>6 DEF Alive
-----------------------------------------------------------------------------
(* The search for the frame of a tick: a loop over the queue q that begins *)
(* with start and goes n frames far.                                       *)
Turn(before, q, i) ==
    IF Jump(q[i + 1].ts - q[i].ts)
    THEN q[i + 1].ts - (q[i].ts - (IF i = 1 THEN 0 ELSE before))
    ELSE before

Loop(f, q, start, n) ==
    f = [i \in 0 .. n |-> IF i = 0 THEN start ELSE Turn(f[i - 1], q, i)]

(* What the loop has after each turn.                                      *)
LEMMA LoopTurn ==
    ASSUME NEW f, NEW q, NEW start, NEW n \in Nat, Loop(f, q, start, n)
    PROVE  /\ DOMAIN f = 0 .. n /\ f[0] = start
           /\ \A i \in 0 .. n - 1 : f[i + 1] = Turn(f[i], q, i + 1)
  <1> DEFINE g == [i \in 0 .. n |-> IF i = 0 THEN start ELSE Turn(f[i - 1], q, i)]
  <1>1. f = g
    BY DEF Loop
  <1>2. \A i \in 0 .. n : g[i] = IF i = 0 THEN start ELSE Turn(f[i - 1], q, i)
    OBVIOUS
  <1>3. DOMAIN f = 0 .. n
    BY <1>1
  <1> HIDE DEF g
  <1>4. f[0] = start
    <2>1. PICK z \in 0 .. n : z = 0
      OBVIOUS
    <2>2. f[z] = start
      BY ONLY <1>1, <1>2, <2>1
    <2>3. QED
      BY <2>1, <2>2
  <1>5. ASSUME NEW i \in 0 .. n - 1 PROVE f[i + 1] = Turn(f[i], q, i + 1)
    <2>1. PICK j \in 0 .. n : j = i + 1
      OBVIOUS
    <2>2. j # 0 /\ j - 1 = i
      BY <2>1
    <2>3. f[j] = Turn(f[i], q, j)
      BY <1>1, <1>2, <2>2
    <2>4. QED
      BY <2>1, <2>3
  <1>6. QED
    BY <1>3, <1>4, <1>5

(* A recursive function is defined on every initial segment.               *)
LEMMA LoopExists ==
    ASSUME NEW q, NEW start, NEW n \in Nat
    PROVE  \E f : Loop(f, q, start, n)
  <1> DEFINE T == {m \in Nat : \E f : Loop(f, q, start, m)}
  <1>1. 0 \in T
    <2>1. Loop([i \in 0 .. 0 |-> start], q, start, 0)
      BY DEF Loop
    <2>2. QED
      BY <2>1
  <1>2. ASSUME NEW m \in Nat, m \in T PROVE m + 1 \in T
    <2>1. PICK f : Loop(f, q, start, m)
      BY <1>2
    <2> DEFINE g == [i \in 0 .. m + 1 |-> IF i = m + 1 THEN Turn(f[m], q, m + 1) ELSE f[i]]
    <2>2. ASSUME NEW i \in 0 .. m + 1
          PROVE  g[i] = IF i = 0 THEN start ELSE Turn(g[i - 1], q, i)
      <3>1. i # 0 => i - 1 \in 0 .. m /\ g[i - 1] = f[i - 1]
        OBVIOUS
      <3>2. CASE i = m + 1
        <4>1. i # 0 /\ i - 1 = m /\ g[i] = Turn(f[m], q, i) /\ g[i - 1] = f[m]
          BY <3>1, <3>2
        <4> HIDE DEF g
        <4>2. QED
          BY Zenon, <4>1
      <3>3. CASE i = 0
        <4>1. g[i] = start
          BY <2>1, <3>3, LoopTurn
        <4> HIDE DEF g
        <4>2. QED
          BY Zenon, <3>3, <4>1
      <3>4. CASE i \in 1 .. m
        <4>1. PICK j \in 0 .. m - 1 : i = j + 1
          <5>1. i - 1 \in 0 .. m - 1 /\ i = (i - 1) + 1
            BY <3>4
          <5>2. QED
            BY <5>1
        <4>2. f[i] = Turn(f[j], q, i)
          BY <2>1, <4>1, LoopTurn
        <4>3. g[i] = f[i] /\ i - 1 = j /\ g[j] = f[j] /\ i # 0
          BY <3>4, <4>1
        <4> HIDE DEF g
        <4>4. QED
          BY Zenon, <4>2, <4>3
      <3>5. QED
        BY <3>2, <3>3, <3>4
    <2>3. Loop(g, q, start, m + 1)
      BY <2>2 DEF Loop
    <2>4. QED
      BY <2>3
  <1>3. QED
    <2> HIDE DEF T
    <2>1. n \in T
      BY <1>1, <1>2, NatSet
    <2>2. QED
      BY <2>1 DEF T

(* last_frame_ts during the search.                                        *)
LEMMA SearchLoop ==
    ASSUME NEW start \in Int, async_frames \in Seq(Pending), async_frames # <<>>
    PROVE  LET f == LastFrameTs(start)
           IN  /\ f \in [0 .. Len(async_frames) - 1 -> Int] /\ f[0] = start
               /\ \A i \in 0 .. Len(async_frames) - 2 :
                     f[i + 1] = Turn(f[i], async_frames, i + 1)
  <1>1. PICK n \in Nat : n = Len(async_frames) - 1
    OBVIOUS
  <1>2. PICK f : f = LastFrameTs(start)
    OBVIOUS
  <1>3. Loop(f, async_frames, start, n)
    <2>1. \E g : Loop(g, async_frames, start, n)
      BY LoopExists
    <2>2. f = CHOOSE g : Loop(g, async_frames, start, n)
      BY <1>1, <1>2 DEF LastFrameTs, Loop, Turn
    <2>3. QED
      BY <2>1, <2>2
  <1>4. /\ DOMAIN f = 0 .. n /\ f[0] = start
        /\ \A i \in 0 .. n - 1 : f[i + 1] = Turn(f[i], async_frames, i + 1)
    BY <1>3, LoopTurn
  <1>5. \A i \in 1 .. n + 1 : async_frames[i].ts \in Int
    <2>1. \A i \in 1 .. Len(async_frames) : async_frames[i] \in Pending
      OBVIOUS
    <2>2. n + 1 = Len(async_frames)
      BY <1>1
    <2>3. QED
      BY <2>1, <2>2 DEF Pending
  <1>6. \A i \in 0 .. n : f[i] \in Int
    <2> DEFINE T == {m \in Nat : m <= n => f[m] \in Int}
    <2>1. 0 \in T
      BY <1>4
    <2>2. ASSUME NEW m \in Nat, m \in T PROVE m + 1 \in T
      <3> SUFFICES ASSUME m + 1 <= n PROVE f[m + 1] \in Int
        OBVIOUS
      <3>1. m \in 0 .. n - 1 /\ f[m] \in Int
        BY <2>2
      <3>2. f[m + 1] = Turn(f[m], async_frames, m + 1)
        BY <1>4, <3>1
      <3>3. async_frames[m + 1].ts \in Int /\ async_frames[(m + 1) + 1].ts \in Int
        BY <1>5, <3>1
      <3>4. QED
        BY <3>1, <3>2, <3>3 DEF Turn
    <2> HIDE DEF T
    <2>3. \A m \in Nat : m \in T
      BY <2>1, <2>2, NatSet
    <2>4. QED
      BY <2>3 DEF T
  <1>7. f \in [0 .. n -> Int]
    <2>1. f = [i \in 0 .. n |-> f[i]]
      BY <1>3 DEF Loop
    <2>2. QED
      BY <1>6, <2>1
  <1>8. n - 1 = Len(async_frames) - 2
    BY <1>1
  <1>9. QED
    BY <1>1, <1>2, <1>4, <1>7, <1>8

(* Where the search ends: before the first frame whose time has not come,  *)
(* if there is one.                                                        *)
EndsAt(f, p) ==
    /\ p \in 0 .. Len(async_frames) - 1
    /\ NotYet(f[p], async_frames[p + 1].ts) \/ p + 1 = Len(async_frames)
    /\ \A k \in 0 .. p - 1 : ~NotYet(f[k], async_frames[k + 1].ts)

Found(f, p) ==
    [ready |-> p > 0 \/ ~NotYet(f[0], async_frames[1].ts),
     gone |-> IF NotYet(f[p], async_frames[p + 1].ts) /\ p > 0 THEN p - 1 ELSE p,
     last |-> f[p]]

LEMMA SearchEnds ==
    ASSUME NEW start \in Int, async_frames \in Seq(Pending), async_frames # <<>>
    PROVE  LET f == LastFrameTs(start)
           IN  \E p : EndsAt(f, p) /\ Search(start) = Found(f, p)
  <1>1. PICK f : f = LastFrameTs(start)
    OBVIOUS
  <1>2. PICK n \in Nat : n = Len(async_frames) - 1
    OBVIOUS
  <1>3. f \in [0 .. n -> Int]
    BY <1>1, <1>2, SearchLoop
  <1> DEFINE ends == {i \in DOMAIN f : \/ NotYet(f[i], async_frames[i + 1].ts)
                                       \/ i + 1 = Len(async_frames)}
             p == Min(ends)
  <1>4. DOMAIN f = 0 .. n
    BY <1>3
  <1>5. ends \in SUBSET Nat /\ ends # {}
    <2>1. n \in ends
      BY <1>2, <1>4
    <2>2. QED
      BY <1>4, <2>1
  <1>6. p \in ends /\ \A i \in ends : p <= i
    <2> HIDE DEF ends
    <2>1. QED
      BY <1>5, MinIsThere
  <1>7. Search(start) = Found(f, p)
    BY <1>1, <1>6 DEF Search, Found
  <1>8. EndsAt(f, p)
    <2>1. p \in 0 .. n /\ p \in Nat
      BY <1>4, <1>6
    <2>2. NotYet(f[p], async_frames[p + 1].ts) \/ p + 1 = Len(async_frames)
      BY <1>6
    <2>3. ASSUME NEW k \in 0 .. p - 1 PROVE ~NotYet(f[k], async_frames[k + 1].ts)
      <3>1. k \in 0 .. n /\ ~(p <= k)
        BY <2>1
      <3>2. k \notin ends
        BY <1>6, <3>1
      <3>3. QED
        BY <1>4, <3>1, <3>2
    <2> HIDE DEF p
    <2>4. QED
      BY <1>2, <2>1, <2>2, <2>3 DEF EndsAt
  <1>9. QED
    BY <1>1, <1>7, <1>8

(* What a tick is told: which frame of the queue, if any.                  *)
LEMMA ClosestIsThere ==
    ASSUME NEW lag \in Lag, async_frames \in Seq(Pending)
    PROVE  LET closest == ClosestFrame(SysOffset(lag))
           IN  /\ closest.ready \in BOOLEAN /\ closest.last \in Int
               /\ closest.gone \in 0 .. Len(async_frames)
               /\ closest.ready => closest.gone < Len(async_frames)
  <1>1. PICK start \in Int : start = SysOffset(lag)
    BY AsyncAssumption DEF SysOffset
  <1>2. PICK closest : closest = ClosestFrame(start)
    OBVIOUS
  <1>3. CASE async_frames = <<>>
    BY <1>1, <1>2, <1>3 DEF ClosestFrame
  <1>4. CASE async_frames # <<>>
    <2>1. PICK n \in Nat : n + 1 = Len(async_frames)
      <3>1. Len(async_frames) - 1 \in Nat
        BY <1>4
      <3>2. QED
        BY <3>1
    <2>2. Head(async_frames).ts \in Int
      <3>1. Head(async_frames) \in Pending
        BY <1>4
      <3>2. QED
        BY <3>1 DEF Pending
    <2>3. \/ closest = [ready |-> TRUE, gone |-> 0, last |-> Head(async_frames).ts]
          \/ closest = [ready |-> TRUE, gone |-> Len(async_frames) - 1, last |-> 0]
          \/ closest = Search(start)
      BY <1>2, <1>4 DEF ClosestFrame, ReadyAsyncFrame
    <2>4. ASSUME closest = Search(start)
          PROVE  /\ closest.ready \in BOOLEAN /\ closest.last \in Int
                 /\ closest.gone \in 0 .. n
      <3>1. PICK f : f = LastFrameTs(start)
        OBVIOUS
      <3>2. PICK p : EndsAt(f, p) /\ closest = Found(f, p)
        BY <1>4, <2>4, <3>1, SearchEnds
      <3>3. p \in 0 .. n /\ f[p] \in Int
        <4>1. p \in 0 .. n
          BY <2>1, <3>2 DEF EndsAt
        <4>2. f \in [0 .. Len(async_frames) - 1 -> Int]
          BY <1>4, <3>1, SearchLoop
        <4>3. QED
          BY <2>1, <4>1, <4>2
      <3>4. closest.ready \in BOOLEAN /\ closest.last = f[p] /\ closest.gone \in 0 .. n
        BY <3>2, <3>3 DEF Found
      <3>5. QED
        BY <3>3, <3>4
    <2>5. closest.ready \in BOOLEAN /\ closest.last \in Int /\ closest.gone \in 0 .. n
      <3>1. CASE closest = [ready |-> TRUE, gone |-> 0, last |-> Head(async_frames).ts]
        BY <2>1, <2>2, <3>1
      <3>2. CASE closest = [ready |-> TRUE, gone |-> Len(async_frames) - 1, last |-> 0]
        <4>1. Len(async_frames) - 1 = n
          BY <2>1
        <4>2. QED
          BY <3>2, <4>1
      <3>3. QED
        BY <2>3, <2>4, <3>1, <3>2
    <2>6. QED
      BY <1>1, <1>2, <2>1, <2>5
  <1>5. QED
    BY <1>3, <1>4
-----------------------------------------------------------------------------

LEMMA QueuedFrames ==
    ASSUME async_frames \in Seq(Pending)
    PROVE  /\ DOMAIN async_frames = 1 .. Len(async_frames)
           /\ \A i \in 1 .. Len(async_frames) : async_frames[i] \in Pending
           /\ Queued \subseteq Frame /\ None \notin Queued
  <1>1. \A i \in DOMAIN async_frames : async_frames[i] \in Pending
    OBVIOUS
  <1>2. \A i \in DOMAIN async_frames : async_frames[i].frame \in Frame
    BY <1>1 DEF Pending
  <1>3. Queued \subseteq Frame
    BY <1>2 DEF Queued
  <1>4. DOMAIN async_frames = 1 .. Len(async_frames)
    OBVIOUS
  <1>5. None \notin Queued
    BY <1>3, AsyncAssumption
  <1>6. QED
    BY <1>1, <1>3, <1>4, <1>5

(* A frame of the cache, or one that is held, has references.              *)
LEMMA RefsPositive ==
    ASSUME NEW c, Types, Counted(c), NEW f \in Frame
    PROVE  refs[f] \in Nat /\ (f \in async_cache \/ f \in Held => refs[f] > 0)
  <1>1. PICK x \in {0, 1} : x = IF f \in async_cache THEN 1 ELSE 0
    OBVIOUS
  <1>2. PICK y \in {0, 1} : y = IF f \in Held THEN 1 ELSE 0
    OBVIOUS
  <1>3. PICK z \in {0, 1} : z = IF copy[c].frame = f /\ copy[c].at = "copy" THEN 1 ELSE 0
    OBVIOUS
  <1>4. refs[f] = x + y + z
    BY <1>1, <1>2, <1>3 DEF Counted, Refs
  <1>5. f \in async_cache \/ f \in Held => x + y + z > 0
    BY <1>1, <1>2
  <1>6. QED
    BY <1>4, <1>5 DEF Types

(* Each action keeps the invariant.                                        *)
LEMMA PushIInv ==
    ASSUME NEW c, Capture = {c}, IInv(c), Push(c)
    PROVE  IInv(c)'
  <1>1. PICK f \in Frame : f = copy[c].frame
    BY DEF IInv, Room, Push
  <1>2. copy[c].ts \in Int /\ f # None /\ copy[c].at = "push"
    BY <1>1, AsyncAssumption DEF IInv, Types, Copy, Push
  <1>3. copy'[c] = Idle /\ copy' \in [Capture -> Copy]
    BY DEF Push, IInv, Types, Copy, Idle
  <1>4. PICK n \in Nat : n = Len(async_frames)
    BY DEF IInv, Types
  <1>5. PICK p \in Pending : p = [frame |-> f, ts |-> copy[c].ts]
    BY <1>2 DEF Pending
  <1>6. /\ async_frames' \in Seq(Pending) /\ Len(async_frames') = n + 1
        /\ \A i \in 1 .. n : async_frames'[i] = async_frames[i]
        /\ async_frames'[n + 1].frame = f
    BY <1>1, <1>4, <1>5 DEF Push, IInv, Types
  <1>7. DOMAIN async_frames = 1 .. n /\ DOMAIN async_frames' = 1 .. (n + 1)
    BY <1>4, <1>6 DEF IInv, Types
  <1>8. \A g : g \in Queued' <=> g = f \/ g \in Queued
    BY <1>6, <1>7 DEF Queued
  <1>9. UNCHANGED <<refs, async_cache, used, unused_count, cur_async_frame, last_set,
                    unbuffered, newest, hold, at, changes>>
    BY DEF Push, cache, time, readers
  <1>10. UNCHANGED <<Held, NotDrawn>>
    BY <1>9 DEF Held, NotDrawn
  <1>11. Types'
    <2>1. n + 1 <= MaxFrames
      BY <1>2, <1>4, AsyncAssumption DEF IInv, Room
    <2>2. QED
      BY <1>3, <1>6, <1>9, <2>1 DEF IInv, Types
  <1>12. Room(c)'
    BY <1>3 DEF Room, Idle
  <1>13. Apart(c)'
    <2>1. f \notin Queued /\ f # cur_async_frame /\ f \notin Held
      BY <1>1, <1>2 DEF IInv, Apart
    <2>2. \A i, j \in DOMAIN async_frames' :
             async_frames'[i].frame = async_frames'[j].frame => i = j
      <3>1. \A i \in 1 .. n : async_frames'[i].frame = async_frames[i].frame
                              /\ async_frames'[i].frame # f
        BY <1>6, <1>7, <2>1 DEF Queued
      <3>2. \A i \in 1 .. (n + 1) : i \in 1 .. n \/ i = n + 1
        OBVIOUS
      <3>3. QED
        BY <1>6, <1>7, <3>1, <3>2 DEF IInv, Apart
    <2>3. None \notin Queued /\ None \notin Held
      BY QueuedFrames, HeldFrames DEF IInv, Types
    <2>4. QED
      BY <1>3, <1>8, <1>9, <1>10, <1>2, <2>1, <2>2, <2>3 DEF IInv, Apart, Idle
  <1>14. InUse(c)'
    BY <1>1, <1>2, <1>3, <1>8, <1>9, <1>10 DEF IInv, InUse, Idle
  <1>15. Counted(c)'
    BY <1>2, <1>3, <1>9, <1>10 DEF IInv, Counted, Refs, Idle
  <1>16. QED
    BY <1>9, <1>11, <1>12, <1>13, <1>14, <1>15 DEF IInv, Bounded

(* The last reference is the cache's.                                      *)
LEMMA CopiedIInv ==
    ASSUME NEW c, Capture = {c}, IInv(c), Copied(c)
    PROVE  IInv(c)'
  <1>1. PICK f \in Frame : f = copy[c].frame
    BY DEF IInv, Room, Copied
  <1>2. copy[c].at = "copy" /\ f # None /\ f \in async_cache /\ f \notin Held
    BY <1>1, AsyncAssumption DEF IInv, Types, Apart, InUse, Copied
  <1>3. refs[f] = 2
    BY <1>1, <1>2 DEF IInv, Counted, Refs
  <1>4. /\ refs' \in [Frame -> Nat] /\ refs'[f] = 1
        /\ \A g \in Frame \ {f} : refs'[g] = refs[g]
    BY <1>1, <1>3 DEF IInv, Types, Copied, Decref
  <1>5. /\ copy' \in [Capture -> Copy] /\ copy'[c].at = "push"
        /\ copy'[c].frame = f
    <2>1. copy' = [copy EXCEPT ![c] = [copy[c] EXCEPT !.at = "push"]]
      <3>1. refs'[copy[c].frame] > 0
        BY <1>1, <1>4
      <3>2. copy' = [copy EXCEPT ![c] = IF refs'[copy[c].frame] > 0
                                        THEN [copy[c] EXCEPT !.at = "push"] ELSE Idle]
        BY DEF Copied
      <3>3. QED
        BY <3>1, <3>2
    <2>2. copy[c] \in Copy
      BY DEF IInv, Types
    <2>3. [copy[c] EXCEPT !.at = "push"] \in Copy
      BY <2>2 DEF Copy
    <2>4. QED
      BY <1>1, <2>1, <2>2, <2>3 DEF IInv, Types, Copy
  <1>6. UNCHANGED <<async_cache, used, unused_count, async_frames, cur_async_frame,
                    last_set, unbuffered, newest, hold, at, changes>>
    BY DEF Copied, time, readers
  <1>7. UNCHANGED <<Held, NotDrawn, Queued>>
    BY <1>6 DEF Held, NotDrawn, Queued
  <1>8. Types'
    BY <1>4, <1>5, <1>6 DEF IInv, Types
  <1>9. Room(c)' /\ Apart(c)' /\ InUse(c)'
    BY <1>1, <1>2, <1>5, <1>6, <1>7 DEF IInv, Room, Apart, InUse
  <1>10. Counted(c)'
    BY <1>1, <1>2, <1>4, <1>5, <1>6, <1>7 DEF IInv, Counted, Refs
  <1>11. QED
    BY <1>6, <1>8, <1>9, <1>10 DEF IInv, Bounded

(* A reader has the frame instead of the source.                           *)
LEMMA GetFrameIInv ==
    ASSUME NEW c, Capture = {c}, IInv(c), NEW r \in Reader, GetFrame(r),
           at' \in {"tick", "get", "render"}
    PROVE  IInv(c)'
  <1>1. PICK f \in Frame : f = cur_async_frame
    BY DEF IInv, Types, GetFrame
  <1>2. /\ f # None /\ f \in used /\ f \notin Held /\ f # copy[c].frame
        /\ f \notin Queued
    BY <1>1, AsyncAssumption DEF IInv, Apart, InUse, NotDrawn, GetFrame
  <1>3. /\ hold[r] = None /\ hold' = [hold EXCEPT ![r] = f] /\ cur_async_frame' = None
        /\ hold' \in [Reader -> Frame \cup {None}]
    BY <1>1 DEF GetFrame, IInv, Types
  <1>4. \A g : g \in Held' <=> g = f \/ g \in Held
    BY <1>2, <1>3, HeldFrames DEF Held, Reader, IInv, Types
  <1>5. /\ refs' \in [Frame -> Nat] /\ refs'[f] = refs[f] + 1
        /\ \A g \in Frame \ {f} : refs'[g] = refs[g]
    BY <1>1 DEF IInv, Types, GetFrame, AddRef
  <1>6. UNCHANGED <<async_cache, used, unused_count, async_frames,
                    last_set, unbuffered, newest, copy, changes>>
    BY DEF GetFrame, time
  <1>7. UNCHANGED Queued /\ NotDrawn' = {}
    BY <1>3, <1>6 DEF NotDrawn, Queued
  <1>8. Types'
    BY <1>3, <1>5, <1>6 DEF IInv, Types
  <1>9. Room(c)'
    BY <1>6 DEF IInv, Room
  <1>10. Apart(c)'
    <2>1. hold'["graphics"] = hold'["frontend"] => hold'["graphics"] = None
      BY <1>2, <1>3, HeldFrames DEF IInv, Types, Reader
    <2>2. None \notin Queued
      BY QueuedFrames DEF IInv, Types
    <2>3. QED
      BY <1>2, <1>3, <1>4, <1>6, <1>7, <2>1, <2>2 DEF IInv, Apart
  <1>11. InUse(c)'
    BY <1>1, <1>2, <1>3, <1>4, <1>6, <1>7 DEF IInv, InUse
  <1>12. Counted(c)'
    BY <1>1, <1>2, <1>4, <1>5, <1>6 DEF IInv, Counted, Refs
  <1>13. QED
    BY <1>6, <1>8, <1>9, <1>10, <1>11, <1>12 DEF IInv, Bounded

(* A reader gives its frame back.                                          *)
LEMMA ReleaseIInv ==
    ASSUME NEW c, Capture = {c}, IInv(c), NEW r \in Reader, Release(hold[r]),
           hold' = [hold EXCEPT ![r] = None], at' \in {"tick", "get", "render"},
           UNCHANGED <<async_cache, unused_count, async_frames, cur_async_frame,
                       last_set, unbuffered, newest, copy, changes>>
    PROVE  IInv(c)'
  <1>1. PICK f \in Frame \cup {None} : f = hold[r]
    BY DEF IInv, Types
  <1>2. f # None => f \in Frame /\ f \in Held /\ f # copy[c].frame /\ f # cur_async_frame
                    /\ f \notin Queued
    BY <1>1, HeldFrames DEF IInv, Apart, Held
  <1>3. hold' \in [Reader -> Frame \cup {None}] /\ hold'[r] = None
        /\ \A s \in Reader \ {r} : hold'[s] = hold[s]
    BY DEF IInv, Types
  <1>4. \A g : g \in Held' <=> g \in Held /\ g # f
    BY <1>1, <1>3, HeldFrames DEF Held, Reader, IInv, Apart
  <1>5. used' = used \ {f}
    BY <1>1 DEF Release
  <1>6. /\ refs' \in [Frame -> Nat] /\ \A g \in Frame \ {f} : refs'[g] = refs[g]
        /\ f # None => refs'[f] = refs[f] - 1
    <2>1. refs' = [g \in Frame |-> IF g \in {f} THEN refs[g] - 1 ELSE refs[g]]
      BY <1>1 DEF Release, Decref
    <2>2. f # None => refs[f] > 0
      BY <1>2, RefsPositive DEF IInv
    <2>3. \A g \in Frame : refs[g] \in Nat
      BY DEF IInv, Types
    <2>4. \A g \in Frame : refs'[g] \in Nat
      <3>1. f \in Frame => f # None
        BY AsyncAssumption
      <3>2. QED
        BY <2>1, <2>2, <2>3, <3>1
    <2>5. QED
      BY <1>2, <2>1, <2>4
  <1>7. UNCHANGED <<Queued, NotDrawn>>
    BY DEF NotDrawn, Queued
  <1>8. Types'
    BY <1>3, <1>5, <1>6 DEF IInv, Types
  <1>9. Room(c)'
    BY DEF IInv, Room
  <1>10. Apart(c)'
    <2>1. hold'["graphics"] = hold'["frontend"] => hold'["graphics"] = None
      BY <1>3 DEF Reader
    <2>2. QED
      BY <1>4, <1>7, <2>1 DEF IInv, Apart
  <1>11. InUse(c)'
    <2>1. None \notin used
      BY AsyncAssumption DEF IInv, Types
    <2>2. QED
      BY <1>2, <1>4, <1>5, <1>7, <2>1 DEF IInv, InUse, NotDrawn
  <1>12. Counted(c)'
    <2> SUFFICES ASSUME NEW g \in Frame PROVE refs'[g] = Refs(g, async_cache, c)'
      BY DEF Counted
    <2>1. refs[g] = Refs(g, async_cache, c)
      BY DEF IInv, Counted
    <2>2. CASE g = f
      BY <1>2, <1>4, <1>6, <2>1, <2>2, AsyncAssumption DEF Refs
    <2>3. CASE g # f
      BY <1>4, <1>6, <2>1, <2>3 DEF Refs
    <2>4. QED
      BY <2>2, <2>3
  <1>13. QED
    BY <1>8, <1>9, <1>10, <1>11, <1>12 DEF IInv, Bounded

(* The cache is freed, and the picture that filled the queue is dropped.   *)
LEMMA OverrunIInv ==
    ASSUME NEW c, Capture = {c}, IInv(c), Overrun(c)
    PROVE  IInv(c)'
  <1>1. copy[c].at = "idle" /\ copy[c].frame = None
    BY DEF Overrun, IInv, Room
  <1>2. /\ async_cache' = {} /\ used' = {} /\ unused_count' = [f \in Frame |-> 0]
        /\ async_frames' = <<>> /\ cur_async_frame' = None
        /\ last_set' = FALSE /\ newest' = 0
        /\ UNCHANGED <<unbuffered, copy, hold, at, changes>>
    BY DEF Overrun, readers
  <1>3. /\ refs' \in [Frame -> Nat]
        /\ \A f \in Frame : refs'[f] = IF f \in async_cache THEN refs[f] - 1 ELSE refs[f]
    <2>1. \A f \in Frame : refs[f] \in Nat /\ (f \in async_cache => refs[f] > 0)
      BY RefsPositive DEF IInv
    <2>2. refs' = [f \in Frame |-> IF f \in async_cache THEN refs[f] - 1 ELSE refs[f]]
      BY DEF Overrun, FreeAsyncCache, Decref
    <2>3. QED
      BY <2>1, <2>2
  <1>4. UNCHANGED Held /\ Queued' = {} /\ NotDrawn' = {}
    BY <1>2 DEF Held, Queued, NotDrawn
  <1>5. Types'
    <2>1. MaxUnused \in Nat \ {0} /\ MaxFrames \in Nat \ {0}
      BY AsyncAssumption
    <2>2. <<>> \in Seq(Pending) /\ Len(<<>>) = 0
      OBVIOUS
    <2>3. [f \in Frame |-> 0] \in [Frame -> 0..(MaxUnused - 1)]
      BY <2>1
    <2>4. async_frames' \in Seq(Pending) /\ Len(async_frames') <= MaxFrames
      BY <1>2, <2>1, <2>2
    <2>5. used' \subseteq async_cache' /\ async_cache' \subseteq Frame
          /\ cur_async_frame' \in Frame \cup {None}
      BY <1>2, Zenon
    <2>6. newest' \in Int
      BY <1>2
    <2>7. last_set' \in BOOLEAN
      BY <1>2, Zenon
    <2>8. unused_count' \in [Frame -> 0..(MaxUnused - 1)]
      BY <1>2, <2>3
    <2>9. QED
      BY <1>2, <1>3, <2>4, <2>5, <2>6, <2>7, <2>8 DEF IInv, Types
  <1>6. Room(c)' /\ Apart(c)' /\ InUse(c)'
    BY <1>1, <1>2, <1>4 DEF IInv, Room, Apart, InUse
  <1>7. Counted(c)'
    BY <1>1, <1>2, <1>3, <1>4 DEF IInv, Counted, Refs
  <1>8. Bounded'
    BY <1>2, FS_EmptySet, AsyncAssumption DEF Bounded
  <1>9. QED
    BY <1>5, <1>6, <1>7, <1>8 DEF IInv

(* What a tick leaves of the queue.                                        *)
Rest(q, gone) == SubSeq(q, gone + 1, Len(q))
Left(q, gone, ready) == IF ready THEN Tail(Rest(q, gone)) ELSE Rest(q, gone)
After(left, last) == [i \in DOMAIN left |-> Since(left[i], last)]

LEMMA LeftInQueue ==
    ASSUME NEW q \in Seq(Pending), NEW k \in 0 .. Len(q), NEW last \in Int
    PROVE  LET after == After(SubSeq(q, k + 1, Len(q)), last)
           IN  /\ after \in Seq(Pending) /\ Len(after) = Len(q) - k
               /\ \A i \in 1 .. Len(q) - k : /\ after[i].frame = q[k + i].frame
                                             /\ after[i].ts = q[k + i].ts - last
  <1> DEFINE left == SubSeq(q, k + 1, Len(q))
             after == After(left, last)
  <1> HIDE DEF left, after
  <1>3. PICK n \in Nat : n = Len(q) - k /\ Len(q) \in Nat
    <2>1. Len(q) \in Nat /\ Len(q) - k \in Nat
      BY LenProperties
    <2>2. QED
      BY <2>1
  <1>4. /\ left \in Seq(Pending) /\ Len(left) = n
        /\ \A i \in 1 .. n : left[i] = q[k + i]
    <2>1. \A i \in k + 1 .. Len(q) : q[i] \in Pending
      OBVIOUS
    <2>2. /\ left \in Seq(Pending)
          /\ Len(left) = IF k + 1 <= Len(q) THEN Len(q) - (k + 1) + 1 ELSE 0
          /\ \A i \in 1 .. Len(q) - (k + 1) + 1 : left[i] = q[(k + 1) + i - 1]
      BY <2>1, SubSeqProperties DEF left
    <2>3. Len(left) = n /\ Len(q) - (k + 1) + 1 = n
      <3>1. PICK l \in Nat : l = Len(q)
        BY <1>3
      <3>2. n = l - k /\ k \in 0 .. l
        BY <1>3, <3>1
      <3>3. l - (k + 1) + 1 = n /\ (k + 1 <= l \/ n = 0)
        BY ONLY <3>2, l \in Nat
      <3>4. QED
        BY <2>2, <3>1, <3>3
    <2>4. \A i \in 1 .. n : left[i] = q[k + i]
      <3> TAKE i \in 1 .. n
      <3>1. (k + 1) + i - 1 = k + i
        OBVIOUS
      <3>2. QED
        BY <2>2, <2>3, <3>1
    <2>5. QED
      BY <2>2, <2>3, <2>4
  <1>5. DOMAIN left = 1 .. n /\ \A i \in 1 .. n : left[i] \in Pending
    BY <1>4, LenProperties, ElementOfSeq
  <1>6. \A i \in 1 .. n : /\ Since(left[i], last) \in Pending
                          /\ Since(left[i], last).frame = left[i].frame
                          /\ Since(left[i], last).ts = left[i].ts - last
    <2> TAKE i \in 1 .. n
    <2>1. PICK x \in Pending : x = left[i]
      BY <1>5
    <2>2. Since(x, last) = [frame |-> x.frame, ts |-> x.ts - last]
      BY DEF Since, Pending
    <2>3. x.frame \in Frame /\ x.ts \in Int
      BY DEF Pending
    <2>4. QED
      BY <2>1, <2>2, <2>3 DEF Pending
  <1>7. after \in [1 .. n -> Pending]
    BY <1>5, <1>6 DEF after, After
  <1>8. after \in Seq(Pending) /\ Len(after) = n
    BY <1>7, SeqDef, LenProperties
  <1>9. \A i \in 1 .. n : after[i].frame = q[k + i].frame /\ after[i].ts = q[k + i].ts - last
    BY <1>4, <1>5, <1>6 DEF after, After
  <1>10. QED
    BY <1>3, <1>8, <1>9 DEF left, after

(* A queue of n frames holds at most n frames.                             *)
LEMMA QueuedFew ==
    ASSUME async_frames \in Seq(Pending), NEW n \in Nat, n = Len(async_frames)
    PROVE  IsFiniteSet(Queued) /\ Cardinality(Queued) <= n
  <1> DEFINE f == [i \in 1 .. n |-> async_frames[i].frame]
  <1>1. DOMAIN async_frames = 1 .. n
    BY LenProperties
  <1>2. f \in Surjection(1 .. n, Queued)
    BY <1>1 DEF Surjection, Queued
  <1>3. IsFiniteSet(1 .. n) /\ Cardinality(1 .. n) = n
    <2>1. /\ IsFiniteSet(1 .. n)
          /\ Cardinality(1 .. n) = IF 1 > n THEN 0 ELSE n - 1 + 1
      BY FS_Interval, 1 \in Int, n \in Int
    <2>2. QED
      BY <2>1
  <1> HIDE DEF f
  <1>4. QED
    BY <1>2, <1>3, FS_Surjection

(* When all frames of the cache are in use, there are few.                 *)
LEMMA AllInUse ==
    ASSUME NEW c, IInv(c), copy[c].at = "idle", ~Full, async_cache \subseteq used
    PROVE  Cardinality(async_cache) <= MaxFrames + 2
  <1>1. PICK n \in Nat : n = Len(async_frames) /\ n < MaxFrames
    BY LenProperties, AsyncAssumption DEF Full, IInv, Types
  <1> DEFINE some == Queued \cup {cur_async_frame}
             more == some \cup {hold["graphics"]}
             all == more \cup {hold["frontend"]}
  <1>2. IsFiniteSet(some) /\ Cardinality(some) <= n + 1
    BY <1>1, QueuedFew, OneMore DEF IInv, Types
  <1>3. async_cache \subseteq all
    BY HeldFrames, AsyncAssumption DEF IInv, Types, Room, InUse
  <1> HIDE DEF some
  <1>4. PICK m \in Nat : m = n + 1
    OBVIOUS
  <1>5. IsFiniteSet(more) /\ Cardinality(more) <= m + 1
    BY <1>2, <1>4, OneMore
  <1> HIDE DEF more
  <1>6. PICK k \in Nat : k = m + 1
    OBVIOUS
  <1>7. IsFiniteSet(all) /\ Cardinality(all) <= k + 1
    BY <1>5, <1>6, OneMore
  <1> HIDE DEF all
  <1>8. /\ IsFiniteSet(async_cache) /\ Cardinality(async_cache) \in Nat
        /\ Cardinality(async_cache) <= Cardinality(all) /\ Cardinality(all) \in Nat
    BY <1>3, <1>7, FS_Subset, FS_CardinalityType
  <1>9. QED
    BY <1>1, <1>4, <1>6, <1>7, <1>8, AsyncAssumption

(* The capture thread takes a frame of the cache that is not in use, or    *)
(* allocates one: of the cache as it is, or as it is when it was freed     *)
(* because the format has changed.                                         *)
LEMMA TakeFrameIInv ==
    ASSUME NEW c, Capture = {c}, IInv(c), MemoryLasts, copy[c].at = "idle", ~Full,
           NEW ts \in Int, NEW frames, NEW references, TakeFrame(c, ts, frames, references),
           newest' \in Int, changes' \in 0..MaxChanges,
           UNCHANGED <<last_set, unbuffered, hold, at>>,
           \/ /\ frames = async_cache /\ references = refs
              /\ UNCHANGED <<async_frames, cur_async_frame>>
           \/ /\ frames = {} /\ references = FreeAsyncCache
              /\ async_frames' = <<>> /\ cur_async_frame' = None
    PROVE  IInv(c)'
  <1> DEFINE free == frames \ used
             taken == Lowest(IF free # {} THEN free ELSE Frame \ Alive)
             worn == (frames \ used) \ {taken}
             gone == {g \in worn : unused_count[g] + 1 = MaxUnused}
  <1>1. copy[c].frame = None /\ frames \subseteq Frame /\ frames \subseteq async_cache
    BY DEF IInv, Types, Room
  <1>2. /\ references \in [Frame -> Nat]
        /\ \A g \in Frame : references[g] = (IF g \in frames THEN 1 ELSE 0)
                                            + (IF g \in Held THEN 1 ELSE 0)
    <2>1. \A g \in Frame : /\ refs[g] = (IF g \in async_cache THEN 1 ELSE 0)
                                        + (IF g \in Held THEN 1 ELSE 0)
                           /\ refs[g] \in Nat /\ (g \in async_cache => refs[g] > 0)
      <3> TAKE g \in Frame
      <3>1. refs[g] = Refs(g, async_cache, c) /\ copy[c].at # "copy"
        BY DEF IInv, Counted
      <3>2. refs[g] = (IF g \in async_cache THEN 1 ELSE 0) + (IF g \in Held THEN 1 ELSE 0)
        BY <3>1 DEF Refs
      <3>3. QED
        BY <3>2, RefsPositive DEF IInv
    <2>2. CASE references = refs /\ frames = async_cache
      BY <2>1, <2>2 DEF IInv, Types
    <2>3. CASE frames = {} /\ references = FreeAsyncCache
      <3>1. references = [g \in Frame |-> IF g \in async_cache THEN refs[g] - 1 ELSE refs[g]]
        BY <2>3 DEF FreeAsyncCache, Decref
      <3>2. QED
        BY <2>1, <2>3, <3>1
    <2>4. QED
      BY <2>2, <2>3
  <1>3. /\ Queued' \subseteq used \cap frames /\ Queued' \subseteq Queued
        /\ NotDrawn' \subseteq used \cap frames
        /\ cur_async_frame' \in {cur_async_frame, None}
        /\ async_frames' \in Seq(Pending) /\ Len(async_frames') < MaxFrames
        /\ \A i, j \in DOMAIN async_frames' :
              async_frames'[i].frame = async_frames'[j].frame => i = j
        /\ \A g \in used \cap frames : g \in Queued' \/ g = cur_async_frame' \/ g \in Held
        /\ IsFiniteSet(frames) /\ Cardinality(frames) <= MaxFrames + 3
        /\ Cardinality(frames) \in Nat
        /\ free = {} => Cardinality(frames) <= MaxFrames + 2
    <2>1. CASE frames = async_cache /\ UNCHANGED <<async_frames, cur_async_frame>>
      <3>1. Queued' = Queued /\ NotDrawn' = NotDrawn
        BY <2>1 DEF Queued, NotDrawn
      <3>2. Len(async_frames') < MaxFrames
        BY <2>1, LenProperties, AsyncAssumption DEF Full, IInv, Types
      <3>3. free = {} => Cardinality(frames) <= MaxFrames + 2
        BY <2>1, AllInUse
      <3>4. /\ IsFiniteSet(frames) /\ Cardinality(frames) <= MaxFrames + 3
            /\ Cardinality(frames) \in Nat
        BY <2>1, FS_CardinalityType DEF IInv, Bounded
      <3>5. \A g \in used \cap frames : g \in Queued' \/ g = cur_async_frame' \/ g \in Held
        BY <1>1, <2>1, <3>1, AsyncAssumption DEF IInv, Types, InUse
      <3>6. QED
        BY <2>1, <3>1, <3>2, <3>3, <3>4, <3>5 DEF IInv, Types, Apart, InUse
    <2>2. CASE frames = {} /\ async_frames' = <<>> /\ cur_async_frame' = None
      <3>1. Queued' = {} /\ NotDrawn' = {}
        BY <2>2 DEF Queued, NotDrawn
      <3>2. MaxFrames \in Nat \ {0} /\ Cardinality({}) = 0 /\ IsFiniteSet({})
        BY AsyncAssumption, FS_EmptySet
      <3>3. async_frames' \in Seq(Pending) /\ Len(async_frames') = 0
            /\ DOMAIN async_frames' = {}
        BY <2>2
      <3>4. QED
        BY <2>2, <3>1, <3>2, <3>3
    <2>3. QED
      BY <2>1, <2>2
  <1>4. PICK f : f = taken
    OBVIOUS
  <1>5. /\ f \in Frame /\ f # None /\ f \notin Held /\ f \notin used \cap frames
        /\ free # {} => f \in free
        /\ free = {} => f \notin frames /\ references[f] = 0
    <2>1. CASE free # {}
      <3>1. free \in SUBSET Nat /\ free \subseteq Frame
        BY <1>1, AsyncAssumption
      <3>2. f \in free
        BY <1>4, <2>1, <3>1, LowestIsThere
      <3>3. f \notin Held
        BY <1>1, <3>2 DEF IInv, InUse
      <3>4. QED
        BY <2>1, <3>1, <3>2, <3>3, AsyncAssumption
    <2>2. CASE free = {}
      <3>1. (Frame \ Alive) \in SUBSET Nat /\ Frame \ Alive # {}
        BY RoomLeft, AsyncAssumption
      <3>2. f \in Frame \ Alive
        BY <1>4, <2>2, <3>1, LowestIsThere
      <3>3. refs[f] \in Nat /\ ~(refs[f] > 0)
        BY <3>2 DEF Alive, IInv, Types
      <3>4. f \notin async_cache /\ f \notin Held
        BY <3>2, <3>3, RefsPositive DEF IInv
      <3>5. references[f] = 0
        BY <1>1, <1>2, <3>2, <3>4
      <3>6. QED
        BY <1>1, <2>2, <3>2, <3>4, <3>5, AsyncAssumption
    <2>3. QED
      BY <2>1, <2>2
  <1>6. PICK G : G = gone
    OBVIOUS
  <1>7. /\ G \subseteq frames \ used /\ f \notin G /\ (free = {} => G = {})
    BY <1>4, <1>6
  <1>8. /\ async_cache' = (frames \ G) \cup {f}
        /\ used' = (used \cap frames) \cup {f}
        /\ refs' = [g \in Frame |->
               IF g = f THEN IF free = {} THEN 2 ELSE references[f] + 1
               ELSE IF g \in G THEN 0 ELSE references[g]]
        /\ copy' = [copy EXCEPT ![c] = [frame |-> f, ts |-> ts, at |-> "copy"]]
    BY <1>4, <1>6 DEF TakeFrame, Wear
  <1>9. unused_count' \in [Frame -> 0..(MaxUnused - 1)]
    <2>1. unused_count' = [g \in Frame |->
               IF g \in worn \ gone THEN unused_count[g] + 1
               ELSE IF g \in frames \ gone /\ g # taken THEN unused_count[g] ELSE 0]
      BY DEF TakeFrame, Wear
    <2>2. MaxUnused \in Nat \ {0}
      BY AsyncAssumption
    <2>3. \A g \in Frame : unused_count[g] \in 0..(MaxUnused - 1)
      BY DEF IInv, Types
    <2>4. \A g \in Frame : unused_count'[g] \in 0..(MaxUnused - 1)
      <3> TAKE g \in Frame
      <3>1. CASE g \in worn \ gone
        <4>1. unused_count'[g] = unused_count[g] + 1 /\ unused_count[g] + 1 # MaxUnused
          BY <2>1, <3>1
        <4>2. QED
          BY <2>2, <2>3, <4>1
      <3>2. CASE g \notin worn \ gone
        <4>1. unused_count'[g] \in {unused_count[g], 0}
          BY <2>1, <3>2
        <4>2. QED
          BY <2>2, <2>3, <4>1
      <3>3. QED
        BY <3>1, <3>2
    <2>5. QED
      BY <2>1, <2>4
  <1> HIDE DEF taken, worn, gone
  <1>10. Held' = Held /\ copy'[c].frame = f /\ copy'[c].at = "copy"
         /\ copy' \in [Capture -> Copy]
    <2>1. [frame |-> f, ts |-> ts, at |-> "copy"] \in Copy
      BY <1>5 DEF Copy
    <2>2. QED
      BY <1>8, <2>1 DEF IInv, Types, Held
  <1>11. \A g \in Frame :
             refs'[g] = (IF g \in async_cache' THEN 1 ELSE 0) + (IF g \in Held THEN 1 ELSE 0)
                        + (IF g = f THEN 1 ELSE 0)
    <2> TAKE g \in Frame
    <2>1. CASE g = f
      BY <1>2, <1>5, <1>8, <2>1
    <2>2. CASE g \in G
      <3>1. refs'[g] = 0 /\ g \notin async_cache' /\ g # f
        BY <1>7, <1>8, <2>2
      <3>2. g \notin Held
        BY <1>1, <1>7, <2>2 DEF IInv, InUse
      <3>3. QED
        BY <3>1, <3>2
    <2>3. CASE g # f /\ g \notin G
      BY <1>2, <1>8, <2>3
    <2>4. QED
      BY <2>1, <2>2, <2>3
  <1>12. Counted(c)'
    BY <1>10, <1>11 DEF Counted, Refs
  <1>13. refs' \in [Frame -> Nat]
    BY <1>2, <1>8
  <1>14. Types'
    <2>1. used' \subseteq async_cache' /\ async_cache' \subseteq Frame
      BY <1>1, <1>5, <1>7, <1>8
    <2>2. PICK n \in Nat : n = Len(async_frames') /\ n < MaxFrames
      BY <1>3, LenProperties
    <2>3. n <= MaxFrames
      BY <2>2, AsyncAssumption
    <2>4. cur_async_frame' \in Frame \cup {None}
      BY <1>3 DEF IInv, Types
    <2>5. QED
      BY <1>3, <1>9, <1>10, <1>13, <2>1, <2>2, <2>3, <2>4 DEF IInv, Types
  <1>15. Room(c)'
    BY <1>3, <1>5, <1>10 DEF Room
  <1>16. Apart(c)'
    <2>1. f \notin Queued' /\ f # cur_async_frame'
      BY <1>3, <1>5 DEF NotDrawn
    <2>2. None \notin Queued
      BY QueuedFrames DEF IInv, Types
    <2>3. QED
      BY <1>3, <1>5, <1>10, <2>1, <2>2 DEF IInv, Apart
  <1>17. InUse(c)'
    <2>1. Held \cap async_cache' \subseteq used'
      BY <1>1, <1>5, <1>8 DEF IInv, InUse
    <2>2. QED
      BY <1>3, <1>8, <1>10, <2>1 DEF InUse
  <1>18. Bounded'
    <2>1. CASE free = {}
      <3>1. async_cache' = frames \cup {f} /\ Cardinality(frames) <= MaxFrames + 2
        BY <1>3, <1>7, <1>8, <2>1
      <3>2. PICK m \in Nat : m = MaxFrames + 2
        BY AsyncAssumption
      <3>3. IsFiniteSet(async_cache') /\ Cardinality(async_cache') <= m + 1
        BY <1>3, <3>1, <3>2, OneMore
      <3>4. m + 1 = MaxFrames + 3
        BY <3>2, AsyncAssumption
      <3>5. QED
        BY <3>3, <3>4 DEF Bounded
    <2>2. CASE free # {}
      <3>1. async_cache' \in SUBSET frames
        BY <1>5, <1>8, <2>2
      <3>2. /\ IsFiniteSet(async_cache') /\ Cardinality(async_cache') <= Cardinality(frames)
            /\ Cardinality(async_cache') \in Nat
        BY <1>3, <3>1, FS_Subset, FS_CardinalityType
      <3>3. QED
        BY <1>3, <3>2, AsyncAssumption DEF Bounded
    <2>3. QED
      BY <2>1, <2>2
  <1>19. QED
    BY <1>12, <1>14, <1>15, <1>16, <1>17, <1>18 DEF IInv

LEMMA CacheVideoIInv ==
    ASSUME NEW c, Capture = {c}, IInv(c), MemoryLasts, CacheVideo(c)
    PROVE  IInv(c)'
  <1>1. PICK gap \in Gap : /\ newest' = Stamp(gap)
                           /\ TakeFrame(c, newest', async_cache, refs)
    BY DEF CacheVideo
  <1>2. PICK ts \in Int : ts = newest'
    BY <1>1, AsyncAssumption DEF Stamp, IInv, Types
  <1>3. TakeFrame(c, ts, async_cache, refs)
    BY <1>1, <1>2
  <1>4. /\ UNCHANGED <<async_frames, cur_async_frame, last_set, unbuffered, hold, at, changes>>
        /\ copy[c].at = "idle" /\ ~Full
    BY DEF CacheVideo, readers
  <1>5. changes' \in 0..MaxChanges
    BY <1>4 DEF IInv, Types
  <1>6. QED
    BY <1>2, <1>3, <1>4, <1>5, TakeFrameIInv

LEMMA ChangeFormatIInv ==
    ASSUME NEW c, Capture = {c}, IInv(c), MemoryLasts, ChangeFormat(c)
    PROVE  IInv(c)'
  <1>1. PICK gap \in Gap : /\ newest' = Stamp(gap)
                           /\ TakeFrame(c, newest', {}, FreeAsyncCache)
    BY DEF ChangeFormat
  <1>2. PICK ts \in Int : ts = newest'
    BY <1>1, AsyncAssumption DEF Stamp, IInv, Types
  <1>3. TakeFrame(c, ts, {}, FreeAsyncCache)
    BY <1>1, <1>2
  <1>4. /\ async_frames' = <<>> /\ cur_async_frame' = None
        /\ UNCHANGED <<last_set, unbuffered, hold, at>>
        /\ copy[c].at = "idle" /\ ~Full
    BY DEF ChangeFormat, readers
  <1>5. changes' \in 0..MaxChanges
    BY AsyncAssumption DEF ChangeFormat, IInv, Types
  <1>6. QED
    BY <1>2, <1>3, <1>4, <1>5, TakeFrameIInv

(* A tick takes frames out of the queue, in their order: the last one that *)
(* is taken is the source's, those before it are free again.               *)
Takes(gone, ready, last, k) ==
    /\ ready => gone < Len(async_frames)
    /\ k = IF ready THEN gone + 1 ELSE gone
    /\ async_frames' \in Seq(Pending)
    /\ Len(async_frames') = Len(async_frames) - k
    /\ \A i \in 1 .. Len(async_frames) - k :
          /\ async_frames'[i].frame = async_frames[k + i].frame
          /\ async_frames'[i].ts = async_frames[k + i].ts - last
    /\ cur_async_frame' = IF ready THEN async_frames[gone + 1].frame ELSE None
    /\ used' = used \ (NotDrawn \cup {async_frames[i].frame : i \in 1 .. gone})
    /\ newest' = newest - last
    /\ copy' = [d \in Capture |-> IF copy[d].at = "idle" THEN Idle ELSE Since(copy[d], last)]
    /\ last_set' = (last_set \/ ready)

LEMMA TickTakes ==
    ASSUME NEW c, Capture = {c}, IInv(c), VideoTick
    PROVE  \E lag \in Lag, gone \in 0 .. Len(async_frames), ready \in BOOLEAN,
              last \in Int, k \in 0 .. Len(async_frames) :
                 /\ ClosestFrame(SysOffset(lag)).gone = gone
                 /\ ClosestFrame(SysOffset(lag)).ready = ready
                 /\ ClosestFrame(SysOffset(lag)).last = last
                 /\ Takes(gone, ready, last, k)
  <1>1. PICK lag \in Lag :
            LET closest == ClosestFrame(SysOffset(lag))
            IN  /\ async_frames' = After(Left(async_frames, closest.gone, closest.ready),
                                         closest.last)
                /\ cur_async_frame' = IF closest.ready THEN Head(Rest(async_frames, closest.gone)).frame
                                      ELSE None
                /\ used' = used \ (NotDrawn \cup
                                   {async_frames[i].frame : i \in 1 .. closest.gone})
                /\ newest' = newest - closest.last
                /\ copy' = [d \in Capture |->
                       IF copy[d].at = "idle" THEN Idle ELSE Since(copy[d], closest.last)]
                /\ last_set' = (last_set \/ closest.ready)
    BY DEF VideoTick, After, Left, Rest
  <1>2. PICK gone \in 0 .. Len(async_frames), ready \in BOOLEAN, last \in Int :
            /\ ClosestFrame(SysOffset(lag)).gone = gone
            /\ ClosestFrame(SysOffset(lag)).ready = ready
            /\ ClosestFrame(SysOffset(lag)).last = last
            /\ ready => gone < Len(async_frames)
    BY ClosestIsThere DEF IInv, Types
  <1>3. /\ async_frames' = After(Left(async_frames, gone, ready), last)
        /\ cur_async_frame' = IF ready THEN Head(Rest(async_frames, gone)).frame ELSE None
        /\ used' = used \ (NotDrawn \cup {async_frames[i].frame : i \in 1 .. gone})
        /\ newest' = newest - last
        /\ copy' = [d \in Capture |->
               IF copy[d].at = "idle" THEN Idle ELSE Since(copy[d], last)]
        /\ last_set' = (last_set \/ ready)
    BY <1>1, <1>2
  <1>4. PICK k \in 0 .. Len(async_frames) : k = IF ready THEN gone + 1 ELSE gone
    BY <1>2
  <1>5. PICK q \in Seq(Pending) : q = async_frames
    BY DEF IInv, Types
  <1>6. Left(q, gone, ready) = SubSeq(q, k + 1, Len(q)) /\ (ready => Head(Rest(q, gone)) = q[gone + 1])
    <2>1. CASE ready
      <3>1. PICK m \in 1 .. Len(q) : m = gone + 1
        BY <1>2, <1>5, <2>1
      <3>2. Head(Rest(q, m - 1)) = q[m] /\ Tail(Rest(q, m - 1)) = SubSeq(q, m + 1, Len(q))
        <4>1. (m - 1) + 1 = m
          OBVIOUS
        <4>2. QED
          BY <4>1, HeadTailOfSubSeq DEF Rest
      <3>3. m - 1 = gone
        BY <3>1
      <3>4. QED
        BY <1>4, <2>1, <3>1, <3>2, <3>3 DEF Left
    <2>2. CASE ~ready
      BY <1>4, <2>2 DEF Left, Rest
    <2>3. QED
      BY <2>1, <2>2
  <1>7. PICK after : after = After(SubSeq(q, k + 1, Len(q)), last)
    OBVIOUS
  <1>8. /\ after \in Seq(Pending) /\ Len(after) = Len(q) - k
         /\ \A i \in 1 .. Len(q) - k : /\ after[i].frame = q[k + i].frame
                                       /\ after[i].ts = q[k + i].ts - last
    <2>1. k \in 0 .. Len(q)
      BY <1>5
    <2>2. QED
      BY ONLY <1>7, <2>1, last \in Int, q \in Seq(Pending), LeftInQueue
  <1>9. async_frames' = after
    BY <1>3, <1>5, <1>6, <1>7
  <1>10. Takes(gone, ready, last, k)
    <2>1. cur_async_frame' = IF ready THEN async_frames[gone + 1].frame ELSE None
      BY <1>3, <1>5, <1>6
    <2>2. QED
      BY <1>2, <1>3, <1>4, <1>5, <1>8, <1>9, <2>1 DEF Takes
  <1>11. QED
    BY <1>2, <1>10

LEMMA VideoTickIInv ==
    ASSUME NEW c, Capture = {c}, IInv(c), VideoTick
    PROVE  IInv(c)'
  <1>1. PICK gone \in 0 .. Len(async_frames), ready \in BOOLEAN, last \in Int,
             k \in 0 .. Len(async_frames) : Takes(gone, ready, last, k)
    BY TickTakes
  <1>2. UNCHANGED <<refs, async_cache, unused_count, unbuffered, hold, changes>>
        /\ at' = "get"
    BY DEF VideoTick
  <1>3. PICK n \in Nat : n = Len(async_frames) /\ n <= MaxFrames
    BY LenProperties DEF IInv, Types
  <1>4. /\ DOMAIN async_frames = 1 .. n
        /\ \A i \in 1 .. n : async_frames[i].frame \in Frame
    BY <1>3, QueuedFrames DEF IInv, Types, Pending
  <1>5. /\ async_frames' \in Seq(Pending) /\ Len(async_frames') = n - k
        /\ DOMAIN async_frames' = 1 .. n - k
        /\ \A i \in 1 .. n - k : /\ async_frames'[i].frame = async_frames[k + i].frame
                                 /\ k + i \in k + 1 .. n
    <2>1. /\ async_frames' \in Seq(Pending)
          /\ Len(async_frames') = Len(async_frames) - k
          /\ \A i \in 1 .. Len(async_frames) - k :
                async_frames'[i].frame = async_frames[k + i].frame
      BY <1>1 DEF Takes
    <2>2. DOMAIN async_frames' = 1 .. Len(async_frames')
      BY <2>1, LenProperties
    <2>3. k \in 0 .. n
      BY <1>3
    <2>4. \A i \in 1 .. n - k : k + i \in k + 1 .. n
      BY <2>3
    <2>5. QED
      BY <1>3, <2>1, <2>2, <2>4
  <1>6. \A f : f \in Queued' <=> \E j \in k + 1 .. n : async_frames[j].frame = f
    <2>1. \A j \in k + 1 .. n : j - k \in 1 .. n - k /\ k + (j - k) = j
      BY <1>3
    <2>2. \A f : f \in Queued' <=> \E i \in 1 .. n - k : async_frames'[i].frame = f
      BY <1>5 DEF Queued
    <2> TAKE f
    <2>3. ASSUME f \in Queued' PROVE \E j \in k + 1 .. n : async_frames[j].frame = f
      <3>1. PICK i \in 1 .. n - k : async_frames'[i].frame = f
        BY <2>2, <2>3
      <3>2. QED
        BY <1>5, <3>1
    <2>4. ASSUME NEW j \in k + 1 .. n, async_frames[j].frame = f PROVE f \in Queued'
      <3>1. PICK i \in 1 .. n - k : k + i = j
        BY <2>1
      <3>2. async_frames'[i].frame = f
        BY <1>5, <2>4, <3>1
      <3>3. QED
        BY <2>2, <3>2
    <2>5. QED
      BY <2>3, <2>4
  <1>7. \A f : f \in Queued <=> \E j \in 1 .. n : async_frames[j].frame = f
    BY <1>4 DEF Queued
  <1>8. \A i, j \in 1 .. n : async_frames[i].frame = async_frames[j].frame => i = j
    BY <1>4 DEF IInv, Apart
  <1>9. /\ copy' \in [Capture -> Copy] /\ copy'[c].frame = copy[c].frame
        /\ copy'[c].at = copy[c].at
    <2>1. copy[c] \in Copy
      BY DEF IInv, Types
    <2>2. copy' = [d \in Capture |-> IF copy[d].at = "idle" THEN Idle ELSE Since(copy[d], last)]
      BY <1>1 DEF Takes
    <2>3. CASE copy[c].at = "idle"
      BY <2>1, <2>2, <2>3 DEF Idle, Copy, IInv, Room
    <2>4. CASE copy[c].at # "idle"
      <3>1. Since(copy[c], last) = [frame |-> copy[c].frame, ts |-> copy[c].ts - last,
                                    at |-> copy[c].at]
        BY <2>1 DEF Since, Copy
      <3>2. copy'[c] = Since(copy[c], last)
        BY <2>2, <2>4
      <3>3. copy'[c] \in Copy
        BY <2>1, <3>1, <3>2 DEF Copy
      <3>4. QED
        BY <2>2, <3>1, <3>2, <3>3
    <2>5. QED
      BY <2>3, <2>4
  <1>10. /\ ready => gone + 1 \in 1 .. n /\ k = gone + 1
         /\ ~ready => k = gone
         /\ gone \in 0 .. n
         /\ cur_async_frame' = IF ready THEN async_frames[gone + 1].frame ELSE None
    BY <1>1, <1>3 DEF Takes
  <1>11. \A f : f \in used' <=> /\ f \in used /\ f \notin NotDrawn
                                /\ \A i \in 1 .. gone : async_frames[i].frame # f
    BY <1>1 DEF Takes
  <1>12. Held' = Held
    BY <1>2 DEF Held
  <1>13. cur_async_frame' # None => cur_async_frame' \in Queued /\ cur_async_frame' \notin Queued'
                                    /\ cur_async_frame' \in used'
    <2> SUFFICES ASSUME ready
                 PROVE  cur_async_frame' \in Queued /\ cur_async_frame' \notin Queued'
                        /\ cur_async_frame' \in used'
      BY <1>10
    <2>1. PICK j \in 1 .. n : j = gone + 1 /\ k = j /\ cur_async_frame' = async_frames[j].frame
      BY <1>10
    <2>2. cur_async_frame' \in Queued
      BY <1>7, <2>1
    <2>3. \A i \in 1 .. n : i # j => async_frames[i].frame # cur_async_frame'
      BY <1>8, <2>1
    <2>4. cur_async_frame' \notin Queued'
      <3>1. \A i \in k + 1 .. n : i \in 1 .. n /\ i # j
        BY <2>1
      <3>2. QED
        BY <1>6, <2>3, <3>1
    <2>5. cur_async_frame' \in used'
      <3>1. cur_async_frame' \in used /\ cur_async_frame' \notin NotDrawn
        BY <2>2 DEF IInv, InUse, Apart, NotDrawn
      <3>2. \A i \in 1 .. gone : i \in 1 .. n /\ i # j
        BY <1>10, <2>1
      <3>3. QED
        BY <1>11, <2>3, <3>1, <3>2
    <2>6. QED
      BY <2>2, <2>4, <2>5
  <1>14. Queued' \subseteq Queued /\ Queued' \subseteq used'
    <2> SUFFICES ASSUME NEW f \in Queued' PROVE f \in Queued /\ f \in used'
      OBVIOUS
    <2>1. PICK j \in k + 1 .. n : async_frames[j].frame = f
      BY <1>6
    <2>2. j \in 1 .. n /\ \A i \in 1 .. gone : i \in 1 .. n /\ i # j
      BY <1>10, <2>1
    <2>3. f \in Queued
      BY <1>7, <2>1, <2>2
    <2>4. f \in used /\ f \notin NotDrawn
      BY <2>3 DEF IInv, InUse, Apart, NotDrawn
    <2>5. QED
      BY <1>8, <1>11, <2>1, <2>2, <2>3, <2>4
  <1>15. Types'
    <2>1. used' \subseteq async_cache' /\ Len(async_frames') <= MaxFrames
      <3>1. n - k <= MaxFrames
        BY <1>3, AsyncAssumption
      <3>2. used' \subseteq used
        BY <1>11
      <3>3. QED
        BY <1>2, <1>5, <3>1, <3>2 DEF IInv, Types
    <2>2. newest' \in Int
      BY <1>1 DEF Takes, IInv, Types
    <2>3. cur_async_frame' \in Frame \cup {None}
      BY <1>4, <1>10
    <2>4. last_set' \in BOOLEAN
      BY <1>1, Zenon DEF Takes
    <2>5. QED
      BY <1>2, <1>5, <1>9, <2>1, <2>2, <2>3, <2>4 DEF IInv, Types
  <1>16. Room(c)'
    <2>1. Len(async_frames') <= Len(async_frames)
      BY <1>3, <1>5
    <2>2. PICK m \in Nat : m = Len(async_frames')
      BY <1>5, LenProperties
    <2>3. QED
      BY <1>3, <1>9, <2>1, <2>2, AsyncAssumption DEF IInv, Room
  <1>17. Apart(c)'
    <2>1. \A i, j \in DOMAIN async_frames' :
             async_frames'[i].frame = async_frames'[j].frame => i = j
      <3> SUFFICES ASSUME NEW i \in 1 .. n - k, NEW j \in 1 .. n - k,
                          async_frames'[i].frame = async_frames'[j].frame
                   PROVE  i = j
        BY <1>5
      <3>1. PICK x \in 1 .. n, y \in 1 .. n : x = k + i /\ y = k + j
        BY <1>3
      <3>2. async_frames[x].frame = async_frames[y].frame
        BY <1>5, <3>1
      <3>3. x = y
        BY <1>8, <3>2
      <3>4. QED
        BY <3>1, <3>3
    <2>2. /\ \A f \in Queued' : f # cur_async_frame' /\ f # copy'[c].frame /\ f \notin Held'
          /\ copy'[c].frame \notin Held'
          /\ hold'["graphics"] = hold'["frontend"] => hold'["graphics"] = None
      <3>1. \A f \in Queued' : f # cur_async_frame'
        BY <1>13, <1>14, QueuedFrames DEF IInv, Types
      <3>2. QED
        BY <1>2, <1>9, <1>12, <1>14, <3>1 DEF IInv, Apart
    <2>3. cur_async_frame' # None =>
              cur_async_frame' # copy'[c].frame /\ cur_async_frame' \notin Held'
      BY <1>9, <1>12, <1>13 DEF IInv, Apart
    <2>4. QED
      BY <2>1, <2>2, <2>3 DEF Apart
  <1>18. InUse(c)'
    <2>1. copy[c].frame # None => copy[c].frame \in used'
      <3> SUFFICES ASSUME NEW f, f = copy[c].frame, f # None PROVE f \in used'
        OBVIOUS
      <3>1. f \in used /\ f \notin NotDrawn /\ f \notin Queued
        BY DEF IInv, InUse, Apart, NotDrawn
      <3>2. \A i \in 1 .. gone : async_frames[i].frame # f
        BY <1>7, <1>10, <3>1
      <3>3. QED
        BY <1>11, <3>1, <3>2
    <2>2. Held \cap async_cache \subseteq used'
      <3> SUFFICES ASSUME NEW f \in Held \cap async_cache PROVE f \in used'
        OBVIOUS
      <3>1. f \in used /\ f \notin NotDrawn /\ f \notin Queued
        BY DEF IInv, InUse, Apart, NotDrawn
      <3>2. \A i \in 1 .. gone : async_frames[i].frame # f
        BY <1>7, <1>10, <3>1
      <3>3. QED
        BY <1>11, <3>1, <3>2
    <2>3. ASSUME NEW f \in used'
          PROVE  f \in Queued' \/ f = cur_async_frame' \/ f = copy[c].frame \/ f \in Held
      <3>1. f \in used /\ f \notin NotDrawn /\ \A i \in 1 .. gone : async_frames[i].frame # f
        BY <1>11
      <3>2. f # None
        BY <3>1, AsyncAssumption DEF IInv, Types
      <3>3. CASE f \in Queued
        <4>1. PICK j \in 1 .. n : async_frames[j].frame = f
          BY <1>7, <3>3
        <4>2. ~(j <= gone)
          BY <1>10, <3>1, <4>1
        <4>3. j \in k + 1 .. n \/ (ready /\ j = gone + 1)
          BY <1>10, <4>2
        <4>4. QED
          BY <1>6, <1>10, <4>1, <4>3
      <3>4. CASE f \notin Queued
        BY <3>1, <3>2, <3>4 DEF IInv, InUse, NotDrawn
      <3>5. QED
        BY <3>3, <3>4
    <2>4. QED
      BY <1>2, <1>9, <1>12, <1>13, <1>14, <2>1, <2>2, <2>3 DEF InUse, NotDrawn
  <1>19. Counted(c)'
    BY <1>2, <1>9, <1>12 DEF IInv, Counted, Refs
  <1>20. QED
    BY <1>2, <1>15, <1>16, <1>17, <1>18, <1>19 DEF IInv, Bounded

LEMMA InitIInv ==
    ASSUME NEW c, Capture = {c}, Init
    PROVE  IInv(c)
  <1>1. Queued = {} /\ NotDrawn = {} /\ Held = {}
    BY HeldFrames DEF Init, Queued, NotDrawn, Reader
  <1>2. /\ copy[c] = Idle /\ copy \in [Capture -> Copy]
    BY DEF Init, Idle, Copy
  <1>3. MaxUnused \in Nat \ {0} /\ MaxFrames \in Nat \ {0} /\ MaxChanges \in Nat
    BY AsyncAssumption
  <1>4. unused_count \in [Frame -> 0..(MaxUnused - 1)] /\ refs \in [Frame -> Nat]
    BY <1>3 DEF Init
  <1>5. async_frames \in Seq(Pending) /\ Len(async_frames) = 0 /\ DOMAIN async_frames = {}
    BY DEF Init
  <1>6. hold \in [Reader -> Frame \cup {None}]
    BY DEF Init
  <1>7. unbuffered \in BOOLEAN /\ last_set \in BOOLEAN
    BY Zenon DEF Init
  <1>8. Types
    BY <1>2, <1>3, <1>4, <1>5, <1>6, <1>7 DEF Init, Types
  <1>9. Room(c) /\ Apart(c) /\ InUse(c) /\ Counted(c)
    BY <1>1, <1>2, <1>5 DEF Init, Room, Apart, InUse, Counted, Refs, Idle, Reader
  <1>10. Bounded
    BY <1>3, FS_EmptySet DEF Init, Bounded
  <1>11. QED
    BY <1>8, <1>9, <1>10 DEF IInv

LEMMA NextIInv ==
    ASSUME NEW c, Capture = {c}, MemoryLasts, ~TextureFails, IInv(c), [Next]_vars
    PROVE  IInv(c)'
  <1>1. CASE Captures(c)
    BY <1>1, OverrunIInv, CacheVideoIInv, ChangeFormatIInv, CopiedIInv, PushIInv DEF Captures
  <1>2. CASE VideoTick
    BY <1>2, VideoTickIInv
  <1>3. CASE RenderAsyncVideo
    <2>1. "graphics" \in Reader /\ GetFrame("graphics") /\ at' = "render"
      BY <1>3 DEF RenderAsyncVideo, Reader
    <2>2. QED
      BY <2>1, GetFrameIInv
  <1>4. CASE PollFrame
    <2>1. "frontend" \in Reader /\ GetFrame("frontend") /\ at' = at
      BY <1>4 DEF PollFrame, Reader
    <2>2. QED
      BY <2>1, GetFrameIInv DEF IInv, Types
  <1>5. CASE Render
    <2>1. /\ "graphics" \in Reader /\ Release(hold["graphics"]) /\ at' = "tick"
          /\ hold' = [hold EXCEPT !["graphics"] = None]
          /\ UNCHANGED <<async_cache, unused_count, async_frames, cur_async_frame,
                         last_set, unbuffered, newest, copy, changes>>
      BY <1>5 DEF Render, Reader, time
    <2>2. QED
      BY <2>1, ReleaseIInv
  <1>6. CASE PollRelease
    <2>1. /\ "frontend" \in Reader /\ Release(hold["frontend"]) /\ at' = at
          /\ hold' = [hold EXCEPT !["frontend"] = None]
          /\ UNCHANGED <<async_cache, unused_count, async_frames, cur_async_frame,
                         last_set, unbuffered, newest, copy, changes>>
      BY <1>6 DEF PollRelease, Reader, time
    <2>2. QED
      BY <2>1, ReleaseIInv DEF IInv, Types
  <1>7. CASE NothingToRender \/ UNCHANGED vars
    <2>1. /\ UNCHANGED <<refs, async_cache, used, unused_count, async_frames,
                         cur_async_frame, last_set, unbuffered, newest, copy, hold, changes>>
          /\ at' \in {"tick", "get", "render"}
      BY <1>7 DEF NothingToRender, vars, cache, time, readers, IInv, Types
    <2>2. UNCHANGED <<Queued, NotDrawn, Held>>
      BY <2>1 DEF Queued, NotDrawn, Held
    <2>3. QED
      BY <2>1, <2>2 DEF IInv, Types, Room, Apart, InUse, Counted, Refs, Bounded
  <1>8. QED
    BY <1>1, <1>2, <1>3, <1>4, <1>5, <1>6, <1>7 DEF Next, Graphics, Frontend

LEMMA Invariance ==
    ASSUME NEW c, Capture = {c}, MemoryLasts, ~TextureFails
    PROVE  Spec => []IInv(c)
  <1>1. Init => IInv(c)
    BY InitIInv
  <1>2. IInv(c) /\ [Next]_vars => IInv(c)'
    BY NextIInv
  <1>3. QED
    BY <1>1, <1>2, PTL DEF Spec

-----------------------------------------------------------------------------
(* What is counted in the properties has one element at most.              *)
LEMMA AtMostOne ==
    ASSUME NEW S, \A x, y \in S : x = y
    PROVE  Cardinality(S) = IF S = {} THEN 0 ELSE 1
  <1>1. CASE S = {}
    BY <1>1, FS_EmptySet
  <1>2. CASE S # {}
    <2>1. PICK x \in S : TRUE
      BY <1>2
    <2>2. S = {x}
      BY <2>1
    <2>3. QED
      BY <1>2, <2>2, FS_Singleton
  <1>3. QED
    BY <1>1, <1>2

LEMMA SoundFrames ==
    ASSUME NEW c, Capture = {c}, MemoryLasts, IInv(c)
    PROVE  FramesSound
  <1>1. MaxFrames \in Nat
    BY AsyncAssumption
  <1>2. TypeOK
    <2>1. Cardinality(Capture) = 1
      BY FS_Singleton
    <2>2. Alive # Frame
      BY <1>1, RoomLeft
    <2>3. PICK n \in Nat : n = Len(async_frames) /\ n <= MaxFrames
      BY LenProperties DEF IInv, Types
    <2>4. n <= MaxFrames + 1 - 1
      BY <1>1, <2>3
    <2>5. QED
      BY <2>1, <2>2, <2>3, <2>4 DEF IInv, Types, TypeOK, Pending, Copy
  <1>3. NoUseAfterFree
    <2> SUFFICES ASSUME NEW f \in async_cache \cup Queued \cup Copying \cup Held \cup NotDrawn
                 PROVE  f \in Alive
      BY DEF NoUseAfterFree
    <2>1. f \in async_cache \/ f \in Held
      BY OneCopy DEF IInv, Types, InUse
    <2>2. f \in Frame
      <3>1. CASE f \in async_cache
        BY <3>1 DEF IInv, Types
      <3>2. CASE f \in Held
        <4>1. hold["graphics"] \in Frame \cup {None} /\ hold["frontend"] \in Frame \cup {None}
          BY DEF IInv, Types, Reader
        <4>2. QED
          BY <3>2, <4>1, HeldFrames
      <3>3. QED
        BY <2>1, <3>1, <3>2
    <2>3. QED
      BY <2>1, <2>2, RefsPositive DEF IInv, Alive
  <1>4. NothingLeaks
    <2> SUFFICES ASSUME NEW f \in Frame
                 PROVE  refs[f] = (IF f \in async_cache THEN 1 ELSE 0)
                            + (IF f \in Held THEN 1 ELSE 0)
                            + Cardinality({d \in Capture : copy[d].frame = f /\ copy[d].at = "copy"})
      BY DEF NothingLeaks
    <2> DEFINE copies == {d \in Capture : copy[d].frame = f /\ copy[d].at = "copy"}
    <2>1. Cardinality(copies) = IF copy[c].frame = f /\ copy[c].at = "copy" THEN 1 ELSE 0
      <3>1. \A d, e \in copies : d = e
        OBVIOUS
      <3>2. copies = {} <=> ~(copy[c].frame = f /\ copy[c].at = "copy")
        OBVIOUS
      <3> HIDE DEF copies
      <3>3. QED
        BY <3>1, <3>2, AtMostOne
    <2>2. refs[f] = Refs(f, async_cache, c)
      BY DEF IInv, Counted
    <2>3. QED
      BY <2>1, <2>2 DEF Refs
  <1>5. OneOwner
    <2> SUFFICES ASSUME NEW f \in async_cache
                 PROVE  Cardinality({j \in DOMAIN async_frames : async_frames[j].frame = f})
                        + Cardinality({d \in Capture : copy[d].frame = f})
                        + Cardinality({r \in Reader : hold[r] = f})
                        + (IF cur_async_frame = f THEN 1 ELSE 0)
                            = IF f \in used THEN 1 ELSE 0
      BY DEF OneOwner
    <2>1. f \in Frame /\ f # None
      BY AsyncAssumption DEF IInv, Types
    <2> DEFINE places == {j \in DOMAIN async_frames : async_frames[j].frame = f}
               holders == {r \in Reader : hold[r] = f}
    <2>2. Cardinality(places) = IF f \in Queued THEN 1 ELSE 0
      <3>1. \A i, j \in places : i = j
        BY DEF IInv, Apart
      <3>2. places = {} <=> f \notin Queued
        BY DEF Queued
      <3> HIDE DEF places
      <3>3. Cardinality(places) = IF places = {} THEN 0 ELSE 1
        BY <3>1, AtMostOne
      <3>4. QED
        BY <3>2, <3>3
    <2>3. Cardinality(holders) = IF f \in Held THEN 1 ELSE 0
      <3>1. \A r, s \in holders : r = s
        BY <2>1 DEF IInv, Apart, Reader
      <3>2. holders = {} <=> f \notin Held
        BY <2>1, HeldFrames DEF Reader
      <3> HIDE DEF holders
      <3>3. Cardinality(holders) = IF holders = {} THEN 0 ELSE 1
        BY <3>1, AtMostOne
      <3>4. QED
        BY <3>2, <3>3
    <2> DEFINE copies == {d \in Capture : copy[d].frame = f}
    <2>4. Cardinality(copies) = IF copy[c].frame = f THEN 1 ELSE 0
      <3>1. \A d, e \in copies : d = e
        OBVIOUS
      <3>2. copies = {} <=> copy[c].frame # f
        OBVIOUS
      <3> HIDE DEF copies
      <3>3. QED
        BY <3>1, <3>2, AtMostOne
    <2> HIDE DEF places, copies, holders
    <2>5. (IF f \in Queued THEN 1 ELSE 0) + (IF copy[c].frame = f THEN 1 ELSE 0)
          + (IF f \in Held THEN 1 ELSE 0) + (IF cur_async_frame = f THEN 1 ELSE 0)
              = IF f \in used THEN 1 ELSE 0
      BY <2>1 DEF IInv, Apart, InUse, NotDrawn
    <2>6. QED
      BY <2>2, <2>3, <2>4, <2>5 DEF places, copies, holders
  <1>6. QED
    BY <1>2, <1>3, <1>4, <1>5 DEF FramesSound

(* For a source with one capture thread whose textures can be made, while  *)
(* memory lasts for six frames more than the queue may hold: no frame that *)
(* anyone can reach has been freed, no reference is lost, and each frame   *)
(* in use has one owner (cache_video, free_async_cache, clean_cache,       *)
(* remove_async_frame, obs_source_get_frame and _release_frame).           *)
THEOREM FramesSoundHolds == Supposed /\ Spec => []FramesSound
  <1> SUFFICES ASSUME Supposed PROVE Spec => []FramesSound
    OBVIOUS
  <1>1. PICK c : Capture = {c}
    BY DEF Supposed, OneSource
  <1>2. MemoryLasts /\ ~TextureFails
    BY DEF Supposed
  <1>3. Spec => []IInv(c)
    BY <1>1, <1>2, Invariance
  <1>4. IInv(c) => FramesSound
    BY <1>1, <1>2, SoundFrames
  <1>5. QED
    BY <1>3, <1>4, PTL

-----------------------------------------------------------------------------
(* The queue at a tick, while the timestamps increase: what is left of it  *)
(* is not overdue, and what is taken is not early.                         *)
OnTime(closest) ==
    /\ closest.ready => async_frames[closest.gone + 1].ts <= closest.last
    /\ \A i \in DOMAIN async_frames :
          i > (IF closest.ready THEN closest.gone + 1 ELSE closest.gone) =>
              async_frames[i].ts - closest.last > -Slack

(* One frame further, and none is early: either last_frame_ts stays, or it *)
(* moves on with the timestamps.                                           *)
LEMMA TurnInTime ==
    ASSUME NEW before \in Int, NEW p \in Nat \ {0}, async_frames \in Seq(Pending),
           p + 1 \in DOMAIN async_frames,
           Increasing, ~OutOfBounds(async_frames[1].ts),
           ~NotYet(before, async_frames[p].ts),
           NotYet(Turn(before, async_frames, p), async_frames[p + 1].ts)
    PROVE  async_frames[p].ts <= Turn(before, async_frames, p)
  <1>1. PICK n \in Nat : n = Len(async_frames) /\ DOMAIN async_frames = 1 .. n
    BY LenProperties
  <1>2. p \in 1 .. n /\ p + 1 \in 1 .. n /\ 1 \in 1 .. n
    BY <1>1
  <1>3. /\ async_frames[p] \in Pending /\ async_frames[p + 1] \in Pending
        /\ async_frames[1] \in Pending
    BY <1>1, <1>2, ElementOfSeq
  <1>4. PICK now \in Int, next \in Int, first \in Int :
            now = async_frames[p].ts /\ next = async_frames[p + 1].ts /\ first = async_frames[1].ts
    BY <1>3 DEF Pending
  <1>5. now < next
    BY <1>1, <1>2, <1>4 DEF Increasing
  <1>6. MaxVar \in Nat /\ Slack \in Nat
    BY AsyncAssumption
  <1>7. ~(before - now < Slack) /\ first <= MaxVar
    BY <1>4, <1>6 DEF NotYet, OutOfBounds
  <1>8. PICK turned : turned = Turn(before, async_frames, p)
    OBVIOUS
  <1>9. /\ turned = IF next - now > MaxVar \/ next - now < 0
                    THEN next - (now - (IF p = 1 THEN 0 ELSE before)) ELSE before
        /\ turned - next < Slack
    BY <1>4, <1>8 DEF Turn, Jump, NotYet
  <1>10. p = 1 => first = now
    BY <1>4
  <1>11. now <= turned
    BY ONLY <1>5, <1>6, <1>7, <1>9, <1>10, now \in Int, next \in Int, first \in Int, before \in Int, p \in Nat
  <1>12. QED
    BY <1>4, <1>8, <1>11

LEMMA ClosestInTime ==
    ASSUME NEW lag \in Lag, async_frames \in Seq(Pending), ~unbuffered, Increasing
    PROVE  OnTime(ClosestFrame(SysOffset(lag)))
  <1>1. PICK start \in Int : start = SysOffset(lag)
    BY AsyncAssumption DEF SysOffset
  <1>2. PICK closest : closest = ClosestFrame(start)
    OBVIOUS
  <1>3. PICK n \in Nat : n = Len(async_frames) /\ DOMAIN async_frames = 1 .. n
    BY LenProperties
  <1>4. \A i \in 1 .. n : async_frames[i].ts \in Int
    <2>1. \A i \in 1 .. n : async_frames[i] \in Pending
      BY <1>3, ElementOfSeq
    <2>2. QED
      BY <2>1 DEF Pending
  <1>5. \A i, j \in 1 .. n : i < j => async_frames[i].ts < async_frames[j].ts
    BY <1>3 DEF Increasing
  <1>6. Slack \in Nat \ {0} /\ MaxVar \in Nat
    BY AsyncAssumption
  <1>7. CASE async_frames = <<>>
    <2>1. n = 0 /\ closest.ready = FALSE
      BY <1>2, <1>3, <1>7 DEF ClosestFrame
    <2>2. QED
      BY <1>1, <1>2, <1>3, <2>1 DEF OnTime
  <1>8. CASE async_frames # <<>>
    <2>1. 1 \in 1 .. n /\ Head(async_frames) = async_frames[1]
      BY <1>3, <1>8, EmptySeq
    <2>2. CASE closest = [ready |-> TRUE, gone |-> 0, last |-> async_frames[1].ts]
      <3>1. ASSUME NEW i \in 1 .. n, i > 1
            PROVE  async_frames[i].ts - async_frames[1].ts > -Slack
        <4>1. async_frames[1].ts < async_frames[i].ts
          BY <1>5, <2>1, <3>1
        <4>2. async_frames[1].ts \in Int /\ async_frames[i].ts \in Int
          BY <1>4, <2>1
        <4>3. QED
          BY <1>6, <4>1, <4>2
      <3>2. async_frames[1].ts <= async_frames[1].ts
        BY <1>4, <2>1
      <3>3. QED
        BY <1>1, <1>2, <1>3, <2>2, <3>1, <3>2 DEF OnTime
    <2>3. CASE closest = Search(start) /\ ~OutOfBounds(async_frames[1].ts)
      <3>1. PICK f : f = LastFrameTs(start)
        OBVIOUS
      <3>2. PICK p : EndsAt(f, p) /\ closest = Found(f, p)
        BY <1>8, <2>3, <3>1, SearchEnds
      <3>3. p \in Nat /\ p + 1 \in 1 .. n /\ (p # 0 => p \in 1 .. n)
        BY <1>3, <3>2 DEF EndsAt
      <3>4. /\ f \in [0 .. Len(async_frames) - 1 -> Int]
            /\ \A i \in 0 .. Len(async_frames) - 2 : f[i + 1] = Turn(f[i], async_frames, i + 1)
        BY <1>8, <3>1, SearchLoop
      <3>5. f[p] \in Int
        BY <1>3, <3>2, <3>4 DEF EndsAt
      <3>6. PICK k \in Nat : k = p + 1
        BY <3>3
      <3>7. PICK ts \in Int, last \in Int : ts = async_frames[k].ts /\ last = f[p]
        BY <1>4, <3>3, <3>5, <3>6
      <3>8. CASE NotYet(f[p], async_frames[p + 1].ts)
        <4>1. last - ts < Slack
          BY <3>6, <3>7, <3>8 DEF NotYet
        <4>2. ASSUME NEW i \in 1 .. n, i > p PROVE async_frames[i].ts - last > -Slack
          <5>1. i = k \/ k < i
            BY <3>3, <3>6, <4>2
          <5>2. i = k \/ ts < async_frames[i].ts
            BY <1>5, <3>3, <3>6, <3>7, <5>1
          <5>3. async_frames[i].ts \in Int
            BY <1>4
          <5>4. QED
            BY <1>6, <3>7, <4>1, <5>2, <5>3
        <4>3. ASSUME p # 0 PROVE async_frames[p].ts <= last
          <5>1. PICK j \in Nat : j + 1 = p
            <6>1. p - 1 \in Nat /\ (p - 1) + 1 = p
              BY <3>3, <4>3
            <6>2. QED
              BY <6>1
          <5>2. j \in 0 .. Len(async_frames) - 2 /\ j \in 0 .. p - 1
                /\ j \in 0 .. Len(async_frames) - 1
            BY <1>3, <3>3, <5>1
          <5>3. f[p] = Turn(f[j], async_frames, p) /\ f[j] \in Int
            BY <3>4, <5>1, <5>2
          <5>4. ~NotYet(f[j], async_frames[p].ts)
            BY <3>2, <5>1, <5>2 DEF EndsAt
          <5>5. p \in Nat \ {0} /\ p + 1 \in DOMAIN async_frames
            BY <1>3, <3>3, <4>3
          <5>6. async_frames[p].ts <= f[p]
            BY <2>3, <3>8, <5>3, <5>4, <5>5, TurnInTime
          <5>7. QED
            BY <3>7, <5>6
        <4>4. CASE p = 0
          <5>1. closest.last = last /\ closest.gone = p
            BY <3>2, <3>7, <3>8, <4>4 DEF Found
          <5>2. ~closest.ready
            <6>1. ~(p > 0) /\ NotYet(f[0], async_frames[1].ts)
              BY <3>8, <4>4
            <6>2. closest.ready = (p > 0 \/ ~NotYet(f[0], async_frames[1].ts))
              BY Zenon, <3>2 DEF Found
            <6>3. QED
              BY Zenon, <6>1, <6>2
          <5>3. QED
            BY <1>1, <1>2, <1>3, <4>2, <5>1, <5>2 DEF OnTime
        <4>5. CASE p # 0
          <5>1. p > 0
            BY <3>3, <4>5
          <5>2. closest.last = last /\ closest.ready /\ closest.gone = p - 1
            BY <3>2, <3>7, <3>8, <5>1 DEF Found
          <5>3. closest.gone + 1 = p
            BY <3>3, <5>2
          <5>4. QED
            BY <1>1, <1>2, <1>3, <4>2, <4>3, <4>5, <5>2, <5>3 DEF OnTime
        <4>6. QED
          BY <4>4, <4>5
      <3>9. CASE ~NotYet(f[p], async_frames[p + 1].ts)
        <4>1. n = k
          BY <1>3, <3>2, <3>6, <3>9 DEF EndsAt
        <4>2. ts <= last
          <5>1. ~(last - ts < Slack)
            BY <3>6, <3>7, <3>9 DEF NotYet
          <5>2. QED
            BY <1>6, <3>7, <5>1
        <4>3. closest.last = last /\ closest.ready /\ closest.gone = p
          <5>1. p = 0 \/ p > 0
            BY <3>3
          <5>2. closest.ready
            <6>1. p > 0 \/ ~NotYet(f[0], async_frames[1].ts)
              BY <3>9, <5>1
            <6>2. closest.ready = (p > 0 \/ ~NotYet(f[0], async_frames[1].ts))
              BY Zenon, <3>2 DEF Found
            <6>3. QED
              BY Zenon, <6>1, <6>2
          <5>3. QED
            BY <3>2, <3>7, <3>9, <5>2 DEF Found
        <4>4. \A i \in 1 .. n : ~(i > p + 1)
          BY <3>6, <4>1
        <4>5. QED
          BY <1>1, <1>2, <1>3, <3>6, <3>7, <4>2, <4>3, <4>4 DEF OnTime
      <3>10. QED
        BY <3>8, <3>9
    <2>4. QED
      BY <1>2, <1>8, <2>1, <2>2, <2>3 DEF ClosestFrame, ReadyAsyncFrame
  <1>9. QED
    BY <1>7, <1>8

LEMMA TakenOnTime ==
    ASSUME NEW c, Capture = {c}, IInv(c), VideoTick, ~unbuffered, Increasing
    PROVE  /\ \A i \in DOMAIN async_frames' : async_frames'[i].ts > -Slack
           /\ \A i \in DOMAIN async_frames :
                  async_frames[i].frame = cur_async_frame' =>
                      async_frames[i].ts <= newest - newest'
  <1>1. PICK lag \in Lag, gone \in 0 .. Len(async_frames), ready \in BOOLEAN,
             last \in Int, k \in 0 .. Len(async_frames) :
                 /\ ClosestFrame(SysOffset(lag)).gone = gone
                 /\ ClosestFrame(SysOffset(lag)).ready = ready
                 /\ ClosestFrame(SysOffset(lag)).last = last
                 /\ Takes(gone, ready, last, k)
    BY TickTakes
  <1>2. async_frames \in Seq(Pending) /\ newest \in Int /\ None \notin Frame
    BY AsyncAssumption DEF IInv, Types
  <1>3. PICK n \in Nat : n = Len(async_frames) /\ DOMAIN async_frames = 1 .. n
    BY <1>2, LenProperties
  <1>4. OnTime(ClosestFrame(SysOffset(lag)))
    BY <1>2, ClosestInTime
  <1>5. /\ ready => async_frames[gone + 1].ts <= last
        /\ \A i \in 1 .. n : i > k => async_frames[i].ts - last > -Slack
    BY <1>1, <1>3, <1>4 DEF OnTime, Takes
  <1>6. ASSUME NEW i \in DOMAIN async_frames' PROVE async_frames'[i].ts > -Slack
    <2>1. async_frames' \in Seq(Pending) /\ Len(async_frames') = n - k
      BY <1>1, <1>3 DEF Takes
    <2>2. i \in 1 .. n - k
      BY <2>1, LenProperties
    <2>3. async_frames'[i].ts = async_frames[k + i].ts - last
      BY <1>1, <1>3, <2>2 DEF Takes
    <2>4. k + i \in 1 .. n /\ k + i > k
      BY <1>3, <2>2
    <2>5. QED
      BY <1>5, <2>3, <2>4
  <1>7. ASSUME NEW i \in DOMAIN async_frames, async_frames[i].frame = cur_async_frame'
        PROVE  async_frames[i].ts <= newest - newest'
    <2>1. async_frames[i] \in Pending
      BY <1>2, ElementOfSeq, LenProperties
    <2>2. async_frames[i].frame # None
      BY <1>2, <2>1 DEF Pending
    <2>3. ready /\ cur_async_frame' = async_frames[gone + 1].frame /\ k = gone + 1
      BY <1>1, <1>7, <2>2 DEF Takes
    <2>4. gone + 1 \in DOMAIN async_frames
      BY <1>1, <1>3, <2>3
    <2>5. i = gone + 1
      BY <1>7, <2>3, <2>4 DEF IInv, Apart
    <2>6. newest - newest' = last
      <3>1. newest' = newest - last
        BY <1>1 DEF Takes
      <3>2. QED
        BY <1>2, <3>1
    <2>7. QED
      BY <1>5, <2>3, <2>5, <2>6
  <1>8. QED
    BY <1>6, <1>7

(* For the same source: while the timestamps increase, a tick takes the    *)
(* newest frame whose time has come, and none before its time              *)
(* (get_closest_frame, ready_async_frame).                                 *)
THEOREM TakesFrameOnTimeHolds == Supposed /\ Spec => TakesFrameOnTime
  <1> SUFFICES ASSUME Supposed PROVE Spec => TakesFrameOnTime
    OBVIOUS
  <1>1. PICK c : Capture = {c}
    BY DEF Supposed, OneSource
  <1>2. MemoryLasts /\ ~TextureFails
    BY DEF Supposed
  <1>3. Spec => []IInv(c)
    BY <1>1, <1>2, Invariance
  <1> DEFINE OnTimeStep ==
          VideoTick /\ ~unbuffered /\ Increasing =>
              /\ \A i \in DOMAIN async_frames' : async_frames'[i].ts > -Slack
              /\ \A i \in DOMAIN async_frames :
                     async_frames[i].frame = cur_async_frame' =>
                         async_frames[i].ts <= newest - newest'
  <1>4. IInv(c) => OnTimeStep
    BY <1>1, TakenOnTime
  <1>5. QED
    BY <1>3, <1>4, PTL DEF Spec, TakesFrameOnTime

=============================================================================
