-------------------------- MODULE VideoSystem_proofs --------------------------
(***************************************************************************)
(* Proofs about the path of a picture.  First the frame cache alone, for   *)
(* every cache size, every set of callbacks and every bound.  Then the     *)
(* whole path, for every pattern of failing maps besides: the frames that  *)
(* leave the texture pipeline are contiguous in time and correctly dated,  *)
(* and the callbacks are shown whole pictures in their order.              *)
(***************************************************************************)
EXTENDS VideoSystem, SequenceTheorems, FiniteSetTheorems, TLAPS

\* ----------------------------------------------------------- the frame cache


(* The slot of the k-th frame of the ring that begins at f, the oldest     *)
(* being number 0.                                                         *)
SlotAt(f, k) == IF f + k < CacheSize THEN f + k ELSE f + k - CacheSize

(* Frames in the ring, the one being copied included.                      *)
Occupied == InFlight + IF gpc = "copy" THEN 1 ELSE 0

(* Where the two ends of the ring are, even in the middle of a copy.       *)
Ring ==
    /\ gpc = "copy" => /\ available_frames >= 1
                       /\ wslot = last_added
                       /\ last_added = SlotAt(first_added, InFlight)
    /\ gpc # "copy" => last_added = IF InFlight = 0 THEN first_added
                                    ELSE SlotAt(first_added, InFlight - 1)

(* The video thread works on the oldest frame, and there is one.           *)
Reading == vpc = "callbacks" => InFlight >= 1 /\ rslot = first_added

(* The frames of the ring stand for the ticks from shown to tick, each one *)
(* beginning where its predecessor ends and ending no later than tick.     *)
Chain ==
    /\ Occupied = 0 => shown = tick
    /\ Occupied > 0 =>
          /\ cache[SlotAt(first_added, 0)].timestamp = shown
          /\ cache[SlotAt(first_added, Occupied - 1)].timestamp
                + cache[SlotAt(first_added, Occupied - 1)].count = tick
    /\ \A k \in 0 .. Occupied - 1 :
          /\ cache[SlotAt(first_added, k)].count >= 1
          /\ cache[SlotAt(first_added, k)].timestamp
                + cache[SlotAt(first_added, k)].count <= tick
    /\ \A k \in 0 .. Occupied - 2 :
          cache[SlotAt(first_added, k + 1)].timestamp
             = cache[SlotAt(first_added, k)].timestamp
                + cache[SlotAt(first_added, k)].count

(* The inductive invariant.                                                *)
IInv == TypeOK /\ Ring /\ Reading /\ FramesAccounted /\ Chain

-----------------------------------------------------------------------------
(* The ring's indices: distinct positions are distinct slots, and          *)
(* releasing the oldest frame shifts the positions by one.                 *)
LEMMA SlotAtType ==
    ASSUME NEW f \in Slots, NEW k \in 0 .. CacheSize - 1
    PROVE  SlotAt(f, k) \in Slots
  BY CacheSizeAssumption DEF SlotAt, Slots

LEMMA SlotAtInjective ==
    ASSUME NEW f \in Slots, NEW j \in 0 .. CacheSize - 1,
           NEW k \in 0 .. CacheSize - 1, j # k
    PROVE  SlotAt(f, j) # SlotAt(f, k)
  BY CacheSizeAssumption DEF SlotAt, Slots

LEMMA SlotAtSucc ==
    ASSUME NEW f \in Slots, NEW k \in 0 .. CacheSize - 1
    PROVE  /\ Succ(SlotAt(f, k)) = SlotAt(f, k + 1)
           /\ SlotAt(Succ(f), k) = SlotAt(f, k + 1)
  BY CacheSizeAssumption DEF SlotAt, Slots, Succ

(* Erasing an element leaves a sequence of the same elements.              *)
LEMMA RemoveAtType ==
    ASSUME NEW S, NEW s \in Seq(S), NEW i \in 1 .. Len(s)
    PROVE  RemoveAt(s, i) \in Seq(S)
  BY SubSeqProperties, ConcatProperties DEF RemoveAt

LEMMA InitIInv == Init => IInv
  <1> SUFFICES ASSUME Init PROVE IInv
    OBVIOUS
  <1>1. TypeOK
    <2>1. 0 \in Slots /\ CacheSize \in 0 .. CacheSize
      BY CacheSizeAssumption DEF Slots
    <2>2. cache \in [Slots -> [timestamp : Nat, count : Nat]]
      BY DEF Init
    <2>3. inputs \in Seq(Inputs)
      BY EmptySeq DEF Init
    <2>4. QED
      BY <2>1, <2>2, <2>3 DEF Init, TypeOK
  <1>2. InFlight = 0 /\ Occupied = 0
    BY CacheSizeAssumption DEF Init, InFlight, Occupied
  <1>3. Ring /\ Reading /\ FramesAccounted
    BY <1>2 DEF Init, Ring, Reading, FramesAccounted
  <1>4. Chain
    BY <1>2 DEF Init, Chain
  <1>5. QED
    BY <1>1, <1>3, <1>4 DEF IInv

(* A step that leaves the ring alone.                                      *)
LEMMA RingUnchanged ==
    ASSUME Ring, Chain, UNCHANGED cacheVars, UNCHANGED <<wslot, tick, shown>>,
           gpc' = "copy" <=> gpc = "copy"
    PROVE  Ring' /\ Chain'
  BY DEF Ring, Chain, Occupied, InFlight, SlotAt, cacheVars

(* video_output_lock_frame takes the slot behind the newest frame.         *)
LEMMA NextSlotIsFree ==
    ASSUME TypeOK, Ring, gpc = "output", available_frames # 0
    PROVE  /\ NextSlot = SlotAt(first_added, InFlight)
           /\ NextSlot \in Slots
           /\ InFlight \in 0 .. CacheSize - 1
  <1>1. InFlight \in 0 .. CacheSize - 1
    BY CacheSizeAssumption DEF TypeOK, InFlight
  <1>2. NextSlot = SlotAt(first_added, InFlight)
    <2>1. CASE InFlight = 0
      BY <2>1, CacheSizeAssumption
         DEF Ring, NextSlot, InFlight, SlotAt, TypeOK, Slots
    <2>2. CASE InFlight # 0
      <3>1. /\ last_added = SlotAt(first_added, InFlight - 1)
            /\ available_frames # CacheSize
        BY <2>2, CacheSizeAssumption DEF Ring, InFlight, TypeOK
      <3>2. InFlight - 1 \in 0 .. CacheSize - 1
        BY <1>1, <2>2, CacheSizeAssumption
      <3>3. Succ(SlotAt(first_added, InFlight - 1))
               = SlotAt(first_added, InFlight - 1 + 1)
        BY <3>2, SlotAtSucc DEF TypeOK
      <3>4. InFlight - 1 + 1 = InFlight
        BY <1>1
      <3>5. QED
        BY <3>1, <3>3, <3>4 DEF NextSlot
    <2>3. QED
      BY <2>1, <2>2
  <1>3. QED
    BY <1>1, <1>2, SlotAtType DEF TypeOK

LEMMA LockSlotIInv ==
    ASSUME IInv, NEW count \in 1 .. MaxCount, LockSlot(count)
    PROVE  IInv'
  <1> USE DEF IInv
  <1>0. count \in Nat /\ count >= 1
    BY BoundsAssumption
  <1>1. /\ NextSlot = SlotAt(first_added, InFlight)
        /\ NextSlot \in Slots
        /\ InFlight \in 0 .. CacheSize - 1
    BY NextSlotIsFree DEF LockSlot
  <1>2. /\ cache' = [cache EXCEPT ![NextSlot] =
                        [timestamp |-> tick, count |-> count]]
        /\ last_added' = NextSlot /\ wslot' = NextSlot
        /\ gpc = "output" /\ gpc' = "copy" /\ available_frames # 0
        /\ tick' = tick + count
        /\ UNCHANGED <<available_frames, first_added, update_semaphore>>
    BY DEF LockSlot
  <1>3. TypeOK'
    <2>1. cache' \in [Slots -> [timestamp : Nat, count : Nat]]
      BY <1>0, <1>1, <1>2 DEF TypeOK
    <2>2. tick' \in Nat
      BY <1>0, <1>2 DEF TypeOK
    <2>3. QED
      BY <1>1, <1>2, <2>1, <2>2
         DEF TypeOK, LockSlot, videoVars, inputVars, stopVars
  <1>4. InFlight' = InFlight /\ Occupied = InFlight /\ Occupied' = InFlight + 1
    BY <1>1, <1>2 DEF InFlight, Occupied
  <1>5. \A k \in Int : SlotAt(first_added', k) = SlotAt(first_added, k)
    BY <1>2 DEF SlotAt
  <1>6. Ring'
    BY <1>1, <1>2, <1>4, <1>5 DEF Ring, TypeOK, SlotAt
  <1>7. Reading' /\ FramesAccounted'
    BY <1>2, <1>4
       DEF LockSlot, Reading, FramesAccounted, videoVars, stopVars
  <1>8. \A k \in 0 .. InFlight - 1 :
           cache'[SlotAt(first_added, k)] = cache[SlotAt(first_added, k)]
    <2> TAKE k \in 0 .. InFlight - 1
    <2>1. k \in 0 .. CacheSize - 1 /\ k # InFlight
      BY <1>1, CacheSizeAssumption
    <2>2. SlotAt(first_added, k) # NextSlot /\ SlotAt(first_added, k) \in Slots
      BY <1>1, <2>1, SlotAtInjective, SlotAtType DEF TypeOK
    <2>3. QED
      BY <1>2, <2>2 DEF TypeOK
  <1>9. cache'[SlotAt(first_added, InFlight)]
           = [timestamp |-> tick, count |-> count]
    BY <1>1, <1>2 DEF TypeOK
  <1>10. Chain'
    <2>1. Occupied' # 0 /\ Occupied' - 1 = InFlight /\ Occupied' > 0
      BY <1>1, <1>4
    <2>2. cache'[SlotAt(first_added, 0)].timestamp = shown'
      <3>1. CASE InFlight = 0
        BY <1>4, <1>9, <3>1 DEF Chain, LockSlot, videoVars
      <3>2. CASE InFlight # 0
        BY <1>1, <1>4, <1>8, <3>2 DEF Chain, LockSlot, videoVars
      <3>3. QED
        BY <3>1, <3>2
    <2>3. cache'[SlotAt(first_added, InFlight)].timestamp
             + cache'[SlotAt(first_added, InFlight)].count
             = tick'
      BY <1>2, <1>9
    <2>4. \A k \in 0 .. InFlight :
             /\ cache'[SlotAt(first_added, k)].count >= 1
             /\ cache'[SlotAt(first_added, k)].timestamp
                   + cache'[SlotAt(first_added, k)].count <= tick'
      <3> TAKE k \in 0 .. InFlight
      <3>1. CASE k = InFlight
        BY <1>0, <1>2, <1>9, <2>3, <3>1 DEF TypeOK
      <3>2. CASE k # InFlight
        <4>1. k \in 0 .. InFlight - 1 /\ k \in 0 .. CacheSize - 1
          BY <1>1, <3>2, CacheSizeAssumption
        <4>2. /\ SlotAt(first_added, k) \in Slots /\ tick \in Nat
              /\ cache[SlotAt(first_added, k)].timestamp \in Nat
              /\ cache[SlotAt(first_added, k)].count \in Nat
          BY <4>1, SlotAtType DEF TypeOK
        <4>3. /\ cache[SlotAt(first_added, k)].count >= 1
              /\ cache[SlotAt(first_added, k)].timestamp
                    + cache[SlotAt(first_added, k)].count <= tick
          BY <1>4, <4>1 DEF Chain
        <4>4. QED
          BY <1>0, <1>2, <1>8, <4>1, <4>2, <4>3
      <3>3. QED
        BY <3>1, <3>2
    <2>5. \A k \in 0 .. InFlight - 1 :
             cache'[SlotAt(first_added, k + 1)].timestamp
                = cache'[SlotAt(first_added, k)].timestamp
                   + cache'[SlotAt(first_added, k)].count
      <3> TAKE k \in 0 .. InFlight - 1
      <3>1. CASE k = InFlight - 1
        <4>1. k + 1 = InFlight
          BY <1>1, <3>1
        <4>2. QED
          BY <1>1, <1>4, <1>8, <1>9, <3>1, <4>1 DEF Chain
      <3>2. CASE k # InFlight - 1
        <4>1. k \in 0 .. InFlight - 2 /\ k + 1 \in 0 .. InFlight - 1
          BY <1>1, <3>2
        <4>2. QED
          BY <1>4, <1>8, <4>1 DEF Chain
      <3>3. QED
        BY <3>1, <3>2
    <2>6. Occupied' - 2 = InFlight - 1
      BY <1>1, <1>4
    <2>7. \A k \in Int :
             cache'[SlotAt(first_added', k)] = cache'[SlotAt(first_added, k)]
      BY <1>5
    <2>8. QED
      BY <1>1, <1>5, <2>1, <2>2, <2>3, <2>4, <2>5, <2>6, <2>7 DEF Chain
  <1>11. QED
    BY <1>3, <1>6, <1>7, <1>10

(* Updating the fields of a slot keeps it a slot.                          *)
LEMMA SlotFields ==
    ASSUME NEW r \in [timestamp : Nat, count : Nat], NEW t \in Nat,
           NEW n \in Nat
    PROVE  LET q == [r EXCEPT !.timestamp = t, !.count = n]
           IN  /\ q \in [timestamp : Nat, count : Nat]
               /\ q.timestamp = t /\ q.count = n
  OBVIOUS

LEMMA CountType ==
    ASSUME NEW r \in [timestamp : Nat, count : Nat], NEW n \in Nat
    PROVE  [r EXCEPT !.count = n] \in [timestamp : Nat, count : Nat]
  OBVIOUS

LEMMA LockFullIInv ==
    ASSUME IInv, NEW count \in 1 .. MaxCount, LockFull(count)
    PROVE  IInv'
  <1> USE DEF IInv
  <1> DEFINE N == CacheSize
  <1>0. count \in Nat /\ count >= 1 /\ N \in Nat /\ N >= 1
    BY BoundsAssumption, CacheSizeAssumption
  <1>1. /\ available_frames = 0 /\ gpc = "output" /\ gpc' = "check"
        /\ tick' = tick + count
        /\ UNCHANGED <<available_frames, first_added, last_added, wslot,
                       shown>>
    BY DEF LockFull, videoVars
  <1>c. cache' = [cache EXCEPT ![last_added].count = @ + count]
    BY DEF LockFull
  <1>2. InFlight = N /\ Occupied = N /\ InFlight' = N /\ Occupied' = N
    BY <1>0, <1>1 DEF InFlight, Occupied
  <1>3. /\ last_added = SlotAt(first_added, N - 1)
        /\ SlotAt(first_added, N - 1) \in Slots
    <2>1. N - 1 \in 0 .. N - 1 /\ N # 0
      BY <1>0
    <2>2. SlotAt(first_added, N - 1) \in Slots
      BY <2>1, SlotAtType DEF TypeOK
    <2>3. QED
      BY <1>1, <1>2, <2>1, <2>2 DEF Ring
  <1>4. \A k \in Int : SlotAt(first_added', k) = SlotAt(first_added, k)
    BY <1>1 DEF SlotAt
  <1>5. \A k \in 0 .. N - 2 :
           cache'[SlotAt(first_added, k)] = cache[SlotAt(first_added, k)]
    <2> TAKE k \in 0 .. N - 2
    <2>1. k \in 0 .. N - 1 /\ N - 1 \in 0 .. N - 1 /\ k # N - 1
      BY <1>0
    <2>2. /\ SlotAt(first_added, k) # last_added
          /\ SlotAt(first_added, k) \in Slots
      BY <1>3, <2>1, SlotAtInjective, SlotAtType DEF TypeOK
    <2>3. QED
      BY <1>c, <2>2 DEF TypeOK
  <1>6. /\ cache'[SlotAt(first_added, N - 1)].timestamp
              = cache[SlotAt(first_added, N - 1)].timestamp
        /\ cache'[SlotAt(first_added, N - 1)].count
              = cache[SlotAt(first_added, N - 1)].count + count
        /\ cache[SlotAt(first_added, N - 1)] \in [timestamp : Nat, count : Nat]
        /\ cache[SlotAt(first_added, N - 1)].timestamp \in Nat
        /\ cache[SlotAt(first_added, N - 1)].count \in Nat
    BY <1>c, <1>3 DEF TypeOK
  <1>7. TypeOK'
    <2>1. cache' \in [Slots -> [timestamp : Nat, count : Nat]]
      <3>1. [cache[last_added] EXCEPT !.count
               = cache[last_added].count + count]
               \in [timestamp : Nat, count : Nat]
        <4>1. cache[last_added].count + count \in Nat
          BY <1>0, <1>3, <1>6
        <4>2. cache[last_added] \in [timestamp : Nat, count : Nat]
          BY <1>3, <1>6
        <4>3. QED
          BY <4>1, <4>2, CountType
      <3>2. QED
        BY <1>c, <1>3, <3>1 DEF TypeOK
    <2>2. tick' \in Nat
      BY <1>0, <1>1 DEF TypeOK
    <2>3. QED
      BY <1>1, <2>1, <2>2
         DEF TypeOK, LockFull, videoVars, inputVars, stopVars
  <1>8. Ring' /\ Reading' /\ FramesAccounted'
    BY <1>1, <1>2, <1>4
       DEF Ring, Reading, FramesAccounted, LockFull, videoVars, stopVars,
           InFlight, SlotAt
  <1>9. Chain'
    <2>1. \A k \in 0 .. N - 1 :
             /\ cache'[SlotAt(first_added, k)].timestamp
                   = cache[SlotAt(first_added, k)].timestamp
             /\ cache'[SlotAt(first_added, k)].count >= 1
      <3> TAKE k \in 0 .. N - 1
      <3>1. CASE k = N - 1
        BY <1>0, <1>2, <1>6, <3>1 DEF Chain
      <3>2. CASE k # N - 1
        <4>1. k \in 0 .. N - 2
          BY <1>0, <3>2
        <4>2. QED
          BY <1>2, <1>5, <4>1 DEF Chain
      <3>3. QED
        BY <3>1, <3>2
    <2>2. cache'[SlotAt(first_added, 0)].timestamp = shown'
      BY <1>0, <1>1, <1>2, <2>1 DEF Chain
    <2>3. cache'[SlotAt(first_added, N - 1)].timestamp
             + cache'[SlotAt(first_added, N - 1)].count = tick'
      <3>1. cache[SlotAt(first_added, N - 1)].timestamp
               + cache[SlotAt(first_added, N - 1)].count = tick
        BY <1>0, <1>2 DEF Chain
      <3>2. tick \in Nat /\ tick' = tick + count
        BY <1>1 DEF TypeOK
      <3>3. QED
        BY <1>0, <1>6, <3>1, <3>2
    <2>4. \A k \in 0 .. N - 1 :
             cache'[SlotAt(first_added, k)].timestamp
                + cache'[SlotAt(first_added, k)].count <= tick'
      <3> TAKE k \in 0 .. N - 1
      <3>1. CASE k = N - 1
        BY <1>0, <1>1, <2>3, <3>1 DEF TypeOK
      <3>2. CASE k # N - 1
        <4>1. k \in 0 .. N - 2
          BY <1>0, <3>2
        <4>2. /\ SlotAt(first_added, k) \in Slots /\ tick \in Nat
              /\ cache[SlotAt(first_added, k)].timestamp \in Nat
              /\ cache[SlotAt(first_added, k)].count \in Nat
          BY SlotAtType DEF TypeOK
        <4>3. cache[SlotAt(first_added, k)].timestamp
                 + cache[SlotAt(first_added, k)].count <= tick
          BY <1>2 DEF Chain
        <4>4. QED
          BY <1>0, <1>1, <1>5, <4>1, <4>2, <4>3
      <3>3. QED
        BY <3>1, <3>2
    <2>5. \A k \in 0 .. N - 2 :
             cache'[SlotAt(first_added, k + 1)].timestamp
                = cache'[SlotAt(first_added, k)].timestamp
                   + cache'[SlotAt(first_added, k)].count
      <3> TAKE k \in 0 .. N - 2
      <3>1. k + 1 \in 0 .. N - 1
        BY <1>0
      <3>2. QED
        BY <1>2, <1>5, <2>1, <3>1 DEF Chain
    <2>6. \A k \in Int :
             cache'[SlotAt(first_added', k)] = cache'[SlotAt(first_added, k)]
      BY <1>4
    <2>7. QED
      BY <1>0, <1>2, <2>1, <2>2, <2>3, <2>4, <2>5, <2>6 DEF Chain
  <1>10. QED
    BY <1>7, <1>8, <1>9

LEMMA UnlockFrameIInv ==
    ASSUME IInv, UnlockFrame
    PROVE  IInv'
  <1> USE DEF IInv
  <1>1. /\ gpc = "copy" /\ gpc' = "check" /\ available_frames >= 1
        /\ available_frames' = available_frames - 1
        /\ update_semaphore' = update_semaphore + 1
        /\ UNCHANGED <<cache, first_added, last_added, wslot, tick>>
        /\ UNCHANGED <<shown, vpc, rslot, stop>>
    BY DEF UnlockFrame, Ring, videoVars, stopVars
  <1>2. /\ InFlight \in Nat /\ InFlight' = InFlight + 1
        /\ Occupied' = Occupied
    BY <1>1, CacheSizeAssumption DEF TypeOK, InFlight, Occupied
  <1>3. TypeOK'
    BY <1>1, CacheSizeAssumption
       DEF TypeOK, UnlockFrame, videoVars, inputVars, stopVars
  <1>4. Ring'
    BY <1>1, <1>2 DEF Ring, SlotAt
  <1>5. Reading' /\ FramesAccounted'
    BY <1>1, <1>2 DEF Reading, FramesAccounted, TypeOK
  <1>6. Chain'
    BY <1>1, <1>2 DEF Chain, SlotAt
  <1>7. QED
    BY <1>3, <1>4, <1>5, <1>6

(* What both ends of video_output_cur_frame find: the slot read is the     *)
(* oldest frame of the ring, and its tick is the next one to be shown.     *)
LEMMA ReadSlot ==
    ASSUME TypeOK, Ring, Reading, Chain, vpc = "callbacks"
    PROVE  /\ rslot = first_added /\ SlotAt(first_added, 0) = first_added
           /\ first_added \in Slots
           /\ cache[rslot] \in [timestamp : Nat, count : Nat]
           /\ InFlight \in 1 .. CacheSize
           /\ Occupied \in 1 .. CacheSize
           /\ cache[rslot].timestamp = shown
           /\ cache[rslot].count >= 1
  <1>1. /\ rslot = first_added /\ first_added \in Slots
        /\ SlotAt(first_added, 0) = first_added
    BY CacheSizeAssumption DEF Reading, TypeOK, SlotAt, Slots
  <1>2. InFlight \in 1 .. CacheSize
    BY CacheSizeAssumption DEF Reading, TypeOK, InFlight
  <1>3. Occupied \in 1 .. CacheSize
    BY <1>2, CacheSizeAssumption DEF Ring, Occupied, InFlight, TypeOK
  <1>4. /\ cache[SlotAt(first_added, 0)].timestamp = shown
        /\ cache[SlotAt(first_added, 0)].count >= 1
    BY <1>3 DEF Chain
  <1>5. QED
    BY <1>1, <1>2, <1>3, <1>4 DEF TypeOK

(* The tick just shown is taken off the slot, the end of the frame stays.  *)
LEMMA TickCompletedFields ==
    ASSUME TypeOK, NEW s \in Slots, cache[s].count >= 1,
           cache' = TickCompleted(s)
    PROVE  /\ cache' \in [Slots -> [timestamp : Nat, count : Nat]]
           /\ cache'[s].timestamp = cache[s].timestamp + 1
           /\ cache'[s].count = cache[s].count - 1
           /\ \A r \in Slots \ {s} : cache'[r] = cache[r]
  <1> DEFINE ticked == [cache[s] EXCEPT !.timestamp = cache[s].timestamp + 1,
                                        !.count = cache[s].count - 1]
  <1>1. /\ cache[s].timestamp \in Nat /\ cache[s].count \in Nat
        /\ cache[s] \in [timestamp : Nat, count : Nat]
    BY DEF TypeOK
  <1>2. /\ cache[s].timestamp + 1 \in Nat /\ cache[s].count - 1 \in Nat
    BY <1>1
  <1>3. /\ ticked \in [timestamp : Nat, count : Nat]
        /\ ticked.timestamp = cache[s].timestamp + 1
        /\ ticked.count = cache[s].count - 1
    BY <1>1, <1>2, SlotFields
  <1>4. cache' = [cache EXCEPT ![s] = ticked]
    BY DEF TickCompleted, TypeOK
  <1> HIDE DEF ticked
  <1>5. QED
    BY <1>3, <1>4 DEF TypeOK

LEMMA RepeatFrameIInv ==
    ASSUME IInv, RepeatFrame
    PROVE  IInv'
  <1> USE DEF IInv
  <1>1. /\ vpc = "callbacks" /\ vpc' = "loop" /\ cache[rslot].count # 1
        /\ shown' = cache[rslot].timestamp + 1
        /\ UNCHANGED <<available_frames, first_added, last_added, wslot, tick>>
        /\ UNCHANGED <<gpc, rslot, stop, update_semaphore>>
    BY DEF RepeatFrame, FrameComplete, graphicsVars, stopVars
  <1>2. /\ rslot = first_added /\ SlotAt(first_added, 0) = first_added
        /\ first_added \in Slots
        /\ InFlight \in 1 .. CacheSize /\ Occupied \in 1 .. CacheSize
        /\ cache[first_added].timestamp = shown
        /\ cache[first_added].count >= 1
        /\ cache[first_added].count \in Nat
    BY <1>1, ReadSlot
  <1>3. /\ cache' \in [Slots -> [timestamp : Nat, count : Nat]]
        /\ cache'[first_added].timestamp = shown + 1
        /\ cache'[first_added].count = cache[first_added].count - 1
        /\ \A r \in Slots \ {first_added} : cache'[r] = cache[r]
    <2>1. cache' = TickCompleted(first_added)
      BY <1>2 DEF RepeatFrame
    <2>2. QED
      BY <1>2, <2>1, TickCompletedFields
  <1>4. TypeOK'
    <2>1. total_frames' \in Nat /\ skipped_frames' \in Nat /\ shown' \in Nat
      BY <1>1, <1>2 DEF RepeatFrame, TypeOK
    <2>2. QED
      BY <1>1, <1>3, <2>1 DEF TypeOK, RepeatFrame, inputVars, stopVars
  <1>5. Ring' /\ Reading' /\ FramesAccounted'
    BY <1>1 DEF Ring, Reading, FramesAccounted, InFlight, SlotAt
  <1>6. Chain'
    <2>1. Occupied' = Occupied
      BY <1>1 DEF Occupied, InFlight
    <2>2. \A k \in Int : SlotAt(first_added', k) = SlotAt(first_added, k)
      BY <1>1 DEF SlotAt
    <2>3. \A k \in 1 .. Occupied - 1 :
             cache'[SlotAt(first_added, k)] = cache[SlotAt(first_added, k)]
      <3> TAKE k \in 1 .. Occupied - 1
      <3>1. k \in 0 .. CacheSize - 1 /\ 0 \in 0 .. CacheSize - 1 /\ k # 0
        BY <1>2, CacheSizeAssumption
      <3>2. SlotAt(first_added, k) \in Slots \ {first_added}
        BY <1>2, <3>1, SlotAtType, SlotAtInjective
      <3>3. QED
        BY <1>3, <3>2
    <2>4. cache'[SlotAt(first_added, 0)].timestamp = shown'
      BY <1>1, <1>2, <1>3
    <2>5. \A k \in 0 .. Occupied - 1 :
             /\ cache'[SlotAt(first_added, k)].count >= 1
             /\ cache'[SlotAt(first_added, k)].timestamp
                   + cache'[SlotAt(first_added, k)].count
                   = cache[SlotAt(first_added, k)].timestamp
                      + cache[SlotAt(first_added, k)].count
      <3> TAKE k \in 0 .. Occupied - 1
      <3>1. CASE k = 0
        <4>1. shown \in Nat
          BY DEF TypeOK
        <4>2. cache[first_added].count - 1 >= 1
          BY <1>1, <1>2
        <4>3. QED
          BY <1>2, <1>3, <3>1, <4>1, <4>2
      <3>2. CASE k # 0
        <4>1. k \in 1 .. Occupied - 1
          BY <3>2
        <4>2. QED
          BY <2>3, <4>1 DEF Chain
      <3>3. QED
        BY <3>1, <3>2
    <2>6. cache'[SlotAt(first_added, Occupied - 1)].timestamp
             + cache'[SlotAt(first_added, Occupied - 1)].count = tick'
      <3>1. Occupied - 1 \in 0 .. Occupied - 1 /\ Occupied > 0
        BY <1>2
      <3>2. QED
        BY <1>1, <2>5, <3>1 DEF Chain
    <2>7. \A k \in 0 .. Occupied - 2 :
             cache'[SlotAt(first_added, k + 1)].timestamp
                = cache'[SlotAt(first_added, k)].timestamp
                   + cache'[SlotAt(first_added, k)].count
      <3> TAKE k \in 0 .. Occupied - 2
      <3>1. k + 1 \in 1 .. Occupied - 1 /\ k \in 0 .. Occupied - 1
        BY <1>2
      <3>2. QED
        BY <2>3, <2>5, <3>1 DEF Chain
    <2>8. \A k \in Int :
             cache'[SlotAt(first_added', k)] = cache'[SlotAt(first_added, k)]
      BY <2>2
    <2>9. QED
      BY <1>2, <2>1, <2>4, <2>5, <2>6, <2>7, <2>8 DEF Chain
  <1>7. QED
    BY <1>4, <1>5, <1>6

LEMMA ReleaseFrameIInv ==
    ASSUME IInv, ReleaseFrame
    PROVE  IInv'
  <1> USE DEF IInv
  <1>1. /\ vpc = "callbacks" /\ vpc' = "wait" /\ cache[rslot].count = 1
        /\ shown' = cache[rslot].timestamp + 1
        /\ first_added' = Succ(first_added)
        /\ available_frames' = available_frames + 1
        /\ last_added' = LastAfterRelease
        /\ UNCHANGED <<wslot, tick, gpc, rslot, stop, update_semaphore>>
    BY DEF ReleaseFrame, FrameComplete, graphicsVars, stopVars
  <1>2. /\ rslot = first_added /\ SlotAt(first_added, 0) = first_added
        /\ first_added \in Slots
        /\ InFlight \in 1 .. CacheSize /\ Occupied \in 1 .. CacheSize
        /\ cache[first_added].timestamp = shown
    BY <1>1, ReadSlot
  <1>3. /\ cache' \in [Slots -> [timestamp : Nat, count : Nat]]
        /\ \A r \in Slots \ {first_added} : cache'[r] = cache[r]
    <2>1. cache' = TickCompleted(first_added) /\ cache[first_added].count >= 1
      BY <1>1, <1>2 DEF ReleaseFrame
    <2>2. QED
      BY <1>2, <2>1, TickCompletedFields
  <1>4. /\ InFlight' = InFlight - 1
        /\ Occupied' = Occupied - 1
        /\ available_frames' \in 0 .. CacheSize
    BY <1>1, <1>2, CacheSizeAssumption DEF InFlight, Occupied, TypeOK
  <1>5. \A k \in 0 .. CacheSize - 1 :
           SlotAt(first_added', k) = SlotAt(first_added, k + 1)
    BY <1>1, <1>2, SlotAtSucc
  <1>6. /\ first_added' \in Slots
        /\ SlotAt(first_added', 0) = first_added'
        /\ last_added' = IF InFlight = 1 THEN first_added' ELSE last_added
    <2>1. Succ(first_added) \in Slots
      BY <1>2, CacheSizeAssumption DEF Succ, Slots
    <2>2. available_frames + 1 = CacheSize <=> InFlight = 1
      BY CacheSizeAssumption DEF InFlight, TypeOK
    <2>3. QED
      BY <1>1, <2>1, <2>2, CacheSizeAssumption
         DEF LastAfterRelease, SlotAt, Slots
  <1>7. Ring'
    <2>1. ASSUME gpc = "copy"
          PROVE  /\ last_added' = SlotAt(first_added', InFlight')
                 /\ last_added' = last_added
      <3>1. /\ InFlight - 1 \in 0 .. CacheSize - 1
            /\ InFlight - 1 + 1 = InFlight
        BY <1>2, CacheSizeAssumption
      <3>2. last_added = SlotAt(first_added', InFlight - 1)
        BY <1>5, <2>1, <3>1 DEF Ring
      <3>3. QED
        BY <1>4, <1>6, <3>2
    <2>2. ASSUME gpc # "copy", InFlight # 1
          PROVE  last_added' = SlotAt(first_added', InFlight' - 1)
      <3>1. /\ InFlight - 2 \in 0 .. CacheSize - 1
            /\ InFlight - 2 + 1 = InFlight - 1
            /\ InFlight # 0 /\ InFlight' - 1 = InFlight - 2
        BY <1>2, <1>4, <2>2, CacheSizeAssumption
      <3>2. last_added = SlotAt(first_added, InFlight - 1)
        BY <2>2, <3>1 DEF Ring
      <3>3. SlotAt(first_added', InFlight - 2)
               = SlotAt(first_added, InFlight - 1)
        BY <1>5, <3>1
      <3>4. QED
        BY <1>6, <2>2, <3>1, <3>2, <3>3
    <2>3. /\ available_frames' >= 1
          /\ InFlight' = 0 <=> InFlight = 1
      BY <1>1, <1>2, <1>4 DEF TypeOK
    <2>4. QED
      BY <1>1, <1>6, <2>1, <2>2, <2>3 DEF Ring
  <1>8. TypeOK'
    <2>1. total_frames' \in Nat /\ shown' \in Nat /\ last_added' \in Slots
      BY <1>1, <1>2, <1>6 DEF ReleaseFrame, TypeOK
    <2>2. QED
      BY <1>1, <1>3, <1>4, <1>6, <2>1
         DEF TypeOK, ReleaseFrame, inputVars, stopVars
  <1>9. Reading' /\ FramesAccounted'
    BY <1>1, <1>2, <1>4 DEF Reading, FramesAccounted, TypeOK
  <1>10. Chain'
    <2>1. \A k \in 0 .. Occupied - 2 :
             /\ SlotAt(first_added', k) = SlotAt(first_added, k + 1)
             /\ cache'[SlotAt(first_added', k)]
                   = cache[SlotAt(first_added, k + 1)]
      <3> TAKE k \in 0 .. Occupied - 2
      <3>1. /\ k \in 0 .. CacheSize - 1 /\ k + 1 \in 0 .. CacheSize - 1
            /\ 0 \in 0 .. CacheSize - 1 /\ k + 1 # 0
        BY <1>2, CacheSizeAssumption
      <3>2. SlotAt(first_added, k + 1) \in Slots \ {first_added}
        BY <1>2, <3>1, SlotAtType, SlotAtInjective
      <3>3. QED
        BY <1>3, <1>5, <3>1, <3>2
    <2>2. CASE Occupied = 1
      <3>1. cache[first_added].timestamp + cache[first_added].count = tick
        BY <1>2, <2>2 DEF Chain
      <3>2. shown' = tick'
        BY <1>1, <1>2, <3>1 DEF TypeOK
      <3>3. QED
        BY <1>4, <2>2, <3>2 DEF Chain
    <2>3. CASE Occupied # 1
      <3>1. cache'[SlotAt(first_added', 0)].timestamp = shown'
        <4>1. 0 \in 0 .. Occupied - 2
          BY <1>2, <2>3
        <4>2. cache[SlotAt(first_added, 1)].timestamp
                 = cache[SlotAt(first_added, 0)].timestamp
                   + cache[SlotAt(first_added, 0)].count
          BY <4>1 DEF Chain
        <4>3. QED
          BY <1>1, <1>2, <2>1, <4>1, <4>2
      <3>2. cache'[SlotAt(first_added', Occupied - 2)].timestamp
               + cache'[SlotAt(first_added', Occupied - 2)].count = tick'
        <4>1. /\ Occupied - 2 \in 0 .. Occupied - 2
              /\ Occupied - 2 + 1 = Occupied - 1
          BY <1>2, <2>3
        <4>2. QED
          BY <1>1, <1>2, <2>1, <4>1 DEF Chain
      <3>3. \A k \in 0 .. Occupied - 2 :
               /\ cache'[SlotAt(first_added', k)].count >= 1
               /\ cache'[SlotAt(first_added', k)].timestamp
                     + cache'[SlotAt(first_added', k)].count <= tick'
        <4> TAKE k \in 0 .. Occupied - 2
        <4>1. k + 1 \in 0 .. Occupied - 1
          BY <1>2
        <4>2. QED
          BY <1>1, <2>1, <4>1 DEF Chain
      <3>4. \A k \in 0 .. Occupied - 3 :
               cache'[SlotAt(first_added', k + 1)].timestamp
                  = cache'[SlotAt(first_added', k)].timestamp
                    + cache'[SlotAt(first_added', k)].count
        <4> TAKE k \in 0 .. Occupied - 3
        <4>1. k \in 0 .. Occupied - 2 /\ k + 1 \in 0 .. Occupied - 2
          BY <1>2
        <4>2. QED
          BY <2>1, <4>1 DEF Chain
      <3>5. /\ Occupied' - 1 = Occupied - 2 /\ Occupied' - 2 = Occupied - 3
            /\ Occupied' # 0
        BY <1>2, <1>4, <2>3
      <3>6. QED
        BY <3>1, <3>2, <3>3, <3>4, <3>5 DEF Chain
    <2>4. QED
      BY <2>2, <2>3
  <1>11. QED
    BY <1>7, <1>8, <1>9, <1>10

(* The steps that leave the ring and what it stands for alone.             *)
LEMMA OtherStepsIInv ==
    ASSUME IInv,
           \/ CheckStopped \/ NoFrame \/ SemWait \/ Woken \/ LoopStopped
           \/ TakeSlot \/ Callback \/ Stop \/ Close \/ UNCHANGED vars
           \/ \E x \in Inputs : Connect(x) \/ Disconnect(x)
    PROVE  IInv'
  <1> USE DEF IInv
  <1> USE DEF cacheVars, graphicsVars, videoVars, inputVars, stopVars
  <1>1. /\ UNCHANGED cacheVars /\ UNCHANGED <<wslot, tick, shown>>
        /\ gpc' = "copy" <=> gpc = "copy"
    BY DEF CheckStopped, NoFrame, SemWait, Woken, LoopStopped, TakeSlot,
           Callback, Stop, Close, Connect, Disconnect, vars
  <1>2. Ring' /\ Chain' /\ InFlight' = InFlight
    BY <1>1, RingUnchanged DEF InFlight
  <1>3. CASE CheckStopped \/ NoFrame
    <2>1. TypeOK' /\ Reading' /\ FramesAccounted'
      BY <1>2, <1>3
         DEF TypeOK, Reading, FramesAccounted, CheckStopped, NoFrame
    <2>2. QED
      BY <1>2, <2>1
  <1>4. CASE SemWait
    <2>1. TypeOK' /\ Reading' /\ FramesAccounted'
      BY <1>2, <1>4 DEF TypeOK, Reading, FramesAccounted, SemWait
    <2>2. QED
      BY <1>2, <2>1
  <1>5. CASE Woken \/ LoopStopped
    <2>1. TypeOK'
      <3>1. CASE Woken
        BY <1>1, <3>1 DEF TypeOK, Woken
      <3>2. CASE LoopStopped
        BY <1>1, <3>2 DEF TypeOK, LoopStopped
      <3>3. QED
        BY <1>5, <3>1, <3>2
    <2>2. Reading' /\ FramesAccounted'
      BY <1>2, <1>5 DEF Reading, FramesAccounted, Woken, LoopStopped
    <2>3. QED
      BY <1>2, <2>1, <2>2
  <1>6. CASE TakeSlot
    <2>1. TypeOK'
      BY <1>6 DEF TypeOK, TakeSlot
    <2>2. Reading' /\ FramesAccounted'
      BY <1>2, <1>6 DEF TypeOK, Reading, FramesAccounted, TakeSlot
    <2>3. QED
      BY <1>2, <2>1, <2>2
  <1>7. CASE Callback
    <2>1. inputs' \in Seq(Inputs) /\ inputs[idx] \in Inputs
      <3>1. idx \in 1 .. Len(inputs) /\ inputs \in Seq(Inputs)
        BY <1>7 DEF Callback, TypeOK
      <3>2. inputs[idx] \in Inputs /\ RemoveAt(inputs, idx) \in Seq(Inputs)
        BY <3>1, RemoveAtType, ElementOfSeq
      <3>3. inputs' = inputs \/ inputs' = RemoveAt(inputs, idx)
        BY <1>7 DEF Callback
      <3>4. QED
        BY <3>1, <3>2, <3>3
    <2>2. TypeOK'
      <3>1. visited' \subseteq Inputs
        BY <1>7, <2>1 DEF Callback, TypeOK
      <3>2. idx' \in Nat \ {0} /\ erased' \in Nat
        BY <1>7 DEF Callback, TypeOK
      <3>3. UNCHANGED <<cacheVars, update_semaphore, graphicsVars, videoVars,
                        stopVars>>
        BY <1>7 DEF Callback
      <3>4. QED
        BY <2>1, <3>1, <3>2, <3>3 DEF TypeOK
    <2>3. Reading' /\ FramesAccounted'
      BY <1>2, <1>7 DEF Reading, FramesAccounted, Callback
    <2>4. QED
      BY <1>2, <2>2, <2>3
  <1>8. CASE Stop
    <2>1. stop' \in BOOLEAN /\ initialized' \in BOOLEAN /\ closed' \in BOOLEAN
      BY <1>8, Zenon DEF TypeOK, Stop
    <2>2. update_semaphore' \in Nat
      BY <1>8 DEF TypeOK, Stop
    <2>3. UNCHANGED <<cacheVars, graphicsVars, videoVars, inputVars>>
      BY <1>8 DEF Stop
    <2>4. TypeOK'
      BY <2>1, <2>2, <2>3 DEF TypeOK
    <2>5. Reading' /\ FramesAccounted'
      BY <1>2, <1>8 DEF Reading, FramesAccounted, Stop
    <2>6. QED
      BY <1>2, <2>4, <2>5
  <1>9. CASE Close \/ UNCHANGED vars
    <2>1. TypeOK' /\ Reading' /\ FramesAccounted'
      BY <1>2, <1>9 DEF TypeOK, Reading, FramesAccounted, Close, vars
    <2>2. QED
      BY <1>2, <2>1
  <1>10. CASE \E x \in Inputs : Connect(x) \/ Disconnect(x)
    <2>1. inputs' \in Seq(Inputs)
      <3>1. inputs \in Seq(Inputs)
        BY DEF TypeOK
      <3>2. ASSUME NEW x \in Inputs, Connect(x)
            PROVE  inputs' \in Seq(Inputs)
        BY <3>1, <3>2, AppendProperties DEF Connect
      <3>3. ASSUME NEW x \in Inputs, Disconnect(x)
            PROVE  inputs' \in Seq(Inputs)
        BY <3>1, <3>3, RemoveAtType DEF Disconnect
      <3>4. QED
        BY <1>10, <3>2, <3>3
    <2>2. /\ UNCHANGED <<cacheVars, update_semaphore, graphicsVars, videoVars>>
          /\ UNCHANGED <<idx, visited, erased, stopVars>>
      BY <1>10 DEF Connect, Disconnect
    <2>3. TypeOK'
      BY <2>1, <2>2 DEF TypeOK
    <2>4. Reading' /\ FramesAccounted'
      BY <1>2, <2>2 DEF Reading, FramesAccounted
    <2>5. QED
      BY <1>2, <2>3, <2>4
  <1>11. QED
    BY <1>3, <1>4, <1>5, <1>6, <1>7, <1>8, <1>9, <1>10

LEMMA NextIInv == IInv /\ [Next]_vars => IInv'
  <1> SUFFICES ASSUME IInv, [Next]_vars PROVE IInv'
    OBVIOUS
  <1>1. CASE LockFrame
    BY <1>1, LockSlotIInv, LockFullIInv DEF LockFrame
  <1>2. CASE UnlockFrame
    BY <1>2, UnlockFrameIInv
  <1>3. CASE RepeatFrame
    BY <1>3, RepeatFrameIInv
  <1>4. CASE ReleaseFrame
    BY <1>4, ReleaseFrameIInv
  <1>5. CASE ~(LockFrame \/ UnlockFrame \/ RepeatFrame \/ ReleaseFrame)
    BY <1>5, OtherStepsIInv DEF Next, Graphics, Video, Terminated
  <1>6. QED
    BY <1>1, <1>2, <1>3, <1>4, <1>5

(* The inductive invariant holds.                                          *)
THEOREM Invariance == Spec => []IInv
  BY InitIInv, NextIInv, PTL DEF Spec

-----------------------------------------------------------------------------
(* The indices, counters and program counters of struct video_output stay  *)
(* in their ranges: available_frames never underflows or exceeds           *)
(* cache_size, no count becomes negative, no index leaves the cache.       *)
THEOREM TypeCorrectness == Spec => []TypeOK
  BY Invariance, PTL DEF IInv

(* The graphics thread never copies a picture into the slot the callbacks  *)
(* are reading, although neither of them holds data_mutex.                 *)
THEOREM NoTearingHolds == Spec => []NoTearing
  <1>1. IInv => NoTearing
    <2> SUFFICES ASSUME IInv, gpc = "copy", vpc = "callbacks"
                 PROVE  wslot # rslot
      BY DEF NoTearing
    <2>1. /\ wslot = SlotAt(first_added, InFlight) /\ rslot = first_added
          /\ first_added = SlotAt(first_added, 0) /\ first_added \in Slots
          /\ InFlight \in 1 .. CacheSize - 1
      BY ReadSlot, CacheSizeAssumption DEF IInv, Ring, TypeOK, InFlight
    <2>2. InFlight \in 0 .. CacheSize - 1 /\ 0 \in 0 .. CacheSize - 1
      BY <2>1, CacheSizeAssumption
    <2>3. QED
      BY <2>1, <2>2, SlotAtInjective
  <1>2. QED
    BY <1>1, Invariance, PTL

(* The callbacks are given every tick once and in order.                   *)
THEOREM TicksInOrderHolds == Spec => []TicksInOrder
  <1>1. IInv => TicksInOrder
    BY ReadSlot DEF IInv, TicksInOrder
  <1>2. QED
    BY <1>1, Invariance, PTL

(* The semaphore accounts for every frame of the running output.           *)
THEOREM FramesAccountedHolds == Spec => []FramesAccounted
  BY Invariance, PTL DEF IInv

-----------------------------------------------------------------------------
(* The statistics.  Once a stop has made the video thread abandon a frame, *)
(* it never shows another one.                                             *)
TotalIInv ==
    /\ TotalIsShown
    /\ total_frames = shown + 1 => vpc \in {"wait", "woken", "exit"}

(* A step keeps the count of the ticks shown, given the slot's timestamp.  *)
LEMMA TotalStep ==
    ASSUME IInv, TotalIInv, [Next]_vars
    PROVE  TotalIInv'
  <1> USE DEF TotalIInv, TotalIsShown, cacheVars, graphicsVars, videoVars,
              inputVars, stopVars
  <1>1. /\ total_frames \in Nat /\ shown \in Nat
        /\ vpc \in {"wait", "woken", "loop", "callbacks", "exit"}
    BY DEF IInv, TypeOK
  <1>2. CASE RepeatFrame \/ ReleaseFrame
    <2>1. vpc = "callbacks" /\ cache[rslot].timestamp = shown
      BY <1>2, ReadSlot DEF IInv, RepeatFrame, ReleaseFrame
    <2>2. total_frames' = total_frames + 1 /\ shown' = shown + 1
      BY <1>2, <2>1 DEF RepeatFrame, ReleaseFrame
    <2>3. total_frames = shown
      BY <1>1, <2>1
    <2>4. QED
      BY <1>1, <2>2, <2>3
  <1>3. CASE LoopStopped
    BY <1>1, <1>3 DEF LoopStopped
  <1>4. CASE SemWait \/ TakeSlot \/ Callback
    BY <1>1, <1>4 DEF SemWait, TakeSlot, Callback
  <1>5. CASE Woken
    BY <1>1, <1>5 DEF Woken
  <1>6. CASE Graphics
    BY <1>6
       DEF Graphics, CheckStopped, NoFrame, LockFrame, LockSlot, LockFull,
           UnlockFrame
  <1>7. CASE Stop
    BY <1>7 DEF Stop
  <1>8. CASE Close \/ Terminated \/ UNCHANGED vars
    BY <1>8 DEF Close, Terminated, vars
  <1>9. ASSUME NEW x \in Inputs, Connect(x) \/ Disconnect(x)
        PROVE  TotalIInv'
    BY <1>9 DEF Connect, Disconnect
  <1>10. QED
    BY <1>2, <1>3, <1>4, <1>5, <1>6, <1>7, <1>8, <1>9 DEF Next, Video

(* total_frames counts the ticks shown, and at most one frame more that a  *)
(* stop abandoned: the ratio of dropped frames the UI shows is right.      *)
THEOREM TotalIsShownHolds == Spec => []TotalIsShown
  <1>1. Init => TotalIInv
    BY DEF Init, TotalIInv, TotalIsShown
  <1>2. IInv /\ TotalIInv /\ [Next]_vars => TotalIInv'
    BY TotalStep
  <1>3. TotalIInv => TotalIsShown
    BY DEF TotalIInv
  <1>4. QED
    BY <1>1, <1>2, <1>3, Invariance, PTL DEF Spec

(* What the model checker checks on three slots holds for every cache.     *)
THEOREM CacheSafeHolds == Spec => []CacheSafe
  BY TypeCorrectness, NoTearingHolds, TicksInOrderHolds,
     FramesAccountedHolds, TotalIsShownHolds, PTL DEF CacheSafe

-----------------------------------------------------------------------------
(* The callback loop.  The positions behind it whose input it has skipped; *)
(* each one is the work of an input that erased itself.                    *)
Missed == {i \in 1 .. Len(inputs) : i < idx /\ inputs[i] \notin visited}
ReachIInv == vpc = "callbacks" => Cardinality(Missed) <= erased

LEMMA MissedIsFinite ==
    ASSUME TypeOK
    PROVE  IsFiniteSet(Missed) /\ Cardinality(Missed) \in Nat
  <1>1. Len(inputs) \in Nat
    BY LenProperties DEF TypeOK
  <1>2. IsFiniteSet(1 .. Len(inputs))
    BY <1>1, FS_Interval
  <1>3. IsFiniteSet(Missed)
    BY <1>2, FS_Subset DEF Missed
  <1>4. QED
    BY <1>3, FS_CardinalityType

(* One turn of the loop: only an erasure lets it miss one input more.      *)
LEMMA CallbackReach ==
    ASSUME TypeOK, ReachIInv, Callback
    PROVE  ReachIInv'
  <1>1. /\ idx \in 1 .. Len(inputs) /\ inputs \in Seq(Inputs)
        /\ idx' = idx + 1 /\ visited' = visited \cup {inputs[idx]}
        /\ erased \in Nat /\ vpc = "callbacks"
    BY LenProperties DEF TypeOK, Callback
  <1>2. IsFiniteSet(Missed) /\ Cardinality(Missed) \in Nat
    BY MissedIsFinite
  <1>3. Cardinality(Missed) <= erased
    BY <1>1 DEF ReachIInv
  <1>4. CASE UNCHANGED <<inputs, erased>>
    <2>1. Missed' \subseteq Missed
      BY <1>1, <1>4 DEF Missed
    <2>2. Cardinality(Missed') <= Cardinality(Missed) /\ IsFiniteSet(Missed')
      BY <1>2, <2>1, FS_Subset
    <2>3. Cardinality(Missed') \in Nat
      BY <2>2, FS_CardinalityType
    <2>4. QED
      BY <1>1, <1>2, <1>3, <1>4, <2>2, <2>3 DEF ReachIInv
  <1>5. CASE inputs' = RemoveAt(inputs, idx) /\ erased' = erased + 1
    <2> DEFINE before == SubSeq(inputs, 1, idx - 1)
               after == SubSeq(inputs, idx + 1, Len(inputs))
    <2>0. /\ before \in Seq(Inputs) /\ Len(before) = idx - 1
          /\ \A i \in 1 .. idx - 1 : before[i] = inputs[i]
          /\ after \in Seq(Inputs) /\ Len(after) = Len(inputs) - idx
          /\ inputs' = before \o after
      BY <1>1, <1>5, SubSeqProperties DEF RemoveAt
    <2> HIDE DEF before, after
    <2>1. \A i \in 1 .. idx - 1 : inputs'[i] = inputs[i]
      BY <1>1, <2>0, ConcatProperties
    <2>2. Len(inputs') <= Len(inputs) /\ Len(inputs') \in Nat
      BY <1>1, <2>0, ConcatProperties
    <2>3. Missed' \subseteq Missed \cup {idx}
      BY <1>1, <2>1, <2>2 DEF Missed
    <2>4. /\ IsFiniteSet(Missed \cup {idx})
          /\ Cardinality(Missed \cup {idx}) <= Cardinality(Missed) + 1
      <3> DEFINE n == Cardinality(Missed \cup {idx})
      <3>1. /\ IsFiniteSet(Missed \cup {idx})
            /\ n = IF idx \in Missed THEN Cardinality(Missed) ELSE Cardinality(Missed) + 1
        BY <1>2, FS_AddElement, Zenon
      <3>2. n \in Nat /\ Cardinality(Missed) \in Nat
        BY <1>2, <3>1, FS_CardinalityType
      <3> HIDE DEF n
      <3>3. n <= Cardinality(Missed) + 1
        <4> DEFINE m == Cardinality(Missed)
        <4>1. (n = m \/ n = m + 1) /\ n \in Nat /\ m \in Nat
          BY <3>1, <3>2
        <4> HIDE DEF m
        <4>2. n <= m + 1
          BY <4>1
        <4>3. QED
          BY <4>2 DEF m
      <3>4. QED
        BY <3>1, <3>3 DEF n
    <2>5. Cardinality(Missed \cup {idx}) \in Nat
      BY <2>4, FS_CardinalityType
    <2>6. /\ Cardinality(Missed') <= Cardinality(Missed \cup {idx})
          /\ IsFiniteSet(Missed')
      BY <2>3, <2>4, FS_Subset
    <2>7. Cardinality(Missed') \in Nat
      BY <2>6, FS_CardinalityType
    <2>8. QED
      BY <1>1, <1>2, <1>3, <1>5, <2>4, <2>5, <2>6, <2>7 DEF ReachIInv
  <1>6. QED
    BY <1>4, <1>5 DEF Callback

(* Nobody else changes the array while the loop runs: input_mutex is held. *)
LEMMA ReachStep ==
    ASSUME TypeOK, ReachIInv, [Next]_vars
    PROVE  ReachIInv'
  <1> USE DEF cacheVars, graphicsVars, videoVars, inputVars, stopVars
  <1>1. CASE Callback
    BY <1>1, CallbackReach
  <1>2. CASE TakeSlot
    <2>1. Missed' = {}
      BY <1>2 DEF TakeSlot, Missed
    <2>2. erased' = 0
      BY <1>2 DEF TakeSlot
    <2>3. QED
      BY <2>1, <2>2, FS_EmptySet DEF ReachIInv
  <1>3. CASE SemWait \/ Woken \/ LoopStopped \/ RepeatFrame \/ ReleaseFrame
    BY <1>3
       DEF SemWait, Woken, LoopStopped, RepeatFrame, ReleaseFrame, ReachIInv
  <1>4. ASSUME NEW x \in Inputs, Connect(x) \/ Disconnect(x)
        PROVE  ReachIInv'
    BY <1>4 DEF Connect, Disconnect, InputMutexFree, ReachIInv
  <1>5. CASE Graphics \/ Stop \/ Close \/ Terminated \/ UNCHANGED vars
    <2>1. UNCHANGED <<vpc, inputVars>>
      BY <1>5
         DEF Graphics, CheckStopped, NoFrame, LockFrame, LockSlot, LockFull,
             UnlockFrame, Stop, Close, Terminated, vars
    <2>2. Missed' = Missed
      BY <2>1 DEF Missed
    <2>3. QED
      BY <2>1, <2>2 DEF ReachIInv
  <1>6. QED
    BY <1>1, <1>2, <1>3, <1>4, <1>5 DEF Next, Video

(* However many callbacks connect and whichever of them fail, a connected  *)
(* callback misses a tick only if another one erased itself in that tick.  *)
THEOREM InputsReachedHolds == Spec => []InputsReached
  <1>1. Init => ReachIInv
    BY DEF Init, ReachIInv
  <1>2. TypeOK /\ ReachIInv /\ [Next]_vars => ReachIInv'
    BY ReachStep
  <1>3. TypeOK /\ ReachIInv => InputsReached
    <2> SUFFICES ASSUME TypeOK, ReachIInv, vpc = "callbacks",
                        idx > Len(inputs)
                 PROVE  Cardinality(ToSet(inputs) \ visited) <= erased
      BY DEF InputsReached
    <2> DEFINE T == ToSet(inputs) \ visited
               f == [i \in Missed |-> inputs[i]]
    <2>1. inputs \in Seq(Inputs) /\ idx \in Nat /\ erased \in Nat
      BY DEF TypeOK
    <2>2. T = {inputs[i] : i \in Missed}
      BY <2>1, LenProperties DEF ToSet, Missed
    <2>3. f \in Surjection(Missed, T)
      BY <2>2 DEF Surjection
    <2>4. IsFiniteSet(T) /\ Cardinality(T) <= Cardinality(Missed)
      BY <2>3, MissedIsFinite, FS_Surjection
    <2>5. Cardinality(T) \in Nat /\ Cardinality(Missed) \in Nat
      BY <2>4, MissedIsFinite, FS_CardinalityType
    <2>6. QED
      BY <2>1, <2>4, <2>5 DEF ReachIInv
  <1>4. QED
    BY <1>1, <1>2, <1>3, TypeCorrectness, PTL DEF Spec

-----------------------------------------------------------------------------
(* A tick is shown only after it was produced: the frame read stands for   *)
(* at least one tick and ends no later than tick.                          *)
LEMMA ShownBeforeTick ==
    ASSUME IInv, vpc = "callbacks"
    PROVE  shown < tick
  <1>1. /\ SlotAt(first_added, 0) = first_added /\ rslot = first_added
        /\ Occupied \in 1 .. CacheSize /\ cache[first_added].timestamp = shown
        /\ cache[first_added].count >= 1 /\ cache[first_added].count \in Nat
    BY ReadSlot DEF IInv
  <1>2. 0 \in 0 .. Occupied - 1
    BY <1>1
  <1>3. shown + cache[first_added].count <= tick
    BY <1>1, <1>2 DEF IInv, Chain
  <1>4. QED
    BY <1>1, <1>3 DEF IInv, TypeOK

(* The frame cache implements the stream of ticks of FrameStream, whatever *)
(* its size.                                                               *)
THEOREM StreamImplemented == Spec => ImplementsStream
  <1>1. Init => Stream!Init
    BY DEF Init, Stream!Init
  <1>2. IInv /\ [Next]_vars => [Stream!Next]_(Stream!vars)
    <2> SUFFICES ASSUME IInv, [Next]_vars
                 PROVE  Stream!Next \/ UNCHANGED <<tick, shown, stop>>
      BY DEF Stream!vars
    <2> USE DEF cacheVars, graphicsVars, videoVars, inputVars, stopVars
    <2>1. CASE LockFrame
      <3>1. PICK count \in 1 .. MaxCount : tick' = tick + count
        BY <2>1 DEF LockFrame, LockSlot, LockFull
      <3>2. count \in Nat \ {0} /\ tick \in Nat
        BY BoundsAssumption DEF IInv, TypeOK
      <3>3. tick' \in Nat /\ tick' > tick
        BY <3>1, <3>2
      <3>4. UNCHANGED <<shown, stop>>
        BY <2>1 DEF LockFrame, LockSlot, LockFull
      <3>5. QED
        BY <3>3, <3>4 DEF Stream!Next, Stream!Produce
    <2>2. CASE RepeatFrame \/ ReleaseFrame
      <3>1. vpc = "callbacks" /\ shown' = cache[rslot].timestamp + 1
        BY <2>2 DEF RepeatFrame, ReleaseFrame
      <3>2. shown' = shown + 1 /\ shown < tick
        BY <3>1, ReadSlot, ShownBeforeTick DEF IInv
      <3>3. UNCHANGED <<tick, stop>>
        BY <2>2 DEF RepeatFrame, ReleaseFrame
      <3>4. QED
        BY <3>2, <3>3 DEF Stream!Next, Stream!Show
    <2>3. CASE Stop
      BY <2>3 DEF Stop, Stream!Next, Stream!Stop
    <2>4. CASE ~(LockFrame \/ RepeatFrame \/ ReleaseFrame \/ Stop)
      <3>1. UNCHANGED <<tick, shown, stop>>
        BY <2>4
           DEF Next, Graphics, Video, CheckStopped, NoFrame, UnlockFrame,
               SemWait, Woken, LoopStopped, TakeSlot, Callback, Connect,
               Disconnect, Close, Terminated, vars
      <3>2. QED
        BY <3>1
    <2>5. QED
      BY <2>1, <2>2, <2>3, <2>4
  <1>3. QED
    BY <1>1, <1>2, Invariance, PTL DEF Spec, ImplementsStream, Stream!Spec

\* ------------------------------------------- the pipeline and the cache


PipelinePc == {"render", "output", "convert", "stage", "download", "sleep"}

(* The iteration in which texture t of a stage was drawn last: at the end  *)
(* of an iteration cur_texture is already the next one's.                  *)
DrawnIn(drawn, t) ==
    IF pc = "sleep"
    THEN IF t = cur_texture THEN iteration - 1 ELSE iteration
    ELSE IF t # cur_texture THEN iteration - 1
         ELSE IF pc \in drawn THEN iteration ELSE iteration - 2

(* A texture drawn in iteration i, depth stages behind the scene.          *)
Aged(stage, t, i, depth, from) ==
    /\ content[stage][t] = IF i >= depth THEN i - depth ELSE -1
    /\ ready[stage][t] <=> i >= from

(* The stages, each one iteration older than the stage before it.  Without *)
(* GPU conversion a surface is staged even when nothing is there to stage. *)
Ages ==
    \A t \in {0, 1} :
        /\ Aged("render", t, DrawnIn(PipelinePc \ {"render"}, t), 0, 0)
        /\ Aged("output", t, DrawnIn(PipelinePc \ {"render", "output"}, t), 1, 1)
        /\ gpu_conversion =>
              /\ Aged("convert", t, DrawnIn({"stage", "download"}, t), 2, 2)
              /\ Aged("copy", t, DrawnIn({"download"}, t), 3, 3)
        /\ ~gpu_conversion =>
              Aged("copy", t, DrawnIn({"download"}, t), 2, 0)

(* The iterations whose download is over, and the first of them in which   *)
(* there is something to download.                                         *)
Downloads == IF pc = "sleep" THEN iteration + 1 ELSE iteration
FirstDownload == IF gpu_conversion THEN 4 ELSE 1

(* The frames taken out so far.                                            *)
Popped ==
    (IF Downloads >= FirstDownload THEN Downloads - FirstDownload ELSE 0) - failures

Info == [iter : Nat, timestamp : Nat, count : 1 .. MaxCount]

(* Every iteration that is over has left its information, and every        *)
(* download that worked has taken one.                                     *)
Infos ==
    /\ vframe_info_buffer \in Seq(Info)
    /\ Popped \in Nat /\ Len(vframe_info_buffer) = iteration - Popped
    /\ \A i \in 1 .. Len(vframe_info_buffer) :
          vframe_info_buffer[i].iter = Popped + i - 1

(* The invariant of the pipeline by itself.                                *)
PipelineIInv == Pipeline!TypeOK /\ gpu_conversion \in BOOLEAN /\ Ages /\ Infos

-----------------------------------------------------------------------------
(* From the oldest information to the present, without gaps; the oldest    *)
(* begins where the cache ends.                                            *)
TimeChain ==
    LET buffer == vframe_info_buffer
    IN /\ Len(buffer) = 0 => tick = video_time
       /\ Len(buffer) > 0 =>
             /\ buffer[1].timestamp = tick
             /\ buffer[Len(buffer)].timestamp + buffer[Len(buffer)].count = video_time
       /\ \A i \in 1 .. Len(buffer) - 1 :
             buffer[i + 1].timestamp = buffer[i].timestamp + buffer[i].count

(* The times at which the scenes were rendered, as the information says.   *)
Rendered ==
    /\ started \in Seq(Nat)
    /\ Len(started) = IF pc = "render" THEN iteration ELSE iteration + 1
    /\ \A i, j \in 1 .. Len(started) : i <= j => started[i] <= started[j]
    /\ \A i \in 1 .. Len(started) : started[i] <= video_time
    /\ pc # "render" => started[iteration + 1] = video_time
    /\ \A i \in 1 .. Len(vframe_info_buffer) :
          vframe_info_buffer[i].timestamp = started[vframe_info_buffer[i].iter + 1]

(* A picture that may be shown from the given time on.                     *)
Past(p, timestamp) ==
    /\ p \in Nat \cup {-1}
    /\ p >= failures => /\ p - failures + 1 <= Len(started)
                        /\ started[p - failures + 1] <= timestamp

(* The last picture downloaded, and whatever is older.                     *)
Older(p) == p <= Downloads - FirstDownload - (IF gpu_conversion THEN 1 ELSE 3) \/ p = -1

(* What is in the k-th slot of the cache.                                  *)
PictureAt(k) == picture[SlotAt(first_added, k)]
TimeAt(k) == cache[SlotAt(first_added, k)].timestamp

(* The pictures in the cache, and the one on its way into it.              *)
Pictures ==
    /\ picture \in [Slots -> Nat \cup {-1, Torn}]
    /\ \A k \in 0 .. InFlight - 1 : Past(PictureAt(k), TimeAt(k)) /\ Older(PictureAt(k))
    /\ \A j, k \in 0 .. InFlight - 1 :
          j < k => PictureAt(j) < PictureAt(k) \/ PictureAt(k) = -1
    /\ gpc = "copy" =>
          /\ Past(out.content, TimeAt(InFlight)) /\ Older(out.content)
          /\ \A k \in 0 .. InFlight - 1 :
                PictureAt(k) < out.content \/ PictureAt(k) = -1

(* The inductive invariant of the composition.                             *)
SystemIInv ==
    /\ IInv /\ PipelineIInv
    /\ Pipeline!PictureHasItsTime /\ Pipeline!PictureIsTwoLate
    /\ TimeChain /\ Rendered /\ Pictures

-----------------------------------------------------------------------------
(* The pipeline starts empty.                                              *)
LEMMA PipelineInit ==
    ASSUME Pipeline!Init
    PROVE  PipelineIInv /\ Pipeline!PictureHasItsTime /\ Pipeline!PictureIsTwoLate
  <1> USE DEF Pipeline!Init, Pipeline!Stages, Pipeline!Textures, Pipeline!Garbage,
              Pipeline!NoSurface, Pipeline!NoFrameYet
  <1>1. Pipeline!TypeOK /\ gpu_conversion \in BOOLEAN
    BY DEF Pipeline!TypeOK
  <1>2. Ages
    BY DEF Ages, Aged, DrawnIn, PipelinePc
  <1>3. Infos
    <2>1. Popped = 0
      BY <1>1 DEF Popped, Downloads, FirstDownload
    <2>2. vframe_info_buffer \in Seq(Info) /\ Len(vframe_info_buffer) = 0
      OBVIOUS
    <2>3. QED
      BY <2>1, <2>2 DEF Infos
  <1>4. Pipeline!PictureHasItsTime /\ Pipeline!PictureIsTwoLate
    BY DEF Pipeline!PictureHasItsTime, Pipeline!PictureIsTwoLate
  <1>5. QED
    BY <1>1, <1>2, <1>3, <1>4 DEF PipelineIInv

(* Drawing changes one texture of one stage.                               *)
LEMMA Drawn ==
    ASSUME Pipeline!TypeOK, NEW stage \in Pipeline!Stages, NEW p \in Nat \cup {-1},
           Pipeline!Draw(stage, p)
    PROVE  /\ content' \in [Pipeline!Stages -> [{0, 1} -> Nat \cup {-1}]]
           /\ ready' \in [Pipeline!Stages -> [{0, 1} -> BOOLEAN]]
           /\ content'[stage][cur_texture] = p /\ ready'[stage][cur_texture]
           /\ \A t \in {0, 1} \ {cur_texture} :
                 /\ content'[stage][t] = content[stage][t]
                 /\ ready'[stage][t] = ready[stage][t]
           /\ \A s \in Pipeline!Stages \ {stage} :
                 content'[s] = content[s] /\ ready'[s] = ready[s]
  <1>1. /\ content \in [Pipeline!Stages -> [{0, 1} -> Nat \cup {-1}]]
        /\ ready \in [Pipeline!Stages -> [{0, 1} -> BOOLEAN]]
        /\ cur_texture \in {0, 1}
    BY DEF Pipeline!TypeOK, Pipeline!Textures, Pipeline!Garbage
  <1>2. /\ content' = [content EXCEPT ![stage] = [content[stage] EXCEPT ![cur_texture] = p]]
        /\ ready' = [ready EXCEPT ![stage] = [ready[stage] EXCEPT ![cur_texture] = TRUE]]
    BY DEF Pipeline!Draw
  <1>3. /\ content[stage] \in [{0, 1} -> Nat \cup {-1}]
        /\ ready[stage] \in [{0, 1} -> BOOLEAN]
    BY <1>1
  <1>4. /\ [content[stage] EXCEPT ![cur_texture] = p] \in [{0, 1} -> Nat \cup {-1}]
        /\ [ready[stage] EXCEPT ![cur_texture] = TRUE] \in [{0, 1} -> BOOLEAN]
    BY <1>1, <1>3
  <1>5. /\ content' \in [Pipeline!Stages -> [{0, 1} -> Nat \cup {-1}]]
        /\ content'[stage] = [content[stage] EXCEPT ![cur_texture] = p]
        /\ \A s \in Pipeline!Stages \ {stage} : content'[s] = content[s]
    BY <1>1, <1>2, <1>4
  <1>6. /\ ready' \in [Pipeline!Stages -> [{0, 1} -> BOOLEAN]]
        /\ ready'[stage] = [ready[stage] EXCEPT ![cur_texture] = TRUE]
        /\ \A s \in Pipeline!Stages \ {stage} : ready'[s] = ready[s]
    BY <1>1, <1>2, <1>4
  <1>7. QED
    BY <1>1, <1>3, <1>5, <1>6

(* A stage draws: its texture is this iteration's, the others stay.        *)
LEMMA DrawStep ==
    ASSUME PipelineIInv, UNCHANGED gpu_conversion,
           Pipeline!RenderMain \/ Pipeline!RenderOutput \/ Pipeline!RenderConvert
              \/ Pipeline!StageOutput
    PROVE  PipelineIInv' /\ UNCHANGED <<iteration, video_time, vframe_info_buffer, out,
                                        failures>>
  <1> USE DEF PipelineIInv, Pipeline!TypeOK, Pipeline!Stages, Pipeline!Textures,
              Pipeline!Draw, Pipeline!Source, Pipeline!prev_texture, Pipeline!Garbage,
              Pipeline!NoSurface
  <1>1. Infos'
    <2>1. /\ UNCHANGED <<iteration, vframe_info_buffer, failures>>
          /\ pc # "sleep" /\ pc' # "sleep"
      BY DEF Pipeline!RenderMain, Pipeline!RenderOutput, Pipeline!RenderConvert,
             Pipeline!StageOutput
    <2>2. UNCHANGED Popped
      BY <2>1 DEF Popped, Downloads, FirstDownload
    <2>3. QED
      BY <2>1, <2>2 DEF Infos
  <1>2. CASE Pipeline!RenderMain
    <2>1. Pipeline!TypeOK'
      BY <1>2 DEF Pipeline!RenderMain
    <2>2. Ages'
      BY <1>2 DEF Ages, Aged, DrawnIn, PipelinePc, Pipeline!RenderMain
    <2>3. QED
      BY <1>1, <1>2, <2>1, <2>2 DEF Pipeline!RenderMain
  <1>3. CASE Pipeline!RenderOutput
    <2> DEFINE p == content["render"][1 - cur_texture]
    <2>1. p \in Nat \cup {-1} /\ 1 - cur_texture \in {0, 1}
      OBVIOUS
    <2>2. CASE ready["render"][1 - cur_texture]
      <3>1. Pipeline!Draw("output", p)
        BY <1>3, <2>2 DEF Pipeline!RenderOutput, Pipeline!texture_ready
      <3> HIDE DEF Pipeline!Draw
      <3>2. Pipeline!TypeOK'
        BY <1>3, <2>1, <3>1, Drawn DEF Pipeline!RenderOutput, Pipeline!unmap_last_surface
      <3>3. Ages'
        BY <1>3, <2>1, <2>2, <3>1, Drawn DEF Ages, Aged, DrawnIn, PipelinePc, Pipeline!RenderOutput
      <3>4. QED
        BY <1>1, <1>3, <3>2, <3>3 DEF Pipeline!RenderOutput
    <2>3. CASE ~(ready["render"][1 - cur_texture])
      <3>1. UNCHANGED <<content, ready>>
        BY <1>3, <2>3 DEF Pipeline!RenderOutput, Pipeline!texture_ready
      <3>2. Pipeline!TypeOK'
        BY <1>3, <3>1 DEF Pipeline!RenderOutput, Pipeline!unmap_last_surface
      <3>3. Ages'
        BY <1>3, <2>3, <3>1 DEF Ages, Aged, DrawnIn, PipelinePc, Pipeline!RenderOutput
      <3>4. QED
        BY <1>1, <1>3, <3>2, <3>3 DEF Pipeline!RenderOutput
    <2>4. QED
      BY <2>2, <2>3
  <1>4. CASE Pipeline!RenderConvert
    <2> DEFINE p == content["output"][1 - cur_texture]
    <2>1. p \in Nat \cup {-1} /\ 1 - cur_texture \in {0, 1}
      OBVIOUS
    <2>2. CASE ready["output"][1 - cur_texture]
      <3>1. Pipeline!Draw("convert", p)
        BY <1>4, <2>2 DEF Pipeline!RenderConvert, Pipeline!texture_ready
      <3> HIDE DEF Pipeline!Draw
      <3>2. Pipeline!TypeOK'
        BY <1>4, <2>1, <3>1, Drawn DEF Pipeline!RenderConvert, Pipeline!unmap_last_surface
      <3>3. Ages'
        BY <1>4, <2>1, <2>2, <3>1, Drawn DEF Ages, Aged, DrawnIn, PipelinePc, Pipeline!RenderConvert
      <3>4. QED
        BY <1>1, <1>4, <3>2, <3>3 DEF Pipeline!RenderConvert
    <2>3. CASE ~(ready["output"][1 - cur_texture])
      <3>1. UNCHANGED <<content, ready>>
        BY <1>4, <2>3 DEF Pipeline!RenderConvert, Pipeline!texture_ready
      <3>2. Pipeline!TypeOK'
        BY <1>4, <3>1 DEF Pipeline!RenderConvert, Pipeline!unmap_last_surface
      <3>3. Ages'
        BY <1>4, <2>3, <3>1 DEF Ages, Aged, DrawnIn, PipelinePc, Pipeline!RenderConvert
      <3>4. QED
        BY <1>1, <1>4, <3>2, <3>3 DEF Pipeline!RenderConvert
    <2>4. QED
      BY <2>2, <2>3
  <1>5. CASE Pipeline!StageOutput
    <2> DEFINE p == content[IF gpu_conversion THEN "convert" ELSE "output"][1 - cur_texture]
    <2>1. p \in Nat \cup {-1} /\ 1 - cur_texture \in {0, 1}
      OBVIOUS
    <2>2. CASE ~gpu_conversion \/ ready["convert"][1 - cur_texture]
      <3>1. Pipeline!Draw("copy", p)
        BY <1>5, <2>2 DEF Pipeline!StageOutput, Pipeline!texture_ready
      <3> HIDE DEF Pipeline!Draw
      <3>2. Pipeline!TypeOK'
        BY <1>5, <2>1, <3>1, Drawn DEF Pipeline!StageOutput, Pipeline!unmap_last_surface
      <3>3. Ages'
        BY <1>5, <2>1, <2>2, <3>1, Drawn DEF Ages, Aged, DrawnIn, PipelinePc, Pipeline!StageOutput
      <3>4. QED
        BY <1>1, <1>5, <3>2, <3>3 DEF Pipeline!StageOutput
    <2>3. CASE ~(~gpu_conversion \/ ready["convert"][1 - cur_texture])
      <3>1. UNCHANGED <<content, ready>>
        BY <1>5, <2>3 DEF Pipeline!StageOutput, Pipeline!texture_ready
      <3>2. Pipeline!TypeOK'
        BY <1>5, <3>1 DEF Pipeline!StageOutput, Pipeline!unmap_last_surface
      <3>3. Ages'
        BY <1>5, <2>3, <3>1 DEF Ages, Aged, DrawnIn, PipelinePc, Pipeline!StageOutput
      <3>4. QED
        BY <1>1, <1>5, <3>2, <3>3 DEF Pipeline!StageOutput
    <2>4. QED
      BY <2>2, <2>3
  <1>6. QED
    BY <1>2, <1>3, <1>4, <1>5

(* A surface is downloaded in every iteration from the first possible one  *)
(* on, and then there is information for it.                               *)
LEMMA DownloadReady ==
    ASSUME PipelineIInv, pc = "download"
    PROVE  /\ Pipeline!FrameReady <=> iteration >= FirstDownload
           /\ Pipeline!FrameReady =>
                 /\ Popped + failures = iteration - FirstDownload
                 /\ Len(vframe_info_buffer) >= 1
                 /\ content["copy"][1 - cur_texture] =
                       IF gpu_conversion THEN iteration - 4
                       ELSE IF iteration >= 3 THEN iteration - 3 ELSE -1
  <1> USE DEF PipelineIInv, Pipeline!TypeOK, Pipeline!Textures, Pipeline!prev_texture
  <1>1. 1 - cur_texture \in {0, 1} /\ 1 - cur_texture # cur_texture
    OBVIOUS
  <1>2. DrawnIn({"download"}, 1 - cur_texture) = iteration - 1
    BY <1>1 DEF DrawnIn
  <1>3. CASE gpu_conversion
    <2>1. Aged("copy", 1 - cur_texture, iteration - 1, 3, 3)
      BY <1>1, <1>2, <1>3 DEF Ages
    <2>2. QED
      BY <1>3, <2>1 DEF Aged, Pipeline!FrameReady, FirstDownload, Infos, Popped, Downloads
  <1>4. CASE ~gpu_conversion
    <2>1. Aged("copy", 1 - cur_texture, iteration - 1, 2, 0)
      BY <1>1, <1>2, <1>4 DEF Ages
    <2>2. QED
      BY <1>4, <2>1 DEF Aged, Pipeline!FrameReady, FirstDownload, Infos, Popped, Downloads
  <1>5. QED
    BY <1>3, <1>4

(* The oldest information is the one of the picture.                       *)
LEMMA OldestInfo ==
    ASSUME PipelineIInv, Len(vframe_info_buffer) >= 1
    PROVE  /\ vframe_info_buffer # <<>>
           /\ Head(vframe_info_buffer) = vframe_info_buffer[1]
           /\ vframe_info_buffer[1] \in Info /\ vframe_info_buffer[1].iter = Popped
           /\ Tail(vframe_info_buffer) \in Seq(Info)
           /\ Len(Tail(vframe_info_buffer)) = Len(vframe_info_buffer) - 1
           /\ \A i \in 1 .. Len(vframe_info_buffer) - 1 :
                 Tail(vframe_info_buffer)[i] = vframe_info_buffer[i + 1]
  <1>1. vframe_info_buffer \in Seq(Info)
    BY DEF PipelineIInv, Infos
  <1>2. vframe_info_buffer # <<>> /\ Len(vframe_info_buffer) \in Nat
    BY <1>1
  <1>3. vframe_info_buffer[1] \in Info
    BY <1>1, <1>2
  <1>4. vframe_info_buffer[1].iter = Popped
    BY <1>2 DEF PipelineIInv, Infos
  <1>5. QED
    BY <1>1, <1>2, <1>3, <1>4, HeadTailProperties

(* download_frame succeeds: a picture leaves with the oldest information.  *)
LEMMA DownloadStep ==
    ASSUME PipelineIInv, UNCHANGED gpu_conversion, Pipeline!Download
    PROVE  PipelineIInv' /\ Pipeline!PictureHasItsTime' /\ Pipeline!PictureIsTwoLate'
  <1>1. /\ pc = "download" /\ pc' = "sleep" /\ Pipeline!FrameReady
        /\ cur_texture' = 1 - cur_texture
        /\ UNCHANGED <<iteration, video_time, ready, content, failures>>
        /\ mapped_surface' = 1 - cur_texture
        /\ vframe_info_buffer' = Tail(vframe_info_buffer)
        /\ out'.content = content["copy"][1 - cur_texture]
        /\ out'.iter = Head(vframe_info_buffer).iter /\ out'.failed = failures
    BY DEF Pipeline!Download, Pipeline!PopInfo, Pipeline!NextTexture, Pipeline!prev_texture
  <1>2. /\ Popped + failures = iteration - FirstDownload
        /\ Len(vframe_info_buffer) >= 1
        /\ iteration >= FirstDownload
        /\ content["copy"][1 - cur_texture] =
              IF gpu_conversion THEN iteration - 4
              ELSE IF iteration >= 3 THEN iteration - 3 ELSE -1
    BY <1>1, DownloadReady
  <1>3. Popped' = Popped + 1
    BY <1>1, <1>2 DEF Popped, Downloads, FirstDownload, PipelineIInv, Pipeline!TypeOK
  <1>4. Pipeline!TypeOK'
    BY <1>1, <1>2 DEF PipelineIInv, Pipeline!TypeOK, Pipeline!Textures, Pipeline!Garbage,
                      FirstDownload
  <1>5. Ages'
    BY <1>1 DEF PipelineIInv, Pipeline!TypeOK, Pipeline!Textures, Ages, Aged, DrawnIn,
                PipelinePc
  <1>6. Infos'
    BY <1>1, <1>2, <1>3, OldestInfo DEF PipelineIInv, Infos, Pipeline!TypeOK
  <1>7. /\ out'.iter \in Nat /\ out'.failed \in Nat
        /\ out'.iter + out'.failed = iteration - FirstDownload
    BY <1>1, <1>2, OldestInfo DEF PipelineIInv, Pipeline!TypeOK, Infos
  <1>8. QED
    <2>1. PipelineIInv'
      BY <1>1, <1>4, <1>5, <1>6 DEF PipelineIInv
    <2>2. iteration \in Nat /\ gpu_conversion' = gpu_conversion
      BY DEF PipelineIInv, Pipeline!TypeOK
    <2>3. Pipeline!PictureHasItsTime'
      <3>1. CASE gpu_conversion
        <4>1. out'.content = iteration - 4
          BY <1>1, <1>2, <3>1
        <4>2. out'.iter + out'.failed = iteration - 4
          BY <1>7, <3>1 DEF FirstDownload
        <4>3. QED
          BY <4>1, <4>2 DEF Pipeline!PictureHasItsTime
      <3>2. CASE ~gpu_conversion
        BY <2>2, <3>2 DEF Pipeline!PictureHasItsTime
      <3>3. QED
        BY <3>1, <3>2
    <2>4. Pipeline!PictureIsTwoLate'
      <3>1. CASE ~gpu_conversion
        <4>1. out'.content = IF iteration >= 3 THEN iteration - 3 ELSE -1
          BY <1>1, <1>2, <3>1
        <4>2. out'.iter + out'.failed = iteration - 1
          BY <1>7, <3>1 DEF FirstDownload
        <4>3. out'.content = IF out'.iter + out'.failed < 2 THEN -1
                             ELSE out'.iter + out'.failed - 2
          BY <1>7, <2>2, <4>1, <4>2
        <4>4. QED
          BY <4>3 DEF Pipeline!PictureIsTwoLate, Pipeline!Garbage
      <3>2. CASE gpu_conversion
        BY <2>2, <3>2 DEF Pipeline!PictureIsTwoLate
      <3>3. QED
        BY <3>1, <3>2
    <2>5. QED
      BY <2>1, <2>3, <2>4

(* download_frame returns false: too early, or the map fails.              *)
LEMMA NoDownloadStep ==
    ASSUME PipelineIInv, UNCHANGED gpu_conversion, Pipeline!NotReady \/ Pipeline!MapFails
    PROVE  PipelineIInv' /\ UNCHANGED out
  <1>1. /\ pc = "download" /\ pc' = "sleep" /\ cur_texture' = 1 - cur_texture
        /\ failures' = IF Pipeline!FrameReady THEN failures + 1 ELSE failures
        /\ UNCHANGED <<iteration, video_time, ready, content, mapped_surface,
                       vframe_info_buffer, out>>
    BY DEF Pipeline!NotReady, Pipeline!MapFails, Pipeline!NextTexture
  <1>2. Popped' = Popped
    BY <1>1, DownloadReady
       DEF Popped, Downloads, FirstDownload, PipelineIInv, Pipeline!TypeOK
  <1>3. Pipeline!TypeOK'
    BY <1>1 DEF PipelineIInv, Pipeline!TypeOK, Pipeline!Textures, Pipeline!Garbage
  <1>4. Ages'
    BY <1>1 DEF PipelineIInv, Pipeline!TypeOK, Pipeline!Textures, Ages, Aged, DrawnIn,
                PipelinePc
  <1>5. Infos'
    BY <1>1, <1>2 DEF PipelineIInv, Infos
  <1>6. QED
    BY <1>1, <1>3, <1>4, <1>5 DEF PipelineIInv

(* What video_sleep queues.                                                *)
LEMMA SleepFacts ==
    ASSUME Pipeline!Sleep, PipelineIInv
    PROVE  \E info \in Info :
              /\ vframe_info_buffer' = Append(vframe_info_buffer, info)
              /\ info.iter = iteration /\ info.timestamp = video_time
              /\ video_time' = video_time + info.count
              /\ pc = "sleep" /\ pc' = "render" /\ iteration' = iteration + 1
              /\ UNCHANGED <<cur_texture, ready, content, mapped_surface, out, failures>>
  <1>1. PICK count \in 1 .. MaxCount :
           /\ vframe_info_buffer' =
                 Append(vframe_info_buffer,
                        [iter |-> iteration, timestamp |-> video_time, count |-> count])
           /\ video_time' = video_time + count
    BY DEF Pipeline!Sleep, Pipeline!PushedCount
  <1> DEFINE info == [iter |-> iteration, timestamp |-> video_time, count |-> count]
  <1>2. info \in Info
    BY DEF Info, PipelineIInv, Pipeline!TypeOK
  <1>3. QED
    BY <1>1, <1>2 DEF Pipeline!Sleep

(* video_sleep keeps the pipeline's invariant: the count of frames taken   *)
(* stays, and one more information is queued.                              *)
LEMMA SleepStep ==
    ASSUME PipelineIInv, UNCHANGED gpu_conversion, Pipeline!Sleep
    PROVE  PipelineIInv' /\ UNCHANGED out
  <1>1. PICK info \in Info :
              /\ vframe_info_buffer' = Append(vframe_info_buffer, info)
              /\ info.iter = iteration /\ info.timestamp = video_time
              /\ video_time' = video_time + info.count
              /\ pc = "sleep" /\ pc' = "render" /\ iteration' = iteration + 1
              /\ UNCHANGED <<cur_texture, ready, content, mapped_surface, out, failures>>
    BY SleepFacts
  <1>2. Popped' = Popped
    BY <1>1 DEF Popped, Downloads, FirstDownload, PipelineIInv, Pipeline!TypeOK
  <1>3. Pipeline!TypeOK'
    <2>1. info.count \in Nat
      BY BoundsAssumption DEF Info
    <2>2. QED
      BY <1>1, <2>1 DEF PipelineIInv, Pipeline!TypeOK
  <1>4. Ages'
    BY <1>1 DEF PipelineIInv, Pipeline!TypeOK, Pipeline!Textures, Ages, Aged, DrawnIn,
                PipelinePc
  <1>5. Infos'
    <2>1. /\ vframe_info_buffer \in Seq(Info) /\ Popped \in Nat /\ iteration \in Nat
          /\ Len(vframe_info_buffer) = iteration - Popped
      BY DEF PipelineIInv, Infos, Pipeline!TypeOK
    <2>2. /\ vframe_info_buffer' \in Seq(Info)
          /\ Len(vframe_info_buffer') = Len(vframe_info_buffer) + 1
          /\ \A i \in 1 .. Len(vframe_info_buffer) :
                vframe_info_buffer'[i] = vframe_info_buffer[i]
          /\ vframe_info_buffer'[Len(vframe_info_buffer) + 1] = info
      BY <1>1, <2>1, AppendProperties
    <2>3. ASSUME NEW i \in 1 .. Len(vframe_info_buffer')
          PROVE  vframe_info_buffer'[i].iter = Popped' + i - 1
      <3>1. CASE i = Len(vframe_info_buffer) + 1
        <4>1. vframe_info_buffer'[i] = info /\ info.iter = iteration
          BY <1>1, <2>2, <3>1
        <4>2. iteration = Popped' + i - 1
          BY <1>2, <2>1, <3>1
        <4>3. QED
          BY <4>1, <4>2
      <3>2. CASE i # Len(vframe_info_buffer) + 1
        <4>1. i \in 1 .. Len(vframe_info_buffer)
          BY <2>1, <2>2, <3>2
        <4>2. QED
          BY <1>2, <2>2, <4>1 DEF PipelineIInv, Infos
      <3>3. QED
        BY <3>1, <3>2
    <2>4. Len(vframe_info_buffer') = iteration' - Popped'
      BY <1>1, <1>2, <2>1, <2>2
    <2>5. QED
      BY <1>2, <2>1, <2>2, <2>3, <2>4 DEF Infos
  <1>6. QED
    BY <1>1, <1>3, <1>4, <1>5 DEF PipelineIInv

-----------------------------------------------------------------------------
(* The time chain: an information is added at the present, and taken where *)
(* the cache ends.                                                         *)
LEMMA TimeChainPush ==
    ASSUME PipelineIInv, TimeChain, Pipeline!Sleep, UNCHANGED tick
    PROVE  TimeChain'
  <1>1. PICK info \in Info :
              /\ vframe_info_buffer' = Append(vframe_info_buffer, info)
              /\ info.timestamp = video_time
              /\ video_time' = video_time + info.count
    BY SleepFacts
  <1> DEFINE n == Len(vframe_info_buffer)
  <1>2. n \in Nat /\ vframe_info_buffer \in Seq(Info)
    BY DEF PipelineIInv, Infos
  <1>3. /\ Len(vframe_info_buffer') = n + 1
        /\ \A i \in 1 .. n : vframe_info_buffer'[i] = vframe_info_buffer[i]
        /\ vframe_info_buffer'[n + 1] = info
    BY <1>1, <1>2, AppendProperties
  <1>4. vframe_info_buffer'[1].timestamp = tick
    BY <1>1, <1>2, <1>3 DEF TimeChain
  <1>5. ASSUME NEW i \in 1 .. n
        PROVE  vframe_info_buffer'[i + 1].timestamp =
                  vframe_info_buffer'[i].timestamp + vframe_info_buffer'[i].count
    <2>1. CASE i = n
      BY <1>1, <1>2, <1>3, <2>1 DEF TimeChain
    <2>2. CASE i # n
      <3>1. i \in 1 .. n - 1 /\ i + 1 \in 1 .. n
        BY <1>2, <2>2
      <3>2. QED
        BY <1>2, <1>3, <3>1 DEF TimeChain
    <2>3. QED
      BY <2>1, <2>2
  <1>6. QED
    BY <1>1, <1>2, <1>3, <1>4, <1>5 DEF TimeChain

(* A frame is taken: the chain begins where that frame ends.               *)
LEMMA TimeChainPop ==
    ASSUME PipelineIInv, TimeChain, Len(vframe_info_buffer) >= 1,
           vframe_info_buffer' = Tail(vframe_info_buffer), UNCHANGED video_time,
           tick' = tick + vframe_info_buffer[1].count
    PROVE  TimeChain'
  <1> DEFINE n == Len(vframe_info_buffer)
  <1>1. /\ n \in Nat
        /\ Len(vframe_info_buffer') = n - 1
        /\ \A i \in 1 .. n - 1 : vframe_info_buffer'[i] = vframe_info_buffer[i + 1]
    BY OldestInfo DEF PipelineIInv, Infos
  <1>2. CASE n = 1
    <2>1. /\ vframe_info_buffer[1].timestamp = tick
          /\ vframe_info_buffer[1].timestamp + vframe_info_buffer[1].count = video_time
      BY <1>2 DEF TimeChain
    <2>2. Len(vframe_info_buffer') = 0 /\ tick' = video_time'
      BY <1>1, <1>2, <2>1
    <2>3. QED
      BY <2>2 DEF TimeChain
  <1>3. CASE n > 1
    <2>1. vframe_info_buffer'[1].timestamp = tick'
      BY <1>1, <1>3 DEF TimeChain
    <2>2. vframe_info_buffer'[n - 1] = vframe_info_buffer[n]
      BY <1>1, <1>3
    <2>3. ASSUME NEW i \in 1 .. n - 2
          PROVE  vframe_info_buffer'[i + 1].timestamp =
                    vframe_info_buffer'[i].timestamp + vframe_info_buffer'[i].count
      <3>1. i \in 1 .. n - 1 /\ i + 1 \in 1 .. n - 1
        BY <1>1
      <3>2. QED
        BY <1>1, <3>1 DEF TimeChain
    <2>4. QED
      BY <1>1, <1>3, <2>1, <2>2, <2>3 DEF TimeChain
  <1>4. n = 1 \/ n > 1
    <2>1. n >= 1 /\ n \in Nat
      BY <1>1
    <2> HIDE DEF n
    <2>2. QED
      BY <2>1
  <1>5. QED
    BY <1>2, <1>3, <1>4

(* The times of rendering: a scene is added when it is rendered, and its   *)
(* information carries the time.                                           *)
LEMMA RenderedPush ==
    ASSUME PipelineIInv, Rendered, Pipeline!RenderMain,
           started' = Append(started, video_time)
    PROVE  Rendered'
  <1>1. /\ pc = "render" /\ pc' = "output"
        /\ UNCHANGED <<iteration, video_time, vframe_info_buffer>>
    BY DEF Pipeline!RenderMain
  <1>2. /\ iteration \in Nat /\ video_time \in Nat /\ started \in Seq(Nat)
        /\ Len(started) = iteration
    BY <1>1 DEF PipelineIInv, Pipeline!TypeOK, Rendered
  <1>3. /\ started' \in Seq(Nat) /\ Len(started') = iteration + 1
        /\ \A i \in 1 .. iteration : started'[i] = started[i]
        /\ started'[iteration + 1] = video_time
    BY <1>2, AppendProperties
  <1>4. \A i, j \in 1 .. iteration + 1 : i <= j => started'[i] <= started'[j]
    BY <1>2, <1>3 DEF Rendered
  <1>5. \A i \in 1 .. iteration + 1 : started'[i] <= video_time
    BY <1>2, <1>3 DEF Rendered
  <1>6. ASSUME NEW i \in 1 .. Len(vframe_info_buffer)
        PROVE  vframe_info_buffer[i].timestamp = started'[vframe_info_buffer[i].iter + 1]
    <2>1. /\ vframe_info_buffer[i].iter = Popped + i - 1 /\ Popped \in Nat
          /\ Len(vframe_info_buffer) = iteration - Popped
      BY DEF PipelineIInv, Infos
    <2>2. vframe_info_buffer[i].iter + 1 \in 1 .. iteration
      BY <1>2, <2>1
    <2>3. QED
      BY <1>3, <2>2 DEF Rendered
  <1>7. QED
    BY <1>1, <1>2, <1>3, <1>4, <1>5, <1>6 DEF Rendered

(* video_sleep dates its information with the time of the scene rendered.  *)
LEMMA RenderedSleep ==
    ASSUME PipelineIInv, Rendered, Pipeline!Sleep, UNCHANGED started
    PROVE  Rendered'
  <1>1. PICK info \in Info :
              /\ vframe_info_buffer' = Append(vframe_info_buffer, info)
              /\ info.iter = iteration /\ info.timestamp = video_time
              /\ video_time' = video_time + info.count
              /\ pc = "sleep" /\ pc' = "render" /\ iteration' = iteration + 1
    BY SleepFacts
  <1>2. /\ vframe_info_buffer \in Seq(Info) /\ iteration \in Nat
        /\ video_time \in Nat /\ info.count \in Nat
    BY BoundsAssumption DEF PipelineIInv, Infos, Pipeline!TypeOK, Info
  <1>3. /\ Len(vframe_info_buffer') = Len(vframe_info_buffer) + 1
        /\ Len(vframe_info_buffer) \in Nat
        /\ \A i \in 1 .. Len(vframe_info_buffer) :
              vframe_info_buffer'[i] = vframe_info_buffer[i]
        /\ vframe_info_buffer'[Len(vframe_info_buffer) + 1] = info
    BY <1>1, <1>2, AppendProperties
  <1>4. /\ Len(started) = iteration + 1 /\ started[iteration + 1] = video_time
        /\ started \in Seq(Nat)
    BY <1>1 DEF Rendered
  <1>5. \A i \in 1 .. Len(started') : started'[i] <= video_time'
    <2> SUFFICES ASSUME NEW i \in 1 .. Len(started) PROVE started[i] <= video_time'
      OBVIOUS
    <2>1. started[i] <= video_time /\ started[i] \in Nat
      BY <1>4 DEF Rendered
    <2>2. QED
      BY <1>1, <1>2, <2>1
  <1>6. ASSUME NEW i \in 1 .. Len(vframe_info_buffer')
        PROVE  vframe_info_buffer'[i].timestamp = started'[vframe_info_buffer'[i].iter + 1]
    <2>1. CASE i = Len(vframe_info_buffer) + 1
      BY <1>1, <1>3, <1>4, <2>1
    <2>2. CASE i # Len(vframe_info_buffer) + 1
      <3>1. i \in 1 .. Len(vframe_info_buffer)
        BY <1>3, <2>2
      <3>2. QED
        BY <1>3, <3>1 DEF Rendered
    <2>3. QED
      BY <2>1, <2>2
  <1>7. QED
    BY <1>1, <1>4, <1>5, <1>6 DEF Rendered

(* Taking an information leaves the dates of the others.                   *)
LEMMA RenderedPop ==
    ASSUME PipelineIInv, Rendered, Len(vframe_info_buffer) >= 1,
           vframe_info_buffer' = Tail(vframe_info_buffer),
           pc = "download", pc' = "sleep", UNCHANGED <<started, iteration, video_time>>
    PROVE  Rendered'
  <1>1. /\ Len(vframe_info_buffer') = Len(vframe_info_buffer) - 1
        /\ Len(vframe_info_buffer) \in Nat
        /\ \A i \in 1 .. Len(vframe_info_buffer) - 1 :
              vframe_info_buffer'[i] = vframe_info_buffer[i + 1]
    BY OldestInfo DEF PipelineIInv, Infos
  <1>2. \A i \in 1 .. Len(vframe_info_buffer') :
           vframe_info_buffer'[i].timestamp = started[vframe_info_buffer'[i].iter + 1]
    BY <1>1 DEF Rendered
  <1>3. QED
    BY <1>2 DEF Rendered

-----------------------------------------------------------------------------
(* A step that leaves the pipeline and the time alone.                     *)
LEMMA PipelineUnchanged ==
    ASSUME PipelineIInv, Pipeline!PictureHasItsTime, Pipeline!PictureIsTwoLate,
           TimeChain, Rendered, UNCHANGED <<pipelineVars, started, tick>>
    PROVE  /\ PipelineIInv' /\ Pipeline!PictureHasItsTime' /\ Pipeline!PictureIsTwoLate'
           /\ TimeChain' /\ Rendered'
  <1> USE DEF pipelineVars
  <1>1. Pipeline!TypeOK'
    BY DEF PipelineIInv, Pipeline!TypeOK
  <1>2. Ages'
    BY DEF PipelineIInv, Ages, Aged, DrawnIn
  <1>3. Infos'
    BY DEF PipelineIInv, Infos, Popped, Downloads, FirstDownload
  <1>4. Pipeline!PictureHasItsTime' /\ Pipeline!PictureIsTwoLate'
    BY DEF Pipeline!PictureHasItsTime, Pipeline!PictureIsTwoLate
  <1>5. TimeChain' /\ Rendered'
    BY DEF TimeChain, Rendered
  <1>6. QED
    BY <1>1, <1>2, <1>3, <1>4, <1>5 DEF PipelineIInv

(* A picture that may be shown may be shown later too, and more so after   *)
(* another failed map.                                                     *)
LEMMA PastKept ==
    ASSUME PipelineIInv, Rendered, NEW p, NEW t \in Nat, NEW u \in Nat, t <= u,
           Past(p, t), NEW f \in Nat, failures' = f, failures <= f,
           started' = started \/ started' = Append(started, video_time)
    PROVE  Past(p, u)'
  <1>1. /\ started \in Seq(Nat) /\ Len(started) \in Nat /\ failures \in Nat
        /\ video_time \in Nat /\ p \in Nat \cup {-1}
    BY DEF Rendered, PipelineIInv, Pipeline!TypeOK, Past
  <1>2. /\ Len(started') >= Len(started) /\ Len(started') \in Nat
        /\ \A i \in 1 .. Len(started) : started'[i] = started[i] /\ started[i] \in Nat
    BY <1>1, AppendProperties
  <1>3. ASSUME p >= f
        PROVE  /\ p - f + 1 <= Len(started')
               /\ started'[p - f + 1] <= u
    <2>1. p >= failures /\ p \in Nat
      <3>1. p \in Nat
        BY <1>1, <1>3
      <3>2. QED
        BY <1>1, <1>3, <3>1
    <2>2. p - failures + 1 <= Len(started)
      BY <2>1 DEF Past
    <2>3. started[p - failures + 1] <= t
      BY <2>1 DEF Past
    <2>4. /\ p - f + 1 \in 1 .. Len(started)
          /\ p - failures + 1 \in 1 .. Len(started)
          /\ p - f + 1 <= p - failures + 1
      <3>1. failures \in Nat /\ Len(started) \in Nat
        BY <1>1
      <3>2. QED
        BY <1>3, <2>1, <2>2, <3>1
    <2>5. started[p - f + 1] <= started[p - failures + 1]
      BY <2>4 DEF Rendered
    <2>6. /\ started'[p - f + 1] = started[p - f + 1]
          /\ started[p - f + 1] \in Nat /\ started[p - failures + 1] \in Nat
      BY <1>2, <2>4
    <2>7. started'[p - f + 1] <= u
      BY <2>3, <2>5, <2>6
    <2>8. QED
      BY <1>2, <2>4, <2>7
  <1>4. QED
    BY <1>1, <1>3 DEF Past

(* What is old stays old.                                                  *)
LEMMA OlderKept ==
    ASSUME PipelineIInv, NEW p \in Nat \cup {-1}, Older(p), UNCHANGED gpu_conversion,
           NEW d \in Nat, Downloads' = d, Downloads <= d
    PROVE  Older(p)'
  <1>1. Downloads \in Nat
    BY DEF Downloads, PipelineIInv, Pipeline!TypeOK
  <1>2. CASE gpu_conversion
    BY <1>1, <1>2 DEF Older, FirstDownload
  <1>3. CASE ~gpu_conversion
    BY <1>1, <1>3 DEF Older, FirstDownload
  <1>4. QED
    BY <1>2, <1>3

(* The pictures stay in order while time goes on and the ring stays.       *)
LEMMA PicturesKept ==
    ASSUME IInv, PipelineIInv, Rendered, Pictures, TypeOK',
           UNCHANGED <<available_frames, first_added, picture, gpu_conversion>>,
           \A s \in Slots : cache[s].timestamp <= cache'[s].timestamp,
           gpc' = "copy" => gpc = "copy" /\ UNCHANGED out,
           NEW d \in Nat, Downloads' = d, Downloads <= d,
           NEW f \in Nat, failures' = f, failures <= f,
           started' = started \/ started' = Append(started, video_time)
    PROVE  Pictures'
  <1>1. /\ InFlight' = InFlight /\ InFlight \in 0 .. CacheSize
        /\ first_added \in Slots
        /\ gpc = "copy" => InFlight \in 0 .. CacheSize - 1
    BY CacheSizeAssumption DEF IInv, TypeOK, InFlight, Ring
  <1>2. \A k \in Int : SlotAt(first_added, k)' = SlotAt(first_added, k)
    BY DEF SlotAt
  <1>3. \A k \in Int : PictureAt(k)' = PictureAt(k)
    BY <1>2 DEF PictureAt
  <1>4. \A k \in 0 .. CacheSize - 1 : TimeAt(k) \in Nat /\ TimeAt(k)' \in Nat
                                      /\ TimeAt(k) <= TimeAt(k)'
    <2> TAKE k \in 0 .. CacheSize - 1
    <2>1. SlotAt(first_added, k) \in Slots
      BY <1>1, SlotAtType
    <2>2. QED
      BY <1>2, <2>1 DEF TimeAt, IInv, TypeOK
  <1>5. ASSUME NEW p, NEW t \in Nat, NEW u \in Nat, t <= u, Past(p, t), Older(p)
        PROVE  Past(p, u)' /\ Older(p)'
    BY <1>5, PastKept, OlderKept DEF Past
  <1>6. ASSUME NEW k \in 0 .. InFlight - 1
        PROVE  (Past(PictureAt(k), TimeAt(k)) /\ Older(PictureAt(k)))'
    <2>1. k \in 0 .. CacheSize - 1 /\ k \in Int
      BY <1>1, CacheSizeAssumption
    <2>2. Past(PictureAt(k), TimeAt(k)) /\ Older(PictureAt(k))
      BY DEF Pictures
    <2>3. PICK p, u : p = PictureAt(k) /\ u = TimeAt(k)'
      OBVIOUS
    <2>4. PictureAt(k)' = p
      BY <1>3, <2>1, <2>3
    <2>5. Past(p, u)' /\ Older(p)'
      BY <1>4, <1>5, <2>1, <2>2, <2>3
    <2>6. QED
      BY <2>3, <2>4, <2>5 DEF Past, Older
  <1>7. ASSUME gpc' = "copy"
        PROVE  /\ (Past(out.content, TimeAt(InFlight)) /\ Older(out.content))'
               /\ \A k \in 0 .. InFlight - 1 :
                     PictureAt(k) < out.content \/ PictureAt(k) = -1
    <2>1. /\ InFlight \in 0 .. CacheSize - 1 /\ InFlight' = InFlight
          /\ InFlight \in Int /\ out' = out /\ gpc = "copy"
      BY <1>1, <1>7
    <2>2. Past(out.content, TimeAt(InFlight)) /\ Older(out.content)
      BY <2>1 DEF Pictures
    <2>3. PICK p, u : p = out.content /\ u = TimeAt(InFlight)'
      OBVIOUS
    <2>4. Past(p, u)' /\ Older(p)'
      <3>1. (TimeAt(InFlight))' \in Nat /\ TimeAt(InFlight) <= u
        BY <1>4, <2>1, <2>3 DEF TimeAt, SlotAt
      <3>2. QED
        BY <1>4, <1>5, <2>1, <2>2, <2>3, <3>1
    <2>5. QED
      BY <2>1, <2>3, <2>4 DEF Past, Older, Pictures
  <1>8. QED
    BY <1>1, <1>3, <1>6, <1>7 DEF Pictures

(* A frame is released: the pictures behind it move up.                    *)
LEMMA PicturesReleased ==
    ASSUME IInv, PipelineIInv, Rendered, Pictures, ReleaseFrame,
           UNCHANGED <<pipelineVars, started, picture>>
    PROVE  Pictures'
  <1>1. /\ vpc = "callbacks" /\ cache[rslot].count = 1
        /\ first_added' = Succ(first_added)
        /\ available_frames' = available_frames + 1
        /\ cache' = TickCompleted(rslot) /\ gpc' = gpc
    BY DEF ReleaseFrame, FrameComplete, graphicsVars
  <1>2. /\ rslot = first_added /\ SlotAt(first_added, 0) = first_added
        /\ first_added \in Slots /\ InFlight \in 1 .. CacheSize
    BY <1>1, ReadSlot DEF IInv
  <1>3. \A r \in Slots \ {first_added} : cache'[r] = cache[r]
    <2>1. cache[first_added].count >= 1
      BY <1>1, <1>2
    <2>2. QED
      BY <1>1, <1>2, <2>1, TickCompletedFields DEF IInv
  <1>4. /\ InFlight' = InFlight - 1
        /\ gpc = "copy" => InFlight \in 0 .. CacheSize - 1
    BY <1>1, <1>2, CacheSizeAssumption DEF InFlight, IInv, TypeOK, Ring
  <1>5. ASSUME NEW k \in 0 .. CacheSize - 2
        PROVE  /\ SlotAt(first_added, k)' = SlotAt(first_added, k + 1)
               /\ SlotAt(first_added, k + 1) \in Slots \ {first_added}
    <2>1. /\ k \in 0 .. CacheSize - 1 /\ k + 1 \in 0 .. CacheSize - 1
          /\ k + 1 # 0 /\ 0 \in 0 .. CacheSize - 1
      BY CacheSizeAssumption
    <2>2. SlotAt(Succ(first_added), k) = SlotAt(first_added, k + 1)
      BY <1>2, <2>1, SlotAtSucc
    <2>3. SlotAt(first_added, k)' = SlotAt(Succ(first_added), k)
      BY <1>1 DEF SlotAt
    <2>4. QED
      BY <1>2, <2>1, <2>2, <2>3, SlotAtType, SlotAtInjective
  <1>6. \A k \in 0 .. CacheSize - 2 :
           PictureAt(k)' = PictureAt(k + 1) /\ TimeAt(k)' = TimeAt(k + 1)
    BY <1>3, <1>5 DEF PictureAt, TimeAt
  <1>7. \A p, t : (Past(p, t)' <=> Past(p, t)) /\ (Older(p)' <=> Older(p))
    BY DEF Past, Older, Downloads, FirstDownload, pipelineVars
  <1>8. ASSUME NEW k \in 0 .. InFlight - 2
        PROVE  (Past(PictureAt(k), TimeAt(k)) /\ Older(PictureAt(k)))'
    <2>1. k \in 0 .. CacheSize - 2 /\ k + 1 \in 0 .. InFlight - 1
      BY <1>2, CacheSizeAssumption
    <2>2. Past(PictureAt(k + 1), TimeAt(k + 1)) /\ Older(PictureAt(k + 1))
      BY <2>1 DEF Pictures
    <2>3. PICK p, t : p = PictureAt(k + 1) /\ t = TimeAt(k + 1)
      OBVIOUS
    <2>4. PictureAt(k)' = p /\ TimeAt(k)' = t
      BY <1>6, <2>1, <2>3
    <2>5. Past(p, t)' /\ Older(p)'
      BY <1>7, <2>2, <2>3
    <2>6. QED
      BY <2>4, <2>5 DEF Past, Older
  <1>9. ASSUME gpc' = "copy"
        PROVE  /\ (Past(out.content, TimeAt(InFlight)) /\ Older(out.content))'
               /\ \A k \in 0 .. InFlight - 1 :
                     PictureAt(k) < out.content \/ PictureAt(k) = -1
    <2>1. gpc = "copy" /\ InFlight \in 1 .. CacheSize - 1
      BY <1>1, <1>2, <1>4, <1>9
    <2>2. InFlight - 1 \in 0 .. CacheSize - 2 /\ InFlight - 1 + 1 = InFlight
      BY <2>1, CacheSizeAssumption
    <2>3. (TimeAt(InFlight))' = TimeAt(InFlight)
      <3>1. PICK k \in 0 .. CacheSize - 2 : k = InFlight - 1 /\ k + 1 = InFlight
        BY <2>2
      <3>2. InFlight' = k
        BY <1>4, <3>1
      <3>3. TimeAt(k)' = TimeAt(k + 1)
        BY <1>6
      <3>4. QED
        BY <3>1, <3>2, <3>3 DEF TimeAt, SlotAt
    <2>4. Past(out.content, TimeAt(InFlight)) /\ Older(out.content)
      BY <2>1 DEF Pictures
    <2>5. QED
      BY <1>7, <2>1, <2>3, <2>4 DEF Past, Older, Pictures, pipelineVars
  <1>10. QED
    <2>1. \A k \in 0 .. InFlight - 2 : k + 1 \in 0 .. InFlight - 1 /\ k \in 0 .. CacheSize - 2
      BY <1>2, CacheSizeAssumption
    <2>2. InFlight' - 1 = InFlight - 2
      BY <1>2, <1>4
    <2>3. \A j, k \in 0 .. InFlight - 2 :
             j < k => PictureAt(j)' < PictureAt(k)' \/ PictureAt(k)' = -1
      BY <1>2, <1>6, <2>1 DEF Pictures
    <2>4. gpc' = "copy" => \A k \in 0 .. InFlight - 2 :
             PictureAt(k)' < out'.content \/ PictureAt(k)' = -1
      BY <1>6, <1>9, <2>1 DEF pipelineVars
    <2>5. picture' \in [Slots -> Nat \cup {-1, Torn}]
      BY DEF Pictures
    <2>6. QED
      BY <1>8, <1>9, <2>2, <2>3, <2>4, <2>5 DEF Pictures

(* What is downloaded belongs to the tick at which the cache ends.         *)
LEMMA DownloadedIsPast ==
    ASSUME PipelineIInv, TimeChain, Rendered, Pipeline!Download, UNCHANGED gpu_conversion
    PROVE  /\ out'.count \in 1 .. MaxCount /\ out'.timestamp = tick
           /\ out'.count = vframe_info_buffer[1].count
           /\ out'.content \in Nat \cup {-1}
           /\ out'.content >= failures =>
                 /\ out'.content - failures + 1 <= Len(started)
                 /\ started[out'.content - failures + 1] <= tick
           /\ Downloads' = Downloads + 1 /\ Downloads = iteration
           /\ out'.content = IF gpu_conversion THEN iteration - 4
                             ELSE IF iteration >= 3 THEN iteration - 3 ELSE -1
  <1>1. /\ pc = "download" /\ pc' = "sleep" /\ Pipeline!FrameReady
        /\ UNCHANGED <<iteration, failures>>
        /\ out'.content = content["copy"][1 - cur_texture]
        /\ out'.timestamp = Head(vframe_info_buffer).timestamp
        /\ out'.count = Head(vframe_info_buffer).count
    BY DEF Pipeline!Download, Pipeline!NextTexture, Pipeline!prev_texture
  <1>2. /\ Popped + failures = iteration - FirstDownload
        /\ Len(vframe_info_buffer) >= 1 /\ iteration >= FirstDownload
        /\ out'.content = IF gpu_conversion THEN iteration - 4
                          ELSE IF iteration >= 3 THEN iteration - 3 ELSE -1
    BY <1>1, DownloadReady
  <1>3. /\ Head(vframe_info_buffer) = vframe_info_buffer[1]
        /\ vframe_info_buffer[1] \in Info /\ vframe_info_buffer[1].iter = Popped
    BY <1>2, OldestInfo
  <1>4. /\ iteration \in Nat /\ failures \in Nat /\ Popped \in Nat
        /\ Len(vframe_info_buffer) \in Nat /\ Len(started) = iteration + 1
        /\ started \in Seq(Nat)
    BY <1>1 DEF PipelineIInv, Pipeline!TypeOK, Infos, Rendered
  <1>5. /\ vframe_info_buffer[1].timestamp = tick
        /\ started[Popped + 1] = tick
    <2>1. vframe_info_buffer[1].timestamp = tick
      BY <1>2, <1>4 DEF TimeChain
    <2>2. 1 \in 1 .. Len(vframe_info_buffer)
      BY <1>2, <1>4
    <2>3. vframe_info_buffer[1].timestamp = started[Popped + 1]
      BY <1>3, <2>2 DEF Rendered
    <2>4. QED
      BY <2>1, <2>3
  <1>6. ASSUME NEW p \in Nat \cup {-1}, p = out'.content, p >= failures
        PROVE  p - failures + 1 <= Len(started) /\ started[p - failures + 1] <= tick
    <2>1. p \in Nat
      BY <1>4, <1>6
    <2>2. p - failures + 1 \in 1 .. Popped + 1 /\ Popped + 1 \in 1 .. Len(started)
      <3>1. CASE gpu_conversion
        <4>1. p = iteration - 4 /\ Popped + failures = iteration - 4
          BY <1>2, <1>6, <3>1 DEF FirstDownload
        <4>2. QED
          BY <1>4, <1>6, <2>1, <4>1
      <3>2. CASE ~gpu_conversion
        <4>1. p = iteration - 3 /\ Popped + failures = iteration - 1
          BY <1>2, <1>4, <1>6, <2>1, <3>2 DEF FirstDownload
        <4>2. QED
          BY <1>4, <1>6, <2>1, <4>1
      <3>3. QED
        BY <3>1, <3>2
    <2>3. started[p - failures + 1] <= started[Popped + 1]
      BY <1>4, <2>2 DEF Rendered
    <2>4. p - failures + 1 <= Len(started)
      BY <1>4, <2>2
    <2>5. QED
      BY <1>5, <2>3, <2>4
  <1>7. out'.content \in Nat \cup {-1}
    BY <1>2, <1>4 DEF FirstDownload
  <1>8. Downloads' = Downloads + 1 /\ Downloads = iteration
    BY <1>1, <1>4 DEF Downloads
  <1>9. out'.count \in 1 .. MaxCount
    BY <1>1, <1>3 DEF Info
  <1>10. QED
    BY <1>1, <1>2, <1>3, <1>5, <1>6, <1>7, <1>8, <1>9

(* The picture downloaded is newer than all those in the cache, and its    *)
(* slot is behind theirs.                                                  *)
LEMMA PicturesLocked ==
    ASSUME IInv, PipelineIInv, TimeChain, Rendered, Pictures,
           Pipeline!Download, UNCHANGED <<gpu_conversion, started>>, LockSlot(out'.count),
           picture' = [picture EXCEPT ![wslot'] = Torn]
    PROVE  Pictures'
  <1>1. /\ gpc = "output" /\ gpc' = "copy" /\ wslot' = NextSlot /\ available_frames # 0
        /\ cache' = [cache EXCEPT ![NextSlot] =
                        [timestamp |-> tick, count |-> out'.count]]
        /\ UNCHANGED <<available_frames, first_added>>
    BY DEF LockSlot
  <1>2. /\ NextSlot = SlotAt(first_added, InFlight) /\ NextSlot \in Slots
        /\ InFlight \in 0 .. CacheSize - 1 /\ first_added \in Slots
    BY <1>1, NextSlotIsFree DEF IInv, TypeOK
  <1>3. InFlight' = InFlight /\ failures' = failures
    BY <1>1 DEF InFlight, Pipeline!Download
  <1>4. \A k \in Int : SlotAt(first_added, k)' = SlotAt(first_added, k)
    BY <1>1 DEF SlotAt
  <1>5. /\ out'.content \in Nat \cup {-1} /\ tick \in Nat /\ iteration \in Nat
        /\ out'.content >= failures =>
              /\ out'.content - failures + 1 <= Len(started)
              /\ started[out'.content - failures + 1] <= tick
        /\ Downloads' = iteration + 1 /\ Downloads = iteration
        /\ out'.content = IF gpu_conversion THEN iteration - 4
                          ELSE IF iteration >= 3 THEN iteration - 3 ELSE -1
    BY DownloadedIsPast DEF IInv, TypeOK, PipelineIInv, Pipeline!TypeOK
  <1>6. picture' \in [Slots -> Nat \cup {-1, Torn}]
    BY DEF Pictures
  <1>7. \A k \in 0 .. InFlight - 1 : k \in 0 .. CacheSize - 1 /\ k # InFlight
    BY <1>2, CacheSizeAssumption
  <1>8. \A k \in 0 .. InFlight - 1 :
           PictureAt(k)' = PictureAt(k) /\ TimeAt(k)' = TimeAt(k)
    <2> TAKE k \in 0 .. InFlight - 1
    <2>1. SlotAt(first_added, k) \in Slots /\ SlotAt(first_added, k) # NextSlot
      BY <1>2, <1>7, SlotAtType, SlotAtInjective
    <2>2. QED
      BY <1>1, <1>4, <2>1 DEF PictureAt, TimeAt, Pictures, IInv, TypeOK
  <1>9. (TimeAt(InFlight))' = tick
    BY <1>1, <1>2, <1>3, <1>4 DEF TimeAt, IInv, TypeOK
  <1>10. ASSUME NEW k \in 0 .. InFlight - 1
         PROVE  /\ (Past(PictureAt(k), TimeAt(k)) /\ Older(PictureAt(k)))'
                /\ PictureAt(k) < out'.content \/ PictureAt(k) = -1
    <2>1. Past(PictureAt(k), TimeAt(k)) /\ Older(PictureAt(k))
      BY DEF Pictures
    <2>2. PICK p : p = PictureAt(k)
      OBVIOUS
    <2>3. Past(p, TimeAt(k)) /\ Older(p) /\ p \in Nat \cup {-1}
      BY <2>1, <2>2 DEF Past
    <2>4. Older(p)'
      BY <1>5, <2>3, OlderKept
    <2>5. p < out'.content \/ p = -1
      <3>1. CASE gpu_conversion
        BY <1>5, <2>3, <3>1 DEF Older, FirstDownload
      <3>2. CASE ~gpu_conversion
        BY <1>5, <2>3, <3>2 DEF Older, FirstDownload
      <3>3. QED
        BY <3>1, <3>2
    <2>6. PictureAt(k)' = p
      BY <1>8, <2>2
    <2>7. QED
      BY <1>3, <1>8, <2>2, <2>3, <2>4, <2>5, <2>6 DEF Past, Older
  <1>11. (Past(out.content, TimeAt(InFlight)) /\ Older(out.content))'
    <2>1. PICK p : p = out'.content
      OBVIOUS
    <2>2. Past(p, tick)
      BY <1>5, <2>1 DEF Past
    <2>3. (Older(out.content))'
      <3>1. CASE gpu_conversion
        BY <1>5, <3>1 DEF Older, FirstDownload
      <3>2. CASE ~gpu_conversion
        BY <1>5, <3>2 DEF Older, FirstDownload
      <3>3. QED
        BY <3>1, <3>2
    <2>4. QED
      BY <1>3, <1>9, <2>1, <2>2, <2>3 DEF Past
  <1>12. QED
    BY <1>3, <1>6, <1>8, <1>10, <1>11 DEF Pictures

(* The copy ends: the newest picture of the cache is the one copied.       *)
LEMMA PicturesCopied ==
    ASSUME IInv, PipelineIInv, Pictures, UnlockFrame, UNCHANGED <<pipelineVars, started>>,
           picture' = [picture EXCEPT ![wslot] = out.content]
    PROVE  Pictures'
  <1>1. /\ gpc = "copy" /\ gpc' = "check" /\ available_frames' = available_frames - 1
        /\ UNCHANGED <<cache, first_added>>
    BY DEF UnlockFrame
  <1>2. /\ wslot = SlotAt(first_added, InFlight) /\ first_added \in Slots
        /\ InFlight \in 0 .. CacheSize - 1 /\ InFlight' = InFlight + 1
        /\ wslot \in Slots
    BY <1>1, CacheSizeAssumption DEF IInv, TypeOK, Ring, InFlight
  <1>3. \A k \in Int : SlotAt(first_added, k)' = SlotAt(first_added, k)
    BY <1>1 DEF SlotAt
  <1>4. \A p, t : (Past(p, t)' <=> Past(p, t)) /\ (Older(p)' <=> Older(p))
    BY DEF Past, Older, Downloads, FirstDownload, pipelineVars
  <1>5. out.content \in Nat \cup {-1} /\ out' = out
    BY DEF PipelineIInv, Pipeline!TypeOK, Pipeline!Garbage, pipelineVars
  <1>6. picture' \in [Slots -> Nat \cup {-1, Torn}]
    BY <1>5 DEF Pictures
  <1>7. \A k \in 0 .. InFlight : TimeAt(k)' = TimeAt(k)
    BY <1>1, <1>2, <1>3 DEF TimeAt
  <1>8. \A k \in 0 .. InFlight - 1 : PictureAt(k)' = PictureAt(k)
    <2> TAKE k \in 0 .. InFlight - 1
    <2>1. k \in 0 .. CacheSize - 1 /\ k # InFlight
      BY <1>2, CacheSizeAssumption
    <2>2. SlotAt(first_added, k) \in Slots /\ SlotAt(first_added, k) # wslot
      BY <1>2, <2>1, SlotAtType, SlotAtInjective
    <2>3. QED
      BY <1>3, <2>1, <2>2 DEF PictureAt, Pictures
  <1>9. ASSUME NEW k \in 0 .. InFlight, k = InFlight
        PROVE  PictureAt(k)' = out.content
    BY <1>2, <1>3, <1>9 DEF PictureAt, Pictures
  <1>10. ASSUME NEW k \in 0 .. InFlight
         PROVE  (Past(PictureAt(k), TimeAt(k)) /\ Older(PictureAt(k)))'
    <2>1. PICK p, t : p = PictureAt(k)' /\ t = TimeAt(k)
      OBVIOUS
    <2>2. Past(p, t) /\ Older(p)
      <3>1. CASE k = InFlight
        BY <1>1, <1>9, <2>1, <3>1 DEF Pictures
      <3>2. CASE k # InFlight
        <4>1. k \in 0 .. InFlight - 1
          BY <1>2, <3>2
        <4>2. QED
          BY <1>8, <2>1, <4>1 DEF Pictures
      <3>3. QED
        BY <3>1, <3>2
    <2>3. TimeAt(k)' = t
      BY <1>7, <2>1
    <2>4. QED
      BY <1>4, <2>1, <2>2, <2>3
  <1>11. ASSUME NEW j \in 0 .. InFlight, NEW k \in 0 .. InFlight, j < k
         PROVE  PictureAt(j)' < PictureAt(k)' \/ PictureAt(k)' = -1
    <2>1. j \in 0 .. InFlight - 1
      BY <1>2, <1>11
    <2>2. CASE k = InFlight
      <3>1. PictureAt(j) < out.content \/ PictureAt(j) = -1
        BY <1>1, <2>1 DEF Pictures
      <3>2. PictureAt(k)' = out.content /\ PictureAt(j)' = PictureAt(j)
        BY <1>8, <1>9, <2>1, <2>2
      <3>3. QED
        BY <1>5, <3>1, <3>2
    <2>3. CASE k # InFlight
      <3>1. k \in 0 .. InFlight - 1
        BY <1>2, <2>3
      <3>2. QED
        BY <1>8, <1>11, <2>1, <3>1 DEF Pictures
    <2>4. QED
      BY <2>2, <2>3
  <1>12. QED
    BY <1>1, <1>2, <1>6, <1>10, <1>11 DEF Pictures

-----------------------------------------------------------------------------
(* The invariant holds at the start, and every step keeps it.              *)
LEMMA SystemInitIInv == SystemInit => SystemIInv
  <1> SUFFICES ASSUME SystemInit PROVE SystemIInv
    OBVIOUS
  <1>1. IInv /\ PipelineIInv /\ Pipeline!PictureHasItsTime /\ Pipeline!PictureIsTwoLate
    BY InitIInv, PipelineInit DEF SystemInit
  <1>2. /\ vframe_info_buffer = <<>> /\ tick = 0 /\ video_time = 0 /\ started = <<>>
        /\ pc = "render" /\ iteration = 0 /\ gpc = "check"
        /\ available_frames = CacheSize /\ picture = [s \in Slots |-> -1]
    BY DEF SystemInit, Init, Pipeline!Init, Pipeline!Garbage
  <1>3. TimeChain
    BY <1>2 DEF TimeChain
  <1>4. Rendered
    BY <1>2 DEF Rendered
  <1>5. Pictures
    <2>1. InFlight = 0
      BY <1>2, CacheSizeAssumption DEF InFlight
    <2>2. QED
      BY <1>2, <2>1 DEF Pictures
  <1>6. QED
    BY <1>1, <1>3, <1>4, <1>5 DEF SystemIInv

(* A step of the cache alone that releases nothing keeps the pictures.     *)
LEMMA PicturesUntouched ==
    ASSUME SystemIInv, TypeOK', UNCHANGED <<available_frames, first_added>>,
           UNCHANGED <<pipelineVars, started, picture>>,
           \A s \in Slots : cache[s].timestamp <= cache'[s].timestamp,
           gpc' = "copy" => gpc = "copy"
    PROVE  Pictures'
  <1>1. /\ Downloads' = Downloads /\ Downloads \in Nat
        /\ failures' = failures /\ failures \in Nat
    BY DEF SystemIInv, PipelineIInv, Pipeline!TypeOK, Downloads, pipelineVars
  <1>2. PICK d \in Nat, f \in Nat : d = Downloads /\ f = failures
    BY <1>1
  <1>3. /\ Downloads' = d /\ Downloads <= d /\ failures' = f /\ failures <= f
        /\ UNCHANGED <<gpu_conversion, out>>
    BY <1>1, <1>2 DEF pipelineVars
  <1>4. QED
    BY <1>3, PicturesKept DEF SystemIInv

(* Timestamps that stay are not earlier.                                   *)
LEMMA SameTimestamps ==
    ASSUME TypeOK, UNCHANGED cache
    PROVE  \A s \in Slots : cache[s].timestamp <= cache'[s].timestamp
  BY DEF TypeOK

(* The scene is rendered, or a stage draws what the one before it left.    *)
LEMMA RenderVideoStep ==
    ASSUME SystemIInv, RenderVideo
    PROVE  SystemIInv'
  <1> USE DEF SystemIInv
  <1>1. /\ UNCHANGED <<vars, gpu_conversion, picture>>
        /\ Pipeline!RenderMain \/ Pipeline!RenderOutput \/ Pipeline!RenderConvert
              \/ Pipeline!StageOutput
    BY DEF RenderVideo
  <1>2. PipelineIInv' /\ UNCHANGED <<iteration, video_time, vframe_info_buffer, out, failures>>
    BY <1>1, DrawStep
  <1>3. IInv'
    BY <1>1, OtherStepsIInv
  <1>4. UNCHANGED <<tick, cache, available_frames, first_added, gpc>>
    BY <1>1 DEF vars, cacheVars, graphicsVars
  <1>5. Pipeline!PictureHasItsTime' /\ Pipeline!PictureIsTwoLate' /\ TimeChain'
    BY <1>1, <1>2, <1>4 DEF Pipeline!PictureHasItsTime, Pipeline!PictureIsTwoLate, TimeChain
  <1>6. Rendered' /\ (started' = started \/ started' = Append(started, video_time))
    <2>1. CASE Pipeline!RenderMain
      BY <1>1, <2>1, RenderedPush DEF RenderVideo, Pipeline!RenderMain, Pipeline!RenderOutput,
         Pipeline!RenderConvert, Pipeline!StageOutput
    <2>2. CASE ~Pipeline!RenderMain
      <3>1. UNCHANGED started /\ pc # "render" /\ pc' # "render"
        BY <1>1, <2>2 DEF RenderVideo, Pipeline!RenderOutput, Pipeline!RenderConvert,
           Pipeline!StageOutput
      <3>2. QED
        BY <1>2, <3>1 DEF Rendered
    <2>3. QED
      BY <2>1, <2>2
  <1>7. Pictures'
    <2>1. Downloads' = Downloads /\ Downloads \in Nat /\ failures \in Nat
      <3>1. pc # "sleep" /\ pc' # "sleep"
        BY <1>1 DEF Pipeline!RenderMain, Pipeline!RenderOutput, Pipeline!RenderConvert,
           Pipeline!StageOutput
      <3>2. QED
        BY <1>2, <3>1 DEF Downloads, PipelineIInv, Pipeline!TypeOK
    <2>2. PICK d \in Nat, f \in Nat : d = Downloads /\ f = failures
      BY <2>1
    <2>3. Downloads' = d /\ Downloads <= d /\ failures' = f /\ failures <= f
      BY <1>2, <2>1, <2>2
    <2>4. TypeOK' /\ \A s \in Slots : cache[s].timestamp <= cache'[s].timestamp
      BY <1>3, <1>4, SameTimestamps DEF IInv
    <2>5. QED
      BY <1>1, <1>2, <1>4, <1>6, <2>3, <2>4, PicturesKept
  <1>8. QED
    BY <1>2, <1>3, <1>5, <1>6, <1>7

(* An iteration in which nothing is downloaded.                            *)
LEMMA NothingToOutputStep ==
    ASSUME SystemIInv, NothingToOutput
    PROVE  SystemIInv'
  <1> USE DEF SystemIInv
  <1>1. /\ UNCHANGED <<gpu_conversion, started, picture>> /\ NoFrame
        /\ Pipeline!NotReady \/ Pipeline!MapFails
    BY DEF NothingToOutput
  <1>2. PipelineIInv' /\ UNCHANGED out
    BY <1>1, NoDownloadStep
  <1>3. /\ pc = "download" /\ pc' = "sleep"
        /\ UNCHANGED <<iteration, video_time, vframe_info_buffer>>
        /\ failures' = failures \/ failures' = failures + 1
    BY <1>1 DEF Pipeline!NotReady, Pipeline!MapFails, Pipeline!NextTexture
  <1>4. IInv'
    BY <1>1, OtherStepsIInv
  <1>5. UNCHANGED <<tick, cache, available_frames, first_added>> /\ gpc' # "copy"
    BY <1>1 DEF NoFrame, cacheVars
  <1>6. Pipeline!PictureHasItsTime' /\ Pipeline!PictureIsTwoLate' /\ TimeChain' /\ Rendered'
    BY <1>1, <1>2, <1>3, <1>5
       DEF Pipeline!PictureHasItsTime, Pipeline!PictureIsTwoLate, TimeChain, Rendered
  <1>7. Pictures'
    <2>1. /\ Downloads' = Downloads + 1 /\ Downloads \in Nat /\ failures \in Nat
      BY <1>3 DEF Downloads, PipelineIInv, Pipeline!TypeOK
    <2>2. PICK d \in Nat : d = Downloads + 1
      BY <2>1
    <2>3. \E f \in Nat : failures' = f /\ failures <= f
      BY <1>3, <2>1
    <2>4. Downloads' = d /\ Downloads <= d
      BY <2>1, <2>2
    <2>5. TypeOK' /\ \A s \in Slots : cache[s].timestamp <= cache'[s].timestamp
      BY <1>4, <1>5, SameTimestamps DEF IInv
    <2>6. QED
      BY <1>1, <1>2, <1>5, <2>3, <2>4, <2>5, PicturesKept
  <1>8. QED
    BY <1>2, <1>4, <1>6, <1>7

(* The end of an iteration: its information is queued.                     *)
LEMMA SleepSystemStep ==
    ASSUME SystemIInv, Sleep
    PROVE  SystemIInv'
  <1> USE DEF SystemIInv
  <1>1. Pipeline!Sleep /\ UNCHANGED <<vars, gpu_conversion, started, picture>>
    BY DEF Sleep
  <1>2. PipelineIInv' /\ UNCHANGED out
    BY <1>1, SleepStep
  <1>3. IInv' /\ UNCHANGED <<tick, cache, available_frames, first_added, gpc>>
    BY <1>1, OtherStepsIInv DEF vars, cacheVars, graphicsVars
  <1>4. TimeChain' /\ Rendered'
    BY <1>1, <1>3, TimeChainPush, RenderedSleep
  <1>5. Pipeline!PictureHasItsTime' /\ Pipeline!PictureIsTwoLate'
    BY <1>1, <1>2 DEF Pipeline!PictureHasItsTime, Pipeline!PictureIsTwoLate
  <1>6. Pictures'
    <2>1. /\ Downloads' = Downloads /\ Downloads \in Nat
          /\ failures' = failures /\ failures \in Nat
      BY <1>1 DEF Downloads, PipelineIInv, Pipeline!TypeOK, Pipeline!Sleep
    <2>2. PICK d \in Nat, f \in Nat : d = Downloads /\ f = failures
      BY <2>1
    <2>3. Downloads' = d /\ Downloads <= d /\ failures' = f /\ failures <= f
      BY <2>1, <2>2
    <2>4. TypeOK' /\ \A s \in Slots : cache[s].timestamp <= cache'[s].timestamp
      BY <1>3, SameTimestamps DEF IInv
    <2>5. QED
      BY <1>1, <1>2, <1>3, <2>3, <2>4, PicturesKept
  <1>7. QED
    BY <1>2, <1>3, <1>4, <1>5, <1>6

(* A picture goes from the pipeline into the cache, or is dropped there.   *)
LEMMA OutputVideoDataStep ==
    ASSUME SystemIInv, OutputVideoData
    PROVE  SystemIInv'
  <1> USE DEF SystemIInv
  <1>1. Pipeline!Download /\ UNCHANGED <<gpu_conversion, started>>
    BY DEF OutputVideoData
  <1>2. PipelineIInv' /\ Pipeline!PictureHasItsTime' /\ Pipeline!PictureIsTwoLate'
    BY <1>1, DownloadStep
  <1>3. PICK c \in 1 .. MaxCount : c = out'.count /\ c = vframe_info_buffer[1].count
    BY <1>1, DownloadedIsPast
  <1>4. /\ pc = "download" /\ pc' = "sleep"
        /\ UNCHANGED <<iteration, video_time, failures>>
        /\ vframe_info_buffer' = Tail(vframe_info_buffer)
        /\ Len(vframe_info_buffer) >= 1
    BY <1>1, DownloadReady
       DEF Pipeline!Download, Pipeline!PopInfo, Pipeline!NextTexture
  <1>5. LockSlot(c) \/ LockFull(c)
    BY <1>3 DEF OutputVideoData
  <1>6. IInv' /\ tick' = tick + c
    BY <1>5, LockSlotIInv, LockFullIInv DEF LockSlot, LockFull
  <1>7. TimeChain' /\ Rendered'
    BY <1>1, <1>3, <1>4, <1>6, TimeChainPop, RenderedPop
  <1>8. Pictures'
    <2>1. CASE LockSlot(out'.count) /\ picture' = [picture EXCEPT ![wslot'] = Torn]
      BY <1>1, <2>1, PicturesLocked
    <2>2. CASE LockFull(c) /\ UNCHANGED picture
      <3>1. /\ Downloads' = Downloads + 1 /\ Downloads \in Nat /\ failures \in Nat
        BY <1>4 DEF Downloads, PipelineIInv, Pipeline!TypeOK
      <3>2. PICK d \in Nat, f \in Nat : d = Downloads + 1 /\ f = failures
        BY <3>1
      <3>3. Downloads' = d /\ Downloads <= d /\ failures' = f /\ failures <= f
        BY <1>4, <3>1, <3>2
      <3>4. \A s \in Slots : cache[s].timestamp <= cache'[s].timestamp
        <4>1. /\ cache' = [cache EXCEPT ![last_added] = [cache[last_added] EXCEPT
                             !.count = cache[last_added].count + c]]
              /\ last_added \in Slots
              /\ cache \in [Slots -> [timestamp : Nat, count : Nat]]
          BY <2>2 DEF LockFull, IInv, TypeOK
        <4>2. \A s \in Slots : cache'[s].timestamp = cache[s].timestamp
                                /\ cache[s].timestamp \in Nat
          BY ONLY <4>1
        <4>3. QED
          BY <4>2
      <3>5. UNCHANGED <<available_frames, first_added>> /\ gpc' # "copy"
        BY <2>2 DEF LockFull
      <3>6. QED
        BY <1>1, <1>6, <2>2, <3>3, <3>4, <3>5, PicturesKept DEF IInv
    <2>3. QED
      BY <1>3, <2>1, <2>2 DEF OutputVideoData
  <1>9. QED
    BY <1>2, <1>6, <1>7, <1>8

(* The steps that leave the pipeline alone: the copy's end and the video   *)
(* thread.                                                                 *)
LEMMA CacheStep ==
    ASSUME SystemIInv, NextIteration \/ CopyEnds \/ OtherThreads \/ UNCHANGED systemVars
    PROVE  SystemIInv'
  <1> USE DEF SystemIInv
  <1>1. UNCHANGED <<pipelineVars, started>> /\ UNCHANGED tick
    BY DEF NextIteration, CopyEnds, OtherThreads, systemVars, vars, graphicsVars, CheckStopped,
           UnlockFrame, Video, SemWait, Woken, LoopStopped, TakeSlot, Callback, RepeatFrame,
           ReleaseFrame, Stop, Close
  <1>2. /\ PipelineIInv' /\ Pipeline!PictureHasItsTime' /\ Pipeline!PictureIsTwoLate'
        /\ TimeChain' /\ Rendered'
    BY <1>1, PipelineUnchanged
  <1>3. CASE CopyEnds
    BY <1>1, <1>2, <1>3, UnlockFrameIInv, PicturesCopied DEF CopyEnds
  <1>4. CASE OtherThreads /\ ReleaseFrame
    BY <1>1, <1>2, <1>4, ReleaseFrameIInv, PicturesReleased DEF OtherThreads
  <1>5. CASE OtherThreads /\ RepeatFrame
    <2>1. IInv' /\ UNCHANGED picture
      BY <1>5, RepeatFrameIInv DEF OtherThreads
    <2>2. /\ UNCHANGED <<available_frames, first_added, gpc>>
          /\ vpc = "callbacks" /\ cache' = TickCompleted(rslot)
      BY <1>5 DEF RepeatFrame, graphicsVars
    <2>3. \A s \in Slots : cache[s].timestamp <= cache'[s].timestamp
      <3>1. rslot \in Slots /\ cache[rslot].count >= 1
        BY <2>2, ReadSlot DEF IInv
      <3>2. /\ cache'[rslot].timestamp = cache[rslot].timestamp + 1
            /\ \A r \in Slots \ {rslot} : cache'[r] = cache[r]
        BY <2>2, <3>1, TickCompletedFields DEF IInv
      <3>3. \A s \in Slots : cache[s].timestamp \in Nat
        BY DEF IInv, TypeOK
      <3>4. QED
        BY <3>1, <3>2, <3>3
    <2>4. Pictures'
      BY <1>1, <2>1, <2>2, <2>3, PicturesUntouched DEF IInv
    <2>5. QED
      BY <1>2, <2>1, <2>4
  <1>6. CASE \/ NextIteration \/ UNCHANGED systemVars
             \/ OtherThreads /\ ~ReleaseFrame /\ ~RepeatFrame
    <2>1. /\ IInv' /\ UNCHANGED picture
      BY <1>6, OtherStepsIInv DEF NextIteration, systemVars, OtherThreads, Video
    <2>2. UNCHANGED <<cache, available_frames, first_added>> /\ (gpc' = "copy" => gpc = "copy")
      BY <1>6 DEF NextIteration, OtherThreads, systemVars, vars, cacheVars, graphicsVars,
                  CheckStopped, Video, SemWait, Woken, LoopStopped, TakeSlot, Callback, Stop, Close
    <2>3. Pictures'
      BY <1>1, <2>1, <2>2, SameTimestamps, PicturesUntouched DEF IInv
    <2>4. QED
      BY <1>2, <2>1, <2>3
  <1>7. QED
    BY <1>3, <1>4, <1>5, <1>6

(* Every step of the system keeps the invariant.                           *)
LEMMA SystemNextIInv == SystemIInv /\ [SystemNext]_systemVars => SystemIInv'
  BY RenderVideoStep, NothingToOutputStep, SleepSystemStep, OutputVideoDataStep, CacheStep
     DEF SystemNext, GraphicsThread, Finished

(* The invariant holds in every reachable state.                           *)
LEMMA SystemInvariance == SystemSpec => []SystemIInv
  BY SystemInitIInv, SystemNextIInv, PTL DEF SystemSpec

-----------------------------------------------------------------------------
(* Every picture leaves the pipeline with a timestamp that is there for it *)
(* and that is off by exactly as many iterations as the mode of conversion *)
(* and the failed maps make it, however long the run.                      *)
THEOREM PicturesAreTimedHolds == SystemSpec => []PicturesAreTimed
  <1>1. SystemIInv => PicturesAreTimed
    <2> SUFFICES ASSUME SystemIInv PROVE PicturesAreTimed
      OBVIOUS
    <2>1. Pipeline!InfoQueued
      BY DownloadReady, OldestInfo DEF SystemIInv, Pipeline!InfoQueued
    <2>2. QED
      BY <2>1 DEF SystemIInv, PipelineIInv, PicturesAreTimed, Pipeline!PicturesAreTimed
  <1>2. QED
    BY <1>1, SystemInvariance, PTL

(* The frames follow each other without a gap or an overlap in time, also  *)
(* after failed maps and late iterations.                                  *)
THEOREM TimeIsContiguousHolds == SystemSpec => TimeIsContiguous
  <1>1. SystemIInv /\ [SystemNext]_systemVars =>
           [tick' # tick => out'.timestamp = tick]_systemVars
    <2> SUFFICES ASSUME SystemIInv, [SystemNext]_systemVars, tick' # tick
                 PROVE  out'.timestamp = tick
      OBVIOUS
    <2>1. OutputVideoData
      BY DEF SystemNext, GraphicsThread, NextIteration, RenderVideo, NothingToOutput, CopyEnds,
             Sleep, OtherThreads, Finished, systemVars, vars, graphicsVars, CheckStopped, NoFrame,
             UnlockFrame, Video, SemWait, Woken, LoopStopped, TakeSlot, Callback, RepeatFrame,
             ReleaseFrame, Stop, Close
    <2>2. QED
      BY <2>1, DownloadedIsPast DEF OutputVideoData, SystemIInv
  <1>2. QED
    BY <1>1, SystemInvariance, PTL DEF SystemSpec, TimeIsContiguous

(* No surface is staged into while the cache may still copy from it.       *)
THEOREM NoStageIntoMappedHolds == SystemSpec => NoStageIntoMapped
  <1>1. SystemIInv /\ [SystemNext]_systemVars =>
           [content["copy"]' # content["copy"] => mapped_surface' # cur_texture]_systemVars
    <2> SUFFICES ASSUME SystemIInv, [SystemNext]_systemVars, content["copy"]' # content["copy"]
                 PROVE  mapped_surface' # cur_texture
      OBVIOUS
    <2>1. Pipeline!TypeOK
      BY DEF SystemIInv, PipelineIInv
    <2>2. cur_texture \in {0, 1} /\ 1 - cur_texture \in {0, 1}
      BY <2>1 DEF Pipeline!TypeOK, Pipeline!Textures
    <2>3. ASSUME NEW stage \in {"render", "output", "convert"}, NEW q \in Nat \cup {-1},
                 Pipeline!Draw(stage, q)
          PROVE  FALSE
      <3>1. stage \in Pipeline!Stages /\ "copy" \in Pipeline!Stages \ {stage}
        BY DEF Pipeline!Stages
      <3>2. QED
        BY <2>1, <2>3, <3>1, Drawn
    <2>4. Pipeline!StageOutput
      <3>1. \A stage \in Pipeline!Stages : content[stage][1 - cur_texture] \in Nat \cup {-1}
        BY <2>1, <2>2 DEF Pipeline!TypeOK, Pipeline!Textures, Pipeline!Garbage
      <3>2. ~Pipeline!RenderMain
        BY <2>1, <2>3 DEF Pipeline!RenderMain, Pipeline!TypeOK
      <3>3. ~Pipeline!RenderOutput
        BY <2>3, <3>1
           DEF Pipeline!RenderOutput, Pipeline!Source, Pipeline!prev_texture, Pipeline!Stages
      <3>4. ~Pipeline!RenderConvert
        BY <2>3, <3>1
           DEF Pipeline!RenderConvert, Pipeline!Source, Pipeline!prev_texture, Pipeline!Stages
      <3>5. RenderVideo
        BY DEF SystemNext, GraphicsThread, NextIteration, NothingToOutput, OutputVideoData,
               CopyEnds, Sleep, OtherThreads, Finished, systemVars, pipelineVars,
               Pipeline!NotReady, Pipeline!MapFails, Pipeline!Download, Pipeline!Sleep
      <3>6. QED
        BY <3>2, <3>3, <3>4, <3>5 DEF RenderVideo
    <2>5. QED
      BY <2>2, <2>4
         DEF Pipeline!StageOutput, Pipeline!unmap_last_surface, Pipeline!NoSurface
  <1>2. QED
    BY <1>1, SystemInvariance, PTL DEF SystemSpec, NoStageIntoMapped

(* The remainder by the size of the cache is what the ring does.           *)
LEMMA RingIsModulo ==
    ASSUME NEW f \in Slots, NEW k \in 0 .. CacheSize - 1
    PROVE  (f + k) % CacheSize = SlotAt(f, k)
  BY CacheSizeAssumption DEF SlotAt, Slots

(* What the callbacks are shown is a whole picture, of a scene rendered no *)
(* later than its tick, and scenes never go backwards from the renderer to *)
(* the callbacks, for every size of the cache.                             *)
THEOREM ShownInOrderHolds == SystemSpec => []ShownInOrder
  <1>1. SystemIInv => ShownIsPast
    <2> SUFFICES ASSUME SystemIInv, vpc = "callbacks"
                 PROVE  /\ picture[rslot] # Torn
                        /\ picture[rslot] >= failures =>
                              started[picture[rslot] - failures + 1] <= cache[rslot].timestamp
      BY DEF ShownIsPast
    <2>1. /\ rslot = SlotAt(first_added, 0) /\ 0 \in 0 .. InFlight - 1
      BY ReadSlot DEF SystemIInv, IInv
    <2>2. Past(picture[rslot], cache[rslot].timestamp)
      BY <2>1 DEF SystemIInv, Pictures, PictureAt, TimeAt
    <2>3. QED
      BY <2>2 DEF Past, Torn
  <1>2. SystemIInv => PicturesInOrder
    <2> SUFFICES ASSUME SystemIInv PROVE PicturesInOrder
      OBVIOUS
    <2>1. InFlight \in 0 .. CacheSize /\ first_added \in Slots
      BY CacheSizeAssumption DEF SystemIInv, IInv, TypeOK, InFlight
    <2>2. ASSUME NEW i \in 1 .. InFlight
          PROVE  /\ i - 1 \in 0 .. InFlight - 1 /\ Queued[i] = PictureAt(i - 1)
                 /\ Queued[i] \in Nat \cup {-1}
      <3>1. i - 1 \in 0 .. InFlight - 1 /\ i - 1 \in 0 .. CacheSize - 1
        BY <2>1, CacheSizeAssumption
      <3>2. first_added + i - 1 = first_added + (i - 1)
        BY <2>1, CacheSizeAssumption DEF Slots
      <3>3. Queued[i] = PictureAt(i - 1)
        BY <2>1, <3>1, <3>2, RingIsModulo DEF Queued, PictureAt
      <3>4. QED
        BY <3>1, <3>3 DEF SystemIInv, Pictures, Past
    <2>3. ASSUME NEW i \in 1 .. InFlight, NEW j \in 1 .. InFlight,
                 i < j, Queued[j] # Pipeline!Garbage
          PROVE  Queued[i] < Queued[j]
      <3>1. i - 1 < j - 1
        BY <2>1, <2>3
      <3>2. PictureAt(i - 1) < PictureAt(j - 1) \/ PictureAt(j - 1) = -1
        BY <2>2, <3>1 DEF SystemIInv, Pictures
      <3>3. QED
        BY <2>2, <2>3, <3>2 DEF Pipeline!Garbage
    <2>4. ASSUME gpc = "copy", NEW i \in 1 .. InFlight
          PROVE  Queued[i] <= out.content
      <3>1. PictureAt(i - 1) < out.content \/ PictureAt(i - 1) = -1
        BY <2>2, <2>4 DEF SystemIInv, Pictures
      <3>2. out.content \in Nat \cup {-1}
        BY DEF SystemIInv, PipelineIInv, Pipeline!TypeOK, Pipeline!Garbage
      <3>3. QED
        BY <2>2, <3>1, <3>2
    <2>5. QED
      BY <2>3, <2>4 DEF PicturesInOrder
  <1>3. QED
    BY <1>1, <1>2, SystemInvariance, PTL DEF ShownInOrder

(* The graphics thread of the whole system is the texture pipeline: what   *)
(* it does to textures, surfaces and information does not depend on what   *)
(* the cache and the other threads do.                                     *)
THEOREM PipelineImplemented == SystemSpec => Pipeline!Spec
  <1>1. SystemInit => Pipeline!Init
    BY DEF SystemInit
  <1>2. [SystemNext]_systemVars => [Pipeline!Next]_(Pipeline!vars)
    BY DEF SystemNext, GraphicsThread, NextIteration, RenderVideo, NothingToOutput,
           OutputVideoData, CopyEnds, Sleep, OtherThreads, Finished, systemVars, pipelineVars,
           Pipeline!Next, Pipeline!vars
  <1>3. QED
    BY <1>1, <1>2, PTL DEF SystemSpec, Pipeline!Spec

=============================================================================
