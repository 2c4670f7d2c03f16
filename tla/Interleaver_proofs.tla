--------------------------- MODULE Interleaver_proofs ---------------------------
(***************************************************************************)
(* Proofs about the interleaver, for every number of tracks and all        *)
(* lengths and first timestamps of the packets.  First, of encoders that   *)
(* begin together: the output gets the packets in the order of their       *)
(* timestamps (IInv).  Then, whenever the encoders begin: no stream loses  *)
(* a packet, and the tracks are in step (Line, a second invariant, for the *)
(* first one supposes that the encoders begin together).                   *)
(***************************************************************************)
EXTENDS Interleaver, SequenceTheorems, WellFoundedInduction, TLAPS

(* What Monotonic supposes: the audio encoders begin with the same tick,   *)
(* as one encoder does.                                                    *)
OneBegin == LateStarts = {0} \/ Tracks = 1

Packet == [type : {"video", "audio"}, track_idx : Track, dts_usec : Int, dts : Int]

Types ==
    /\ interleaved_packets \in Seq(Packet) /\ sent \in Seq(Packet)
    /\ received_audio \in BOOLEAN /\ received_video \in BOOLEAN
    /\ highest_audio_ts \in Int /\ highest_video_ts \in Int
    /\ video_offset \in Int /\ audio_offsets \in [Track -> Int]
    /\ video_start \in Nat /\ audio_start = [t \in Track |-> TickLen]
    /\ video_time \in Nat
    /\ tick \in Nat /\ tick >= TickLen /\ track \in Track

(* When the next packet of a stream is stamped, and the timestamp that it  *)
(* has in the queue: from the start on, the first packet's time is taken   *)
(* from it.                                                                *)
NextTick(t) == IF track <= t THEN tick ELSE tick + TickLen

VideoBase == IF Started THEN video_start + video_offset - FirstDts ELSE 0
AudioBase(t) == IF Started THEN audio_start[t] + audio_offsets[t] - FirstDts ELSE 0

NextVideo == video_time - VideoBase
NextAudio == [t \in Track |-> NextTick(t) - AudioBase(t)]

(* The tracks get a tick in turn, so they differ by one tick at most, and  *)
(* the first track of a round is never before the others.                  *)
InTurn ==
    \A t, u \in Track : t <= u => /\ AudioBase(u) <= AudioBase(t)
                                  /\ AudioBase(t) <= AudioBase(u) + TickLen

InOrder(q) == \A i, j \in DOMAIN q : i < j => q[i].dts_usec <= q[j].dts_usec

(* A packet is behind the next one of its stream.                          *)
Behind(p, nv, na) ==
    IF p.type = "video" THEN p.dts_usec + FrameLen <= nv
                        ELSE p.dts_usec + TickLen <= na[p.track_idx]

(* The queue q and what has gone out, while the next packets have the      *)
(* timestamps nv and na: what has gone out is before what is queued and    *)
(* what will come, of every stream.                                        *)
Flow(q, out, high_audio, high_video, nv, na) ==
    /\ InOrder(q) /\ InOrder(out)
    /\ \A i \in DOMAIN out : \A j \in DOMAIN q : out[i].dts_usec <= q[j].dts_usec
    /\ \A i \in DOMAIN out : out[i].dts_usec <= nv
    /\ \A i \in DOMAIN out : \A t \in Track : out[i].dts_usec <= na[t]
    /\ \A i \in DOMAIN q : Behind(q[i], nv, na)
    /\ high_video <= nv /\ \A t \in Track : high_audio <= na[t]
    /\ \A t, u \in Track : na[t] <= na[u] + TickLen

(* A queue that waits for its first packets of all streams: the packets    *)
(* have their encoder's time, those of a tick are in the order of the      *)
(* tracks, and of the audio after any audio packet nothing is missing.     *)
Unshifted(p) ==
    p.dts = FirstDts + p.dts_usec
            - (IF p.type = "video" THEN video_start ELSE audio_start[p.track_idx])

Due(p, u) == IF p.track_idx < u THEN p.dts_usec ELSE p.dts_usec + TickLen
HasAudio(q, u, time) ==
    \E j \in DOMAIN q : q[j].type = "audio" /\ q[j].track_idx = u /\ q[j].dts_usec = time

Waiting(q, na) ==
    /\ \A i \in DOMAIN q : Unshifted(q[i])
    /\ \A i, j \in DOMAIN q :
          i < j /\ q[i].type = "audio" /\ q[j].type = "audio"
          /\ q[i].dts_usec = q[j].dts_usec => q[i].track_idx < q[j].track_idx
    /\ \A i \in DOMAIN q : \A u \in Track :
          q[i].type = "audio" => na[u] <= Due(q[i], u) \/ HasAudio(q, u, Due(q[i], u))

(* The inductive invariant.                                                *)
IInv ==
    /\ Types /\ InTurn
    /\ Flow(interleaved_packets, sent, highest_audio_ts, highest_video_ts,
            NextVideo, NextAudio)
    /\ ~Started => sent = <<>> /\ Waiting(interleaved_packets, NextAudio)
-----------------------------------------------------------------------------
(* Every set of numbers has a least one.                                   *)
LEMMA LeastExists ==
    ASSUME NEW S \in SUBSET Nat, S # {}
    PROVE  \E m \in S : \A n \in S : m <= n
  <1> DEFINE R == OpToRel(<, Nat)
  <1>1. IsWellFoundedOn(R, Nat)
    BY NatLessThanWellFounded
  <1>2. \A m, n \in Nat : m < n => <<m, n>> \in R
    BY DEF OpToRel
  <1> HIDE DEF R
  <1>3. PICK m \in S : \A n \in S : <<n, m>> \notin R
    BY <1>1, WFMin
  <1>4. ASSUME NEW n \in S PROVE m <= n
    <2>1. m \in Nat /\ n \in Nat
      OBVIOUS
    <2>2. ~(n < m)
      BY <1>2, <1>3, <2>1
    <2>3. QED
      BY <2>1, <2>2
  <1>5. QED
    BY <1>4

(* Induction over the natural numbers, for a set.                          *)
LEMMA NatSet ==
    ASSUME NEW T, 0 \in T, \A n \in Nat : n \in T => n + 1 \in T
    PROVE  \A n \in Nat : n \in T
  <1> SUFFICES ASSUME Nat \ T # {} PROVE FALSE
    OBVIOUS
  <1>1. PICK m \in Nat \ T : \A n \in Nat \ T : m <= n
    BY LeastExists
  <1>2. m # 0 /\ m - 1 \in Nat
    BY <1>1
  <1>3. m - 1 \in T
    BY <1>1, <1>2
  <1>4. QED
    BY <1>1, <1>2, <1>3

(* So Min, a CHOOSE, is in the set.                                         *)
LEMMA MinIsThere ==
    ASSUME NEW S \in SUBSET Nat, S # {}
    PROVE  Min(S) \in S /\ \A n \in S : Min(S) <= n
  BY LeastExists DEF Min

-----------------------------------------------------------------------------
(* Where a packet is put into a queue.                                     *)
Inserts(r, q, p, k) ==
    /\ r \in Seq(Packet) /\ Len(r) = Len(q) + 1 /\ k \in 1 .. Len(q) + 1
    /\ r[k] = p
    /\ \A i \in 1 .. k - 1 : r[i] = q[i] /\ q[i].dts_usec <= p.dts_usec
    /\ \A i \in k + 1 .. Len(q) + 1 : r[i] = q[i - 1]
    /\ k <= Len(q) => p.dts_usec < q[k].dts_usec

(* insert_interleaved_packet puts it at one of these places.               *)
LEMMA Inserted ==
    ASSUME NEW q \in Seq(Packet), NEW p \in Packet
    PROVE  \E k \in 1 .. Len(q) + 1 : Inserts(Insert(q, p), q, p, k)
  <1>1. PICK n \in Nat : n = Len(q) /\ DOMAIN q = 1 .. n
    BY LenProperties
  <1> DEFINE later == {i \in DOMAIN q : p.dts_usec < q[i].dts_usec}
             places == later \cup {n + 1}
             k == Min(places)
  <1>2. k \in places /\ \A i \in places : k <= i
    <2>1. places \in SUBSET Nat /\ places # {}
      BY <1>1
    <2> HIDE DEF places
    <2>2. QED
      BY <2>1, MinIsThere
  <1>3. k \in 1 .. n + 1
    BY <1>1, <1>2
  <1>4. Insert(q, p) = SubSeq(q, 1, k - 1) \o <<p>> \o SubSeq(q, k, n)
    BY <1>1 DEF Insert, InsertAt
  <1>5. \A i \in 1 .. n : q[i] \in Packet /\ q[i].dts_usec \in Int
    <2>1. \A i \in 1 .. n : q[i] \in Packet
      BY <1>1, ElementOfSeq
    <2>2. QED
      BY <2>1 DEF Packet
  <1>6. p.dts_usec \in Int
    BY DEF Packet
  <1>7. ASSUME NEW i \in 1 .. k - 1 PROVE q[i].dts_usec <= p.dts_usec
    <2>1. i \in 1 .. n /\ ~(k <= i)
      BY <1>3
    <2>2. i \notin later
      BY <1>2, <2>1
    <2>3. ~(p.dts_usec < q[i].dts_usec)
      BY <1>1, <2>1, <2>2
    <2>4. QED
      BY <1>5, <1>6, <2>1, <2>3
  <1>8. ASSUME k <= n PROVE p.dts_usec < q[k].dts_usec
    BY <1>1, <1>2, <1>3, <1>8
  <1>9. PICK m \in 1 .. n + 1 : m = k
    BY <1>3
  <1> HIDE DEF k
  <1> DEFINE left == SubSeq(q, 1, m - 1)
             right == SubSeq(q, m, n)
  <1>10. left \in Seq(Packet) /\ Len(left) = m - 1 /\ \A i \in 1 .. m - 1 : left[i] = q[i]
    <2>1. m - 1 \in Int /\ \A i \in 1 .. m - 1 : q[i] \in Packet
      BY <1>5
    <2>2. /\ left \in Seq(Packet)
          /\ Len(left) = IF 1 <= m - 1 THEN (m - 1) - 1 + 1 ELSE 0
          /\ \A i \in 1 .. (m - 1) - 1 + 1 : left[i] = q[1 + i - 1]
      BY <2>1, SubSeqProperties
    <2> HIDE DEF left
    <2>3. QED
      BY <2>2
  <1>11. /\ right \in Seq(Packet) /\ Len(right) = n - m + 1
         /\ \A i \in 1 .. n - m + 1 : right[i] = q[m + i - 1]
    <2>1. \A i \in m .. n : q[i] \in Packet
      BY <1>5
    <2>2. /\ right \in Seq(Packet)
          /\ Len(right) = IF m <= n THEN n - m + 1 ELSE 0
          /\ \A i \in 1 .. n - m + 1 : right[i] = q[m + i - 1]
      BY <2>1, SubSeqProperties
    <2> HIDE DEF right
    <2>3. QED
      BY <2>2
  <1> HIDE DEF left, right
  <1>12. PICK mid \in Seq(Packet) : mid = <<p>> /\ Len(mid) = 1 /\ mid[1] = p
    <2>1. <<p>> \in Seq(Packet)
      OBVIOUS
    <2>2. Len(<<p>>) = 1 /\ <<p>>[1] = p
      OBVIOUS
    <2>3. QED
      BY <2>1, <2>2
  <1>13. PICK front \in Seq(Packet) :
            /\ front = left \o mid /\ Len(front) = m
            /\ \A i \in 1 .. m - 1 : front[i] = q[i]
            /\ front[m] = p
    <2>1. /\ left \o mid \in Seq(Packet) /\ Len(left \o mid) = (m - 1) + 1
          /\ \A i \in 1 .. (m - 1) + 1 :
                (left \o mid)[i] = IF i <= m - 1 THEN left[i] ELSE mid[i - (m - 1)]
      BY <1>10, <1>12, ConcatProperties
    <2>2. (m - 1) + 1 = m /\ m - (m - 1) = 1 /\ ~(m <= m - 1)
      OBVIOUS
    <2>3. \A i \in 1 .. m - 1 : i \in 1 .. (m - 1) + 1 /\ i <= m - 1
      OBVIOUS
    <2>4. m \in 1 .. (m - 1) + 1
      OBVIOUS
    <2>5. (left \o mid)[m] = p /\ \A i \in 1 .. m - 1 : (left \o mid)[i] = q[i]
      BY <1>10, <1>12, <2>1, <2>2, <2>3, <2>4
    <2>6. QED
      BY <2>1, <2>2, <2>5
  <1>14. PICK r \in Seq(Packet) :
            /\ r = front \o right /\ Len(r) = n + 1
            /\ \A i \in 1 .. n + 1 : r[i] = IF i <= m THEN front[i] ELSE right[i - m]
    <2>1. /\ front \o right \in Seq(Packet) /\ Len(front \o right) = m + (n - m + 1)
          /\ \A i \in 1 .. m + (n - m + 1) :
                (front \o right)[i] = IF i <= m THEN front[i] ELSE right[i - m]
      <3>1. /\ front \o right \in Seq(Packet) /\ Len(front \o right) = Len(front) + Len(right)
            /\ \A i \in 1 .. Len(front) + Len(right) :
                (front \o right)[i] = IF i <= Len(front) THEN front[i] ELSE right[i - Len(front)]
        <4>1. right \in Seq(Packet)
          BY <1>11
        <4>2. QED
          BY ONLY front \in Seq(Packet), <4>1, ConcatProperties
      <3>2. QED
        BY <1>11, <1>13, <3>1
    <2>2. m + (n - m + 1) = n + 1
      OBVIOUS
    <2>3. QED
      BY <2>1, <2>2
  <1>15. r = Insert(q, p)
    BY <1>4, <1>9, <1>12, <1>13, <1>14 DEF left, right
  <1>16. r[m] = p /\ \A i \in 1 .. m - 1 : r[i] = q[i]
    <2>1. m <= m /\ \A i \in 1 .. m - 1 : i \in 1 .. n + 1 /\ i <= m
      OBVIOUS
    <2>2. QED
      BY <1>13, <1>14, <2>1
  <1>17. ASSUME NEW i \in m + 1 .. n + 1 PROVE r[i] = q[i - 1]
    <2>1. i - m \in 1 .. n - m + 1 /\ m + (i - m) - 1 = i - 1 /\ ~(i <= m)
      OBVIOUS
    <2>2. QED
      BY <1>11, <1>14, <2>1
  <1>18. Inserts(r, q, p, m)
    BY <1>1, <1>7, <1>8, <1>9, <1>14, <1>16, <1>17 DEF Inserts
  <1>19. QED
    BY <1>1, <1>15, <1>18

(* What is in the queue then.                                              *)
LEMMA InsertedIs ==
    ASSUME NEW q \in Seq(Packet), NEW p \in Packet, NEW r, NEW k \in Nat,
           Inserts(r, q, p, k)
    PROVE  /\ DOMAIN r = 1 .. Len(q) + 1 /\ Len(q) \in Nat /\ DOMAIN q = 1 .. Len(q)
           /\ \A i \in 1 .. Len(q) + 1 :
                 \/ i < k /\ i \in 1 .. Len(q) /\ r[i] = q[i]
                 \/ i = k /\ r[i] = p
                 \/ i > k /\ i - 1 \in 1 .. Len(q) /\ i - 1 >= k /\ r[i] = q[i - 1]
           /\ \A j \in 1 .. Len(q) :
                 \/ j < k /\ j \in 1 .. Len(q) + 1 /\ r[j] = q[j]
                 \/ j >= k /\ j + 1 \in 1 .. Len(q) + 1 /\ r[j + 1] = q[j]
  <1>1. PICK n \in Nat : n = Len(q) /\ DOMAIN q = 1 .. n
    BY LenProperties
  <1>2. DOMAIN r = 1 .. n + 1
    BY <1>1, LenProperties DEF Inserts
  <1>3. /\ k \in 1 .. n + 1 /\ r[k] = p
        /\ \A i \in 1 .. k - 1 : r[i] = q[i]
        /\ \A i \in k + 1 .. n + 1 : r[i] = q[i - 1]
    BY <1>1 DEF Inserts
  <1>4. ASSUME NEW j \in 1 .. n, j >= k PROVE j + 1 \in 1 .. n + 1 /\ r[j + 1] = q[j]
    <2>1. j + 1 \in k + 1 .. n + 1 /\ (j + 1) - 1 = j
      BY <1>3, <1>4
    <2>2. QED
      BY <1>3, <2>1
  <1>5. QED
    BY <1>1, <1>2, <1>3, <1>4

(* A queue in order stays so.                                              *)
LEMMA InsertedInOrder ==
    ASSUME NEW q \in Seq(Packet), NEW p \in Packet, NEW r, NEW k \in Nat,
           Inserts(r, q, p, k), InOrder(q)
    PROVE  /\ InOrder(r)
           /\ \A i \in 1 .. Len(q) : i >= k => p.dts_usec < q[i].dts_usec
  <1>1. PICK n \in Nat : n = Len(q) /\ DOMAIN q = 1 .. n /\ DOMAIN r = 1 .. n + 1
    BY InsertedIs
  <1>2. \A i \in 1 .. n : q[i].dts_usec \in Int
    <2>1. \A i \in 1 .. n : q[i] \in Packet
      BY <1>1, ElementOfSeq
    <2>2. QED
      BY <2>1 DEF Packet
  <1>3. p.dts_usec \in Int
    BY DEF Packet
  <1>4. \A i, j \in 1 .. n : i < j => q[i].dts_usec <= q[j].dts_usec
    BY <1>1 DEF InOrder
  <1>5. ASSUME NEW i \in 1 .. n, i >= k PROVE p.dts_usec < q[i].dts_usec
    <2>1. k \in 1 .. n /\ p.dts_usec < q[k].dts_usec
      BY <1>1, <1>5 DEF Inserts
    <2>2. i = k \/ q[k].dts_usec <= q[i].dts_usec
      BY <1>4, <1>5, <2>1
    <2>3. QED
      BY <1>2, <1>3, <2>1, <2>2
  <1>6. \A i \in 1 .. n : i < k => q[i].dts_usec <= p.dts_usec
    BY <1>1 DEF Inserts
  <1>7. ASSUME NEW i \in 1 .. n + 1, NEW j \in 1 .. n + 1, i < j
        PROVE  r[i].dts_usec <= r[j].dts_usec
    <2>1. \/ i < k /\ i \in 1 .. n /\ r[i] = q[i]
          \/ i = k /\ r[i] = p
          \/ i > k /\ i - 1 \in 1 .. n /\ i - 1 >= k /\ r[i] = q[i - 1]
      BY <1>1, InsertedIs
    <2>2. \/ j < k /\ j \in 1 .. n /\ r[j] = q[j]
          \/ j = k /\ r[j] = p
          \/ j > k /\ j - 1 \in 1 .. n /\ j - 1 >= k /\ r[j] = q[j - 1]
      BY <1>1, InsertedIs
    <2>3. CASE i = k /\ r[i] = p
      <3>1. j - 1 \in 1 .. n /\ j - 1 >= k /\ r[j] = q[j - 1]
        BY <1>7, <2>2, <2>3
      <3>2. p.dts_usec < q[j - 1].dts_usec
        BY <1>5, <3>1
      <3>3. QED
        BY <1>2, <1>3, <2>3, <3>1, <3>2
    <2>4. ASSUME i < k, i \in 1 .. n, r[i] = q[i], j = k, r[j] = p
          PROVE  r[i].dts_usec <= r[j].dts_usec
      BY <1>6, <2>4
    <2>5. CASE i < k /\ i \in 1 .. n /\ r[i] = q[i]
      BY <1>2, <1>4, <1>7, <2>2, <2>4, <2>5
    <2>6. CASE i > k /\ i - 1 \in 1 .. n /\ i - 1 >= k /\ r[i] = q[i - 1]
      <3>1. j - 1 \in 1 .. n /\ r[j] = q[j - 1] /\ i - 1 < j - 1
        BY <1>7, <2>2, <2>6
      <3>2. QED
        BY <1>4, <2>6, <3>1
    <2>7. QED
      BY <2>1, <2>3, <2>5, <2>6
  <1>8. QED
    BY <1>1, <1>5, <1>7 DEF InOrder

(* Nothing else comes into it.                                             *)
LEMMA InsertedAmong ==
    ASSUME NEW q \in Seq(Packet), NEW p \in Packet, NEW r, NEW k \in Nat,
           Inserts(r, q, p, k)
    PROVE  \A i \in DOMAIN r : r[i] = p \/ \E j \in DOMAIN q : r[i] = q[j]
  <1>1. PICK n \in Nat : n = Len(q) /\ DOMAIN q = 1 .. n /\ DOMAIN r = 1 .. n + 1
    BY InsertedIs
  <1>2. ASSUME NEW i \in 1 .. n + 1 PROVE r[i] = p \/ \E j \in 1 .. n : r[i] = q[j]
    <2>1. \/ i \in 1 .. n /\ r[i] = q[i]
          \/ r[i] = p
          \/ i - 1 \in 1 .. n /\ r[i] = q[i - 1]
      BY <1>1, InsertedIs
    <2>2. QED
      BY <2>1
  <1>3. QED
    BY <1>1, <1>2

(* The timestamps of a queue are numbers.                                  *)
LEMMA TimesAreInts ==
    ASSUME NEW q \in Seq(Packet)
    PROVE  \A i \in DOMAIN q : q[i] \in Packet /\ q[i].dts_usec \in Int /\ q[i].track_idx \in Track
  <1>1. \A i \in DOMAIN q : q[i] \in Packet
    BY LenProperties, ElementOfSeq
  <1>2. QED
    BY <1>1 DEF Packet

(* The lengths of packets are positive.                                    *)
LEMMA Lengths == TickLen \in Nat \ {0} /\ FrameLen \in Nat \ {0} /\ FirstDts \in Int
  BY InterleaverAssumption

(* The next video packet is queued.                                        *)
LEMMA VideoFlow ==
    ASSUME NEW q \in Seq(Packet), NEW out \in Seq(Packet), NEW ha \in Int, NEW hv \in Int,
           NEW nv \in Int, NEW na \in [Track -> Int], NEW mv \in Int,
           NEW p \in Packet, NEW r, NEW k \in Nat, Inserts(r, q, p, k),
           Flow(q, out, ha, hv, nv, na),
           p.type = "video", p.dts_usec = nv, mv = nv + FrameLen
    PROVE  Flow(r, out, ha, Higher(hv, p, "video"), mv, na)
  <1>1. InOrder(r) /\ InOrder(out)
    BY InsertedInOrder DEF Flow
  <1>2. \A i \in DOMAIN r : r[i] = p \/ \E j \in DOMAIN q : r[i] = q[j]
    BY InsertedAmong
  <1>3. /\ \A i \in DOMAIN out : out[i].dts_usec \in Int
        /\ \A i \in DOMAIN q : q[i].dts_usec \in Int
    BY TimesAreInts
  <1>4. \A i \in DOMAIN out : out[i].dts_usec <= nv
    BY DEF Flow
  <1>5. \A i \in DOMAIN out : \A j \in DOMAIN r : out[i].dts_usec <= r[j].dts_usec
    BY <1>2, <1>4 DEF Flow
  <1>6. \A i \in DOMAIN out : out[i].dts_usec <= mv
    BY <1>3, <1>4, Lengths
  <1>7. ASSUME NEW i \in DOMAIN r PROVE Behind(r[i], mv, na)
    <2>1. CASE r[i] = p
      BY <2>1 DEF Behind
    <2>2. CASE \E j \in DOMAIN q : r[i] = q[j]
      <3>1. PICK j \in DOMAIN q : r[i] = q[j]
        BY <2>2
      <3>2. Behind(q[j], nv, na) /\ q[j].dts_usec \in Int
        BY <1>3 DEF Flow
      <3>3. Behind(q[j], mv, na)
        <4>1. CASE q[j].type = "video"
          BY <3>2, <4>1, Lengths DEF Behind
        <4>2. CASE q[j].type # "video"
          BY <3>2, <4>2 DEF Behind
        <4>3. QED
          BY <4>1, <4>2
      <3>4. QED
        BY <3>1, <3>3
    <2>3. QED
      BY <1>2, <2>1, <2>2
  <1>8. Higher(hv, p, "video") <= mv
    <2>1. hv <= nv
      BY DEF Flow
    <2>2. QED
      BY <2>1, Lengths DEF Higher
  <1>9. QED
    BY <1>1, <1>5, <1>6, <1>7, <1>8 DEF Flow

(* So is the next packet of a track that is not ahead of the others.       *)
LEMMA AudioFlow ==
    ASSUME NEW q \in Seq(Packet), NEW out \in Seq(Packet), NEW ha \in Int, NEW hv \in Int,
           NEW nv \in Int, NEW na \in [Track -> Int], NEW ma \in [Track -> Int],
           NEW p \in Packet, NEW r, NEW k \in Nat, Inserts(r, q, p, k),
           Flow(q, out, ha, hv, nv, na),
           NEW u \in Track, p.type = "audio", p.track_idx = u, p.dts_usec = na[u],
           \A t \in Track : na[u] <= na[t],
           ma[u] = na[u] + TickLen, \A t \in Track \ {u} : ma[t] = na[t]
    PROVE  Flow(r, out, Higher(ha, p, "audio"), hv, nv, ma)
  <1>1. InOrder(r) /\ InOrder(out)
    BY InsertedInOrder DEF Flow
  <1>2. \A i \in DOMAIN r : r[i] = p \/ \E j \in DOMAIN q : r[i] = q[j]
    BY InsertedAmong
  <1>3. /\ \A i \in DOMAIN out : out[i].dts_usec \in Int
        /\ \A i \in DOMAIN q : q[i].dts_usec \in Int /\ q[i].track_idx \in Track
    BY TimesAreInts
  <1>4. \A t \in Track : na[t] \in Int /\ ma[t] \in Int /\ na[t] <= ma[t]
    BY Lengths
  <1>5. \A i \in DOMAIN out : \A t \in Track : out[i].dts_usec <= na[t]
    BY DEF Flow
  <1>6. \A i \in DOMAIN out : \A j \in DOMAIN r : out[i].dts_usec <= r[j].dts_usec
    BY <1>2, <1>5 DEF Flow
  <1>7. \A i \in DOMAIN out : \A t \in Track : out[i].dts_usec <= ma[t]
    BY <1>3, <1>4, <1>5
  <1>8. ASSUME NEW i \in DOMAIN r PROVE Behind(r[i], nv, ma)
    <2>1. CASE r[i] = p
      BY <2>1 DEF Behind
    <2>2. CASE \E j \in DOMAIN q : r[i] = q[j]
      <3>1. PICK j \in DOMAIN q : r[i] = q[j]
        BY <2>2
      <3>2. Behind(q[j], nv, na) /\ q[j].dts_usec \in Int /\ q[j].track_idx \in Track
        BY <1>3 DEF Flow
      <3>3. Behind(q[j], nv, ma)
        <4>1. CASE q[j].type = "video"
          BY <3>2, <4>1 DEF Behind
        <4>2. CASE q[j].type # "video"
          <5>1. PICK t \in Track : t = q[j].track_idx
            BY <3>2
          <5>2. q[j].dts_usec + TickLen <= na[t]
            BY <3>2, <4>2, <5>1 DEF Behind
          <5>3. q[j].dts_usec + TickLen <= ma[t]
            BY <1>4, <3>2, <5>2, Lengths
          <5>4. QED
            BY <4>2, <5>1, <5>3 DEF Behind
        <4>3. QED
          BY <4>1, <4>2
      <3>4. QED
        BY <3>1, <3>3
    <2>3. QED
      BY <1>2, <2>1, <2>2
  <1>9. \A t \in Track : Higher(ha, p, "audio") <= ma[t]
    <2>1. \A t \in Track : ha <= na[t]
      BY DEF Flow
    <2>2. Higher(ha, p, "audio") \in {ha, na[u]}
      BY DEF Higher
    <2>3. QED
      BY <1>4, <2>1, <2>2
  <1>10. ASSUME NEW t \in Track, NEW v \in Track PROVE ma[t] <= ma[v] + TickLen
    <2>1. na[t] <= na[v] + TickLen
      BY DEF Flow
    <2>2. CASE t = u
      BY <1>4, <2>2, Lengths
    <2>3. CASE t # u
      BY <1>4, <2>1, <2>3, Lengths
    <2>4. QED
      BY <2>2, <2>3
  <1>11. QED
    BY <1>1, <1>6, <1>7, <1>8, <1>9, <1>10 DEF Flow

(* The first packet goes out when the other type is ahead of it.           *)
LEMMA SendFlow ==
    ASSUME NEW q \in Seq(Packet), NEW out \in Seq(Packet), NEW ha \in Int, NEW hv \in Int,
           NEW nv \in Int, NEW na \in [Track -> Int], Flow(q, out, ha, hv, nv, na),
           q # <<>>, HasHigherOpposing(q[1], ha, hv)
    PROVE  Flow(Tail(q), Append(out, q[1]), ha, hv, nv, na)
  <1>1. PICK n \in Nat : n = Len(q) /\ DOMAIN q = 1 .. n
    BY LenProperties
  <1>2. PICK m \in Nat : m = Len(out) /\ DOMAIN out = 1 .. m
    BY LenProperties
  <1>3. 1 \in 1 .. n
    BY <1>1, EmptySeq
  <1>4. PICK p \in Packet : p = q[1]
    BY <1>1, <1>3, TimesAreInts
  <1>5. PICK rest \in Seq(Packet) :
            rest = Tail(q) /\ DOMAIN rest = 1 .. n - 1 /\ \A i \in 1 .. n - 1 : rest[i] = q[i + 1]
    <2>1. Tail(q) \in Seq(Packet) /\ Len(Tail(q)) = n - 1
          /\ \A i \in 1 .. Len(Tail(q)) : Tail(q)[i] = q[i + 1]
      BY <1>1, HeadTailProperties
    <2>2. DOMAIN Tail(q) = 1 .. n - 1
      BY <2>1, LenProperties
    <2>3. QED
      BY <2>1, <2>2
  <1>6. PICK gone \in Seq(Packet) :
            /\ gone = Append(out, p) /\ DOMAIN gone = 1 .. m + 1
            /\ gone[m + 1] = p /\ \A i \in 1 .. m : gone[i] = out[i]
    <2>1. /\ Append(out, p) \in Seq(Packet) /\ Len(Append(out, p)) = m + 1
          /\ Append(out, p)[m + 1] = p /\ \A i \in 1 .. m : Append(out, p)[i] = out[i]
      BY <1>2, AppendProperties
    <2>2. DOMAIN Append(out, p) = 1 .. m + 1
      BY <2>1, LenProperties
    <2>3. QED
      BY <2>1, <2>2
  <1>7. /\ \A i \in 1 .. m : out[i].dts_usec \in Int
        /\ \A i \in 1 .. n : q[i].dts_usec \in Int /\ q[i].track_idx \in Track
        /\ p.dts_usec \in Int
    BY <1>1, <1>2, <1>3, <1>4, TimesAreInts
  <1>8. \A i \in 1 .. n - 1 : i + 1 \in 1 .. n /\ 1 < i + 1
    BY <1>1
  <1>9. InOrder(rest) /\ \A i \in 1 .. n - 1 : p.dts_usec <= rest[i].dts_usec
    <2>1. \A i, j \in 1 .. n : i < j => q[i].dts_usec <= q[j].dts_usec
      BY <1>1 DEF Flow, InOrder
    <2>2. \A i, j \in 1 .. n - 1 : i < j => i + 1 < j + 1
      OBVIOUS
    <2>3. \A i, j \in 1 .. n - 1 : i < j => rest[i].dts_usec <= rest[j].dts_usec
      BY <1>5, <1>8, <2>1, <2>2
    <2>4. \A i \in 1 .. n - 1 : p.dts_usec <= rest[i].dts_usec
      BY <1>3, <1>4, <1>5, <1>8, <2>1
    <2>5. QED
      BY <1>5, <2>3, <2>4 DEF InOrder
  <1>10. \A i \in 1 .. m : out[i].dts_usec <= p.dts_usec
    BY <1>1, <1>2, <1>3, <1>4 DEF Flow
  <1>11. \A i \in 1 .. m + 1 : \/ i \in 1 .. m /\ gone[i] = out[i]
                               \/ i = m + 1 /\ gone[i] = p
    <2>1. \A i \in 1 .. m + 1 : i \in 1 .. m \/ i = m + 1
      OBVIOUS
    <2>2. QED
      BY <1>6, <2>1
  <1>12. InOrder(gone)
    <2>1. \A i, j \in 1 .. m : i < j => out[i].dts_usec <= out[j].dts_usec
      BY <1>2 DEF Flow, InOrder
    <2>2. ASSUME NEW i \in 1 .. m + 1, NEW j \in 1 .. m + 1, i < j
          PROVE  gone[i].dts_usec <= gone[j].dts_usec
      <3>1. i \in 1 .. m /\ gone[i] = out[i]
        BY <1>6, <2>2
      <3>2. (j \in 1 .. m /\ gone[j] = out[j]) \/ gone[j] = p
        BY <1>11
      <3>3. QED
        BY <1>10, <2>1, <2>2, <3>1, <3>2
    <2>3. QED
      BY <1>6, <2>2 DEF InOrder
  <1>13. ASSUME NEW i \in DOMAIN gone, NEW j \in DOMAIN rest
         PROVE  gone[i].dts_usec <= rest[j].dts_usec
    <2>1. rest[j] = q[j + 1] /\ j + 1 \in 1 .. n /\ p.dts_usec <= rest[j].dts_usec
      BY <1>5, <1>8, <1>9
    <2>2. (i \in 1 .. m /\ gone[i] = out[i]) \/ gone[i] = p
      BY <1>6, <1>11
    <2>3. CASE gone[i] = p
      BY <2>1, <2>3
    <2>4. CASE i \in 1 .. m /\ gone[i] = out[i]
      BY <1>1, <1>2, <2>1, <2>4 DEF Flow
    <2>5. QED
      BY <2>2, <2>3, <2>4
  <1>14. p.dts_usec <= nv /\ \A t \in Track : p.dts_usec <= na[t]
    <2>1. Behind(p, nv, na) /\ hv <= nv /\ \A t \in Track : ha <= na[t]
      BY <1>1, <1>3, <1>4 DEF Flow
    <2>2. \A t, u \in Track : na[t] \in Int /\ na[t] <= na[u] + TickLen
      BY DEF Flow
    <2>3. CASE p.type = "video"
      <3>1. ha > p.dts_usec /\ p.dts_usec + FrameLen <= nv
        BY <1>4, <2>1, <2>3 DEF HasHigherOpposing, Behind
      <3>2. QED
        BY <1>7, <2>1, <2>2, <3>1, Lengths
    <2>4. CASE p.type # "video"
      <3>1. PICK u \in Track : u = p.track_idx
        BY DEF Packet
      <3>2. hv > p.dts_usec /\ p.dts_usec + TickLen <= na[u]
        BY <1>4, <2>1, <2>4, <3>1 DEF HasHigherOpposing, Behind
      <3>3. QED
        BY <1>7, <2>1, <2>2, <3>2, Lengths
    <2>5. QED
      BY <2>3, <2>4
  <1>15. \A i \in DOMAIN gone : gone[i].dts_usec <= nv
    BY <1>2, <1>6, <1>11, <1>14 DEF Flow
  <1>16. \A i \in DOMAIN gone : \A t \in Track : gone[i].dts_usec <= na[t]
    BY <1>2, <1>6, <1>11, <1>14 DEF Flow
  <1>17. \A i \in DOMAIN rest : Behind(rest[i], nv, na)
    BY <1>1, <1>5, <1>8 DEF Flow
  <1>18. Flow(rest, gone, ha, hv, nv, na)
    BY <1>9, <1>12, <1>13, <1>15, <1>16, <1>17 DEF Flow
  <1>19. QED
    BY <1>4, <1>5, <1>6, <1>18

-----------------------------------------------------------------------------
(* What pruning leaves: the queue without the first k packets.             *)
Suffix(r, q, k) ==
    /\ r \in Seq(Packet) /\ Len(r) = Len(q) - k /\ k \in 0 .. Len(q) - 1
    /\ \A i \in 1 .. Len(q) - k : r[i] = q[k + i]

(* Pruning cuts the front off, and leaves the last packet at least.        *)
LEMMA PrunedIs ==
    ASSUME NEW q \in Seq(Packet), q # <<>>
    PROVE  \E k \in Nat : Suffix(Pruned(q), q, k)
  <1>1. PICK n \in Nat : n = Len(q) /\ DOMAIN q = 1 .. n /\ n # 0
    BY LenProperties, EmptySeq
  <1> DEFINE stays == {i \in DOMAIN q : ~CanPrune(q, i)}
             m == Min(stays)
  <1>2. m \in stays
    <2>1. stays \in SUBSET Nat
      BY <1>1
    <2>2. n \in stays
      BY <1>1 DEF CanPrune
    <2> HIDE DEF stays
    <2>3. QED
      BY <2>1, <2>2, MinIsThere
  <1>3. m \in 1 .. n /\ Pruned(q) = SubSeq(q, m, n)
    BY <1>1, <1>2 DEF Pruned
  <1>4. PICK l \in 1 .. n : l = m
    BY <1>3
  <1> HIDE DEF m
  <1>5. PICK r \in Seq(Packet) :
            /\ r = SubSeq(q, l, n) /\ Len(r) = n - l + 1
            /\ \A i \in 1 .. n - l + 1 : r[i] = q[l + i - 1]
    <2>1. \A i \in l .. n : q[i] \in Packet
      BY <1>1, TimesAreInts
    <2>2. /\ SubSeq(q, l, n) \in Seq(Packet)
          /\ Len(SubSeq(q, l, n)) = IF l <= n THEN n - l + 1 ELSE 0
          /\ \A i \in 1 .. n - l + 1 : SubSeq(q, l, n)[i] = q[l + i - 1]
      BY <2>1, SubSeqProperties
    <2>3. Len(SubSeq(q, l, n)) = n - l + 1
      BY <2>2
    <2>4. QED
      BY <2>2, <2>3
  <1>6. PICK k \in Nat : k = l - 1
    OBVIOUS
  <1>7. k \in 0 .. n - 1 /\ n - l + 1 = n - k
    BY <1>6
  <1>8. \A i \in 1 .. n - k : r[i] = q[k + i]
    <2>1. \A i \in 1 .. n - k : i \in 1 .. n - l + 1 /\ l + i - 1 = k + i
      BY <1>6
    <2>2. QED
      BY <1>5, <2>1
  <1>9. QED
    BY <1>1, <1>3, <1>4, <1>5, <1>7, <1>8 DEF Suffix

(* The packets that are left, by their old places.                         *)
LEMMA SuffixIs ==
    ASSUME NEW q \in Seq(Packet), NEW r, NEW k \in Nat, Suffix(r, q, k)
    PROVE  /\ DOMAIN r = 1 .. Len(q) - k /\ DOMAIN q = 1 .. Len(q) /\ Len(q) \in Nat
           /\ r # <<>> /\ Len(q) - k \in Nat
           /\ \A i \in 1 .. Len(q) - k : k + i \in 1 .. Len(q) /\ r[i] = q[k + i]
           /\ \A j \in 1 .. Len(q) : j > k => j - k \in 1 .. Len(q) - k /\ r[j - k] = q[j]
  <1>1. PICK n \in Nat : n = Len(q) /\ DOMAIN q = 1 .. n
    BY LenProperties
  <1>2. r \in Seq(Packet) /\ Len(r) = n - k /\ k \in 0 .. n - 1
        /\ \A i \in 1 .. n - k : r[i] = q[k + i]
    BY <1>1 DEF Suffix
  <1>3. DOMAIN r = 1 .. n - k /\ n - k \in Nat /\ n - k # 0
    BY <1>2, LenProperties
  <1>4. r # <<>>
    BY <1>2, <1>3, EmptySeq
  <1>5. \A i \in 1 .. n - k : k + i \in 1 .. n
    BY <1>2
  <1>6. \A j \in 1 .. n : j > k => j - k \in 1 .. n - k /\ k + (j - k) = j
    BY <1>2
  <1>7. QED
    BY <1>1, <1>2, <1>3, <1>4, <1>5, <1>6

(* They are in order.                                                      *)
LEMMA SuffixInOrder ==
    ASSUME NEW q \in Seq(Packet), NEW r, NEW k \in Nat, Suffix(r, q, k), InOrder(q)
    PROVE  InOrder(r)
  <1>1. PICK n \in Nat : n = Len(q) /\ DOMAIN q = 1 .. n /\ DOMAIN r = 1 .. n - k
                         /\ \A i \in 1 .. n - k : k + i \in 1 .. n /\ r[i] = q[k + i]
    BY SuffixIs
  <1>2. \A i, j \in 1 .. n : i < j => q[i].dts_usec <= q[j].dts_usec
    BY <1>1 DEF InOrder
  <1>3. \A i, j \in 1 .. n - k : i < j => k + i < k + j
    OBVIOUS
  <1>4. QED
    BY <1>1, <1>2, <1>3 DEF InOrder

(* The flow goes on with what is left.                                     *)
LEMMA SuffixFlow ==
    ASSUME NEW q \in Seq(Packet), NEW r, NEW k \in Nat, Suffix(r, q, k),
           NEW out, NEW ha, NEW hv, NEW nv, NEW na, Flow(q, out, ha, hv, nv, na)
    PROVE  Flow(r, out, ha, hv, nv, na)
  <1>1. InOrder(r)
    BY SuffixInOrder DEF Flow
  <1>2. \A i \in DOMAIN r : \E j \in DOMAIN q : r[i] = q[j]
    BY SuffixIs
  <1>3. QED
    BY <1>1, <1>2 DEF Flow

(* Nothing is missing behind what is left.                                 *)
LEMMA SuffixWaits ==
    ASSUME NEW q \in Seq(Packet), NEW r, NEW k \in Nat, Suffix(r, q, k),
           NEW na, Waiting(q, na), InOrder(q)
    PROVE  Waiting(r, na)
  <1>1. PICK n \in Nat :
            /\ n = Len(q) /\ DOMAIN q = 1 .. n /\ DOMAIN r = 1 .. n - k
            /\ \A i \in 1 .. n - k : k + i \in 1 .. n /\ r[i] = q[k + i]
            /\ \A j \in 1 .. n : j > k => j - k \in 1 .. n - k /\ r[j - k] = q[j]
    BY SuffixIs
  <1>2. \A i \in DOMAIN r : Unshifted(r[i])
    BY <1>1 DEF Waiting
  <1>3. \A i \in 1 .. n : q[i] \in Packet /\ q[i].dts_usec \in Int /\ q[i].track_idx \in Track
    BY <1>1, TimesAreInts
  <1>4. \A i, j \in 1 .. n :
           i < j /\ q[i].type = "audio" /\ q[j].type = "audio"
           /\ q[i].dts_usec = q[j].dts_usec => q[i].track_idx < q[j].track_idx
    BY <1>1 DEF Waiting
  <1>5. \A i, j \in DOMAIN r :
           i < j /\ r[i].type = "audio" /\ r[j].type = "audio"
           /\ r[i].dts_usec = r[j].dts_usec => r[i].track_idx < r[j].track_idx
    <2> SUFFICES ASSUME NEW i \in 1 .. n - k, NEW j \in 1 .. n - k, i < j,
                        r[i].type = "audio", r[j].type = "audio",
                        r[i].dts_usec = r[j].dts_usec
                 PROVE  r[i].track_idx < r[j].track_idx
      BY <1>1
    <2>1. k + i \in 1 .. n /\ k + j \in 1 .. n /\ k + i < k + j
      BY <1>1
    <2>2. r[i] = q[k + i] /\ r[j] = q[k + j]
      BY <1>1
    <2>3. QED
      BY <1>4, <2>1, <2>2
  <1>6. ASSUME NEW i \in 1 .. n - k, NEW u \in Track, r[i].type = "audio"
        PROVE  na[u] <= Due(r[i], u) \/ HasAudio(r, u, Due(r[i], u))
    <2>1. PICK l \in 1 .. n : l = k + i /\ r[i] = q[l]
      BY <1>1
    <2>2. CASE na[u] <= Due(q[l], u)
      BY <2>1, <2>2
    <2>3. CASE HasAudio(q, u, Due(q[l], u))
      <3>1. PICK j \in 1 .. n : /\ q[j].type = "audio" /\ q[j].track_idx = u
                                /\ q[j].dts_usec = Due(q[l], u)
        BY <1>1, <2>3 DEF HasAudio
      <3>2. j > k
        <4>1. SUFFICES ASSUME j <= k PROVE FALSE
          OBVIOUS
        <4>2. j < l
          BY <2>1, <4>1
        <4>3. q[j].dts_usec <= q[l].dts_usec
          BY <1>1, <4>2 DEF InOrder
        <4>4. CASE q[l].track_idx < u
          <5>1. q[j].dts_usec = q[l].dts_usec
            BY <3>1, <4>4 DEF Due
          <5>2. u < q[l].track_idx
            BY <1>4, <2>1, <1>6, <3>1, <4>2, <5>1
          <5>3. u \in Int /\ q[l].track_idx \in Int
            BY <1>3 DEF Track
          <5>4. QED
            BY <4>4, <5>2, <5>3
        <4>5. CASE ~(q[l].track_idx < u)
          <5>1. q[j].dts_usec = q[l].dts_usec + TickLen
            BY <3>1, <4>5 DEF Due
          <5>2. QED
            BY <1>3, <4>3, <5>1, Lengths
        <4>6. QED
          BY <4>4, <4>5
      <3>3. j - k \in DOMAIN r /\ r[j - k] = q[j]
        BY <1>1, <3>2
      <3>4. QED
        BY <2>1, <3>1, <3>3 DEF HasAudio
    <2>4. QED
      BY <1>1, <1>6, <2>1, <2>2, <2>3 DEF Waiting
  <1>7. QED
    BY <1>1, <1>2, <1>5, <1>6 DEF Waiting

(* Nor is anything missing when a packet comes before the start.           *)
LEMMA InsertedKeepsAudio ==
    ASSUME NEW q \in Seq(Packet), NEW p \in Packet, NEW r, NEW k \in Nat,
           Inserts(r, q, p, k), NEW u, NEW time, HasAudio(q, u, time)
    PROVE  HasAudio(r, u, time)
  <1>1. PICK n \in Nat : n = Len(q) /\ DOMAIN q = 1 .. n /\ DOMAIN r = 1 .. n + 1
    BY InsertedIs
  <1>2. PICK j \in 1 .. n : q[j].type = "audio" /\ q[j].track_idx = u /\ q[j].dts_usec = time
    BY <1>1 DEF HasAudio
  <1>3. \/ j \in 1 .. n + 1 /\ r[j] = q[j]
        \/ j + 1 \in 1 .. n + 1 /\ r[j + 1] = q[j]
    BY <1>1, InsertedIs
  <1>4. QED
    BY <1>1, <1>2, <1>3 DEF HasAudio

(* Audio of the same tick.                                                 *)
Tied(p, q) == p.type = "audio" /\ q.type = "audio" /\ p.dts_usec = q.dts_usec

(* Packets of a tick stay in the order of the tracks.                      *)
LEMMA InsertedTies ==
    ASSUME NEW q \in Seq(Packet), NEW p \in Packet, NEW r, NEW k \in Nat,
           Inserts(r, q, p, k), InOrder(q),
           \A i, j \in DOMAIN q : i < j /\ Tied(q[i], q[j]) => q[i].track_idx < q[j].track_idx,
           \A i \in DOMAIN q : Tied(q[i], p) => q[i].track_idx < p.track_idx
    PROVE  \A i, j \in DOMAIN r : i < j /\ Tied(r[i], r[j]) => r[i].track_idx < r[j].track_idx
  <1>1. PICK n \in Nat : n = Len(q) /\ DOMAIN q = 1 .. n /\ DOMAIN r = 1 .. n + 1
    BY InsertedIs
  <1>2. \A i \in 1 .. n : i >= k => p.dts_usec < q[i].dts_usec
    BY <1>1, InsertedInOrder
  <1>3. \A i \in 1 .. n : q[i].dts_usec \in Int /\ p.dts_usec \in Int
    <2>1. \A i \in 1 .. n : q[i].dts_usec \in Int
      BY <1>1, TimesAreInts
    <2>2. QED
      BY <2>1 DEF Packet
  <1> SUFFICES ASSUME NEW i \in 1 .. n + 1, NEW j \in 1 .. n + 1, i < j, Tied(r[i], r[j])
               PROVE  r[i].track_idx < r[j].track_idx
    BY <1>1
  <1>4. \/ i < k /\ i \in 1 .. n /\ r[i] = q[i]
        \/ i = k /\ r[i] = p
        \/ i > k /\ i - 1 \in 1 .. n /\ i - 1 >= k /\ r[i] = q[i - 1]
    BY <1>1, InsertedIs
  <1>5. \/ j < k /\ j \in 1 .. n /\ r[j] = q[j]
        \/ j = k /\ r[j] = p
        \/ j > k /\ j - 1 \in 1 .. n /\ j - 1 >= k /\ r[j] = q[j - 1]
    BY <1>1, InsertedIs
  <1>6. CASE i = k /\ r[i] = p
    <2>1. j - 1 \in 1 .. n /\ j - 1 >= k /\ r[j] = q[j - 1]
      BY <1>5, <1>6
    <2>2. p.dts_usec < q[j - 1].dts_usec
      BY <1>2, <2>1
    <2>3. p.dts_usec = q[j - 1].dts_usec
      BY <1>6, <2>1 DEF Tied
    <2>4. QED
      BY <1>3, <2>1, <2>2, <2>3
  <1>7. CASE j = k /\ r[j] = p
    <2>1. i \in 1 .. n /\ r[i] = q[i]
      BY <1>4, <1>7
    <2>2. QED
      BY <1>1, <1>7, <2>1
  <1>8. CASE r[i] # p /\ r[j] # p
    <2>1. \/ i < k /\ i \in 1 .. n /\ r[i] = q[i]
          \/ i > k /\ i - 1 \in 1 .. n /\ i - 1 >= k /\ r[i] = q[i - 1]
      BY <1>4, <1>8
    <2>2. \/ j < k /\ j \in 1 .. n /\ r[j] = q[j]
          \/ j > k /\ j - 1 \in 1 .. n /\ j - 1 >= k /\ r[j] = q[j - 1]
      BY <1>5, <1>8
    <2>3. \A l, m \in 1 .. n :
             l < m /\ r[i] = q[l] /\ r[j] = q[m] => r[i].track_idx < r[j].track_idx
      BY <1>1
    <2>4. CASE i < k /\ i \in 1 .. n /\ r[i] = q[i]
      <3>1. CASE j < k /\ j \in 1 .. n /\ r[j] = q[j]
        BY <2>3, <2>4, <3>1
      <3>2. CASE j > k /\ j - 1 \in 1 .. n /\ j - 1 >= k /\ r[j] = q[j - 1]
        <4>1. i < j - 1
          BY <2>4, <3>2
        <4>2. QED
          BY <2>3, <2>4, <3>2, <4>1
      <3>3. QED
        BY <2>2, <3>1, <3>2
    <2>5. CASE i > k /\ i - 1 \in 1 .. n /\ i - 1 >= k /\ r[i] = q[i - 1]
      <3>1. j > k /\ j - 1 \in 1 .. n /\ r[j] = q[j - 1]
        BY <2>2, <2>5
      <3>2. i - 1 < j - 1
        OBVIOUS
      <3>3. QED
        BY <2>3, <2>5, <3>1, <3>2
    <2>6. QED
      BY <2>1, <2>4, <2>5
  <1>9. QED
    BY <1>1, <1>4, <1>5, <1>6, <1>7, <1>8

(* A video packet comes before the start.                                  *)
LEMMA VideoWaits ==
    ASSUME NEW q \in Seq(Packet), NEW p \in Packet, NEW r, NEW k \in Nat,
           Inserts(r, q, p, k), InOrder(q), NEW na, Waiting(q, na),
           p.type = "video", Unshifted(p)
    PROVE  Waiting(r, na)
  <1>1. \A i \in DOMAIN r : r[i] = p \/ \E j \in DOMAIN q : r[i] = q[j]
    BY InsertedAmong
  <1>2. \A i \in DOMAIN r : Unshifted(r[i])
    BY <1>1 DEF Waiting
  <1>3. \A i, j \in DOMAIN r : i < j /\ Tied(r[i], r[j]) => r[i].track_idx < r[j].track_idx
    <2>1. \A i, j \in DOMAIN q : i < j /\ Tied(q[i], q[j]) => q[i].track_idx < q[j].track_idx
      BY DEF Waiting, Tied
    <2>2. \A i \in DOMAIN q : Tied(q[i], p) => q[i].track_idx < p.track_idx
      BY DEF Tied
    <2>3. QED
      BY <2>1, <2>2, InsertedTies
  <1>4. ASSUME NEW i \in DOMAIN r, NEW v \in Track, r[i].type = "audio"
        PROVE  na[v] <= Due(r[i], v) \/ HasAudio(r, v, Due(r[i], v))
    <2>1. PICK j \in DOMAIN q : r[i] = q[j]
      BY <1>1, <1>4
    <2>2. na[v] <= Due(q[j], v) \/ HasAudio(q, v, Due(q[j], v))
      BY <1>4, <2>1 DEF Waiting
    <2>3. QED
      BY <2>1, <2>2, InsertedKeepsAudio
  <1>5. QED
    BY <1>2, <1>3, <1>4 DEF Waiting, Tied

(* The next packets during a round, and the step of one track.             *)
InTick(na, u, tau) == \A t \in Track : na[t] = IF u <= t THEN tau ELSE tau + TickLen
Moves(ma, na, u) == ma[u] = na[u] + TickLen /\ \A t \in Track \ {u} : ma[t] = na[t]

(* An audio packet comes before the start: it is what its track was to     *)
(* give next, so nothing is missing.                                       *)
LEMMA AudioWaits ==
    ASSUME NEW q \in Seq(Packet), NEW p \in Packet, NEW r, NEW k \in Nat,
           Inserts(r, q, p, k), InOrder(q),
           NEW na \in [Track -> Int], NEW ma \in [Track -> Int], Waiting(q, na),
           NEW nv, \A i \in DOMAIN q : Behind(q[i], nv, na),
           p.type = "audio", Unshifted(p), NEW u \in Track, p.track_idx = u,
           NEW tau \in Int, p.dts_usec = tau,
           InTick(na, u, tau), Moves(ma, na, u)
    PROVE  Waiting(r, ma)
  <1> USE DEF InTick, Moves
  <1>1. \A i \in DOMAIN r : r[i] = p \/ \E j \in DOMAIN q : r[i] = q[j]
    BY InsertedAmong
  <1>2. \A i \in DOMAIN r : Unshifted(r[i])
    BY <1>1 DEF Waiting
  <1>3. \A t \in Track : t \in Int
    BY DEF Track
  <1>4. ASSUME NEW i \in DOMAIN q, q[i].type = "audio"
        PROVE  /\ q[i].track_idx \in Track /\ q[i].dts_usec \in Int
               /\ q[i].dts_usec + TickLen <= na[q[i].track_idx]
    <2>1. q[i].track_idx \in Track /\ q[i].dts_usec \in Int
      BY TimesAreInts
    <2>2. Behind(q[i], nv, na)
      OBVIOUS
    <2>3. QED
      BY <1>4, <2>1, <2>2 DEF Behind
  <1>5. \A i, j \in DOMAIN r : i < j /\ Tied(r[i], r[j]) => r[i].track_idx < r[j].track_idx
    <2>1. \A i, j \in DOMAIN q : i < j /\ Tied(q[i], q[j]) => q[i].track_idx < q[j].track_idx
      BY DEF Waiting, Tied
    <2>2. ASSUME NEW i \in DOMAIN q, Tied(q[i], p) PROVE q[i].track_idx < p.track_idx
      <3>1. q[i].type = "audio" /\ q[i].dts_usec = tau
        BY <2>2 DEF Tied
      <3>2. PICK t \in Track : t = q[i].track_idx
        BY <1>4, <3>1
      <3>3. tau + TickLen <= na[t]
        BY <1>4, <3>1, <3>2
      <3>4. ~(u <= t)
        BY <3>3, Lengths
      <3>5. QED
        BY <1>3, <3>2, <3>4
    <2>3. QED
      BY <2>1, <2>2, InsertedTies
  <1>6. HasAudio(r, u, tau)
    <2>1. k \in DOMAIN r /\ r[k] = p
      BY InsertedIs DEF Inserts
    <2>2. QED
      BY <2>1 DEF HasAudio
  <1>7. ASSUME NEW i \in DOMAIN r, NEW v \in Track, r[i].type = "audio"
        PROVE  ma[v] <= Due(r[i], v) \/ HasAudio(r, v, Due(r[i], v))
    <2>1. CASE r[i] = p
      <3>1. CASE u < v
        <4>1. Due(p, v) = tau /\ ma[v] = tau /\ u <= v
          BY <1>3, <3>1 DEF Due
        <4>2. QED
          BY <2>1, <4>1
      <3>2. CASE ~(u < v)
        <4>1. Due(p, v) = tau + TickLen
          BY <3>2 DEF Due
        <4>2. ma[v] = tau + TickLen
          BY <1>3, <3>2
        <4>3. QED
          BY <2>1, <4>1, <4>2, Lengths
      <3>3. QED
        BY <3>1, <3>2
    <2>2. CASE \E j \in DOMAIN q : r[i] = q[j]
      <3>1. PICK j \in DOMAIN q : r[i] = q[j]
        BY <2>2
      <3>2. na[v] <= Due(q[j], v) \/ HasAudio(q, v, Due(q[j], v))
        BY <1>7, <3>1 DEF Waiting
      <3>3. CASE HasAudio(q, v, Due(q[j], v))
        BY <3>1, <3>3, InsertedKeepsAudio
      <3>4. CASE v # u /\ na[v] <= Due(q[j], v)
        BY <3>1, <3>4
      <3>5. CASE v = u /\ na[v] <= Due(q[j], v)
        <4>1. PICK t \in Track : t = q[j].track_idx
          BY <1>4, <1>7, <3>1
        <4>2. q[j].dts_usec \in Int /\ q[j].dts_usec + TickLen <= na[t]
          BY <1>4, <1>7, <3>1, <4>1
        <4>3. tau <= Due(q[j], u) /\ (Due(q[j], u) = IF t < u THEN q[j].dts_usec
                                                   ELSE q[j].dts_usec + TickLen)
          BY <1>3, <3>5, <4>1 DEF Due
        <4>4. Due(q[j], u) = tau
          <5>1. t \in Int /\ u \in Int
            BY <1>3
          <5>2. na[t] = IF u <= t THEN tau ELSE tau + TickLen
            OBVIOUS
          <5>3. CASE t < u
            <6>1. na[t] = tau + TickLen /\ Due(q[j], u) = q[j].dts_usec
              BY <4>3, <5>1, <5>2, <5>3
            <6>2. QED
              BY <4>2, <4>3, <6>1, Lengths
          <5>4. CASE ~(t < u)
            <6>1. na[t] = tau /\ Due(q[j], u) = q[j].dts_usec + TickLen
              BY <4>3, <5>1, <5>2, <5>4
            <6>2. QED
              BY <4>2, <4>3, <6>1, Lengths
          <5>5. QED
            BY <5>3, <5>4
        <4>5. QED
          BY <1>6, <3>1, <3>5, <4>4
      <3>6. QED
        BY <3>2, <3>3, <3>4, <3>5
    <2>3. QED
      BY <1>1, <2>1, <2>2
  <1>8. QED
    BY <1>2, <1>5, <1>7 DEF Waiting, Tied

-----------------------------------------------------------------------------
(* The first packets of the streams, when the interleaving begins.         *)
LEMMA FirstOfIs ==
    ASSUME NEW q \in Seq(Packet), InOrder(q), NEW type, NEW t, Has(q, type, t)
    PROVE  LET x == FirstOf(q, type, t)
           IN  /\ x \in Packet /\ x.type = type /\ x.track_idx = t
               /\ \E i \in DOMAIN q : x = q[i]
               /\ \A i \in DOMAIN q : q[i].type = type /\ q[i].track_idx = t
                                         => x.dts_usec <= q[i].dts_usec
  <1>1. PICK n \in Nat : n = Len(q) /\ DOMAIN q = 1 .. n
    BY LenProperties
  <1> DEFINE places == {i \in DOMAIN q : q[i].type = type /\ q[i].track_idx = t}
             m == Min(places)
  <1>2. m \in places /\ \A i \in places : m <= i
    <2>1. places \in SUBSET Nat /\ places # {}
      BY <1>1 DEF Has
    <2> HIDE DEF places
    <2>2. QED
      BY <2>1, MinIsThere
  <1>3. FirstOf(q, type, t) = q[m]
    BY DEF FirstOf
  <1>4. PICK l \in 1 .. n : l = m /\ q[l].type = type /\ q[l].track_idx = t
    BY <1>1, <1>2
  <1>5. ASSUME NEW i \in DOMAIN q, q[i].type = type, q[i].track_idx = t
        PROVE  q[l].dts_usec <= q[i].dts_usec
    <2>1. l <= i /\ i \in 1 .. n
      BY <1>1, <1>2, <1>4, <1>5
    <2>2. l = i \/ l < i
      BY <2>1
    <2>3. q[l].dts_usec \in Int
      BY <1>1, TimesAreInts
    <2>4. QED
      BY <1>1, <2>1, <2>2, <2>3 DEF InOrder
  <1>6. q[l] \in Packet
    BY <1>1, TimesAreInts
  <1> HIDE DEF m
  <1>7. QED
    BY <1>1, <1>3, <1>4, <1>5, <1>6

(* The first packets of two tracks are of one round: the earlier track's   *)
(* is not before, and not more than a tick after, the later track's.       *)
LEMMA FirstsInTurn ==
    ASSUME NEW q \in Seq(Packet), NEW na \in [Track -> Int], Waiting(q, na),
           NEW nv, \A i \in DOMAIN q : Behind(q[i], nv, na),
           NEW first \in [Track -> Int],
           \A t \in Track : HasAudio(q, t, first[t]),
           \A t \in Track : \A i \in DOMAIN q :
               q[i].type = "audio" /\ q[i].track_idx = t => first[t] <= q[i].dts_usec,
           NEW t \in Track, NEW u \in Track, t <= u
    PROVE  first[u] <= first[t] /\ first[t] <= first[u] + TickLen
  <1>1. \A v \in Track : v \in Int /\ first[v] \in Int /\ na[v] \in Int
    BY DEF Track
  <1>2. CASE t = u
    BY <1>1, <1>2, Lengths
  <1>3. CASE t < u
    <2>1. ASSUME NEW v \in Track PROVE first[v] + TickLen <= na[v]
      <3>1. PICK i \in DOMAIN q : /\ q[i].type = "audio" /\ q[i].track_idx = v
                                  /\ q[i].dts_usec = first[v]
        BY DEF HasAudio
      <3>2. QED
        BY <3>1 DEF Behind
    <2>2. ASSUME NEW v \in Track, NEW w \in Track, NEW due \in Int,
                 due = (IF v < w THEN first[v] ELSE first[v] + TickLen)
          PROVE  first[w] <= due
      <3>1. PICK i \in DOMAIN q : /\ q[i].type = "audio" /\ q[i].track_idx = v
                                  /\ q[i].dts_usec = first[v]
        BY DEF HasAudio
      <3>2. Due(q[i], w) = due
        BY <2>2, <3>1 DEF Due
      <3>3. na[w] <= due \/ HasAudio(q, w, due)
        BY <3>1, <3>2 DEF Waiting
      <3>4. CASE na[w] <= due
        <4>1. first[w] + TickLen <= na[w]
          BY <2>1
        <4>2. first[w] \in Int /\ na[w] \in Int
          BY <1>1
        <4>3. QED
          BY <3>4, <4>1, <4>2, Lengths
      <3>5. CASE HasAudio(q, w, due)
        BY <3>5 DEF HasAudio
      <3>6. QED
        BY <3>3, <3>4, <3>5
    <2>3. first[u] <= first[t]
      BY <1>1, <1>3, <2>2
    <2>4. first[t] <= first[u] + TickLen
      <3>1. first[u] + TickLen \in Int /\ ~(u < t)
        BY <1>1, <1>3, Lengths
      <3>2. QED
        BY <2>2, <3>1
    <2>5. QED
      BY <2>3, <2>4
  <1>4. QED
    BY <1>1, <1>2, <1>3

(* Times of the tracks, in turn, and their next packets: the one whose     *)
(* turn it is comes first.                                                 *)
Ordered(base) ==
    \A t, u \in Track : t <= u => base[u] <= base[t] /\ base[t] <= base[u] + TickLen

Turns(na, base, k, tau) ==
    \A t \in Track : na[t] = (IF k <= t THEN tau ELSE tau + TickLen) - base[t]

Near(na) == \A t, u \in Track : na[t] <= na[u] + TickLen

(* So their next packets are at most a tick apart.                         *)
LEMMA Rotation ==
    ASSUME NEW base \in [Track -> Int], NEW na \in [Track -> Int], NEW k \in Track,
           NEW tau \in Int, Ordered(base), Turns(na, base, k, tau)
    PROVE  Near(na) /\ \A t \in Track : na[k] <= na[t]
  <1>1. \A t \in Track : t \in Int /\ base[t] \in Int /\ na[t] \in Int
    BY DEF Track
  <1> USE DEF Ordered, Turns
  <1>2. \A t, u \in Track : base[t] <= base[u] + TickLen /\ base[u] <= base[t] + TickLen
    BY <1>1, Lengths
  <1>3. ASSUME NEW t \in Track PROVE na[k] <= na[t]
    <2>1. CASE k <= t
      BY <1>1, <2>1
    <2>2. CASE ~(k <= t)
      BY <1>1, <1>2, <2>2, Lengths
    <2>3. QED
      BY <2>1, <2>2
  <1>4. ASSUME NEW t \in Track, NEW u \in Track PROVE na[t] <= na[u] + TickLen
    <2>1. CASE k <= t
      BY <1>1, <1>2, <2>1, Lengths
    <2>2. CASE ~(k <= t) /\ k <= u
      <3>1. t <= u
        BY <1>1, <2>2
      <3>2. QED
        BY <1>1, <2>2, <3>1, Lengths
    <2>3. CASE ~(k <= t) /\ ~(k <= u)
      BY <1>1, <1>2, <2>3, Lengths
    <2>4. QED
      BY <2>1, <2>2, <2>3
  <1>5. QED
    BY <1>3, <1>4 DEF Near

(* The offset takes the time of the first packet of the stream off.        *)
LEMMA ShiftedIs ==
    ASSUME NEW p \in Packet, NEW voff \in Int, NEW aoff \in [Track -> Int],
           NEW dts, dts = p.dts - (IF p.type = "video" THEN voff ELSE aoff[p.track_idx])
    PROVE  LET x == Shifted(p, voff, aoff)
           IN  /\ x \in Packet /\ x.type = p.type /\ x.track_idx = p.track_idx
               /\ x.dts_usec = dts
  <1>1. /\ p.type \in {"video", "audio"} /\ p.track_idx \in Track
        /\ p.dts_usec \in Int /\ p.dts \in Int
    BY DEF Packet
  <1>2. dts \in Int
    BY <1>1
  <1>3. p = [type |-> p.type, track_idx |-> p.track_idx, dts_usec |-> p.dts_usec,
             dts |-> p.dts]
    BY DEF Packet
  <1>4. Shifted(p, voff, aoff) = [type |-> p.type, track_idx |-> p.track_idx,
                                  dts_usec |-> dts, dts |-> dts]
    <2>1. Shifted(p, voff, aoff) = [p EXCEPT !.dts = dts, !.dts_usec = dts]
      BY DEF Shifted
    <2>2. QED
      BY <1>3, <2>1 DEF Packet
  <1>5. QED
    BY <1>1, <1>2, <1>4 DEF Packet

-----------------------------------------------------------------------------
(* The queue is sorted anew: one turn of the loop after the other.         *)
Turn(r, q, voff, aoff, n) == Insert(r, Shifted(q[n], voff, aoff))

Loop(f, q, voff, aoff, n) ==
    f = [m \in 0 .. n |-> IF m = 0 THEN <<>> ELSE Turn(f[m - 1], q, voff, aoff, m)]

(* What the loop has after each turn.                                      *)
LEMMA LoopTurn ==
    ASSUME NEW f, NEW q, NEW voff, NEW aoff, NEW n \in Nat, Loop(f, q, voff, aoff, n)
    PROVE  /\ DOMAIN f = 0 .. n /\ f[0] = <<>>
           /\ \A m \in 0 .. n - 1 : f[m + 1] = Turn(f[m], q, voff, aoff, m + 1)
  <1>1. DOMAIN f = 0 .. n
    BY DEF Loop
  <1>2. \A m \in 0 .. n : f[m] = IF m = 0 THEN <<>> ELSE Turn(f[m - 1], q, voff, aoff, m)
    BY DEF Loop
  <1>3. f[0] = <<>>
    BY <1>2
  <1>4. ASSUME NEW m \in 0 .. n - 1 PROVE f[m + 1] = Turn(f[m], q, voff, aoff, m + 1)
    <2>1. m + 1 \in 0 .. n /\ m + 1 # 0 /\ (m + 1) - 1 = m
      OBVIOUS
    <2>2. f[m + 1] = Turn(f[(m + 1) - 1], q, voff, aoff, m + 1)
      BY <1>2, <2>1
    <2>3. QED
      BY <2>1, <2>2
  <1>5. QED
    BY <1>1, <1>3, <1>4

(* A recursive function is defined on every initial segment.               *)
LEMMA LoopExists ==
    ASSUME NEW q, NEW voff, NEW aoff, NEW n \in Nat
    PROVE  \E f : Loop(f, q, voff, aoff, n)
  <1> DEFINE T == {m \in Nat : \E f : Loop(f, q, voff, aoff, m)}
  <1>1. 0 \in T
    <2>1. Loop([i \in 0 .. 0 |-> <<>>], q, voff, aoff, 0)
      BY DEF Loop
    <2>2. QED
      BY <2>1
  <1>2. ASSUME NEW m \in Nat, m \in T PROVE m + 1 \in T
    <2>1. PICK f : Loop(f, q, voff, aoff, m)
      BY <1>2
    <2> DEFINE g == [i \in 0 .. m + 1 |->
                        IF i = m + 1 THEN Turn(f[m], q, voff, aoff, m + 1) ELSE f[i]]
    <2>2. ASSUME NEW i \in 0 .. m + 1
          PROVE  g[i] = IF i = 0 THEN <<>> ELSE Turn(g[i - 1], q, voff, aoff, i)
      <3>1. i # 0 => i - 1 \in 0 .. m /\ g[i - 1] = f[i - 1]
        OBVIOUS
      <3>2. CASE i = m + 1
        <4>1. /\ i # 0 /\ i - 1 = m /\ g[i - 1] = f[m]
              /\ g[i] = Turn(f[m], q, voff, aoff, i)
          BY <3>1, <3>2
        <4> HIDE DEF g
        <4>2. QED
          BY Zenon, <4>1
      <3>3. CASE i = 0
        <4>1. g[i] = <<>>
          BY <2>1, <3>3, LoopTurn
        <4> HIDE DEF g
        <4>2. QED
          BY Zenon, <3>3, <4>1
      <3>4. CASE i \in 1 .. m
        <4>1. PICK j \in 0 .. m - 1 : i = j + 1
          <5>1. i - 1 \in 0 .. m - 1 /\ i = (i - 1) + 1
            BY <3>4
          <5>2. QED
            BY <5>1
        <4>2. f[i] = Turn(f[j], q, voff, aoff, i)
          BY <2>1, <4>1, LoopTurn
        <4>3. g[i] = f[i] /\ i - 1 = j /\ g[j] = f[j] /\ i # 0
          BY <3>4, <4>1
        <4> HIDE DEF g
        <4>4. QED
          BY Zenon, <4>2, <4>3
      <3>5. QED
        BY <3>2, <3>3, <3>4
    <2>3. Loop(g, q, voff, aoff, m + 1)
      BY <2>2 DEF Loop
    <2>4. QED
      BY <2>3
  <1>3. QED
    <2> HIDE DEF T
    <2>1. n \in T
      BY <1>1, <1>2, NatSet
    <2>2. QED
      BY <2>1 DEF T

(* Sorting anew inserts one packet after the other.                        *)
LEMMA ResortedLoop ==
    ASSUME NEW q \in Seq(Packet), NEW voff, NEW aoff, NEW n \in Nat, n = Len(q)
    PROVE  \E f : /\ Resorted(q, voff, aoff) = f[n] /\ f[0] = <<>>
                  /\ \A m \in 0 .. n - 1 : f[m + 1] = Turn(f[m], q, voff, aoff, m + 1)
  <1>1. PICK f : f = CHOOSE g : Loop(g, q, voff, aoff, n)
    OBVIOUS
  <1>2. Loop(f, q, voff, aoff, n)
    BY <1>1, LoopExists
  <1>3. Resorted(q, voff, aoff) = f[n]
    BY <1>1 DEF Resorted, Loop, Turn
  <1>4. QED
    BY <1>2, <1>3, LoopTurn

(* It is in order then, and holds the packets with their offsets.          *)
LEMMA ResortedIs ==
    ASSUME NEW q \in Seq(Packet), NEW voff \in Int, NEW aoff \in [Track -> Int]
    PROVE  LET r == Resorted(q, voff, aoff)
           IN  /\ r \in Seq(Packet) /\ Len(r) = Len(q) /\ InOrder(r)
               /\ \A i \in DOMAIN r : \E j \in DOMAIN q : r[i] = Shifted(q[j], voff, aoff)
  <1>1. PICK n \in Nat : n = Len(q) /\ DOMAIN q = 1 .. n
    BY LenProperties
  <1>2. PICK f : Resorted(q, voff, aoff) = f[n] /\ f[0] = <<>>
                 /\ \A m \in 0 .. n - 1 : f[m + 1] = Turn(f[m], q, voff, aoff, m + 1)
    BY <1>1, ResortedLoop
  <1>3. /\ f[0] = <<>>
        /\ \A m \in 0 .. n - 1 : f[m + 1] = Turn(f[m], q, voff, aoff, m + 1)
    BY <1>2
  <1> DEFINE Sorted(m) == /\ f[m] \in Seq(Packet) /\ Len(f[m]) = m /\ InOrder(f[m])
                          /\ \A i \in DOMAIN f[m] : \E j \in 1 .. n :
                                f[m][i] = Shifted(q[j], voff, aoff)
             T == {m \in Nat : m <= n => Sorted(m)}
  <1>4. 0 \in T
    <2>1. f[0] \in Seq(Packet) /\ Len(f[0]) = 0 /\ DOMAIN f[0] = {}
      BY <1>3, EmptySeq
    <2>2. QED
      BY <2>1 DEF InOrder
  <1>5. ASSUME NEW m \in Nat, m \in T PROVE m + 1 \in T
    <2> SUFFICES ASSUME m + 1 <= n PROVE Sorted(m + 1)
      OBVIOUS
    <2>1. Sorted(m) /\ m \in 0 .. n - 1 /\ m + 1 \in 1 .. n
      BY <1>5
    <2>2. PICK p \in Packet : p = Shifted(q[m + 1], voff, aoff)
      BY <1>1, <2>1, TimesAreInts, ShiftedIs
    <2>3. PICK s \in Seq(Packet) : s = f[m]
      BY <2>1
    <2>4. f[m + 1] = Insert(s, p)
      BY <1>3, <2>1, <2>2, <2>3 DEF Turn
    <2>5. PICK k \in 1 .. Len(s) + 1 : Inserts(f[m + 1], s, p, k)
      BY <2>4, Inserted
    <2>6. k \in Nat /\ Len(s) = m
      BY <2>1, <2>3, LenProperties
    <2>7. f[m + 1] \in Seq(Packet) /\ Len(f[m + 1]) = m + 1
      BY <2>5, <2>6 DEF Inserts
    <2>8. InOrder(f[m + 1])
      BY <2>1, <2>3, <2>5, <2>6, InsertedInOrder
    <2>9. \A i \in DOMAIN f[m + 1] : f[m + 1][i] = p \/ \E j \in DOMAIN s : f[m + 1][i] = s[j]
      BY <2>5, <2>6, InsertedAmong
    <2>10. \A i \in DOMAIN f[m + 1] : \E j \in 1 .. n :
              f[m + 1][i] = Shifted(q[j], voff, aoff)
      BY <2>1, <2>2, <2>3, <2>9
    <2>11. QED
      BY <2>7, <2>8, <2>10
  <1> HIDE DEF T
  <1>6. n \in T
    BY <1>4, <1>5, NatSet
  <1>7. QED
    BY <1>1, <1>2, <1>6 DEF T

(* The offsets, and what they take off the timestamps to come.             *)
Offsets(aoff, first) == \A t \in Track : aoff[t] = FirstDts + first[t] - TickLen
Taken(ma, na, first) == \A t \in Track : ma[t] = na[t] - first[t]

(* Sorted anew, the queue flows on from zero.                              *)
LEMMA BeginFlow ==
    ASSUME NEW q \in Seq(Packet), NEW ha \in Int, NEW hv \in Int, NEW nv \in Int,
           NEW na \in [Track -> Int], Flow(q, <<>>, ha, hv, nv, na),
           \A i \in DOMAIN q : Unshifted(q[i]),
           video_start \in Nat, audio_start = [t \in Track |-> TickLen],
           NEW vo \in Int, NEW voff \in Int, voff = FirstDts + vo - video_start,
           NEW first \in [Track -> Int], NEW aoff \in [Track -> Int],
           Offsets(aoff, first), Ordered(first),
           NEW mv \in Int, mv = nv - vo,
           NEW ma \in [Track -> Int], Taken(ma, na, first), Near(ma)
    PROVE  LET r == Resorted(q, voff, aoff)
           IN  /\ r \in Seq(Packet) /\ Len(r) = Len(q)
               /\ Flow(r, <<>>, ha - first[0], hv - vo, mv, ma)
  <1>1. PICK r : r = Resorted(q, voff, aoff)
    OBVIOUS
  <1>2. /\ r \in Seq(Packet) /\ Len(r) = Len(q) /\ InOrder(r)
        /\ \A i \in DOMAIN r : \E j \in DOMAIN q : r[i] = Shifted(q[j], voff, aoff)
    BY <1>1, ResortedIs
  <1>3. ASSUME NEW i \in DOMAIN r PROVE Behind(r[i], mv, ma)
    <2>1. PICK j \in DOMAIN q : r[i] = Shifted(q[j], voff, aoff)
      BY <1>2
    <2>2. PICK p \in Packet : p = q[j]
      BY TimesAreInts
    <2>3. Behind(p, nv, na) /\ Unshifted(p)
      BY <2>2 DEF Flow
    <2>4. /\ p.type \in {"video", "audio"} /\ p.track_idx \in Track
          /\ p.dts_usec \in Int /\ p.dts \in Int
      BY DEF Packet
    <2>5. PICK dts : dts = p.dts - (IF p.type = "video" THEN voff ELSE aoff[p.track_idx])
      OBVIOUS
    <2>6. /\ r[i].type = p.type /\ r[i].track_idx = p.track_idx
          /\ r[i].dts_usec = dts
      <3>1. PICK x : x = Shifted(p, voff, aoff)
        OBVIOUS
      <3>2. x.type = p.type /\ x.track_idx = p.track_idx /\ x.dts_usec = dts
        BY ONLY p \in Packet, voff \in Int, aoff \in [Track -> Int],
                <2>5, <3>1, ShiftedIs
      <3>3. QED
        BY <2>1, <2>2, <3>1, <3>2
    <2>7. CASE p.type = "video"
      <3>1. PICK ts \in Int : /\ ts = p.dts_usec /\ p.dts = FirstDts + ts - video_start
                             /\ ts + FrameLen <= nv
        BY <2>3, <2>4, <2>7 DEF Unshifted, Behind
      <3>2. dts = (FirstDts + ts - video_start) - voff
        BY <2>5, <2>7, <3>1
      <3>3. dts = ts - vo
        BY <3>2, Lengths
      <3>4. dts + FrameLen <= mv
        <4>1. mv = nv - vo
          OBVIOUS
        <4>2. QED
          BY ONLY <3>1, <3>3, <4>1, Lengths, ts \in Int, nv \in Int, vo \in Int
      <3>5. QED
        BY <2>6, <2>7, <3>4 DEF Behind
    <2>8. CASE p.type # "video"
      <3>1. PICK t \in Track : t = p.track_idx
        BY <2>4
      <3>2. PICK ts \in Int : /\ ts = p.dts_usec /\ p.dts = FirstDts + ts - TickLen
                             /\ ts + TickLen <= na[t]
        BY <2>3, <2>4, <2>8, <3>1 DEF Unshifted, Behind
      <3>3. PICK base \in Int : base = first[t] /\ aoff[t] = FirstDts + base - TickLen
        BY DEF Offsets
      <3>4. dts = (FirstDts + ts - TickLen) - (FirstDts + base - TickLen)
        BY <2>5, <2>8, <3>1, <3>2, <3>3
      <3>5. dts = ts - base
        BY <3>4, Lengths
      <3>6. ma[t] = na[t] - base /\ na[t] \in Int
        BY <3>3 DEF Taken
      <3>7. dts + TickLen <= ma[t]
        <4>1. PICK n \in Int : n = na[t]
          BY <3>6
        <4>2. ma[t] = n - base /\ ts + TickLen <= n
          BY <3>2, <3>6, <4>1
        <4>3. QED
          BY ONLY <3>5, <4>2, Lengths, ts \in Int, base \in Int, n \in Int
      <3>8. QED
        BY <2>6, <2>8, <3>1, <3>7 DEF Behind
    <2>9. QED
      BY <2>7, <2>8
  <1>4. hv - vo <= mv
    BY DEF Flow
  <1>5. ASSUME NEW t \in Track PROVE ha - first[0] <= ma[t]
    <2>1. 0 \in Track /\ 0 <= t
      BY InterleaverAssumption DEF Track
    <2>2. ha <= na[t] /\ ma[t] = na[t] - first[t] /\ first[t] <= first[0]
      BY <2>1 DEF Flow, Ordered, Taken
    <2>3. first[t] \in Int /\ first[0] \in Int /\ na[t] \in Int
      BY <2>1
    <2>4. QED
      BY <2>2, <2>3
  <1>6. InOrder(<<>>) /\ DOMAIN <<>> = {}
    BY DEF InOrder
  <1>7. Flow(r, <<>>, ha - first[0], hv - vo, mv, ma)
    BY <1>2, <1>3, <1>4, <1>5, <1>6 DEF Flow, Near
  <1>8. QED
    BY <1>1, <1>2, <1>7

(* What sending leaves.                                                    *)
LEMMA SendKeeps ==
    ASSUME NEW r \in Seq(Packet), r # <<>>, sent \in Seq(Packet), NEW ha \in Int,
           NEW hv \in Int, NEW nv \in Int, NEW na \in [Track -> Int],
           Flow(r, sent, ha, hv, nv, na), Send(r, ha, hv)
    PROVE  /\ interleaved_packets' \in Seq(Packet) /\ sent' \in Seq(Packet)
           /\ Flow(interleaved_packets', sent', ha, hv, nv, na)
  <1>1. CASE HasHigherOpposing(r[1], ha, hv)
    <2>1. interleaved_packets' = Tail(r) /\ sent' = Append(sent, r[1])
      BY <1>1 DEF Send
    <2>2. Flow(Tail(r), Append(sent, r[1]), ha, hv, nv, na)
      BY <1>1, SendFlow
    <2>3. Tail(r) \in Seq(Packet)
      BY HeadTailProperties
    <2>4. 1 \in DOMAIN r
      BY LenProperties, EmptySeq
    <2>5. r[1] \in Packet
      BY <2>4, TimesAreInts
    <2>6. Append(sent, r[1]) \in Seq(Packet)
      BY <2>5, AppendProperties
    <2>7. QED
      BY <2>1, <2>2, <2>3, <2>6
  <1>2. CASE ~HasHigherOpposing(r[1], ha, hv)
    BY <1>2 DEF Send
  <1>3. QED
    BY <1>1, <1>2

(* The interleaving begins: what is queued moves to zero, and so does what *)
(* will come.                                                              *)
Began(vo, first, ma, na, ha, hv, nv) ==
    /\ video_offset' = FirstDts + vo - video_start
    /\ audio_offsets' = [t \in Track |-> FirstDts + first[t] - TickLen]
    /\ received_audio' = TRUE /\ received_video' = TRUE
    /\ highest_audio_ts' = ha - first[0] /\ highest_video_ts' = hv - vo
    /\ Ordered(first) /\ Taken(ma, na, first)
    /\ interleaved_packets' \in Seq(Packet) /\ sent' \in Seq(Packet)
    /\ Flow(interleaved_packets', sent', ha - first[0], hv - vo, nv - vo, ma)

(* It does so in the way Began says.                                       *)
LEMMA BeginKeeps ==
    ASSUME NEW q \in Seq(Packet), q # <<>>, NEW ha \in Int, NEW hv \in Int,
           NEW nv \in Int, NEW na \in [Track -> Int], Flow(q, <<>>, ha, hv, nv, na),
           Waiting(q, na), sent = <<>>,
           video_start \in Nat, audio_start = [t \in Track |-> TickLen],
           Has(q, "video", 0), \A t \in Track : Has(q, "audio", t),
           NEW k \in Track, NEW tau \in Int,
           InTick(na, k, tau),
           Begin(q, ha, hv)
    PROVE  \E vo \in Int, first \in [Track -> Int], ma \in [Track -> Int] :
              Began(vo, first, ma, na, ha, hv, nv)
  <1>1. InOrder(q) /\ (\A i \in DOMAIN q : Behind(q[i], nv, na))
    BY DEF Flow
  <1>2. PICK video : video = FirstOf(q, "video", 0)
    OBVIOUS
  <1>3. /\ video \in Packet /\ video.type = "video"
        /\ \E i \in DOMAIN q : video = q[i]
    BY <1>1, <1>2, FirstOfIs
  <1>4. PICK vo \in Int : vo = video.dts_usec /\ video.dts = FirstDts + vo - video_start
    <2>1. Unshifted(video)
      BY <1>3 DEF Waiting
    <2>2. QED
      BY <1>3, <2>1 DEF Unshifted, Packet
  <1>5. PICK first : first = [t \in Track |-> FirstOf(q, "audio", t).dts_usec]
    OBVIOUS
  <1>6. ASSUME NEW t \in Track
        PROVE  /\ FirstOf(q, "audio", t).dts_usec \in Int
               /\ FirstOf(q, "audio", t).dts
                    = FirstDts + FirstOf(q, "audio", t).dts_usec - TickLen
               /\ HasAudio(q, t, FirstOf(q, "audio", t).dts_usec)
               /\ \A i \in DOMAIN q : q[i].type = "audio" /\ q[i].track_idx = t
                     => FirstOf(q, "audio", t).dts_usec <= q[i].dts_usec
    <2>1. PICK x : x = FirstOf(q, "audio", t)
      OBVIOUS
    <2>2. /\ x \in Packet /\ x.type = "audio" /\ x.track_idx = t
          /\ \E i \in DOMAIN q : x = q[i]
          /\ \A i \in DOMAIN q : q[i].type = "audio" /\ q[i].track_idx = t
                                    => x.dts_usec <= q[i].dts_usec
      BY <1>1, <2>1, FirstOfIs
    <2>3. Unshifted(x)
      BY <2>2 DEF Waiting
    <2>4. x.dts_usec \in Int
      BY <2>2 DEF Packet
    <2>5. x.dts = FirstDts + x.dts_usec - TickLen
      BY <2>2, <2>3 DEF Unshifted
    <2>6. HasAudio(q, t, x.dts_usec)
      BY <2>2 DEF HasAudio
    <2>7. QED
      BY <2>1, <2>2, <2>4, <2>5, <2>6
  <1>7. first \in [Track -> Int] /\ \A t \in Track : first[t] = FirstOf(q, "audio", t).dts_usec
    BY <1>5, <1>6
  <1>8. ASSUME NEW t \in Track, NEW u \in Track, t <= u
        PROVE  first[u] <= first[t] /\ first[t] <= first[u] + TickLen
    <2>1. \A w \in Track : HasAudio(q, w, first[w])
      BY <1>6, <1>7
    <2>2. \A w \in Track : \A i \in DOMAIN q :
             q[i].type = "audio" /\ q[i].track_idx = w => first[w] <= q[i].dts_usec
      BY <1>6, <1>7
    <2>3. first \in [Track -> Int]
      BY <1>7
    <2>4. QED
      BY <1>1, <1>8, <2>1, <2>2, <2>3, FirstsInTurn
  <1>9. PICK aoff \in [Track -> Int] :
            aoff = [t \in Track |-> FirstDts + first[t] - TickLen]
    <2>1. \A t \in Track : FirstDts + first[t] - TickLen \in Int
      BY <1>7, Lengths
    <2>2. QED
      BY <2>1
  <1>10. PICK ma \in [Track -> Int] : \A t \in Track : ma[t] = na[t] - first[t]
    <2>1. \A t \in Track : na[t] - first[t] \in Int
      BY <1>7
    <2>2. [t \in Track |-> na[t] - first[t]] \in [Track -> Int]
      BY <2>1
    <2>3. QED
      BY <2>2
  <1>11. Near(ma)
    <2>1. Turns(ma, first, k, tau)
      BY <1>10 DEF Turns, InTick
    <2>2. first \in [Track -> Int]
      BY <1>7
    <2>3. Ordered(first)
      BY <1>8 DEF Ordered
    <2>4. QED
      BY ONLY <2>1, <2>2, <2>3, ma \in [Track -> Int], k \in Track, tau \in Int, Rotation
  <1>12. 0 \in Track /\ \A t \in Track : 0 <= t
    BY InterleaverAssumption DEF Track
  <1>13. PICK voff \in Int : voff = FirstDts + vo - video_start
    BY Lengths
  <1>14. PICK mv \in Int : mv = nv - vo
    OBVIOUS
  <1>15. PICK r \in Seq(Packet) :
            /\ r = Resorted(q, voff, aoff) /\ Len(r) = Len(q)
            /\ Flow(r, <<>>, ha - first[0], hv - vo, mv, ma)
    <2>1. Offsets(aoff, first)
      BY <1>9 DEF Offsets
    <2>2. first \in [Track -> Int]
      BY <1>7
    <2>3. \A i \in DOMAIN q : Unshifted(q[i])
      BY DEF Waiting
    <2>4. Taken(ma, na, first)
      BY <1>10 DEF Taken
    <2>5. Ordered(first)
      BY <1>8 DEF Ordered
    <2>6. QED
      BY <1>11, <1>13, <1>14, <2>1, <2>2, <2>3, <2>4, <2>5, BeginFlow
  <1>16. r # <<>>
    BY <1>15, EmptySeq
  <1>17. /\ received_audio' = TRUE /\ received_video' = TRUE
         /\ video_offset' = voff
         /\ audio_offsets' = aoff
         /\ highest_audio_ts' = ha - first[0] /\ highest_video_ts' = hv - vo
         /\ Send(r, highest_audio_ts', highest_video_ts')
    <2>1. aoff = [t \in Track |-> FirstOf(q, "audio", t).dts]
      BY <1>6, <1>7, <1>9
    <2>2. audio_offsets' = aoff
      BY <2>1 DEF Begin
    <2>3. video_offset' = voff
      BY <1>2, <1>4, <1>13 DEF Begin
    <2>4. highest_audio_ts' = ha - first[0] /\ highest_video_ts' = hv - vo
      BY <1>2, <1>4, <1>7, <1>12 DEF Begin
    <2>5. received_audio' = TRUE /\ received_video' = TRUE
      BY DEF Begin
    <2>6. Send(Resorted(q, video_offset', audio_offsets'), highest_audio_ts', highest_video_ts')
      BY DEF Begin
    <2>7. Send(r, highest_audio_ts', highest_video_ts')
      BY <1>15, <2>2, <2>3, <2>6
    <2>8. QED
      BY <2>2, <2>3, <2>4, <2>5, <2>7
  <1>18. /\ interleaved_packets' \in Seq(Packet) /\ sent' \in Seq(Packet)
         /\ Flow(interleaved_packets', sent', ha - first[0], hv - vo, mv, ma)
    <2>1. PICK a \in Int : a = ha - first[0]
      BY <1>7, <1>12
    <2>2. PICK v \in Int : v = hv - vo
      OBVIOUS
    <2>3. sent \in Seq(Packet)
      BY EmptySeq
    <2>4. Flow(r, sent, a, v, mv, ma) /\ Send(r, a, v)
      BY <1>15, <1>17, <2>1, <2>2
    <2>5. /\ interleaved_packets' \in Seq(Packet) /\ sent' \in Seq(Packet)
          /\ Flow(interleaved_packets', sent', a, v, mv, ma)
      BY <1>16, <2>3, <2>4, SendKeeps
    <2>6. QED
      BY <2>1, <2>2, <2>5
  <1>19. QED
    <2>1. first \in [Track -> Int]
      BY <1>7
    <2>2. Ordered(first) /\ Taken(ma, na, first)
      BY <1>8, <1>10 DEF Ordered, Taken
    <2>3. Began(vo, first, ma, na, ha, hv, nv)
      BY <1>9, <1>13, <1>14, <1>17, <1>18, <2>2 DEF Began
    <2>4. QED
      BY <2>1, <2>3

(* The next packets after a step, in terms of what the step assigns.       *)
LEMMA NextPackets ==
    ASSUME NEW k \in Track, k = track', NEW tau \in Int, tau = tick',
           NEW vb \in Int, VideoBase' = vb,
           NEW ab \in [Track -> Int], \A t \in Track : AudioBase(t)' = ab[t],
           NEW ma \in [Track -> Int], Turns(ma, ab, k, tau),
           NEW time \in Int, time = video_time'
    PROVE  NextVideo' = time - vb /\ NextAudio' = ma
  <1>1. NextVideo' = time - vb
    BY DEF NextVideo
  <1>2. ASSUME NEW t \in Track PROVE NextTick(t)' = IF k <= t THEN tau ELSE tau + TickLen
    BY DEF NextTick
  <1>3. NextAudio' = [t \in Track |-> NextTick(t)' - AudioBase(t)']
    BY DEF NextAudio
  <1>4. \A t \in Track : NextTick(t)' - AudioBase(t)' = ma[t]
    BY <1>2 DEF Turns
  <1>5. ma = [t \in Track |-> ma[t]]
    OBVIOUS
  <1>6. NextAudio' = ma
    BY <1>3, <1>4, <1>5
  <1>7. QED
    BY <1>1, <1>6

(* What the interleaver has after a packet.                                *)
Kept ==
    /\ interleaved_packets \in Seq(Packet) /\ sent \in Seq(Packet)
    /\ highest_audio_ts \in Int /\ highest_video_ts \in Int
    /\ video_offset \in Int /\ audio_offsets \in [Track -> Int]
    /\ InTurn
    /\ Flow(interleaved_packets, sent, highest_audio_ts, highest_video_ts,
            NextVideo, NextAudio)
    /\ ~Started => sent = <<>> /\ Waiting(interleaved_packets, NextAudio)

(* A packet after the start: it is queued, and one may go out.             *)
LEMMA StartedKeeps ==
    ASSUME Types, InTurn, Started, NEW q \in Seq(Packet), q # <<>>,
           NEW ha \in Int, NEW hv \in Int,
           NEW k \in Track, k = track', NEW tau \in Int, tau = tick',
           NEW time \in Int, time = video_time',
           UNCHANGED <<video_start, audio_start>>,
           NEW vb \in Int, vb = VideoBase, NEW ab \in [Track -> Int],
           \A t \in Track : ab[t] = AudioBase(t),
           NEW ma \in [Track -> Int], Turns(ma, ab, k, tau),
           NEW nv \in Int, nv = time - vb,
           Flow(q, sent, ha, hv, nv, ma),
           highest_audio_ts' = ha, highest_video_ts' = hv, Send(q, ha, hv),
           UNCHANGED <<received_audio, received_video, video_offset, audio_offsets>>
    PROVE  Kept'
  <1>1. Started'
    BY DEF Started
  <1>2. VideoBase' = vb /\ \A t \in Track : AudioBase(t)' = ab[t]
    BY <1>1 DEF VideoBase, AudioBase
  <1>3. NextVideo' = nv /\ NextAudio' = ma
    BY <1>2, NextPackets
  <1>4. /\ interleaved_packets' \in Seq(Packet) /\ sent' \in Seq(Packet)
        /\ Flow(interleaved_packets', sent', ha, hv, nv, ma)
    <2>1. sent \in Seq(Packet)
      BY DEF Types
    <2>2. QED
      BY <2>1, SendKeeps
  <1>5. Flow(interleaved_packets, sent, highest_audio_ts, highest_video_ts,
             NextVideo, NextAudio)'
    BY <1>3, <1>4
  <1>6. InTurn'
    <2>1. \A t, u \in Track : t <= u => ab[u] <= ab[t] /\ ab[t] <= ab[u] + TickLen
      BY DEF InTurn
    <2>2. QED
      BY <1>2, <2>1 DEF InTurn
  <1>7. /\ video_offset' \in Int /\ audio_offsets' \in [Track -> Int]
        /\ highest_audio_ts' \in Int /\ highest_video_ts' \in Int
    BY DEF Types
  <1>8. QED
    BY <1>1, <1>4, <1>5, <1>6, <1>7 DEF Kept

(* A step that does not start the interleaving: all waits.                 *)
LEMMA WaitingKeeps ==
    ASSUME ~Started', NEW q \in Seq(Packet),
           NEW ha \in Int, NEW hv \in Int,
           NEW k \in Track, k = track', NEW tau \in Int, tau = tick',
           NEW time \in Int, time = video_time',
           NEW ma \in [Track -> Int],
           InTick(ma, k, tau),
           Flow(q, <<>>, ha, hv, time, ma), Waiting(q, ma),
           interleaved_packets' = q, sent' = <<>>,
           video_start' = video_start, audio_start' = audio_start,
           highest_audio_ts' = ha, highest_video_ts' = hv,
           NEW voff \in Int, video_offset' = voff,
           NEW aoff \in [Track -> Int], audio_offsets' = aoff
    PROVE  Kept'
  <1>1. VideoBase' = 0 /\ \A t \in Track : AudioBase(t)' = 0
    BY DEF VideoBase, AudioBase
  <1>2. PICK ab \in [Track -> Int] : \A t \in Track : ab[t] = 0
    <2>1. [t \in Track |-> 0] \in [Track -> Int]
      OBVIOUS
    <2>2. QED
      BY <2>1
  <1>3. Turns(ma, ab, k, tau)
    BY <1>2, Lengths DEF Turns, InTick
  <1>4. \A t \in Track : AudioBase(t)' = ab[t]
    BY <1>1, <1>2
  <1>5. NextVideo' = time /\ NextAudio' = ma
    <2>1. PICK zero \in Int : zero = 0
      OBVIOUS
    <2>2. VideoBase' = zero
      BY <1>1, <2>1
    <2>3. NextVideo' = time - zero /\ NextAudio' = ma
      BY <1>3, <1>4, <2>2, NextPackets
    <2>4. time - zero = time
      BY ONLY <2>1, time \in Int
    <2>5. QED
      BY Zenon, <2>3, <2>4
  <1>6. Flow(interleaved_packets, sent, highest_audio_ts, highest_video_ts,
             NextVideo, NextAudio)'
    BY <1>5
  <1>7. InTurn'
    BY <1>1, Lengths DEF InTurn
  <1>8. Waiting(interleaved_packets, NextAudio)'
    <2>1. \A i \in DOMAIN q : Unshifted(q[i])'
      BY DEF Waiting, Unshifted
    <2>2. NextAudio' = ma
      BY <1>5
    <2>3. QED
      BY <2>1, <2>2 DEF Waiting
  <1>9. QED
    BY <1>6, <1>7, <1>8, EmptySeq DEF Kept

(* A packet with which the interleaving begins.                            *)
LEMMA BeginningKeeps ==
    ASSUME NEW q \in Seq(Packet), q # <<>>, NEW ha \in Int, NEW hv \in Int,
           NEW k \in Track, k = track', NEW tau \in Int, tau = tick',
           NEW time \in Int, time = video_time',
           NEW na \in [Track -> Int],
           InTick(na, k, tau),
           Flow(q, <<>>, ha, hv, time, na), Waiting(q, na), sent = <<>>,
           video_start \in Nat, audio_start = [t \in Track |-> TickLen],
           video_start' = video_start, audio_start' = audio_start,
           Has(q, "video", 0), \A t \in Track : Has(q, "audio", t),
           Begin(q, ha, hv)
    PROVE  Kept'
  <1>1. PICK vo \in Int, first \in [Track -> Int], ma \in [Track -> Int] :
            Began(vo, first, ma, na, ha, hv, time)
    BY BeginKeeps
  <1>2. received_audio' /\ received_video'
    BY <1>1 DEF Began
  <1>3. Started'
    BY <1>2 DEF Started
  <1>4. VideoBase' = vo
    <2>1. VideoBase' = video_start' + video_offset' - FirstDts
      BY <1>3 DEF VideoBase
    <2>2. PICK s \in Int : s = video_start
      OBVIOUS
    <2>3. video_start' = s /\ video_offset' = FirstDts + vo - s
      BY <1>1, <2>2 DEF Began
    <2>4. s + (FirstDts + vo - s) - FirstDts = vo
      BY Lengths
    <2>5. QED
      BY <2>1, <2>3, <2>4
  <1>5. ASSUME NEW t \in Track PROVE AudioBase(t)' = first[t]
    <2>1. AudioBase(t)' = audio_start'[t] + audio_offsets'[t] - FirstDts
      BY <1>3 DEF AudioBase
    <2>2. audio_start'[t] = TickLen /\ audio_offsets'[t] = FirstDts + first[t] - TickLen
      BY <1>1 DEF Began
    <2>3. PICK f \in Int : f = first[t]
      OBVIOUS
    <2>4. TickLen + (FirstDts + f - TickLen) - FirstDts = f
      BY Lengths
    <2>5. QED
      BY <2>1, <2>2, <2>3, <2>4
  <1>6. NextVideo' = time - vo /\ NextAudio' = ma
    <2>1. Turns(ma, first, k, tau)
      BY <1>1 DEF Turns, Began, Taken, InTick
    <2>2. QED
      BY <1>4, <1>5, <2>1, NextPackets
  <1>7. Flow(interleaved_packets, sent, highest_audio_ts, highest_video_ts,
             NextVideo, NextAudio)'
    BY <1>1, <1>6 DEF Began
  <1>8. InTurn'
    BY <1>1, <1>5 DEF InTurn, Began, Ordered
  <1>9. video_offset' \in Int /\ highest_audio_ts' \in Int /\ highest_video_ts' \in Int
    <2>1. 0 \in Track
      BY InterleaverAssumption DEF Track
    <2>2. first[0] \in Int
      BY <2>1
    <2>3. /\ highest_audio_ts' = ha - first[0] /\ highest_video_ts' = hv - vo
          /\ video_offset' = FirstDts + vo - video_start
      BY <1>1 DEF Began
    <2>4. ha - first[0] \in Int /\ hv - vo \in Int /\ FirstDts + vo - video_start \in Int
      BY <2>2, Lengths
    <2>5. QED
      BY <2>3, <2>4
  <1>10. audio_offsets' \in [Track -> Int]
    <2>1. \A t \in Track : FirstDts + first[t] - TickLen \in Int
      BY Lengths
    <2>2. QED
      BY <1>1, <2>1 DEF Began
  <1>11. QED
    BY <1>1, <1>3, <1>7, <1>8, <1>9, <1>10 DEF Kept, Began

(* Each call of interleave_packets keeps it.                               *)
LEMMA PacketKeeps ==
    ASSUME Types, InTurn, NEW packet \in Packet, NEW out \in Packet,
           out = IF Started THEN Shifted(packet, video_offset, audio_offsets) ELSE packet,
           NEW q \in Seq(Packet), q = Insert(interleaved_packets, out), q # <<>>,
           NEW ha \in Int, ha = Higher(highest_audio_ts, out, "audio"),
           NEW hv \in Int, hv = Higher(highest_video_ts, out, "video"),
           NEW k \in Track, k = track', NEW tau \in Int, tau = tick',
           NEW time \in Int, time = video_time',
           video_start' = video_start, audio_start' = audio_start,
           NEW vb \in Int, vb = VideoBase, NEW ab \in [Track -> Int],
           \A t \in Track : ab[t] = AudioBase(t),
           NEW na \in [Track -> Int], Turns(na, ab, k, tau),
           NEW nv \in Int, nv = time - vb,
           Flow(q, sent, ha, hv, nv, na), ~Started => sent = <<>> /\ Waiting(q, na),
           InterleavePacket(packet)
    PROVE  Kept'
  <1> DEFINE p == Pruned(q)
             audio == received_audio \/ packet.type = "audio"
             video == received_video \/ packet.type = "video"
             ready == Has(p, "video", 0) /\ \A t \in Track : Has(p, "audio", t)
  <1>1. PICK l \in Nat : Suffix(p, q, l)
    BY PrunedIs
  <1> HIDE DEF p
  <1>2. p \in Seq(Packet) /\ p # <<>> /\ Flow(p, sent, ha, hv, nv, na)
    <2>1. p \in Seq(Packet)
      BY <1>1 DEF Suffix
    <2>2. p # <<>>
      BY <1>1, SuffixIs
    <2>3. Flow(p, sent, ha, hv, nv, na)
      BY <1>1, SuffixFlow
    <2>4. QED
      BY <2>1, <2>2, <2>3
  <1>3. Started => UNCHANGED <<received_audio, received_video, video_offset, audio_offsets>>
                   /\ highest_audio_ts' = ha /\ highest_video_ts' = hv /\ Send(q, ha, hv)
    BY DEF InterleavePacket, Started, p
  <1>4. ~Started /\ audio /\ video /\ ready => Begin(p, ha, hv)
    BY DEF InterleavePacket, Started, p
  <1>5. ~Started /\ audio /\ video /\ ~ready =>
            highest_audio_ts' = ha /\ highest_video_ts' = hv /\ AwaitMore(p)
    BY DEF InterleavePacket, Started, p
  <1>6. ~Started /\ ~(audio /\ video) =>
            /\ highest_audio_ts' = ha /\ highest_video_ts' = hv
            /\ interleaved_packets' = q /\ received_audio' = audio /\ received_video' = video
            /\ UNCHANGED <<video_offset, audio_offsets, sent>>
    BY DEF InterleavePacket, Started, p
  <1> HIDE DEF ready
  <1>7. ASSUME ~Started
        PROVE  /\ vb = 0 /\ nv = time /\ sent = <<>>
               /\ InTick(na, k, tau)
               /\ Flow(p, <<>>, ha, hv, time, na) /\ Waiting(p, na)
               /\ Flow(q, <<>>, ha, hv, time, na) /\ Waiting(q, na)
    <2>1. vb = 0 /\ \A t \in Track : ab[t] = 0
      BY <1>7 DEF VideoBase, AudioBase
    <2>2. nv = time
      <3>1. time - 0 = time
        BY ONLY time \in Int
      <3>2. nv = time - vb
        BY Zenon
      <3>3. QED
        BY Zenon, <2>1, <3>1, <3>2
    <2>3. InTick(na, k, tau)
      BY <2>1, Lengths DEF Turns, InTick
    <2>4. sent = <<>> /\ Waiting(q, na) /\ InOrder(q)
      BY <1>7 DEF Flow
    <2>5. Waiting(p, na)
      BY <1>1, <2>4, SuffixWaits
    <2>6. Flow(p, <<>>, ha, hv, time, na) /\ Flow(q, <<>>, ha, hv, time, na)
      BY <1>2, <2>2, <2>4
    <2>7. QED
      BY <2>1, <2>2, <2>3, <2>4, <2>5, <2>6
  <1>8. /\ video_start \in Nat /\ audio_start = [t \in Track |-> TickLen]
        /\ video_offset \in Int /\ audio_offsets \in [Track -> Int]
    BY DEF Types
  <1> PICK voff \in Int, aoff \in [Track -> Int] :
           voff = video_offset /\ aoff = audio_offsets
    BY <1>8
  <1>9. /\ k = track' /\ tau = tick' /\ time = video_time'
        /\ video_start' = video_start /\ audio_start' = audio_start
    BY Zenon
  <1>10. CASE Started
    BY <1>3, <1>10, StartedKeeps
  <1>11. CASE ~Started /\ audio /\ video /\ ready
    <2>1. Has(p, "video", 0) /\ \A t \in Track : Has(p, "audio", t)
      BY <1>11 DEF ready
    <2>2. Begin(p, ha, hv)
      BY <1>4, <1>11
    <2>3. QED
      BY <1>2, <1>7, <1>8, <1>11, <2>1, <2>2, BeginningKeeps
  <1>12. CASE ~Started /\ audio /\ video /\ ~ready
    <2>1. AwaitMore(p) /\ highest_audio_ts' = ha /\ highest_video_ts' = hv
      BY <1>5, <1>12
    <2>2. /\ interleaved_packets' = p /\ sent' = <<>>
          /\ video_offset' = voff /\ audio_offsets' = aoff
      BY <1>7, <1>12, <2>1 DEF AwaitMore
    <2>3. /\ received_video' = Has(p, "video", 0)
          /\ received_audio' = \A t \in Track : Has(p, "audio", t)
      BY <2>1 DEF AwaitMore
    <2>4. ~(received_audio' /\ received_video')
      BY <1>12, <2>3 DEF ready
    <2>5. ~Started'
      BY <2>4 DEF Started
    <2>6. QED
      BY ONLY <1>2, <1>7, <1>9, <1>12, <2>1, <2>2, <2>5, WaitingKeeps,
              ha \in Int, hv \in Int, k \in Track, tau \in Int, time \in Int,
              na \in [Track -> Int], voff \in Int, aoff \in [Track -> Int]
  <1>13. CASE ~Started /\ ~(audio /\ video)
    <2>1. /\ highest_audio_ts' = ha /\ highest_video_ts' = hv
          /\ interleaved_packets' = q /\ received_audio' = audio /\ received_video' = video
          /\ video_offset' = voff /\ audio_offsets' = aoff /\ sent' = <<>>
      BY <1>6, <1>7, <1>13
    <2>2. ~Started'
      BY <1>13, <2>1 DEF Started
    <2>3. QED
      BY ONLY <1>7, <1>9, <1>13, <2>1, <2>2, WaitingKeeps, q \in Seq(Packet),
              ha \in Int, hv \in Int, k \in Track, tau \in Int, time \in Int,
              na \in [Track -> Int], voff \in Int, aoff \in [Track -> Int]
  <1>14. QED
    BY <1>10, <1>11, <1>12, <1>13

(* The two flags are flags.                                                *)
LEMMA ReceivedKept ==
    ASSUME NEW packet, InterleavePacket(packet),
           received_audio \in BOOLEAN, received_video \in BOOLEAN
    PROVE  received_audio' \in BOOLEAN /\ received_video' \in BOOLEAN
  <1>1. \/ received_audio' = TRUE /\ received_video' = TRUE
        \/ UNCHANGED <<received_audio, received_video>>
        \/ \E q : AwaitMore(q)
        \/ /\ received_audio' = (received_audio \/ packet.type = "audio")
           /\ received_video' = (received_video \/ packet.type = "video")
    BY DEF InterleavePacket, Begin
  <1>2. CASE \E q : AwaitMore(q)
    BY Zenon, <1>2 DEF AwaitMore, Has
  <1>3. QED
    BY Zenon, <1>1, <1>2

-----------------------------------------------------------------------------
(* The packet as it is queued, at the time its stream has come to.         *)
LEMMA VideoOut ==
    ASSUME Types, NEW time \in Int, time = video_time, NEW packet, packet = Video(time),
           NEW out,
           out = IF Started THEN Shifted(packet, video_offset, audio_offsets) ELSE packet
    PROVE  /\ packet \in Packet /\ out \in Packet /\ out.type = "video"
           /\ out.dts_usec = NextVideo /\ (~Started => Unshifted(out))
           /\ VideoBase \in Int /\ NextVideo \in Int
  <1>1. PICK dts \in Int : dts = FirstDts + time - video_start
    BY Lengths DEF Types
  <1>2. packet = [type |-> "video", track_idx |-> 0, dts_usec |-> time, dts |-> dts]
    BY <1>1 DEF Video
  <1>3. packet \in Packet
    <2>1. 0 \in Track
      BY InterleaverAssumption DEF Track
    <2>2. QED
      BY <1>2, <2>1 DEF Packet
  <1>4. video_start \in Int /\ video_offset \in Int /\ audio_offsets \in [Track -> Int]
    BY DEF Types
  <1>5. VideoBase \in Int /\ NextVideo \in Int
    BY <1>4, Lengths DEF VideoBase, NextVideo
  <1>6. CASE Started
    <2>1. out = Shifted(packet, video_offset, audio_offsets)
      BY <1>6
    <2>2. PICK x : x = Shifted(packet, video_offset, audio_offsets)
      OBVIOUS
    <2>3. /\ x \in Packet /\ x.type = packet.type
          /\ x.dts_usec = packet.dts - (IF packet.type = "video" THEN video_offset
                                        ELSE audio_offsets[packet.track_idx])
      BY <1>3, <1>4, <2>2, ShiftedIs
    <2>4. x.dts_usec = dts - video_offset
      BY <1>2, <2>3
    <2>5. NextVideo = time - (video_start + video_offset - FirstDts)
      BY <1>6 DEF NextVideo, VideoBase
    <2>6. dts - video_offset = time - (video_start + video_offset - FirstDts)
      BY <1>1, <1>4, Lengths
    <2>7. QED
      BY <1>2, <1>3, <1>5, <1>6, <2>1, <2>2, <2>3, <2>4, <2>5, <2>6
  <1>7. CASE ~Started
    <2>1. NextVideo = time - 0
      BY <1>7 DEF NextVideo, VideoBase
    <2>2. NextVideo = time
      BY <2>1
    <2>3. Unshifted(packet)
      BY <1>1, <1>2, <1>4, Lengths DEF Unshifted
    <2>4. QED
      BY <1>2, <1>3, <1>5, <1>7, <2>2, <2>3
  <1>8. QED
    BY <1>6, <1>7

(* So for audio.                                                           *)
LEMMA AudioOut ==
    ASSUME Types, NEW time \in Int, time = tick, NEW u \in Track, u = track,
           NEW packet, packet = Audio(time, u), NEW out,
           out = IF Started THEN Shifted(packet, video_offset, audio_offsets) ELSE packet
    PROVE  /\ packet \in Packet /\ out \in Packet /\ out.type = "audio"
           /\ out.track_idx = u /\ out.dts_usec = NextAudio[u]
           /\ ~Started => Unshifted(out) /\ out.dts_usec = time
  <1>1. PICK dts \in Int : dts = FirstDts + time - TickLen
    BY Lengths DEF Types
  <1>2. packet = [type |-> "audio", track_idx |-> u, dts_usec |-> time, dts |-> dts]
    BY <1>1 DEF Audio, Types
  <1>3. packet \in Packet
    BY <1>2 DEF Packet
  <1>4. video_offset \in Int /\ audio_offsets \in [Track -> Int] /\ audio_start[u] = TickLen
    BY DEF Types
  <1>5. NextAudio[u] = time - AudioBase(u)
    <2>1. u <= u
      BY DEF Track
    <2>2. QED
      BY <2>1 DEF NextAudio, NextTick
  <1>6. CASE Started
    <2>1. PICK x : x = Shifted(packet, video_offset, audio_offsets)
      OBVIOUS
    <2>2. /\ x \in Packet /\ x.type = packet.type /\ x.track_idx = packet.track_idx
          /\ x.dts_usec = packet.dts - (IF packet.type = "video" THEN video_offset
                                        ELSE audio_offsets[packet.track_idx])
      BY <1>3, <1>4, <2>1, ShiftedIs
    <2>3. x.dts_usec = dts - audio_offsets[u]
      BY <1>2, <2>2
    <2>4. NextAudio[u] = time - (TickLen + audio_offsets[u] - FirstDts)
      BY <1>4, <1>5, <1>6 DEF AudioBase
    <2>5. PICK o \in Int : o = audio_offsets[u]
      BY <1>4
    <2>6. dts - o = time - (TickLen + o - FirstDts)
      BY <1>1, Lengths
    <2>7. x.dts_usec = NextAudio[u]
      BY <2>3, <2>4, <2>5, <2>6
    <2>8. QED
      BY <1>2, <1>3, <1>6, <2>1, <2>2, <2>7
  <1>7. CASE ~Started
    <2>1. NextAudio[u] = time
      BY <1>5, <1>7 DEF AudioBase
    <2>2. Unshifted(packet)
      BY <1>1, <1>2, <1>4, Lengths DEF Unshifted
    <2>3. QED
      BY <1>2, <1>3, <1>7, <2>1, <2>2
  <1>8. QED
    BY <1>6, <1>7

(* What the next audio packets are before a step.                          *)
LEMMA AudioNow ==
    ASSUME Types, InTurn
    PROVE  \E ab \in [Track -> Int] : \E na \in [Track -> Int] :
              /\ \A t \in Track : ab[t] = AudioBase(t)
              /\ na = NextAudio /\ Ordered(ab) /\ Turns(na, ab, track, tick)
              /\ tick \in Int /\ track \in Track
  <1>1. tick \in Int /\ track \in Track
    BY DEF Types
  <1>2. ASSUME NEW t \in Track PROVE AudioBase(t) \in Int
    <2>1. audio_start[t] \in Int /\ audio_offsets[t] \in Int
      BY Lengths DEF Types
    <2>2. QED
      BY <2>1, Lengths DEF AudioBase
  <1>3. PICK ab \in [Track -> Int] : \A t \in Track : ab[t] = AudioBase(t)
    <2>1. [t \in Track |-> AudioBase(t)] \in [Track -> Int]
      BY <1>2
    <2>2. QED
      BY <2>1
  <1>4. PICK na \in [Track -> Int] : na = NextAudio
    <2>1. \A t \in Track : NextTick(t) - AudioBase(t) \in Int
      BY <1>1, <1>2, Lengths DEF NextTick
    <2>2. QED
      BY <2>1 DEF NextAudio
  <1>5. Ordered(ab)
    BY <1>3 DEF Ordered, InTurn
  <1>6. Turns(na, ab, track, tick)
    <2>1. \A t \in Track : na[t] = NextTick(t) - ab[t]
      BY <1>3, <1>4 DEF NextAudio
    <2>2. QED
      BY <2>1 DEF Turns, NextTick
  <1>7. QED
    BY <1>1, <1>3, <1>4, <1>5, <1>6

(* What a step leaves to the encoders.                                     *)
EncoderTypes ==
    /\ video_start \in Nat /\ audio_start = [t \in Track |-> TickLen]
    /\ video_time \in Nat /\ tick \in Nat /\ tick >= TickLen /\ track \in Track

(* The parts of the invariant.                                             *)
LEMMA IInvParts ==
    /\ IInv => /\ Types /\ InTurn
               /\ Flow(interleaved_packets, sent, highest_audio_ts, highest_video_ts,
                       NextVideo, NextAudio)
               /\ (~Started => sent = <<>> /\ Waiting(interleaved_packets, NextAudio))
    /\ Types => /\ interleaved_packets \in Seq(Packet) /\ sent \in Seq(Packet)
                /\ received_audio \in BOOLEAN /\ received_video \in BOOLEAN
                /\ highest_audio_ts \in Int /\ highest_video_ts \in Int /\ EncoderTypes
  BY DEF IInv, Types, EncoderTypes

(* The invariant is what the interleaver and the encoders keep.            *)
LEMMA KeptIs ==
    ASSUME Kept', EncoderTypes', received_audio' \in BOOLEAN, received_video' \in BOOLEAN
    PROVE  IInv'
  <1>1. Types'
    BY DEF Kept, EncoderTypes, Types
  <1>2. QED
    BY <1>1 DEF Kept, IInv

(* The video encoder's step.                                               *)
LEMMA VideoKeeps == IInv /\ VideoPacket => IInv'
  <1> SUFFICES ASSUME IInv, VideoPacket PROVE IInv'
    OBVIOUS
  <1>1. /\ Types /\ InTurn
        /\ Flow(interleaved_packets, sent, highest_audio_ts, highest_video_ts,
                NextVideo, NextAudio)
        /\ (~Started => sent = <<>> /\ Waiting(interleaved_packets, NextAudio))
    BY IInvParts
  <1>2. PICK time \in Nat : time = video_time
    BY <1>1 DEF Types
  <1>3. PICK packet : packet = Video(time)
    OBVIOUS
  <1>4. PICK out : out = IF Started THEN Shifted(packet, video_offset, audio_offsets)
                         ELSE packet
    OBVIOUS
  <1>5. PICK nv \in Int, vb \in Int : nv = NextVideo /\ vb = VideoBase
    BY <1>1, <1>2, <1>3, <1>4, VideoOut
  <1>6. /\ packet \in Packet /\ out \in Packet /\ out.type = "video"
        /\ out.dts_usec = nv /\ (~Started => Unshifted(out))
    BY <1>1, <1>2, <1>3, <1>4, <1>5, VideoOut
  <1>7. PICK ab \in [Track -> Int], na \in [Track -> Int] :
           /\ \A t \in Track : ab[t] = AudioBase(t)
           /\ na = NextAudio /\ Ordered(ab) /\ Turns(na, ab, track, tick)
           /\ tick \in Int /\ track \in Track
    BY <1>1, AudioNow
  <1>8. PICK was \in Seq(Packet), gone \in Seq(Packet), oa \in Int, ov \in Int :
           /\ was = interleaved_packets /\ gone = sent
           /\ oa = highest_audio_ts /\ ov = highest_video_ts
    BY <1>1, IInvParts
  <1>9. Flow(was, gone, oa, ov, nv, na) /\ InOrder(was)
    BY <1>1, <1>5, <1>7, <1>8 DEF Flow
  <1>10. PICK l \in 1 .. Len(was) + 1 : Inserts(Insert(was, out), was, out, l)
    BY <1>6, Inserted
  <1>11. l \in Nat
    BY LenProperties
  <1>12. PICK q \in Seq(Packet) : q = Insert(was, out) /\ q # <<>> /\ Inserts(q, was, out, l)
    <2>1. Insert(was, out) \in Seq(Packet) /\ Len(Insert(was, out)) = Len(was) + 1
      BY <1>10 DEF Inserts
    <2>2. Len(was) + 1 # 0
      BY LenProperties
    <2>3. QED
      BY <1>10, <2>1, <2>2, EmptySeq
  <1>13. PICK hv \in Int : hv = Higher(ov, out, "video")
    BY <1>6 DEF Higher, Packet
  <1>14. oa = Higher(oa, out, "audio")
    BY <1>6 DEF Higher
  <1>15. PICK mv \in Int : mv = nv + FrameLen
    BY Lengths
  <1>16. Flow(q, gone, oa, hv, mv, na)
    BY <1>6, <1>9, <1>11, <1>12, <1>13, <1>15, VideoFlow
  <1>17. ~Started => gone = <<>> /\ Waiting(q, na)
    <2> SUFFICES ASSUME ~Started PROVE gone = <<>> /\ Waiting(q, na)
      OBVIOUS
    <2>1. gone = <<>> /\ Waiting(was, na)
      BY <1>1, <1>7, <1>8
    <2>2. Unshifted(out)
      BY <1>6
    <2>3. Waiting(q, na)
      BY <1>6, <1>9, <1>11, <1>12, <2>1, <2>2, VideoWaits
    <2>4. QED
      BY <2>1, <2>3
  <1>18. PICK later \in Nat : later = time + FrameLen
    BY Lengths
  <1>19. /\ InterleavePacket(packet) /\ later = video_time'
         /\ video_start' = video_start /\ audio_start' = audio_start
         /\ tick' = tick /\ track' = track
    BY <1>2, <1>3, <1>18 DEF VideoPacket
  <1>20. mv = later - vb
    <2>1. nv = time - vb
      BY <1>2, <1>5 DEF NextVideo
    <2>2. QED
      BY <1>15, <1>18, <2>1, Lengths
  <1>21. PICK k \in Track, tau \in Int : k = track /\ tau = tick
    BY <1>7
  <1>22. Kept'
    <2>1. Turns(na, ab, k, tau) /\ k = track' /\ tau = tick'
      BY <1>7, <1>19, <1>21
    <2>2. oa = Higher(highest_audio_ts, out, "audio") /\ hv = Higher(highest_video_ts, out, "video")
      BY <1>8, <1>13, <1>14
    <2>3. q = Insert(interleaved_packets, out)
      BY <1>8, <1>12
    <2>4. Flow(q, sent, oa, hv, mv, na) /\ (~Started => sent = <<>> /\ Waiting(q, na))
      BY <1>8, <1>16, <1>17
    <2>5. later \in Int
      OBVIOUS
    <2>6. QED
      BY <1>1, <1>4, <1>5, <1>6, <1>7, <1>12, <1>19, <1>20, <2>1, <2>2, <2>3, <2>4, <2>5,
         PacketKeeps
  <1>23. EncoderTypes'
    BY <1>1, <1>18, <1>19, IInvParts DEF EncoderTypes
  <1>24. received_audio' \in BOOLEAN /\ received_video' \in BOOLEAN
    BY <1>1, <1>19, IInvParts, ReceivedKept
  <1>25. QED
    BY Zenon, <1>22, <1>23, <1>24, KeptIs

(* The tick goes to the next track.                                        *)
Passed(u, tau, k, later) ==
    \/ u = Tracks - 1 /\ k = 0 /\ later = tau + TickLen
    \/ u # Tracks - 1 /\ k = u + 1 /\ later = tau

(* The next packets are in turn again.                                     *)
LEMMA NextTurn ==
    ASSUME NEW ab \in [Track -> Int], NEW na \in [Track -> Int], NEW u \in Track,
           NEW tau \in Int, Turns(na, ab, u, tau),
           NEW k \in Track, NEW later \in Int, Passed(u, tau, k, later),
           NEW ma \in [Track -> Int], Moves(ma, na, u)
    PROVE  Turns(ma, ab, k, later)
  <1>1. \A t \in Track : t \in Int /\ ab[t] \in Int /\ 0 <= t /\ t <= Tracks - 1
    BY InterleaverAssumption DEF Track
  <1>2. ma[u] = na[u] + TickLen /\ \A t \in Track \ {u} : ma[t] = na[t]
    BY DEF Moves
  <1>3. ASSUME NEW t \in Track
        PROVE  ma[t] = (IF k <= t THEN later ELSE later + TickLen) - ab[t]
    <2>1. na[t] = (IF u <= t THEN tau ELSE tau + TickLen) - ab[t]
      BY DEF Turns
    <2>2. PICK a \in Int : a = ab[t]
      OBVIOUS
    <2>3. CASE t = u
      <3>1. na[t] = tau - a
        BY <1>1, <2>1, <2>2, <2>3
      <3>2. ma[t] = tau - a + TickLen
        BY <1>2, <2>3, <3>1
      <3>3. (IF k <= t THEN later ELSE later + TickLen) = tau + TickLen
        BY <1>1, <2>3 DEF Passed
      <3>4. tau - a + TickLen = (tau + TickLen) - a
        BY Lengths
      <3>5. QED
        BY <2>2, <3>2, <3>3, <3>4
    <2>4. CASE t # u
      <3>1. ma[t] = na[t]
        BY <1>2, <2>4
      <3>2. (IF k <= t THEN later ELSE later + TickLen)
               = IF u <= t THEN tau ELSE tau + TickLen
        <4>1. t \in Int /\ u \in Int /\ 0 <= t /\ t <= Tracks - 1 /\ Tracks \in Int
          BY <1>1, InterleaverAssumption
        <4>2. CASE u = Tracks - 1 /\ k = 0 /\ later = tau + TickLen
          BY <2>4, <4>1, <4>2
        <4>3. CASE u # Tracks - 1 /\ k = u + 1 /\ later = tau
          BY <2>4, <4>1, <4>3
        <4>4. QED
          BY <4>2, <4>3 DEF Passed
      <3>3. QED
        BY <2>1, <3>1, <3>2
    <2>5. QED
      BY <2>3, <2>4
  <1>4. QED
    BY <1>3 DEF Turns

(* The audio thread's step.                                                *)
LEMMA AudioKeeps == IInv /\ AudioPacket => IInv'
  <1> SUFFICES ASSUME IInv, AudioPacket PROVE IInv'
    OBVIOUS
  <1>1. /\ Types /\ InTurn
        /\ Flow(interleaved_packets, sent, highest_audio_ts, highest_video_ts,
                NextVideo, NextAudio)
        /\ (~Started => sent = <<>> /\ Waiting(interleaved_packets, NextAudio))
    BY IInvParts
  <1>2. PICK time \in Nat, u \in Track : time = tick /\ u = track
    BY <1>1 DEF Types
  <1>3. PICK packet : packet = Audio(time, u)
    OBVIOUS
  <1>4. PICK out : out = IF Started THEN Shifted(packet, video_offset, audio_offsets)
                         ELSE packet
    OBVIOUS
  <1>5. PICK ab \in [Track -> Int], na \in [Track -> Int] :
           /\ \A t \in Track : ab[t] = AudioBase(t)
           /\ na = NextAudio /\ Ordered(ab) /\ Turns(na, ab, u, time)
    BY <1>1, <1>2, AudioNow
  <1>6. /\ packet \in Packet /\ out \in Packet /\ out.type = "audio" /\ out.track_idx = u
        /\ out.dts_usec = na[u] /\ (~Started => Unshifted(out) /\ out.dts_usec = time)
    BY <1>1, <1>2, <1>3, <1>4, <1>5, AudioOut
  <1>7. PICK nv \in Int, vb \in Int, vt \in Nat :
           nv = NextVideo /\ vb = VideoBase /\ vt = video_time /\ nv = vt - vb
    <2>1. video_time \in Int /\ NextVideo = video_time - VideoBase
      BY <1>1 DEF Types, NextVideo
    <2>2. NextVideo \in Int /\ VideoBase \in Int
      BY <1>1, <2>1, VideoOut
    <2>3. QED
      BY <1>1, <2>1, <2>2 DEF Types
  <1>8. PICK was \in Seq(Packet), gone \in Seq(Packet), oa \in Int, ov \in Int :
           /\ was = interleaved_packets /\ gone = sent
           /\ oa = highest_audio_ts /\ ov = highest_video_ts
    BY <1>1, IInvParts
  <1>9. Flow(was, gone, oa, ov, nv, na) /\ InOrder(was)
    BY <1>1, <1>5, <1>7, <1>8 DEF Flow
  <1>10. PICK l \in 1 .. Len(was) + 1 : Inserts(Insert(was, out), was, out, l)
    BY <1>6, Inserted
  <1>11. l \in Nat
    BY LenProperties
  <1>12. PICK q \in Seq(Packet) : q = Insert(was, out) /\ q # <<>> /\ Inserts(q, was, out, l)
    <2>1. Insert(was, out) \in Seq(Packet) /\ Len(Insert(was, out)) = Len(was) + 1
      BY <1>10 DEF Inserts
    <2>2. Len(was) + 1 # 0
      BY LenProperties
    <2>3. QED
      BY <1>10, <2>1, <2>2, EmptySeq
  <1>13. PICK ha \in Int : ha = Higher(oa, out, "audio")
    BY <1>6 DEF Higher, Packet
  <1>14. ov = Higher(ov, out, "video")
    BY <1>6 DEF Higher
  <1>15. PICK ma \in [Track -> Int] : Moves(ma, na, u)
    <2>1. na[u] + TickLen \in Int
      BY Lengths
    <2>2. PICK m : m = [na EXCEPT ![u] = na[u] + TickLen]
      OBVIOUS
    <2>3. m \in [Track -> Int] /\ m[u] = na[u] + TickLen
          /\ \A t \in Track \ {u} : m[t] = na[t]
      BY ONLY <2>1, <2>2, na \in [Track -> Int], u \in Track
    <2>4. QED
      BY <2>3 DEF Moves
  <1>16. /\ tick >= audio_start[track]
         /\ IF track = Tracks - 1 THEN track' = 0 /\ tick' = tick + TickLen
                                  ELSE track' = track + 1 /\ tick' = tick
         /\ video_start' = video_start /\ audio_start' = audio_start
         /\ video_time' = video_time
    <2>1. audio_start[track] = TickLen /\ tick >= TickLen
      BY <1>1 DEF Types
    <2>2. QED
      BY <2>1 DEF AudioPacket
  <1>17. InterleavePacket(packet)
    BY <1>2, <1>3, <1>16 DEF AudioPacket
  <1>18. PICK k \in Track, later \in Nat :
            /\ k = track' /\ later = tick' /\ later >= TickLen
            /\ \/ u = Tracks - 1 /\ k = 0 /\ later = time + TickLen
               \/ u # Tracks - 1 /\ k = u + 1 /\ later = time
    <2>1. time \in Nat /\ time >= TickLen
      BY <1>1, <1>2 DEF Types
    <2>2. CASE u = Tracks - 1
      <3>1. track' = 0 /\ tick' = time + TickLen
        BY <1>2, <1>16, <2>2
      <3>2. 0 \in Track /\ time + TickLen \in Nat /\ time + TickLen >= TickLen
        BY <2>1, Lengths, InterleaverAssumption DEF Track
      <3>3. QED
        BY <2>2, <3>1, <3>2
    <2>3. CASE u # Tracks - 1
      <3>1. track' = u + 1 /\ tick' = time
        BY <1>2, <1>16, <2>3
      <3>2. u + 1 \in Track
        BY <2>3, InterleaverAssumption DEF Track
      <3>3. QED
        BY <2>1, <2>3, <3>1, <3>2
    <2>4. QED
      BY <2>2, <2>3
  <1>19. Turns(ma, ab, k, later)
    <2>1. Turns(na, ab, u, time) /\ time \in Int /\ later \in Int
      BY <1>5
    <2>2. Passed(u, time, k, later)
      BY <1>18 DEF Passed
    <2>3. QED
      BY ONLY <1>15, <2>1, <2>2, NextTurn, ab \in [Track -> Int], na \in [Track -> Int],
              u \in Track, k \in Track, ma \in [Track -> Int]
  <1>20. \A t \in Track : na[u] <= na[t]
    <2>1. Turns(na, ab, u, time) /\ Ordered(ab) /\ time \in Int
      BY <1>5
    <2>2. QED
      BY ONLY <2>1, Rotation, ab \in [Track -> Int], na \in [Track -> Int], u \in Track
  <1>21. Flow(q, gone, ha, ov, nv, ma)
    <2>1. ma[u] = na[u] + TickLen /\ \A t \in Track \ {u} : ma[t] = na[t]
      BY <1>15 DEF Moves
    <2>2. QED
      BY <1>6, <1>9, <1>11, <1>12, <1>13, <1>20, <2>1, AudioFlow
  <1>22. ~Started => gone = <<>> /\ Waiting(q, ma)
    <2> SUFFICES ASSUME ~Started PROVE gone = <<>> /\ Waiting(q, ma)
      OBVIOUS
    <2>1. gone = <<>> /\ Waiting(was, na)
      BY <1>1, <1>5, <1>8
    <2>2. InTick(na, u, time)
      <3>1. \A t \in Track : ab[t] = 0
        BY <1>5 DEF AudioBase
      <3>2. QED
        BY <1>5, <3>1, Lengths DEF Turns, InTick
    <2>3. Unshifted(out) /\ out.dts_usec = time
      BY <1>6
    <2>4. \A i \in DOMAIN was : Behind(was[i], nv, na)
      BY <1>9 DEF Flow
    <2>5. Waiting(q, ma)
      <3>1. time \in Int
        OBVIOUS
      <3>2. QED
        BY ONLY <1>6, <1>9, <1>11, <1>12, <1>15, <2>1, <2>2, <2>3, <2>4, <3>1,
                AudioWaits, was \in Seq(Packet), nv \in Int, na \in [Track -> Int],
                ma \in [Track -> Int], u \in Track
    <2>6. QED
      BY <2>1, <2>5
  <1>23. Kept'
    <2>1. k = track' /\ later = tick' /\ vt = video_time'
      BY <1>7, <1>16, <1>18
    <2>2. /\ ha = Higher(highest_audio_ts, out, "audio")
          /\ ov = Higher(highest_video_ts, out, "video")
      BY <1>8, <1>13, <1>14
    <2>3. q = Insert(interleaved_packets, out)
      BY <1>8, <1>12
    <2>4. Flow(q, sent, ha, ov, nv, ma) /\ (~Started => sent = <<>> /\ Waiting(q, ma))
      BY <1>8, <1>21, <1>22
    <2>5. later \in Int /\ vt \in Int
      OBVIOUS
    <2>6. /\ out = IF Started THEN Shifted(packet, video_offset, audio_offsets) ELSE packet
          /\ \A t \in Track : ab[t] = AudioBase(t)
          /\ vb = VideoBase /\ nv = vt - vb
      BY <1>4, <1>5, <1>7
    <2>7. QED
      BY ONLY <1>1, <1>6, <1>12, <1>16, <1>17, <1>19, <2>1, <2>2, <2>3, <2>4, <2>5, <2>6,
              PacketKeeps, q \in Seq(Packet), ha \in Int, ov \in Int, k \in Track,
              vb \in Int, nv \in Int, ab \in [Track -> Int], ma \in [Track -> Int]
  <1>24. EncoderTypes'
    <2>1. EncoderTypes
      BY <1>1, IInvParts
    <2>2. QED
      BY <1>16, <1>18, <2>1 DEF EncoderTypes
  <1>25. received_audio' \in BOOLEAN /\ received_video' \in BOOLEAN
    BY <1>1, <1>17, IInvParts, ReceivedKept
  <1>26. QED
    BY Zenon, <1>23, <1>24, <1>25, KeptIs

(* An empty queue before the start.                                        *)
LEMMA EmptyFlow ==
    ASSUME NEW nv \in Nat, NEW na \in [Track -> Int], NEW k \in Track, NEW tau \in Nat,
           InTick(na, k, tau)
    PROVE  Flow(<<>>, <<>>, 0, 0, nv, na) /\ Waiting(<<>>, na)
  <1>1. DOMAIN <<>> = {}
    OBVIOUS
  <1>2. \A t \in Track : na[t] \in {tau, tau + TickLen} /\ 0 <= na[t]
    BY Lengths DEF InTick
  <1>3. \A t, u \in Track : na[t] <= na[u] + TickLen
    BY <1>2, Lengths
  <1>4. Flow(<<>>, <<>>, 0, 0, nv, na)
    BY <1>1, <1>2, <1>3 DEF Flow, InOrder
  <1>5. Waiting(<<>>, na)
    BY <1>1 DEF Waiting
  <1>6. QED
    BY <1>4, <1>5

(* A new capture.                                                          *)
LEMMA RestartKeeps == IInv /\ Restart => IInv'
  <1> SUFFICES ASSUME IInv, Restart PROVE IInv'
    OBVIOUS
  <1>1. Types
    BY DEF IInv
  <1>2. /\ received_audio' = FALSE /\ received_video' = FALSE
        /\ highest_audio_ts' = 0 /\ highest_video_ts' = 0
        /\ video_offset' = 0 /\ audio_offsets' = [audio_offsets EXCEPT ![0] = 0]
        /\ interleaved_packets' = <<>> /\ sent' = <<>>
        /\ video_start' = video_start /\ audio_start' = audio_start
        /\ video_time' = video_time /\ tick' = tick /\ track' = track
    BY DEF Restart, AfterReset, encoders
  <1>3. ~Started'
    BY <1>2 DEF Started
  <1>4. PICK time \in Nat, tau \in Nat, k \in Track :
            time = video_time' /\ tau = tick' /\ k = track'
    BY <1>1, <1>2 DEF Types
  <1>5. PICK ma \in [Track -> Int] : InTick(ma, k, tau)
    <2>1. [t \in Track |-> IF k <= t THEN tau ELSE tau + TickLen] \in [Track -> Int]
      BY Lengths
    <2>2. QED
      BY <2>1 DEF InTick
  <1>6. Flow(<<>>, <<>>, 0, 0, time, ma) /\ Waiting(<<>>, ma)
    BY <1>5, EmptyFlow
  <1>7. PICK aoff \in [Track -> Int] : audio_offsets' = aoff
    <2>1. audio_offsets \in [Track -> Int]
      BY <1>1 DEF Types
    <2>2. PICK a \in [Track -> Int] : a = audio_offsets
      BY <2>1
    <2>3. 0 \in Track
      BY InterleaverAssumption DEF Track
    <2>4. [a EXCEPT ![0] = 0] \in [Track -> Int]
      BY ONLY <2>3, a \in [Track -> Int]
    <2>5. QED
      BY <1>2, <2>2, <2>4
  <1>8. PICK q \in Seq(Packet) : q = <<>>
    BY EmptySeq
  <1>9. Kept'
    <2>1. PICK zero \in Int : zero = 0
      OBVIOUS
    <2>2. Flow(q, <<>>, zero, zero, time, ma) /\ Waiting(q, ma)
      BY <1>6, <1>8, <2>1
    <2>3. /\ interleaved_packets' = q /\ highest_audio_ts' = zero
          /\ highest_video_ts' = zero /\ video_offset' = zero
      BY <1>2, <1>8, <2>1
    <2>4. time \in Int /\ tau \in Int
      OBVIOUS
    <2>5. QED
      BY ONLY <1>2, <1>3, <1>4, <1>5, <1>7, <2>2, <2>3, <2>4, WaitingKeeps,
              q \in Seq(Packet), zero \in Int, k \in Track, ma \in [Track -> Int],
              aoff \in [Track -> Int]
  <1>10. EncoderTypes'
    <2>1. EncoderTypes
      BY <1>1, IInvParts
    <2>2. QED
      BY <1>2, <2>1 DEF EncoderTypes
  <1>11. received_audio' \in BOOLEAN /\ received_video' \in BOOLEAN
    BY Zenon, <1>2
  <1>12. QED
    BY Zenon, <1>9, <1>10, <1>11, KeptIs

(* At the beginning.                                                       *)
LEMMA InitIInv == OneBegin /\ Init => IInv
  <1> SUFFICES ASSUME OneBegin, Init PROVE IInv
    OBVIOUS
  <1>1. audio_start = [t \in Track |-> TickLen]
    <2>1. PICK late \in [Track -> LateStarts] :
              /\ late[0] = 0
              /\ audio_start = [t \in Track |-> TickLen * (1 + late[t])]
      BY DEF Init
    <2>2. \A t \in Track : late[t] = 0
      <3>1. CASE LateStarts = {0}
        BY <3>1
      <3>2. CASE Tracks = 1
        BY <2>1, <3>2 DEF Track
      <3>3. QED
        BY <3>1, <3>2 DEF OneBegin
    <2>3. \A t \in Track : TickLen * (1 + late[t]) = TickLen
      BY <2>2, Lengths
    <2>4. QED
      BY <2>1, <2>3
  <1>2. 0 \in Track
    BY InterleaverAssumption DEF Track
  <1>3. EncoderTypes
    <2>1. video_start \in Nat
      BY InterleaverAssumption DEF Init
    <2>2. QED
      BY <1>1, <1>2, <2>1, Lengths DEF Init, EncoderTypes
  <1>4. audio_offsets \in [Track -> Int]
    BY DEF Init
  <1>5. Types
    <2>1. received_audio \in BOOLEAN /\ received_video \in BOOLEAN
      BY Zenon DEF Init
    <2>2. interleaved_packets \in Seq(Packet) /\ sent \in Seq(Packet)
      BY EmptySeq DEF Init
    <2>3. QED
      BY <1>3, <1>4, <2>1, <2>2 DEF Init, Types, EncoderTypes
  <1>6. ~Started
    BY DEF Init, Started
  <1>7. PICK time \in Nat, tau \in Nat, k \in Track :
            time = video_time /\ tau = tick /\ k = track
    BY <1>3 DEF EncoderTypes
  <1>8. PICK ma \in [Track -> Int] : InTick(ma, k, tau) /\ NextAudio = ma
    <2>1. PICK m : m = [t \in Track |-> IF k <= t THEN tau ELSE tau + TickLen]
      OBVIOUS
    <2>2. m \in [Track -> Int] /\ \A t \in Track : m[t] = IF k <= t THEN tau ELSE tau + TickLen
      BY <2>1, Lengths
    <2>3. \A t \in Track : NextTick(t) - AudioBase(t) = m[t]
      BY <1>6, <1>7, <2>2, Lengths DEF NextTick, AudioBase
    <2>4. NextAudio = m
      BY <2>1, <2>2, <2>3 DEF NextAudio
    <2>5. QED
      BY <2>2, <2>4 DEF InTick
  <1>9. Flow(<<>>, <<>>, 0, 0, time, ma) /\ Waiting(<<>>, ma)
    BY <1>8, EmptyFlow
  <1>10. NextVideo = time
    <2>1. NextVideo = time - 0
      BY <1>6, <1>7 DEF NextVideo, VideoBase
    <2>2. QED
      BY <2>1
  <1>11. InTurn
    BY <1>6, Lengths DEF InTurn, AudioBase
  <1>12. QED
    BY <1>5, <1>8, <1>9, <1>10, <1>11 DEF Init, IInv

(* Nothing happens.                                                        *)
LEMMA StutterKeeps == IInv /\ UNCHANGED vars => IInv'
  <1> SUFFICES ASSUME IInv, UNCHANGED vars PROVE IInv'
    OBVIOUS
  <1>1. UNCHANGED <<interleaved_packets, received_audio, received_video, highest_audio_ts,
                    highest_video_ts, video_offset, audio_offsets, video_start, audio_start,
                    video_time, tick, track, sent>>
    BY DEF vars, encoders
  <1>2. Types'
    BY <1>1 DEF IInv, Types
  <1>3. Started' = Started
    BY Zenon, <1>1 DEF Started
  <1>4. VideoBase' = VideoBase /\ \A t \in Track : AudioBase(t)' = AudioBase(t)
    BY Zenon, <1>1, <1>3 DEF VideoBase, AudioBase
  <1>5. NextVideo' = NextVideo
    BY Zenon, <1>1, <1>4 DEF NextVideo
  <1>6. NextAudio' = NextAudio
    <2>1. \A t \in Track : NextTick(t)' = NextTick(t)
      BY Zenon, <1>1 DEF NextTick
    <2>2. QED
      BY <1>4, <2>1 DEF NextAudio
  <1>7. InTurn'
    BY <1>4 DEF IInv, InTurn
  <1>8. Flow(interleaved_packets, sent, highest_audio_ts, highest_video_ts,
             NextVideo, NextAudio)'
    BY <1>1, <1>5, <1>6 DEF IInv
  <1>9. (~Started => sent = <<>> /\ Waiting(interleaved_packets, NextAudio))'
    <2> SUFFICES ASSUME ~Started' PROVE sent' = <<>> /\ Waiting(interleaved_packets, NextAudio)'
      OBVIOUS
    <2>1. sent = <<>> /\ Waiting(interleaved_packets, NextAudio)
      BY <1>3 DEF IInv
    <2>2. \A p : Unshifted(p)' = Unshifted(p)
      BY Zenon, <1>1 DEF Unshifted
    <2>3. QED
      BY <1>1, <1>6, <2>1, <2>2 DEF Waiting
  <1>10. QED
    BY <1>2, <1>7, <1>8, <1>9 DEF IInv

-----------------------------------------------------------------------------
(* The invariant holds.                                                    *)
LEMMA Invariance == OneBegin /\ Spec => []IInv
  <1>1. IInv /\ [Next]_vars => IInv'
    BY VideoKeeps, AudioKeeps, RestartKeeps, StutterKeeps DEF Next
  <1>2. QED
    BY <1>1, InitIInv, PTL DEF Spec

(* The output gets the packets in the order of their timestamps: what      *)
(* send_interleaved lets go is before all that is queued and all that the  *)
(* encoders will still give.                                               *)
THEOREM MonotonicHolds == OneBegin /\ Spec => []Monotonic
  <1>1. IInv => Monotonic
    <2> SUFFICES ASSUME IInv PROVE Monotonic
      OBVIOUS
    <2>1. sent \in Seq(Packet) /\ InOrder(sent)
      BY DEF IInv, Types, Flow
    <2>2. PICK n \in Nat : n = Len(sent) /\ DOMAIN sent = 1 .. n
      BY <2>1, LenProperties
    <2>3. \A i \in 1 .. n - 1 : i \in 1 .. n /\ i + 1 \in 1 .. n /\ i < i + 1
      OBVIOUS
    <2>4. QED
      BY <2>1, <2>2, <2>3 DEF InOrder, Monotonic
  <1>2. QED
    BY <1>1, Invariance, PTL

(***************************************************************************)
(* No stream loses a packet, and the tracks are in step.  This holds       *)
(* whenever the audio encoders begin, so it has an invariant of its own,   *)
(* about the streams one by one.                                           *)
(***************************************************************************)
Same(p, r) == p.type = r.type /\ p.track_idx = r.track_idx
Length(p) == IF p.type = "video" THEN FrameLen ELSE TickLen

(* No packet of the stream of a[i] is before it.                           *)
First(a, i) == \A j \in DOMAIN a : j < i => ~Same(a[j], a[i])

(* The packets of a stream are apart by the length of one at least, and    *)
(* each is behind the one before it by just that.                          *)
Spaced(a) ==
    \A i, j \in DOMAIN a :
        i < j /\ Same(a[i], a[j]) => a[i].dts_usec + Length(a[j]) <= a[j].dts_usec

Follows(r, p) == Same(r, p) /\ r.dts_usec + Length(p) = p.dts_usec

Linked(a) ==
    \A i \in DOMAIN a : First(a, i) \/ \E j \in DOMAIN a : j < i /\ Follows(a[j], a[i])

Chain(a) == Spaced(a) /\ Linked(a)

(* The first packet of a stream is at 0.                                   *)
FromZero(a) ==
    \A i \in DOMAIN a : a[i].dts_usec >= 0 /\ (First(a, i) => a[i].dts_usec = 0)

(* The packets of a stream end where its next packet will be.              *)
After(p, nv, na) == IF p.type = "video" THEN nv ELSE na[p.track_idx]

Ends(r, p, nv, na) == Same(r, p) /\ r.dts_usec + Length(p) = After(p, nv, na)

Latest(a, nv, na) ==
    \A i \in DOMAIN a : /\ a[i].dts_usec + Length(a[i]) <= After(a[i], nv, na)
                        /\ \E j \in DOMAIN a : Ends(a[j], a[i], nv, na)

(* Video has one track.                                                    *)
Tracked(a) == \A i \in DOMAIN a : a[i].type = "video" => a[i].track_idx = 0

Everyone(a) == Has(a, "video", 0) /\ \A t \in Track : Has(a, "audio", t)

(* After the start.                                                        *)
Runs(a, nv, na) ==
    Chain(a) /\ FromZero(a) /\ Latest(a, nv, na) /\ Everyone(a) /\ Tracked(a)

(* Before it: a track that was heard not later than the first video packet *)
(* has a packet within a tick of that one, or will have it next.           *)
Within(q, t, time) ==
    \E j \in DOMAIN q : q[j].type = "audio" /\ q[j].track_idx = t /\ q[j].dts_usec <= time

Reaches(q, na, hd, t) ==
    /\ hd[t] = Never => ~Has(q, "audio", t)
    /\ hd[t] # Never /\ ~Has(q, "video", 0) => HasAudio(q, t, hd[t])
    /\ \A i \in DOMAIN q :
          q[i].type = "video" /\ First(q, i) /\ hd[t] # Never /\ hd[t] <= q[i].dts_usec
          => na[t] <= q[i].dts_usec + TickLen \/ Within(q, t, q[i].dts_usec + TickLen)

Waits(q, nv, na, hd) ==
    /\ Chain(q) /\ Latest(q, nv, na) /\ Tracked(q)
    /\ \A i \in DOMAIN q : Unshifted(q[i]) /\ q[i].dts_usec >= 0
    /\ \A t \in Track : Reaches(q, na, hd, t)

Below(q, ha, hv) ==
    \A i \in DOMAIN q : q[i].dts_usec <= (IF q[i].type = "video" THEN hv ELSE ha)

(* What a track was first heard with.                                      *)
Heard ==
    \A t \in Track :
        heard[t] = Never \/ /\ heard[t] <= MaxTime /\ audio_start[t] <= heard[t]
                            /\ heard[t] + TickLen <= NextTick(t)

All == sent \o interleaved_packets

-----------------------------------------------------------------------------
(* Packets and their streams.                                              *)
LEMMA PacketIs ==
    /\ \A p \in Packet : /\ p.dts_usec \in Int /\ p.dts \in Int
                         /\ p.type \in {"video", "audio"} /\ p.track_idx \in Track
                         /\ Length(p) \in Int /\ Length(p) > 0
    /\ TickLen \in Int /\ TickLen > 0 /\ FrameLen \in Int /\ FrameLen > 0
  BY Lengths DEF Packet, Length

(* The packets of one stream have a length and a next packet.              *)
LEMMA SameIs ==
    ASSUME NEW p, NEW r, Same(p, r)
    PROVE  /\ Same(r, p) /\ Length(p) = Length(r)
           /\ \A s : Same(r, s) => Same(p, s)
           /\ \A s : Same(s, p) => Same(s, r)
           /\ \A nv, na : After(p, nv, na) = After(r, nv, na)
  BY DEF Same, Length, After

(* A packet is put at the place m of a sequence.                           *)
Puts(b, a, p, m) ==
    /\ b \in Seq(Packet) /\ Len(b) = Len(a) + 1 /\ m \in 1 .. Len(a) + 1
    /\ b[m] = p
    /\ \A i \in 1 .. m - 1 : b[i] = a[i]
    /\ \A i \in m + 1 .. Len(a) + 1 : b[i] = a[i - 1]

(* Where the others are then.                                              *)
Place(i, m) == IF i < m THEN i ELSE i + 1

LEMMA PutsIs ==
    ASSUME NEW a \in Seq(Packet), NEW p \in Packet, NEW b, NEW m \in Nat, Puts(b, a, p, m)
    PROVE  /\ b \in Seq(Packet) /\ m \in DOMAIN b /\ b[m] = p
           /\ \A i \in DOMAIN a : i \in Nat /\ a[i] \in Packet
           /\ \A i \in DOMAIN b : i \in Nat /\ b[i] \in Packet
           /\ \A i \in DOMAIN a : /\ Place(i, m) \in DOMAIN b /\ b[Place(i, m)] = a[i]
                                  /\ Place(i, m) < m <=> i < m
                                  /\ Place(i, m) > m <=> i >= m
           /\ \A i, j \in DOMAIN a : i < j <=> Place(i, m) < Place(j, m)
           /\ \A i \in DOMAIN b : i = m \/ \E j \in DOMAIN a : i = Place(j, m)
  <1>1. PICK n \in Nat : n = Len(a) /\ DOMAIN a = 1 .. n
    BY LenProperties
  <1>2. DOMAIN b = 1 .. n + 1 /\ m \in 1 .. n + 1 /\ b[m] = p /\ b \in Seq(Packet)
    BY <1>1, LenProperties DEF Puts
  <1>3. /\ \A i \in 1 .. m - 1 : b[i] = a[i]
        /\ \A i \in m + 1 .. n + 1 : b[i] = a[i - 1]
    BY <1>1 DEF Puts
  <1>4. ASSUME NEW i \in 1 .. n
        PROVE  /\ Place(i, m) \in 1 .. n + 1 /\ b[Place(i, m)] = a[i]
               /\ Place(i, m) < m <=> i < m
               /\ Place(i, m) > m <=> i >= m
    <2>1. CASE i < m
      <3>1. i \in 1 .. m - 1 /\ Place(i, m) = i
        BY <1>2, <2>1 DEF Place
      <3>2. QED
        BY <1>2, <1>3, <2>1, <3>1
    <2>2. CASE i >= m
      <3>1. i + 1 \in m + 1 .. n + 1 /\ (i + 1) - 1 = i /\ Place(i, m) = i + 1
        BY <1>2, <2>2 DEF Place
      <3>2. b[i + 1] = a[i]
        BY <1>3, <3>1
      <3>3. QED
        BY <1>2, <2>2, <3>1, <3>2
    <2>3. QED
      BY <1>2, <2>1, <2>2
  <1>5. \A i, j \in 1 .. n : i < j <=> Place(i, m) < Place(j, m)
    BY <1>2 DEF Place
  <1>6. ASSUME NEW i \in 1 .. n + 1, i # m PROVE \E j \in 1 .. n : i = Place(j, m)
    <2>1. CASE i < m
      BY <1>2, <2>1 DEF Place
    <2>2. CASE i > m
      <3>1. i - 1 \in 1 .. n /\ ~(i - 1 < m) /\ (i - 1) + 1 = i
        BY <1>2, <2>2
      <3>2. QED
        BY <3>1 DEF Place
    <2>3. QED
      BY <1>2, <1>6, <2>1, <2>2
  <1>7. \A i \in DOMAIN a : i \in Nat /\ a[i] \in Packet
    BY <1>1, TimesAreInts
  <1>8. \A i \in DOMAIN b : i \in Nat /\ b[i] \in Packet
    BY <1>2, TimesAreInts
  <1>9. QED
    BY <1>1, <1>2, <1>4, <1>5, <1>6, <1>7, <1>8

(* The new packet is behind all of its stream, by the length of one.       *)
Joins(a, p, m) ==
    /\ \A i \in DOMAIN a :
          Same(a[i], p) => i < m /\ a[i].dts_usec + Length(p) <= p.dts_usec
    /\ (\A i \in DOMAIN a : ~Same(a[i], p)) \/ \E i \in DOMAIN a : Follows(a[i], p)

(* So the streams stay chains.                                             *)
LEMMA PutsFirst ==
    ASSUME NEW a \in Seq(Packet), NEW p \in Packet, NEW b, NEW m \in Nat,
           Puts(b, a, p, m), Joins(a, p, m)
    PROVE  /\ \A i \in DOMAIN a : First(b, Place(i, m)) <=> First(a, i)
           /\ First(b, m) <=> \A i \in DOMAIN a : ~Same(a[i], p)
  <1> USE PutsIs
  <1>1. ASSUME NEW i \in DOMAIN a, First(b, Place(i, m)) PROVE First(a, i)
    BY <1>1 DEF First
  <1>2. ASSUME NEW i \in DOMAIN a, First(a, i) PROVE First(b, Place(i, m))
    <2> SUFFICES ASSUME NEW j \in DOMAIN b, j < Place(i, m), Same(b[j], b[Place(i, m)])
                 PROVE  FALSE
      BY DEF First
    <2>1. CASE j = m
      <3>1. Same(p, a[i]) /\ i >= m
        BY <2>1
      <3>2. i < m
        BY <3>1, SameIs DEF Joins
      <3>3. QED
        BY <3>1, <3>2
    <2>2. ASSUME NEW k \in DOMAIN a, j = Place(k, m) PROVE FALSE
      BY <1>2, <2>2 DEF First
    <2>3. QED
      BY <2>1, <2>2
  <1>3. ASSUME First(b, m), NEW i \in DOMAIN a PROVE ~Same(a[i], p)
    BY <1>3 DEF First, Joins
  <1>4. ASSUME \A i \in DOMAIN a : ~Same(a[i], p) PROVE First(b, m)
    <2> SUFFICES ASSUME NEW j \in DOMAIN b, j < m PROVE ~Same(b[j], b[m])
      BY DEF First
    <2>1. PICK k \in DOMAIN a : j = Place(k, m)
      OBVIOUS
    <2>2. QED
      BY <1>4, <2>1
  <1>5. QED
    BY <1>1, <1>2, <1>3, <1>4

LEMMA PutsChain ==
    ASSUME NEW a \in Seq(Packet), NEW p \in Packet, NEW b, NEW m \in Nat,
           Puts(b, a, p, m), Joins(a, p, m), Chain(a)
    PROVE  Chain(b)
  <1> USE PutsIs
  <1>1. ASSUME NEW i \in DOMAIN b, NEW j \in DOMAIN b, i < j, Same(b[i], b[j])
        PROVE  b[i].dts_usec + Length(b[j]) <= b[j].dts_usec
    <2>1. CASE j = m
      <3>1. PICK k \in DOMAIN a : i = Place(k, m)
        BY <1>1, <2>1
      <3>2. b[i] = a[k] /\ b[j] = p /\ Same(a[k], p)
        BY <1>1, <2>1, <3>1
      <3>3. a[k].dts_usec + Length(p) <= p.dts_usec
        BY <3>2 DEF Joins
      <3>4. QED
        BY <3>2, <3>3
    <2>2. ASSUME i = m, NEW k \in DOMAIN a, j = Place(k, m) PROVE FALSE
      <3>1. Same(p, a[k]) /\ k >= m
        BY <1>1, <2>2
      <3>2. k < m
        BY <3>1, SameIs DEF Joins
      <3>3. QED
        BY <3>1, <3>2
    <2>3. ASSUME NEW k \in DOMAIN a, NEW l \in DOMAIN a, i = Place(k, m), j = Place(l, m)
          PROVE  b[i].dts_usec + Length(b[j]) <= b[j].dts_usec
      BY <1>1, <2>3 DEF Chain, Spaced
    <2>4. QED
      BY <1>1, <2>1, <2>2, <2>3
  <1>2. ASSUME NEW i \in DOMAIN b
        PROVE  First(b, i) \/ \E j \in DOMAIN b : j < i /\ Follows(b[j], b[i])
    <2>1. CASE i = m
      <3>1. CASE \A k \in DOMAIN a : ~Same(a[k], p)
        BY <2>1, <3>1, PutsFirst
      <3>2. ASSUME NEW k \in DOMAIN a, Follows(a[k], p)
            PROVE  \E j \in DOMAIN b : j < i /\ Follows(b[j], b[i])
        <4>1. k < m
          BY <3>2 DEF Joins, Follows
        <4>2. QED
          BY <2>1, <3>2, <4>1
      <3>3. QED
        BY <3>1, <3>2 DEF Joins
    <2>2. ASSUME NEW k \in DOMAIN a, i = Place(k, m)
          PROVE  First(b, i) \/ \E j \in DOMAIN b : j < i /\ Follows(b[j], b[i])
      <3>1. CASE First(a, k)
        BY <2>2, <3>1, PutsFirst
      <3>2. ASSUME NEW l \in DOMAIN a, l < k, Follows(a[l], a[k])
            PROVE  \E j \in DOMAIN b : j < i /\ Follows(b[j], b[i])
        <4>1. Place(l, m) < i /\ Follows(b[Place(l, m)], b[i])
          BY <2>2, <3>2
        <4>2. QED
          BY <4>1
      <3>3. QED
        BY <3>1, <3>2 DEF Chain, Linked
    <2>3. QED
      BY <2>1, <2>2
  <1>3. QED
    BY <1>1, <1>2 DEF Chain, Spaced, Linked

(* What is in b: the packets of a, and p.                                  *)
LEMMA PutsHas ==
    ASSUME NEW a \in Seq(Packet), NEW p \in Packet, NEW b, NEW m \in Nat, Puts(b, a, p, m)
    PROVE  /\ \A i \in DOMAIN b : b[i] = p \/ \E j \in DOMAIN a : b[i] = a[j]
           /\ \A j \in DOMAIN a : \E i \in DOMAIN b : b[i] = a[j]
           /\ \E i \in DOMAIN b : b[i] = p
           /\ \A type, t : Has(b, type, t) <=> \/ Has(a, type, t)
                                               \/ p.type = type /\ p.track_idx = t
  <1>1. /\ \A i \in DOMAIN b : b[i] = p \/ \E j \in DOMAIN a : b[i] = a[j]
        /\ \A j \in DOMAIN a : \E i \in DOMAIN b : b[i] = a[j]
        /\ \E i \in DOMAIN b : b[i] = p
    BY PutsIs
  <1>2. QED
    BY <1>1 DEF Has

(* A packet that its stream expects goes to the end of its stream.         *)
Moved(p, nv, na, mv, ma) ==
    /\ p.dts_usec = After(p, nv, na)
    /\ p.type = "video" => p.track_idx = 0
    /\ \A r \in Packet :
          (r.type = "video" => r.track_idx = 0) =>
              After(r, mv, ma) = IF Same(r, p) THEN p.dts_usec + Length(p)
                                               ELSE After(r, nv, na)

LEMMA LatestJoins ==
    ASSUME NEW a \in Seq(Packet), NEW p \in Packet, NEW m \in Nat,
           NEW nv, NEW na, Latest(a, nv, na), p.dts_usec = After(p, nv, na),
           \A i \in DOMAIN a : Same(a[i], p) => i < m
    PROVE  Joins(a, p, m)
  <1>1. ASSUME NEW i \in DOMAIN a, Same(a[i], p)
        PROVE  /\ a[i].dts_usec + Length(p) <= p.dts_usec
               /\ \E j \in DOMAIN a : Follows(a[j], p)
    <2>1. Length(a[i]) = Length(p) /\ After(a[i], nv, na) = p.dts_usec
      BY <1>1, SameIs
    <2>2. PICK j \in DOMAIN a : Ends(a[j], a[i], nv, na)
      BY DEF Latest
    <2>3. Same(a[j], p)
      BY <1>1, <2>2, SameIs DEF Ends
    <2>4. QED
      BY <2>1, <2>2, <2>3 DEF Latest, Ends, Follows
  <1>2. QED
    BY <1>1 DEF Joins

(* Its stream ends with it.                                                *)
LEMMA PutsLatest ==
    ASSUME NEW a \in Seq(Packet), NEW p \in Packet, NEW b, NEW m \in Nat,
           Puts(b, a, p, m), NEW nv, NEW na, Latest(a, nv, na), Tracked(a),
           NEW mv, NEW ma, Moved(p, nv, na, mv, ma)
    PROVE  Latest(b, mv, ma)
  <1>1. b \in Seq(Packet) /\ \A i \in DOMAIN b : b[i] \in Packet
    BY PutsIs
  <1>2. \A i \in DOMAIN a : a[i] \in Packet /\ (a[i].type = "video" => a[i].track_idx = 0)
    BY PutsIs DEF Tracked
  <1>3. PICK e \in DOMAIN b : b[e] = p
    BY PutsHas
  <1>4. Same(p, p) /\ After(p, mv, ma) = p.dts_usec + Length(p)
    BY DEF Same, Moved
  <1>5. ASSUME NEW i \in DOMAIN b
        PROVE  /\ b[i].dts_usec + Length(b[i]) <= After(b[i], mv, ma)
               /\ \E j \in DOMAIN b : Ends(b[j], b[i], mv, ma)
    <2>1. CASE b[i] = p
      <3>1. Ends(b[e], b[i], mv, ma)
        BY <1>3, <1>4, <2>1 DEF Ends
      <3>2. b[i].dts_usec + Length(b[i]) <= After(b[i], mv, ma)
        BY <1>4, <2>1, PacketIs
      <3>3. QED
        BY <3>1, <3>2
    <2>2. ASSUME NEW k \in DOMAIN a, b[i] = a[k], Same(a[k], p)
          PROVE  /\ b[i].dts_usec + Length(b[i]) <= After(b[i], mv, ma)
                 /\ \E j \in DOMAIN b : Ends(b[j], b[i], mv, ma)
      <3>1. /\ Length(a[k]) = Length(p) /\ After(a[k], nv, na) = p.dts_usec
            /\ After(a[k], mv, ma) = p.dts_usec + Length(p) /\ Same(p, a[k])
        BY <1>2, <2>2, SameIs DEF Moved
      <3>2. a[k].dts_usec + Length(p) <= p.dts_usec
        BY <3>1 DEF Latest
      <3>3. Ends(b[e], b[i], mv, ma)
        BY <1>3, <2>2, <3>1 DEF Ends
      <3>4. b[i].dts_usec + Length(b[i]) <= After(b[i], mv, ma)
        BY <1>2, <2>2, <3>1, <3>2, PacketIs
      <3>5. QED
        BY <3>3, <3>4
    <2>3. ASSUME NEW k \in DOMAIN a, b[i] = a[k], ~Same(a[k], p)
          PROVE  /\ b[i].dts_usec + Length(b[i]) <= After(b[i], mv, ma)
                 /\ \E j \in DOMAIN b : Ends(b[j], b[i], mv, ma)
      <3>1. After(a[k], mv, ma) = After(a[k], nv, na)
        BY <1>2, <2>3 DEF Moved
      <3>2. PICK l \in DOMAIN a : Ends(a[l], a[k], nv, na)
        BY DEF Latest
      <3>3. PICK j \in DOMAIN b : b[j] = a[l]
        BY PutsHas
      <3>4. Ends(b[j], b[i], mv, ma)
        BY <2>3, <3>1, <3>2, <3>3 DEF Ends
      <3>5. QED
        BY <2>3, <3>1, <3>4 DEF Latest
    <2>4. QED
      BY <2>1, <2>2, <2>3, PutsHas
  <1>6. QED
    BY <1>5 DEF Latest

(* After the start, the streams run on.                                    *)
LEMMA PutsFromZero ==
    ASSUME NEW a \in Seq(Packet), NEW p \in Packet, NEW b, NEW m \in Nat,
           Puts(b, a, p, m), Joins(a, p, m), FromZero(a), p.dts_usec >= 0,
           (\A i \in DOMAIN a : ~Same(a[i], p)) => p.dts_usec = 0
    PROVE  FromZero(b)
  <1>1. ASSUME NEW i \in DOMAIN b
        PROVE  b[i].dts_usec >= 0 /\ (First(b, i) => b[i].dts_usec = 0)
    <2>1. CASE i = m
      <3>1. b[i] = p
        BY <2>1, PutsIs
      <3>2. First(b, i) => \A k \in DOMAIN a : ~Same(a[k], p)
        BY <2>1, PutsFirst
      <3>3. QED
        BY <3>1, <3>2
    <2>2. ASSUME NEW k \in DOMAIN a, i = Place(k, m)
          PROVE  b[i].dts_usec >= 0 /\ (First(b, i) => b[i].dts_usec = 0)
      <3>1. b[i] = a[k]
        BY <2>2, PutsIs
      <3>2. First(b, i) => First(a, k)
        BY <2>2, PutsFirst
      <3>3. QED
        BY <3>1, <3>2 DEF FromZero
    <2>3. QED
      BY <2>1, <2>2, PutsIs
  <1>2. QED
    BY <1>1 DEF FromZero

LEMMA PutsTracked ==
    ASSUME NEW a \in Seq(Packet), NEW p \in Packet, NEW b, NEW m \in Nat, Puts(b, a, p, m),
           p.type = "video" => p.track_idx = 0, Tracked(a)
    PROVE  Tracked(b)
  <1>1. ASSUME NEW i \in DOMAIN b, b[i].type = "video" PROVE b[i].track_idx = 0
    BY <1>1, PutsHas DEF Tracked
  <1>2. QED
    BY <1>1 DEF Tracked

LEMMA PutsRuns ==
    ASSUME NEW a \in Seq(Packet), NEW p \in Packet, NEW b, NEW m \in Nat, Puts(b, a, p, m),
           \A i \in DOMAIN a : Same(a[i], p) => i < m,
           NEW nv, NEW na, Runs(a, nv, na),
           NEW mv, NEW ma, Moved(p, nv, na, mv, ma)
    PROVE  Runs(b, mv, ma)
  <1>1. Chain(a) /\ FromZero(a) /\ Latest(a, nv, na) /\ Everyone(a) /\ Tracked(a)
    BY DEF Runs
  <1>2. Joins(a, p, m)
    BY <1>1, LatestJoins DEF Moved
  <1>3. Chain(b) /\ Latest(b, mv, ma)
    BY <1>1, <1>2, PutsChain, PutsLatest
  <1>4. PICK i \in DOMAIN a : Same(a[i], p)
    <2>1. p.type \in {"video", "audio"} /\ p.track_idx \in Track
      BY PacketIs
    <2>2. CASE p.type = "video"
      BY <1>1, <2>2 DEF Everyone, Has, Same, Moved
    <2>3. CASE p.type = "audio"
      BY <1>1, <2>1, <2>3 DEF Everyone, Has, Same
    <2>4. QED
      BY <2>1, <2>2, <2>3
  <1>5. p.dts_usec >= 0
    <2>1. a[i].dts_usec >= 0 /\ a[i].dts_usec + Length(p) <= p.dts_usec
      BY <1>1, <1>2, <1>4 DEF FromZero, Joins
    <2>2. a[i] \in Packet
      BY PutsIs
    <2>3. QED
      BY <2>1, <2>2, PacketIs
  <1>6. FromZero(b)
    BY <1>1, <1>2, <1>4, <1>5, PutsFromZero
  <1>7. Everyone(b)
    BY <1>1, PutsHas DEF Everyone
  <1>8. Tracked(b)
    BY <1>1, PutsTracked DEF Moved
  <1>9. QED
    BY <1>3, <1>6, <1>7, <1>8 DEF Runs

-----------------------------------------------------------------------------
(* What was sent, followed by what is queued.                              *)
Joined(a, s, q, l, n) ==
    /\ a = s \o q /\ l = Len(s) /\ n = Len(q)
    /\ DOMAIN a = 1 .. l + n /\ DOMAIN s = 1 .. l /\ DOMAIN q = 1 .. n
    /\ Len(a) = l + n
    /\ \A i \in 1 .. l : i \in 1 .. l + n /\ a[i] = s[i]
    /\ \A i \in 1 .. n : l + i \in 1 .. l + n /\ a[l + i] = q[i]
    /\ \A i \in 1 .. l + n : i \in 1 .. l \/ \E j \in 1 .. n : i = l + j

LEMMA ConcatIs ==
    ASSUME NEW s \in Seq(Packet), NEW q \in Seq(Packet)
    PROVE  \E l \in Nat, n \in Nat, a \in Seq(Packet) : Joined(a, s, q, l, n)
  <1>1. PICK l \in Nat, n \in Nat : /\ l = Len(s) /\ DOMAIN s = 1 .. l
                                    /\ n = Len(q) /\ DOMAIN q = 1 .. n
    BY LenProperties
  <1>2. PICK a \in Seq(Packet) : a = s \o q
    BY ConcatProperties
  <1>3. Len(a) = l + n
    BY <1>1, <1>2, ConcatProperties
  <1>4. ASSUME NEW i \in 1 .. l + n PROVE a[i] = IF i <= l THEN s[i] ELSE q[i - l]
    <2>1. i \in 1 .. Len(s) + Len(q)
      BY <1>1
    <2>2. (s \o q)[i] = IF i <= Len(s) THEN s[i] ELSE q[i - Len(s)]
      BY ONLY <2>1, ConcatProperties, s \in Seq(Packet), q \in Seq(Packet)
    <2>3. QED
      BY <1>1, <1>2, <2>2
  <1>5. DOMAIN a = 1 .. l + n
    BY <1>3, LenProperties
  <1>6. ASSUME NEW i \in 1 .. l PROVE i \in 1 .. l + n /\ a[i] = s[i]
    BY <1>4
  <1>7. ASSUME NEW i \in 1 .. n PROVE l + i \in 1 .. l + n /\ a[l + i] = q[i]
    <2>1. l + i \in 1 .. l + n /\ ~(l + i <= l) /\ (l + i) - l = i
      OBVIOUS
    <2>2. QED
      BY <1>4, <2>1
  <1>8. ASSUME NEW i \in 1 .. l + n, i \notin 1 .. l PROVE \E j \in 1 .. n : i = l + j
    <2>1. i - l \in 1 .. n /\ i = l + (i - l)
      BY <1>8
    <2>2. QED
      BY <2>1
  <1>9. \A i \in 1 .. l + n : i \in 1 .. l \/ \E j \in 1 .. n : i = l + j
    BY <1>8
  <1>10. Joined(a, s, q, l, n)
    BY Zenon, <1>1, <1>2, <1>3, <1>5, <1>6, <1>7, <1>9 DEF Joined
  <1>11. QED
    BY <1>10

(* The lengths are known.                                                  *)
LEMMA JoinedExists ==
    ASSUME NEW s \in Seq(Packet), NEW q \in Seq(Packet), NEW l \in Nat, NEW n \in Nat,
           Len(s) = l, Len(q) = n
    PROVE  \E a \in Seq(Packet) : a = s \o q /\ Joined(a, s, q, l, n)
  <1>1. PICK i \in Nat, j \in Nat, a \in Seq(Packet) : Joined(a, s, q, i, j)
    BY ConcatIs
  <1>2. i = l /\ j = n /\ a = s \o q
    BY Zenon, <1>1 DEF Joined
  <1>3. QED
    BY Zenon, <1>1, <1>2

(* Inserting into the queue puts the packet behind what was sent.          *)
LEMMA ConcatPuts ==
    ASSUME NEW s \in Seq(Packet), NEW q \in Seq(Packet), NEW p \in Packet,
           NEW r \in Seq(Packet), NEW k \in Nat, Inserts(r, q, p, k),
           NEW l \in Nat, NEW n \in Nat, NEW a \in Seq(Packet), Joined(a, s, q, l, n),
           NEW b \in Seq(Packet), Joined(b, s, r, l, n + 1)
    PROVE  Puts(b, a, p, l + k)
  <1>1. /\ n = Len(q) /\ k \in 1 .. n + 1 /\ r[k] = p
    BY DEF Inserts, Joined
  <1>2. Len(a) = l + n /\ Len(b) = l + (n + 1)
    BY DEF Joined
  <1>3. /\ k \in 1 .. n + 1 /\ r[k] = p
    BY <1>1
  <1>4. /\ \A i \in 1 .. k - 1 : r[i] = q[i]
        /\ \A i \in k + 1 .. n + 1 : r[i] = q[i - 1]
    BY <1>1 DEF Inserts
  <1>5. PICK m \in Nat : m = l + k /\ m \in 1 .. (l + n) + 1
    BY <1>3
  <1>6. \A i \in 1 .. l : a[i] = s[i] /\ b[i] = s[i]
    BY DEF Joined
  <1>7. \A i \in 1 .. n : a[l + i] = q[i]
    BY <1>1 DEF Joined
  <1>8. \A i \in 1 .. n + 1 : b[l + i] = r[i]
    BY <1>2, <1>3 DEF Joined
  <1>9. b[m] = p
    BY <1>3, <1>5, <1>8
  <1>10. ASSUME NEW i \in 1 .. m - 1 PROVE b[i] = a[i]
    <2>1. CASE i \in 1 .. l
      BY <1>6, <2>1
    <2>2. CASE i \notin 1 .. l
      <3>1. PICK j \in Int : j = i - l
        OBVIOUS
      <3>2. j \in 1 .. k - 1 /\ j \in 1 .. n /\ j \in 1 .. n + 1 /\ i = l + j
        BY <1>3, <1>5, <2>2, <3>1
      <3>3. QED
        BY <1>4, <1>7, <1>8, <3>2
    <2>3. QED
      BY <2>1, <2>2
  <1>11. ASSUME NEW i \in m + 1 .. (l + n) + 1 PROVE b[i] = a[i - 1]
    <2>1. PICK j \in Int : j = i - l
      OBVIOUS
    <2>2. /\ j \in k + 1 .. n + 1 /\ j - 1 \in 1 .. n /\ j \in 1 .. n + 1
          /\ i = l + j /\ i - 1 = l + (j - 1)
      BY <1>3, <1>5, <2>1
    <2>3. PICK h \in 1 .. n : h = j - 1
      BY <2>2
    <2>4. b[i] = r[j] /\ a[i - 1] = q[h] /\ r[j] = q[h]
      <3>1. b[i] = r[j]
        BY <1>8, <2>2
      <3>2. a[i - 1] = q[h]
        BY <1>7, <2>2, <2>3
      <3>3. r[j] = q[h]
        BY <1>4, <2>2, <2>3
      <3>4. QED
        BY <3>1, <3>2, <3>3
    <2>5. QED
      BY <2>4
  <1>12. b \in Seq(Packet) /\ Len(b) = Len(a) + 1 /\ Len(a) = l + n
    BY <1>2
  <1>13. Puts(b, a, p, m)
    BY <1>5, <1>9, <1>10, <1>11, <1>12 DEF Puts
  <1>14. QED
    BY <1>5, <1>13

LEMMA InsertsPuts ==
    ASSUME NEW q, NEW p, NEW r, NEW k, Inserts(r, q, p, k)
    PROVE  Puts(r, q, p, k)
  BY DEF Inserts, Puts

(* A packet is inserted behind all of its stream.                          *)
LEMMA InsertedBehind ==
    ASSUME NEW q \in Seq(Packet), NEW p \in Packet, NEW r, NEW k \in Nat,
           Inserts(r, q, p, k), InOrder(q), NEW u \in DOMAIN q,
           q[u].dts_usec + Length(p) <= p.dts_usec
    PROVE  u < k
  <1>1. u \in Nat /\ u \in 1 .. Len(q) /\ q[u] \in Packet
    BY LenProperties, TimesAreInts
  <1>2. u >= k => p.dts_usec < q[u].dts_usec
    BY <1>1, InsertedInOrder
  <1>3. QED
    BY <1>1, <1>2, PacketIs

(* After the start.                                                        *)
LEMMA InsertedRuns ==
    ASSUME NEW s \in Seq(Packet), NEW q \in Seq(Packet), NEW p \in Packet,
           NEW r, NEW k \in Nat, Inserts(r, q, p, k), InOrder(q),
           NEW nv, NEW na, Runs(s \o q, nv, na),
           NEW mv, NEW ma, Moved(p, nv, na, mv, ma)
    PROVE  Runs(s \o r, mv, ma)
  <1>1. PICK l \in Nat, n \in Nat, a \in Seq(Packet) : Joined(a, s, q, l, n)
    BY ConcatIs
  <1>2. PICK m \in Nat : m = l + k
    OBVIOUS
  <1>3. a = s \o q /\ Puts(s \o r, a, p, m) /\ Runs(a, nv, na)
    <2>1. Len(s) = l /\ a = s \o q /\ Len(q) = n
      BY Zenon, <1>1 DEF Joined
    <2>2. r \in Seq(Packet) /\ Len(r) = n + 1 /\ n + 1 \in Nat
      BY <2>1 DEF Inserts
    <2>3. PICK b \in Seq(Packet) : b = s \o r /\ Joined(b, s, r, l, n + 1)
      BY <2>1, <2>2, JoinedExists
    <2>4. Puts(b, a, p, l + k)
      BY ONLY <1>1, <2>2, <2>3, ConcatPuts, s \in Seq(Packet), q \in Seq(Packet),
              p \in Packet, k \in Nat, Inserts(r, q, p, k), l \in Nat, n \in Nat,
              a \in Seq(Packet)
    <2>5. QED
      BY <1>2, <2>1, <2>3, <2>4
  <1>4. ASSUME NEW i \in DOMAIN a, Same(a[i], p) PROVE i < m
    <2>1. a[i].dts_usec + Length(p) <= p.dts_usec
      <3>1. Length(a[i]) = Length(p) /\ After(a[i], nv, na) = p.dts_usec
        BY <1>4, SameIs DEF Moved
      <3>2. QED
        BY <1>3, <3>1 DEF Runs, Latest
    <2>2. CASE i \in 1 .. l
      <3>1. k \in 1 .. Len(q) + 1
        BY DEF Inserts
      <3>2. k >= 1
        BY <3>1, LenProperties
      <3>3. QED
        BY <1>2, <2>2, <3>2
    <2>3. ASSUME NEW u \in 1 .. n, i = l + u PROVE i < m
      <3>1. a[i] = q[u] /\ u \in Nat /\ u \in DOMAIN q
        BY <1>1, <2>3 DEF Joined
      <3>2. u < k
        BY <2>1, <3>1, InsertedBehind
      <3>3. QED
        BY <1>2, <2>3, <3>1, <3>2
    <2>4. QED
      <3>1. i \in 1 .. l + n
        BY <1>1 DEF Joined
      <3>2. i \in 1 .. l \/ \E u \in 1 .. n : i = l + u
        BY <1>1, <3>1 DEF Joined
      <3>3. QED
        BY <2>2, <2>3, <3>2
  <1>5. QED
    BY <1>3, <1>4, PutsRuns

(* Sending takes the first packet of the queue, and nothing is lost.       *)
LEMMA SendAll ==
    ASSUME NEW s \in Seq(Packet), NEW q \in Seq(Packet), q # <<>>
    PROVE  Append(s, q[1]) \o Tail(q) = s \o q
  <1>1. PICK l \in Nat, n \in Nat : l = Len(s) /\ n = Len(q) /\ n # 0
    BY LenProperties, EmptySeq
  <1>2. q[1] \in Packet
    BY <1>1, TimesAreInts, LenProperties
  <1>3. PICK h \in Seq(Packet) :
            /\ h = Append(s, q[1]) /\ Len(h) = l + 1
            /\ \A i \in 1 .. l : h[i] = s[i]
            /\ h[l + 1] = q[1]
    BY <1>1, <1>2, AppendProperties
  <1>4. PICK t \in Seq(Packet) :
            t = Tail(q) /\ Len(t) = n - 1 /\ \A i \in 1 .. n - 1 : t[i] = q[i + 1]
    <2>1. Tail(q) \in Seq(Packet) /\ Len(Tail(q)) = n - 1
          /\ \A i \in 1 .. Len(Tail(q)) : Tail(q)[i] = q[i + 1]
      BY <1>1, HeadTailProperties
    <2>2. QED
      BY <2>1
  <1>5. PICK a \in Seq(Packet) : a = s \o q /\ Joined(a, s, q, l, n)
    BY <1>1, JoinedExists
  <1>6. PICK b \in Seq(Packet) : b = h \o t /\ Joined(b, h, t, l + 1, n - 1)
    <2>1. l + 1 \in Nat /\ n - 1 \in Nat
      BY <1>1
    <2>2. QED
      BY <1>3, <1>4, <2>1, JoinedExists
  <1>7. /\ Len(a) = l + n
        /\ \A i \in 1 .. l : a[i] = s[i]
        /\ \A i \in 1 .. n : a[l + i] = q[i]
    BY <1>5 DEF Joined
  <1>8. /\ Len(b) = l + n
        /\ \A i \in 1 .. l + 1 : b[i] = h[i]
        /\ \A i \in 1 .. n - 1 : b[(l + 1) + i] = t[i]
    <2>1. Len(b) = (l + 1) + (n - 1)
      BY <1>6 DEF Joined
    <2>2. (l + 1) + (n - 1) = l + n
      OBVIOUS
    <2>3. QED
      BY <1>6, <2>1, <2>2 DEF Joined
  <1>9. ASSUME NEW i \in 1 .. l + n PROVE b[i] = a[i]
    <2>1. CASE i \in 1 .. l
      BY <1>3, <1>7, <1>8, <2>1
    <2>2. CASE i = l + 1
      BY <1>1, <1>3, <1>7, <1>8, <2>2
    <2>3. CASE i > l + 1
      <3>1. PICK j \in 1 .. n - 1 : i = (l + 1) + j /\ j + 1 \in 1 .. n /\ i = l + (j + 1)
        <4>1. PICK j \in Int : j = i - (l + 1)
          OBVIOUS
        <4>2. j \in 1 .. n - 1 /\ i = (l + 1) + j /\ j + 1 \in 1 .. n /\ i = l + (j + 1)
          BY <2>3, <4>1
        <4>3. QED
          BY <4>2
      <3>2. b[i] = t[j]
        BY <1>8, <3>1
      <3>3. a[i] = q[j + 1]
        BY <1>7, <3>1
      <3>4. QED
        BY <1>4, <3>2, <3>3
    <2>4. QED
      BY <2>1, <2>2, <2>3
  <1>10. b = a
    BY <1>7, <1>8, <1>9, SeqEqual
  <1>11. a = s \o q /\ b = h \o t
    BY <1>5, <1>6 DEF Joined
  <1>12. QED
    BY <1>3, <1>4, <1>10, <1>11

-----------------------------------------------------------------------------
(* Pruning takes the front of a stream off, so it stays a chain.           *)
LEMMA SuffixChain ==
    ASSUME NEW q \in Seq(Packet), NEW r, NEW k \in Nat, Suffix(r, q, k),
           Chain(q), NEW nv, NEW na, Latest(q, nv, na)
    PROVE  Chain(r) /\ Latest(r, nv, na)
  <1>1. PICK o \in Nat, n \in Nat :
            /\ n = Len(q) /\ o = n - k /\ DOMAIN r = 1 .. o /\ DOMAIN q = 1 .. n
            /\ \A i \in 1 .. o : k + i \in 1 .. n /\ r[i] = q[k + i]
            /\ \A j \in 1 .. n : j > k => j - k \in 1 .. o /\ r[j - k] = q[j]
    BY SuffixIs
  <1>2. \A i \in 1 .. n : q[i] \in Packet
    BY <1>1, TimesAreInts
  <1>3. ASSUME NEW i \in 1 .. o, NEW j \in 1 .. o, i < j, Same(r[i], r[j])
        PROVE  r[i].dts_usec + Length(r[j]) <= r[j].dts_usec
    <2>1. k + i \in 1 .. n /\ k + j \in 1 .. n /\ k + i < k + j
      BY <1>1, <1>3
    <2>2. r[i] = q[k + i] /\ r[j] = q[k + j]
      BY <1>1
    <2>3. QED
      BY <1>1, <1>3, <2>1, <2>2 DEF Chain, Spaced
  <1>4. ASSUME NEW u \in 1 .. n, NEW v \in 1 .. n, u <= k, k < v, Follows(q[u], q[v])
        PROVE  First(r, v - k)
    <2> SUFFICES ASSUME NEW j \in 1 .. o, j < v - k, Same(r[j], r[v - k]) PROVE FALSE
      BY <1>1 DEF First
    <2>1. PICK w \in 1 .. n : w = k + j /\ r[j] = q[w]
      BY <1>1
    <2>2. u < w /\ w < v /\ Same(q[w], q[v]) /\ Same(q[u], q[w])
      <3>1. r[v - k] = q[v] /\ Same(q[w], q[v])
        BY <1>1, <1>4, <2>1
      <3>2. Same(q[u], q[w])
        BY <1>4, <3>1, SameIs DEF Follows
      <3>3. QED
        BY <1>4, <2>1, <3>1, <3>2
    <2>3. /\ q[u].dts_usec + Length(q[w]) <= q[w].dts_usec
          /\ q[w].dts_usec + Length(q[v]) <= q[v].dts_usec
          /\ q[u].dts_usec + Length(q[v]) = q[v].dts_usec
      BY <1>1, <1>4, <2>2 DEF Chain, Spaced, Follows
    <2>4. /\ Length(q[w]) > 0 /\ Length(q[w]) \in Int /\ Length(q[v]) \in Int
          /\ q[u].dts_usec \in Int /\ q[v].dts_usec \in Int /\ q[w].dts_usec \in Int
      BY <1>2, PacketIs
    <2>5. QED
      BY ONLY <2>3, <2>4
  <1>5. ASSUME NEW i \in 1 .. o
        PROVE  First(r, i) \/ \E j \in 1 .. o : j < i /\ Follows(r[j], r[i])
    <2>1. PICK v \in 1 .. n : v = k + i /\ r[i] = q[v] /\ k < v /\ v - k = i
      BY <1>1
    <2>2. CASE First(q, v)
      <3> SUFFICES ASSUME NEW j \in 1 .. o, j < i, Same(r[j], r[i]) PROVE FALSE
        BY <1>1 DEF First
      <3>1. k + j \in 1 .. n /\ k + j < v /\ Same(q[k + j], q[v])
        BY <1>1, <2>1
      <3>2. QED
        BY <1>1, <2>2, <3>1 DEF First
    <2>3. ASSUME NEW u \in 1 .. n, u < v, Follows(q[u], q[v])
          PROVE  First(r, i) \/ \E j \in 1 .. o : j < i /\ Follows(r[j], r[i])
      <3>1. CASE u <= k
        BY <1>4, <2>1, <2>3, <3>1
      <3>2. CASE u > k
        <4>1. u - k \in 1 .. o /\ u - k < i /\ r[u - k] = q[u]
          BY <1>1, <2>1, <2>3, <3>2
        <4>2. QED
          BY <2>1, <2>3, <4>1
      <3>3. QED
        BY <3>1, <3>2
    <2>4. QED
      BY <1>1, <2>2, <2>3 DEF Chain, Linked
  <1>6. ASSUME NEW i \in 1 .. o
        PROVE  /\ r[i].dts_usec + Length(r[i]) <= After(r[i], nv, na)
               /\ \E j \in 1 .. o : Ends(r[j], r[i], nv, na)
    <2>1. PICK v \in 1 .. n : v = k + i /\ r[i] = q[v] /\ k < v
      BY <1>1
    <2>2. q[v].dts_usec + Length(q[v]) <= After(q[v], nv, na)
      BY <1>1 DEF Latest
    <2>3. PICK u \in 1 .. n : Ends(q[u], q[v], nv, na)
      BY <1>1 DEF Latest
    <2>4. u > k
      <3> SUFFICES ASSUME u <= k PROVE FALSE
        OBVIOUS
      <3>1. u < v /\ Same(q[u], q[v]) /\ q[u].dts_usec + Length(q[v]) = After(q[v], nv, na)
        BY <2>1, <2>3 DEF Ends
      <3>2. q[u].dts_usec + Length(q[v]) <= q[v].dts_usec
        BY <1>1, <3>1 DEF Chain, Spaced
      <3>3. /\ Length(q[v]) > 0 /\ Length(q[v]) \in Int
            /\ q[u].dts_usec \in Int /\ q[v].dts_usec \in Int
        BY <1>2, PacketIs
      <3>4. PICK e \in Int : e = q[u].dts_usec + Length(q[v])
        BY <3>3
      <3>5. q[v].dts_usec + Length(q[v]) <= e /\ e <= q[v].dts_usec
        BY <2>2, <3>1, <3>2, <3>4
      <3>6. QED
        BY ONLY <3>3, <3>4, <3>5
    <2>5. u - k \in 1 .. o /\ r[u - k] = q[u]
      BY <1>1, <2>4
    <2>6. QED
      BY <2>1, <2>2, <2>3, <2>5
  <1>7. QED
    BY <1>1, <1>3, <1>5, <1>6 DEF Chain, Spaced, Linked, Latest

(* What is pruned is audio, and not later than the first video packet,     *)
(* which is the earliest of what is left.                                  *)
Prunes(r, q, k, time) ==
    /\ Suffix(r, q, k)
    /\ \A i \in DOMAIN q : i <= k => q[i].type = "audio" /\ q[i].dts_usec <= time
    /\ \A i \in DOMAIN r : time <= r[i].dts_usec
    /\ \E i \in DOMAIN r : r[i].type = "video" /\ r[i].dts_usec = time

LEMMA PrunesIs ==
    ASSUME NEW q \in Seq(Packet), InOrder(q), Has(q, "video", 0)
    PROVE  \E k \in Nat, time \in Int : Prunes(Pruned(q), q, k, time)
  <1>1. PICK n \in Nat : n = Len(q) /\ DOMAIN q = 1 .. n
    BY LenProperties
  <1>2. n # 0 /\ q # <<>>
    BY <1>1, EmptySeq DEF Has
  <1>3. PICK k \in Nat : Suffix(Pruned(q), q, k)
    BY <1>2, PrunedIs
  <1> DEFINE stays == {i \in DOMAIN q : ~CanPrune(q, i)}
             m == Min(stays)
  <1>4. m \in stays /\ \A i \in stays : m <= i
    <2>1. stays \in SUBSET Nat
      BY <1>1
    <2>2. n \in stays
      BY <1>1, <1>2 DEF CanPrune
    <2> HIDE DEF stays
    <2>3. QED
      BY <2>1, <2>2, MinIsThere
  <1>5. PICK l \in 1 .. n : l = m /\ ~CanPrune(q, l) /\ \A i \in 1 .. l - 1 : CanPrune(q, i)
    <2>1. m \in 1 .. n /\ ~CanPrune(q, m)
      BY <1>1, <1>4
    <2>2. ASSUME NEW i \in 1 .. m - 1 PROVE CanPrune(q, i)
      <3>1. i \in DOMAIN q /\ ~(m <= i)
        BY <1>1, <2>1
      <3>2. QED
        BY <1>4, <3>1
    <2>3. QED
      BY <2>1, <2>2
  <1>6. Pruned(q) = SubSeq(q, l, n)
    BY <1>1, <1>5 DEF Pruned
  <1> HIDE DEF m
  <1>7. PICK r \in Seq(Packet) : r = Pruned(q) /\ Len(r) = n - l + 1
    <2>1. \A i \in l .. n : q[i] \in Packet
      BY <1>1, TimesAreInts
    <2>2. /\ SubSeq(q, l, n) \in Seq(Packet)
          /\ Len(SubSeq(q, l, n)) = IF l <= n THEN n - l + 1 ELSE 0
      BY <2>1, SubSeqProperties
    <2>3. Len(SubSeq(q, l, n)) = n - l + 1
      BY <2>2
    <2>4. QED
      BY <1>6, <2>2, <2>3
  <1>8. l = k + 1 /\ Suffix(r, q, k)
    <2>1. Len(r) = n - k
      BY <1>1, <1>3, <1>7 DEF Suffix
    <2>2. QED
      BY <1>3, <1>7, <2>1
  <1>9. PICK o \in Nat :
            /\ o = n - k /\ DOMAIN r = 1 .. o
            /\ \A i \in 1 .. o : k + i \in 1 .. n /\ r[i] = q[k + i]
            /\ \A j \in 1 .. n : j > k => j - k \in 1 .. o /\ r[j - k] = q[j]
    <2>1. /\ DOMAIN r = 1 .. Len(q) - k /\ Len(q) - k \in Nat
          /\ \A i \in 1 .. Len(q) - k : k + i \in 1 .. Len(q) /\ r[i] = q[k + i]
          /\ \A j \in 1 .. Len(q) : j > k => j - k \in 1 .. Len(q) - k /\ r[j - k] = q[j]
      BY <1>8, SuffixIs
    <2>2. QED
      BY <1>1, <2>1
  <1>10. \A i \in 1 .. k : q[i].type = "audio"
    <2> SUFFICES ASSUME NEW i \in 1 .. k PROVE q[i].type = "audio"
      OBVIOUS
    <2>1. i \in 1 .. l - 1
      BY <1>8
    <2>2. CanPrune(q, i)
      BY <1>5, <2>1
    <2>3. QED
      BY <2>2 DEF CanPrune
  <1>11. PICK time \in Int : time = q[l].dts_usec
    BY <1>1, TimesAreInts
  <1>12. PICK w \in 1 .. n : w >= l /\ q[w].type = "video" /\ q[w].dts_usec = time
    <2>1. PICK v \in 1 .. n : q[v].type = "video"
      BY <1>1 DEF Has
    <2>2. v >= l
      BY <1>8, <1>10, <2>1
    <2>3. CASE q[l].type = "video"
      BY <1>11, <2>3
    <2>4. CASE q[l].type # "video"
      <3>1. q[l] \in Packet
        BY <1>1, TimesAreInts
      <3>2. q[l].type = "audio" /\ l # v /\ l < Len(q)
        BY <1>1, <2>1, <2>2, <2>4, <3>1, PacketIs
      <3>3. q[l + 1].type = "video" /\ q[l + 1].dts_usec = q[l].dts_usec
        BY <1>5, <3>2 DEF CanPrune
      <3>4. l + 1 \in 1 .. n
        BY <1>1, <3>2
      <3>5. QED
        BY <1>11, <3>3, <3>4
    <2>5. QED
      BY <2>3, <2>4
  <1>13. \A i \in 1 .. n : (i <= k => q[i].dts_usec <= time) /\ (i > k => time <= q[i].dts_usec)
    <2>1. ASSUME NEW i \in 1 .. n, i <= k PROVE q[i].dts_usec <= time
      <3>1. i < l /\ i \in DOMAIN q /\ l \in DOMAIN q
        BY <1>1, <1>8, <2>1
      <3>2. QED
        BY <1>11, <3>1 DEF InOrder
    <2>2. ASSUME NEW i \in 1 .. n, i > k PROVE time <= q[i].dts_usec
      <3>1. CASE i = l
        BY <1>11, <3>1
      <3>2. CASE i > l
        BY <1>1, <1>11, <3>2 DEF InOrder
      <3>3. QED
        BY <1>8, <2>2, <3>1, <3>2
    <2>3. QED
      BY <2>1, <2>2
  <1>14. \A i \in 1 .. o : time <= r[i].dts_usec
    <2> SUFFICES ASSUME NEW i \in 1 .. o PROVE time <= r[i].dts_usec
      OBVIOUS
    <2>1. k + i \in 1 .. n /\ k + i > k /\ r[i] = q[k + i]
      BY <1>9
    <2>2. QED
      BY <1>13, <2>1
  <1>15. \E i \in 1 .. o : r[i].type = "video" /\ r[i].dts_usec = time
    <2>1. w - k \in 1 .. o /\ r[w - k] = q[w]
      BY <1>8, <1>9, <1>12
    <2>2. QED
      BY <1>12, <2>1
  <1>16. \A i \in 1 .. n : i <= k => q[i].type = "audio" /\ q[i].dts_usec <= time
    BY <1>10, <1>13
  <1>17. Prunes(r, q, k, time)
    BY <1>1, <1>3, <1>7, <1>9, <1>14, <1>15, <1>16 DEF Prunes
  <1>18. QED
    BY <1>7, <1>17

(* So a track that is in step stays so.                                    *)
LEMMA PrunedReaches ==
    ASSUME NEW q \in Seq(Packet), InOrder(q), Has(q, "video", 0), NEW nv,
           NEW na \in [Track -> Int], Chain(q), Latest(q, nv, na),
           NEW r, NEW k \in Nat, NEW time \in Int, Prunes(r, q, k, time),
           NEW hd \in [Track -> Nat], NEW t \in Track, Reaches(q, na, hd, t)
    PROVE  Reaches(r, na, hd, t) /\ Has(r, "video", 0)
  <1>1. PICK o \in Nat, n \in Nat :
            /\ n = Len(q) /\ o = n - k /\ DOMAIN r = 1 .. o /\ DOMAIN q = 1 .. n
            /\ \A i \in 1 .. o : k + i \in 1 .. n /\ r[i] = q[k + i]
            /\ \A j \in 1 .. n : j > k => j - k \in 1 .. o /\ r[j - k] = q[j]
    BY SuffixIs DEF Prunes
  <1>2. \A i \in 1 .. n : q[i] \in Packet
    BY <1>1, TimesAreInts
  <1>3. /\ \A i \in 1 .. k : i \in 1 .. n /\ q[i].type = "audio" /\ q[i].dts_usec <= time
        /\ \A i \in 1 .. o : time <= r[i].dts_usec
    <2>1. \A i \in 1 .. k : i \in 1 .. n /\ i <= k
      BY <1>1 DEF Prunes, Suffix
    <2>2. /\ \A i \in 1 .. n : i <= k => q[i].type = "audio" /\ q[i].dts_usec <= time
          /\ \A i \in 1 .. o : time <= r[i].dts_usec
      BY <1>1 DEF Prunes
    <2>3. QED
      BY <2>1, <2>2
  <1>4. Has(r, "video", 0)
    <2>1. PICK i \in 1 .. n : q[i].type = "video" /\ q[i].track_idx = 0
      BY <1>1 DEF Has
    <2>2. i > k
      BY <1>3, <2>1
    <2>3. QED
      BY <1>1, <2>1, <2>2 DEF Has
  <1>5. hd[t] = Never => ~Has(r, "audio", t)
    <2> SUFFICES ASSUME hd[t] = Never, NEW i \in 1 .. o, r[i].type = "audio", r[i].track_idx = t
                 PROVE  FALSE
      BY <1>1 DEF Has
    <2>1. ~Has(q, "audio", t)
      BY DEF Reaches
    <2>2. PICK j \in 1 .. n : r[i] = q[j]
      BY <1>1
    <2>3. QED
      BY <1>1, <2>1, <2>2 DEF Has
  <1>6. ASSUME NEW i \in 1 .. o, r[i].type = "video", First(r, i),
               hd[t] # Never, hd[t] <= r[i].dts_usec
        PROVE  na[t] <= r[i].dts_usec + TickLen \/ Within(r, t, r[i].dts_usec + TickLen)
    <2>1. PICK v \in 1 .. n : v = k + i /\ r[i] = q[v] /\ k < v
      BY <1>1
    <2>2. First(q, v)
      <3> SUFFICES ASSUME NEW j \in 1 .. n, j < v, Same(q[j], q[v]) PROVE FALSE
        BY <1>1 DEF First
      <3>1. j > k
        <4>1. q[j].type = "video"
          BY <1>6, <2>1 DEF Same
        <4>2. j \notin 1 .. k
          BY <1>3, <4>1
        <4>3. QED
          BY <4>2
      <3>2. j - k \in 1 .. o /\ r[j - k] = q[j] /\ j - k < i
        BY <1>1, <2>1, <3>1
      <3>3. QED
        BY <1>1, <1>6, <2>1, <3>2 DEF First
    <2>3. PICK e \in Int : e = r[i].dts_usec + TickLen /\ time + TickLen <= e
      <3>1. r[i].dts_usec \in Int /\ TickLen \in Int /\ time <= r[i].dts_usec
        BY <1>2, <1>3, <2>1, PacketIs
      <3>2. QED
        BY <3>1
    <2>4. na[t] <= e \/ Within(q, t, e)
      BY <1>1, <1>6, <2>1, <2>2, <2>3 DEF Reaches
    <2> SUFFICES ASSUME NEW j \in 1 .. n, q[j].type = "audio", q[j].track_idx = t, q[j].dts_usec <= e
                 PROVE  na[t] <= e \/ Within(r, t, e)
      BY <1>1, <2>3, <2>4 DEF Within
    <2>5. CASE j > k
      <3>1. j - k \in DOMAIN r /\ r[j - k] = q[j]
        BY <1>1, <2>5
      <3>2. QED
        BY <3>1 DEF Within
    <2>6. CASE j <= k /\ \A u \in 1 .. n : Same(q[u], q[j]) => u <= k
      <3>1. PICK u \in 1 .. n : Ends(q[u], q[j], nv, na)
        BY <1>1 DEF Latest
      <3>2. u \in 1 .. k /\ q[u].dts_usec + TickLen = na[t]
        BY <2>6, <3>1 DEF Ends, After, Length
      <3>3. q[u].dts_usec <= time /\ q[u].dts_usec \in Int
        BY <1>2, <1>3, <3>2, PacketIs
      <3>4. na[t] \in Int /\ TickLen \in Int
        BY PacketIs
      <3>5. QED
        BY ONLY <2>3, <3>2, <3>3, <3>4, time \in Int
    <2>7. ASSUME j <= k, NEW x \in 1 .. n, Same(q[x], q[j]), x > k PROVE Within(r, t, e)
      <3> DEFINE later == {u \in 1 .. n : u > k /\ Same(q[u], q[j])}
      <3>1. PICK u \in 1 .. n : u > k /\ Same(q[u], q[j]) /\ \A w \in later : u <= w
        <4>1. later \in SUBSET Nat /\ later # {}
          BY <2>7
        <4>2. PICK u \in later : \A w \in later : u <= w
          BY <4>1, LeastExists
        <4>3. QED
          BY <4>2
      <3>2. ~First(q, u)
        <4>1. j < u
          BY <2>7, <3>1
        <4>2. Same(q[j], q[u])
          BY <3>1, SameIs
        <4>3. QED
          BY <1>1, <4>1, <4>2 DEF First
      <3>3. PICK w \in 1 .. n : w < u /\ Follows(q[w], q[u])
        BY <1>1, <3>2 DEF Chain, Linked
      <3>4. Same(q[w], q[j])
        BY <3>1, <3>3, SameIs DEF Follows
      <3>5. w \in 1 .. k
        BY <3>1, <3>3, <3>4
      <3>6. q[w].dts_usec <= time /\ q[w].dts_usec \in Int
        BY <1>2, <1>3, <3>5, PacketIs
      <3>7. q[u].type = "audio" /\ q[u].track_idx = t
        BY <3>1 DEF Same
      <3>8. q[u].dts_usec <= e
        <4>1. q[w].dts_usec + TickLen = q[u].dts_usec
          BY <3>3, <3>7 DEF Follows, Length
        <4>2. TickLen \in Int
          BY PacketIs
        <4>3. PICK d \in Int, f \in Int : d = q[w].dts_usec /\ f = TickLen
          BY <3>6, <4>2
        <4>4. d <= time /\ time + f <= e /\ q[u].dts_usec = d + f
          BY <2>3, <3>6, <4>1, <4>3
        <4>5. d + f <= e
          BY ONLY <4>4, d \in Int, f \in Int, time \in Int, e \in Int
        <4>6. QED
          BY <4>4, <4>5
      <3>9. u - k \in 1 .. o /\ r[u - k] = q[u]
        BY <1>1, <3>1
      <3>10. QED
        BY <1>1, <3>7, <3>8, <3>9 DEF Within
    <2>8. QED
      BY <2>5, <2>6, <2>7
  <1>7. QED
    BY <1>1, <1>4, <1>5, <1>6 DEF Reaches

LEMMA PrunedWaits ==
    ASSUME NEW q \in Seq(Packet), InOrder(q), Has(q, "video", 0), NEW nv,
           NEW na \in [Track -> Int], NEW hd \in [Track -> Nat], Waits(q, nv, na, hd),
           NEW ha, NEW hv, Below(q, ha, hv),
           NEW r, NEW k \in Nat, NEW time \in Int, Prunes(r, q, k, time)
    PROVE  /\ r \in Seq(Packet) /\ r # <<>> /\ InOrder(r)
           /\ Waits(r, nv, na, hd) /\ Below(r, ha, hv) /\ Has(r, "video", 0)
  <1>1. Suffix(r, q, k) /\ Chain(q) /\ Latest(q, nv, na)
    BY DEF Prunes, Waits
  <1>2. Chain(r) /\ Latest(r, nv, na)
    BY <1>1, SuffixChain
  <1>3. \A t \in Track : Reaches(r, na, hd, t) /\ Has(r, "video", 0)
    BY <1>1, PrunedReaches DEF Waits
  <1>4. r \in Seq(Packet) /\ InOrder(r) /\ r # <<>>
    BY <1>1, SuffixInOrder, SuffixIs DEF Suffix
  <1>5. \A i \in DOMAIN r : \E j \in DOMAIN q : r[i] = q[j]
    <2>1. /\ DOMAIN r = 1 .. Len(q) - k /\ DOMAIN q = 1 .. Len(q)
          /\ \A i \in 1 .. Len(q) - k : k + i \in 1 .. Len(q) /\ r[i] = q[k + i]
      BY <1>1, SuffixIs
    <2>2. QED
      BY <2>1
  <1>6. /\ \A i \in DOMAIN r : Unshifted(r[i]) /\ r[i].dts_usec >= 0
        /\ Tracked(r) /\ Below(r, ha, hv)
    BY <1>5 DEF Waits, Tracked, Below
  <1>7. 0 \in Track
    BY InterleaverAssumption DEF Track
  <1>8. QED
    BY <1>2, <1>3, <1>4, <1>6, <1>7 DEF Waits

-----------------------------------------------------------------------------
(* Before the start, a packet is put into the queue.                       *)
LEMMA InsertedLine ==
    ASSUME NEW q \in Seq(Packet), NEW p \in Packet, NEW r, NEW k \in Nat,
           Inserts(r, q, p, k), InOrder(q), NEW nv, NEW na, Chain(q), Latest(q, nv, na),
           Tracked(q), NEW mv, NEW ma, Moved(p, nv, na, mv, ma)
    PROVE  /\ Puts(r, q, p, k) /\ Joins(q, p, k) /\ Chain(r) /\ Latest(r, mv, ma)
           /\ InOrder(r) /\ r \in Seq(Packet) /\ r # <<>>
  <1>1. Puts(r, q, p, k)
    BY InsertsPuts
  <1>2. ASSUME NEW i \in DOMAIN q, Same(q[i], p) PROVE i < k
    <2>1. Length(q[i]) = Length(p) /\ After(q[i], nv, na) = p.dts_usec
      BY <1>2, SameIs DEF Moved
    <2>2. q[i].dts_usec + Length(p) <= p.dts_usec
      BY <2>1 DEF Latest
    <2>3. QED
      BY <2>2, InsertedBehind
  <1>3. Joins(q, p, k)
    BY <1>2, LatestJoins DEF Moved
  <1>4. Chain(r) /\ Latest(r, mv, ma)
    BY <1>1, <1>3, PutsChain, PutsLatest
  <1>5. InOrder(r)
    BY InsertedInOrder
  <1>6. r \in Seq(Packet) /\ k \in DOMAIN r
    BY <1>1, PutsIs
  <1>7. r # <<>>
    BY <1>6, EmptySeq
  <1>8. QED
    BY <1>1, <1>3, <1>4, <1>5, <1>6, <1>7

LEMMA InsertedPlain ==
    ASSUME NEW q \in Seq(Packet), NEW p \in Packet, NEW r, NEW k \in Nat, Puts(r, q, p, k),
           \A i \in DOMAIN q : Unshifted(q[i]) /\ q[i].dts_usec >= 0,
           Unshifted(p), p.dts_usec >= 0, Tracked(q), p.type = "video" => p.track_idx = 0,
           NEW ha \in Int, NEW hv \in Int, Below(q, ha, hv)
    PROVE  /\ \A i \in DOMAIN r : Unshifted(r[i]) /\ r[i].dts_usec >= 0
           /\ Tracked(r) /\ Below(r, Higher(ha, p, "audio"), Higher(hv, p, "video"))
  <1>1. \A i \in DOMAIN r : Unshifted(r[i]) /\ r[i].dts_usec >= 0
    <2> SUFFICES ASSUME NEW i \in DOMAIN r PROVE Unshifted(r[i]) /\ r[i].dts_usec >= 0
      OBVIOUS
    <2>1. r[i] = p \/ \E j \in DOMAIN q : r[i] = q[j]
      BY PutsHas
    <2>2. QED
      BY <2>1
  <1>2. Tracked(r)
    BY PutsTracked
  <1>3. ASSUME NEW i \in DOMAIN r
        PROVE  r[i].dts_usec <= (IF r[i].type = "video" THEN Higher(hv, p, "video")
                                                        ELSE Higher(ha, p, "audio"))
    <2>1. p.type \in {"video", "audio"} /\ p.dts_usec \in Int
      BY PacketIs
    <2>2. CASE r[i] = p
      BY <2>1, <2>2 DEF Higher
    <2>3. ASSUME NEW j \in DOMAIN q, r[i] = q[j]
          PROVE  r[i].dts_usec <= (IF r[i].type = "video" THEN Higher(hv, p, "video")
                                                          ELSE Higher(ha, p, "audio"))
      <3>1. q[j].dts_usec \in Int
        BY TimesAreInts
      <3>2. q[j].dts_usec <= (IF q[j].type = "video" THEN hv ELSE ha)
        BY DEF Below
      <3>3. hv <= Higher(hv, p, "video") /\ ha <= Higher(ha, p, "audio")
        BY <2>1 DEF Higher
      <3>4. Higher(hv, p, "video") \in Int /\ Higher(ha, p, "audio") \in Int
        BY <2>1 DEF Higher
      <3>5. QED
        BY <2>3, <3>1, <3>2, <3>3, <3>4
    <2>4. QED
      BY <2>2, <2>3, PutsHas
  <1>4. QED
    BY <1>1, <1>2, <1>3 DEF Below

(* The first video packet comes when the tracks that were heard have a     *)
(* packet that is not later.                                               *)
LEMMA VideoReaches ==
    ASSUME NEW q \in Seq(Packet), NEW p \in Packet, NEW r, NEW k \in Nat,
           Puts(r, q, p, k), Joins(q, p, k), p.type = "video", p.track_idx = 0,
           NEW na \in [Track -> Int], NEW hd \in [Track -> Nat], NEW t \in Track,
           Reaches(q, na, hd, t)
    PROVE  Reaches(r, na, hd, t)
  <1>1. (Has(r, "audio", t) <=> Has(q, "audio", t)) /\ Has(r, "video", 0)
    BY PutsHas
  <1>2. ASSUME NEW time, Within(q, t, time) PROVE Within(r, t, time)
    <2>1. PICK j \in DOMAIN q : q[j].type = "audio" /\ q[j].track_idx = t /\ q[j].dts_usec <= time
      BY <1>2 DEF Within
    <2>2. PICK i \in DOMAIN r : r[i] = q[j]
      BY PutsHas
    <2>3. QED
      BY <2>1, <2>2 DEF Within
  <1>3. ASSUME NEW i \in DOMAIN r, r[i].type = "video", First(r, i),
               hd[t] # Never, hd[t] <= r[i].dts_usec
        PROVE  na[t] <= r[i].dts_usec + TickLen \/ Within(r, t, r[i].dts_usec + TickLen)
    <2>1. CASE i = k
      <3>1. r[i] = p /\ \A j \in DOMAIN q : ~Same(q[j], p)
        BY <1>3, <2>1, PutsIs, PutsFirst
      <3>2. ~Has(q, "video", 0)
        BY <3>1 DEF Has, Same
      <3>3. HasAudio(q, t, hd[t])
        BY <1>3, <3>2 DEF Reaches
      <3>4. hd[t] <= p.dts_usec + TickLen
        BY <1>3, <3>1, PacketIs
      <3>5. Within(q, t, p.dts_usec + TickLen)
        BY <3>3, <3>4 DEF HasAudio, Within
      <3>6. QED
        BY <1>2, <3>1, <3>5
    <2>2. ASSUME NEW j \in DOMAIN q, i = Place(j, k)
          PROVE  na[t] <= r[i].dts_usec + TickLen \/ Within(r, t, r[i].dts_usec + TickLen)
      <3>1. r[i] = q[j] /\ First(q, j)
        BY <1>3, <2>2, PutsIs, PutsFirst
      <3>2. na[t] <= q[j].dts_usec + TickLen \/ Within(q, t, q[j].dts_usec + TickLen)
        BY <1>3, <3>1 DEF Reaches
      <3>3. QED
        BY <1>2, <3>1, <3>2
    <2>3. QED
      BY <2>1, <2>2, PutsIs
  <1>4. hd[t] = Never => ~Has(r, "audio", t)
    BY <1>1 DEF Reaches
  <1>5. QED
    BY <1>1, <1>3, <1>4 DEF Reaches

(* A track is heard with its first packet.                                 *)
Hears(hd, ld, u, time) ==
    \A t \in Track : ld[t] = IF t = u /\ hd[u] = Never THEN time ELSE hd[t]

LEMMA AudioReaches ==
    ASSUME NEW q \in Seq(Packet), NEW p \in Packet, NEW r, NEW k \in Nat,
           Puts(r, q, p, k), Joins(q, p, k), p.type = "audio",
           NEW u \in Track, p.track_idx = u, p.dts_usec # Never,
           NEW na \in [Track -> Int], p.dts_usec = na[u],
           NEW ma \in [Track -> Int], Moves(ma, na, u),
           NEW hd \in [Track -> Nat], NEW ld \in [Track -> Nat], Hears(hd, ld, u, p.dts_usec),
           NEW t \in Track, Reaches(q, na, hd, t)
    PROVE  Reaches(r, ma, ld, t)
  <1>1. /\ Has(r, "audio", t) <=> Has(q, "audio", t) \/ u = t
        /\ Has(r, "video", 0) <=> Has(q, "video", 0)
    BY PutsHas
  <1>2. ASSUME NEW time, Within(q, t, time) PROVE Within(r, t, time)
    <2>1. PICK j \in DOMAIN q : q[j].type = "audio" /\ q[j].track_idx = t /\ q[j].dts_usec <= time
      BY <1>2 DEF Within
    <2>2. PICK i \in DOMAIN r : r[i] = q[j]
      BY PutsHas
    <2>3. QED
      BY <2>1, <2>2 DEF Within
  <1>3. PICK e \in DOMAIN r : r[e] = p
    BY PutsHas
  <1>4. ld[t] = Never => ~Has(r, "audio", t)
    BY <1>1 DEF Hears, Reaches
  <1>5. ASSUME ld[t] # Never, ~Has(r, "video", 0) PROVE HasAudio(r, t, ld[t])
    <2>1. CASE hd[t] = Never
      <3>1. t = u /\ ld[t] = p.dts_usec
        BY <1>5, <2>1 DEF Hears
      <3>2. QED
        BY <1>3, <3>1 DEF HasAudio
    <2>2. CASE hd[t] # Never
      <3>1. ld[t] = hd[t] /\ HasAudio(q, t, hd[t])
        BY <1>1, <1>5, <2>2 DEF Hears, Reaches
      <3>2. PICK j \in DOMAIN q : q[j].type = "audio" /\ q[j].track_idx = t /\ q[j].dts_usec = hd[t]
        BY <3>1 DEF HasAudio
      <3>3. PICK i \in DOMAIN r : r[i] = q[j]
        BY PutsHas
      <3>4. QED
        BY <3>1, <3>2, <3>3 DEF HasAudio
    <2>3. QED
      BY <2>1, <2>2
  <1>6. ASSUME NEW i \in DOMAIN r, r[i].type = "video", First(r, i),
               ld[t] # Never, ld[t] <= r[i].dts_usec
        PROVE  ma[t] <= r[i].dts_usec + TickLen \/ Within(r, t, r[i].dts_usec + TickLen)
    <2>1. PICK j \in DOMAIN q : i = Place(j, k) /\ r[i] = q[j] /\ First(q, j)
      <3>1. i # k
        BY <1>6, PutsIs
      <3>2. PICK j \in DOMAIN q : i = Place(j, k)
        BY <3>1, PutsIs
      <3>3. QED
        BY <1>6, <3>2, PutsIs, PutsFirst
    <2>2. q[j].dts_usec \in Int
      BY TimesAreInts
    <2>3. PICK v \in Int : v = q[j].dts_usec /\ v = r[i].dts_usec
      BY <2>1, <2>2
    <2>4. CASE hd[t] = Never
      <3>1. t = u /\ ld[t] = p.dts_usec
        BY <1>6, <2>4 DEF Hears
      <3>2. p.dts_usec <= v + TickLen
        BY <1>6, <2>3, <3>1, PacketIs
      <3>3. QED
        BY <1>3, <2>3, <3>1, <3>2 DEF Within
    <2>5. CASE hd[t] # Never
      <3>1. na[t] <= v + TickLen \/ Within(q, t, v + TickLen)
        <4>1. hd[t] <= v
          BY <1>6, <2>3, <2>5 DEF Hears
        <4>2. QED
          BY <1>6, <2>1, <2>3, <2>5, <4>1 DEF Reaches
      <3>2. CASE Within(q, t, v + TickLen)
        BY <1>2, <2>3, <3>2
      <3>3. CASE na[t] <= v + TickLen /\ t = u
        <4>1. p.dts_usec <= v + TickLen
          BY <3>3
        <4>2. QED
          BY <1>3, <2>3, <3>3, <4>1 DEF Within
      <3>4. CASE na[t] <= v + TickLen /\ t # u
        <4>1. ma[t] = na[t]
          BY <3>4 DEF Moves
        <4>2. QED
          BY <2>3, <3>4, <4>1
      <3>5. QED
        BY <3>1, <3>2, <3>3, <3>4
    <2>6. QED
      BY <2>4, <2>5
  <1>7. QED
    BY <1>4, <1>5, <1>6 DEF Reaches

LEMMA VideoWaitsOn ==
    ASSUME NEW q \in Seq(Packet), NEW p \in Packet, NEW r, NEW k \in Nat,
           Inserts(r, q, p, k), InOrder(q),
           NEW nv \in Int, NEW na \in [Track -> Int], NEW hd \in [Track -> Nat],
           Waits(q, nv, na, hd), NEW ha \in Int, NEW hv \in Int, Below(q, ha, hv),
           NEW mv \in Int, Moved(p, nv, na, mv, na),
           p.type = "video", p.track_idx = 0, Unshifted(p), p.dts_usec >= 0
    PROVE  /\ r \in Seq(Packet) /\ r # <<>> /\ InOrder(r) /\ Waits(r, mv, na, hd)
           /\ Below(r, Higher(ha, p, "audio"), Higher(hv, p, "video"))
  <1>1. /\ Puts(r, q, p, k) /\ Joins(q, p, k) /\ Chain(r) /\ Latest(r, mv, na)
        /\ InOrder(r) /\ r \in Seq(Packet) /\ r # <<>>
    BY InsertedLine DEF Waits
  <1>2. /\ \A i \in DOMAIN r : Unshifted(r[i]) /\ r[i].dts_usec >= 0
        /\ Tracked(r) /\ Below(r, Higher(ha, p, "audio"), Higher(hv, p, "video"))
    BY <1>1, InsertedPlain DEF Waits
  <1>3. \A t \in Track : Reaches(r, na, hd, t)
    BY <1>1, VideoReaches DEF Waits
  <1>4. QED
    BY <1>1, <1>2, <1>3 DEF Waits

LEMMA AudioWaitsOn ==
    ASSUME NEW q \in Seq(Packet), NEW p \in Packet, NEW r, NEW k \in Nat,
           Inserts(r, q, p, k), InOrder(q),
           NEW nv \in Int, NEW na \in [Track -> Int], NEW hd \in [Track -> Nat],
           Waits(q, nv, na, hd), NEW ha \in Int, NEW hv \in Int, Below(q, ha, hv),
           NEW ma \in [Track -> Int], Moved(p, nv, na, nv, ma),
           p.type = "audio", NEW u \in Track, p.track_idx = u, p.dts_usec = na[u],
           p.dts_usec # Never, Moves(ma, na, u), Unshifted(p), p.dts_usec >= 0,
           NEW ld \in [Track -> Nat], Hears(hd, ld, u, p.dts_usec)
    PROVE  /\ r \in Seq(Packet) /\ r # <<>> /\ InOrder(r) /\ Waits(r, nv, ma, ld)
           /\ Below(r, Higher(ha, p, "audio"), Higher(hv, p, "video"))
  <1>1. /\ Puts(r, q, p, k) /\ Joins(q, p, k) /\ Chain(r) /\ Latest(r, nv, ma)
        /\ InOrder(r) /\ r \in Seq(Packet) /\ r # <<>>
    BY InsertedLine DEF Waits
  <1>2. /\ \A i \in DOMAIN r : Unshifted(r[i]) /\ r[i].dts_usec >= 0
        /\ Tracked(r) /\ Below(r, Higher(ha, p, "audio"), Higher(hv, p, "video"))
    BY <1>1, InsertedPlain DEF Waits
  <1>3. \A t \in Track : Reaches(r, ma, ld, t)
    BY <1>1, AudioReaches DEF Waits
  <1>4. QED
    BY <1>1, <1>2, <1>3 DEF Waits

-----------------------------------------------------------------------------
(* The start: each stream's first time is taken off its packets.           *)
Base(p, vo, first) == IF p.type = "video" THEN vo ELSE first[p.track_idx]

Firsts(q, vo, first) ==
    \A i \in DOMAIN q : /\ Base(q[i], vo, first) <= q[i].dts_usec
                        /\ \E j \in DOMAIN q : /\ Same(q[j], q[i])
                                               /\ q[j].dts_usec = Base(q[i], vo, first)

Rebased(s, q, vo, first) ==
    /\ DOMAIN s = DOMAIN q
    /\ \A i \in DOMAIN q : Same(s[i], q[i])
                           /\ s[i].dts_usec = q[i].dts_usec - Base(q[i], vo, first)

LEMMA RebasedRuns ==
    ASSUME NEW q \in Seq(Packet), NEW s \in Seq(Packet), NEW vo \in Int,
           NEW first \in [Track -> Int], Firsts(q, vo, first), Rebased(s, q, vo, first),
           NEW nv \in Int, NEW na \in [Track -> Int], Chain(q), Latest(q, nv, na),
           Everyone(q), Tracked(q),
           NEW mv \in Int, mv = nv - vo, NEW ma \in [Track -> Int], Taken(ma, na, first)
    PROVE  Runs(s, mv, ma)
  <1>1. PICK n \in Nat : DOMAIN q = 1 .. n /\ DOMAIN s = 1 .. n
    BY LenProperties DEF Rebased
  <1>2. \A i \in 1 .. n : /\ q[i] \in Packet /\ s[i] \in Packet /\ Same(s[i], q[i])
                          /\ s[i].dts_usec = q[i].dts_usec - Base(q[i], vo, first)
                          /\ q[i].dts_usec \in Int /\ Base(q[i], vo, first) \in Int
                          /\ Length(q[i]) \in Int /\ Length(q[i]) > 0
                          /\ Length(s[i]) = Length(q[i])
    <2> SUFFICES ASSUME NEW i \in 1 .. n
                 PROVE  /\ q[i] \in Packet /\ s[i] \in Packet /\ Same(s[i], q[i])
                        /\ s[i].dts_usec = q[i].dts_usec - Base(q[i], vo, first)
                        /\ q[i].dts_usec \in Int /\ Base(q[i], vo, first) \in Int
                        /\ Length(q[i]) \in Int /\ Length(q[i]) > 0
                        /\ Length(s[i]) = Length(q[i])
      OBVIOUS
    <2>1. q[i] \in Packet /\ s[i] \in Packet
      BY <1>1, TimesAreInts
    <2>2. Same(s[i], q[i]) /\ s[i].dts_usec = q[i].dts_usec - Base(q[i], vo, first)
      BY <1>1 DEF Rebased
    <2>3. Base(q[i], vo, first) \in Int
      BY <2>1, PacketIs DEF Base
    <2>4. QED
      BY <2>1, <2>2, <2>3, SameIs, PacketIs
  <1>3. ASSUME NEW i \in 1 .. n, NEW j \in 1 .. n
        PROVE  /\ Same(s[i], s[j]) <=> Same(q[i], q[j])
               /\ Same(q[i], q[j]) => Base(q[i], vo, first) = Base(q[j], vo, first)
    BY <1>2 DEF Same, Base
  <1>4. ASSUME NEW i \in 1 .. n PROVE First(s, i) <=> First(q, i)
    BY <1>1, <1>3 DEF First
  <1>5. Spaced(s)
    <2> SUFFICES ASSUME NEW i \in 1 .. n, NEW j \in 1 .. n, i < j, Same(s[i], s[j])
                 PROVE  s[i].dts_usec + Length(s[j]) <= s[j].dts_usec
      BY <1>1 DEF Spaced
    <2>1. q[i].dts_usec + Length(q[j]) <= q[j].dts_usec
      BY <1>1, <1>3 DEF Chain, Spaced
    <2>2. PICK b \in Int : b = Base(q[i], vo, first) /\ b = Base(q[j], vo, first)
      BY <1>2, <1>3
    <2>3. s[i].dts_usec = q[i].dts_usec - b /\ q[i].dts_usec \in Int
      <3>1. s[i].dts_usec = q[i].dts_usec - Base(q[i], vo, first) /\ q[i].dts_usec \in Int
        BY <1>2
      <3>2. QED
        BY Zenon, <2>2, <3>1
    <2>4. /\ s[j].dts_usec = q[j].dts_usec - b /\ q[j].dts_usec \in Int
          /\ Length(s[j]) = Length(q[j]) /\ Length(q[j]) \in Int
      <3>1. /\ s[j].dts_usec = q[j].dts_usec - Base(q[j], vo, first) /\ q[j].dts_usec \in Int
            /\ Length(s[j]) = Length(q[j]) /\ Length(q[j]) \in Int
        BY <1>2
      <3>2. QED
        BY Zenon, <2>2, <3>1
    <2>5. PICK c \in Int, d \in Int, e \in Int :
             c = q[i].dts_usec /\ d = q[j].dts_usec /\ e = Length(q[j])
      BY <2>3, <2>4
    <2>6. c + e <= d
      BY Zenon, <2>1, <2>5
    <2>7. (c - b) + e <= d - b
      BY ONLY <2>6, b \in Int, c \in Int, d \in Int, e \in Int
    <2>8. QED
      BY Zenon, <2>3, <2>4, <2>5, <2>7
  <1>6. Linked(s)
    <2> SUFFICES ASSUME NEW i \in 1 .. n, ~First(s, i)
                 PROVE  \E j \in 1 .. n : j < i /\ Follows(s[j], s[i])
      BY <1>1 DEF Linked
    <2>1. PICK j \in 1 .. n : j < i /\ Follows(q[j], q[i])
      BY <1>1, <1>4 DEF Chain, Linked
    <2>2. Same(q[j], q[i]) /\ q[j].dts_usec + Length(q[i]) = q[i].dts_usec
      BY <2>1 DEF Follows
    <2>3. Same(s[j], s[i]) /\ s[j].dts_usec + Length(s[i]) = s[i].dts_usec
      <3>1. Same(s[j], s[i]) /\ Base(q[j], vo, first) = Base(q[i], vo, first)
        BY <1>3, <2>2
      <3>2. /\ s[i].dts_usec = q[i].dts_usec - Base(q[i], vo, first) /\ q[i].dts_usec \in Int
            /\ Length(s[i]) = Length(q[i]) /\ Length(q[i]) \in Int
            /\ Base(q[i], vo, first) \in Int
        BY <1>2
      <3>3. s[j].dts_usec = q[j].dts_usec - Base(q[j], vo, first) /\ q[j].dts_usec \in Int
        BY <1>2
      <3>4. PICK b \in Int, c \in Int, d \in Int, e \in Int :
               /\ b = Base(q[i], vo, first) /\ c = q[j].dts_usec
               /\ d = q[i].dts_usec /\ e = Length(q[i])
        BY <3>2, <3>3
      <3>5. c + e = d
        BY Zenon, <2>2, <3>4
      <3>6. (c - b) + e = d - b
        BY ONLY <3>5, b \in Int, c \in Int, d \in Int, e \in Int
      <3>7. s[j].dts_usec = c - b /\ s[i].dts_usec = d - b /\ Length(s[i]) = e
        BY Zenon, <3>1, <3>2, <3>3, <3>4
      <3>8. QED
        BY Zenon, <3>1, <3>6, <3>7
    <2>4. QED
      BY <2>1, <2>3 DEF Follows
  <1>7. FromZero(s)
    <2> SUFFICES ASSUME NEW i \in 1 .. n
                 PROVE  s[i].dts_usec >= 0 /\ (First(s, i) => s[i].dts_usec = 0)
      BY <1>1 DEF FromZero
    <2>1. PICK b \in Int : b = Base(q[i], vo, first)
      BY <1>2
    <2>2. b <= q[i].dts_usec
      BY <1>1, <2>1 DEF Firsts
    <2>3. PICK j \in 1 .. n : Same(q[j], q[i]) /\ q[j].dts_usec = b
      BY <1>1, <2>1 DEF Firsts
    <2>4. First(q, i) => q[i].dts_usec = b
      <3> SUFFICES ASSUME First(q, i) PROVE q[i].dts_usec = b
        OBVIOUS
      <3>1. ~(j < i)
        BY <1>1, <2>3 DEF First
      <3>2. ~(i < j)
        <4> SUFFICES ASSUME i < j PROVE FALSE
          OBVIOUS
        <4>1. Same(q[i], q[j])
          BY <2>3, SameIs
        <4>2. q[i].dts_usec + Length(q[j]) <= q[j].dts_usec
          BY <1>1, <4>1 DEF Chain, Spaced
        <4>3. q[i].dts_usec \in Int /\ Length(q[j]) \in Int /\ Length(q[j]) > 0
          BY <1>2
        <4>4. QED
          BY ONLY <2>2, <2>3, <4>2, <4>3, b \in Int
      <3>3. i = j
        BY <3>1, <3>2
      <3>4. QED
        BY <2>3, <3>3
    <2>5. s[i].dts_usec = q[i].dts_usec - b /\ q[i].dts_usec \in Int
      BY <1>2, <2>1
    <2>6. s[i].dts_usec >= 0
      BY <2>2, <2>5
    <2>7. First(s, i) => s[i].dts_usec = 0
      BY <1>4, <2>4, <2>5
    <2>8. QED
      BY <2>6, <2>7
  <1>8. ASSUME NEW i \in 1 .. n
        PROVE  After(s[i], mv, ma) = After(q[i], nv, na) - Base(q[i], vo, first)
    <2>1. q[i].track_idx \in Track /\ s[i].type = q[i].type /\ s[i].track_idx = q[i].track_idx
      BY <1>2, PacketIs DEF Same
    <2>2. QED
      BY <2>1 DEF After, Base, Taken
  <1>9. Latest(s, mv, ma)
    <2> SUFFICES ASSUME NEW i \in 1 .. n
                 PROVE  /\ s[i].dts_usec + Length(s[i]) <= After(s[i], mv, ma)
                        /\ \E j \in 1 .. n : Ends(s[j], s[i], mv, ma)
      BY <1>1 DEF Latest
    <2>1. q[i].dts_usec + Length(q[i]) <= After(q[i], nv, na)
      BY <1>1 DEF Latest
    <2>2. PICK j \in 1 .. n : Ends(q[j], q[i], nv, na)
      BY <1>1 DEF Latest
    <2>3. Same(q[j], q[i]) /\ q[j].dts_usec + Length(q[i]) = After(q[i], nv, na)
      BY <2>2 DEF Ends
    <2>4. PICK a \in Int : a = After(q[i], nv, na)
      BY <1>2, PacketIs DEF After
    <2>5. PICK b \in Int : b = Base(q[i], vo, first) /\ b = Base(q[j], vo, first)
      BY <1>2, <1>3, <2>3
    <2>6. After(s[i], mv, ma) = a - b
      BY <1>8, <2>4, <2>5
    <2>7. /\ s[i].dts_usec = q[i].dts_usec - b /\ s[j].dts_usec = q[j].dts_usec - b
          /\ Length(s[i]) = Length(q[i]) /\ Length(q[i]) \in Int
          /\ q[i].dts_usec \in Int /\ q[j].dts_usec \in Int
      BY <1>2, <2>5
    <2>8. q[i].dts_usec + Length(q[i]) <= a /\ q[j].dts_usec + Length(q[i]) = a
      BY <2>1, <2>3, <2>4
    <2>9. s[i].dts_usec + Length(s[i]) <= a - b /\ s[j].dts_usec + Length(s[i]) = a - b
      <3>1. PICK x \in Int, y \in Int, l \in Int :
                x = q[i].dts_usec /\ y = q[j].dts_usec /\ l = Length(q[i])
        BY ONLY <2>7
      <3>2. x + l <= a /\ y + l = a
        BY ONLY <2>8, <3>1
      <3>3. (x - b) + l <= a - b /\ (y - b) + l = a - b
        BY ONLY <3>2, x \in Int, y \in Int, l \in Int, a \in Int, b \in Int
      <3>4. s[i].dts_usec = x - b /\ s[j].dts_usec = y - b /\ Length(s[i]) = l
        BY ONLY <2>7, <3>1
      <3>5. QED
        BY ONLY <3>3, <3>4
    <2>10. Same(s[j], s[i])
      BY <1>3, <2>3
    <2>11. QED
      BY <2>6, <2>9, <2>10 DEF Ends
  <1>10. Everyone(s) /\ Tracked(s)
    <2>1. \A type, t : Has(s, type, t) <=> Has(q, type, t)
      BY <1>1, <1>2 DEF Has, Same
    <2>2. Tracked(s)
      BY <1>1, <1>2 DEF Tracked, Same
    <2>3. QED
      BY <2>1, <2>2 DEF Everyone
  <1>11. QED
    BY <1>5, <1>6, <1>7, <1>9, <1>10 DEF Runs, Chain

(* The first m packets of s, in another order.                             *)
Holds(a, s, m) ==
    /\ \A i \in DOMAIN a : \E j \in 1 .. m : a[i] = s[j]
    /\ \A j \in 1 .. m : \E i \in DOMAIN a : a[i] = s[j]

LEMMA HoldsRuns ==
    ASSUME NEW a \in Seq(Packet), NEW s \in Seq(Packet), NEW m \in Nat, DOMAIN s = 1 .. m,
           Holds(a, s, m), NEW nv, NEW na, Runs(s, nv, na), Chain(a), FromZero(a)
    PROVE  Runs(a, nv, na)
  <1>1. Latest(a, nv, na)
    <2> SUFFICES ASSUME NEW i \in DOMAIN a
                 PROVE  /\ a[i].dts_usec + Length(a[i]) <= After(a[i], nv, na)
                        /\ \E e \in DOMAIN a : Ends(a[e], a[i], nv, na)
      BY DEF Latest
    <2>1. PICK j \in 1 .. m : a[i] = s[j]
      BY DEF Holds
    <2>2. PICK l \in 1 .. m : Ends(s[l], s[j], nv, na)
      BY DEF Runs, Latest
    <2>3. PICK e \in DOMAIN a : a[e] = s[l]
      BY DEF Holds
    <2>4. s[j].dts_usec + Length(s[j]) <= After(s[j], nv, na)
      BY DEF Runs, Latest
    <2>5. QED
      BY <2>1, <2>2, <2>3, <2>4
  <1>2. \A type, t : Has(a, type, t) <=> Has(s, type, t)
    <2>1. /\ \A i \in DOMAIN a : \E j \in DOMAIN s : a[i] = s[j]
          /\ \A j \in DOMAIN s : \E i \in DOMAIN a : a[i] = s[j]
      BY DEF Holds
    <2>2. QED
      BY <2>1 DEF Has
  <1>3. Everyone(a)
    BY <1>2 DEF Runs, Everyone
  <1>4. Tracked(a)
    <2> SUFFICES ASSUME NEW i \in DOMAIN a, a[i].type = "video" PROVE a[i].track_idx = 0
      BY DEF Tracked
    <2>1. PICK j \in DOMAIN s : a[i] = s[j]
      BY DEF Holds
    <2>2. QED
      BY <2>1 DEF Runs, Tracked
  <1>5. QED
    BY <1>1, <1>3, <1>4 DEF Runs

LEMMA ResortedRuns ==
    ASSUME NEW q \in Seq(Packet), q # <<>>, NEW voff \in Int, NEW aoff \in [Track -> Int],
           NEW s \in Seq(Packet), DOMAIN s = DOMAIN q,
           \A i \in DOMAIN q : s[i] = Shifted(q[i], voff, aoff),
           NEW nv, NEW na, Runs(s, nv, na)
    PROVE  \E r \in Seq(Packet) : /\ r = Resorted(q, voff, aoff) /\ r # <<>>
                                  /\ InOrder(r) /\ Runs(r, nv, na)
  <1>1. PICK n \in Nat : n = Len(q) /\ DOMAIN q = 1 .. n /\ DOMAIN s = 1 .. n /\ n # 0
    BY LenProperties, EmptySeq
  <1>2. PICK f : /\ Resorted(q, voff, aoff) = f[n] /\ f[0] = <<>>
                 /\ \A m \in 0 .. n - 1 : f[m + 1] = Turn(f[m], q, voff, aoff, m + 1)
    BY <1>1, ResortedLoop
  <1>3. Chain(s) /\ FromZero(s) /\ \A i \in 1 .. n : s[i] \in Packet
    BY <1>1, TimesAreInts DEF Runs
  <1> DEFINE Sorted(m) == /\ f[m] \in Seq(Packet) /\ InOrder(f[m]) /\ Holds(f[m], s, m)
                          /\ Chain(f[m]) /\ FromZero(f[m])
             T == {m \in Nat : m <= n => Sorted(m)}
  <1>4. 0 \in T
    <2>1. f[0] \in Seq(Packet) /\ DOMAIN f[0] = {}
      BY <1>2, EmptySeq
    <2>2. Sorted(0)
      BY <2>1 DEF InOrder, Holds, Chain, Spaced, Linked, FromZero
    <2>3. QED
      BY <2>2
  <1>5. ASSUME NEW m \in Nat, m \in T PROVE m + 1 \in T
    <2> SUFFICES ASSUME m + 1 <= n PROVE Sorted(m + 1)
      OBVIOUS
    <2>1. Sorted(m) /\ m \in 0 .. n - 1 /\ m + 1 \in 1 .. n
      BY <1>5
    <2>2. PICK a \in Seq(Packet) : /\ a = f[m] /\ InOrder(a) /\ Holds(a, s, m)
                                   /\ Chain(a) /\ FromZero(a)
      BY <2>1
    <2> HIDE DEF T, Sorted
    <2>3. PICK p \in Packet : p = s[m + 1]
      BY <1>3, <2>1
    <2>4. PICK b : b = f[m + 1] /\ b = Insert(a, p)
      BY <1>1, <1>2, <2>1, <2>2, <2>3 DEF Turn
    <2>5. PICK k \in 1 .. Len(a) + 1 : Inserts(b, a, p, k)
      BY <2>4, Inserted
    <2>6. k \in Nat
      BY LenProperties
    <2>7. Puts(b, a, p, k) /\ b \in Seq(Packet) /\ InOrder(b)
      BY <2>2, <2>5, <2>6, InsertsPuts, InsertedInOrder DEF Inserts
    <2>8. ASSUME NEW i \in DOMAIN a, Same(a[i], p)
          PROVE  i < k /\ a[i].dts_usec + Length(p) <= p.dts_usec
      <3>1. PICK j \in 1 .. m : a[i] = s[j]
        BY <2>2 DEF Holds
      <3>2. j \in 1 .. n /\ j < m + 1 /\ Same(s[j], s[m + 1])
        BY <2>1, <2>3, <2>8, <3>1
      <3>3. s[j].dts_usec + Length(s[m + 1]) <= s[m + 1].dts_usec
        BY <1>1, <1>3, <2>1, <3>2 DEF Chain, Spaced
      <3>4. a[i].dts_usec + Length(p) <= p.dts_usec
        BY <2>3, <3>1, <3>3
      <3>5. QED
        BY <2>2, <2>5, <2>6, <3>4, InsertedBehind
    <2>9. (\A i \in DOMAIN a : ~Same(a[i], p)) \/ \E i \in DOMAIN a : Follows(a[i], p)
      <3>1. CASE First(s, m + 1)
        <4> SUFFICES ASSUME NEW i \in DOMAIN a, Same(a[i], p) PROVE FALSE
          OBVIOUS
        <4>1. PICK j \in 1 .. m : a[i] = s[j]
          BY <2>2 DEF Holds
        <4>2. j \in DOMAIN s /\ j < m + 1 /\ Same(s[j], s[m + 1])
          BY <1>1, <2>1, <2>3, <4>1
        <4>3. QED
          BY <3>1, <4>2 DEF First
      <3>2. ASSUME NEW j \in DOMAIN s, j < m + 1, Follows(s[j], s[m + 1])
            PROVE  \E i \in DOMAIN a : Follows(a[i], p)
        <4>1. j \in 1 .. m
          BY <1>1, <3>2
        <4>2. PICK i \in DOMAIN a : a[i] = s[j]
          BY <2>2, <4>1 DEF Holds
        <4>3. QED
          BY <2>3, <3>2, <4>2
      <3>3. QED
        BY <1>1, <1>3, <2>1, <3>1, <3>2 DEF Chain, Linked
    <2>10. Joins(a, p, k)
      BY <2>8, <2>9 DEF Joins
    <2>11. Chain(b)
      BY <2>2, <2>6, <2>7, <2>10, PutsChain
    <2>12. FromZero(b)
      <3>1. m + 1 \in DOMAIN s
        BY <1>1, <2>1
      <3>2. p.dts_usec >= 0
        BY <1>3, <2>3, <3>1 DEF FromZero
      <3>3. (\A i \in DOMAIN a : ~Same(a[i], p)) => p.dts_usec = 0
        <4> SUFFICES ASSUME \A i \in DOMAIN a : ~Same(a[i], p) PROVE p.dts_usec = 0
          OBVIOUS
        <4>1. First(s, m + 1)
          <5> SUFFICES ASSUME NEW j \in DOMAIN s, j < m + 1, Same(s[j], s[m + 1]) PROVE FALSE
            BY DEF First
          <5>1. j \in 1 .. m
            BY <1>1
          <5>2. PICK i \in DOMAIN a : a[i] = s[j]
            BY <2>2, <5>1 DEF Holds
          <5>3. QED
            BY <2>3, <5>2
        <4>2. QED
          BY <1>3, <2>3, <3>1, <4>1 DEF FromZero
      <3>4. QED
        BY <2>2, <2>6, <2>7, <2>10, <3>2, <3>3, PutsFromZero
    <2>13. Holds(b, s, m + 1)
      <3>1. /\ \A i \in DOMAIN b : b[i] = p \/ \E j \in DOMAIN a : b[i] = a[j]
            /\ \A j \in DOMAIN a : \E i \in DOMAIN b : b[i] = a[j]
            /\ \E i \in DOMAIN b : b[i] = p
        BY <2>6, <2>7, PutsHas
      <3>2. ASSUME NEW i \in DOMAIN b PROVE \E j \in 1 .. m + 1 : b[i] = s[j]
        <4>1. CASE b[i] = p
          BY <2>3, <4>1
        <4>2. ASSUME NEW l \in DOMAIN a, b[i] = a[l] PROVE \E j \in 1 .. m + 1 : b[i] = s[j]
          <5>1. PICK j \in 1 .. m : a[l] = s[j]
            BY <2>2 DEF Holds
          <5>2. j \in 1 .. m + 1
            OBVIOUS
          <5>3. QED
            BY <4>2, <5>1, <5>2
        <4>3. QED
          BY <3>1, <4>1, <4>2
      <3>3. ASSUME NEW j \in 1 .. m + 1 PROVE \E i \in DOMAIN b : b[i] = s[j]
        <4>1. CASE j = m + 1
          BY <2>3, <3>1, <4>1
        <4>2. CASE j \in 1 .. m
          <5>1. PICK l \in DOMAIN a : a[l] = s[j]
            BY <2>2, <4>2 DEF Holds
          <5>2. QED
            BY <3>1, <5>1
        <4>3. QED
          BY <4>1, <4>2
      <3>4. QED
        BY <3>2, <3>3 DEF Holds
    <2>14. QED
      BY <2>4, <2>7, <2>11, <2>12, <2>13 DEF Sorted
  <1>6. Sorted(n)
    <2> HIDE DEF T
    <2>1. n \in T
      BY <1>4, <1>5, NatSet
    <2>2. QED
      BY <2>1 DEF T
  <1>7. PICK r \in Seq(Packet) : /\ r = f[n] /\ InOrder(r) /\ Holds(r, s, n)
                                 /\ Chain(r) /\ FromZero(r)
    BY <1>6
  <1>8. Runs(r, nv, na)
    BY <1>1, <1>7, HoldsRuns
  <1>9. r # <<>>
    <2>1. Has(r, "video", 0)
      BY <1>8 DEF Runs, Everyone
    <2>2. QED
      BY <2>1, EmptySeq DEF Has
  <1>10. QED
    BY <1>2, <1>7, <1>8, <1>9

(* The packet that initialize_interleaved_packets takes for a stream is    *)
(* the first of it.                                                        *)
LEMMA FirstIs ==
    ASSUME NEW q \in Seq(Packet), InOrder(q), Chain(q), NEW type, NEW t, Has(q, type, t)
    PROVE  \E i \in DOMAIN q : /\ q[i] = FirstOf(q, type, t) /\ First(q, i)
                               /\ q[i] \in Packet /\ q[i].type = type /\ q[i].track_idx = t
                               /\ \A j \in DOMAIN q : q[j].type = type /\ q[j].track_idx = t
                                     => q[i].dts_usec <= q[j].dts_usec
  <1>1. PICK x : x = FirstOf(q, type, t)
    OBVIOUS
  <1>2. /\ x \in Packet /\ x.type = type /\ x.track_idx = t
        /\ \E i \in DOMAIN q : x = q[i]
        /\ \A i \in DOMAIN q : q[i].type = type /\ q[i].track_idx = t
                                  => x.dts_usec <= q[i].dts_usec
    BY <1>1, FirstOfIs
  <1>3. PICK i \in DOMAIN q : x = q[i]
    BY <1>2
  <1>4. First(q, i)
    <2> SUFFICES ASSUME NEW j \in DOMAIN q, j < i, Same(q[j], q[i]) PROVE FALSE
      BY DEF First
    <2>1. q[j].dts_usec + Length(q[i]) <= q[i].dts_usec
      BY DEF Chain, Spaced
    <2>2. q[i].dts_usec <= q[j].dts_usec
      BY <1>2, <1>3 DEF Same
    <2>3. q[j] \in Packet /\ q[i] \in Packet
      BY TimesAreInts
    <2>4. QED
      BY <2>1, <2>2, <2>3, PacketIs
  <1>5. QED
    BY <1>1, <1>2, <1>3, <1>4

(* The tracks that were heard not later than vo, the time of the first     *)
(* video packet, begin within a tick of it.                                *)
InStep(vo, first, hd) ==
    \A t \in Track : hd[t] # Never /\ (hd[t] <= vo => first[t] - vo \in 0 .. TickLen)

(* The first packets of the streams, and their dts.                        *)
Starts(q, vo, first) ==
    /\ vo = FirstOf(q, "video", 0).dts_usec
    /\ FirstOf(q, "video", 0).dts = FirstDts + vo - video_start
    /\ \A t \in Track :
          /\ first[t] = FirstOf(q, "audio", t).dts_usec
          /\ FirstOf(q, "audio", t).dts = FirstDts + first[t] - audio_start[t]

(* The queue begins with the time of its first video packet.               *)
FromVideo(q, time) ==
    /\ \A i \in DOMAIN q : time <= q[i].dts_usec
    /\ \E i \in DOMAIN q : q[i].type = "video" /\ q[i].dts_usec = time

LEMMA FirstTimes ==
    ASSUME NEW q \in Seq(Packet), InOrder(q), Everyone(q),
           NEW nv \in Int, NEW na \in [Track -> Int], NEW hd \in [Track -> Nat],
           Waits(q, nv, na, hd), NEW ha \in Int, NEW hv \in Int, Below(q, ha, hv),
           NEW time \in Int, FromVideo(q, time),
           video_start \in Nat, audio_start \in [Track -> Nat]
    PROVE  \E vo \in Int, first \in [Track -> Int] :
              /\ Starts(q, vo, first) /\ Firsts(q, vo, first) /\ InStep(vo, first, hd)
              /\ vo <= hv /\ \A t \in Track : first[t] <= ha
  <1>1. Chain(q) /\ Latest(q, nv, na) /\ Tracked(q)
    BY DEF Waits
  <1>2. PICK v \in DOMAIN q :
            /\ q[v] = FirstOf(q, "video", 0) /\ First(q, v)
            /\ q[v] \in Packet /\ q[v].type = "video" /\ q[v].track_idx = 0
            /\ \A j \in DOMAIN q : q[j].type = "video" /\ q[j].track_idx = 0
                  => q[v].dts_usec <= q[j].dts_usec
    BY <1>1, FirstIs DEF Everyone
  <1>3. PICK vo \in Int : vo = q[v].dts_usec
    BY <1>2, PacketIs
  <1>4. q[v].dts = FirstDts + vo - video_start
    <2>1. Unshifted(q[v])
      BY DEF Waits
    <2>2. QED
      BY <1>2, <1>3, <2>1 DEF Unshifted
  <1>5. vo <= hv
    BY <1>2, <1>3 DEF Below
  <1>6. vo = time
    <2>1. PICK i \in DOMAIN q : q[i].type = "video" /\ q[i].dts_usec = time
      BY DEF FromVideo
    <2>2. q[i].track_idx = 0
      BY <1>1, <2>1 DEF Tracked
    <2>3. vo <= time /\ time <= vo
      BY <1>2, <1>3, <2>1, <2>2 DEF FromVideo
    <2>4. QED
      BY <2>3
  <1>7. PICK first : first = [t \in Track |-> FirstOf(q, "audio", t).dts_usec]
    OBVIOUS
  <1>8. ASSUME NEW t \in Track
        PROVE  \E i \in DOMAIN q :
                  /\ q[i] = FirstOf(q, "audio", t) /\ First(q, i)
                  /\ q[i] \in Packet /\ q[i].type = "audio" /\ q[i].track_idx = t
                  /\ \A j \in DOMAIN q : q[j].type = "audio" /\ q[j].track_idx = t
                        => q[i].dts_usec <= q[j].dts_usec
    BY <1>1, FirstIs DEF Everyone
  <1>9. first \in [Track -> Int]
    <2>1. \A t \in Track : FirstOf(q, "audio", t).dts_usec \in Int
      BY <1>8, PacketIs
    <2>2. QED
      BY <1>7, <2>1
  <1>10. ASSUME NEW t \in Track
         PROVE  /\ first[t] = FirstOf(q, "audio", t).dts_usec
                /\ FirstOf(q, "audio", t).dts = FirstDts + first[t] - audio_start[t]
                /\ first[t] <= ha
                /\ hd[t] # Never /\ (hd[t] <= vo => first[t] - vo \in 0 .. TickLen)
                /\ \A j \in DOMAIN q : q[j].type = "audio" /\ q[j].track_idx = t
                        => first[t] <= q[j].dts_usec
                /\ \E j \in DOMAIN q : q[j].type = "audio" /\ q[j].track_idx = t
                                       /\ q[j].dts_usec = first[t]
    <2>1. PICK i \in DOMAIN q :
                  /\ q[i] = FirstOf(q, "audio", t)
                  /\ q[i] \in Packet /\ q[i].type = "audio" /\ q[i].track_idx = t
                  /\ \A j \in DOMAIN q : q[j].type = "audio" /\ q[j].track_idx = t
                        => q[i].dts_usec <= q[j].dts_usec
      BY <1>8
    <2>2. PICK x \in Int : x = first[t] /\ x = q[i].dts_usec
      BY <1>7, <2>1, PacketIs
    <2>3. q[i].dts = FirstDts + x - audio_start[t]
      <3>1. Unshifted(q[i])
        BY DEF Waits
      <3>2. QED
        BY <2>1, <2>2, <3>1 DEF Unshifted
    <2>4. x <= ha
      BY <2>1, <2>2 DEF Below
    <2>5. Reaches(q, na, hd, t)
      BY DEF Waits
    <2>6. hd[t] # Never
      BY <2>1, <2>5 DEF Reaches, Has
    <2>7. ASSUME hd[t] <= vo PROVE x - vo \in 0 .. TickLen
      <3>1. vo <= x
        BY <1>6, <2>2 DEF FromVideo
      <3>2. na[t] <= vo + TickLen \/ Within(q, t, vo + TickLen)
        BY <1>2, <1>3, <2>5, <2>6, <2>7 DEF Reaches
      <3>3. x <= vo + TickLen
        <4>1. CASE Within(q, t, vo + TickLen)
          <5>1. PICK j \in DOMAIN q : q[j].type = "audio" /\ q[j].track_idx = t
                                      /\ q[j].dts_usec <= vo + TickLen
            BY <4>1 DEF Within
          <5>2. x <= q[j].dts_usec /\ q[j].dts_usec \in Int
            BY <2>1, <2>2, <5>1, TimesAreInts
          <5>3. TickLen \in Int
            BY PacketIs
          <5>4. QED
            BY ONLY <5>1, <5>2, <5>3, x \in Int, vo \in Int
        <4>2. CASE na[t] <= vo + TickLen
          <5>1. x + TickLen <= na[t]
            <6>1. q[i].dts_usec + Length(q[i]) <= After(q[i], nv, na)
              BY <1>1 DEF Latest
            <6>2. Length(q[i]) = TickLen /\ After(q[i], nv, na) = na[t]
              BY <2>1 DEF Length, After
            <6>3. QED
              BY <2>2, <6>1, <6>2
          <5>2. na[t] \in Int /\ TickLen \in Int /\ TickLen > 0
            BY PacketIs
          <5>3. QED
            BY ONLY <4>2, <5>1, <5>2, x \in Int, vo \in Int
        <4>3. QED
          BY <3>2, <4>1, <4>2
      <3>4. PICK f \in Int : f = TickLen
        BY PacketIs
      <3>5. x - vo \in 0 .. f
        <4>1. vo <= x /\ x <= vo + f
          BY <3>1, <3>3, <3>4
        <4>2. QED
          BY ONLY <4>1, x \in Int, vo \in Int, f \in Int
      <3>6. QED
        BY <3>4, <3>5
    <2>8. QED
      BY <2>1, <2>2, <2>3, <2>4, <2>6, <2>7
  <1>11. Starts(q, vo, first)
    BY <1>2, <1>3, <1>4, <1>10 DEF Starts
  <1>12. InStep(vo, first, hd)
    BY <1>10 DEF InStep
  <1>13. Firsts(q, vo, first)
    <2> SUFFICES ASSUME NEW i \in DOMAIN q
                 PROVE  /\ Base(q[i], vo, first) <= q[i].dts_usec
                        /\ \E j \in DOMAIN q : /\ Same(q[j], q[i])
                                               /\ q[j].dts_usec = Base(q[i], vo, first)
      BY DEF Firsts
    <2>1. q[i].type \in {"video", "audio"} /\ q[i].track_idx \in Track
      BY TimesAreInts, PacketIs
    <2>2. CASE q[i].type = "video"
      <3>1. q[i].track_idx = 0 /\ Base(q[i], vo, first) = vo
        BY <1>1, <2>2 DEF Tracked, Base
      <3>2. vo <= q[i].dts_usec /\ Same(q[v], q[i])
        BY <1>2, <1>3, <2>2, <3>1 DEF Same
      <3>3. QED
        BY <1>3, <3>1, <3>2
    <2>3. CASE q[i].type = "audio"
      <3>1. PICK t \in Track : t = q[i].track_idx /\ Base(q[i], vo, first) = first[t]
        BY <2>1, <2>3 DEF Base
      <3>2. PICK j \in DOMAIN q : q[j].type = "audio" /\ q[j].track_idx = t
                                  /\ q[j].dts_usec = first[t]
        BY <1>10
      <3>3. first[t] <= q[i].dts_usec
        BY <1>10, <2>3, <3>1
      <3>4. Same(q[j], q[i])
        BY <2>3, <3>1, <3>2 DEF Same
      <3>5. QED
        BY <3>1, <3>2, <3>3, <3>4
    <2>4. QED
      BY <2>1, <2>2, <2>3
  <1>14. QED
    BY <1>5, <1>9, <1>10, <1>11, <1>12, <1>13

(* The packets with their offsets.                                         *)
Plain(q) == \A i \in DOMAIN q : Unshifted(q[i])

OffsetBy(aoff, first) == \A t \in Track : aoff[t] = FirstDts + first[t] - audio_start[t]

Shifts(s, q, voff, aoff) == \A i \in DOMAIN q : s[i] = Shifted(q[i], voff, aoff)

LEMMA ShiftedRuns ==
    ASSUME NEW q \in Seq(Packet), Plain(q),
           NEW vo \in Int, NEW first \in [Track -> Int],
           NEW voff \in Int, voff = FirstDts + vo - video_start,
           NEW aoff \in [Track -> Int], OffsetBy(aoff, first),
           video_start \in Nat, audio_start \in [Track -> Nat]
    PROVE  \E s \in Seq(Packet) : Shifts(s, q, voff, aoff) /\ Rebased(s, q, vo, first)
  <1>1. PICK n \in Nat : n = Len(q) /\ DOMAIN q = 1 .. n
    BY LenProperties
  <1>2. ASSUME NEW i \in 1 .. n
        PROVE  /\ Shifted(q[i], voff, aoff) \in Packet
               /\ Same(Shifted(q[i], voff, aoff), q[i])
               /\ Shifted(q[i], voff, aoff).dts_usec = q[i].dts_usec - Base(q[i], vo, first)
    <2>1. PICK p \in Packet : p = q[i]
      BY <1>1, TimesAreInts
    <2>2. PICK dts : dts = p.dts - (IF p.type = "video" THEN voff ELSE aoff[p.track_idx])
      OBVIOUS
    <2>3. PICK x : x = Shifted(p, voff, aoff)
      OBVIOUS
    <2>4. x \in Packet /\ x.type = p.type /\ x.track_idx = p.track_idx /\ x.dts_usec = dts
      BY <2>2, <2>3, ShiftedIs
    <2>5. p.dts = FirstDts + p.dts_usec
                  - (IF p.type = "video" THEN video_start ELSE audio_start[p.track_idx])
      BY <1>1, <2>1 DEF Plain, Unshifted
    <2>6. p.type \in {"video", "audio"} /\ p.track_idx \in Track /\ p.dts_usec \in Int
      BY PacketIs
    <2>7. dts = p.dts_usec - Base(p, vo, first)
      <3>1. CASE p.type = "video"
        BY <2>2, <2>5, <2>6, <3>1, Lengths DEF Base
      <3>2. CASE p.type # "video"
        <4>1. PICK t \in Track : t = p.track_idx
          BY <2>6
        <4>2. /\ aoff[t] = FirstDts + first[t] - audio_start[t]
              /\ first[t] \in Int /\ audio_start[t] \in Int /\ FirstDts \in Int
          BY Lengths DEF OffsetBy
        <4>3. dts = p.dts - aoff[t] /\ p.dts = FirstDts + p.dts_usec - audio_start[t]
          BY <2>2, <2>5, <3>2, <4>1
        <4>4. Base(p, vo, first) = first[t]
          BY <3>2, <4>1 DEF Base
        <4>5. PICK y \in Int, e \in Int, b \in Int, o \in Int :
                  y = p.dts_usec /\ e = FirstDts /\ b = first[t] /\ o = audio_start[t]
          BY ONLY <2>6, <4>2
        <4>6. dts = (e + y - o) - (e + b - o)
          BY ONLY <4>2, <4>3, <4>5
        <4>7. dts = y - b
          BY ONLY <4>6, y \in Int, e \in Int, b \in Int, o \in Int
        <4>8. QED
          BY ONLY <4>4, <4>5, <4>7
      <3>3. QED
        BY <3>1, <3>2
    <2>8. QED
      BY <2>1, <2>3, <2>4, <2>7 DEF Same
  <1>3. PICK s : s = [i \in 1 .. n |-> Shifted(q[i], voff, aoff)]
    OBVIOUS
  <1>4. s \in Seq(Packet) /\ DOMAIN s = 1 .. n /\ \A i \in 1 .. n : s[i] = Shifted(q[i], voff, aoff)
    <2>1. \A i \in 1 .. n : Shifted(q[i], voff, aoff) \in Packet
      BY <1>2
    <2>2. [i \in 1 .. n |-> Shifted(q[i], voff, aoff)] \in Seq(Packet)
      BY <2>1, SeqDef
    <2>3. QED
      BY <1>3, <2>2
  <1>5. Rebased(s, q, vo, first)
    BY <1>1, <1>2, <1>4 DEF Rebased
  <1>6. Shifts(s, q, voff, aoff)
    BY <1>1, <1>4 DEF Shifts
  <1>7. QED
    BY <1>4, <1>5, <1>6

-----------------------------------------------------------------------------
(* send_interleaved, and the start.                                        *)
LEMMA SendRuns ==
    ASSUME sent \in Seq(Packet), NEW r \in Seq(Packet), r # <<>>, InOrder(r),
           NEW ha, NEW hv, Send(r, ha, hv)
    PROVE  /\ interleaved_packets' \in Seq(Packet) /\ sent' \in Seq(Packet)
           /\ InOrder(interleaved_packets')
           /\ sent' \o interleaved_packets' = sent \o r
  <1>1. CASE HasHigherOpposing(r[1], ha, hv)
    <2>1. PICK n \in Nat : n = Len(r) /\ DOMAIN r = 1 .. n /\ n # 0
      BY LenProperties, EmptySeq
    <2>2. PICK rest \in Seq(Packet) :
              rest = Tail(r) /\ DOMAIN rest = 1 .. n - 1 /\ \A i \in 1 .. n - 1 : rest[i] = r[i + 1]
      <3>1. Tail(r) \in Seq(Packet) /\ Len(Tail(r)) = n - 1
            /\ \A i \in 1 .. Len(Tail(r)) : Tail(r)[i] = r[i + 1]
        BY <2>1, HeadTailProperties
      <3>2. DOMAIN Tail(r) = 1 .. n - 1
        BY <3>1, LenProperties
      <3>3. QED
        BY <3>1, <3>2
    <2>3. InOrder(rest)
      <3> SUFFICES ASSUME NEW i \in 1 .. n - 1, NEW j \in 1 .. n - 1, i < j
                   PROVE  rest[i].dts_usec <= rest[j].dts_usec
        BY <2>2 DEF InOrder
      <3>1. i + 1 \in DOMAIN r /\ j + 1 \in DOMAIN r /\ i + 1 < j + 1
        BY <2>1
      <3>2. rest[i] = r[i + 1] /\ rest[j] = r[j + 1]
        BY <2>2
      <3>3. QED
        BY <3>1, <3>2 DEF InOrder
    <2>4. PICK gone \in Seq(Packet) : gone = Append(sent, r[1])
      <3>1. r[1] \in Packet
        BY <2>1, TimesAreInts
      <3>2. QED
        BY <3>1, AppendProperties
    <2>5. interleaved_packets' = rest /\ sent' = gone
      BY <1>1, <2>2, <2>4 DEF Send
    <2>6. gone \o rest = sent \o r
      BY <2>2, <2>4, SendAll
    <2>7. QED
      BY <2>3, <2>5, <2>6
  <1>2. CASE ~HasHigherOpposing(r[1], ha, hv)
    <2>1. interleaved_packets' = r /\ sent' = sent
      BY <1>2 DEF Send
    <2>2. QED
      BY <2>1
  <1>3. QED
    BY <1>1, <1>2

(* What the start leaves.                                                  *)
Begins(vo, first, mv, ma, nv, na, hd) ==
    /\ mv = nv - vo /\ Taken(ma, na, first) /\ InStep(vo, first, hd)
    /\ received_audio /\ received_video
    /\ video_offset = FirstDts + vo - video_start
    /\ audio_offsets \in [Track -> Int]
    /\ \A t \in Track : audio_offsets[t] = FirstDts + first[t] - audio_start[t]
    /\ highest_audio_ts \in Nat /\ highest_video_ts \in Nat
    /\ interleaved_packets \in Seq(Packet) /\ sent \in Seq(Packet)
    /\ InOrder(interleaved_packets) /\ Runs(All, mv, ma)

LEMMA BeginRuns ==
    ASSUME NEW q \in Seq(Packet), q # <<>>, InOrder(q), Everyone(q),
           NEW nv \in Int, NEW na \in [Track -> Int], NEW hd \in [Track -> Nat],
           Waits(q, nv, na, hd), NEW ha \in Int, NEW hv \in Int, Below(q, ha, hv),
           NEW time \in Int, FromVideo(q, time), sent = <<>>,
           video_start \in Nat, audio_start \in [Track -> Nat],
           video_start' = video_start, audio_start' = audio_start,
           Begin(q, ha, hv)
    PROVE  \E vo \in Int, first \in [Track -> Int], mv \in Int, ma \in [Track -> Int] :
              Begins(vo, first, mv, ma, nv, na, hd)'
  <1>1. PICK vo \in Int, first \in [Track -> Int] :
            /\ Starts(q, vo, first) /\ Firsts(q, vo, first) /\ InStep(vo, first, hd)
            /\ vo <= hv /\ \A t \in Track : first[t] <= ha
    BY FirstTimes
  <1>2. PICK voff \in Int : voff = FirstDts + vo - video_start
    BY Lengths
  <1>3. PICK aoff \in [Track -> Int] :
            aoff = [t \in Track |-> FirstDts + first[t] - audio_start[t]]
    <2>1. \A t \in Track : FirstDts + first[t] - audio_start[t] \in Int
      BY Lengths
    <2>2. QED
      BY <2>1
  <1>4. OffsetBy(aoff, first)
    BY <1>3 DEF OffsetBy
  <1>5. PICK mv \in Int : mv = nv - vo
    OBVIOUS
  <1>6. PICK ma \in [Track -> Int] : Taken(ma, na, first)
    <2>1. \A t \in Track : na[t] - first[t] \in Int
      OBVIOUS
    <2>2. [t \in Track |-> na[t] - first[t]] \in [Track -> Int]
      BY <2>1
    <2>3. QED
      BY <2>2 DEF Taken
  <1>7. Plain(q)
    BY DEF Waits, Plain
  <1>8. PICK s \in Seq(Packet) :
            Shifts(s, q, voff, aoff) /\ Rebased(s, q, vo, first)
    BY ONLY <1>2, <1>4, <1>7, ShiftedRuns, q \in Seq(Packet), vo \in Int, voff \in Int,
            first \in [Track -> Int], aoff \in [Track -> Int],
            video_start \in Nat, audio_start \in [Track -> Nat]
  <1>9. Runs(s, mv, ma)
    <2>1. Chain(q) /\ Latest(q, nv, na) /\ Tracked(q)
      BY DEF Waits
    <2>2. QED
      BY <1>1, <1>5, <1>6, <1>8, <2>1, RebasedRuns
  <1>10. PICK r \in Seq(Packet) : /\ r = Resorted(q, voff, aoff) /\ r # <<>>
                                  /\ InOrder(r) /\ Runs(r, mv, ma)
    <2>1. DOMAIN s = DOMAIN q
      BY <1>8 DEF Rebased
    <2>2. \A i \in DOMAIN q : s[i] = Shifted(q[i], voff, aoff)
      BY <1>8 DEF Shifts
    <2>3. QED
      BY <1>9, <2>1, <2>2, ResortedRuns
  <1>11. 0 \in Track
    BY InterleaverAssumption DEF Track
  <1>12. PICK a \in Nat, v \in Nat : a = ha - first[0] /\ v = hv - vo
    <2>1. first[0] \in Int /\ first[0] <= ha
      BY <1>1, <1>11
    <2>2. ha - first[0] \in Nat /\ hv - vo \in Nat
      BY <1>1, <2>1
    <2>3. QED
      BY <2>2
  <1>13. /\ received_audio' = TRUE /\ received_video' = TRUE
         /\ video_offset' = voff /\ audio_offsets' = aoff
         /\ highest_audio_ts' = a /\ highest_video_ts' = v
         /\ Send(r, a, v)
    <2>1. aoff = [t \in Track |-> FirstOf(q, "audio", t).dts]
      BY <1>1, <1>3 DEF Starts
    <2>2. audio_offsets' = aoff
      BY <2>1 DEF Begin
    <2>3. video_offset' = voff
      BY <1>1, <1>2 DEF Begin, Starts
    <2>4. highest_audio_ts' = a /\ highest_video_ts' = v
      <3>1. first[0] = FirstOf(q, "audio", 0).dts_usec /\ vo = FirstOf(q, "video", 0).dts_usec
        BY <1>1, <1>11 DEF Starts
      <3>2. QED
        BY <1>11, <1>12, <3>1 DEF Begin
    <2>5. received_audio' = TRUE /\ received_video' = TRUE
      BY DEF Begin
    <2>6. Send(Resorted(q, video_offset', audio_offsets'), highest_audio_ts', highest_video_ts')
      BY DEF Begin
    <2>7. Send(r, a, v)
      BY <1>10, <2>2, <2>3, <2>4, <2>6
    <2>8. QED
      BY <2>2, <2>3, <2>4, <2>5, <2>7
  <1>14. /\ interleaved_packets' \in Seq(Packet) /\ sent' \in Seq(Packet)
         /\ InOrder(interleaved_packets') /\ sent' \o interleaved_packets' = sent \o r
    <2>1. sent \in Seq(Packet)
      BY EmptySeq
    <2>2. QED
      BY <1>10, <1>13, <2>1, SendRuns
  <1>15. sent \o r = r
    BY ConcatEmptySeq
  <1>16. Runs(All', mv, ma)
    BY <1>10, <1>14, <1>15 DEF All
  <1>17. Begins(vo, first, mv, ma, nv, na, hd)'
    <2>1. received_audio' /\ received_video'
      BY Zenon, <1>13
    <2>2. highest_audio_ts' \in Nat /\ highest_video_ts' \in Nat /\ audio_offsets' \in [Track -> Int]
      BY Zenon, <1>13
    <2>3. /\ video_offset' = FirstDts + vo - video_start'
          /\ \A t \in Track : audio_offsets'[t] = FirstDts + first[t] - audio_start'[t]
      BY <1>2, <1>4, <1>13 DEF OffsetBy
    <2>4. QED
      BY Zenon, <1>1, <1>5, <1>6, <1>14, <1>16, <2>1, <2>2, <2>3 DEF Begins
  <1>18. QED
    BY <1>17

-----------------------------------------------------------------------------
(* One packet: the streams run on, by the time the next packets are        *)
(* stamped, without their offsets.                                         *)
Now(nv, na, tv, tn) ==
    nv = tv - VideoBase /\ na = [t \in Track |-> tn[t] - AudioBase(t)]

Synced(hd) ==
    \A t \in Track :
        /\ hd[t] # Never
        /\ hd[t] <= video_start + video_offset - FirstDts => Skew(t) \in 0 .. TickLen

QueueTypes ==
    /\ interleaved_packets \in Seq(Packet) /\ sent \in Seq(Packet)
    /\ received_audio \in BOOLEAN /\ received_video \in BOOLEAN
    /\ highest_audio_ts \in Nat /\ highest_video_ts \in Nat
    /\ video_offset \in Int /\ audio_offsets \in [Track -> Int]
    /\ InOrder(interleaved_packets)

Running(tv, tn, hd) ==
    /\ Started /\ Synced(hd)
    /\ Runs(All, tv - VideoBase, [t \in Track |-> tn[t] - AudioBase(t)])

Awaiting(tv, tn, hd) ==
    /\ ~Started /\ sent = <<>> /\ Waits(interleaved_packets, tv, tn, hd)
    /\ Below(interleaved_packets, highest_audio_ts, highest_video_ts)
    /\ received_video => Has(interleaved_packets, "video", 0)

OnLine(tv, tn, hd) == QueueTypes /\ (Running(tv, tn, hd) \/ Awaiting(tv, tn, hd))

(* Sent on.                                                                *)
LEMMA RunningOn ==
    ASSUME QueueTypes, Started, NEW q \in Seq(Packet), q # <<>>, InOrder(q),
           NEW ha \in Nat, NEW hv \in Nat,
           highest_audio_ts' = ha, highest_video_ts' = hv, Send(q, ha, hv),
           UNCHANGED <<received_audio, received_video, video_offset, audio_offsets>>,
           video_start' = video_start, audio_start' = audio_start,
           NEW tv \in Int, NEW tn \in [Track -> Int], NEW hd \in [Track -> Nat], Synced(hd),
           NEW nv \in Int, NEW na \in [Track -> Int], Now(nv, na, tv, tn),
           Runs(sent \o q, nv, na)
    PROVE  OnLine(tv, tn, hd)'
  <1>1. /\ interleaved_packets' \in Seq(Packet) /\ sent' \in Seq(Packet)
        /\ InOrder(interleaved_packets') /\ sent' \o interleaved_packets' = sent \o q
    BY SendRuns DEF QueueTypes
  <1>2. /\ received_audio' = received_audio /\ received_video' = received_video
        /\ video_offset' = video_offset /\ audio_offsets' = audio_offsets
    OBVIOUS
  <1>3. QueueTypes'
    <2>1. /\ received_audio' \in BOOLEAN /\ received_video' \in BOOLEAN
          /\ video_offset' \in Int /\ audio_offsets' \in [Track -> Int]
      BY Zenon, <1>2 DEF QueueTypes
    <2>2. highest_audio_ts' \in Nat /\ highest_video_ts' \in Nat
      BY Zenon
    <2>3. QED
      BY Zenon, <1>1, <2>1, <2>2 DEF QueueTypes
  <1>4. Started'
    <2>1. received_audio = TRUE /\ received_video = TRUE
      BY DEF Started, QueueTypes
    <2>2. received_audio' = TRUE /\ received_video' = TRUE
      BY <1>2, <2>1
    <2>3. QED
      BY Zenon, <2>2 DEF Started
  <1>5. VideoBase' = VideoBase /\ \A t \in Track : AudioBase(t)' = AudioBase(t)
    BY Zenon, <1>2, <1>4 DEF VideoBase, AudioBase
  <1>6. Now(nv, na, tv, tn)'
    BY <1>5 DEF Now
  <1>7. Synced(hd)'
    <2>1. \A t \in Track : Skew(t)' = Skew(t)
      BY Zenon, <1>2 DEF Skew
    <2>2. QED
      BY <1>2, <2>1 DEF Synced
  <1>8. Runs(All', nv, na)
    BY <1>1 DEF All
  <1>9. Running(tv, tn, hd)'
    BY <1>4, <1>6, <1>7, <1>8 DEF Running, Now
  <1>10. QED
    BY <1>3, <1>9 DEF OnLine

(* The start.                                                              *)
LEMMA RunningFrom ==
    ASSUME NEW vo \in Int, NEW first \in [Track -> Int], NEW mv \in Int,
           NEW ma \in [Track -> Int], NEW tv \in Int, NEW tn \in [Track -> Int],
           NEW hd \in [Track -> Nat], Begins(vo, first, mv, ma, tv, tn, hd)',
           received_audio' \in BOOLEAN, received_video' \in BOOLEAN,
           video_start \in Nat, audio_start \in [Track -> Nat],
           video_start' = video_start, audio_start' = audio_start
    PROVE  OnLine(tv, tn, hd)'
  <1> PICK vs \in Int, as \in [Track -> Int] :
           vs = video_start' /\ as = audio_start'
    OBVIOUS
  <1>1. video_offset' = FirstDts + vo - vs /\ FirstDts \in Int
    BY Lengths DEF Begins
  <1> PICK voff \in Int : voff = video_offset'
    BY <1>1
  <1>2. audio_offsets' \in [Track -> Int]
    BY DEF Begins
  <1> PICK aoff \in [Track -> Int] : aoff = audio_offsets'
    BY <1>2
  <1>3. ASSUME NEW t \in Track PROVE aoff[t] = FirstDts + first[t] - as[t]
    BY DEF Begins
  <1>4. Started'
    BY DEF Begins, Started
  <1>5. VideoBase' = vo
    BY <1>1, <1>4 DEF VideoBase
  <1>6. ASSUME NEW t \in Track PROVE AudioBase(t)' = first[t] /\ Skew(t)' = first[t] - vo
    <2>1. PICK e \in Int, f \in Int, s \in Int, o \in Int :
              e = FirstDts /\ f = first[t] /\ s = as[t] /\ o = aoff[t]
      BY <1>1
    <2>2. o = e + f - s /\ voff = e + vo - vs
      BY <1>1, <1>3, <2>1
    <2>3. AudioBase(t)' = s + o - e
      BY <1>4, <2>1 DEF AudioBase
    <2>4. Skew(t)' = (s + o) - (vs + voff)
      BY <2>1 DEF Skew
    <2>5. s + o - e = f /\ (s + o) - (vs + voff) = f - vo
      BY ONLY <2>2, e \in Int, f \in Int, s \in Int, o \in Int,
              vs \in Int, vo \in Int, voff \in Int
    <2>6. AudioBase(t)' = f /\ Skew(t)' = f - vo
      BY ONLY <2>3, <2>4, <2>5
    <2>7. QED
      BY Zenon, <2>1, <2>6
  <1>7. Synced(hd)'
    <2>1. (video_start + video_offset - FirstDts)' = vo
      BY <1>1
    <2>2. QED
      BY <1>6, <2>1 DEF Begins, InStep, Synced
  <1>8. mv = tv - VideoBase' /\ ma = [t \in Track |-> tn[t] - AudioBase(t)']
    <2>1. \A t \in Track : ma[t] = tn[t] - AudioBase(t)'
      BY <1>6 DEF Begins, Taken
    <2>2. QED
      BY <1>5, <2>1 DEF Begins
  <1>9. Running(tv, tn, hd)'
    BY <1>4, <1>7, <1>8 DEF Running, Begins
  <1>10. QueueTypes'
    BY Zenon, video_offset' \in Int, audio_offsets' \in [Track -> Int] DEF QueueTypes, Begins
  <1>11. QED
    BY <1>9, <1>10 DEF OnLine

(* Not yet.                                                                *)
LEMMA AwaitingOn ==
    ASSUME ~Started', NEW q \in Seq(Packet), InOrder(q), NEW ha \in Nat, NEW hv \in Nat,
           NEW tv \in Int, NEW tn \in [Track -> Int], NEW hd \in [Track -> Nat],
           Waits(q, tv, tn, hd), Below(q, ha, hv),
           interleaved_packets' = q, sent' = <<>>,
           highest_audio_ts' = ha, highest_video_ts' = hv,
           received_audio' \in BOOLEAN, received_video' \in BOOLEAN,
           received_video' => Has(q, "video", 0),
           NEW voff \in Int, video_offset' = voff,
           NEW aoff \in [Track -> Int], audio_offsets' = aoff,
           video_start' = video_start, audio_start' = audio_start
    PROVE  OnLine(tv, tn, hd)'
  <1>1. <<>> \in Seq(Packet)
    BY EmptySeq
  <1>2. QueueTypes'
    BY Zenon, <1>1 DEF QueueTypes
  <1>3. \A p : Unshifted(p)' = Unshifted(p)
    BY Zenon DEF Unshifted
  <1>4. Waits(interleaved_packets, tv, tn, hd)'
    <2>1. Chain(q) /\ Latest(q, tv, tn) /\ Tracked(q) /\ \A t \in Track : Reaches(q, tn, hd, t)
      BY DEF Waits
    <2>2. \A i \in DOMAIN q : Unshifted(q[i])' /\ q[i].dts_usec >= 0
      BY <1>3 DEF Waits
    <2>3. QED
      BY <2>1, <2>2 DEF Waits
  <1>5. Awaiting(tv, tn, hd)'
    BY <1>4 DEF Awaiting
  <1>6. QED
    BY <1>2, <1>5 DEF OnLine

(* The packet as it is queued.                                             *)
LEMMA VideoIn ==
    ASSUME QueueTypes, video_start \in Nat, NEW time \in Nat,
           NEW packet, packet = Video(time), NEW out,
           out = IF Started THEN Shifted(packet, video_offset, audio_offsets) ELSE packet
    PROVE  /\ packet \in Packet /\ packet.type = "video"
           /\ out \in Packet /\ out.type = "video" /\ out.track_idx = 0
           /\ VideoBase \in Int /\ out.dts_usec = time - VideoBase
           /\ ~Started => Unshifted(out) /\ out.dts_usec = time
  <1>1. PICK dts \in Int : dts = FirstDts + time - video_start
    BY Lengths
  <1>2. packet = [type |-> "video", track_idx |-> 0, dts_usec |-> time, dts |-> dts]
    BY <1>1 DEF Video
  <1>3. packet \in Packet
    <2>1. 0 \in Track
      BY InterleaverAssumption DEF Track
    <2>2. QED
      BY <1>2, <2>1 DEF Packet
  <1>4. video_start \in Int /\ video_offset \in Int /\ audio_offsets \in [Track -> Int]
    BY DEF QueueTypes
  <1>5. VideoBase \in Int
    BY <1>4, Lengths DEF VideoBase
  <1>6. CASE Started
    <2>1. PICK x : x = Shifted(packet, video_offset, audio_offsets)
      OBVIOUS
    <2>2. /\ x \in Packet /\ x.type = packet.type /\ x.track_idx = packet.track_idx
          /\ x.dts_usec = packet.dts - (IF packet.type = "video" THEN video_offset
                                        ELSE audio_offsets[packet.track_idx])
      BY <1>3, <1>4, <2>1, ShiftedIs
    <2>3. x.dts_usec = dts - video_offset
      BY <1>2, <2>2
    <2>4. VideoBase = video_start + video_offset - FirstDts
      BY <1>6 DEF VideoBase
    <2>5. dts - video_offset = time - VideoBase
      BY <1>1, <1>4, <2>4, Lengths
    <2>6. QED
      BY <1>2, <1>3, <1>5, <1>6, <2>1, <2>2, <2>3, <2>5
  <1>7. CASE ~Started
    <2>1. VideoBase = 0 /\ time - 0 = time
      BY <1>7 DEF VideoBase
    <2>2. Unshifted(packet)
      BY <1>1, <1>2, <1>4, Lengths DEF Unshifted
    <2>3. QED
      BY <1>2, <1>3, <1>5, <1>7, <2>1, <2>2
  <1>8. QED
    BY <1>6, <1>7

LEMMA AudioIn ==
    ASSUME QueueTypes, audio_start \in [Track -> Nat], NEW time \in Nat, NEW u \in Track,
           NEW packet, packet = Audio(time, u), NEW out,
           out = IF Started THEN Shifted(packet, video_offset, audio_offsets) ELSE packet
    PROVE  /\ packet \in Packet /\ packet.type = "audio"
           /\ out \in Packet /\ out.type = "audio" /\ out.track_idx = u
           /\ out.dts_usec = time - AudioBase(u)
           /\ ~Started => Unshifted(out) /\ out.dts_usec = time
  <1>1. PICK b \in Int : b = audio_start[u]
    OBVIOUS
  <1>2. PICK dts \in Int : dts = FirstDts + time - b
    BY Lengths
  <1>3. packet = [type |-> "audio", track_idx |-> u, dts_usec |-> time, dts |-> dts]
    BY <1>1, <1>2 DEF Audio
  <1>4. packet \in Packet
    BY <1>3 DEF Packet
  <1>5. video_offset \in Int /\ audio_offsets \in [Track -> Int]
    BY DEF QueueTypes
  <1>6. CASE Started
    <2>1. PICK x : x = Shifted(packet, video_offset, audio_offsets)
      OBVIOUS
    <2>2. /\ x \in Packet /\ x.type = packet.type /\ x.track_idx = packet.track_idx
          /\ x.dts_usec = packet.dts - (IF packet.type = "video" THEN video_offset
                                        ELSE audio_offsets[packet.track_idx])
      BY <1>4, <1>5, <2>1, ShiftedIs
    <2>3. x.dts_usec = dts - audio_offsets[u]
      BY <1>3, <2>2
    <2>4. PICK o \in Int : o = audio_offsets[u]
      BY <1>5
    <2>5. AudioBase(u) = b + o - FirstDts
      BY <1>1, <1>6, <2>4 DEF AudioBase
    <2>6. dts - o = time - (b + o - FirstDts)
      BY <1>2, Lengths
    <2>7. QED
      BY <1>3, <1>4, <1>6, <2>1, <2>2, <2>3, <2>4, <2>5, <2>6
  <1>7. CASE ~Started
    <2>1. AudioBase(u) = 0 /\ time - 0 = time
      BY <1>7 DEF AudioBase
    <2>2. Unshifted(packet)
      BY <1>1, <1>2, <1>3, Lengths DEF Unshifted
    <2>3. QED
      BY <1>3, <1>4, <1>7, <2>1, <2>2
  <1>8. QED
    BY <1>6, <1>7

(* What a packet does to the queue.                                        *)
LEMMA PacketOnLine ==
    ASSUME QueueTypes, NEW packet \in Packet, NEW out \in Packet,
           out = IF Started THEN Shifted(packet, video_offset, audio_offsets) ELSE packet,
           NEW q \in Seq(Packet), q = Insert(interleaved_packets, out), q # <<>>, InOrder(q),
           NEW ha \in Nat, ha = Higher(highest_audio_ts, out, "audio"),
           NEW hv \in Nat, hv = Higher(highest_video_ts, out, "video"),
           video_start \in Nat, audio_start \in [Track -> Nat],
           video_start' = video_start, audio_start' = audio_start,
           NEW tv \in Int, NEW tn \in [Track -> Int], NEW hd \in [Track -> Nat],
           NEW nv \in Int, NEW na \in [Track -> Int],
           Started => Synced(hd) /\ Now(nv, na, tv, tn) /\ Runs(sent \o q, nv, na),
           ~Started => /\ sent = <<>> /\ Waits(q, tv, tn, hd) /\ Below(q, ha, hv)
                       /\ received_video \/ packet.type = "video" => Has(q, "video", 0),
           InterleavePacket(packet)
    PROVE  OnLine(tv, tn, hd)'
  <1> DEFINE p == Pruned(q)
             audio == received_audio \/ packet.type = "audio"
             video == received_video \/ packet.type = "video"
             ready == Has(p, "video", 0) /\ \A t \in Track : Has(p, "audio", t)
  <1>1. ASSUME ~Started, video
        PROVE  /\ p \in Seq(Packet) /\ p # <<>> /\ InOrder(p)
               /\ Waits(p, tv, tn, hd) /\ Below(p, ha, hv) /\ Has(p, "video", 0)
               /\ \E time \in Int : FromVideo(p, time)
    <2>1. Has(q, "video", 0) /\ Waits(q, tv, tn, hd) /\ Below(q, ha, hv)
      BY <1>1
    <2>2. PICK k \in Nat, time \in Int : Prunes(p, q, k, time)
      BY <2>1, PrunesIs
    <2> HIDE DEF p
    <2>3. FromVideo(p, time)
      BY <2>2 DEF Prunes, FromVideo
    <2>4. tv \in Int /\ tn \in [Track -> Int] /\ q \in Seq(Packet) /\ InOrder(q)
      OBVIOUS
    <2>5. /\ p \in Seq(Packet) /\ p # <<>> /\ InOrder(p)
          /\ Waits(p, tv, tn, hd) /\ Below(p, ha, hv) /\ Has(p, "video", 0)
      BY ONLY <2>1, <2>2, <2>4, PrunedWaits, hd \in [Track -> Nat], ha \in Nat, hv \in Nat,
              k \in Nat, time \in Int
    <2>6. QED
      BY Zenon, <2>3, <2>5
  <1> HIDE DEF p
  <1>2. Started => UNCHANGED <<received_audio, received_video, video_offset, audio_offsets>>
                   /\ highest_audio_ts' = ha /\ highest_video_ts' = hv /\ Send(q, ha, hv)
    BY DEF InterleavePacket, Started, p
  <1>3. ~Started /\ audio /\ video /\ ready => Begin(p, ha, hv)
    BY DEF InterleavePacket, Started, p
  <1>4. ~Started /\ audio /\ video /\ ~ready =>
            highest_audio_ts' = ha /\ highest_video_ts' = hv /\ AwaitMore(p)
    BY DEF InterleavePacket, Started, p
  <1>5. ~Started /\ ~(audio /\ video) =>
            /\ highest_audio_ts' = ha /\ highest_video_ts' = hv
            /\ interleaved_packets' = q /\ received_audio' = audio /\ received_video' = video
            /\ UNCHANGED <<video_offset, audio_offsets, sent>>
    BY DEF InterleavePacket, Started, p
  <1>6. received_audio' \in BOOLEAN /\ received_video' \in BOOLEAN
    BY ReceivedKept DEF QueueTypes
  <1> HIDE DEF ready
  <1> PICK voff \in Int, aoff \in [Track -> Int] :
           voff = video_offset /\ aoff = audio_offsets
    BY DEF QueueTypes
  <1>7. video_start' = video_start /\ audio_start' = audio_start
    BY Zenon
  <1>8. CASE Started
    <2>1. Synced(hd) /\ Now(nv, na, tv, tn) /\ Runs(sent \o q, nv, na)
      BY <1>8
    <2>2. UNCHANGED <<received_audio, received_video, video_offset, audio_offsets>>
          /\ highest_audio_ts' = ha /\ highest_video_ts' = hv /\ Send(q, ha, hv)
      BY <1>2, <1>8
    <2>3. QED
      BY <1>8, <2>1, <2>2, RunningOn
  <1>9. CASE ~Started /\ audio /\ video /\ ready
    <2>1. Everyone(p)
      BY <1>9 DEF ready, Everyone
    <2>2. Begin(p, ha, hv) /\ sent = <<>>
      BY <1>3, <1>9
    <2>3. PICK time \in Int : FromVideo(p, time)
      BY <1>1, <1>9
    <2>4. /\ p \in Seq(Packet) /\ p # <<>> /\ InOrder(p)
          /\ Waits(p, tv, tn, hd) /\ Below(p, ha, hv)
      BY <1>1, <1>9
    <2>5. ha \in Int /\ hv \in Int
      OBVIOUS
    <2>6. PICK vo \in Int, first \in [Track -> Int], mv \in Int, ma \in [Track -> Int] :
              Begins(vo, first, mv, ma, tv, tn, hd)'
      BY <1>7, <2>1, <2>2, <2>3, <2>4, <2>5, BeginRuns
    <2>7. QED
      BY ONLY <1>6, <1>7, <2>6, RunningFrom, vo \in Int, first \in [Track -> Int],
              mv \in Int, ma \in [Track -> Int], tv \in Int, tn \in [Track -> Int],
              hd \in [Track -> Nat], video_start \in Nat, audio_start \in [Track -> Nat]
  <1>10. CASE ~Started /\ audio /\ video /\ ~ready
    <2>1. AwaitMore(p) /\ highest_audio_ts' = ha /\ highest_video_ts' = hv
      BY <1>4, <1>10
    <2>2. /\ interleaved_packets' = p /\ sent' = <<>>
          /\ video_offset' = voff /\ audio_offsets' = aoff
      BY <1>10, <2>1 DEF AwaitMore
    <2>3. /\ received_video' = Has(p, "video", 0)
          /\ received_audio' = \A t \in Track : Has(p, "audio", t)
      BY <2>1 DEF AwaitMore
    <2>4. ~(received_audio' /\ received_video')
      BY <1>10, <2>3 DEF ready
    <2>5. ~Started'
      BY <2>4 DEF Started
    <2>6. /\ p \in Seq(Packet) /\ InOrder(p) /\ Waits(p, tv, tn, hd) /\ Below(p, ha, hv)
          /\ Has(p, "video", 0)
      BY <1>1, <1>10
    <2>7. QED
      BY ONLY <1>6, <1>7, <2>1, <2>2, <2>5, <2>6, AwaitingOn,
              ha \in Nat, hv \in Nat, tv \in Int, tn \in [Track -> Int],
              hd \in [Track -> Nat], voff \in Int, aoff \in [Track -> Int]
  <1>11. CASE ~Started /\ ~(audio /\ video)
    <2>1. /\ highest_audio_ts' = ha /\ highest_video_ts' = hv
          /\ interleaved_packets' = q /\ received_audio' = audio /\ received_video' = video
          /\ video_offset' = voff /\ audio_offsets' = aoff /\ sent' = <<>>
      BY <1>5, <1>11
    <2>2. ~Started'
      BY <1>11, <2>1 DEF Started
    <2>3. Waits(q, tv, tn, hd) /\ Below(q, ha, hv) /\ (received_video' => Has(q, "video", 0))
      BY <1>11, <2>1
    <2>4. QED
      BY ONLY <1>6, <1>7, <2>1, <2>2, <2>3, AwaitingOn, q \in Seq(Packet), InOrder(q),
              ha \in Nat, hv \in Nat, tv \in Int, tn \in [Track -> Int],
              hd \in [Track -> Nat], voff \in Int, aoff \in [Track -> Int]
  <1>12. QED
    BY <1>8, <1>9, <1>10, <1>11

-----------------------------------------------------------------------------
(* The encoders, and the inductive invariant.                              *)
LineEncoders ==
    /\ video_start \in Nat /\ audio_start \in [Track -> Nat] /\ video_time \in Nat
    /\ tick \in Nat /\ track \in Track /\ heard \in [Track -> Nat]

NextTicks == [t \in Track |-> NextTick(t)]

Line == LineEncoders /\ Heard /\ OnLine(video_time, NextTicks, heard)

LEMMA TicksTyped ==
    ASSUME LineEncoders
    PROVE  /\ NextTicks \in [Track -> Int] /\ NextTicks[track] = tick
           /\ \A t \in Track : NextTicks[t] = NextTick(t) /\ 0 <= NextTick(t)
  <1>1. \A t \in Track : NextTick(t) \in Int /\ 0 <= NextTick(t)
    BY Lengths DEF LineEncoders, NextTick
  <1>2. track <= track /\ track \in Track
    BY DEF LineEncoders, Track
  <1>3. NextTick(track) = tick
    BY <1>2 DEF NextTick
  <1>4. QED
    BY <1>1, <1>2, <1>3 DEF NextTicks

(* The tick is handed to the next track.                                   *)
LEMMA TicksMove ==
    ASSUME NEW u \in Track, NEW tau \in Nat, u = track, tau = tick,
           IF track = Tracks - 1 THEN track' = 0 /\ tick' = tick + TickLen
                                 ELSE track' = track + 1 /\ tick' = tick,
           NEW na \in [Track -> Int], na = NextTicks
    PROVE  /\ tick' \in Nat /\ track' \in Track
           /\ NextTicks' \in [Track -> Int] /\ Moves(NextTicks', na, u)
  <1>1. PICK k \in Track, later \in Nat : k = track' /\ later = tick' /\ Passed(u, tau, k, later)
    <2>1. CASE u = Tracks - 1
      <3>1. track' = 0 /\ tick' = tau + TickLen
        BY <2>1
      <3>2. 0 \in Track /\ tau + TickLen \in Nat
        BY Lengths, InterleaverAssumption DEF Track
      <3>3. QED
        BY <2>1, <3>1, <3>2 DEF Passed
    <2>2. CASE u # Tracks - 1
      <3>1. track' = u + 1 /\ tick' = tau
        BY <2>2
      <3>2. u + 1 \in Track
        BY <2>2, InterleaverAssumption DEF Track
      <3>3. QED
        BY <2>2, <3>1, <3>2 DEF Passed
    <2>3. QED
      BY <2>1, <2>2
  <1>2. PICK z \in [Track -> Int] : \A t \in Track : z[t] = 0
    <2>1. [t \in Track |-> 0] \in [Track -> Int]
      OBVIOUS
    <2>2. QED
      BY <2>1
  <1>3. Turns(na, z, u, tau)
    <2>1. \A t \in Track : na[t] = IF u <= t THEN tau ELSE tau + TickLen
      BY DEF NextTicks, NextTick
    <2>2. QED
      BY <1>2, <2>1, Lengths DEF Turns
  <1>4. PICK ma \in [Track -> Int] : ma[u] = na[u] + TickLen /\ \A t \in Track \ {u} : ma[t] = na[t]
    <2>1. na[u] + TickLen \in Int
      BY Lengths
    <2>2. PICK m : m = [na EXCEPT ![u] = na[u] + TickLen]
      OBVIOUS
    <2>3. m \in [Track -> Int] /\ m[u] = na[u] + TickLen
          /\ \A t \in Track \ {u} : m[t] = na[t]
      BY ONLY <2>1, <2>2, na \in [Track -> Int], u \in Track
    <2>4. QED
      BY <2>3
  <1>5. Moves(ma, na, u)
    BY <1>4 DEF Moves
  <1>6. Turns(ma, z, k, later)
    BY ONLY <1>1, <1>3, <1>5, NextTurn, u \in Track, k \in Track, z \in [Track -> Int],
            na \in [Track -> Int], ma \in [Track -> Int], tau \in Int, later \in Int
  <1>7. NextTicks' = ma
    <2>1. \A t \in Track : ma[t] = IF k <= t THEN later ELSE later + TickLen
      BY <1>2, <1>6, Lengths DEF Turns
    <2>2. \A t \in Track : NextTick(t)' = ma[t]
      BY <1>1, <2>1 DEF NextTick
    <2>3. QED
      BY <2>2 DEF NextTicks
  <1>8. QED
    BY <1>1, <1>5, <1>7

(* The stream of a packet goes on by its length.                           *)
LEMMA VideoMoves ==
    ASSUME NEW p, p.type = "video", p.track_idx = 0, NEW nv, p.dts_usec = nv, NEW na
    PROVE  Moved(p, nv, na, nv + FrameLen, na)
  <1>1. ASSUME NEW r \in Packet, r.type = "video" => r.track_idx = 0
        PROVE  Same(r, p) <=> r.type = "video"
    BY <1>1 DEF Same
  <1>2. QED
    BY <1>1 DEF Moved, After, Length

LEMMA AudioMoves ==
    ASSUME NEW p, p.type = "audio", NEW u \in Track, p.track_idx = u,
           NEW nv, NEW na, p.dts_usec = na[u], NEW ma, Moves(ma, na, u)
    PROVE  Moved(p, nv, na, nv, ma)
  <1>1. After(p, nv, na) = na[u] /\ Length(p) = TickLen
    BY DEF After, Length
  <1>2. ASSUME NEW r \in Packet
        PROVE  After(r, nv, ma) = IF Same(r, p) THEN p.dts_usec + Length(p)
                                                ELSE After(r, nv, na)
    <2>1. r.type \in {"video", "audio"} /\ r.track_idx \in Track
      BY DEF Packet
    <2>2. QED
      BY <1>1, <2>1 DEF After, Same, Moves
  <1>3. QED
    BY <1>1, <1>2 DEF Moved

(* The video encoder's step.                                               *)
LEMMA VideoLine == Line /\ VideoPacket => Line'
  <1> SUFFICES ASSUME Line, VideoPacket PROVE Line'
    OBVIOUS
  <1>1. LineEncoders /\ Heard /\ OnLine(video_time, NextTicks, heard) /\ QueueTypes
    BY DEF Line, OnLine
  <1>2. PICK time \in Nat : time = video_time
    BY <1>1 DEF LineEncoders
  <1>3. PICK tn \in [Track -> Int], hd \in [Track -> Nat] : tn = NextTicks /\ hd = heard
    BY <1>1, TicksTyped DEF LineEncoders
  <1>4. PICK packet : packet = Video(time)
    OBVIOUS
  <1>5. PICK out : out = IF Started THEN Shifted(packet, video_offset, audio_offsets)
                         ELSE packet
    OBVIOUS
  <1>6. video_start \in Nat /\ audio_start \in [Track -> Nat]
    BY <1>1 DEF LineEncoders
  <1>7. /\ packet \in Packet /\ packet.type = "video"
        /\ out \in Packet /\ out.type = "video" /\ out.track_idx = 0
        /\ VideoBase \in Int /\ out.dts_usec = time - VideoBase
        /\ ~Started => Unshifted(out) /\ out.dts_usec = time
    BY <1>1, <1>4, <1>5, <1>6, VideoIn
  <1>8. PICK vb \in Int : vb = VideoBase
    BY <1>7
  <1>9. PICK was \in Seq(Packet), gone \in Seq(Packet), oa \in Nat, ov \in Nat :
           /\ was = interleaved_packets /\ gone = sent /\ InOrder(was)
           /\ oa = highest_audio_ts /\ ov = highest_video_ts
    BY <1>1 DEF QueueTypes
  <1>10. PICK l \in 1 .. Len(was) + 1 : Inserts(Insert(was, out), was, out, l)
    BY <1>7, Inserted
  <1>11. l \in Nat
    BY LenProperties
  <1>12. PICK q \in Seq(Packet) : q = Insert(was, out) /\ q # <<>> /\ Inserts(q, was, out, l)
    <2>1. Insert(was, out) \in Seq(Packet) /\ Len(Insert(was, out)) = Len(was) + 1
      BY <1>10 DEF Inserts
    <2>2. Len(was) + 1 # 0
      BY LenProperties
    <2>3. QED
      BY <1>10, <2>1, <2>2, EmptySeq
  <1>13. InOrder(q)
    BY ONLY <1>7, <1>9, <1>11, <1>12, InsertedInOrder, was \in Seq(Packet), l \in Nat
  <1>14. ~Started => out.dts_usec >= 0
    BY <1>7
  <1>15. PICK nv \in Int : nv = time - vb
    OBVIOUS
  <1>16. PICK mv \in Int, tv \in Nat : mv = nv + FrameLen /\ tv = time + FrameLen
    BY Lengths
  <1>17. mv = tv - vb
    BY <1>15, <1>16, Lengths
  <1>18. \A na : Moved(out, nv, na, mv, na)
    BY <1>7, <1>8, <1>15, <1>16, VideoMoves
  <1>19. PICK ha \in Nat, hv \in Nat :
             ha = Higher(oa, out, "audio") /\ hv = Higher(ov, out, "video")
    <2>1. Higher(oa, out, "audio") \in Nat
      BY <1>7 DEF Higher
    <2>2. Higher(ov, out, "video") \in Nat
      <3>1. PICK d \in Int : d = out.dts_usec
        BY <1>7
      <3>2. Higher(ov, out, "video") = IF ov < d THEN d ELSE ov
        BY <1>7, <3>1 DEF Higher
      <3>3. QED
        BY <3>2
    <2>3. QED
      BY <2>1, <2>2
  <1>20. PICK na \in [Track -> Int] : na = [t \in Track |-> tn[t] - AudioBase(t)]
    <2>1. \A t \in Track : AudioBase(t) \in Int
      BY <1>1, <1>6, Lengths DEF AudioBase, QueueTypes
    <2>2. [t \in Track |-> tn[t] - AudioBase(t)] \in [Track -> Int]
      BY <2>1
    <2>3. QED
      BY <2>2
  <1>21. Started => Synced(hd) /\ Now(mv, na, tv, tn) /\ Runs(gone \o q, mv, na)
    <2> SUFFICES ASSUME Started
                 PROVE  Synced(hd) /\ Now(mv, na, tv, tn) /\ Runs(gone \o q, mv, na)
      OBVIOUS
    <2>1. Running(time, tn, hd)
      BY <1>1, <1>2, <1>3 DEF OnLine, Awaiting
    <2>2. Synced(hd) /\ Runs(gone \o was, nv, na)
      BY <1>8, <1>9, <1>15, <1>20, <2>1 DEF Running, All
    <2>3. Now(mv, na, tv, tn)
      BY <1>8, <1>17, <1>20 DEF Now
    <2>4. Moved(out, nv, na, mv, na)
      BY <1>18
    <2>5. Runs(gone \o q, mv, na)
      BY ONLY <1>7, <1>9, <1>12, <2>2, <2>4, InsertedRuns, gone \in Seq(Packet),
              was \in Seq(Packet), l \in Nat
    <2>6. QED
      BY <2>2, <2>3, <2>5
  <1>22. ~Started => /\ gone = <<>> /\ Waits(q, tv, tn, hd) /\ Below(q, ha, hv)
                     /\ received_video \/ packet.type = "video" => Has(q, "video", 0)
    <2> SUFFICES ASSUME ~Started
                 PROVE  /\ gone = <<>> /\ Waits(q, tv, tn, hd) /\ Below(q, ha, hv)
                        /\ Has(q, "video", 0)
      OBVIOUS
    <2>1. Awaiting(time, tn, hd)
      BY <1>1, <1>2, <1>3 DEF OnLine, Running
    <2>2. gone = <<>> /\ Waits(was, time, tn, hd) /\ Below(was, oa, ov)
      BY <1>9, <2>1 DEF Awaiting
    <2>3. Unshifted(out) /\ out.dts_usec = time /\ out.dts_usec >= 0
      BY <1>7, <1>14
    <2>4. Moved(out, time, tn, tv, tn)
      BY <1>7, <1>16, <2>3, VideoMoves
    <2>5. Waits(q, tv, tn, hd) /\ Below(q, ha, hv)
      <3>1. time \in Int /\ tv \in Int /\ oa \in Int /\ ov \in Int
        OBVIOUS
      <3>2. QED
        BY ONLY <1>7, <1>9, <1>12, <1>19, <2>2, <2>3, <2>4, <3>1, VideoWaitsOn,
                was \in Seq(Packet), l \in Nat, tn \in [Track -> Int], hd \in [Track -> Nat]
    <2>6. \E i \in DOMAIN q : q[i] = out
      <3>1. l \in DOMAIN q /\ q[l] = out
        BY ONLY <1>7, <1>11, <1>12, InsertedIs, was \in Seq(Packet),
                l \in 1 .. Len(was) + 1 DEF Inserts
      <3>2. QED
        BY <3>1
    <2>7. Has(q, "video", 0)
      BY <1>7, <2>6 DEF Has
    <2>8. QED
      BY <2>2, <2>5, <2>7
  <1>23. /\ InterleavePacket(packet) /\ video_time' = tv
         /\ video_start' = video_start /\ audio_start' = audio_start
         /\ tick' = tick /\ track' = track /\ heard' = heard
    BY <1>2, <1>4, <1>16 DEF VideoPacket
  <1>24. OnLine(tv, tn, hd)'
    <2>1. /\ q = Insert(interleaved_packets, out)
          /\ ha = Higher(highest_audio_ts, out, "audio")
          /\ hv = Higher(highest_video_ts, out, "video")
      BY <1>9, <1>12, <1>19
    <2>2. /\ Started => Synced(hd) /\ Now(mv, na, tv, tn) /\ Runs(sent \o q, mv, na)
          /\ ~Started => /\ sent = <<>> /\ Waits(q, tv, tn, hd) /\ Below(q, ha, hv)
                         /\ received_video \/ packet.type = "video" => Has(q, "video", 0)
      BY <1>9, <1>21, <1>22
    <2>3. /\ q # <<>> /\ tv \in Int
          /\ video_start' = video_start /\ audio_start' = audio_start
          /\ InterleavePacket(packet)
      BY <1>12, <1>23
    <2>4. QED
      BY ONLY <1>1, <1>5, <1>6, <1>7, <1>13, <2>1, <2>2, <2>3, PacketOnLine,
              q \in Seq(Packet), ha \in Nat, hv \in Nat, tn \in [Track -> Int],
              hd \in [Track -> Nat], mv \in Int, na \in [Track -> Int]
  <1>25. \A t \in Track : NextTick(t)' = NextTick(t)
    BY <1>23 DEF NextTick
  <1>26. NextTicks' = tn
    BY <1>3, <1>25 DEF NextTicks
  <1>27. LineEncoders'
    BY <1>1, <1>23 DEF LineEncoders
  <1>28. Heard'
    BY <1>1, <1>23, <1>25 DEF Heard
  <1>29. OnLine(video_time, NextTicks, heard)'
    BY <1>3, <1>23, <1>24, <1>26
  <1>30. QED
    BY <1>27, <1>28, <1>29 DEF Line

(* A track is heard with the first packet it gets, and not again.          *)
LEMMA HeardOnce ==
    ASSUME LineEncoders, Heard, NEW u \in Track, NEW tau \in Nat, u = track, tau = tick,
           tau <= MaxTime, NEW hd \in [Track -> Nat], hd = heard,
           heard' = [heard EXCEPT ![track] = Min({@, tick})]
    PROVE  heard' \in [Track -> Nat] /\ Hears(hd, heard', u, tau) /\ tau # Never
  <1>1. Never \in Nat /\ tau < Never
    BY Lengths, InterleaverAssumption DEF Never
  <1>2. hd[u] = Never \/ hd[u] <= tau
    <2>1. NextTick(u) = tau
      BY TicksTyped DEF NextTicks
    <2>2. hd[u] = Never \/ hd[u] + TickLen <= tau
      BY <2>1 DEF Heard
    <2>3. QED
      BY <2>2, Lengths
  <1>3. PICK h \in Nat : h = hd[u]
    OBVIOUS
  <1>4. PICK m \in Nat : m = Min({h, tau}) /\ m = IF h = Never THEN tau ELSE h
    <2>1. {h, tau} \in SUBSET Nat /\ {h, tau} # {}
      OBVIOUS
    <2>2. Min({h, tau}) \in {h, tau} /\ \A n \in {h, tau} : Min({h, tau}) <= n
      BY ONLY <2>1, MinIsThere
    <2>3. PICK m : m = Min({h, tau})
      OBVIOUS
    <2>4. m \in {h, tau} /\ m <= h /\ m <= tau
      BY <2>2, <2>3
    <2>5. QED
      BY <1>1, <1>2, <1>3, <2>3, <2>4
  <1>5. heard' = [hd EXCEPT ![u] = m]
    BY <1>3, <1>4
  <1>6. QED
    BY <1>1, <1>3, <1>4, <1>5 DEF Hears

(* Its first packet is not before its encoder starts.                      *)
LEMMA HeardKept ==
    ASSUME LineEncoders, Heard, NEW u \in Track, NEW tau \in Nat, u = track, tau = tick,
           tau <= MaxTime, audio_start[u] <= tau, audio_start' = audio_start,
           NEW na \in [Track -> Int], na = NextTicks,
           NextTicks' \in [Track -> Int], Moves(NextTicks', na, u),
           NEW hd \in [Track -> Nat], hd = heard, Hears(hd, heard', u, tau)
    PROVE  Heard'
  <1>1. PICK ma \in [Track -> Int] : ma = NextTicks'
    OBVIOUS
  <1>2. na[u] = tau /\ ma[u] = na[u] + TickLen /\ \A t \in Track \ {u} : ma[t] = na[t]
    BY <1>1, TicksTyped DEF Moves
  <1>3. \A t \in Track : NextTick(t) = na[t] /\ NextTick(t)' = ma[t]
    BY <1>1 DEF NextTicks
  <1>4. ASSUME NEW t \in Track
        PROVE  heard'[t] = Never \/ /\ heard'[t] <= MaxTime /\ audio_start'[t] <= heard'[t]
                                    /\ heard'[t] + TickLen <= NextTick(t)'
    <2>1. PICK h \in Nat, a \in Int, b \in Int :
              h = hd[t] /\ a = na[t] /\ b = ma[t] /\ a <= b
      <3>1. na[t] <= ma[t]
        BY <1>2, Lengths
      <3>2. QED
        BY <3>1
    <2>2. CASE t = u /\ h = Never
      <3>1. heard'[t] = tau
        BY <2>1, <2>2 DEF Hears
      <3>2. NextTick(t)' = tau + TickLen
        BY <1>2, <1>3, <2>2
      <3>3. QED
        BY <2>2, <3>1, <3>2, Lengths
    <2>3. CASE ~(t = u /\ h = Never)
      <3>1. heard'[t] = h
        BY <2>1, <2>3 DEF Hears
      <3>2. h = Never \/ (h <= MaxTime /\ audio_start[t] <= h /\ h + TickLen <= a)
        <4>1. hd[t] = Never \/ (hd[t] <= MaxTime /\ audio_start[t] <= hd[t]
                                  /\ hd[t] + TickLen <= NextTick(t))
          BY Zenon DEF Heard
        <4>2. h = hd[t] /\ a = NextTick(t)
          BY Zenon, <1>3, <2>1
        <4>3. QED
          BY Zenon, <4>1, <4>2
      <3>3. h + TickLen <= a => h + TickLen <= b
        BY <2>1, Lengths
      <3>4. QED
        BY <1>3, <2>1, <3>1, <3>2, <3>3
    <2>4. QED
      BY <2>2, <2>3
  <1>5. QED
    BY <1>4 DEF Heard

(* A track that does not yet get packets.                                  *)
LEMMA QuietWaits ==
    ASSUME NEW q \in Seq(Packet), NEW nv \in Int, NEW na \in [Track -> Int],
           NEW hd \in [Track -> Nat], Waits(q, nv, na, hd), NEW u \in Track, hd[u] = Never,
           NEW ma \in [Track -> Int], Moves(ma, na, u)
    PROVE  Waits(q, nv, ma, hd)
  <1>1. ~Has(q, "audio", u) /\ \A t \in Track \ {u} : ma[t] = na[t]
    BY DEF Waits, Reaches, Moves
  <1>2. ASSUME NEW i \in DOMAIN q PROVE After(q[i], nv, ma) = After(q[i], nv, na)
    <2>1. q[i].type \in {"video", "audio"} /\ q[i].track_idx \in Track
      BY TimesAreInts, q[i] \in Packet DEF Packet
    <2>2. q[i].type = "video" \/ q[i].track_idx # u
      BY <1>1, <2>1 DEF Has
    <2>3. QED
      BY <1>1, <2>1, <2>2 DEF After
  <1>3. Latest(q, nv, ma)
    <2>1. Latest(q, nv, na)
      BY DEF Waits
    <2>2. ASSUME NEW i \in DOMAIN q
          PROVE  /\ q[i].dts_usec + Length(q[i]) <= After(q[i], nv, ma)
                 /\ \E j \in DOMAIN q : Ends(q[j], q[i], nv, ma)
      <3>1. /\ q[i].dts_usec + Length(q[i]) <= After(q[i], nv, na)
            /\ \E j \in DOMAIN q : Ends(q[j], q[i], nv, na)
        BY <2>1 DEF Latest
      <3>2. QED
        BY <1>2, <3>1 DEF Ends
    <2>3. QED
      BY <2>2 DEF Latest
  <1>4. ASSUME NEW t \in Track PROVE Reaches(q, ma, hd, t)
    <2>1. Reaches(q, na, hd, t)
      BY DEF Waits
    <2>2. CASE t = u
      BY <2>1, <2>2 DEF Reaches
    <2>3. CASE t # u
      BY <1>1, <2>1, <2>3 DEF Reaches
    <2>4. QED
      BY <2>2, <2>3
  <1>5. QED
    BY <1>3, <1>4 DEF Waits

(* What is taken off the times of a stream is a number.                    *)
LEMMA BaseIsInt ==
    ASSUME QueueTypes, audio_start \in [Track -> Nat]
    PROVE  \A t \in Track : AudioBase(t) \in Int
  BY Lengths DEF AudioBase, QueueTypes

(* The audio thread's step: a track that has begun gets a packet.          *)
LEMMA HandedLine ==
    ASSUME Line, NEW u \in Track, NEW time \in Nat, u = track, time = tick, time <= MaxTime,
           audio_start[u] <= time, NEW tn \in [Track -> Int], tn = NextTicks,
           NEW ma \in [Track -> Int], Moves(ma, tn, u),
           NEW hd \in [Track -> Nat], hd = heard, NEW ld \in [Track -> Nat],
           Hears(hd, ld, u, time), time # Never,
           video_start' = video_start, audio_start' = audio_start,
           NEW tv \in Nat, tv = video_time,
           InterleavePacket(Audio(time, u))
    PROVE  OnLine(tv, ma, ld)'
  <1>1. LineEncoders /\ Heard /\ OnLine(tv, tn, hd) /\ QueueTypes
    BY DEF Line, OnLine
  <1>2. PICK packet : packet = Audio(time, u)
    OBVIOUS
  <1>3. PICK out : out = IF Started THEN Shifted(packet, video_offset, audio_offsets)
                         ELSE packet
    OBVIOUS
  <1>4. video_start \in Nat /\ audio_start \in [Track -> Nat]
    BY <1>1 DEF LineEncoders
  <1>5. /\ packet \in Packet /\ packet.type = "audio"
        /\ out \in Packet /\ out.type = "audio" /\ out.track_idx = u
        /\ out.dts_usec = time - AudioBase(u)
        /\ ~Started => Unshifted(out) /\ out.dts_usec = time
    BY <1>1, <1>2, <1>3, <1>4, AudioIn
  <1>6. PICK was \in Seq(Packet), gone \in Seq(Packet), oa \in Nat, ov \in Nat :
           /\ was = interleaved_packets /\ gone = sent /\ InOrder(was)
           /\ oa = highest_audio_ts /\ ov = highest_video_ts
    BY <1>1 DEF QueueTypes
  <1>7. PICK l \in 1 .. Len(was) + 1 : Inserts(Insert(was, out), was, out, l)
    BY <1>5, Inserted
  <1>8. l \in Nat
    BY LenProperties
  <1>9. PICK q \in Seq(Packet) : q = Insert(was, out) /\ q # <<>> /\ Inserts(q, was, out, l)
    <2>1. Insert(was, out) \in Seq(Packet) /\ Len(Insert(was, out)) = Len(was) + 1
      BY <1>7 DEF Inserts
    <2>2. Len(was) + 1 # 0
      BY LenProperties
    <2>3. QED
      BY <1>7, <2>1, <2>2, EmptySeq
  <1>10. InOrder(q)
    BY ONLY <1>5, <1>6, <1>8, <1>9, InsertedInOrder, was \in Seq(Packet), l \in Nat
  <1>11. tn[u] = time
    BY <1>1, TicksTyped
  <1>12. PICK ab \in [Track -> Int] : \A t \in Track : ab[t] = AudioBase(t)
    <2>1. \A t \in Track : AudioBase(t) \in Int
      BY <1>1, <1>4, BaseIsInt
    <2>2. [t \in Track |-> AudioBase(t)] \in [Track -> Int]
      BY <2>1
    <2>3. QED
      BY <2>2
  <1>13. PICK na \in [Track -> Int], mb \in [Track -> Int] :
            /\ na = [t \in Track |-> tn[t] - AudioBase(t)]
            /\ mb = [t \in Track |-> ma[t] - AudioBase(t)]
    <2>1. [t \in Track |-> tn[t] - AudioBase(t)] \in [Track -> Int]
      BY <1>12
    <2>2. [t \in Track |-> ma[t] - AudioBase(t)] \in [Track -> Int]
      BY <1>12
    <2>3. QED
      BY <2>1, <2>2
  <1>14. Moves(mb, na, u)
    <2>1. \A t \in Track : na[t] = tn[t] - ab[t] /\ mb[t] = ma[t] - ab[t]
      BY <1>12, <1>13
    <2>2. ma[u] = tn[u] + TickLen /\ \A t \in Track \ {u} : ma[t] = tn[t]
      BY DEF Moves
    <2>3. mb[u] = na[u] + TickLen
      <3>1. PICK a \in Int, b \in Int : a = tn[u] /\ b = ab[u]
        OBVIOUS
      <3>2. na[u] = a - b /\ mb[u] = (a + TickLen) - b
        BY <2>1, <2>2, <3>1
      <3>3. QED
        BY <3>2, Lengths
    <2>4. QED
      BY <2>1, <2>2, <2>3 DEF Moves
  <1>15. out.dts_usec = na[u]
    BY <1>5, <1>11, <1>13
  <1>16. PICK ha \in Nat, hv \in Nat :
             ha = Higher(oa, out, "audio") /\ hv = Higher(ov, out, "video")
    <2>1. Higher(ov, out, "video") \in Nat
      BY <1>5 DEF Higher
    <2>2. Higher(oa, out, "audio") \in Nat
      <3>1. PICK d \in Int : d = out.dts_usec
        BY <1>15
      <3>2. Higher(oa, out, "audio") = IF oa < d THEN d ELSE oa
        BY <1>5, <3>1 DEF Higher
      <3>3. QED
        BY <3>2
    <2>3. QED
      BY <2>1, <2>2
  <1>17. VideoBase \in Int
    BY <1>1, <1>4, Lengths DEF VideoBase, QueueTypes
  <1>18. PICK nv \in Int : nv = tv - VideoBase
    BY <1>17
  <1>19. Started => Synced(ld) /\ Now(nv, mb, tv, ma) /\ Runs(gone \o q, nv, mb)
    <2> SUFFICES ASSUME Started
                 PROVE  Synced(ld) /\ Now(nv, mb, tv, ma) /\ Runs(gone \o q, nv, mb)
      OBVIOUS
    <2>1. Running(tv, tn, hd)
      BY <1>1 DEF OnLine, Awaiting
    <2>2. Synced(hd) /\ Runs(gone \o was, nv, na)
      BY <1>6, <1>13, <1>18, <2>1 DEF Running, All
    <2>3. ld = hd
      BY <2>2 DEF Synced, Hears
    <2>4. Now(nv, mb, tv, ma)
      BY <1>13, <1>18 DEF Now
    <2>5. Moved(out, nv, na, nv, mb)
      BY <1>5, <1>14, <1>15, AudioMoves
    <2>6. Runs(gone \o q, nv, mb)
      BY ONLY <1>5, <1>6, <1>9, <2>2, <2>5, InsertedRuns, gone \in Seq(Packet),
              was \in Seq(Packet), l \in Nat
    <2>7. QED
      BY <2>2, <2>3, <2>4, <2>6
  <1>20. ~Started => /\ gone = <<>> /\ Waits(q, tv, ma, ld) /\ Below(q, ha, hv)
                     /\ received_video => Has(q, "video", 0)
    <2> SUFFICES ASSUME ~Started
                 PROVE  /\ gone = <<>> /\ Waits(q, tv, ma, ld) /\ Below(q, ha, hv)
                        /\ received_video => Has(q, "video", 0)
      OBVIOUS
    <2>1. Awaiting(tv, tn, hd)
      BY <1>1 DEF OnLine, Running
    <2>2. /\ gone = <<>> /\ Waits(was, tv, tn, hd) /\ Below(was, oa, ov)
          /\ received_video => Has(was, "video", 0)
      BY <1>6, <2>1 DEF Awaiting
    <2>3. Unshifted(out) /\ out.dts_usec = tn[u] /\ out.dts_usec >= 0
          /\ out.dts_usec # Never /\ Hears(hd, ld, u, out.dts_usec)
      BY <1>5, <1>11
    <2>4. Moved(out, tv, tn, tv, ma)
      BY <1>5, <2>3, AudioMoves
    <2>5. Waits(q, tv, ma, ld) /\ Below(q, ha, hv)
      <3>1. tv \in Int /\ oa \in Int /\ ov \in Int
        OBVIOUS
      <3>2. QED
        BY ONLY <1>5, <1>6, <1>9, <1>16, <2>2, <2>3, <2>4, <3>1, AudioWaitsOn,
                was \in Seq(Packet), l \in Nat, tn \in [Track -> Int], ma \in [Track -> Int],
                hd \in [Track -> Nat], ld \in [Track -> Nat], u \in Track, Moves(ma, tn, u)
    <2>6. Has(was, "video", 0) => Has(q, "video", 0)
      BY ONLY <1>5, <1>8, <1>9, InsertsPuts, PutsHas, was \in Seq(Packet), q \in Seq(Packet),
              l \in Nat
    <2>7. QED
      BY <2>2, <2>5, <2>6
  <1>21. QED
    <2>1. /\ q = Insert(interleaved_packets, out)
          /\ ha = Higher(highest_audio_ts, out, "audio")
          /\ hv = Higher(highest_video_ts, out, "video")
      BY <1>6, <1>9, <1>16
    <2>2. /\ Started => Synced(ld) /\ Now(nv, mb, tv, ma) /\ Runs(sent \o q, nv, mb)
          /\ ~Started => /\ sent = <<>> /\ Waits(q, tv, ma, ld) /\ Below(q, ha, hv)
                         /\ received_video \/ packet.type = "video" => Has(q, "video", 0)
      BY <1>5, <1>6, <1>19, <1>20
    <2>3. /\ q # <<>> /\ tv \in Int
          /\ video_start' = video_start /\ audio_start' = audio_start
          /\ InterleavePacket(packet)
      BY <1>2, <1>9
    <2>4. QED
      BY ONLY <1>1, <1>3, <1>4, <1>5, <1>10, <2>1, <2>2, <2>3, PacketOnLine,
              q \in Seq(Packet), ha \in Nat, hv \in Nat, ma \in [Track -> Int],
              ld \in [Track -> Nat], nv \in Int, mb \in [Track -> Int]

LEMMA AudioLine == Line /\ AudioPacket => Line'
  <1> SUFFICES ASSUME Line, AudioPacket PROVE Line'
    OBVIOUS
  <1>1. LineEncoders /\ Heard /\ OnLine(video_time, NextTicks, heard) /\ QueueTypes
    BY DEF Line, OnLine
  <1>2. PICK time \in Nat, u \in Track, tv \in Nat : time = tick /\ u = track /\ tv = video_time
    BY <1>1 DEF LineEncoders
  <1>3. PICK tn \in [Track -> Int], hd \in [Track -> Nat] : tn = NextTicks /\ hd = heard
    BY <1>1, TicksTyped DEF LineEncoders
  <1>4. /\ time <= MaxTime
        /\ IF track = Tracks - 1 THEN track' = 0 /\ tick' = tick + TickLen
                                 ELSE track' = track + 1 /\ tick' = tick
        /\ video_start' = video_start /\ audio_start' = audio_start
        /\ video_time' = video_time
    BY <1>2 DEF AudioPacket
  <1>5. /\ tick' \in Nat /\ track' \in Track
        /\ NextTicks' \in [Track -> Int] /\ Moves(NextTicks', tn, u)
    BY ONLY <1>2, <1>3, <1>4, TicksMove, u \in Track, time \in Nat, tn \in [Track -> Int]
  <1>6. PICK ma \in [Track -> Int] : ma = NextTicks'
    BY <1>5
  <1>7. audio_start \in [Track -> Nat]
    BY <1>1 DEF LineEncoders
  <1>8. CASE audio_start[u] <= time
    <2>1. /\ InterleavePacket(Audio(time, u))
          /\ heard' = [heard EXCEPT ![track] = Min({@, tick})]
      BY <1>2, <1>7, <1>8 DEF AudioPacket
    <2>2. heard' \in [Track -> Nat] /\ Hears(hd, heard', u, time) /\ time # Never
      BY ONLY <1>1, <1>2, <1>3, <1>4, <2>1, HeardOnce, u \in Track, time \in Nat,
              hd \in [Track -> Nat]
    <2>3. PICK ld \in [Track -> Nat] : ld = heard'
      BY <2>2
    <2>4. Heard'
      BY ONLY <1>1, <1>2, <1>3, <1>4, <1>5, <1>8, <2>2, HeardKept, u \in Track,
              time \in Nat, tn \in [Track -> Int], hd \in [Track -> Nat]
    <2>5. OnLine(tv, ma, ld)'
      BY ONLY Line, <1>2, <1>3, <1>4, <1>5, <1>6, <1>8, <2>1, <2>2, <2>3, HandedLine,
              u \in Track, time \in Nat, tn \in [Track -> Int], ma \in [Track -> Int],
              hd \in [Track -> Nat], ld \in [Track -> Nat], tv \in Nat
    <2>6. OnLine(video_time, NextTicks, heard)'
      BY <1>2, <1>4, <1>6, <2>3, <2>5
    <2>7. LineEncoders'
      BY <1>1, <1>4, <1>5, <2>2 DEF LineEncoders
    <2>8. QED
      BY <2>4, <2>6, <2>7 DEF Line
  <1>9. CASE ~(audio_start[u] <= time)
    <2>1. UNCHANGED <<interleaved_packets, received_audio, received_video,
                      highest_audio_ts, highest_video_ts, video_offset,
                      audio_offsets, sent, heard>>
      <3>1. ~(tick >= audio_start[track])
        BY <1>2, <1>7, <1>9
      <3>2. QED
        BY <3>1 DEF AudioPacket
    <2>2. hd[u] = Never
      <3>1. NextTick(u) = time /\ tn[u] = time
        BY <1>1, <1>2, <1>3, TicksTyped
      <3>2. hd[u] = Never \/ (audio_start[u] <= hd[u] /\ hd[u] + TickLen <= time)
        BY <1>1, <1>3, <3>1 DEF Heard
      <3>3. PICK h \in Nat, a \in Nat : h = hd[u] /\ a = audio_start[u]
        BY <1>7
      <3>4. h = Never \/ (a <= h /\ h + TickLen <= time)
        BY <3>2, <3>3
      <3>5. ~(a <= time)
        BY <1>9, <3>3
      <3>6. QED
        BY <3>3, <3>4, <3>5, Lengths
    <2>3. Awaiting(tv, tn, hd) /\ QueueTypes
      <3>1. OnLine(tv, tn, hd)
        BY <1>1, <1>2, <1>3
      <3>2. QED
        BY <2>2, <3>1 DEF OnLine, Running, Synced
    <2>4. Waits(interleaved_packets, tv, ma, hd)
      <3>1. /\ Waits(interleaved_packets, tv, tn, hd) /\ tv \in Int
            /\ interleaved_packets \in Seq(Packet) /\ Moves(ma, tn, u)
        BY <1>5, <1>6, <2>3 DEF Awaiting, QueueTypes
      <3>2. QED
        BY ONLY <2>2, <3>1, QuietWaits, tn \in [Track -> Int], ma \in [Track -> Int],
                hd \in [Track -> Nat], u \in Track
    <2>5. QueueTypes'
      BY Zenon, <2>1, <2>3 DEF QueueTypes
    <2>6. \A p : Unshifted(p)' = Unshifted(p)
      BY Zenon, <1>4 DEF Unshifted
    <2>7. Waits(interleaved_packets, tv, ma, hd)'
      BY <2>1, <2>4, <2>6 DEF Waits
    <2>8. Awaiting(tv, ma, hd)'
      <3>1. ~Started'
        BY Zenon, <2>1, <2>3 DEF Awaiting, Started
      <3>2. sent' = <<>> /\ Below(interleaved_packets', highest_audio_ts', highest_video_ts')
        BY <2>1, <2>3 DEF Awaiting
      <3>3. received_video' => Has(interleaved_packets', "video", 0)
        BY Zenon, <2>1, <2>3 DEF Awaiting
      <3>4. QED
        BY <2>7, <3>1, <3>2, <3>3 DEF Awaiting
    <2>9. OnLine(video_time, NextTicks, heard)'
      <3>1. OnLine(tv, ma, hd)'
        BY <2>5, <2>8 DEF OnLine
      <3>2. QED
        BY <1>2, <1>3, <1>4, <1>6, <2>1, <3>1
    <2>10. LineEncoders'
      BY <1>1, <1>4, <1>5, <2>1 DEF LineEncoders
    <2>11. Heard'
      <3>1. ASSUME NEW t \in Track
            PROVE  heard'[t] = Never \/ /\ heard'[t] <= MaxTime /\ audio_start'[t] <= heard'[t]
                                        /\ heard'[t] + TickLen <= NextTick(t)'
        <4>1. CASE t = u
          BY <1>3, <2>1, <2>2, <4>1
        <4>2. CASE t # u
          <5>1. tn[t] = NextTick(t) /\ ma[t] = NextTick(t)'
            BY <1>3, <1>6 DEF NextTicks
          <5>2. NextTick(t)' = NextTick(t)
            BY <1>5, <1>6, <4>2, <5>1 DEF Moves
          <5>3. QED
            BY <1>1, <1>4, <2>1, <5>2 DEF Heard
        <4>3. QED
          BY <4>1, <4>2
      <3>2. QED
        BY <3>1 DEF Heard
    <2>12. QED
      BY <2>9, <2>10, <2>11 DEF Line
  <1>10. QED
    BY <1>8, <1>9

(* An empty queue, before any track is heard.                              *)
LEMMA EmptyLine ==
    ASSUME NEW time \in Nat, NEW tn \in [Track -> Int], NEW hd \in [Track -> Nat],
           \A t \in Track : hd[t] = Never
    PROVE  Waits(<<>>, time, tn, hd) /\ \A ha, hv : Below(<<>>, ha, hv)
  <1>1. DOMAIN <<>> = {}
    OBVIOUS
  <1>2. Chain(<<>>) /\ Latest(<<>>, time, tn) /\ Tracked(<<>>)
    BY <1>1 DEF Chain, Spaced, Linked, Latest, Tracked
  <1>3. \A t \in Track : Reaches(<<>>, tn, hd, t)
    BY <1>1 DEF Reaches, Has
  <1>4. QED
    BY <1>1, <1>2, <1>3 DEF Waits, Below

(* A new capture.                                                          *)
LEMMA RestartLine == Line /\ Restart => Line'
  <1> SUFFICES ASSUME Line, Restart PROVE Line'
    OBVIOUS
  <1>1. LineEncoders /\ QueueTypes
    BY DEF Line, OnLine
  <1>2. /\ received_audio' = FALSE /\ received_video' = FALSE
        /\ highest_audio_ts' = 0 /\ highest_video_ts' = 0
        /\ video_offset' = 0 /\ audio_offsets' = [audio_offsets EXCEPT ![0] = 0]
        /\ interleaved_packets' = <<>> /\ sent' = <<>>
        /\ heard' = [t \in Track |-> Never]
        /\ video_start' = video_start /\ audio_start' = audio_start
        /\ video_time' = video_time /\ tick' = tick /\ track' = track
    BY DEF Restart, AfterReset, encoders
  <1>3. Never \in Nat
    BY Lengths, InterleaverAssumption DEF Never
  <1>4. PICK time \in Nat, tn \in [Track -> Int] : time = video_time /\ tn = NextTicks
    BY <1>1, TicksTyped DEF LineEncoders
  <1>5. PICK hd \in [Track -> Nat] : hd = heard' /\ \A t \in Track : hd[t] = Never
    BY <1>2, <1>3
  <1>6. \A t \in Track : NextTick(t)' = NextTick(t)
    BY <1>2 DEF NextTick
  <1>7. NextTicks' = tn
    BY <1>4, <1>6 DEF NextTicks
  <1>8. Waits(<<>>, time, tn, hd) /\ Below(<<>>, 0, 0)
    BY <1>5, EmptyLine
  <1>9. PICK aoff \in [Track -> Int] : audio_offsets' = aoff
    <2>1. PICK a \in [Track -> Int] : a = audio_offsets
      BY <1>1 DEF QueueTypes
    <2>2. 0 \in Track
      BY InterleaverAssumption DEF Track
    <2>3. [a EXCEPT ![0] = 0] \in [Track -> Int]
      BY ONLY <2>2, a \in [Track -> Int]
    <2>4. QED
      BY <1>2, <2>1, <2>3
  <1>10. OnLine(time, tn, hd)'
    <2>1. PICK q \in Seq(Packet), zero \in Nat : q = <<>> /\ zero = 0 /\ InOrder(q)
      <3>1. <<>> \in Seq(Packet) /\ InOrder(<<>>)
        BY EmptySeq DEF InOrder
      <3>2. QED
        BY <3>1
    <2>2. ~Started'
      BY <1>2 DEF Started
    <2>3. /\ interleaved_packets' = q /\ sent' = <<>>
          /\ highest_audio_ts' = zero /\ highest_video_ts' = zero
          /\ received_audio' \in BOOLEAN /\ received_video' \in BOOLEAN
          /\ received_video' => Has(q, "video", 0)
      BY Zenon, <1>2, <2>1
    <2>4. Waits(q, time, tn, hd) /\ Below(q, zero, zero) /\ InOrder(q)
      BY <1>8, <2>1
    <2>5. /\ video_offset' = zero /\ zero \in Int /\ time \in Int
          /\ video_start' = video_start /\ audio_start' = audio_start
      BY <1>2, <2>1
    <2>6. QED
      BY ONLY <1>9, <2>2, <2>3, <2>4, <2>5, AwaitingOn, q \in Seq(Packet), zero \in Nat,
              tn \in [Track -> Int], hd \in [Track -> Nat], aoff \in [Track -> Int]
  <1>11. OnLine(video_time, NextTicks, heard)'
    BY <1>2, <1>4, <1>5, <1>7, <1>10
  <1>12. LineEncoders'
    BY <1>1, <1>2, <1>5 DEF LineEncoders
  <1>13. Heard'
    BY <1>5 DEF Heard
  <1>14. QED
    BY <1>11, <1>12, <1>13 DEF Line

(* At the beginning, whenever the encoders are to begin.                   *)
LEMMA InitLine == Init => Line
  <1> SUFFICES ASSUME Init PROVE Line
    OBVIOUS
  <1>1. Never \in Nat /\ 0 \in Track
    BY Lengths, InterleaverAssumption DEF Never, Track
  <1>2. audio_start \in [Track -> Nat]
    <2>1. PICK late \in [Track -> LateStarts] :
              audio_start = [t \in Track |-> TickLen * (1 + late[t])]
      BY DEF Init
    <2>2. ASSUME NEW t \in Track PROVE TickLen * (1 + late[t]) \in Nat
      <3>1. late[t] \in Nat
        BY InterleaverAssumption
      <3>2. QED
        BY <3>1, Lengths
    <2>3. QED
      BY <2>1, <2>2
  <1>3. heard \in [Track -> Nat] /\ \A t \in Track : heard[t] = Never
    BY <1>1 DEF Init
  <1>4. LineEncoders
    <2>1. video_start \in Nat /\ video_time \in Nat
      BY InterleaverAssumption DEF Init
    <2>2. tick \in Nat /\ track \in Track
      BY <1>1, Lengths DEF Init
    <2>3. QED
      BY <1>2, <1>3, <2>1, <2>2 DEF LineEncoders
  <1>5. QueueTypes
    <2>1. received_audio \in BOOLEAN /\ received_video \in BOOLEAN
      BY Zenon DEF Init
    <2>2. interleaved_packets \in Seq(Packet) /\ sent \in Seq(Packet)
      BY EmptySeq DEF Init
    <2>3. InOrder(interleaved_packets)
      BY DEF Init, InOrder
    <2>4. highest_audio_ts \in Nat /\ highest_video_ts \in Nat
          /\ video_offset \in Int /\ audio_offsets \in [Track -> Int]
      BY DEF Init
    <2>5. QED
      BY <2>1, <2>2, <2>3, <2>4 DEF QueueTypes
  <1>6. Awaiting(video_time, NextTicks, heard)
    <2>1. NextTicks \in [Track -> Int] /\ video_time \in Nat
      BY <1>4, TicksTyped DEF LineEncoders
    <2>2. Waits(<<>>, video_time, NextTicks, heard) /\ Below(<<>>, 0, 0)
      BY <1>3, <2>1, EmptyLine
    <2>3. ~Started
      BY DEF Init, Started
    <2>4. received_video = FALSE
      BY DEF Init
    <2>5. QED
      BY <2>2, <2>3, <2>4 DEF Init, Awaiting
  <1>7. Heard
    BY <1>3 DEF Heard
  <1>8. QED
    BY <1>4, <1>5, <1>6, <1>7 DEF Line, OnLine

(* Nothing happens.                                                        *)
LEMMA StutterLine == Line /\ UNCHANGED vars => Line'
  <1> SUFFICES ASSUME Line, UNCHANGED vars PROVE Line'
    OBVIOUS
  <1>1. UNCHANGED <<interleaved_packets, received_audio, received_video, highest_audio_ts,
                    highest_video_ts, video_offset, audio_offsets, video_start, audio_start,
                    video_time, tick, track, sent, heard>>
    BY DEF vars, encoders
  <1>2. Started' = Started
    BY Zenon, <1>1 DEF Started
  <1>3. VideoBase' = VideoBase /\ \A t \in Track : AudioBase(t)' = AudioBase(t)
    BY Zenon, <1>1, <1>2 DEF VideoBase, AudioBase
  <1>4. \A t \in Track : Skew(t)' = Skew(t)
    BY Zenon, <1>1 DEF Skew
  <1>5. \A p : Unshifted(p)' = Unshifted(p)
    BY Zenon, <1>1 DEF Unshifted
  <1>6. \A t \in Track : NextTick(t)' = NextTick(t)
    BY Zenon, <1>1 DEF NextTick
  <1>7. NextTicks' = NextTicks
    BY <1>6 DEF NextTicks
  <1>8. PICK tv, tn, hd : tv = video_time /\ tn = NextTicks /\ hd = heard
    OBVIOUS
  <1>9. QueueTypes /\ (Running(tv, tn, hd) \/ Awaiting(tv, tn, hd))
    BY <1>8 DEF Line, OnLine
  <1>10. QueueTypes'
    BY Zenon, <1>1, <1>9 DEF QueueTypes
  <1>11. ASSUME Running(tv, tn, hd) PROVE Running(tv, tn, hd)'
    <2>1. Synced(hd)'
      BY <1>1, <1>4, <1>11 DEF Running, Synced
    <2>2. Started'
      BY Zenon, <1>2, <1>11 DEF Running
    <2>3. QED
      BY <1>1, <1>3, <1>11, <2>1, <2>2 DEF Running, All
  <1>12. ASSUME Awaiting(tv, tn, hd) PROVE Awaiting(tv, tn, hd)'
    <2>1. Waits(interleaved_packets, tv, tn, hd)'
      BY <1>1, <1>5, <1>12 DEF Awaiting, Waits
    <2>2. ~Started' /\ (received_video' => Has(interleaved_packets', "video", 0))
      BY Zenon, <1>1, <1>2, <1>12 DEF Awaiting
    <2>3. QED
      BY <1>1, <1>12, <2>1, <2>2 DEF Awaiting
  <1>13. OnLine(video_time, NextTicks, heard)'
    <2>1. OnLine(tv, tn, hd)'
      BY <1>9, <1>10, <1>11, <1>12 DEF OnLine
    <2>2. QED
      BY <1>1, <1>7, <1>8, <2>1
  <1>14. LineEncoders'
    BY <1>1 DEF Line, LineEncoders
  <1>15. Heard'
    BY <1>1, <1>6 DEF Line, Heard
  <1>16. QED
    BY <1>13, <1>14, <1>15 DEF Line

LEMMA LineHolds == Spec => []Line
  <1>1. Line /\ [Next]_vars => Line'
    BY VideoLine, AudioLine, RestartLine, StutterLine DEF Next
  <1>2. QED
    BY <1>1, InitLine, PTL DEF Spec

-----------------------------------------------------------------------------
(* A bounded set of numbers has a greatest one: Max is it.                 *)
LEMMA MaxIsThere ==
    ASSUME NEW n \in Nat, NEW S \in SUBSET (1 .. n), S # {}
    PROVE  Max(S) \in S /\ \A x \in S : x <= Max(S)
  <1>1. PICK T \in SUBSET Nat : T = {n - x : x \in S}
    <2>1. \A x \in S : n - x \in Nat
      OBVIOUS
    <2>2. QED
      BY <2>1
  <1>2. T # {}
    BY <1>1
  <1>3. PICK m \in T : \A y \in T : m <= y
    BY <1>2, LeastExists
  <1>4. PICK g \in S : m = n - g
    BY <1>1
  <1>5. ASSUME NEW x \in S PROVE g >= x
    <2>1. m <= n - x
      BY <1>1, <1>3
    <2>2. QED
      BY <1>4, <2>1
  <1>6. Max(S) \in S /\ \A x \in S : Max(S) >= x
    BY <1>5 DEF Max
  <1>7. QED
    BY <1>6

(* In a chain, the last packet of the stream before one is its             *)
(* predecessor.                                                            *)
LEMMA ChainLast ==
    ASSUME NEW a \in Seq(Packet), Chain(a), NEW i \in DOMAIN a,
           NEW j \in DOMAIN a, j < i, Follows(a[j], a[i]),
           NEW m \in DOMAIN a, m < i, Same(a[m], a[i]), j <= m
    PROVE  m = j
  <1>1. i \in Int /\ j \in Int /\ m \in Int
    BY LenProperties
  <1>2. a[i] \in Packet /\ a[j] \in Packet /\ a[m] \in Packet
    BY TimesAreInts
  <1>3. PICK ti \in Int, tj \in Int, tm \in Int, k \in Int :
           /\ ti = a[i].dts_usec /\ tj = a[j].dts_usec /\ tm = a[m].dts_usec
           /\ k = Length(a[i]) /\ k > 0
    BY <1>2, PacketIs
  <1>4. Same(a[j], a[i]) /\ tj + k = ti
    BY <1>3 DEF Follows
  <1>5. Length(a[m]) = k
    BY <1>3, SameIs
  <1>6. tm + k <= ti
    BY <1>3 DEF Chain, Spaced
  <1>7. ASSUME j < m PROVE FALSE
    <2>1. Same(a[j], a[m])
      BY <1>4, SameIs
    <2>2. tj + k <= tm
      BY <1>3, <1>5, <1>7, <2>1 DEF Chain, Spaced
    <2>3. QED
      BY <1>3, <1>4, <1>6, <2>2
  <1>8. QED
    BY <1>1, <1>7

(* The streams of a chain from zero have no gaps.                          *)
LEMMA ChainNoGaps ==
    ASSUME NEW a \in Seq(Packet), Chain(a), FromZero(a), NEW i \in DOMAIN a,
           NEW S, S = {j \in 1 .. i - 1 : StreamOf(a[j]) = StreamOf(a[i])}
    PROVE  a[i].dts_usec = IF S = {} THEN 0
                           ELSE a[Max(S)].dts_usec + Step(StreamOf(a[i]))
  <1>1. PICK n \in Nat : DOMAIN a = 1 .. n
    BY LenProperties
  <1>2. PICK k \in Nat : k = i - 1 /\ i = k + 1 /\ k < n
    BY <1>1
  <1>3. \A j \in DOMAIN a : StreamOf(a[j]) = StreamOf(a[i]) <=> Same(a[j], a[i])
    BY DEF StreamOf, Same
  <1>4. S \in SUBSET (1 .. k) /\ \A j \in 1 .. k : j \in S <=> Same(a[j], a[i])
    <2>1. \A j \in 1 .. k : j \in DOMAIN a
      BY <1>1, <1>2
    <2>2. QED
      BY <1>2, <1>3, <2>1
  <1>5. Step(StreamOf(a[i])) = Length(a[i])
    BY DEF Step, StreamOf, Length
  <1>6. \A j \in DOMAIN a : j < i <=> j \in 1 .. k
    BY <1>1, <1>2
  <1>7. CASE First(a, i)
    <2>1. S = {}
      BY <1>1, <1>2, <1>4, <1>7 DEF First
    <2>2. a[i].dts_usec = 0
      BY <1>7 DEF FromZero
    <2>3. QED
      BY <2>1, <2>2
  <1>8. CASE ~First(a, i)
    <2>1. PICK j \in DOMAIN a : j < i /\ Follows(a[j], a[i])
      BY <1>8 DEF Chain, Linked
    <2>2. j \in S
      BY <1>4, <1>6, <2>1 DEF Follows
    <2>3. PICK m \in S : m = Max(S) /\ \A x \in S : x <= m
      BY <1>4, <2>2, MaxIsThere
    <2>4. m \in 1 .. k /\ m \in DOMAIN a /\ m < i /\ Same(a[m], a[i]) /\ j <= m
      BY <1>1, <1>2, <1>4, <2>2, <2>3
    <2>5. m = j
      BY <2>1, <2>4, ChainLast
    <2>6. a[j].dts_usec + Length(a[i]) = a[i].dts_usec
      BY <2>1 DEF Follows
    <2>7. S # {}
      BY <2>2
    <2>8. QED
      BY <1>5, <2>3, <2>5, <2>6, <2>7
  <1>9. QED
    BY <1>7, <1>8

-----------------------------------------------------------------------------
(* "Audio and video need to start at timestamp 0", and after the start no  *)
(* stream loses a packet: whenever the tracks begin and however often the  *)
(* capture begins again, what prune_interleaved_packets takes away is only *)
(* from the beginning of a stream.                                         *)
THEOREM StartsAtZeroNoGapsHolds == Spec => []StartsAtZeroNoGaps
  <1>1. Line => StartsAtZeroNoGaps
    <2> SUFFICES ASSUME Line, Started PROVE StartsAtZeroNoGaps
      BY DEF StartsAtZeroNoGaps
    <2>1. Chain(All) /\ FromZero(All)
      BY DEF Line, OnLine, Running, Awaiting, Runs
    <2>2. PICK a \in Seq(Packet) : a = All
      <3>1. sent \in Seq(Packet) /\ interleaved_packets \in Seq(Packet)
        BY DEF Line, OnLine, QueueTypes
      <3>2. PICK l \in Nat, n \in Nat, a \in Seq(Packet) :
                Joined(a, sent, interleaved_packets, l, n)
        BY <3>1, ConcatIs
      <3>3. QED
        BY <3>2 DEF Joined, All
    <2>3. a = sent \o interleaved_packets
      BY <2>2 DEF All
    <2>4. ASSUME NEW i \in DOMAIN a
          PROVE  a[i].dts_usec =
                   IF {j \in 1 .. i - 1 : StreamOf(a[j]) = StreamOf(a[i])} = {} THEN 0
                   ELSE a[Max({j \in 1 .. i - 1 : StreamOf(a[j]) = StreamOf(a[i])})].dts_usec
                        + Step(StreamOf(a[i]))
      BY <2>1, <2>2, ChainNoGaps
    <2>5. QED
      BY <2>3, <2>4 DEF StartsAtZeroNoGaps
  <1>2. QED
    BY <1>1, LineHolds, PTL

(* The tracks that were heard before the first video packet are in step    *)
(* with the video to within one audio packet: prune_interleaved_packets    *)
(* pairs the first video packet with the audio of its time.                *)
THEOREM TracksInStepHolds == Spec => []TracksInStep
  <1>1. Line => TracksInStep
    <2> SUFFICES ASSUME Line PROVE TracksInStep
      OBVIOUS
    <2>1. LineEncoders /\ QueueTypes /\ OnLine(video_time, NextTicks, heard)
      BY DEF Line, OnLine
    <2>2. PICK l \in Nat, n \in Nat, a \in Seq(Packet) :
              Joined(a, sent, interleaved_packets, l, n)
      BY <2>1, ConcatIs DEF QueueTypes
    <2>3. ASSUME NEW i \in DOMAIN interleaved_packets
          PROVE  StreamOf(interleaved_packets[i]) \in Streams
                 /\ interleaved_packets[i].dts_usec \in Nat
      <3>1. PICK p \in Packet : p = interleaved_packets[i]
        BY <2>1, TimesAreInts DEF QueueTypes
      <3>2. p.dts_usec >= 0 /\ (p.type = "video" => p.track_idx = 0)
        <4>1. CASE Started
          <5>1. Runs(a, video_time - VideoBase, [t \in Track |-> NextTicks[t] - AudioBase(t)])
            BY <2>1, <2>2, <4>1 DEF OnLine, Running, Awaiting, Joined, All
          <5>2. FromZero(a) /\ Tracked(a)
            BY <5>1 DEF Runs
          <5>3. l + i \in DOMAIN a /\ a[l + i] = p
            BY <2>2, <3>1 DEF Joined
          <5>4. QED
            BY <5>2, <5>3 DEF FromZero, Tracked
        <4>2. CASE ~Started
          <5>1. Waits(interleaved_packets, video_time, NextTicks, heard)
            BY <2>1, <4>2 DEF OnLine, Running, Awaiting
          <5>2. QED
            BY <3>1, <5>1 DEF Waits, Tracked
        <4>3. QED
          BY <4>1, <4>2
      <3>3. p.type \in {"video", "audio"} /\ p.track_idx \in Track /\ p.dts_usec \in Int
        BY PacketIs
      <3>4. <<p.type, p.track_idx>> \in Streams
        BY <3>2, <3>3 DEF Streams
      <3>5. QED
        BY <3>1, <3>2, <3>3, <3>4 DEF StreamOf
    <2>4. sent # <<>> => Started
      BY <2>1 DEF OnLine, Running, Awaiting
    <2>5. TypeOK
      <3>1. received_audio \in BOOLEAN /\ received_video \in BOOLEAN
        BY <2>1 DEF QueueTypes
      <3>2. highest_audio_ts \in Nat /\ highest_video_ts \in Nat
            /\ audio_offsets \in [Track -> Int] /\ track \in Track
        BY <2>1 DEF QueueTypes, LineEncoders
      <3>3. QED
        BY Zenon, <2>3, <2>4, <3>1, <3>2 DEF TypeOK
    <2>6. SyncedIfHeard
      BY <2>1 DEF OnLine, Running, Awaiting, Synced, SyncedIfHeard
    <2>7. QED
      BY <2>5, <2>6 DEF TracksInStep
  <1>2. QED
    BY <1>1, LineHolds, PTL

=============================================================================
