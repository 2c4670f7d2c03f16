--------------------------- MODULE RtmpQueue_proofs ---------------------------
(***************************************************************************)
(* Proofs about the packet queue, for all groups of pictures, thresholds   *)
(* and bounds: dropping keeps the order, audio, key frames and the chain   *)
(* of reference frames, counts what it takes, and leaves a token for the   *)
(* rest.                                                                   *)
(***************************************************************************)
EXTENDS RtmpQueue, FiniteSetTheorems, WellFoundedInduction, TLAPS

Kinds == VideoKinds \cup {"audio"}

(* What the encoders have produced: packets numbered from 1.               *)
Arrivals ==
    /\ IsFiniteSet(arrived) /\ arrived \subseteq Packet
    /\ produced \in 0 .. MaxPackets
    /\ \A p \in arrived : p.dts <= produced
    /\ \A p, r \in arrived : p.dts = r.dts => p = r
    /\ gop \in Seq(VideoKinds)
    /\ anchors \in [old : SUBSET (1 .. produced), new : SUBSET (1 .. produced),
                    b : SUBSET (1 .. produced)]

(* What is on its way has been produced, and nothing twice.                *)
Way ==
    /\ packets \in Seq(arrived) /\ sent \subseteq arrived
    /\ IF sender = "send" THEN sending \in arrived \ sent ELSE sending = NoPacket
    /\ last_dts \in 0 .. produced /\ min_priority \in 0 .. 1
    /\ producer \in {"idle", "post"} /\ sender \in {"wait", "woken", "send"}

(* Each packet produced is dropped, queued, or further on its way.         *)
Counted ==
    /\ dropped_frames \in Int
    /\ produced = dropped_frames + Len(packets) + Cardinality(sent \cup Sending)

(* Only frames are dropped.                                                *)
FramesOnly == \A d \in Dropped : d.kind \in {"P", "B", "b"}

(* No packet is posted for twice.                                          *)
Tokens ==
    /\ send_sem \in Nat
    /\ send_sem + (IF producer = "post" THEN 1 ELSE 0) <= produced

(* r is a reference frame, and no key frame comes after it, up to dts.     *)
Refers(r, dts) ==
    /\ r.kind \in {"I", "P"}
    /\ \A k \in arrived : k.kind = "I" /\ k.dts <= dts => k.dts <= r.dts

(* A P frame and the frame it refers to are of one group of pictures.      *)
SameGop ==
    \A p \in arrived : p.kind = "P" =>
        \A d \in p.refs : \E r \in arrived : r.dts = d /\ d < p.dts /\ Refers(r, p.dts)

(* The frame that the next P frame refers to is kept.                      *)
AnchorKept ==
    \A d \in anchors.new : \E r \in OnTheWay : r.dts = d /\ Refers(r, produced)

(* The inductive invariant.                                                *)
IInv ==
    /\ Arrivals /\ Way /\ QueueInOrder /\ Counted /\ FramesOnly /\ Tokens
    /\ TokensCover /\ SameGop /\ AnchorKept /\ ChainKept

-----------------------------------------------------------------------------
(* Induction over the natural numbers, for a set.                          *)
LEMMA NatSet ==
    ASSUME NEW T, 0 \in T, \A n \in Nat : n \in T => n + 1 \in T
    PROVE  \A n \in Nat : n \in T
  <1> DEFINE R == OpToRel(<, Nat)
  <1>1. IsWellFoundedOn(R, Nat)
    BY NatLessThanWellFounded
  <1>2. \A m, n \in Nat : m < n => <<m, n>> \in R
    BY DEF OpToRel
  <1> HIDE DEF R
  <1> SUFFICES ASSUME Nat \ T # {} PROVE FALSE
    OBVIOUS
  <1>3. PICK m \in Nat \ T : \A n \in Nat \ T : <<n, m>> \notin R
    BY <1>1, WFMin
  <1>4. PICK d \in Nat : m = d + 1
    <2>1. m # 0 /\ m \in Nat
      BY <1>3
    <2>2. m - 1 \in Nat /\ m = (m - 1) + 1
      BY <2>1
    <2>3. QED
      BY <2>2
  <1>5. <<d, m>> \in R
    BY <1>2, <1>4
  <1>6. d \in T
    BY <1>3, <1>4, <1>5
  <1>7. QED
    BY <1>3, <1>4, <1>6

(* A loop that goes through the packets up to the n-th.                    *)
Loop(f, q, places, n) ==
    f = [i \in 0 .. n |->
            IF i = 0 THEN <<>>
            ELSE IF i \in places THEN Append(f[i - 1], q[i])
            ELSE f[i - 1]]

(* What the loop has after each turn.                                      *)
LEMMA LoopTurn ==
    ASSUME NEW f, NEW q, NEW places, NEW n \in Nat, Loop(f, q, places, n)
    PROVE  /\ f[0] = <<>>
           /\ \A i \in 0 .. n - 1 :
                 f[i + 1] = IF i + 1 \in places THEN Append(f[i], q[i + 1]) ELSE f[i]
  <1>1. \A i \in 0 .. n : f[i] = IF i = 0 THEN <<>>
                                ELSE IF i \in places THEN Append(f[i - 1], q[i])
                                ELSE f[i - 1]
    <2> DEFINE g == [i \in 0 .. n |-> IF i = 0 THEN <<>>
                                     ELSE IF i \in places THEN Append(f[i - 1], q[i])
                                     ELSE f[i - 1]]
    <2>1. f = g
      BY DEF Loop
    <2>2. \A i \in 0 .. n : g[i] = IF i = 0 THEN <<>>
                                  ELSE IF i \in places THEN Append(f[i - 1], q[i])
                                  ELSE f[i - 1]
      OBVIOUS
    <2> HIDE DEF g
    <2>3. QED
      BY <2>1, <2>2
  <1>2. f[0] = <<>>
    <2>1. PICK z \in 0 .. n : z = 0
      OBVIOUS
    <2>2. f[z] = <<>>
      BY ONLY <1>1, <2>1
    <2>3. QED
      BY <2>1, <2>2
  <1>3. ASSUME NEW i \in 0 .. n - 1
        PROVE  f[i + 1] = IF i + 1 \in places THEN Append(f[i], q[i + 1]) ELSE f[i]
    <2>1. PICK j \in 0 .. n : j = i + 1
      OBVIOUS
    <2>2. j # 0 /\ j - 1 = i
      BY <2>1
    <2>3. f[j] = IF j \in places THEN Append(f[i], q[j]) ELSE f[i]
      BY <1>1, <2>2
    <2>4. QED
      BY <2>1, <2>3
  <1>4. QED
    BY <1>2, <1>3

(* A recursive function is defined on every initial segment.               *)
LEMMA LoopExists ==
    ASSUME NEW q, NEW places, NEW n \in Nat
    PROVE  \E f : Loop(f, q, places, n)
  <1> DEFINE T == {m \in Nat : \E f : Loop(f, q, places, m)}
  <1>1. 0 \in T
    <2>1. Loop([i \in 0 .. 0 |-> <<>>], q, places, 0)
      BY DEF Loop
    <2>2. QED
      BY <2>1
  <1>2. ASSUME NEW m \in Nat, m \in T PROVE m + 1 \in T
    <2>1. PICK f : Loop(f, q, places, m)
      BY <1>2
    <2> DEFINE last == IF m + 1 \in places THEN Append(f[m], q[m + 1]) ELSE f[m]
               g == [i \in 0 .. m + 1 |-> IF i = m + 1 THEN last ELSE f[i]]
    <2>2. \A i \in 0 .. m + 1 :
             g[i] = IF i = 0 THEN <<>>
                    ELSE IF i \in places THEN Append(g[i - 1], q[i])
                    ELSE g[i - 1]
      <3> SUFFICES ASSUME NEW i \in 0 .. m + 1
                   PROVE  g[i] = IF i = 0 THEN <<>>
                                 ELSE IF i \in places THEN Append(g[i - 1], q[i])
                                 ELSE g[i - 1]
        OBVIOUS
      <3>1. i # 0 => i - 1 \in 0 .. m /\ g[i - 1] = f[i - 1]
        OBVIOUS
      <3>2. CASE i = m + 1
        <4>1. i # 0 /\ i - 1 = m /\ g[i] = last /\ g[i - 1] = f[m]
          BY <3>1, <3>2
        <4>2. g[i] = IF i \in places THEN Append(g[i - 1], q[i]) ELSE g[i - 1]
          BY ONLY <3>2, <4>1
        <4>3. i # 0
          BY <3>2
        <4> HIDE DEF g
        <4>4. QED
          BY Zenon, <4>2, <4>3
      <3>3. CASE i = 0
        <4>1. f[i] = <<>>
          BY ONLY <2>1, <3>3, m \in Nat, LoopTurn
        <4>2. g[i] = f[i]
          BY <3>3
        <4> HIDE DEF g
        <4>3. QED
          BY Zenon, <3>3, <4>1, <4>2
      <3>4. CASE i \in 1 .. m
        <4>1. PICK j \in 0 .. m - 1 : i = j + 1
          <5>1. i - 1 \in 0 .. m - 1 /\ i = (i - 1) + 1
            BY <3>4
          <5>2. QED
            BY <5>1
        <4>2. f[i] = IF i \in places THEN Append(f[j], q[i]) ELSE f[j]
          BY <2>1, <4>1, LoopTurn
        <4>3. g[i] = f[i] /\ i - 1 = j /\ g[j] = f[j] /\ i # 0
          BY <3>4, <4>1
        <4> HIDE DEF g
        <4>4. QED
          BY <4>2, <4>3
      <3>5. QED
        BY <3>2, <3>3, <3>4
    <2>3. Loop(g, q, places, m + 1)
      BY <2>2 DEF Loop
    <2>4. QED
      BY <2>3
  <1>3. QED
    <2> HIDE DEF T
    <2>1. n \in T
      BY <1>1, <1>2, NatSet
    <2>2. QED
      BY <2>1 DEF T

(* What is pushed back: the packets at the places, in their order.         *)
Order(pos, r, q, places, n) ==
    /\ pos \in [1 .. Len(r) -> places \cap (1 .. n)]
    /\ \A j, k \in 1 .. Len(r) : j < k => pos[j] < pos[k]
    /\ \A k \in 1 .. Len(r) : r[k] = q[pos[k]]
    /\ \A i \in places \cap (1 .. n) : \E k \in 1 .. Len(r) : pos[k] = i

(* One turn of the loop pushes one packet back behind the others.          *)
LEMMA OrderStep ==
    ASSUME NEW S, NEW q \in Seq(S), NEW places, NEW n \in Nat, n < Len(q),
           NEW r \in Seq(S), NEW pos, Order(pos, r, q, places, n),
           n + 1 \in places
    PROVE  LET s == Append(r, q[n + 1])
           IN  s \in Seq(S) /\ \E p : Order(p, s, q, places, n + 1)
  <1> DEFINE s == Append(r, q[n + 1])
             p == [k \in 1 .. Len(r) + 1 |-> IF k = Len(r) + 1 THEN n + 1 ELSE pos[k]]
  <1>1. s \in Seq(S) /\ Len(s) = Len(r) + 1
    OBVIOUS
  <1>2. \A k \in 1 .. Len(r) : s[k] = r[k]
    OBVIOUS
  <1>3. s[Len(r) + 1] = q[n + 1]
    OBVIOUS
  <1> HIDE DEF s
  <1>4. \A k \in 1 .. Len(r) : pos[k] \in places /\ pos[k] \in 1 .. n
    BY DEF Order
  <1>5. p \in [1 .. Len(s) -> places \cap (1 .. n + 1)]
    BY <1>1, <1>4
  <1>6. \A j, k \in 1 .. Len(s) : j < k => p[j] < p[k]
    BY <1>1, <1>4 DEF Order
  <1>7. \A k \in 1 .. Len(s) : s[k] = q[p[k]]
    BY <1>1, <1>2, <1>3 DEF Order
  <1>8. ASSUME NEW i \in places \cap (1 .. n + 1)
        PROVE  \E k \in 1 .. Len(s) : p[k] = i
    <2>1. CASE i = n + 1
      <3>1. Len(r) + 1 \in 1 .. Len(s) /\ p[Len(r) + 1] = i
        BY <1>1, <2>1
      <3>2. QED
        BY <3>1
    <2>2. CASE i \in 1 .. n
      <3>1. PICK k \in 1 .. Len(r) : pos[k] = i
        BY <2>2 DEF Order
      <3>2. k \in 1 .. Len(s) /\ p[k] = i
        BY <1>1, <3>1
      <3>3. QED
        BY <3>2
    <2>3. i = n + 1 \/ i \in 1 .. n
      OBVIOUS
    <2>4. QED
      BY <2>1, <2>2, <2>3
  <1>9. Order(p, s, q, places, n + 1)
    BY <1>5, <1>6, <1>7, <1>8 DEF Order
  <1>10. QED
    BY <1>1, <1>9 DEF s

(* The loop pushes back what is at the places, in their order.             *)
LEMMA PushedBackOrder ==
    ASSUME NEW S, NEW q \in Seq(S), NEW places
    PROVE  LET r == PushedBack(q, places)
           IN  r \in Seq(S) /\ \E pos : Order(pos, r, q, places, Len(q))
  <1>0. Len(q) \in Nat
    OBVIOUS
  <1>1. \E f : Loop(f, q, places, Len(q))
    BY <1>0, LoopExists
  <1>2. PushedBack(q, places) = (CHOOSE f : Loop(f, q, places, Len(q)))[Len(q)]
    BY DEF PushedBack, Loop
  <1>3. PICK f : Loop(f, q, places, Len(q)) /\ PushedBack(q, places) = f[Len(q)]
    BY <1>1, <1>2
  <1> DEFINE Good(n) == f[n] \in Seq(S) /\ \E pos : Order(pos, f[n], q, places, n)
             T == {n \in Nat : n <= Len(q) => Good(n)}
  <1>4. 0 \in T
    <2>1. f[0] = <<>>
      BY <1>0, <1>3, LoopTurn
    <2>2. Order(<<>>, <<>>, q, places, 0)
      BY DEF Order
    <2>3. \E pos : Order(pos, f[0], q, places, 0)
      BY <2>1, <2>2
    <2>4. f[0] \in Seq(S)
      BY <2>1
    <2>5. Good(0)
      BY <2>3, <2>4
    <2> HIDE DEF Good
    <2>6. QED
      BY <2>5
  <1>5. ASSUME NEW n \in Nat, n \in T PROVE n + 1 \in T
    <2> SUFFICES ASSUME n + 1 <= Len(q) PROVE Good(n + 1)
      OBVIOUS
    <2>1. Good(n)
      BY <1>5
    <2>2. f[n + 1] = IF n + 1 \in places THEN Append(f[n], q[n + 1]) ELSE f[n]
      <3>1. n \in 0 .. Len(q) - 1
        BY <1>0
      <3>2. QED
        BY <1>0, <1>3, <3>1, LoopTurn
    <2>3. PICK pos : Order(pos, f[n], q, places, n)
      BY <2>1
    <2>4. CASE n + 1 \in places
      BY <2>1, <2>2, <2>3, <2>4, OrderStep
    <2>5. CASE n + 1 \notin places
      <3>1. places \cap (1 .. n + 1) = places \cap (1 .. n)
        BY <2>5
      <3>2. Order(pos, f[n + 1], q, places, n + 1)
        BY <2>2, <2>3, <2>5, <3>1 DEF Order
      <3>3. QED
        BY <2>1, <2>2, <2>5, <3>2
    <2>6. QED
      BY <2>4, <2>5
  <1>6. Len(q) \in T
    <2> HIDE DEF T
    <2>1. QED
      BY <1>4, <1>5, NatSet
  <1>7. QED
    BY <1>3, <1>6

-----------------------------------------------------------------------------
(* The packets of a queue, in the order in which they were produced.       *)
InQueue(q) == {q[i] : i \in DOMAIN q}
Ordered(q) == \A i, j \in DOMAIN q : i < j => q[i].dts < q[j].dts

(* The same for a queue: its packets, their order, and their number.       *)
LEMMA PushedBackPackets ==
    ASSUME NEW S, NEW q \in Seq(S), NEW places \in SUBSET DOMAIN q
    PROVE  LET r == PushedBack(q, places)
           IN  /\ r \in Seq(S) /\ InQueue(r) = {q[i] : i \in places}
               /\ Len(r) <= Len(q)
               /\ Ordered(q) => Ordered(r)
  <1>1. PICK r \in Seq(S) : /\ r = PushedBack(q, places)
                            /\ \E pos : Order(pos, r, q, places, Len(q))
    BY PushedBackOrder
  <1>2. PICK pos : Order(pos, r, q, places, Len(q))
    BY <1>1
  <1>3. DOMAIN r = 1 .. Len(r) /\ DOMAIN q = 1 .. Len(q)
    OBVIOUS
  <1>4. \A k \in DOMAIN r : pos[k] \in places /\ r[k] = q[pos[k]]
    BY <1>2, <1>3 DEF Order
  <1>5. \A i \in places : \E k \in DOMAIN r : pos[k] = i
    BY <1>2, <1>3 DEF Order
  <1>6. InQueue(r) = {q[i] : i \in places}
    BY <1>4, <1>5 DEF InQueue
  <1>7. ASSUME Ordered(q) PROVE Ordered(r)
    <2> SUFFICES ASSUME NEW j \in DOMAIN r, NEW k \in DOMAIN r, j < k
                 PROVE  r[j].dts < r[k].dts
      BY DEF Ordered
    <2>1. pos[j] < pos[k]
      BY <1>2, <1>3 DEF Order
    <2>2. pos[j] \in DOMAIN q /\ pos[k] \in DOMAIN q
      BY <1>4
    <2>3. q[pos[j]].dts < q[pos[k]].dts
      BY <1>7, <2>1, <2>2 DEF Ordered
    <2>4. QED
      BY <1>4, <2>3
  <1>8. Len(r) <= Len(q)
    <2>1. /\ IsFiniteSet(1 .. Len(r)) /\ Cardinality(1 .. Len(r)) = Len(r)
          /\ IsFiniteSet(1 .. Len(q)) /\ Cardinality(1 .. Len(q)) = Len(q)
      <3>1. \A n \in Nat : IsFiniteSet(1 .. n) /\ Cardinality(1 .. n) = n
        <4> SUFFICES ASSUME NEW n \in Nat
                     PROVE  IsFiniteSet(1 .. n) /\ Cardinality(1 .. n) = n
          OBVIOUS
        <4>1. IsFiniteSet(1 .. n) /\ Cardinality(1 .. n) = IF 1 > n THEN 0 ELSE n - 1 + 1
          BY FS_Interval
        <4>2. QED
          BY <4>1
      <3>2. Len(r) \in Nat /\ Len(q) \in Nat
        OBVIOUS
      <3>3. QED
        BY <3>1, <3>2
    <2>2. pos \in Injection(1 .. Len(r), 1 .. Len(q))
      <3>1. pos \in [1 .. Len(r) -> 1 .. Len(q)]
        BY <1>2 DEF Order
      <3>2. ASSUME NEW j \in 1 .. Len(r), NEW k \in 1 .. Len(r), pos[j] = pos[k]
            PROVE  j = k
        <4>1. ~(j < k) /\ ~(k < j)
          BY <1>2, <3>1, <3>2 DEF Order
        <4>2. QED
          BY <4>1
      <3>3. QED
        BY <3>1, <3>2 DEF Injection, IsInjective
    <2>3. QED
      BY <2>1, <2>2, FS_Injection
  <1>9. QED
    BY <1>1, <1>6, <1>7, <1>8

(* What thinning leaves of the queue: of all references that anything kept *)
(* or still to come needs, nothing is taken.                               *)
Thinned(q) ==
    /\ q \in Seq(arrived) /\ Len(q) <= Len(packets)
    /\ InQueue(q) \subseteq Queued /\ Ordered(q)
    /\ \A d \in Queued \ InQueue(q) : d.kind \in {"P", "B", "b"}
    /\ \A p \in InQueue(q), r \in Queued :
          p.kind = "P" /\ r.dts < p.dts /\ Refers(r, p.dts) => r \in InQueue(q)
    /\ \A r \in Queued : Refers(r, produced) => r \in InQueue(q)

(* A queue that is not thinned needs no more than what it has.             *)
LEMMA NothingThinned == ASSUME IInv PROVE Thinned(packets)
  BY DEF IInv, Way, QueueInOrder, Thinned, InQueue, Queued, Ordered

(* A packet and its place.                                                 *)
LEMMA QueuedPacket ==
    ASSUME IInv
    PROVE  /\ \A i \in DOMAIN packets :
                 /\ packets[i] \in Queued /\ packets[i] \in arrived
                 /\ packets[i].dts \in 1 .. produced /\ packets[i].kind \in Kinds
           /\ \A p \in Queued : \E i \in DOMAIN packets : p = packets[i]
           /\ packets \in Seq(arrived) /\ produced \in Nat
           /\ IsFiniteSet(KeyframesIn(packets))
           /\ Cardinality(KeyframesIn(packets)) \in Nat
  <1>1. packets \in Seq(arrived) /\ produced \in Nat
    BY QueueAssumption DEF IInv, Arrivals, Way
  <1>2. KeyframesIn(packets) \subseteq 1 .. Len(packets)
    BY <1>1 DEF KeyframesIn
  <1>3. IsFiniteSet(1 .. Len(packets))
    BY <1>1, FS_Interval
  <1>4. IsFiniteSet(KeyframesIn(packets))
    BY <1>2, <1>3, FS_Subset
  <1>5. Cardinality(KeyframesIn(packets)) \in Nat
    BY <1>4, FS_CardinalityType
  <1>6. \A p \in arrived : p.dts \in 1 .. produced /\ p.kind \in Kinds
    BY DEF IInv, Arrivals, Packet, Kinds, VideoKinds
  <1>7. QED
    BY <1>1, <1>4, <1>5, <1>6 DEF Queued

(* The key frames before a moment.                                         *)
KeyframesBefore(dts) == {i \in KeyframesIn(packets) : packets[i].dts < dts}

(* A P frame is kept if the same key frames are before it as before        *)
(* another that is kept, or if all of them are.                            *)
LEMMA KeptP ==
    ASSUME IInv, NEW i \in DOMAIN packets, packets[i].kind = "P",
           \/ KeyframesBefore(packets[i].dts) = KeyframesIn(packets)
           \/ \E j \in KeptPlaces(packets) :
                 /\ packets[j].kind = "P"
                 /\ KeyframesBefore(packets[i].dts) = KeyframesBefore(packets[j].dts)
    PROVE  i \in KeptPlaces(packets)
  <1>1. KeptFirst(packets[i])
    BY DEF KeptFirst, DropPriority, Priority
  <1> DEFINE Left(k) == Cardinality(KeyframesIn(packets))
                        - Cardinality(KeyframesBefore(packets[k].dts))
  <1>2. \A k \in DOMAIN packets :
           packets[k].kind = "P" => (KeptSecond(packets[k], packets) <=> Left(k) <= 1)
    BY DEF KeptSecond, KeyframesBefore
  <1>3. Left(i) <= 1
    <2>1. CASE KeyframesBefore(packets[i].dts) = KeyframesIn(packets)
      BY <2>1, QueuedPacket
    <2>2. ASSUME NEW j \in KeptPlaces(packets), packets[j].kind = "P",
                 KeyframesBefore(packets[i].dts) = KeyframesBefore(packets[j].dts)
          PROVE  Left(i) <= 1
      <3>1. Left(j) <= 1
        BY <1>2, <2>2 DEF KeptPlaces
      <3>2. QED
        BY <2>2, <3>1
    <2>3. QED
      BY <2>1, <2>2
  <1>4. QED
    BY <1>1, <1>2, <1>3 DEF KeptPlaces

(* Both passes of drop_frames.                                             *)
LEMMA DropThins == ASSUME IInv PROVE Thinned(AfterDrop(packets))
  <1> DEFINE q == AfterDrop(packets)
             places == KeptPlaces(packets)
  <1>1. /\ q \in Seq(arrived) /\ InQueue(q) = {packets[i] : i \in places}
        /\ Len(q) <= Len(packets)
        /\ Ordered(packets) => Ordered(q)
    <2>1. places \in SUBSET DOMAIN packets
      BY DEF KeptPlaces
    <2>2. QED
      BY <2>1, QueuedPacket, PushedBackPackets DEF AfterDrop
  <1>2. Ordered(q)
    BY <1>1 DEF IInv, QueueInOrder, Ordered
  <1>3. InQueue(q) \subseteq Queued
    BY <1>1 DEF KeptPlaces, Queued
  <1>4. \A i \in DOMAIN packets : packets[i] \notin InQueue(q) => i \notin places
    BY <1>1
  <1> HIDE DEF q
  <1>5. ASSUME NEW d \in Queued \ InQueue(q) PROVE d.kind \in {"P", "B", "b"}
    <2>1. PICK i \in DOMAIN packets : d = packets[i] /\ i \notin places
      BY <1>4, QueuedPacket
    <2>2. d.kind \in Kinds
      BY <2>1, QueuedPacket
    <2>3. d.kind \notin {"I", "audio"}
      BY <2>1 DEF KeptPlaces, KeptFirst, KeptSecond, IsVideo, DropPriority, Priority
    <2>4. QED
      BY <2>2, <2>3 DEF Kinds, VideoKinds
  <1>6. ASSUME NEW i \in DOMAIN packets, packets[i].kind = "I" PROVE i \in places
    BY <1>6 DEF KeptPlaces, KeptFirst, KeptSecond, IsVideo, DropPriority, Priority
  <1>7. ASSUME NEW p \in InQueue(q), NEW r \in Queued,
               p.kind = "P", r.dts < p.dts, Refers(r, p.dts)
        PROVE  r \in InQueue(q)
    <2>1. PICK i \in DOMAIN packets : r = packets[i]
      BY QueuedPacket
    <2>2. PICK j \in places : p = packets[j] /\ j \in DOMAIN packets
      BY <1>1, <1>7 DEF KeptPlaces, q
    <2>3. CASE r.kind = "I"
      BY <1>1, <1>6, <2>1, <2>3
    <2>4. CASE r.kind = "P"
      <3>1. ASSUME NEW k \in KeyframesIn(packets)
            PROVE  packets[k].dts < r.dts <=> packets[k].dts < p.dts
        <4>1. k \in DOMAIN packets /\ packets[k].kind = "I"
          BY DEF KeyframesIn
        <4>2. packets[k] # r /\ packets[k] \in arrived /\ r \in arrived
          BY <4>1, <2>4, QueuedPacket, <2>1
        <4>3. packets[k].dts # r.dts
          BY <4>2 DEF IInv, Arrivals
        <4>4. packets[k].dts <= p.dts => packets[k].dts <= r.dts
          BY <1>7, <4>1, <4>2 DEF Refers
        <4>5. packets[k].dts \in Int /\ r.dts \in Int /\ p.dts \in Int
          BY <4>1, <2>1, <2>2, QueuedPacket
        <4>6. QED
          BY <4>3, <4>4, <4>5, <1>7
      <3>2. KeyframesBefore(packets[i].dts) = KeyframesBefore(packets[j].dts)
        BY <2>1, <2>2, <3>1 DEF KeyframesBefore
      <3>3. i \in places
        BY <2>1, <2>2, <2>4, <1>7, <3>2, KeptP
      <3>4. QED
        BY <1>1, <2>1, <3>3
    <2>5. QED
      BY <2>3, <2>4, <1>7 DEF Refers
  <1>8. ASSUME NEW r \in Queued, Refers(r, produced)
        PROVE  r \in InQueue(q)
    <2>1. PICK i \in DOMAIN packets : r = packets[i]
      BY QueuedPacket
    <2>2. CASE r.kind = "I"
      BY <1>1, <1>6, <2>1, <2>2
    <2>3. CASE r.kind = "P"
      <3>1. ASSUME NEW k \in KeyframesIn(packets) PROVE packets[k].dts < r.dts
        <4>1. k \in DOMAIN packets /\ packets[k].kind = "I"
          BY DEF KeyframesIn
        <4>2. packets[k] # r /\ packets[k] \in arrived /\ r \in arrived
          BY <4>1, <2>3, QueuedPacket, <2>1
        <4>3. packets[k].dts # r.dts
          BY <4>2 DEF IInv, Arrivals
        <4>4. packets[k].dts <= r.dts
          BY <1>8, <4>1, <4>2, QueuedPacket DEF Refers
        <4>5. packets[k].dts \in Int /\ r.dts \in Int
          BY <4>1, <2>1, QueuedPacket
        <4>6. QED
          BY <4>3, <4>4, <4>5
      <3>2. KeyframesBefore(packets[i].dts) = KeyframesIn(packets)
        BY <2>1, <3>1 DEF KeyframesBefore
      <3>3. i \in places
        BY <2>1, <2>3, <3>2, KeptP
      <3>4. QED
        BY <1>1, <2>1, <3>3
    <2>4. QED
      BY <2>2, <2>3, <1>8 DEF Refers
  <1>9. QED
    BY <1>1, <1>2, <1>3, <1>5, <1>7, <1>8 DEF Thinned, q

-----------------------------------------------------------------------------
Anchors(n) == [old : SUBSET (1 .. n), new : SUBSET (1 .. n), b : SUBSET (1 .. n)]

(* A packet arrives at a queue that may have been thinned.                 *)
Arrival(p, q, min) ==
    /\ producer = "idle" /\ produced < MaxPackets
    /\ Thinned(q) /\ min \in 0 .. 1
    /\ p \in Packet /\ p.dts = produced + 1
    /\ p.kind = "P" => p.refs = anchors.new
    /\ Arrive(p, q, min)
    /\ arrived' = arrived \cup {p} /\ gop' \in Seq(VideoKinds)
    /\ anchors' \in Anchors(produced + 1)
    /\ anchors'.new = IF p.kind \in {"I", "P"} THEN {p.dts} ELSE anchors.new
    /\ UNCHANGED <<send_sem, sender, sending, sent>>

(* What an arrival does: the number of packets grows, and the new packet   *)
(* is queued or dropped.                                                   *)
LEMMA Arriving ==
    ASSUME IInv, NEW p, NEW q, NEW min, Arrival(p, q, min)
    PROVE  /\ IsFiniteSet(arrived') /\ produced' = produced + 1 /\ p \notin arrived
           /\ produced \in Nat /\ \A r \in arrived : r.dts \in 1 .. produced
           /\ \A r \in arrived : r.dts < p.dts
           /\ \A r \in arrived' : r \in arrived \/ r = p
           /\ q \in Seq(arrived) /\ Sending' = Sending
           /\ \/ /\ packets' = q /\ Queued' = InQueue(q)
                 /\ dropped_frames' = dropped_frames + 1 + Len(packets) - Len(q)
                 /\ last_dts' = last_dts /\ producer' = producer
                 /\ p.kind \in {"B", "b"}
                 /\ Len(packets') = Len(q)
              \/ /\ packets' = Append(q, p) /\ Queued' = InQueue(q) \cup {p}
                 /\ dropped_frames' = dropped_frames + Len(packets) - Len(q)
                 /\ last_dts' = p.dts /\ producer' = "post"
                 /\ Len(packets') = Len(q) + 1
           /\ min_priority' \in 0 .. 1
  <1>1. produced \in Nat /\ \A r \in arrived : r.dts \in 1 .. produced
    BY QueueAssumption DEF IInv, Arrivals, Packet
  <1>2. p \notin arrived
    BY <1>1 DEF Arrival
  <1>3. IsFiniteSet(arrived') /\ produced' = produced + 1
    BY <1>2, FS_AddElement DEF Arrival, IInv, Arrivals, produced
  <1>4. q \in Seq(arrived)
    BY DEF Arrival, Thinned
  <1>5. Sending' = Sending
    BY DEF Arrival, Sending
  <1>9. \A r \in arrived : r.dts < p.dts
    BY <1>1 DEF Arrival
  <1>6. CASE IsVideo(p) /\ Priority(p.kind) < min
    <2>1. packets' = q /\ min_priority' = min
      BY <1>6 DEF Arrival, Arrive
    <2>2. Queued' = InQueue(q)
      BY <2>1 DEF Queued, InQueue
    <2>3. p.kind \in {"B", "b"}
      BY <1>6 DEF Arrival, Packet, IsVideo, Priority
    <2>4. QED
      BY <1>1, <1>2, <1>3, <1>4, <1>5, <1>9, <1>6, <2>1, <2>2, <2>3 DEF Arrival, Arrive
  <1>7. CASE ~(IsVideo(p) /\ Priority(p.kind) < min)
    <2>1. packets' = Append(q, p) /\ min_priority' \in 0 .. 1 /\ Len(packets') = Len(q) + 1
      BY <1>4, <1>7 DEF Arrival, Arrive
    <2>2. Queued' = InQueue(q) \cup {p}
      <3>1. /\ DOMAIN packets' = DOMAIN q \cup {Len(q) + 1}
            /\ packets'[Len(q) + 1] = p
            /\ \A i \in DOMAIN q : packets'[i] = q[i]
        BY <1>4, <2>1
      <3>2. QED
        BY <3>1 DEF Queued, InQueue
    <2>3. QED
      BY <1>1, <1>2, <1>3, <1>4, <1>5, <1>9, <1>7, <2>1, <2>2 DEF Arrival, Arrive
  <1>8. QED
    BY <1>6, <1>7

(* The packets that have been produced, with the new one.                  *)
LEMMA ArrivalArrivals ==
    ASSUME IInv, NEW p, NEW q, NEW min, Arrival(p, q, min)
    PROVE  Arrivals'
  <1>1. /\ IsFiniteSet(arrived') /\ produced' = produced + 1 /\ p.dts = produced + 1
        /\ produced \in Nat /\ \A r \in arrived : r.dts \in 1 .. produced
        /\ \A r \in arrived' : r \in arrived \/ r = p
    BY Arriving DEF Arrival
  <1>2. arrived' \subseteq Packet /\ produced' \in 0 .. MaxPackets
    BY <1>1, QueueAssumption DEF IInv, Arrivals, Arrival
  <1>3. \A r \in arrived' : r.dts <= produced'
    BY <1>1
  <1>4. \A x, y \in arrived' : x.dts = y.dts => x = y
    BY <1>1 DEF IInv, Arrivals
  <1>5. anchors' \in [old : SUBSET (1 .. produced'), new : SUBSET (1 .. produced'),
                      b : SUBSET (1 .. produced')]
    BY <1>1 DEF Arrival, Anchors
  <1>6. gop' \in Seq(VideoKinds)
    BY DEF Arrival
  <1>7. QED
    BY <1>1, <1>2, <1>3, <1>4, <1>5, <1>6 DEF Arrivals

(* What is on its way, and its order.                                      *)
LEMMA ArrivalWay ==
    ASSUME IInv, NEW p, NEW q, NEW min, Arrival(p, q, min)
    PROVE  Way' /\ QueueInOrder'
  <1>1. Way'
    <2>1. arrived \subseteq arrived' /\ p \in arrived' /\ p \notin arrived
      BY Arriving DEF Arrival
    <2>2. packets' \in Seq(arrived')
      <3>1. q \in Seq(arrived')
        BY <2>1, Arriving
      <3>2. packets' = q \/ packets' = Append(q, p)
        BY Arriving
      <3> HIDE DEF Arrival
      <3>3. QED
        BY <2>1, <3>1, <3>2
    <2>3. last_dts' \in 0 .. produced'
      <3>1. last_dts' = last_dts \/ last_dts' = produced + 1
        BY Arriving DEF Arrival
      <3>2. last_dts \in 0 .. produced /\ produced \in Nat /\ produced' = produced + 1
        BY Arriving DEF IInv, Way
      <3>3. QED
        BY <3>1, <3>2
    <2>4. QED
      BY <2>1, <2>2, <2>3, Arriving DEF IInv, Way, Arrival
  <1>2. Ordered(packets')
    <2>1. CASE packets' = q
      BY <2>1 DEF Arrival, Thinned
    <2>2. CASE packets' = Append(q, p)
      <3> SUFFICES ASSUME NEW i \in DOMAIN packets', NEW j \in DOMAIN packets', i < j
                   PROVE  packets'[i].dts < packets'[j].dts
        BY DEF Ordered
      <3>1. i \in DOMAIN q /\ packets'[i] = q[i] /\ q[i] \in arrived
        BY <2>2, Arriving
      <3>2. CASE j \in DOMAIN q
        BY <2>2, <3>1, <3>2, Arriving DEF Arrival, Thinned, Ordered
      <3>3. CASE j = Len(q) + 1
        <4>1. packets'[j] = p
          BY <2>2, <3>3, Arriving
        <4>2. q[i].dts < p.dts
          BY <3>1, Arriving
        <4>3. QED
          BY <3>1, <4>1, <4>2
      <3>4. QED
        BY <2>2, <3>2, <3>3, Arriving
    <2>3. QED
      BY <2>1, <2>2, Arriving
  <1>3. \A x \in (sent \cup Sending)', y \in Queued' : x.dts < y.dts
    <2> SUFFICES ASSUME NEW x \in sent \cup Sending, NEW y \in Queued'
                 PROVE  x.dts < y.dts
      BY Arriving DEF Arrival
    <2>1. CASE y \in InQueue(q)
      BY <2>1 DEF IInv, QueueInOrder, Arrival, Thinned
    <2>2. CASE y = p
      <3>1. x \in arrived
        BY DEF IInv, Way, Sending
      <3>2. QED
        BY <2>2, <3>1, Arriving
    <2>3. QED
      BY <2>1, <2>2, Arriving
  <1>4. QED
    BY <1>1, <1>2, <1>3 DEF QueueInOrder, Ordered

(* The three counts: packets, drops and tokens.                            *)
LEMMA ArrivalCounted ==
    ASSUME IInv, NEW p, NEW q, NEW min, Arrival(p, q, min)
    PROVE  Counted' /\ Tokens' /\ TokensCover'
  <1>1. PICK lp \in Nat, lq \in Nat : lp = Len(packets) /\ lq = Len(q) /\ lq <= lp
    BY Arriving DEF IInv, Way, Arrival, Thinned
  <1>2. \/ /\ Len(packets') = lq /\ dropped_frames' = dropped_frames + 1 + lp - lq
           /\ producer' = "idle"
        \/ /\ Len(packets') = lq + 1 /\ dropped_frames' = dropped_frames + lp - lq
           /\ producer' = "post"
    BY <1>1, Arriving DEF Arrival
  <1>3. PICK n \in Nat, m \in Nat : n = produced /\ m = produced' /\ m = n + 1
    BY Arriving
  <1>4. Cardinality(sent \cup Sending)' = Cardinality(sent \cup Sending)
    BY Arriving DEF Arrival
  <1>5. Cardinality(sent \cup Sending) \in Nat
    <2>1. sent \cup Sending \subseteq arrived
      BY DEF IInv, Way, Sending
    <2>2. QED
      BY <2>1, FS_Subset, FS_CardinalityType DEF IInv, Arrivals
  <1>6. Counted'
    <2>1. PICK c \in Nat, k \in Int : /\ c = Cardinality(sent \cup Sending)
                                    /\ k = dropped_frames /\ n = k + lp + c
      BY <1>1, <1>3, <1>5 DEF IInv, Counted
    <2>2. \/ dropped_frames' = k + 1 + lp - lq /\ Len(packets') = lq
          \/ dropped_frames' = k + lp - lq /\ Len(packets') = lq + 1
      BY <1>2, <2>1
    <2>3. dropped_frames' \in Int
      BY <2>2
    <2>4. m = dropped_frames' + Len(packets') + c
      <3>1. CASE dropped_frames' = k + 1 + lp - lq /\ Len(packets') = lq
        BY <1>3, <2>1, <3>1
      <3>2. CASE dropped_frames' = k + lp - lq /\ Len(packets') = lq + 1
        BY <1>3, <2>1, <3>2
      <3>3. QED
        BY <2>2, <3>1, <3>2
    <2>5. QED
      BY <1>3, <1>4, <2>1, <2>3, <2>4 DEF Counted
  <1>7. Tokens'
    BY <1>2, <1>3 DEF IInv, Tokens, Arrival
  <1>8. TokensCover'
    BY <1>1, <1>2 DEF IInv, Tokens, TokensCover, Arrival
  <1>9. QED
    BY <1>6, <1>7, <1>8

(* Whatever of the queue is needed later is on its way after an arrival.   *)
LEMMA ArrivalKeeps ==
    ASSUME IInv, NEW p, NEW q, NEW min, Arrival(p, q, min)
    PROVE  /\ OnTheWay' \subseteq OnTheWay \cup {p}
           /\ OnTheWay' = sent \cup Sending \cup InQueue(q)
              \/ OnTheWay' = sent \cup Sending \cup InQueue(q) \cup {p}
           /\ p.kind \in {"I", "P", "audio"} => p \in OnTheWay'
           /\ OnTheWay \ OnTheWay' \subseteq Queued \ InQueue(q)
           /\ OnTheWay \subseteq arrived /\ Queued \subseteq OnTheWay
           /\ \A r \in OnTheWay : (r \notin InQueue(q) /\ r \in Queued) \/ r \in OnTheWay'
  <1>1. sent' = sent /\ InQueue(q) \subseteq Queued
    BY DEF Arrival, Thinned
  <1>2. OnTheWay \subseteq arrived
    BY DEF IInv, Way, OnTheWay, Queued, Sending
  <1>3. QED
    BY <1>1, <1>2, Arriving DEF OnTheWay

(* What thinning has taken, and the packet dropped on arrival, are frames. *)
LEMMA ArrivalFramesOnly ==
    ASSUME IInv, NEW p, NEW q, NEW min, Arrival(p, q, min)
    PROVE  FramesOnly'
  <1> SUFFICES ASSUME NEW d \in arrived', d \notin OnTheWay'
               PROVE  d.kind \in {"P", "B", "b"}
    BY DEF FramesOnly, Dropped
  <1>1. CASE d = p
    <2>1. d.kind \in Kinds
      BY <1>1 DEF Arrival, Packet, Kinds, VideoKinds
    <2>2. QED
      BY <1>1, <2>1, ArrivalKeeps DEF Kinds, VideoKinds
  <1>2. CASE d \in OnTheWay
    BY <1>2, ArrivalKeeps DEF Arrival, Thinned
  <1>3. CASE d \in arrived \ OnTheWay
    BY <1>3 DEF IInv, FramesOnly, Dropped
  <1>4. QED
    BY <1>1, <1>2, <1>3, Arriving

(* A new packet is a key frame or leaves all references in place.          *)
LEMMA RefersLater ==
    ASSUME IInv, NEW p, NEW q, NEW min, Arrival(p, q, min), NEW r \in arrived
    PROVE  /\ \A dts \in 1 .. produced : Refers(r, dts) => Refers(r, dts)'
           /\ p.kind # "I" /\ Refers(r, produced) => Refers(r, p.dts)'
  <1>1. produced \in Nat /\ p.dts = produced + 1
    BY Arriving DEF Arrival
  <1>2. \A k \in arrived' : (k \in arrived /\ k.dts \in 1 .. produced) \/ k = p
    BY Arriving
  <1>3. QED
    BY <1>1, <1>2 DEF Refers

(* References stay within a group of pictures, and in the queue.           *)
LEMMA ArrivalReferences ==
    ASSUME IInv, NEW p, NEW q, NEW min, Arrival(p, q, min)
    PROVE  SameGop' /\ AnchorKept' /\ ChainKept'
  <1>1. /\ produced \in Nat /\ produced' = produced + 1 /\ p.dts = produced + 1
        /\ \A r \in arrived : r.dts \in 1 .. produced /\ r.dts < p.dts
        /\ arrived \subseteq arrived' /\ OnTheWay \subseteq arrived
    BY Arriving, ArrivalKeeps DEF Arrival
  <1>2. ASSUME NEW d \in anchors.new
        PROVE  \E r \in OnTheWay \cap OnTheWay' : r.dts = d /\ Refers(r, produced)
    <2>1. PICK r \in OnTheWay : r.dts = d /\ Refers(r, produced)
      BY DEF IInv, AnchorKept
    <2>2. r \in OnTheWay'
      BY <2>1, ArrivalKeeps DEF Arrival, Thinned
    <2>3. QED
      BY <2>1, <2>2
  <1>3. SameGop'
    <2> SUFFICES ASSUME NEW x \in arrived', x.kind = "P", NEW d \in x.refs
                 PROVE  \E r \in arrived' :
                           r.dts = d /\ d < x.dts /\ Refers(r, x.dts)'
      BY DEF SameGop
    <2>1. CASE x \in arrived
      <3>1. PICK r \in arrived : r.dts = d /\ d < x.dts /\ Refers(r, x.dts)
        BY <2>1 DEF IInv, SameGop
      <3>2. Refers(r, x.dts)'
        BY <1>1, <2>1, <3>1, RefersLater
      <3>3. QED
        BY <1>1, <3>1, <3>2
    <2>2. CASE x = p
      <3>1. PICK r \in OnTheWay : r.dts = d /\ Refers(r, produced)
        BY <1>2, <2>2 DEF Arrival
      <3>2. Refers(r, p.dts)'
        BY <1>1, <2>2, <3>1, RefersLater
      <3>3. QED
        BY <1>1, <2>2, <3>1, <3>2
    <2>3. QED
      BY <2>1, <2>2, Arriving
  <1>4. AnchorKept'
    <2> SUFFICES ASSUME NEW d \in anchors'.new
                 PROVE  \E r \in OnTheWay' : r.dts = d /\ Refers(r, produced)'
      BY DEF AnchorKept
    <2>1. CASE p.kind \in {"I", "P"}
      <3>1. d = p.dts /\ p \in OnTheWay'
        BY <2>1, ArrivalKeeps DEF Arrival
      <3>2. \A k \in arrived' : k.dts <= p.dts
        BY <1>1, Arriving
      <3>3. Refers(p, produced)'
        BY <2>1, <3>2 DEF Refers
      <3>4. QED
        BY <3>1, <3>3
    <2>2. CASE p.kind \notin {"I", "P"}
      <3>1. d \in anchors.new
        BY <2>2 DEF Arrival
      <3>2. PICK r \in OnTheWay \cap OnTheWay' : r.dts = d /\ Refers(r, produced)
        BY <1>2, <3>1
      <3>3. Refers(r, p.dts)'
        BY <1>1, <2>2, <3>2, RefersLater
      <3>4. Refers(r, produced)'
        BY <1>1, <3>3 DEF Refers
      <3>5. QED
        BY <3>2, <3>4
    <2>3. QED
      BY <2>1, <2>2
  <1>5. ChainKept'
    <2> SUFFICES ASSUME NEW x \in OnTheWay', x.kind = "P", NEW d \in x.refs
                 PROVE  \E r \in OnTheWay' : r.dts = d
      BY DEF ChainKept, Dts
    <2>1. CASE x = p
      BY <1>2, <2>1 DEF Arrival
    <2>2. CASE x \in OnTheWay
      <3>1. PICK r \in arrived : r.dts = d /\ d < x.dts /\ Refers(r, x.dts)
        BY <1>1, <2>2 DEF IInv, SameGop
      <3>2. r \in OnTheWay
        <4>1. PICK y \in OnTheWay : y.dts = d
          BY <2>2 DEF IInv, ChainKept, Dts
        <4>2. y = r
          BY <1>1, <3>1, <4>1 DEF IInv, Arrivals
        <4>3. QED
          BY <4>1, <4>2
      <3>3. r \in OnTheWay'
        <4>1. CASE r \in Queued /\ x \in sent \cup Sending
          <5>1. x.dts < r.dts
            BY <4>1 DEF IInv, QueueInOrder
          <5>2. QED
            BY <1>1, <2>2, <3>1, <5>1
        <4>2. CASE r \in Queued /\ x \in InQueue(q)
          <5>1. r \in InQueue(q)
            BY <3>1, <4>2 DEF Arrival, Thinned
          <5>2. QED
            BY <5>1, ArrivalKeeps
        <4>3. CASE r \notin Queued
          BY <3>2, <4>3, ArrivalKeeps
        <4>4. x \in sent \cup Sending \cup InQueue(q)
          BY <1>1, <2>2, ArrivalKeeps, Arriving
        <4>5. QED
          BY <4>1, <4>2, <4>3, <4>4
      <3>4. QED
        BY <3>1, <3>3
    <2>3. QED
      BY <2>1, <2>2, ArrivalKeeps
  <1>6. QED
    BY <1>3, <1>4, <1>5

(* An arrival preserves the invariant.                                     *)
LEMMA ArrivalIInv ==
    ASSUME IInv, NEW p, NEW q, NEW min, Arrival(p, q, min)
    PROVE  IInv'
  BY ArrivalArrivals, ArrivalWay, ArrivalCounted, ArrivalFramesOnly, ArrivalReferences
     DEF IInv

-----------------------------------------------------------------------------
(* Nothing is produced, queued or sent.                                    *)
LEMMA InitIInv == Init => IInv
  <1> SUFFICES ASSUME Init PROVE IInv
    OBVIOUS
  <1>1. produced = 0 /\ IsFiniteSet(arrived) /\ Sending = {} /\ Queued = {}
    BY FS_EmptySet DEF Init, produced, Sending, Queued
  <1>2. Cardinality(sent \cup Sending) = 0
    BY <1>1, FS_EmptySet DEF Init
  <1>3. Arrivals
    BY <1>1, QueueAssumption DEF Init, Arrivals
  <1>4. Way /\ QueueInOrder
    BY <1>1 DEF Init, Way, QueueInOrder
  <1>5. Counted /\ Tokens /\ TokensCover
    BY <1>1, <1>2 DEF Init, Counted, Tokens, TokensCover
  <1>6. FramesOnly /\ SameGop /\ AnchorKept /\ ChainKept
    BY <1>1 DEF Init, FramesOnly, Dropped, SameGop, AnchorKept, ChainKept, OnTheWay
  <1>7. QED
    BY <1>3, <1>4, <1>5, <1>6 DEF IInv

(* Of what the first pass takes, nothing has a priority above LOW.         *)
LEMMA DroppedPriorityType == ASSUME NEW q PROVE DroppedPriority(q) \in 0 .. 1
  <1> DEFINE S == {0} \cup {DropPriority(q[i].kind) :
                              i \in {j \in DOMAIN q : ~KeptFirst(q[j])}}
  <1>1. S \subseteq {0, 1} /\ 0 \in S
    BY DEF KeptFirst, DropPriority, Priority
  <1>2. DroppedPriority(q) = Max(S)
    BY DEF DroppedPriority
  <1> HIDE DEF S
  <1>3. \E x \in S : \A y \in S : x >= y
    <2>1. CASE 1 \in S
      BY <1>1, <2>1
    <2>2. CASE 1 \notin S
      BY <1>1, <2>2
    <2>3. QED
      BY <2>1, <2>2
  <1>4. Max(S) \in S
    BY <1>3 DEF Max
  <1>5. \A m \in S : m \in 0 .. 1
    BY <1>1
  <1>6. QED
    BY <1>2, <1>4, <1>5

(* The next frame of a group of pictures.                                  *)
LEMMA VideoPacketIInv == ASSUME IInv, VideoPacket PROVE IInv'
  <1>1. PICK g \in (IF gop = <<>> THEN Gops ELSE {gop}) :
           /\ gop' = Tail(g) /\ arrived' = arrived \cup {NextVideo(g)}
           /\ anchors' = AnchorsAfter(NextVideo(g))
           /\ IF TooLong(packets)
              THEN Arrive(NextVideo(g), AfterDrop(packets), DroppedPriority(packets))
              ELSE Arrive(NextVideo(g), packets, min_priority)
    BY DEF VideoPacket
  <1>2. PICK p : p = NextVideo(g)
    OBVIOUS
  <1>3. g \in Seq(VideoKinds) /\ g # <<>>
    BY QueueAssumption DEF IInv, Arrivals
  <1>4. PICK n \in Nat : n = produced /\ n < MaxPackets
    BY QueueAssumption DEF VideoPacket, IInv, Arrivals
  <1>5. p.dts = n + 1 /\ p.kind = g[1] /\ p.kind \in VideoKinds
    BY <1>2, <1>3, <1>4 DEF NextVideo
  <1>6. anchors \in Anchors(n)
    BY <1>4 DEF IInv, Arrivals, Anchors
  <1>7. p \in Packet
    <2>1. p.refs \in SUBSET (1 .. n)
      BY <1>2, <1>5, <1>6 DEF NextVideo, Anchors, VideoKinds
    <2>2. p.refs \in SUBSET (1 .. MaxPackets)
      BY <1>4, <2>1, QueueAssumption
    <2>3. p = [dts |-> p.dts, kind |-> p.kind, refs |-> p.refs]
      BY <1>2 DEF NextVideo
    <2>4. p.dts \in 1 .. MaxPackets
      BY <1>4, <1>5, QueueAssumption
    <2>5. QED
      BY <1>5, <2>2, <2>3, <2>4 DEF Packet, VideoKinds
  <1>8. p.kind = "P" => p.refs = anchors.new
    BY <1>2, <1>5 DEF NextVideo
  <1>9. /\ anchors' \in Anchors(n + 1)
        /\ anchors'.new = IF p.kind \in {"I", "P"} THEN {p.dts} ELSE anchors.new
    <2>1. anchors' = AnchorsAfter(p)
      BY <1>1, <1>2
    <2>2. QED
      BY <1>5, <1>6, <2>1 DEF AnchorsAfter, Anchors, VideoKinds
  <1>10. gop' \in Seq(VideoKinds)
    BY <1>1, <1>3
  <1>11. ASSUME NEW q, NEW min \in 0 .. 1, Thinned(q), Arrive(p, q, min)
         PROVE  IInv'
    <2>1. Arrival(p, q, min)
      BY <1>1, <1>2, <1>4, <1>5, <1>7, <1>8, <1>9, <1>10, <1>11 DEF Arrival, VideoPacket
    <2>2. QED
      BY <2>1, ArrivalIInv
  <1>12. CASE TooLong(packets)
    BY <1>1, <1>2, <1>11, <1>12, DropThins, DroppedPriorityType
  <1>13. CASE ~TooLong(packets)
    <2>1. min_priority \in 0 .. 1
      BY DEF IInv, Way
    <2>2. QED
      BY <1>1, <1>2, <1>11, <1>13, <2>1, NothingThinned
  <1>14. QED
    BY <1>12, <1>13

(* Audio is never dropped, and does not thin the queue.                    *)
LEMMA AudioPacketIInv == ASSUME IInv, AudioPacket PROVE IInv'
  <1>1. PICK p : p = NextAudio
    OBVIOUS
  <1>2. PICK n \in Nat : n = produced /\ n < MaxPackets
    BY QueueAssumption DEF AudioPacket, IInv, Arrivals
  <1>3. p = [dts |-> n + 1, kind |-> "audio", refs |-> {}]
    BY <1>1, <1>2 DEF NextAudio
  <1>4. p \in Packet
    BY <1>2, <1>3, QueueAssumption DEF Packet
  <1>5. anchors' \in Anchors(n + 1) /\ anchors' = anchors
    BY <1>2 DEF AudioPacket, IInv, Arrivals, Anchors
  <1>6. gop' \in Seq(VideoKinds) /\ min_priority \in 0 .. 1
    BY DEF AudioPacket, IInv, Arrivals, Way
  <1>7. Arrival(p, packets, min_priority)
    BY <1>1, <1>2, <1>3, <1>4, <1>5, <1>6, NothingThinned DEF Arrival, AudioPacket
  <1>8. QED
    BY <1>7, ArrivalIInv

-----------------------------------------------------------------------------
(* The steps that leave the packets produced, and which of them are on     *)
(* their way, as they are.                                                 *)
LEMMA NothingArrives ==
    ASSUME IInv, UNCHANGED <<gop, arrived, anchors>>, OnTheWay' = OnTheWay
    PROVE  Arrivals' /\ FramesOnly' /\ SameGop' /\ AnchorKept' /\ ChainKept'
  <1>1. produced' = produced
    BY DEF produced
  <1>2. Arrivals'
    BY <1>1 DEF IInv, Arrivals
  <1>3. FramesOnly'
    BY DEF IInv, FramesOnly, Dropped
  <1>4. SameGop' /\ AnchorKept'
    BY <1>1 DEF IInv, SameGop, AnchorKept, Refers
  <1>5. ChainKept'
    BY DEF IInv, ChainKept, Dts
  <1>6. QED
    BY <1>2, <1>3, <1>4, <1>5

(* Tokens are posted and taken.                                            *)
LEMMA SemaphoreIInv == ASSUME IInv, Post \/ SemWait PROVE IInv'
  <1>1. /\ UNCHANGED <<gop, arrived, anchors, packets, last_dts, min_priority,
                      dropped_frames, sending, sent>>
        /\ Sending' = Sending /\ Queued' = Queued
    BY DEF Post, SemWait, Sending, Queued
  <1>2. OnTheWay' = OnTheWay /\ produced' = produced
    BY <1>1 DEF OnTheWay, produced
  <1>3. Way' /\ QueueInOrder' /\ Counted'
    BY <1>1, <1>2 DEF IInv, Way, QueueInOrder, Counted, Post, SemWait
  <1>4. produced \in Nat /\ Len(packets) \in Nat
    BY QueueAssumption DEF IInv, Arrivals, Way
  <1>5. Tokens' /\ TokensCover'
    BY <1>1, <1>2, <1>4 DEF IInv, Way, Tokens, TokensCover, Post, Posted, SemWait
  <1>6. QED
    BY <1>1, <1>2, <1>3, <1>5, NothingArrives DEF IInv

(* The packet sent was on its way, and remains so.                         *)
LEMMA SendPacketIInv == ASSUME IInv, SendPacket PROVE IInv'
  <1>1. sent' \cup Sending' = sent \cup Sending /\ Queued' = Queued
    BY DEF SendPacket, Sending, Queued
  <1>2. OnTheWay' = OnTheWay /\ produced' = produced
    BY <1>1 DEF SendPacket, OnTheWay, produced
  <1>3. Way' /\ QueueInOrder'
    BY <1>1, <1>2 DEF IInv, Way, QueueInOrder, SendPacket
  <1>4. Counted' /\ Tokens' /\ TokensCover'
    BY <1>1, <1>2 DEF IInv, Counted, Tokens, TokensCover, SendPacket
  <1>5. QED
    BY <1>2, <1>3, <1>4, NothingArrives DEF IInv, SendPacket

(* The oldest packet leaves the queue.                                     *)
LEMMA GetNextPacketIInv == ASSUME IInv, GetNextPacket PROVE IInv'
  <1>1. produced' = produced /\ produced \in Nat
    BY QueueAssumption DEF IInv, Arrivals, GetNextPacket, produced
  <1>2. CASE packets = <<>>
    <2>1. Sending' = Sending /\ OnTheWay' = OnTheWay /\ Queued' = Queued
      BY <1>2 DEF GetNextPacket, Sending, OnTheWay, Queued
    <2>2. Way' /\ QueueInOrder' /\ Counted'
      BY <1>1, <1>2, <2>1 DEF IInv, Way, QueueInOrder, Counted, GetNextPacket
    <2>3. Tokens' /\ TokensCover'
      BY <1>1, <1>2 DEF IInv, Tokens, TokensCover, GetNextPacket
    <2>4. QED
      BY <2>1, <2>2, <2>3, NothingArrives DEF IInv, GetNextPacket
  <1>3. CASE packets # <<>>
    <2>1. PICK p : p = packets[1]
      OBVIOUS
    <2>2. /\ packets \in Seq(arrived) /\ packets' = Tail(packets) /\ sending' = p
          /\ sender = "woken" /\ sender' = "send" /\ sent' = sent
      BY <1>3, <2>1 DEF GetNextPacket, IInv, Way
    <2>3. /\ packets' \in Seq(arrived) /\ Len(packets') = Len(packets) - 1
          /\ Len(packets) \in Nat \ {0} /\ p \in arrived
          /\ \A i \in DOMAIN packets' : i + 1 \in DOMAIN packets /\ packets'[i] = packets[i + 1]
      BY <1>3, <2>1, <2>2
    <2>4. Sending = {} /\ Sending' = {p}
      BY <2>2 DEF Sending
    <2>5. Queued = Queued' \cup {p}
      <3>1. ASSUME NEW i \in DOMAIN packets PROVE packets[i] \in Queued' \cup {p}
        <4>1. CASE i = 1
          BY <2>1, <4>1
        <4>2. CASE i # 1
          <5>1. PICK j \in DOMAIN packets' : i = j + 1
            <6>1. i - 1 \in DOMAIN packets' /\ i = (i - 1) + 1
              BY <2>2, <2>3, <4>2
            <6>2. QED
              BY <6>1
          <5>2. QED
            BY <2>3, <5>1 DEF Queued
        <4>3. QED
          BY <4>1, <4>2
      <3>2. p \in Queued
        BY <2>1, <2>2, <2>3 DEF Queued
      <3>3. Queued' \subseteq Queued
        BY <2>3 DEF Queued
      <3>4. QED
        BY <3>1, <3>2, <3>3 DEF Queued
    <2>6. OnTheWay' = OnTheWay
      BY <2>2, <2>4, <2>5 DEF OnTheWay
    <2>7. p \notin sent
      <3>1. p.dts \in Int
        BY <2>3 DEF IInv, Arrivals, Packet
      <3>2. QED
        BY <2>5, <3>1 DEF IInv, QueueInOrder
    <2>8. Way'
      BY <1>1, <2>2, <2>3, <2>7 DEF IInv, Way, GetNextPacket
    <2>9. QueueInOrder'
      <3>1. Ordered(packets) /\ 1 \in DOMAIN packets
        BY <2>3 DEF IInv, QueueInOrder, Ordered
      <3>2. Ordered(packets')
        <4> SUFFICES ASSUME NEW i \in DOMAIN packets', NEW j \in DOMAIN packets', i < j
                     PROVE  packets'[i].dts < packets'[j].dts
          BY DEF Ordered
        <4>1. PICK k \in DOMAIN packets, l \in DOMAIN packets : k = i + 1 /\ l = j + 1 /\ k < l
          BY <2>2, <2>3
        <4>2. QED
          BY <2>3, <3>1, <4>1 DEF Ordered
      <3>3. \A y \in Queued' : p.dts < y.dts
        <4> SUFFICES ASSUME NEW i \in DOMAIN packets' PROVE p.dts < packets'[i].dts
          BY DEF Queued
        <4>1. PICK k \in DOMAIN packets : k = i + 1 /\ 1 < k
          BY <2>2, <2>3
        <4>2. QED
          BY <2>1, <2>3, <3>1, <4>1 DEF Ordered
      <3>4. QED
        BY <2>2, <2>4, <2>5, <3>2, <3>3 DEF IInv, QueueInOrder, Ordered
    <2>10. Counted'
      <3>1. IsFiniteSet(sent)
        BY FS_Subset DEF IInv, Arrivals, Way
      <3>2. PICK c \in Nat : c = Cardinality(sent)
        BY <3>1, FS_CardinalityType
      <3>3. Cardinality(sent' \cup Sending') = c + 1
        BY <2>2, <2>4, <2>7, <3>1, <3>2, FS_AddElement
      <3>4. sent \cup Sending = sent
        BY <2>4
      <3>5. produced = dropped_frames + Len(packets) + c /\ dropped_frames \in Int
        BY <3>2, <3>4 DEF IInv, Counted
      <3>6. dropped_frames' = dropped_frames
        BY DEF GetNextPacket
      <3>7. QED
        BY <1>1, <2>3, <3>3, <3>5, <3>6 DEF Counted
    <2>11. Tokens' /\ TokensCover'
      BY <1>1, <2>2, <2>3 DEF IInv, Tokens, TokensCover, GetNextPacket
    <2>12. QED
      BY <2>6, <2>8, <2>9, <2>10, <2>11, NothingArrives DEF IInv, GetNextPacket
  <1>4. QED
    BY <1>2, <1>3

(* The invariant is inductive.                                             *)
LEMMA Invariance == Spec => []IInv
  <1>1. IInv /\ [Next]_vars => IInv'
    <2> SUFFICES ASSUME IInv, [Next]_vars PROVE IInv'
      OBVIOUS
    <2>1. CASE Next
      BY <2>1, VideoPacketIInv, AudioPacketIInv, SemaphoreIInv, SendPacketIInv,
         GetNextPacketIInv DEF Next
    <2>2. CASE UNCHANGED vars
      <3>1. OnTheWay' = OnTheWay /\ Sending' = Sending /\ Queued' = Queued /\ produced' = produced
        BY <2>2 DEF vars, OnTheWay, Sending, Queued, produced
      <3>2. Way' /\ QueueInOrder' /\ Counted' /\ Tokens' /\ TokensCover'
        BY <2>2, <3>1 DEF vars, IInv, Way, QueueInOrder, Counted, Tokens, TokensCover
      <3>3. QED
        BY <2>2, <3>1, <3>2, NothingArrives DEF vars, IInv
    <2>3. QED
      BY <2>1, <2>2
  <1>2. QED
    BY <1>1, InitIInv, PTL DEF Spec

-----------------------------------------------------------------------------
(* Every packet that is produced is queued, on its way, or counted as      *)
(* dropped, and none is two of them.                                       *)
LEMMA DroppedCounted ==
    ASSUME IInv
    PROVE  dropped_frames = Cardinality(Dropped) /\ dropped_frames \in 0 .. produced
  <1>1. PICK q : q = sent \cup Sending
    OBVIOUS
  <1>2. q \subseteq arrived /\ Queued \subseteq arrived
    BY <1>1 DEF IInv, Way, Queued, Sending
  <1>3. IsFiniteSet(arrived) /\ IsFiniteSet(q) /\ IsFiniteSet(Queued)
    BY <1>2, FS_Subset DEF IInv, Arrivals
  <1>4. OnTheWay = q \cup Queued /\ OnTheWay \subseteq arrived
    BY <1>1, <1>2 DEF OnTheWay
  <1>5. \A p \in arrived : p.dts \in Int
    BY DEF IInv, Arrivals, Packet
  <1>6. q \cap Queued = {}
    BY <1>1, <1>2, <1>5 DEF IInv, QueueInOrder
  <1>7. PICK l \in Nat : l = Len(packets)
    BY DEF IInv, Way
  <1>8. Cardinality(Queued) = l
    <2>1. packets \in [1 .. l -> Queued] /\ DOMAIN packets = 1 .. l
      BY <1>7 DEF IInv, Way, Queued
    <2>2. packets \in Surjection(1 .. l, Queued)
      BY <2>1 DEF Surjection, Queued
    <2>3. ASSUME NEW i \in 1 .. l, NEW j \in 1 .. l, packets[i] = packets[j]
          PROVE  i = j
      <3>1. packets[i].dts \in Int
        BY <2>1, <1>2, <1>5
      <3>2. ~(i < j) /\ ~(j < i)
        BY <2>1, <2>3, <3>1 DEF IInv, QueueInOrder
      <3>3. QED
        BY <3>2
    <2>4. packets \in Bijection(1 .. l, Queued)
      BY <2>1, <2>2, <2>3 DEF Bijection, Injection, IsInjective
    <2>5. QED
      BY <2>4, FS_CountingElements DEF ExistsBijection
  <1>9. Cardinality(OnTheWay) = Cardinality(q) + l
    <2>1. Cardinality(q \cup Queued) =
             Cardinality(q) + Cardinality(Queued) - Cardinality(q \cap Queued)
      BY <1>3, FS_Union
    <2>2. Cardinality(q \cap Queued) = 0
      BY <1>6, FS_EmptySet
    <2>3. Cardinality(q) \in Nat
      BY <1>3, FS_CardinalityType
    <2>4. QED
      BY <1>4, <1>8, <2>1, <2>2, <2>3
  <1>10. Cardinality(Dropped) = produced - Cardinality(OnTheWay)
    <2>1. Cardinality(arrived \ OnTheWay) =
             Cardinality(arrived) - Cardinality(arrived \cap OnTheWay)
      BY <1>3, FS_Difference
    <2>2. arrived \cap OnTheWay = OnTheWay
      BY <1>4
    <2>3. QED
      BY <2>1, <2>2 DEF Dropped, produced
  <1>11. Cardinality(Dropped) \in Nat
    BY <1>3, FS_Subset, FS_CardinalityType DEF Dropped
  <1>12. PICK c \in Nat, n \in Nat, d \in Int :
            c = Cardinality(q) /\ n = produced /\ d = dropped_frames
    BY <1>3, FS_CardinalityType, QueueAssumption DEF IInv, Arrivals, Counted
  <1>13. n = d + l + c
    BY <1>1, <1>7, <1>12 DEF IInv, Counted
  <1>14. Cardinality(Dropped) = n - (c + l)
    BY <1>9, <1>10, <1>12
  <1>15. d = Cardinality(Dropped) /\ d \in 0 .. n
    BY <1>11, <1>12, <1>13, <1>14
  <1>16. QED
    BY <1>12, <1>15

(* Whatever is dropped, of queues of any length and groups of pictures of  *)
(* any shape: packets are sent in decoding order, audio and key frames are *)
(* never taken, dropped_frames is the number of frames taken, and the send *)
(* thread has a token for every packet in the queue.                       *)
THEOREM QueueKeptHolds == Spec => []QueueKept
  <1>1. IInv => QueueKept
    <2> SUFFICES ASSUME IInv PROVE QueueKept
      OBVIOUS
    <2>1. TypeOK
      <3>1. packets \in Seq(Packet) /\ sent \subseteq Packet /\ sending \in Packet \cup {NoPacket}
        BY DEF IInv, Arrivals, Way
      <3>2. send_sem \in 0 .. produced
        BY QueueAssumption DEF IInv, Arrivals, Tokens
      <3>3. QED
        BY <3>1, <3>2, DroppedCounted DEF TypeOK, IInv, Arrivals, Way
    <2>2. OnlyFramesDropped
      BY DroppedCounted DEF OnlyFramesDropped, IInv, FramesOnly
    <2>3. QED
      BY <2>1, <2>2 DEF QueueKept, IInv
  <1>2. QED
    BY <1>1, Invariance, PTL

(* drop_frames never breaks the chain of reference frames: a P frame that  *)
(* is queued or sent has the frame it refers to on the way before it.      *)
THEOREM ChainKeptHolds == Spec => []ChainKept
  <1>1. IInv => ChainKept
    BY DEF IInv
  <1>2. QED
    BY <1>1, Invariance, PTL

=============================================================================
