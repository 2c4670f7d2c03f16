--------------------------- MODULE AudioIO_proofs ---------------------------
(***************************************************************************)
(* Proofs about the lines of the audio mixer, for every set of lines,      *)
(* every size of packets and every choice of the mixer's limits.           *)
(***************************************************************************)
EXTENDS AudioIO, SequenceTheorems, TLAPS

(* What the variables are between any two steps: the per-line tables, the  *)
(* round of the audio thread, and a line being removed, which is silent.   *)
Tables ==
    /\ state \in [Line -> {"none", "live", "removing", "dead"}]
    /\ buffer \in [Line -> Seq(Int)]
    /\ base_timestamp \in [Line -> Int]
    /\ next_ts_min \in [Line -> Int]

Round ==
    /\ now \in 0..MaxLag /\ audio_time \in 0..MaxLag /\ audio_time <= now
    /\ at \in {"sleep", "lines", "mix"} /\ todo \subseteq Line /\ mixing \subseteq Line
    /\ at = "sleep" => todo = {} /\ audio_time = 0
    /\ at # "mix" => mixing = {}

Short == \A l \in Line : Len(buffer[l]) < Buffer + MaxDelay + Smoothing + Frames

RemovedIsSilent == \A l \in Line : state[l] = "removing" => buffer[l] = <<>>

(* The inductive invariant.                                                *)
IInv == Tables /\ Round /\ Short /\ RemovedIsSilent /\ NoUseAfterFree /\ MixedOnTime

-----------------------------------------------------------------------------
(* Cutting the first m samples off a buffer.                               *)
LEMMA Cut ==
    ASSUME NEW s \in Seq(Int), NEW m \in Nat
    PROVE  /\ SubSeq(s, m + 1, Len(s)) \in Seq(Int)
           /\ Len(SubSeq(s, m + 1, Len(s))) = IF m <= Len(s) THEN Len(s) - m ELSE 0
           /\ \A i \in 1 .. Len(s) - m : SubSeq(s, m + 1, Len(s))[i] = s[i + m]
  <1>1. Len(s) \in Nat /\ \A i \in 1 .. Len(s) : s[i] \in Int
    BY LenProperties
  <1>2. \A i \in m + 1 .. Len(s) : s[i] \in Int
    BY <1>1
  <1>3. QED
    BY <1>1, <1>2, SubSeqProperties

(* A function on an interval is a sequence of that length.                 *)
LEMMA FunctionIsSeq ==
    ASSUME NEW n \in Nat, NEW f \in [1 .. n -> Int]
    PROVE  f \in Seq(Int) /\ Len(f) = n
  <1>1. f \in Seq(Int)
    OBVIOUS
  <1>2. DOMAIN f = 1 .. Len(f) /\ DOMAIN f = 1 .. n /\ Len(f) \in Nat
    BY <1>1, LenProperties
  <1>3. CASE Len(f) < n
    <2>1. n \in 1 .. n /\ n \notin 1 .. Len(f)
      BY <1>2, <1>3
    <2>2. QED
      BY <1>2, <2>1
  <1>4. CASE n < Len(f)
    <2>1. Len(f) \in 1 .. Len(f) /\ Len(f) \notin 1 .. n
      BY <1>2, <1>4
    <2>2. QED
      BY <1>2, <2>1
  <1>5. QED
    BY <1>1, <1>2, <1>3, <1>4

(* Placing a packet in a buffer: it is there, before and behind it is what *)
(* was there, and the gap between is silent.                               *)
LEMMA PlacedProperties ==
    ASSUME NEW s \in Seq(Int), NEW p \in Nat, NEW ts \in Int
    PROVE  LET t == Placed(s, p, ts)
           IN  /\ t \in Seq(Int)
               /\ Len(t) = IF Len(s) > p + Frames THEN Len(s) ELSE p + Frames
               /\ \A i \in 1 .. Len(t) :
                     t[i] = IF p < i /\ i <= p + Frames THEN ts + (i - p) - 1
                            ELSE IF i <= Len(s) THEN s[i] ELSE Silence
  <1> DEFINE n == IF Len(s) > p + Frames THEN Len(s) ELSE p + Frames
             t == Placed(s, p, ts)
  <1>1. /\ Len(s) \in Nat /\ Frames \in Nat /\ n \in Nat
        /\ \A i \in 1 .. Len(s) : s[i] \in Int
    BY AudioAssumption, LenProperties
  <1>2. \A i \in 1 .. n :
           /\ t[i] = IF p < i /\ i <= p + Frames THEN ts + (i - p) - 1
                     ELSE IF i <= Len(s) THEN s[i] ELSE Silence
           /\ t[i] \in Int
    BY <1>1 DEF Placed, Silence, None
  <1>3. t \in [1 .. n -> Int]
    BY <1>1, <1>2 DEF Placed
  <1>4. t \in Seq(Int) /\ Len(t) = n
    BY <1>1, <1>3, FunctionIsSeq
  <1>5. QED
    BY <1>2, <1>4

LEMMA InitIInv == Init => IInv
  <1> SUFFICES ASSUME Init PROVE IInv
    OBVIOUS
  <1>1. Tables /\ Round /\ RemovedIsSilent /\ NoUseAfterFree
    BY AudioAssumption
       DEF Init, Tables, Round, RemovedIsSilent, NoUseAfterFree, None
  <1>2. \A l \in Line : buffer[l] = <<>>
    BY DEF Init
  <1>3. Short /\ MixedOnTime
    BY <1>2, AudioAssumption DEF Short, MixedOnTime
  <1>4. QED
    BY <1>1, <1>3 DEF IInv
-----------------------------------------------------------------------------
(* What holds of a line's table entries, spelled out once.                 *)
LEMMA Entries ==
    ASSUME IInv, NEW l \in Line
    PROVE  /\ buffer[l] \in Seq(Int) /\ Len(buffer[l]) \in Nat
           /\ DOMAIN buffer[l] = 1 .. Len(buffer[l])
           /\ base_timestamp[l] \in Int /\ next_ts_min[l] \in Int
           /\ Len(buffer[l]) < Buffer + MaxDelay + Smoothing + Frames
           /\ \A i \in 1 .. Len(buffer[l]) :
                 /\ buffer[l][i] \in Int
                 /\ buffer[l][i] # Silence =>
                       buffer[l][i] = base_timestamp[l] + i - 1
  <1>1. /\ buffer[l] \in Seq(Int) /\ base_timestamp[l] \in Int
        /\ next_ts_min[l] \in Int
    BY DEF IInv, Tables
  <1>2. /\ Len(buffer[l]) \in Nat /\ DOMAIN buffer[l] = 1 .. Len(buffer[l])
        /\ \A i \in 1 .. Len(buffer[l]) : buffer[l][i] \in Int
    BY <1>1, LenProperties
  <1>3. QED
    BY <1>1, <1>2 DEF IInv, Short, MixedOnTime

(* Where a packet is placed: not before the buffer, and within reach.      *)
LEMMA SmoothedProperties ==
    ASSUME IInv, NEW l \in Line, NEW ts \in Int
    PROVE  Smoothed(l, ts) \in Int /\ Smoothed(l, ts) < ts + Smoothing
  BY Entries, AudioAssumption DEF Smoothed, Near

(* A packet that is not lost to smoothing: the buffer afterwards.          *)
LEMMA LineOutputProperties ==
    ASSUME IInv, NEW l \in Line, LineOutput(l)
    PROVE  /\ Tables'
           /\ \A k \in Line \ {l} : /\ buffer'[k] = buffer[k]
                                    /\ base_timestamp'[k] = base_timestamp[k]
           /\ \/ /\ buffer'[l] = buffer[l]
                 /\ buffer[l] # <<>> => base_timestamp'[l] = base_timestamp[l]
              \/ \E p \in 0 .. Buffer + MaxDelay + Smoothing - 2, ts \in Int :
                    /\ buffer'[l] = Placed(buffer[l], p, ts)
                    /\ base_timestamp'[l] = ts - p
                    /\ buffer[l] # <<>> => ts - p = base_timestamp[l]
  <1>1. PICK late \in Late :
           LET ts == now + Buffer + late
               base == BaseFor(l, ts)
           IN  /\ InRange(base, ts)
               /\ PlaceData(l, base, Smoothed(l, ts))
    BY DEF LineOutput
  <1> DEFINE ts == now + Buffer + late
             base == BaseFor(l, ts)
             sts == Smoothed(l, ts)
  <1>2. /\ now \in Int /\ late \in Int /\ Buffer \in Nat /\ MaxDelay \in Nat
        /\ Smoothing \in Nat \ {0} /\ Frames \in Nat
    BY AudioAssumption DEF IInv, Round
  <1>3. ts \in Int /\ base \in Int
    BY <1>2, Entries DEF BaseFor
  <1>4. sts \in Int /\ sts < ts + Smoothing
    BY <1>3, SmoothedProperties
  <1>5. buffer[l] # <<>> => base = base_timestamp[l]
    BY DEF BaseFor
  <1>6. InRange(base, ts) /\ PlaceData(l, base, sts)
    BY <1>1
  <1>7. state' = state
    BY DEF LineOutput
  <1> HIDE DEF ts, base, sts
  <1>8. ts < base + Buffer + MaxDelay
    BY <1>6 DEF InRange
  <1>9. CASE sts < base
    <2>1. /\ base_timestamp' = [base_timestamp EXCEPT ![l] =
                 IF buffer[l] = <<>> THEN 0 ELSE base]
          /\ UNCHANGED <<buffer, next_ts_min>>
      BY <1>6, <1>9 DEF PlaceData
    <2>2. Tables'
      BY <1>3, <1>7, <2>1 DEF IInv, Tables
    <2>3. base_timestamp'[l] = IF buffer[l] = <<>> THEN 0 ELSE base
      BY <2>1 DEF IInv, Tables
    <2>4. \A k \in Line \ {l} : base_timestamp'[k] = base_timestamp[k]
      BY <2>1 DEF IInv, Tables
    <2>5. QED
      BY <1>5, <2>1, <2>2, <2>3, <2>4
  <1>10. CASE ~(sts < base)
    <2>1. /\ base_timestamp' = [base_timestamp EXCEPT ![l] = base]
          /\ buffer' = [buffer EXCEPT ![l] = Placed(@, sts - base, sts)]
          /\ next_ts_min' = [next_ts_min EXCEPT ![l] = sts + Frames]
      BY <1>6, <1>10 DEF PlaceData
    <2>2. sts - base \in 0 .. Buffer + MaxDelay + Smoothing - 2
      BY <1>2, <1>3, <1>4, <1>8, <1>10
    <2>3. Placed(buffer[l], sts - base, sts) \in Seq(Int)
      <3>1. sts - base \in Nat /\ buffer[l] \in Seq(Int)
        BY <1>2, <2>2, Entries
      <3>2. QED
        BY <1>4, <3>1, PlacedProperties
    <2>4. Tables'
      BY <1>2, <1>3, <1>4, <1>7, <2>1, <2>3 DEF IInv, Tables
    <2>5. /\ buffer'[l] = Placed(buffer[l], sts - base, sts)
          /\ base_timestamp'[l] = base
          /\ \A k \in Line \ {l} : /\ buffer'[k] = buffer[k]
                                   /\ base_timestamp'[k] = base_timestamp[k]
      BY <2>1 DEF IInv, Tables
    <2>6. base = sts - (sts - base)
      BY <1>3, <1>4
    <2>7. QED
      BY <1>4, <1>5, <2>2, <2>4, <2>5, <2>6
  <1>11. QED
    BY <1>9, <1>10

(* A round takes from a line what lies before it, then what is due: all    *)
(* that is left keeps its time.                                            *)
LEMMA MixLineProperties ==
    ASSUME IInv, NEW l \in Line, MixLine(l)
    PROVE  /\ Tables'
           /\ \A k \in Line \ {l} : /\ buffer'[k] = buffer[k]
                                    /\ base_timestamp'[k] = base_timestamp[k]
           /\ \E m \in Nat :
                 /\ buffer'[l] \in Seq(Int)
                 /\ Len(buffer'[l]) = IF m <= Len(buffer[l])
                                      THEN Len(buffer[l]) - m ELSE 0
                 /\ \A i \in 1 .. Len(buffer[l]) - m :
                       buffer'[l][i] = buffer[l][i + m]
                 /\ buffer'[l] # <<>> => base_timestamp'[l] = base_timestamp[l] + m
                 /\ base_timestamp[l] + m <= audio_time \/ m = 0
  <1> DEFINE b == base_timestamp[l]
             base == IF b < 0 THEN 0 ELSE b
             e == base - b
             sound == ClearExcess(l)
             rest == SubSeq(sound, Due(base) + 1, Len(sound))
             next == IF rest = <<>> THEN 0
                     ELSE IF base <= audio_time THEN audio_time ELSE base
  <1>1. /\ buffer' = [buffer EXCEPT ![l] = rest]
        /\ base_timestamp' = [base_timestamp EXCEPT ![l] = next]
        /\ UNCHANGED <<state, next_ts_min>>
    BY DEF MixLine
  <1>2. /\ b \in Int /\ base \in Nat /\ e \in Nat /\ audio_time \in Nat
        /\ base = b + e /\ e + 1 = IF b < 0 THEN 1 - b ELSE 1
    BY Entries DEF IInv, Round
  <1> HIDE DEF base, e
  <1>3. Due(base) \in Nat
    BY <1>2 DEF Due
  <1>4. /\ sound \in Seq(Int)
        /\ Len(sound) = IF e <= Len(buffer[l]) THEN Len(buffer[l]) - e ELSE 0
        /\ \A i \in 1 .. Len(buffer[l]) - e : sound[i] = buffer[l][i + e]
    <2>1. CASE b < 0
      <3>1. sound = SubSeq(buffer[l], e + 1, Len(buffer[l]))
        BY <1>2, <2>1 DEF ClearExcess
      <3>2. buffer[l] \in Seq(Int)
        BY Entries
      <3>3. LET s == SubSeq(buffer[l], e + 1, Len(buffer[l]))
            IN  /\ s \in Seq(Int)
                /\ Len(s) = IF e <= Len(buffer[l]) THEN Len(buffer[l]) - e ELSE 0
                /\ \A i \in 1 .. Len(buffer[l]) - e : s[i] = buffer[l][i + e]
        BY <1>2, <3>2, Cut
      <3> HIDE DEF sound
      <3>4. QED
        BY <3>1, <3>3
    <2>2. CASE ~(b < 0)
      <3>1. sound = buffer[l] /\ e = 0
        BY <1>2, <2>2 DEF ClearExcess
      <3>2. QED
        BY <3>1, Entries
    <2>3. QED
      BY <2>1, <2>2
  <1> HIDE DEF sound
  <1>5. /\ rest \in Seq(Int)
        /\ Len(rest) = IF Due(base) <= Len(sound) THEN Len(sound) - Due(base) ELSE 0
        /\ \A i \in 1 .. Len(sound) - Due(base) : rest[i] = sound[i + Due(base)]
    BY <1>3, <1>4, Cut
  <1> HIDE DEF rest
  <1>6. next \in Int
    BY <1>2
  <1>7. Tables'
    BY <1>1, <1>5, <1>6 DEF IInv, Tables
  <1>8. /\ buffer'[l] = rest /\ base_timestamp'[l] = next
        /\ \A k \in Line \ {l} : /\ buffer'[k] = buffer[k]
                                 /\ base_timestamp'[k] = base_timestamp[k]
    BY <1>1 DEF IInv, Tables
  <1> DEFINE m == e + Due(base)
  <1>9. m \in Nat
    BY <1>2, <1>3
  <1>10. Len(rest) = IF m <= Len(buffer[l]) THEN Len(buffer[l]) - m ELSE 0
    <2>1. Len(buffer[l]) \in Nat
      BY Entries
    <2>2. QED
      BY <1>2, <1>3, <1>4, <1>5, <2>1
  <1>11. \A i \in 1 .. Len(buffer[l]) - m : rest[i] = buffer[l][i + m]
    <2> SUFFICES ASSUME NEW i \in 1 .. Len(buffer[l]) - m
                 PROVE  rest[i] = buffer[l][i + m]
      OBVIOUS
    <2>1. /\ Len(buffer[l]) \in Nat /\ Len(sound) = Len(buffer[l]) - e
          /\ i \in 1 .. Len(sound) - Due(base)
      BY <1>2, <1>3, <1>4, Entries
    <2> HIDE DEF m
    <2>2. i + Due(base) \in 1 .. Len(buffer[l]) - e
      <3>1. i \in Nat /\ i >= 1 /\ Len(sound) \in Int /\ i <= Len(sound) - Due(base)
        BY <1>2, <1>3, <2>1
      <3>2. i + Due(base) \in Int /\ 1 <= i + Due(base) /\ i + Due(base) <= Len(sound)
        BY <1>3, <3>1
      <3>3. QED
        BY <2>1, <3>2
    <2>3. rest[i] = buffer[l][(i + Due(base)) + e]
      BY <1>4, <1>5, <2>1, <2>2
    <2>4. (i + Due(base)) + e = i + m
      BY <1>2, <1>3 DEF m
    <2>5. QED
      BY <2>3, <2>4
  <1>12. rest # <<>> => next = b + m
    BY <1>2 DEF Due
  <1>13. b + m <= audio_time \/ m = 0
    BY <1>2 DEF Due
  <1> HIDE DEF m
  <1>14. QED
    BY <1>5, <1>7, <1>8, <1>9, <1>10, <1>11, <1>12, <1>13

-----------------------------------------------------------------------------
(* One line.  Its sound is on time when a sample's place is its time after *)
(* the base; it is heard when no audible sample of s is missing from t.    *)
OnTime(s, base) == \A i \in DOMAIN s : s[i] # Silence => s[i] = base + i - 1
Heard(s, t, by) ==
    \A i \in DOMAIN s : s[i] # Silence /\ s[i] >= audio_time =>
        \E j \in DOMAIN t : t[j] = s[i] - by

(* t is what is left of s when m samples are cut off.                      *)
Shifted(s, t, m) == \A i \in 1 .. Len(s) - m : t[i] = s[i + m]

LEMMA PlacedOnTime ==
    ASSUME NEW s \in Seq(Int), NEW base \in Int, OnTime(s, base),
           NEW p \in Nat, NEW ts \in Int, s # <<>> => ts - p = base
    PROVE  OnTime(Placed(s, p, ts), ts - p) /\ Heard(s, Placed(s, p, ts), 0)
  <1> DEFINE t == Placed(s, p, ts)
  <1>1. /\ t \in Seq(Int)
        /\ Len(t) = IF Len(s) > p + Frames THEN Len(s) ELSE p + Frames
        /\ \A i \in 1 .. Len(t) :
              t[i] = IF p < i /\ i <= p + Frames THEN ts + (i - p) - 1
                     ELSE IF i <= Len(s) THEN s[i] ELSE Silence
    BY PlacedProperties
  <1> HIDE DEF t
  <1>2. /\ Len(s) \in Nat /\ DOMAIN s = 1 .. Len(s) /\ Frames \in Nat
        /\ Len(t) \in Nat /\ DOMAIN t = 1 .. Len(t)
        /\ \A i \in 1 .. Len(s) : s[i] \in Int
    BY <1>1, LenProperties, AudioAssumption
  <1>3. Len(s) > 0 => ts - p = base
    BY <1>2
  <1>4. ASSUME NEW i \in 1 .. Len(t), t[i] # Silence
        PROVE  t[i] = (ts - p) + i - 1
    <2>1. CASE p < i /\ i <= p + Frames
      BY <1>1, <2>1
    <2>2. CASE ~(p < i /\ i <= p + Frames)
      <3>1. i <= Len(s) /\ t[i] = s[i]
        BY <1>1, <1>4, <2>2
      <3>2. i \in 1 .. Len(s)
        BY <1>2, <3>1
      <3>3. s[i] = base + i - 1
        BY <1>2, <1>4, <3>1, <3>2 DEF OnTime
      <3>4. QED
        BY <1>2, <1>3, <3>1, <3>2, <3>3
    <2>3. QED
      BY <2>1, <2>2
  <1>5. ASSUME NEW i \in 1 .. Len(s), s[i] # Silence
        PROVE  i \in 1 .. Len(t) /\ t[i] = s[i] - 0
    <2>1. i \in 1 .. Len(t) /\ s[i] \in Int /\ ts - p = base
      BY <1>1, <1>2, <1>3
    <2>2. s[i] = base + i - 1
      BY <1>2, <1>5 DEF OnTime
    <2>3. t[i] = s[i]
      BY <1>1, <2>1, <2>2
    <2>4. QED
      BY <2>1, <2>3
  <1>6. OnTime(t, ts - p)
    BY <1>2, <1>4 DEF OnTime
  <1>7. Heard(s, t, 0)
    BY <1>2, <1>5 DEF Heard
  <1>8. QED
    BY <1>6, <1>7 DEF t

(* Whether anything is left of n samples after m were cut off.             *)
LEMMA CutLength ==
    ASSUME NEW n \in Nat, NEW m \in Nat, NEW k \in Nat,
           k = IF m <= n THEN n - m ELSE 0
    PROVE  (k > 0 \/ m < n) => m <= n /\ k = n - m
  OBVIOUS

LEMMA CutOnTime ==
    ASSUME NEW s \in Seq(Int), NEW base \in Int, OnTime(s, base),
           NEW m \in Nat, NEW r \in Seq(Int), NEW next \in Int,
           Len(r) = IF m <= Len(s) THEN Len(s) - m ELSE 0,
           Shifted(s, r, m), r # <<>> => next = base + m,
           base + m <= audio_time \/ m = 0, audio_time \in Int
    PROVE  OnTime(r, next) /\ Heard(s, r, 0)
  <1>0. Len(s) \in Nat /\ Len(r) \in Nat
    BY LenProperties
  <1>1. /\ Len(s) \in Nat /\ DOMAIN s = 1 .. Len(s)
        /\ Len(r) \in Nat /\ DOMAIN r = 1 .. Len(r)
        /\ \A i \in 1 .. Len(s) : s[i] \in Int
    BY LenProperties
  <1>2. ASSUME NEW i \in 1 .. Len(r), r[i] # Silence
        PROVE  r[i] = next + i - 1
    <2>0. m <= Len(s) /\ Len(r) = Len(s) - m /\ r # <<>>
      <3>1. Len(r) > 0
        BY <1>0
      <3>2. m <= Len(s) /\ Len(r) = Len(s) - m
        BY <1>1, <3>1, CutLength
      <3>3. QED
        BY <3>1, <3>2, EmptySeq
    <2>1. /\ i \in 1 .. Len(s) - m /\ i + m \in 1 .. Len(s)
          /\ next = base + m
      BY <1>1, <2>0
    <2>2. r[i] = s[i + m]
      BY <2>1 DEF Shifted
    <2>3. s[i + m] = base + (i + m) - 1
      BY <1>1, <1>2, <2>1, <2>2 DEF OnTime
    <2>4. QED
      BY <2>1, <2>2, <2>3
  <1>3. ASSUME NEW i \in 1 .. Len(s), s[i] # Silence, s[i] >= audio_time
        PROVE  \E j \in 1 .. Len(r) : r[j] = s[i] - 0
    <2>1. s[i] = base + i - 1 /\ s[i] \in Int
      BY <1>1, <1>3 DEF OnTime
    <2>2. i > m
      BY <1>3, <2>1
    <2>3. i - m \in 1 .. Len(r) /\ i - m \in 1 .. Len(s) - m
      <3>1. m <= Len(s) /\ Len(r) = Len(s) - m
        <4>1. m < Len(s)
          BY <1>0, <2>2
        <4>2. QED
          BY <1>1, <4>1, CutLength
      <3>2. QED
        BY <1>1, <2>2, <3>1
    <2>4. (i - m) + m = i
      OBVIOUS
    <2>5. r[i - m] = s[i]
      BY <2>3, <2>4 DEF Shifted
    <2>6. QED
      BY <2>1, <2>3, <2>5
  <1>4. QED
    BY <1>1, <1>2, <1>3 DEF OnTime, Heard

-----------------------------------------------------------------------------
(* Each action keeps the invariant, and the sound.                         *)

(* A line whose entries do not change.                                     *)
LEMMA Untouched ==
    ASSUME IInv, NEW l \in Line, buffer'[l] = buffer[l],
           buffer[l] # <<>> => base_timestamp'[l] = base_timestamp[l]
    PROVE  /\ Len(buffer'[l]) < Buffer + MaxDelay + Smoothing + Frames
           /\ OnTime(buffer'[l], base_timestamp'[l])
           /\ Heard(buffer[l], buffer'[l], 0)
  <1>1. /\ buffer[l] \in Seq(Int) /\ DOMAIN buffer[l] = 1 .. Len(buffer[l])
        /\ Len(buffer[l]) < Buffer + MaxDelay + Smoothing + Frames
        /\ \A i \in 1 .. Len(buffer[l]) :
              /\ buffer[l][i] \in Int
              /\ buffer[l][i] # Silence =>
                    buffer[l][i] = base_timestamp[l] + i - 1
    BY Entries
  <1>2. CASE buffer[l] = <<>>
    <2>1. DOMAIN buffer[l] = {}
      BY <1>2
    <2>2. QED
      BY <1>1, <2>1 DEF OnTime, Heard
  <1>3. CASE buffer[l] # <<>>
    <2>1. OnTime(buffer'[l], base_timestamp'[l])
      BY <1>1, <1>3 DEF OnTime
    <2>2. \A i \in DOMAIN buffer[l] : buffer[l][i] - 0 = buffer[l][i]
      BY <1>1
    <2>3. QED
      BY <1>1, <2>1, <2>2 DEF Heard
  <1>4. QED
    BY <1>2, <1>3

(* The parts of the invariant that speak of one line, put together.        *)
LEMMA LineByLine ==
    ASSUME Tables', Moved = 0,
           \A l \in Line :
              /\ Len(buffer'[l]) < Buffer + MaxDelay + Smoothing + Frames
              /\ OnTime(buffer'[l], base_timestamp'[l])
              /\ Heard(buffer[l], buffer'[l], 0)
    PROVE  Short' /\ MixedOnTime' /\ SoundKept
  BY DEF Short, MixedOnTime, SoundKept, OnTime, Heard

LEMMA LineOutputIInv ==
    ASSUME IInv, NEW l \in Line, LineOutput(l)
    PROVE  IInv' /\ SoundKept
  <1>1. /\ Tables'
        /\ \A k \in Line \ {l} : /\ buffer'[k] = buffer[k]
                                 /\ base_timestamp'[k] = base_timestamp[k]
    BY LineOutputProperties
  <1>2. state[l] = "live" /\ UNCHANGED <<now, audio_time, at, todo, mixing, state>>
    BY DEF LineOutput, audio
  <1>3. Round' /\ NoUseAfterFree'
    BY <1>2 DEF IInv, Round, NoUseAfterFree, Listed
  <1>4. RemovedIsSilent'
    BY <1>1, <1>2 DEF IInv, RemovedIsSilent
  <1>5. Moved = 0
    BY <1>2 DEF Moved
  <1>6. /\ Len(buffer'[l]) < Buffer + MaxDelay + Smoothing + Frames
        /\ OnTime(buffer'[l], base_timestamp'[l])
        /\ Heard(buffer[l], buffer'[l], 0)
    <2>1. CASE /\ buffer'[l] = buffer[l]
               /\ buffer[l] # <<>> => base_timestamp'[l] = base_timestamp[l]
      BY <2>1, Untouched
    <2>2. ASSUME NEW p \in 0 .. Buffer + MaxDelay + Smoothing - 2, NEW ts \in Int,
                 buffer'[l] = Placed(buffer[l], p, ts),
                 base_timestamp'[l] = ts - p,
                 buffer[l] # <<>> => ts - p = base_timestamp[l]
          PROVE  /\ Len(buffer'[l]) < Buffer + MaxDelay + Smoothing + Frames
                 /\ OnTime(buffer'[l], base_timestamp'[l])
                 /\ Heard(buffer[l], buffer'[l], 0)
      <3>1. /\ p \in Nat /\ Frames \in Nat /\ p <= Buffer + MaxDelay + Smoothing - 2
            /\ Buffer \in Nat /\ MaxDelay \in Nat /\ Smoothing \in Nat
        BY <2>2, AudioAssumption
      <3>2. /\ buffer[l] \in Seq(Int) /\ Len(buffer[l]) \in Nat
            /\ Len(buffer[l]) < Buffer + MaxDelay + Smoothing + Frames
            /\ base_timestamp[l] \in Int
        BY Entries
      <3>3. OnTime(buffer[l], base_timestamp[l])
        BY DEF OnTime, IInv, MixedOnTime
      <3>4. Len(buffer'[l]) = IF Len(buffer[l]) > p + Frames
                             THEN Len(buffer[l]) ELSE p + Frames
        BY <2>2, <3>1, <3>2, PlacedProperties
      <3>5. Len(buffer'[l]) < Buffer + MaxDelay + Smoothing + Frames
        BY <3>1, <3>2, <3>4
      <3>6. QED
        BY <2>2, <3>1, <3>2, <3>3, <3>5, PlacedOnTime
    <2>3. \/ /\ buffer'[l] = buffer[l]
             /\ buffer[l] # <<>> => base_timestamp'[l] = base_timestamp[l]
          \/ \E p \in 0 .. Buffer + MaxDelay + Smoothing - 2, ts \in Int :
                /\ buffer'[l] = Placed(buffer[l], p, ts)
                /\ base_timestamp'[l] = ts - p
                /\ buffer[l] # <<>> => ts - p = base_timestamp[l]
      BY LineOutputProperties
    <2>4. QED
      BY <2>1, <2>2, <2>3
  <1>7. Short' /\ MixedOnTime' /\ SoundKept
    BY <1>1, <1>5, <1>6, Untouched, LineByLine
  <1>8. QED
    BY <1>1, <1>3, <1>4, <1>7 DEF IInv

LEMMA MixLineIInv ==
    ASSUME IInv, NEW l \in Line, MixLine(l)
    PROVE  IInv' /\ SoundKept
  <1>1. /\ Tables'
        /\ \A k \in Line \ {l} : /\ buffer'[k] = buffer[k]
                                 /\ base_timestamp'[k] = base_timestamp[k]
    BY MixLineProperties
  <1>2. /\ at = "mix" /\ at' = "lines" /\ mixing' = {}
        /\ UNCHANGED <<now, audio_time, todo, state>>
    BY DEF MixLine
  <1>3. Round' /\ NoUseAfterFree'
    BY <1>2 DEF IInv, Round, NoUseAfterFree, Listed
  <1>4. Moved = 0
    BY <1>2 DEF Moved
  <1>5. PICK m \in Nat :
           /\ buffer'[l] \in Seq(Int)
           /\ Len(buffer'[l]) = IF m <= Len(buffer[l])
                                THEN Len(buffer[l]) - m ELSE 0
           /\ \A i \in 1 .. Len(buffer[l]) - m :
                 buffer'[l][i] = buffer[l][i + m]
           /\ buffer'[l] # <<>> => base_timestamp'[l] = base_timestamp[l] + m
           /\ base_timestamp[l] + m <= audio_time \/ m = 0
    BY MixLineProperties
  <1>6. /\ buffer[l] \in Seq(Int) /\ Len(buffer[l]) \in Nat
        /\ base_timestamp[l] \in Int /\ base_timestamp'[l] \in Int
        /\ audio_time \in Int
        /\ Len(buffer[l]) < Buffer + MaxDelay + Smoothing + Frames
    BY <1>1, Entries DEF IInv, Round, Tables
  <1>7. OnTime(buffer[l], base_timestamp[l])
    BY DEF OnTime, IInv, MixedOnTime
  <1>8. OnTime(buffer'[l], base_timestamp'[l]) /\ Heard(buffer[l], buffer'[l], 0)
    BY <1>5, <1>6, <1>7, CutOnTime DEF Shifted
  <1>9. /\ Len(buffer'[l]) < Buffer + MaxDelay + Smoothing + Frames
        /\ Len(buffer[l]) = 0 => Len(buffer'[l]) = 0
    BY <1>5, <1>6, AudioAssumption
  <1>10. Short' /\ MixedOnTime' /\ SoundKept
    BY <1>1, <1>4, <1>8, <1>9, Untouched, LineByLine
  <1>11. RemovedIsSilent'
    <2> SUFFICES ASSUME NEW k \in Line, state'[k] = "removing"
                 PROVE  buffer'[k] = <<>>
      BY DEF RemovedIsSilent
    <2>1. buffer[k] = <<>>
      BY <1>2 DEF IInv, RemovedIsSilent
    <2>2. CASE k = l
      <3>1. Len(buffer'[l]) = 0
        BY <1>9, <2>1, <2>2
      <3>2. QED
        BY <1>5, <2>2, <3>1, EmptySeq
    <2>3. QED
      BY <1>1, <2>1, <2>2
  <1>12. QED
    BY <1>1, <1>3, <1>10, <1>11 DEF IInv

(* A line that is freed was empty: no sound goes with it.                  *)
LEMMA FreeProperties ==
    ASSUME IInv, NEW l \in Line, Free(l), buffer[l] = <<>>, Moved = 0
    PROVE  /\ Tables' /\ Short' /\ MixedOnTime' /\ SoundKept /\ RemovedIsSilent'
           /\ state'[l] = "none"
           /\ \A k \in Line \ {l} : state'[k] = state[k]
  <1>1. /\ Tables' /\ state'[l] = "none"
        /\ \A k \in Line \ {l} : state'[k] = state[k]
    BY EmptySeq DEF Free, IInv, Tables, None
  <1>2. \A k \in Line : /\ buffer'[k] = buffer[k]
                        /\ buffer[k] # <<>> => base_timestamp'[k] = base_timestamp[k]
    BY DEF Free, IInv, Tables
  <1>3. \A k \in Line :
           /\ Len(buffer'[k]) < Buffer + MaxDelay + Smoothing + Frames
           /\ OnTime(buffer'[k], base_timestamp'[k])
           /\ Heard(buffer[k], buffer'[k], 0)
    BY <1>2, Untouched
  <1>4. Short' /\ MixedOnTime' /\ SoundKept
    BY <1>1, <1>3, LineByLine
  <1>5. RemovedIsSilent'
    <2> SUFFICES ASSUME NEW k \in Line, state'[k] = "removing"
                 PROVE  buffer'[k] = <<>>
      BY DEF RemovedIsSilent
    <2>1. state[k] = "removing"
      BY <1>1
    <2>2. QED
      BY <1>2, <2>1 DEF IInv, RemovedIsSilent
  <1>6. QED
    BY <1>1, <1>4, <1>5

(* The steps that leave every buffer as it is.                             *)
LEMMA QuietProperties ==
    ASSUME IInv, UNCHANGED <<buffer, base_timestamp>>, Moved = 0, Tables'
    PROVE  Short' /\ MixedOnTime' /\ SoundKept
  BY Untouched, LineByLine

LEMMA SourceStepsIInv ==
    ASSUME IInv, NEW l \in Line, CreateLine(l) \/ DestroyLine(l) \/ Removed(l)
    PROVE  IInv' /\ SoundKept
  <1>1. UNCHANGED <<now, audio_time, at, todo, mixing>>
    BY DEF CreateLine, DestroyLine, Removed, audio
  <1>2. Round' /\ Moved = 0
    BY <1>1 DEF IInv, Round, Moved
  <1>3. CASE CreateLine(l)
    <2>1. /\ Tables' /\ UNCHANGED <<buffer, base_timestamp>>
          /\ NoUseAfterFree' /\ RemovedIsSilent'
      BY <1>1, <1>3
         DEF CreateLine, IInv, Tables, NoUseAfterFree, Listed, RemovedIsSilent
    <2>2. QED
      BY <1>2, <2>1, QuietProperties DEF IInv
  <1>4. CASE DestroyLine(l)
    <2>1. /\ Tables' /\ UNCHANGED <<buffer, base_timestamp>>
          /\ NoUseAfterFree' /\ RemovedIsSilent'
      BY <1>1, <1>4
         DEF DestroyLine, IInv, Tables, NoUseAfterFree, Listed, RemovedIsSilent
    <2>2. QED
      BY <1>2, <2>1, QuietProperties DEF IInv
  <1>5. CASE Removed(l)
    <2>1. /\ state[l] = "removing" /\ at = "sleep" /\ Free(l)
      BY <1>5 DEF Removed, RemoveLine, LineMutexFree
    <2>2. buffer[l] = <<>>
      BY <2>1 DEF IInv, RemovedIsSilent
    <2>3. todo = {} /\ mixing = {}
      BY <2>1 DEF IInv, Round
    <2>4. NoUseAfterFree'
      BY <1>1, <2>3 DEF NoUseAfterFree
    <2>5. QED
      BY <1>2, <2>1, <2>2, <2>4, FreeProperties DEF IInv
  <1>6. QED
    BY <1>3, <1>4, <1>5

LEMMA RoundStepsIInv ==
    ASSUME IInv, Tick \/ StartRound
    PROVE  IInv' /\ SoundKept
  <1>1. UNCHANGED <<state, buffer, base_timestamp, next_ts_min>>
    BY DEF Tick, StartRound, lines
  <1>2. MaxLag \in Nat
    BY AudioAssumption
  <1>3. Round' /\ Moved = 0
    BY <1>2 DEF Tick, StartRound, audio, IInv, Round, Moved
  <1>4. Tables' /\ RemovedIsSilent'
    BY <1>1 DEF IInv, Tables, RemovedIsSilent
  <1>5. NoUseAfterFree'
    BY <1>1 DEF Tick, StartRound, audio, IInv, Round, NoUseAfterFree, Listed
  <1>6. QED
    BY <1>1, <1>3, <1>4, <1>5, QuietProperties DEF IInv

LEMMA CheckLineIInv ==
    ASSUME IInv, NEW l \in Line, CheckLine(l)
    PROVE  IInv' /\ SoundKept
  <1>1. /\ at = "lines" /\ l \in todo /\ todo' = todo \ {l}
        /\ UNCHANGED <<now, audio_time>> /\ mixing = {}
    BY DEF CheckLine, IInv, Round
  <1>2. CASE Depleted(l)
    <2>1. Free(l) /\ UNCHANGED <<at, mixing>> /\ buffer[l] = <<>>
      BY <1>2 DEF CheckLine, Depleted
    <2>2. Round' /\ Moved = 0
      BY <1>1, <2>1 DEF IInv, Round, Moved
    <2>3. NoUseAfterFree'
      BY <1>1, <2>1, <2>2, FreeProperties DEF IInv, Round, NoUseAfterFree, Listed
    <2>4. QED
      BY <2>1, <2>2, <2>3, FreeProperties DEF IInv
  <1>3. CASE ~Depleted(l)
    <2>1. at' = "mix" /\ mixing' = {l}
          /\ UNCHANGED <<state, buffer, base_timestamp, next_ts_min>>
      BY <1>3 DEF CheckLine, lines
    <2>2. Round' /\ Moved = 0
      BY <1>1, <2>1 DEF IInv, Round, Moved
    <2>3. Tables' /\ RemovedIsSilent' /\ NoUseAfterFree'
      BY <1>1, <2>1
         DEF IInv, Tables, RemovedIsSilent, NoUseAfterFree, Listed
    <2>4. QED
      BY <2>1, <2>2, <2>3, QuietProperties DEF IInv
  <1>4. QED
    BY <1>2, <1>3

(* The round ends: every time is written relative to the new prev_time.    *)
LEMMA OutputIInv ==
    ASSUME IInv, Output
    PROVE  IInv' /\ SoundKept
  <1>1. /\ at = "lines" /\ todo = {} /\ at' = "sleep" /\ audio_time' = 0
        /\ now' = now - audio_time /\ mixing = {}
        /\ UNCHANGED <<todo, mixing, state>>
    BY DEF Output, Earlier, IInv, Round
  <1>2. Round' /\ NoUseAfterFree' /\ Moved = audio_time /\ audio_time \in Int
    BY <1>1, AudioAssumption DEF IInv, Round, NoUseAfterFree, Moved
  <1>3. ASSUME NEW l \in Line
        PROVE  /\ buffer'[l] \in Seq(Int) /\ Len(buffer'[l]) = Len(buffer[l])
               /\ base_timestamp'[l] \in Int /\ next_ts_min'[l] \in Int
               /\ OnTime(buffer'[l], base_timestamp'[l])
               /\ Heard(buffer[l], buffer'[l], audio_time)
    <2> DEFINE n == Len(buffer[l])
               f == [i \in 1 .. n |-> IF buffer[l][i] = Silence THEN Silence
                                     ELSE buffer[l][i] - audio_time]
    <2>1. /\ n \in Nat /\ DOMAIN buffer[l] = 1 .. n
          /\ base_timestamp[l] \in Int /\ next_ts_min[l] \in Int
          /\ \A i \in 1 .. n : /\ buffer[l][i] \in Int
                               /\ buffer[l][i] # Silence =>
                                     buffer[l][i] = base_timestamp[l] + i - 1
      BY Entries
    <2>2. buffer'[l] = f
      BY <2>1 DEF Output, Earlier
    <2>3. \A i \in 1 .. n : f[i] \in Int
      BY <1>2, <2>1 DEF Silence, None
    <2>4. f \in [1 .. n -> Int]
      BY <2>3
    <2>5. f \in Seq(Int) /\ Len(f) = n /\ DOMAIN f = 1 .. n
      BY <2>1, <2>4, FunctionIsSeq
    <2>6. base_timestamp'[l] = IF buffer[l] = <<>> THEN 0
                               ELSE base_timestamp[l] - audio_time
      BY DEF Output, Earlier
    <2>7. next_ts_min'[l] \in Int
      BY <1>2, <2>1 DEF Output, Earlier, None
    <2>8. \A i \in 1 .. n : base_timestamp'[l] = base_timestamp[l] - audio_time
      BY <2>1, <2>6
    <2>9. OnTime(f, base_timestamp'[l])
      BY <1>2, <2>1, <2>5, <2>8 DEF OnTime
    <2>10. Heard(buffer[l], f, audio_time)
      BY <2>1, <2>5 DEF Heard
    <2> HIDE DEF f
    <2>11. QED
      BY <1>2, <2>1, <2>2, <2>5, <2>6, <2>7, <2>9, <2>10
  <1>4. Tables'
    <2>1. /\ buffer' = [l \in Line |-> buffer'[l]]
          /\ base_timestamp' = [l \in Line |-> base_timestamp'[l]]
          /\ next_ts_min' = [l \in Line |-> next_ts_min'[l]]
      BY DEF Output
    <2>2. QED
      BY <1>1, <1>3, <2>1 DEF IInv, Tables
  <1>5. RemovedIsSilent'
    <2> SUFFICES ASSUME NEW k \in Line, state'[k] = "removing"
                 PROVE  buffer'[k] = <<>>
      BY DEF RemovedIsSilent
    <2>1. buffer[k] = <<>>
      BY <1>1 DEF IInv, RemovedIsSilent
    <2>2. Len(buffer'[k]) = 0 /\ buffer'[k] \in Seq(Int)
      BY <1>3, <2>1
    <2>3. QED
      BY <2>2, EmptySeq
  <1>6. Short' /\ MixedOnTime' /\ SoundKept
    BY <1>2, <1>3 DEF IInv, Short, MixedOnTime, SoundKept, OnTime, Heard
  <1>7. QED
    BY <1>2, <1>4, <1>5, <1>6 DEF IInv

LEMMA NextIInv == IInv /\ Next => IInv' /\ SoundKept
  BY LineOutputIInv, MixLineIInv, SourceStepsIInv, RoundStepsIInv,
     CheckLineIInv, OutputIInv
     DEF Next, AudioThread

LEMMA StutterIInv == IInv /\ UNCHANGED vars => IInv'
  BY DEF IInv, Tables, Round, Short, RemovedIsSilent, NoUseAfterFree, Listed,
         MixedOnTime, vars, audio, lines

(* The inductive invariant holds.                                          *)
THEOREM Invariance == Spec => []IInv
  <1>1. IInv /\ [Next]_vars => IInv'
    BY NextIInv, StutterIInv
  <1>2. QED
    BY InitIInv, <1>1, PTL DEF Spec

-----------------------------------------------------------------------------
(* audio_output_removeline waits for line_mutex, so no line is freed while *)
(* the audio thread has it in hand; the buffers never grow beyond the      *)
(* range of timestamps that valid_timestamp_range admits.                  *)
THEOREM LinesSoundHolds == Spec => []LinesSound
  <1>1. IInv => LinesSound
    BY Entries DEF IInv, Tables, Round, LinesSound, TypeOK
  <1>2. QED
    BY <1>1, Invariance, PTL

(* Wherever audio_line_place_data put it and whatever mix_audio_line and   *)
(* clear_excess_audio_data took before it, a sound is mixed at its time.   *)
THEOREM MixedOnTimeHolds == Spec => []MixedOnTime
  BY Invariance, PTL DEF IInv

(* No sound that can still be heard is thrown away by any thread.          *)
THEOREM NothingLostHolds == Spec => NothingLost
  <1>1. IInv /\ [Next]_vars => [SoundKept]_vars
    BY NextIInv
  <1>2. QED
    BY <1>1, Invariance, PTL DEF Spec, NothingLost

=============================================================================
