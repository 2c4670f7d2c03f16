-------------------------- MODULE OutputDelay_proofs --------------------------
(***************************************************************************)
(* Proofs about the stream delay, for every set of encoders, every delay   *)
(* and every bound.  Each invariant rests on the one before it and asks    *)
(* for as little of Calm as it needs.                                      *)
(***************************************************************************)
EXTENDS OutputDelay, FiniteSetTheorems, SequenceTheorems, TLAPS

\* ----------------------------------------------------------- whatever happens

(* The types, with those of the variables that TypeOK leaves out.          *)
Typed ==
    /\ TypeOK
    /\ pc[User] \in {"idle", "join", "decide", "end"}
    /\ hand \in [Encoder -> [msg : Messages \cup {"NONE"}, age : Nat]]
    /\ starts \in 0 .. MaxStarts /\ delay_restart_refs <= starts
    /\ command \in {"start", "stop"}

LEMMA InitTyped == Init => Typed
  <1> SUFFICES ASSUME Init PROVE Typed
    OBVIOUS
  <1>1. /\ delay_data \in Seq([msg : Messages, age : Ages])
        /\ 0 \in Ages /\ Never \in Nat
    <2>1. <<>> \in Seq([msg : Messages, age : Ages])
      OBVIOUS
    <2>2. 0 \in Ages /\ Never \in Nat
      BY DelayAssumption DEF Ages, Never
    <2> QED
      BY <2>1, <2>2 DEF Init
  <1>2. /\ pc \in [Thread -> {"idle", "pop", "handle", "join", "decide", "end"}]
        /\ pc[User] = "idle"
    BY DEF Init, Thread
  <1>3. hand \in [Encoder -> [msg : Messages \cup {"NONE"}, age : Nat]]
    BY DEF Init, Entry
  <1>4. since \in [Encoder -> Ages] /\ sent \in [Encoder -> Nat]
    BY <1>1 DEF Init
  <1>5. /\ active_delay = 0 /\ delay_restart_refs = 0 /\ retries = 0 /\ starts = 0
        /\ 0 \in 0 .. MaxStarts /\ 0 \in 0 .. RetryMax
    BY DelayAssumption DEF Init
  <1>6. /\ preserve \in BOOLEAN /\ delay_active \in BOOLEAN /\ delay_capturing \in BOOLEAN
        /\ active \in BOOLEAN /\ reconnecting \in BOOLEAN /\ stop_event \in BOOLEAN
        /\ timer \in BOOLEAN /\ stream = "off" /\ pushed = {} /\ command = "stop"
    BY DEF Init
  <1> QED
    BY <1>1, <1>2, <1>3, <1>4, <1>5, <1>6 DEF Typed, TypeOK

LEMMA StartTyped ==
    ASSUME Typed, Start
    PROVE  Typed'
  <1>1. /\ starts < MaxStarts /\ starts' = starts + 1
        /\ delay_data' = Append(delay_data, [msg |-> "START", age |-> 0])
        /\ command' = "start"
        /\ UNCHANGED <<reconnecting, retries, stop_event, timer, stream, pc, hand,
                       since, pushed, sent>>
    BY DEF Start, Press, Entry, retry, thread
  <1>2. /\ active_delay' \in {active_delay, Delay}
        /\ delay_restart_refs' \in {delay_restart_refs, delay_restart_refs + 1}
        /\ preserve' \in BOOLEAN /\ delay_active' \in BOOLEAN
        /\ delay_capturing' = delay_capturing /\ active' \in BOOLEAN
    BY DEF Start, CountRestart, BeginDataCapture, capture, Typed, TypeOK
  <1>3. [msg |-> "START", age |-> 0] \in [msg : Messages, age : Ages]
    BY DelayAssumption DEF Messages, Commands, Ages
  <1>4. delay_data' \in Seq([msg : Messages, age : Ages])
    BY <1>1, <1>3 DEF Typed, TypeOK
  <1>5. active_delay' \in Ages \cup {Wrapped}
    BY <1>2, DelayAssumption DEF Typed, TypeOK, Ages
  <1> QED
    BY <1>1, <1>2, <1>4, <1>5, DelayAssumption DEF Typed, TypeOK

LEMMA StopTyped ==
    ASSUME Typed, Stop
    PROVE  Typed'
  <1>1. delay_data' = Append(delay_data, [msg |-> "STOP", age |-> 0])
    BY DEF Stop, Entry
  <1>2. [msg |-> "STOP", age |-> 0] \in [msg : Messages, age : Ages]
    BY DelayAssumption DEF Messages, Commands, Ages
  <1>3. delay_data' \in Seq([msg : Messages, age : Ages])
    BY <1>1, <1>2 DEF Typed, TypeOK
  <1> QED
    BY <1>3 DEF Stop, Press, Typed, TypeOK, capture, retry, thread

LEMMA ThreadsTyped ==
    ASSUME Typed, NEW t \in Thread, NEW p \in {"idle", "pop", "handle", "join", "decide", "end"},
           t = User => p \in {"idle", "join", "decide", "end"},
           pc' = [pc EXCEPT ![t] = p]
    PROVE  /\ pc' \in [Thread -> {"idle", "pop", "handle", "join", "decide", "end"}]
           /\ pc'[User] \in {"idle", "join", "decide", "end"}
  BY DEF Typed, TypeOK, Thread

LEMMA ForceStopTyped ==
    ASSUME Typed, ForceStop
    PROVE  Typed'
  <1>1. pc' = [pc EXCEPT ![User] = "join"] /\ User \in Thread
    BY DEF ForceStop, BeginStop, Goto, Thread
  <1>2. /\ pc' \in [Thread -> {"idle", "pop", "handle", "join", "decide", "end"}]
        /\ pc'[User] \in {"idle", "join", "decide", "end"}
    BY <1>1, ThreadsTyped
  <1> QED
    BY <1>2 DEF ForceStop, BeginStop, Press, Typed, TypeOK, delay, capture

LEMMA EncodeTyped ==
    ASSUME Typed, NEW e \in Encoder, Encode(e)
    PROVE  Typed'
  <1>1. /\ delay_data' = Append(delay_data, [msg |-> e, age |-> 0])
        /\ pc' = [pc EXCEPT ![e] = "pop"] /\ e \in Thread /\ e # User
        /\ since' = [since EXCEPT ![e] = 0] /\ pushed' = pushed \cup {e}
    BY DelayAssumption DEF Encode, Goto, Thread, Entry
  <1>2. [msg |-> e, age |-> 0] \in [msg : Messages, age : Ages] /\ 0 \in Ages
    BY DelayAssumption DEF Messages, Ages
  <1>3. delay_data' \in Seq([msg : Messages, age : Ages])
    BY <1>1, <1>2 DEF Typed, TypeOK
  <1>4. /\ pc' \in [Thread -> {"idle", "pop", "handle", "join", "decide", "end"}]
        /\ pc'[User] \in {"idle", "join", "decide", "end"}
    BY <1>1, ThreadsTyped
  <1>5. since' \in [Encoder -> Ages] /\ pushed' \subseteq Encoder
    BY <1>1, <1>2 DEF Typed, TypeOK
  <1> QED
    BY <1>3, <1>4, <1>5 DEF Encode, Typed, TypeOK, capture, retry, user

(* What pop_packet does, with an entry that is due and with none.          *)
Takes(e) ==
    /\ delay_data # <<>> /\ ~Kept /\ Due(e)
    /\ hand' = [hand EXCEPT ![e] = Head(delay_data)]
    /\ delay_data' = Tail(delay_data)
    /\ pc' = [pc EXCEPT ![e] = "handle"]
    /\ active_delay' = active_delay

Rests(e) ==
    /\ ~(delay_data # <<>> /\ ~Kept /\ Due(e))
    /\ active_delay' = IF delay_data # <<>> /\ Kept THEN Elapsed(e) ELSE active_delay
    /\ pc' = [pc EXCEPT ![e] = "idle"]
    /\ UNCHANGED <<delay_data, hand>>

PopUnchanged ==
    UNCHANGED <<delay_restart_refs, preserve, delay_active, delay_capturing, active,
                reconnecting, retries, stop_event, timer, stream, pushed, command,
                pressed, starts, stops, signal, sent, breaks>>

LEMMA PopCases ==
    ASSUME NEW e \in Encoder, PopPacket(e)
    PROVE  /\ pc[e] = "pop" /\ (Takes(e) \/ Rests(e)) /\ PopUnchanged
           /\ since' \in {since, [since EXCEPT ![e] = 0]}
  <1>1. Takes(e) \/ Rests(e)
    BY Zenon DEF PopPacket, Takes, Rests, TakeEntry, Goto
  <1>2. PopUnchanged
    BY DEF PopPacket, PopUnchanged, capture, retry, user
  <1>3. since' \in {since, [since EXCEPT ![e] = 0]}
    BY DEF PopPacket
  <1> QED
    BY <1>1, <1>2, <1>3 DEF PopPacket

LEMMA PopPacketTyped ==
    ASSUME Typed, NEW e \in Encoder, PopPacket(e)
    PROVE  Typed'
  <1>1. /\ PopUnchanged /\ (Takes(e) \/ Rests(e))
        /\ e \in Thread /\ e # User
    BY PopCases, DelayAssumption DEF Thread
  <1>2. since' \in [Encoder -> Ages]
    <2>1. 0 \in Ages
      BY DelayAssumption DEF Ages
    <2> QED
      BY <2>1, PopCases DEF Typed, TypeOK
  <1>3. CASE Takes(e)
    <2>2. /\ Head(delay_data) \in [msg : Messages \cup {"NONE"}, age : Nat]
          /\ delay_data' \in Seq([msg : Messages, age : Ages])
      <3>1. Head(delay_data) \in [msg : Messages, age : Ages]
        BY <1>3, HeadTailProperties DEF Takes, Typed, TypeOK
      <3> QED
        BY <3>1, <1>3 DEF Takes, Typed, TypeOK, Ages
    <2>3. hand' \in [Encoder -> [msg : Messages \cup {"NONE"}, age : Nat]]
      BY <1>3, <2>2 DEF Takes, Typed
    <2>4. /\ pc' \in [Thread -> {"idle", "pop", "handle", "join", "decide", "end"}]
          /\ pc'[User] \in {"idle", "join", "decide", "end"}
      BY <1>3, <1>1, ThreadsTyped DEF Takes
    <2> QED
      BY <1>1, <1>2, <1>3, <2>2, <2>3, <2>4 DEF Takes, PopUnchanged, Typed, TypeOK
  <1>4. CASE Rests(e)
    <2>2. /\ pc' \in [Thread -> {"idle", "pop", "handle", "join", "decide", "end"}]
          /\ pc'[User] \in {"idle", "join", "decide", "end"}
      BY <1>4, <1>1, ThreadsTyped DEF Rests
    <2>3. active_delay' \in Ages \cup {Wrapped}
      <3>1. CASE delay_data # <<>> /\ Kept
        <4>1. Head(delay_data) \in [msg : Messages, age : Ages] /\ since[e] \in Ages
          BY <3>1, HeadTailProperties DEF Typed, TypeOK
        <4>2. PICK a \in Ages : Head(delay_data).age = a
          BY <4>1
        <4>3. PICK b \in Ages : since[e] = b
          BY <4>1
        <4>4. Elapsed(e) = IF a >= b THEN a - b ELSE Wrapped
          BY <4>2, <4>3 DEF Elapsed
        <4>5. active_delay' = IF a >= b THEN a - b ELSE Wrapped
          BY <1>4, <3>1, <4>4 DEF Rests
        <4> QED
          BY <4>5, DelayAssumption DEF Ages
      <3>2. CASE ~(delay_data # <<>> /\ Kept)
        BY <1>4, <3>2 DEF Rests, Typed, TypeOK
      <3> QED
        BY <3>1, <3>2
    <2> QED
      BY <1>1, <1>2, <1>4, <2>2, <2>3 DEF Rests, PopUnchanged, Typed, TypeOK
  <1> QED
    BY <1>1, <1>3, <1>4

LEMMA DoneTyped ==
    ASSUME Typed, NEW e \in Encoder, Done(e)
    PROVE  /\ pc' \in [Thread -> {"idle", "pop", "handle", "join", "decide", "end"}]
           /\ pc'[User] \in {"idle", "join", "decide", "end"}
           /\ hand' \in [Encoder -> [msg : Messages \cup {"NONE"}, age : Nat]]
  <1>1. /\ pc' = [pc EXCEPT ![e] = "pop"] /\ e \in Thread /\ e # User
        /\ hand' = [hand EXCEPT ![e] = [msg |-> "NONE", age |-> 0]]
    BY DelayAssumption DEF Done, Goto, Entry, Thread
  <1>2. [msg |-> "NONE", age |-> 0] \in [msg : Messages \cup {"NONE"}, age : Nat]
    OBVIOUS
  <1>3. hand' \in [Encoder -> [msg : Messages \cup {"NONE"}, age : Nat]]
    BY <1>1, <1>2 DEF Typed
  <1> QED
    BY <1>1, <1>3, ThreadsTyped

LEMMA RefsTyped ==
    ASSUME Typed, RestartDone
    PROVE  /\ delay_restart_refs' \in 0 .. MaxStarts
           /\ delay_restart_refs' <= delay_restart_refs
           /\ delay_restart_refs' <= starts
  BY DelayAssumption DEF Typed, TypeOK, RestartDone

LEMMA ProcessPacketTyped ==
    ASSUME Typed, NEW e \in Encoder, ProcessPacket(e)
    PROVE  Typed'
  <1>1. /\ pc' \in [Thread -> {"idle", "pop", "handle", "join", "decide", "end"}]
        /\ pc'[User] \in {"idle", "join", "decide", "end"}
        /\ hand' \in [Encoder -> [msg : Messages \cup {"NONE"}, age : Nat]]
    BY DoneTyped DEF ProcessPacket
  <1>2. hand[e].age \in Nat
    BY DEF Typed
  <1>3. sent' \in {sent, [sent EXCEPT ![hand[e].msg] = hand[e].age]}
    BY DEF ProcessPacket
  <1>4. sent' \in [Encoder -> Nat]
    BY <1>2, <1>3 DEF Typed, TypeOK
  <1> QED
    BY <1>1, <1>4 DEF ProcessPacket, Typed, TypeOK, delay, capture, retry, user

LEMMA ProcessStartTyped ==
    ASSUME Typed, NEW e \in Encoder, ProcessStart(e)
    PROVE  Typed'
  <1>1. /\ pc' \in [Thread -> {"idle", "pop", "handle", "join", "decide", "end"}]
        /\ pc'[User] \in {"idle", "join", "decide", "end"}
        /\ hand' \in [Encoder -> [msg : Messages \cup {"NONE"}, age : Nat]]
    BY DoneTyped DEF ProcessStart
  <1>2. /\ delay_restart_refs' \in 0 .. MaxStarts
        /\ delay_restart_refs' <= starts
    BY RefsTyped DEF ProcessStart, ActualStart
  <1>3. stream' \in {stream, "connecting"}
    BY DEF ProcessStart, ActualStart
  <1> QED
    BY <1>1, <1>2, <1>3 DEF ProcessStart, Typed, TypeOK, capture, retry, user

LEMMA ProcessStopTyped ==
    ASSUME Typed, NEW e \in Encoder, ProcessStop(e)
    PROVE  Typed'
  <1>1. /\ pc' = [pc EXCEPT ![e] = "join"] /\ e \in Thread /\ e # User
        /\ hand' = [hand EXCEPT ![e] = [msg |-> "NONE", age |-> 0]]
        /\ stop_event' = TRUE
    BY DelayAssumption DEF ProcessStop, BeginStop, Goto, Entry, Thread
  <1>2. /\ pc' \in [Thread -> {"idle", "pop", "handle", "join", "decide", "end"}]
        /\ pc'[User] \in {"idle", "join", "decide", "end"}
    BY <1>1, ThreadsTyped
  <1>3. [msg |-> "NONE", age |-> 0] \in [msg : Messages \cup {"NONE"}, age : Nat]
    OBVIOUS
  <1>4. hand' \in [Encoder -> [msg : Messages \cup {"NONE"}, age : Nat]]
    BY <1>1, <1>3 DEF Typed
  <1> QED
    BY <1>1, <1>2, <1>4 DEF ProcessStop, Typed, TypeOK, delay, capture, user

LEMMA StopperTyped ==
    ASSUME Typed, NEW t \in Thread, Stopper(t)
    PROVE  Typed'
  <1>1. PICK p \in {"idle", "pop", "decide", "end"} : pc' = [pc EXCEPT ![t] = p]
                                                  /\ (t = User => p # "pop")
    BY DEF Stopper, JoinThreads, Decide, EndStop, Goto, Back
  <1>2. /\ pc' \in [Thread -> {"idle", "pop", "handle", "join", "decide", "end"}]
        /\ pc'[User] \in {"idle", "join", "decide", "end"}
    BY <1>1, ThreadsTyped
  <1>3. UNCHANGED <<reconnecting, retries, stop_event, timer, hand, since, pushed,
                    command, starts, sent, preserve>>
    BY DEF Stopper, JoinThreads, Decide, EndStop, EndDataCapture, delay, retry, user
  <1>4. /\ delay_data' \in {delay_data, <<>>} /\ active_delay' \in {active_delay, 0}
        /\ delay_restart_refs' \in {delay_restart_refs, 0}
        /\ stream' \in {stream, "off"} /\ delay_active' \in {delay_active, FALSE}
        /\ delay_capturing' \in {delay_capturing, FALSE} /\ active' \in {active, FALSE}
    BY DEF Stopper, JoinThreads, Decide, EndStop, EndDataCapture, CleanupDelay, delay
  <1>5. /\ delay_data' \in Seq([msg : Messages, age : Ages])
        /\ active_delay' \in Ages \cup {Wrapped}
    <2>1. <<>> \in Seq([msg : Messages, age : Ages]) /\ 0 \in Ages
      BY DelayAssumption DEF Ages
    <2> QED
      BY <2>1, <1>4 DEF Typed, TypeOK
  <1>6. delay_restart_refs' \in 0 .. MaxStarts /\ delay_restart_refs' <= starts
    BY <1>4, DelayAssumption DEF Typed, TypeOK
  <1>7. /\ stream' \in {"off", "connecting", "sending", "ending"}
        /\ delay_active' \in BOOLEAN /\ delay_capturing' \in BOOLEAN /\ active' \in BOOLEAN
    BY <1>4 DEF Typed, TypeOK
  <1> QED
    BY <1>2, <1>3, <1>5, <1>6, <1>7 DEF Typed, TypeOK

LEMMA ReconnectTyped ==
    ASSUME Typed, OutputReconnect
    PROVE  /\ reconnecting' \in BOOLEAN /\ retries' \in 0 .. RetryMax
           /\ delay_active' \in BOOLEAN /\ stop_event' \in BOOLEAN
           /\ timer' \in BOOLEAN /\ stream' \in {"off", "ending"}
  <1> DEFINE tried == IF reconnecting THEN retries ELSE 0
  <1>1. tried \in 0 .. RetryMax /\ tried \in Int /\ RetryMax \in Int
    BY DelayAssumption DEF Typed, TypeOK
  <1>2. CASE tried >= RetryMax
    <2>1. /\ reconnecting' = FALSE /\ retries' = tried /\ delay_active' = FALSE
          /\ stream' = "ending" /\ UNCHANGED <<stop_event, timer>>
      BY <1>2 DEF OutputReconnect
    <2> QED
      BY <1>1, <2>1 DEF Typed, TypeOK
  <1>3. CASE ~(tried >= RetryMax)
    <2>1. /\ reconnecting' = TRUE /\ retries' = tried + 1
          /\ stop_event' = (reconnecting /\ stop_event) /\ timer' = TRUE
          /\ stream' = "off" /\ delay_active' = delay_active
      BY <1>3 DEF OutputReconnect
    <2> QED
      BY <1>1, <1>3, <2>1 DEF Typed, TypeOK
  <1> QED
    BY <1>2, <1>3

LEMMA PluginTyped ==
    ASSUME Typed, Plugin \/ Disconnected
    PROVE  Typed'
  <1>1. UNCHANGED <<pc, hand, since, pushed, command, starts, sent>>
    BY DEF Plugin, Disconnected, Connected, Refused, PluginEnds, thread, user
  <1>2. /\ delay_data' \in {delay_data, <<>>} /\ active_delay' \in {active_delay, Delay, 0}
        /\ delay_restart_refs' \in {delay_restart_refs, 0}
        /\ preserve' \in BOOLEAN /\ active' \in BOOLEAN /\ delay_capturing' \in BOOLEAN
    BY DEF Plugin, Disconnected, Connected, Refused, PluginEnds, EndDataCapture,
           CleanupDelay, BeginDataCapture, EndDelayedCapture, delay, capture, Typed, TypeOK
  <1>3. /\ reconnecting' \in BOOLEAN /\ retries' \in 0 .. RetryMax
        /\ delay_active' \in BOOLEAN /\ stop_event' \in BOOLEAN
        /\ timer' \in BOOLEAN /\ stream' \in {"off", "connecting", "sending", "ending"}
    <2>1. CASE OutputReconnect
      BY <2>1, ReconnectTyped
    <2>2. CASE Connected
      BY <2>2 DEF Connected, BeginDataCapture, capture, Typed, TypeOK
    <2>3. CASE PluginEnds
      BY <2>3 DEF PluginEnds, EndDataCapture, retry, Typed, TypeOK
    <2>4. CASE Refused /\ ~reconnecting
      BY <2>4 DEF Refused, retry, Typed, TypeOK
    <2> QED
      BY <2>1, <2>2, <2>3, <2>4 DEF Plugin, Disconnected, Refused, Typed, TypeOK
  <1>4. /\ delay_data' \in Seq([msg : Messages, age : Ages])
        /\ active_delay' \in Ages \cup {Wrapped}
    <2>1. <<>> \in Seq([msg : Messages, age : Ages]) /\ 0 \in Ages /\ Delay \in Ages
      BY DelayAssumption DEF Ages
    <2> QED
      BY <2>1, <1>2 DEF Typed, TypeOK
  <1>5. delay_restart_refs' \in 0 .. MaxStarts /\ delay_restart_refs' <= starts
    BY <1>2, DelayAssumption DEF Typed, TypeOK
  <1> QED
    BY <1>1, <1>2, <1>3, <1>4, <1>5 DEF Typed, TypeOK

LEMMA RetryTyped ==
    ASSUME Typed, Reconnect
    PROVE  Typed'
  <1>1. CASE Retry
    <2>1. /\ delay_restart_refs' \in 0 .. MaxStarts
          /\ delay_restart_refs' <= starts
      BY <1>1, RefsTyped DEF Retry, ActualStart
    <2>2. stream' \in {stream, "connecting"} /\ timer' = FALSE
      BY <1>1 DEF Retry, ActualStart
    <2>3. UNCHANGED <<delay_data, active_delay, preserve, delay_active, delay_capturing, active,
                      reconnecting, retries, stop_event, pc, hand, since, pushed, command,
                      starts, sent>>
      BY <1>1 DEF Retry, capture, thread, user
    <2>4. stream' \in {"off", "connecting", "sending", "ending"} /\ timer' \in BOOLEAN
      BY <2>2 DEF Typed, TypeOK
    <2> QED
      BY <2>1, <2>3, <2>4 DEF Typed, TypeOK
  <1>2. CASE RetryCancelled
    BY <1>2 DEF RetryCancelled, Typed, TypeOK, delay, capture, thread, user
  <1> QED
    BY <1>1, <1>2 DEF Reconnect

(* Every entry is a tick older, and nothing else of the queue changes.     *)
QueueAges ==
    /\ Len(delay_data') = Len(delay_data)
    /\ \A i \in 1 .. Len(delay_data) :
          /\ delay_data'[i].msg = delay_data[i].msg
          /\ delay_data'[i].age = delay_data[i].age + 1
          /\ delay_data[i].age < IF Kept THEN MaxAge - 1 ELSE MaxAge

LEMMA TickQueue ==
    ASSUME Typed, Tick
    PROVE  /\ QueueAges
           /\ delay_data' \in Seq([msg : Messages, age : Ages])
  <1> DEFINE n == Len(delay_data)
  <1>1. n \in Nat /\ DOMAIN delay_data = 1 .. n
    BY DEF Typed, TypeOK
  <1>2. delay_data' = [i \in 1 .. n |-> Older(delay_data[i])]
    BY <1>1 DEF Tick
  <1>3. ASSUME NEW i \in 1 .. n
        PROVE  /\ delay_data'[i].msg = delay_data[i].msg
               /\ delay_data'[i].age = delay_data[i].age + 1
               /\ delay_data[i].age < IF Kept THEN MaxAge - 1 ELSE MaxAge
               /\ delay_data'[i] \in [msg : Messages, age : Ages]
    <2>1. delay_data[i] \in [msg : Messages, age : Ages]
      BY ElementOfSeq DEF Typed, TypeOK
    <2>2. PICK m \in Messages, a \in Ages : delay_data[i] = [msg |-> m, age |-> a]
      BY <2>1
    <2>3. delay_data'[i] = [msg |-> m, age |-> a + 1]
      BY <1>2, <2>2 DEF Older
    <2>4. delay_data[i].age < IF Kept THEN MaxAge - 1 ELSE MaxAge
      BY <1>1 DEF Tick
    <2>5. a + 1 \in Ages
      <3>1. a < IF Kept THEN MaxAge - 1 ELSE MaxAge
        BY <2>2, <2>4
      <3> QED
        BY <3>1, DelayAssumption DEF Ages
    <2> QED
      BY <2>2, <2>3, <2>4, <2>5
  <1>4. delay_data' \in Seq([msg : Messages, age : Ages]) /\ Len(delay_data') = n
    <2>1. \A i \in 1 .. n : Older(delay_data[i]) \in [msg : Messages, age : Ages]
      BY <1>2, <1>3
    <2> QED
      BY <1>1, <1>2, <2>1
  <1> QED
    BY <1>3, <1>4 DEF QueueAges

LEMMA TickTyped ==
    ASSUME Typed, Tick
    PROVE  Typed'
  <1>1. delay_data' \in Seq([msg : Messages, age : Ages])
    BY TickQueue
  <1>2. hand' \in [Encoder -> [msg : Messages \cup {"NONE"}, age : Nat]]
    <2>1. ASSUME NEW e \in Encoder
          PROVE  /\ hand[e] \in [msg : Messages \cup {"NONE"}, age : Nat]
                 /\ Older(hand[e]) \in [msg : Messages \cup {"NONE"}, age : Nat]
      BY DEF Older, Typed
    <2>2. hand' = [e \in Encoder |-> IF pc[e] = "handle" THEN Older(hand[e]) ELSE hand[e]]
      BY DEF Tick
    <2> QED
      BY <2>1, <2>2
  <1>3. since' \in [Encoder -> Ages]
    <2>1. ASSUME NEW e \in Encoder
          PROVE  since[e] + 1 \in Ages /\ 0 \in Ages
      <3>1. since[e] \in Ages /\ since[e] < MaxAge
        BY DEF Tick, Typed, TypeOK
      <3> QED
        BY <3>1, DelayAssumption DEF Ages
    <2>2. since' = [e \in Encoder |-> IF pc[e] = "idle" THEN 0 ELSE since[e] + 1]
      BY DEF Tick
    <2> QED
      BY <2>1, <2>2
  <1>4. sent' \in [Encoder -> Nat]
    <2>1. ASSUME NEW e \in Encoder
          PROVE  sent[e] + 1 \in Nat /\ Never \in Nat
      BY DelayAssumption DEF Never, Typed, TypeOK
    <2>2. sent' = [e \in Encoder |-> IF sent[e] >= Never THEN Never ELSE sent[e] + 1]
      BY DEF Tick
    <2> QED
      BY <2>1, <2>2
  <1> QED
    BY <1>1, <1>2, <1>3, <1>4 DEF Tick, Typed, TypeOK, capture, retry

LEMMA TimePassesTyped ==
    ASSUME Typed, TimePasses
    PROVE  Typed'
  BY DEF TimePasses, Typed, TypeOK, delay, capture, retry, thread

LEMMA NextTyped == Typed /\ [Next]_vars => Typed'
  <1> SUFFICES ASSUME Typed, [Next]_vars PROVE Typed'
    OBVIOUS
  <1>1. CASE UNCHANGED vars
    BY <1>1 DEF vars, Typed, TypeOK, delay, capture, retry, thread, user
  <1>2. CASE \E e \in Encoder : Work(e)
    BY <1>2, EncodeTyped, PopPacketTyped, ProcessPacketTyped, ProcessStartTyped,
       ProcessStopTyped DEF Work
  <1> QED
    BY <1>1, <1>2, StartTyped, StopTyped, ForceStopTyped, PluginTyped, RetryTyped,
       TickTyped, TimePassesTyped, StopperTyped DEF Next

LEMMA AlwaysTyped == Spec => []Typed
  BY InitTyped, NextTyped, PTL DEF Spec

(* The variables keep their types, whatever happens (see Hasty).           *)
THEOREM TypeCorrectness == Spec => []TypeOK
  BY AlwaysTyped, PTL DEF Typed

\* ------------------------------------------------------------------ the queue

LEMMA QueueTyped ==
    ASSUME Typed
    PROVE  /\ Len(delay_data) \in Nat /\ DOMAIN delay_data = 1 .. Len(delay_data)
           /\ \A i \in 1 .. Len(delay_data) :
                 /\ delay_data[i] \in [msg : Messages, age : Ages]
                 /\ delay_data[i].msg \in Messages /\ delay_data[i].age \in Ages
  <1>1. delay_data \in Seq([msg : Messages, age : Ages])
    BY DEF Typed, TypeOK
  <1>2. ASSUME NEW i \in 1 .. Len(delay_data)
        PROVE  delay_data[i] \in [msg : Messages, age : Ages]
    BY <1>1, ElementOfSeq
  <1> QED
    BY <1>1, <1>2

LEMMA QueueTypedNext ==
    ASSUME Typed'
    PROVE  /\ Len(delay_data') \in Nat /\ DOMAIN delay_data' = 1 .. Len(delay_data')
           /\ \A i \in 1 .. Len(delay_data') :
                 /\ delay_data'[i] \in [msg : Messages, age : Ages]
                 /\ delay_data'[i].msg \in Messages /\ delay_data'[i].age \in Ages
  <1>1. delay_data' \in Seq([msg : Messages, age : Ages])
    BY DEF Typed, TypeOK
  <1>2. ASSUME NEW i \in 1 .. Len(delay_data')
        PROVE  delay_data'[i] \in [msg : Messages, age : Ages]
    BY <1>1, ElementOfSeq
  <1> QED
    BY <1>1, <1>2

(* The ways the queue changes, besides QueueAges: an entry is pushed, the  *)
(* first one is taken, and it is emptied.                                  *)
QueuePushes(m) ==
    /\ Len(delay_data') = Len(delay_data) + 1
    /\ \A i \in 1 .. Len(delay_data) : delay_data'[i] = delay_data[i]
    /\ delay_data'[Len(delay_data) + 1].msg = m
    /\ delay_data'[Len(delay_data) + 1].age = 0

QueueShifts ==
    /\ Len(delay_data) >= 1 /\ Len(delay_data') = Len(delay_data) - 1
    /\ \A i \in 1 .. Len(delay_data') : delay_data'[i] = delay_data[i + 1]

LEMMA PushesQueue ==
    ASSUME Typed, NEW m, delay_data' = Append(delay_data, Entry(m))
    PROVE  QueuePushes(m)
  <1> DEFINE x == [msg |-> m, age |-> 0]
  <1>1. delay_data' = Append(delay_data, x) /\ delay_data \in Seq([msg : Messages, age : Ages])
    BY DEF Entry, Typed, TypeOK
  <1> HIDE DEF x
  <1>2. /\ Len(delay_data') = Len(delay_data) + 1
        /\ \A i \in 1 .. Len(delay_data) : delay_data'[i] = delay_data[i]
        /\ delay_data'[Len(delay_data) + 1] = x
    BY <1>1
  <1> QED
    BY <1>2 DEF QueuePushes, x

LEMMA TakesQueue ==
    ASSUME Typed, NEW e \in Encoder, Takes(e)
    PROVE  /\ QueueShifts /\ hand' = [hand EXCEPT ![e] = delay_data[1]]
           /\ Head(delay_data) = delay_data[1]
           /\ hand'[e] = delay_data[1] /\ pc'[e] = "handle"
           /\ \A f \in Encoder : f # e => hand'[f] = hand[f] /\ pc'[f] = pc[f]
           /\ pc'[User] = pc[User]
  <1>1. delay_data \in Seq([msg : Messages, age : Ages]) /\ delay_data # <<>>
    BY DEF Typed, TypeOK, Takes
  <1>2. /\ Len(delay_data) >= 1 /\ Len(delay_data') = Len(delay_data) - 1
        /\ Head(delay_data) = delay_data[1]
    BY <1>1 DEF Takes
  <1>3. \A i \in 1 .. Len(delay_data') : delay_data'[i] = delay_data[i + 1]
    BY <1>1, HeadTailProperties DEF Takes
  <1>4. /\ hand' = [hand EXCEPT ![e] = delay_data[1]] /\ e # User /\ e \in Thread
        /\ pc' = [pc EXCEPT ![e] = "handle"]
    BY <1>2, DelayAssumption DEF Takes, Thread
  <1> QED
    BY <1>2, <1>3, <1>4 DEF QueueShifts, Typed, TypeOK, Thread

\* ------------------------------------------------------- the restarts counted

Queued(m) == {i \in DOMAIN delay_data : delay_data[i].msg = m}
InHand(m) == {e \in Encoder : pc[e] = "handle" /\ hand[e].msg = m}

LEMMA PendingFinite ==
    ASSUME Typed, NEW m
    PROVE  /\ IsFiniteSet(Queued(m)) /\ IsFiniteSet(InHand(m))
           /\ Cardinality(Queued(m)) \in Nat /\ Cardinality(InHand(m)) \in Nat
           /\ Pending(m) = Cardinality(Queued(m)) + Cardinality(InHand(m))
  <1>1. IsFiniteSet(Queued(m))
    <2>1. IsFiniteSet(1 .. Len(delay_data))
      BY QueueTyped, FS_Interval
    <2> QED
      BY <2>1, QueueTyped, FS_Subset DEF Queued
  <1>2. IsFiniteSet(InHand(m))
    BY DelayAssumption, FS_Subset DEF InHand
  <1> QED
    BY <1>1, <1>2, FS_CardinalityType DEF Pending, Queued, InHand

LEMMA PendingFiniteNext ==
    ASSUME Typed', NEW m
    PROVE  /\ IsFiniteSet(Queued(m)') /\ IsFiniteSet(InHand(m)')
           /\ Cardinality(Queued(m)') \in Nat /\ Cardinality(InHand(m)') \in Nat
           /\ Pending(m)' = Cardinality(Queued(m)') + Cardinality(InHand(m)')
  <1>1. IsFiniteSet(Queued(m)')
    <2>1. IsFiniteSet(1 .. Len(delay_data'))
      BY QueueTypedNext, FS_Interval
    <2> QED
      BY <2>1, QueueTypedNext, FS_Subset DEF Queued
  <1>2. IsFiniteSet(InHand(m)')
    BY DelayAssumption, FS_Subset DEF InHand
  <1> QED
    BY <1>1, <1>2, FS_CardinalityType DEF Pending, Queued, InHand

(* Nothing is pending when no entry is in the queue or in a hand.          *)
LEMMA PendingZero ==
    ASSUME Typed, NEW m
    PROVE  Pending(m) = 0 <=> Queued(m) = {} /\ InHand(m) = {}
  <1>1. /\ Cardinality(Queued(m)) = 0 <=> Queued(m) = {}
        /\ Cardinality(InHand(m)) = 0 <=> InHand(m) = {}
    BY PendingFinite, FS_EmptySet
  <1> QED
    BY <1>1, PendingFinite

(* Restarts are never counted that do not wait.                            *)
Counted == delay_restart_refs <= Pending("START")

LEMMA CountedUnchanged ==
    ASSUME Typed, Typed', Counted, delay_restart_refs' <= delay_restart_refs,
           Queued("START")' = Queued("START"), InHand("START")' = InHand("START")
    PROVE  Counted'
  <1>1. Pending("START")' = Pending("START") /\ Pending("START") \in Nat
    BY PendingFinite, PendingFiniteNext
  <1>2. delay_restart_refs \in Int /\ delay_restart_refs' \in Int
    BY DEF Typed, TypeOK
  <1> QED
    BY <1>1, <1>2 DEF Counted

LEMMA CountedZero ==
    ASSUME Typed', delay_restart_refs' = 0
    PROVE  Counted'
  <1>1. Pending("START")' \in Nat
    BY PendingFiniteNext
  <1> QED
    BY <1>1 DEF Counted

LEMMA SamePlaces ==
    ASSUME Typed, Typed', NEW m, Len(delay_data') = Len(delay_data),
           \A i \in 1 .. Len(delay_data) : delay_data'[i].msg = delay_data[i].msg
    PROVE  Queued(m)' = Queued(m)
  BY QueueTyped, QueueTypedNext DEF Queued

LEMMA PushPlaces ==
    ASSUME Typed, Typed', NEW m, NEW x, QueuePushes(x)
    PROVE  /\ x # m => Queued(m)' = Queued(m)
           /\ x = m => Queued(m)' = Queued(m) \cup {Len(delay_data) + 1}
           /\ Len(delay_data) + 1 \notin Queued(m)
  BY QueueTyped, QueueTypedNext DEF Queued, QueuePushes

LEMMA ShiftPlaces ==
    ASSUME Typed, Typed', NEW m, QueueShifts
    PROVE  Cardinality(Queued(m)')
             >= Cardinality(Queued(m)) - IF delay_data[1].msg = m THEN 1 ELSE 0
  <1> DEFINE S == Queued(m) \ {1}
             f == [i \in S |-> i - 1]
  <1>1. \A i \in S : i - 1 \in Queued(m)' /\ i \in Int
    <2> SUFFICES ASSUME NEW i \in S PROVE i - 1 \in Queued(m)' /\ i \in Int
      OBVIOUS
    <2>1. i \in 2 .. Len(delay_data) /\ delay_data[i].msg = m
      BY QueueTyped DEF Queued
    <2>2. i - 1 \in 1 .. Len(delay_data')
      BY <2>1, QueueTyped DEF QueueShifts
    <2>3. delay_data'[i - 1] = delay_data[i]
      BY <2>1, <2>2 DEF QueueShifts
    <2> QED
      BY <2>1, <2>2, <2>3, QueueTypedNext DEF Queued
  <1>2. f \in Injection(S, Queued(m)')
    <2>1. f \in [S -> Queued(m)']
      BY <1>1
    <2>2. ASSUME NEW a \in S, NEW b \in S, f[a] = f[b]
          PROVE  a = b
      BY <1>1, <2>2
    <2> QED
      BY <2>1, <2>2 DEF Injection, IsInjective
  <1>3. Cardinality(S) <= Cardinality(Queued(m)')
    BY <1>2, PendingFiniteNext, FS_Injection
  <1>4. Cardinality(S) = IF 1 \in Queued(m) THEN Cardinality(Queued(m)) - 1
                         ELSE Cardinality(Queued(m))
    BY PendingFinite, FS_RemoveElement
  <1>5. 1 \in Queued(m) <=> delay_data[1].msg = m
    BY QueueTyped DEF Queued, QueueShifts
  <1> HIDE DEF S, f
  <1>6. Cardinality(Queued(m)) \in Nat /\ Cardinality(Queued(m)') \in Nat
    BY PendingFinite, PendingFiniteNext
  <1> QED
    BY <1>3, <1>4, <1>5, <1>6

LEMMA StartCounted ==
    ASSUME Typed, Typed', Counted, Start
    PROVE  Counted'
  <1>1. /\ QueuePushes("START") /\ UNCHANGED <<pc, hand>>
        /\ delay_restart_refs' \in {delay_restart_refs, delay_restart_refs + 1}
    BY PushesQueue DEF Start, CountRestart, thread
  <1>2. Cardinality(Queued("START")') = Cardinality(Queued("START")) + 1
    BY <1>1, PushPlaces, PendingFinite, FS_AddElement
  <1>3. InHand("START")' = InHand("START")
    BY <1>1 DEF InHand
  <1>4. Pending("START")' = Pending("START") + 1 /\ Pending("START") \in Nat
    BY <1>2, <1>3, PendingFinite, PendingFiniteNext
  <1>5. delay_restart_refs \in Nat
    BY DEF Typed, TypeOK
  <1> QED
    BY <1>1, <1>4, <1>5 DEF Counted

LEMMA PushCounted ==
    ASSUME Typed, Typed', Counted, NEW x, x # "START",
           delay_data' = Append(delay_data, Entry(x)),
           delay_restart_refs' = delay_restart_refs,
           InHand("START")' = InHand("START")
    PROVE  Counted'
  <1>1. Queued("START")' = Queued("START")
    BY PushesQueue, PushPlaces
  <1>2. delay_restart_refs' <= delay_restart_refs
    BY DEF Typed, TypeOK
  <1> QED
    BY <1>1, <1>2, CountedUnchanged

LEMMA PopCounted ==
    ASSUME Typed, Typed', Counted, NEW e \in Encoder, PopPacket(e)
    PROVE  Counted'
  <1>1. delay_restart_refs' = delay_restart_refs /\ delay_restart_refs \in Int
    BY PopCases DEF PopUnchanged, Typed, TypeOK
  <1>2. pc[e] = "pop" /\ (Takes(e) \/ Rests(e)) /\ e \notin InHand("START")
    BY PopCases DEF InHand
  <1>3. CASE Takes(e)
    <2>1. InHand("START")' = IF delay_data[1].msg = "START" THEN InHand("START") \cup {e}
                             ELSE InHand("START")
      BY <1>2, <1>3, TakesQueue DEF InHand
    <2>2. Cardinality(InHand("START")') = Cardinality(InHand("START"))
                                          + IF delay_data[1].msg = "START" THEN 1 ELSE 0
      BY <1>2, <2>1, PendingFinite, FS_AddElement
    <2>3. Cardinality(Queued("START")')
             >= Cardinality(Queued("START")) - IF delay_data[1].msg = "START" THEN 1 ELSE 0
      BY <1>3, TakesQueue, ShiftPlaces
    <2>4. Pending("START")' >= Pending("START") /\ Pending("START") \in Nat /\ Pending("START")' \in Nat
      BY <2>2, <2>3, PendingFinite, PendingFiniteNext
    <2> QED
      BY <1>1, <2>4 DEF Counted
  <1>4. CASE Rests(e)
    <2>1. Queued("START")' = Queued("START")
      BY <1>4 DEF Rests, Queued
    <2>2. InHand("START")' = InHand("START")
      <3>1. /\ pc' = [pc EXCEPT ![e] = "idle"] /\ hand' = hand
            /\ pc \in [Thread -> {"idle", "pop", "handle", "join", "decide", "end"}]
        BY <1>4 DEF Rests, Typed, TypeOK
      <3> QED
        BY <3>1, <1>2 DEF InHand, Thread
    <2> QED
      BY <1>1, <2>1, <2>2, CountedUnchanged
  <1> QED
    BY <1>2, <1>3, <1>4

(* A thread that leaves its handler drops the entry it has in its hand.    *)
LEMMA LeavesHand ==
    ASSUME Typed, NEW e \in Encoder, NEW p, p # "handle", pc' = [pc EXCEPT ![e] = p],
           hand' = [hand EXCEPT ![e] = Entry("NONE")], NEW m
    PROVE  InHand(m)' = InHand(m) \ {e}
  BY DEF InHand, Typed, TypeOK, Thread

LEMMA ProcessPacketCounted ==
    ASSUME Typed, Typed', Counted, NEW e \in Encoder, ProcessPacket(e)
    PROVE  Counted'
  <1>1. InHand("START")' = InHand("START") \ {e}
    BY LeavesHand DEF ProcessPacket, Done, Goto
  <1>2. e \notin InHand("START")
    BY DelayAssumption DEF ProcessPacket, InHand
  <1>3. Queued("START")' = Queued("START") /\ delay_restart_refs' <= delay_restart_refs
    BY DEF ProcessPacket, delay, Queued, Typed, TypeOK
  <1> QED
    BY <1>1, <1>2, <1>3, CountedUnchanged

LEMMA ProcessStartCounted ==
    ASSUME Typed, Typed', Counted, NEW e \in Encoder, ProcessStart(e)
    PROVE  Counted'
  <1>1. InHand("START")' = InHand("START") \ {e}
    BY LeavesHand DEF ProcessStart, Done, Goto
  <1>2. e \in InHand("START")
    BY DEF ProcessStart, InHand
  <1>3. Cardinality(InHand("START")') = Cardinality(InHand("START")) - 1
    BY <1>1, <1>2, PendingFinite, FS_RemoveElement
  <1>4. Queued("START")' = Queued("START")
    BY DEF ProcessStart, Queued
  <1>5. Pending("START")' = Pending("START") - 1 /\ Pending("START") \in Nat /\ Pending("START")' \in Nat
    BY <1>3, <1>4, PendingFinite, PendingFiniteNext
  <1>6. /\ delay_restart_refs \in Nat
        /\ delay_restart_refs' = IF delay_restart_refs > 0 THEN delay_restart_refs - 1 ELSE 0
    BY DEF ProcessStart, ActualStart, RestartDone, Typed, TypeOK
  <1> QED
    BY <1>5, <1>6 DEF Counted

LEMMA ProcessStopCounted ==
    ASSUME Typed, Typed', Counted, NEW e \in Encoder, ProcessStop(e)
    PROVE  Counted'
  <1>1. InHand("START")' = InHand("START") \ {e}
    BY LeavesHand DEF ProcessStop, BeginStop, Goto
  <1>2. e \notin InHand("START")
    BY DEF ProcessStop, InHand
  <1>3. Queued("START")' = Queued("START") /\ delay_restart_refs' <= delay_restart_refs
    BY DEF ProcessStop, delay, Queued, Typed, TypeOK
  <1> QED
    BY <1>1, <1>2, <1>3, CountedUnchanged

(* A step by a thread that is not in its handler, and does not enter it.   *)
LEMMA KeepsHand ==
    ASSUME Typed, NEW t \in Thread, NEW p, p # "handle", pc[t] # "handle",
           pc' = [pc EXCEPT ![t] = p], hand' = hand, NEW m
    PROVE  InHand(m)' = InHand(m)
  BY DEF InHand, Typed, TypeOK, Thread

LEMMA StopperCounted ==
    ASSUME Typed, Typed', Counted, NEW t \in Thread, Stopper(t)
    PROVE  Counted'
  <1>1. CASE EndStop(t)
    BY <1>1, CountedZero DEF EndStop, EndDataCapture, CleanupDelay
  <1>2. CASE JoinThreads(t) \/ Decide(t)
    <2>1. PICK p \in {"idle", "pop", "decide", "end"} : pc' = [pc EXCEPT ![t] = p]
      BY <1>2 DEF JoinThreads, Decide, Goto, Back
    <2>2. pc[t] # "handle" /\ hand' = hand
      BY <1>2 DEF JoinThreads, Decide
    <2>3. InHand("START")' = InHand("START")
      BY <2>1, <2>2, KeepsHand
    <2>4. UNCHANGED <<delay_data, delay_restart_refs>>
      BY <1>2 DEF JoinThreads, Decide, delay
    <2>5. Queued("START")' = Queued("START") /\ delay_restart_refs' <= delay_restart_refs
      BY <2>4 DEF Queued, Typed, TypeOK
    <2> QED
      BY <2>3, <2>5, CountedUnchanged
  <1> QED
    BY <1>1, <1>2 DEF Stopper

LEMMA NextCounted == Typed /\ Typed' /\ Counted /\ [Next]_vars => Counted'
  <1> SUFFICES ASSUME Typed, Typed', Counted, [Next]_vars PROVE Counted'
    OBVIOUS
  <1>1. ASSUME UNCHANGED <<delay_data, pc, hand>>, delay_restart_refs' <= delay_restart_refs
        PROVE  Counted'
    <2>1. Queued("START")' = Queued("START") /\ InHand("START")' = InHand("START")
      BY <1>1 DEF Queued, InHand
    <2> QED
      BY <1>1, <2>1, CountedUnchanged
  <1>2. delay_restart_refs \in Int
    BY DEF Typed, TypeOK
  <1>3. CASE UNCHANGED vars \/ TimePasses \/ Disconnected \/ RetryCancelled \/ Refused
    BY <1>1, <1>2, <1>3 DEF vars, TimePasses, Disconnected, RetryCancelled, Refused, delay, thread
  <1>4. CASE Start
    BY <1>4, StartCounted
  <1>5. CASE Stop
    <2>1. /\ delay_data' = Append(delay_data, Entry("STOP")) /\ UNCHANGED <<pc, hand>>
          /\ delay_restart_refs' = delay_restart_refs
      BY <1>5 DEF Stop, thread
    <2>2. InHand("START")' = InHand("START")
      BY <2>1 DEF InHand
    <2> QED
      BY <2>1, <2>2, PushCounted
  <1>6. CASE ForceStop
    <2>1. /\ pc' = [pc EXCEPT ![User] = "join"] /\ hand' = hand /\ User \in Thread
          /\ pc[User] # "handle" /\ UNCHANGED <<delay_data, delay_restart_refs>>
      BY <1>6 DEF ForceStop, BeginStop, Goto, Thread, Press, delay
    <2>2. InHand("START")' = InHand("START") /\ Queued("START")' = Queued("START")
      BY <2>1, KeepsHand DEF Queued
    <2> QED
      BY <2>1, <2>2, <1>2, CountedUnchanged
  <1>7. CASE Retry
    BY <1>1, <1>7, RefsTyped DEF Retry, ActualStart, thread
  <1>8. CASE PluginEnds
    BY <1>8, CountedZero DEF PluginEnds, EndDataCapture, CleanupDelay
  <1>9. CASE Connected
    BY <1>1, <1>2, <1>9 DEF Connected, delay, thread
  <1>10. CASE Tick
    <2>1. Queued("START")' = Queued("START")
      BY <1>10, TickQueue, SamePlaces DEF QueueAges
    <2>2. InHand("START")' = InHand("START")
      <3>1. \A e \in Encoder : hand'[e].msg = hand[e].msg
        <4> SUFFICES ASSUME NEW e \in Encoder PROVE hand'[e].msg = hand[e].msg
          OBVIOUS
        <4>1. hand[e] \in [msg : Messages \cup {"NONE"}, age : Nat]
          BY DEF Typed
        <4>2. hand'[e] \in {hand[e], [hand[e] EXCEPT !.age = @ + 1]}
          BY <1>10 DEF Tick, Older
        <4> QED
          BY <4>1, <4>2
      <3>2. pc' = pc
        BY <1>10 DEF Tick
      <3> QED
        BY <3>1, <3>2 DEF InHand
    <2>3. delay_restart_refs' <= delay_restart_refs
      BY <1>10, <1>2 DEF Tick
    <2> QED
      BY <2>1, <2>2, <2>3, CountedUnchanged
  <1>11. ASSUME NEW e \in Encoder, Encode(e)
         PROVE  Counted'
    <2>1. /\ delay_data' = Append(delay_data, Entry(e)) /\ e # "START" /\ e \in Thread
          /\ delay_restart_refs' = delay_restart_refs
          /\ pc' = [pc EXCEPT ![e] = "pop"] /\ pc[e] # "handle" /\ hand' = hand
      BY <1>11, DelayAssumption DEF Encode, Goto, Thread
    <2>2. InHand("START")' = InHand("START")
      BY <2>1, KeepsHand
    <2> QED
      BY <2>1, <2>2, PushCounted
  <1> QED
    BY <1>3, <1>4, <1>5, <1>6, <1>7, <1>8, <1>9, <1>10, <1>11, StopperCounted, PopCounted,
       ProcessPacketCounted, ProcessStartCounted, ProcessStopCounted
    DEF Next, Plugin, Reconnect, Work

LEMMA AlwaysCounted == Spec => []Counted
  <1>1. Init => Counted
    <2> SUFFICES ASSUME Init PROVE Counted
      OBVIOUS
    <2>1. Typed /\ delay_restart_refs = 0
      BY InitTyped DEF Init
    <2>2. Pending("START") \in Nat
      BY <2>1, PendingFinite
    <2> QED
      BY <2>1, <2>2 DEF Counted
  <1> QED
    BY <1>1, AlwaysTyped, NextCounted, PTL DEF Spec

(* A restart that is counted waits in the queue or is being handled,       *)
(* whatever happens.                                                       *)
THEOREM RestartsCountedHolds == Spec => []RestartsCounted
  BY AlwaysCounted, PTL DEF Counted, RestartsCounted

(* When the output is off nothing is queued, and no encoder's thread is in *)
(* its handler.                                                            *)
OffIsEmpty ==
    ~active => /\ delay_data = <<>> /\ active_delay = 0 /\ delay_restart_refs = 0
               /\ \A e \in Encoder : pc[e] \in {"idle", "pop"}

(* The delay is on only while the output is.                               *)
DelayedIsActive == delay_active => active

LEMMA NextOffIsEmpty ==
    Typed /\ OffIsEmpty /\ DelayedIsActive /\ [Next]_vars => OffIsEmpty'
  <1> SUFFICES ASSUME Typed, OffIsEmpty, DelayedIsActive, [Next]_vars, ~active'
               PROVE  OffIsEmpty'
    BY DEF OffIsEmpty
  <1>1. CASE UNCHANGED vars
    BY <1>1 DEF vars, OffIsEmpty, delay, capture, thread
  <1>2. CASE Start \/ Stop \/ ForceStop \/ Tick \/ \E e \in Encoder : Encode(e)
    <2>1. CASE Start
      BY <2>1 DEF Start, BeginDataCapture, DelayedIsActive, capture
    <2>2. CASE Stop
      BY <2>2 DEF Stop, OffIsEmpty, capture
    <2>3. CASE ForceStop \/ Tick \/ \E e \in Encoder : Encode(e)
      BY <2>3 DEF ForceStop, Tick, Encode, capture
    <2> QED
      BY <1>2, <2>1, <2>2, <2>3
  <1>3. CASE TimePasses \/ Disconnected \/ Refused \/ RetryCancelled
    BY <1>3 DEF TimePasses, Disconnected, Refused, RetryCancelled, OffIsEmpty, delay, capture, thread
  <1>4. CASE Connected
    BY <1>4 DEF Connected, OffIsEmpty, BeginDataCapture, delay, capture, thread
  <1>5. CASE Retry
    BY <1>5 DEF Retry, ActualStart, RestartDone, OffIsEmpty, capture, thread
  <1>6. CASE PluginEnds
    BY <1>6, DelayAssumption DEF PluginEnds, EndDataCapture, CleanupDelay, OffIsEmpty, thread
  <1>7. ASSUME NEW t \in Thread, JoinThreads(t) \/ Decide(t)
        PROVE  OffIsEmpty'
    <2>1. /\ UNCHANGED <<active, delay_data, active_delay, delay_restart_refs>>
          /\ pc[t] \in {"join", "decide"}
      BY <1>7 DEF JoinThreads, Decide, delay
    <2>2. t \notin Encoder
      BY <2>1 DEF OffIsEmpty
    <2>3. \A e \in Encoder : pc'[e] = pc[e]
      BY <1>7, <2>2 DEF JoinThreads, Decide, Goto, Typed, TypeOK, Thread
    <2> QED
      BY <2>1, <2>3 DEF OffIsEmpty
  <1>8. ASSUME NEW t \in Thread, EndStop(t)
        PROVE  OffIsEmpty'
    <2>1. /\ delay_data' = <<>> /\ active_delay' = 0 /\ delay_restart_refs' = 0
          /\ \A e \in Encoder \ {t} : pc[e] = "idle"
          /\ pc' = [pc EXCEPT ![t] = Back(t)]
      BY <1>8 DEF EndStop, EndDataCapture, CleanupDelay, Goto
    <2>2. \A e \in Encoder : pc'[e] \in {"idle", "pop"}
      BY <2>1 DEF Typed, TypeOK, Thread, Back
    <2> QED
      BY <2>1, <2>2 DEF OffIsEmpty
  <1>9. ASSUME NEW e \in Encoder, PopPacket(e)
        PROVE  OffIsEmpty'
    <2>1. PopUnchanged /\ (Takes(e) \/ Rests(e)) /\ ~active
      BY <1>9, PopCases DEF PopUnchanged
    <2>2. delay_data = <<>>
      BY <2>1 DEF OffIsEmpty
    <2>3. Rests(e) /\ active_delay' = active_delay
      BY <2>1, <2>2 DEF Takes, Rests
    <2>4. \A f \in Encoder : pc'[f] \in {pc[f], "idle"}
      BY <2>3 DEF Rests, Typed, TypeOK, Thread
    <2> QED
      BY <2>1, <2>3, <2>4 DEF OffIsEmpty, PopUnchanged, Rests
  <1>10. ASSUME NEW e \in Encoder, ProcessPacket(e) \/ ProcessStart(e) \/ ProcessStop(e)
         PROVE  OffIsEmpty'
    <2>1. active' = active /\ pc[e] = "handle"
      BY <1>10 DEF ProcessPacket, ProcessStart, ProcessStop, capture
    <2> QED
      BY <2>1 DEF OffIsEmpty
  <1> QED
    BY <1>1, <1>2, <1>3, <1>4, <1>5, <1>6, <1>7, <1>8, <1>9, <1>10
    DEF Next, Plugin, Reconnect, Work, Stopper

\* --------------------------------------------------- the ages of the entries

(* No whole tick overtakes a thread, and no command is given in the tick   *)
(* in which another one is handled.                                        *)
InTime == Hasty \cap {"collision", "stall"} = {}

(* A thread that handles a command.                                        *)
Busy(t) ==
    \/ Stopping(t)
    \/ t \in Encoder /\ pc[t] = "handle" /\ hand[t].msg \in Commands

(* Every thread has read the clock in this tick.                           *)
Clocks == (\A e \in Encoder : since[e] = 0) /\ active_delay \in Ages

Sorted ==
    \A i, j \in 1 .. Len(delay_data) : i < j => delay_data[i].age >= delay_data[j].age

(* What is due, became so in this tick.                                    *)
DueNow == \A i \in 1 .. Len(delay_data) : delay_data[i].age <= active_delay + 1

(* An encoder that is through in this tick has left nothing that is due.   *)
Through ==
    \A e \in pushed : pc[e] = "idle" =>
        \A i \in 1 .. Len(delay_data) : delay_data[i].age <= active_delay

AgesInOrder == Clocks /\ Sorted /\ DueNow /\ Through

LEMMA CommandsQuiet ==
    ASSUME InTime, Typed, NEW c, Press(c)
    PROVE  /\ ~pressed /\ pressed' = TRUE
           /\ \A t \in Thread : ~Busy(t)
           /\ \A i \in 1 .. Len(delay_data) :
                 delay_data[i].msg \in Commands => delay_data[i].age <= active_delay
           /\ pc[User] = "idle" /\ command' = c
  <1>1. ~pressed /\ Quiet(Commands) /\ pressed' = TRUE /\ pc[User] = "idle" /\ command' = c
    BY DEF InTime, Press, Alone, Calm
  <1> QED
    BY <1>1, QueueTyped DEF Quiet, Busy

(* pop_packet, when the clock has been read in this tick.                  *)
LEMMA PopInTime ==
    ASSUME Typed, Clocks, NEW e \in Encoder
    PROVE  /\ Takes(e) => delay_data[1].age > active_delay /\ Len(delay_data) >= 1 /\ ~Kept
           /\ Rests(e) =>
                 \/ /\ active_delay' = active_delay
                    /\ (Len(delay_data) = 0 \/ delay_data[1].age <= active_delay)
                 \/ Len(delay_data) >= 1 /\ active_delay' = delay_data[1].age /\ Kept
  <1>1. /\ since[e] = 0 /\ Len(delay_data) \in Nat
        /\ delay_data \in Seq([msg : Messages, age : Ages])
    BY QueueTyped DEF Clocks, Typed, TypeOK
  <1>2. ASSUME delay_data # <<>>
        PROVE  Len(delay_data) >= 1 /\ Elapsed(e) = delay_data[1].age
    <2>1. Len(delay_data) >= 1 /\ Head(delay_data) = delay_data[1]
      BY <1>1, <1>2
    <2>2. PICK a \in Nat : delay_data[1].age = a
      BY <2>1, QueueTyped DEF Ages
    <2> QED
      BY <1>1, <2>1, <2>2 DEF Elapsed
  <1>3. delay_data = <<>> => Len(delay_data) = 0
    BY <1>1
  <1>4. CASE delay_data = <<>>
    BY <1>3, <1>4 DEF Takes, Rests
  <1>5. CASE delay_data # <<>>
    <2>1. /\ Len(delay_data) >= 1 /\ Elapsed(e) = delay_data[1].age
          /\ Due(e) <=> delay_data[1].age > active_delay
      BY <1>2, <1>5 DEF Due
    <2>2. Takes(e) => delay_data[1].age > active_delay /\ Len(delay_data) >= 1 /\ ~Kept
      BY <2>1 DEF Takes
    <2>3. PICK a \in Nat, d \in Nat : delay_data[1].age = a /\ active_delay = d
      BY <2>1, QueueTyped DEF Ages, Clocks
    <2>4. ASSUME Rests(e), Kept
          PROVE  active_delay' = delay_data[1].age
      BY <2>1, <2>4, <1>5 DEF Rests
    <2>5. ASSUME Rests(e), ~Kept
          PROVE  active_delay' = active_delay /\ delay_data[1].age <= active_delay
      <3>1. ~Due(e) /\ active_delay' = active_delay
        BY <2>5, <1>5 DEF Rests
      <3> QED
        BY <3>1, <2>1, <2>3
    <2> QED
      BY <2>1, <2>2, <2>4, <2>5
  <1> QED
    BY <1>4, <1>5

(* A step that leaves the queue and the threads' work at most smaller.     *)
Steady ==
    /\ UNCHANGED <<delay_data, active_delay, pushed, since>>
    /\ ~pressed' => ~pressed \/ delay_data = <<>>
    /\ \A e \in Encoder : pc'[e] = "idle" => pc[e] = "idle"
    /\ \A t \in Thread : Busy(t)' => Busy(t)

Empties ==
    /\ delay_data' = <<>> /\ active_delay' = 0 /\ active' = FALSE
    /\ UNCHANGED <<pushed, since>>
    /\ \A t \in Thread : Busy(t)' => Busy(t)

Pushes(e) ==
    /\ QueuePushes(e) /\ UNCHANGED <<active_delay, hand, pressed>>
    /\ since' = [since EXCEPT ![e] = 0] /\ pushed' = pushed \cup {e}
    /\ pc[e] = "idle" /\ pc' = [pc EXCEPT ![e] = "pop"] /\ e \notin pushed /\ active

LEMMA BusyLess ==
    ASSUME Typed, NEW t \in Thread, NEW p, pc' = [pc EXCEPT ![t] = p],
           Busy(t) \/ p = "pop" \/ p = "idle",
           p # "handle", \A e \in Encoder : e # t => hand'[e] = hand[e]
    PROVE  \A s \in Thread : Busy(s)' => Busy(s)
  <1> SUFFICES ASSUME NEW s \in Thread, Busy(s)' PROVE Busy(s)
    OBVIOUS
  <1>1. pc \in [Thread -> {"idle", "pop", "handle", "join", "decide", "end"}]
    BY DEF Typed, TypeOK
  <1>2. CASE s = t
    BY <1>1, <1>2 DEF Busy, Stopping
  <1>3. CASE s # t
    BY <1>1, <1>3 DEF Busy, Stopping
  <1> QED
    BY <1>2, <1>3

(* When the output is off, so are the plugin and the reconnect thread.     *)
OffIsStill == ~active => stream = "off" /\ ~timer

LEMMA StepKinds ==
    ASSUME Typed, OffIsEmpty, OffIsStill, [Next]_vars
    PROVE  \/ Steady \/ Empties \/ Start \/ Stop \/ ForceStop \/ Tick
           \/ \E e \in Encoder : Pushes(e) \/ PopPacket(e)
  <1>1. ASSUME UNCHANGED <<delay_data, active_delay, pushed, since, pressed, pc, hand>>
        PROVE  Steady
    BY <1>1 DEF Steady, Busy, Stopping
  <1>2. CASE UNCHANGED vars \/ Disconnected \/ Refused \/ RetryCancelled \/ Retry
    BY <1>1, <1>2 DEF vars, Disconnected, Refused, Retry, RetryCancelled, delay, thread, user
  <1>3. CASE TimePasses
    BY <1>3 DEF TimePasses, OffIsEmpty, Steady, Busy, Stopping, delay, thread
  <1>4. CASE PluginEnds
    BY <1>4 DEF PluginEnds, EndDataCapture, CleanupDelay, Empties, thread, Busy, Stopping
  <1>5. ASSUME NEW t \in Thread, EndStop(t)
        PROVE  Empties
    <2>1. /\ pc' = [pc EXCEPT ![t] = Back(t)] /\ Back(t) \in {"idle", "pop"} /\ hand' = hand
          /\ delay_data' = <<>> /\ active_delay' = 0 /\ active' = FALSE
          /\ UNCHANGED <<pushed, since>>
      BY <1>5 DEF EndStop, EndDataCapture, CleanupDelay, Goto, Back
    <2> QED
      BY <2>1, BusyLess DEF Empties
  <1>6. ASSUME NEW t \in Thread, JoinThreads(t) \/ Decide(t)
        PROVE  Steady
    <2>1. PICK p \in {"idle", "pop", "decide", "end"} :
             pc' = [pc EXCEPT ![t] = p] /\ (p = "idle" => t = User)
      BY <1>6 DEF JoinThreads, Decide, Goto, Back
    <2>2. Busy(t)
      BY <1>6 DEF JoinThreads, Decide, Busy, Stopping
    <2>3. UNCHANGED <<delay_data, active_delay, pushed, since, pressed, hand>>
      BY <1>6 DEF JoinThreads, Decide, delay, user
    <2>4. \A s \in Thread : Busy(s)' => Busy(s)
      BY <2>1, <2>2, <2>3, BusyLess
    <2>5. \A e \in Encoder : pc'[e] = "idle" => pc[e] = "idle"
      BY <2>1, DelayAssumption DEF Typed, TypeOK, Thread
    <2> QED
      BY <2>3, <2>4, <2>5 DEF Steady
  <1>7. ASSUME NEW e \in Encoder, ProcessPacket(e) \/ ProcessStart(e) \/ ProcessStop(e)
        PROVE  Steady
    <2>1. /\ \/ pc' = [pc EXCEPT ![e] = "pop"]
             \/ pc' = [pc EXCEPT ![e] = "join"] /\ Busy(e)
          /\ hand' = [hand EXCEPT ![e] = Entry("NONE")] /\ e \in Thread
      BY <1>7 DEF ProcessPacket, ProcessStart, ProcessStop, Done, BeginStop, Goto, Busy, Commands, Thread
    <2>2. \A f \in Encoder : f # e => hand'[f] = hand[f]
      BY <2>1 DEF Typed
    <2>3. \A s \in Thread : Busy(s)' => Busy(s)
      BY <2>1, <2>2, BusyLess
    <2>4. UNCHANGED <<delay_data, active_delay, pushed, since, pressed>>
      BY <1>7 DEF ProcessPacket, ProcessStart, ProcessStop, delay, user
    <2>5. \A f \in Encoder : pc'[f] = "idle" => pc[f] = "idle"
      BY <2>1 DEF Typed, TypeOK, Thread
    <2> QED
      BY <2>3, <2>4, <2>5 DEF Steady
  <1>8. CASE Connected
    <2>1. active
      BY <1>8 DEF Connected, OffIsStill
    <2>2. UNCHANGED <<delay_data, active_delay, pushed, since, pressed, pc, hand>>
      BY <1>8, <2>1 DEF Connected, delay, thread, user
    <2> QED
      BY <1>1, <2>2
  <1>9. ASSUME NEW e \in Encoder, Encode(e)
        PROVE  Pushes(e)
    BY <1>9, PushesQueue DEF Encode, Pushes, Goto, user
  <1> QED
    BY <1>2, <1>3, <1>4, <1>5, <1>6, <1>7, <1>8, <1>9
    DEF Next, Plugin, Reconnect, Work, Stopper

LEMMA PushAges ==
    ASSUME Typed, Typed', Sorted, DueNow, Clocks, NEW m, QueuePushes(m),
           active_delay' = active_delay
    PROVE  Sorted' /\ DueNow'
  <1>1. PICK n \in Nat : Len(delay_data) = n
    BY QueueTyped
  <1>2. PICK d \in Nat : active_delay = d
    BY DEF Clocks, Ages
  <1>3. /\ Len(delay_data') = n + 1
        /\ \A i \in 1 .. n : delay_data'[i].age = delay_data[i].age /\ delay_data[i].age \in Nat
        /\ delay_data'[n + 1].age = 0
    BY <1>1, QueueTyped DEF QueuePushes, Ages
  <1>4. \A i \in 1 .. n + 1 : i \in 1 .. n \/ i = n + 1
    BY <1>1
  <1>5. Sorted'
    <2> SUFFICES ASSUME NEW i \in 1 .. n + 1, NEW j \in 1 .. n + 1, i < j
                 PROVE  delay_data'[i].age >= delay_data'[j].age
      BY <1>3 DEF Sorted
    <2>1. i \in 1 .. n
      BY <1>1
    <2>2. CASE j \in 1 .. n
      <3>1. delay_data[i].age >= delay_data[j].age
        BY <1>1, <2>1, <2>2 DEF Sorted
      <3> QED
        BY <3>1, <1>3, <2>1, <2>2
    <2>3. CASE j = n + 1
      BY <1>3, <2>1, <2>3
    <2> QED
      BY <1>4, <2>2, <2>3
  <1>6. DueNow'
    <2> SUFFICES ASSUME NEW i \in 1 .. n + 1
                 PROVE  delay_data'[i].age <= d + 1
      BY <1>2, <1>3 DEF DueNow
    <2>1. CASE i \in 1 .. n
      <3>1. delay_data[i].age <= d + 1
        BY <1>1, <1>2, <2>1 DEF DueNow
      <3> QED
        BY <3>1, <1>3, <2>1
    <2>2. CASE i = n + 1
      BY <1>2, <1>3, <2>2
    <2> QED
      BY <1>4, <2>1, <2>2
  <1> QED
    BY <1>5, <1>6

LEMMA ShiftAges ==
    ASSUME Typed, Typed', Sorted, DueNow, Clocks, QueueShifts, active_delay' = active_delay
    PROVE  Sorted' /\ DueNow'
  <1>1. PICK n \in Nat : Len(delay_data') = n
    BY QueueTypedNext
  <1>2. PICK d \in Nat : active_delay = d
    BY DEF Clocks, Ages
  <1>3. /\ Len(delay_data) = n + 1
        /\ \A i \in 1 .. n : /\ i + 1 \in 1 .. n + 1
                             /\ delay_data'[i].age = delay_data[i + 1].age
    BY <1>1, QueueTyped DEF QueueShifts
  <1>4. Sorted'
    <2> SUFFICES ASSUME NEW i \in 1 .. n, NEW j \in 1 .. n, i < j
                 PROVE  delay_data'[i].age >= delay_data'[j].age
      BY <1>1 DEF Sorted
    <2>1. /\ i + 1 \in 1 .. n + 1 /\ j + 1 \in 1 .. n + 1 /\ i + 1 < j + 1
      BY <1>3
    <2>2. delay_data[i + 1].age >= delay_data[j + 1].age
      BY <1>3, <2>1 DEF Sorted
    <2> QED
      BY <1>3, <2>2
  <1>5. DueNow'
    <2> SUFFICES ASSUME NEW i \in 1 .. n
                 PROVE  delay_data'[i].age <= d + 1
      BY <1>1, <1>2 DEF DueNow
    <2>1. delay_data[i + 1].age <= d + 1
      BY <1>2, <1>3 DEF DueNow
    <2> QED
      BY <1>3, <2>1
  <1> QED
    BY <1>4, <1>5

LEMMA PushThrough ==
    ASSUME Typed, Through, Clocks, NEW m, QueuePushes(m), active_delay' = active_delay,
           \A f \in pushed' : pc'[f] = "idle" => f \in pushed /\ pc[f] = "idle"
    PROVE  Through'
  <1> SUFFICES ASSUME NEW f \in pushed', pc'[f] = "idle", NEW i \in 1 .. Len(delay_data')
               PROVE  delay_data'[i].age <= active_delay
    BY DEF Through
  <1>1. PICK n \in Nat : Len(delay_data) = n
    BY QueueTyped
  <1>2. i \in 1 .. n \/ i = n + 1
    BY <1>1 DEF QueuePushes
  <1>3. CASE i \in 1 .. n
    BY <1>1, <1>3 DEF Through, QueuePushes
  <1>4. CASE i = n + 1
    BY <1>1, <1>4 DEF QueuePushes, Clocks, Ages
  <1> QED
    BY <1>2, <1>3, <1>4

LEMMA NextAgesInOrder ==
    ASSUME InTime, Typed, Typed', OffIsEmpty, OffIsStill, DelayedIsActive, AgesInOrder,
           [Next]_vars
    PROVE  AgesInOrder'
  <1> USE DEF AgesInOrder
  <1>1. /\ Len(delay_data) \in Nat /\ Len(delay_data') \in Nat
        /\ active_delay \in Nat /\ active_delay \in Ages
        /\ \A i \in 1 .. Len(delay_data) : delay_data[i].age \in Nat
        /\ \A i \in 1 .. Len(delay_data') : delay_data'[i].age \in Nat
    BY QueueTyped, QueueTypedNext DEF Clocks, Ages
  <1>2. CASE Steady
    <2>1. /\ delay_data' = delay_data /\ active_delay' = active_delay
          /\ pushed' = pushed /\ since' = since
          /\ \A e \in Encoder : pc'[e] = "idle" => pc[e] = "idle"
      BY <1>2 DEF Steady
    <2>2. Clocks' /\ Sorted' /\ DueNow'
      BY <2>1 DEF Clocks, Sorted, DueNow
    <2>3. pushed \subseteq Encoder
      BY DEF Typed, TypeOK
    <2>4. Through'
      BY <2>1, <2>3 DEF Through
    <2> QED
      BY <2>2, <2>4
  <1>3. CASE Empties
    <2>1. Len(delay_data') = 0 /\ 0 \in Ages
      BY <1>3, DelayAssumption DEF Empties, Ages
    <2> QED
      BY <1>3, <2>1 DEF Empties, Clocks, Sorted, DueNow, Through
  <1>4. CASE Start \/ Stop
    <2>1. PICK c \in Commands : QueuePushes(c)
      BY <1>4, PushesQueue DEF Start, Stop, Commands
    <2>2. UNCHANGED <<since, pushed, pc>>
      BY <1>4 DEF Start, Stop, thread
    <2>3. CASE active_delay' = active_delay
      <3>1. Sorted' /\ DueNow' /\ Clocks'
        BY <2>1, <2>2, <2>3, PushAges DEF Clocks
      <3>2. Through'
        BY <2>1, <2>2, <2>3, PushThrough
      <3> QED
        BY <3>1, <3>2
    <2>4. CASE active_delay' # active_delay
      <3>1. ~active /\ active_delay' = Delay
        BY <1>4, <2>4 DEF Start, Stop, BeginDataCapture
      <3>2. Len(delay_data) = 0 /\ Delay \in Ages /\ Delay \in Nat
        BY <3>1, DelayAssumption DEF OffIsEmpty, Ages
      <3>3. Len(delay_data') = 1 /\ delay_data'[1].age = 0
        BY <2>1, <3>2 DEF QueuePushes
      <3> QED
        BY <2>2, <3>1, <3>2, <3>3 DEF Clocks, Sorted, DueNow, Through
    <2> QED
      BY <2>3, <2>4
  <1>5. CASE ForceStop
    <2>1. /\ UNCHANGED <<delay_data, active_delay, since, pushed>>
          /\ pc' = [pc EXCEPT ![User] = "join"]
      BY <1>5 DEF ForceStop, delay, BeginStop, Goto
    <2>2. \A e \in Encoder : pc'[e] = "idle" => pc[e] = "idle"
      BY <2>1 DEF Typed, TypeOK, Thread
    <2> QED
      BY <2>1, <2>2 DEF Clocks, Sorted, DueNow, Through
  <1>6. CASE Tick
    <2>1. /\ pushed = Encoder /\ pushed' = {} /\ active_delay' = active_delay
          /\ \A t \in Thread : pc[t] = "idle"
      BY <1>6 DEF InTime, Tick, Calm
    <2>2. QueueAges
      BY <1>6, TickQueue
    <2>3. \A i \in 1 .. Len(delay_data) : delay_data[i].age <= active_delay
      BY <2>1, DelayAssumption DEF Through, Thread
    <2>4. \A e \in Encoder : since'[e] = 0
      BY <1>6, <2>1 DEF Tick, Thread
    <2>5. \A i \in 1 .. Len(delay_data) : delay_data'[i].age = delay_data[i].age + 1
      BY <2>2 DEF QueueAges
    <2>6. Len(delay_data') = Len(delay_data)
      BY <2>2 DEF QueueAges
    <2>7. Sorted'
      BY <1>1, <2>5, <2>6 DEF Sorted
    <2>8. DueNow'
      BY <1>1, <2>1, <2>3, <2>5, <2>6 DEF DueNow
    <2> QED
      BY <1>1, <2>1, <2>4, <2>7, <2>8 DEF Clocks, Through
  <1>7. ASSUME NEW e \in Encoder, Pushes(e)
        PROVE  AgesInOrder'
    <2>1. /\ QueuePushes(e) /\ active_delay' = active_delay
          /\ since' = [since EXCEPT ![e] = 0] /\ pushed' = pushed \cup {e}
          /\ pc' = [pc EXCEPT ![e] = "pop"]
      BY <1>7 DEF Pushes
    <2>2. Sorted' /\ DueNow'
      BY <2>1, PushAges
    <2>3. \A f \in Encoder : since'[f] = 0
      BY <2>1 DEF Clocks, Typed, TypeOK
    <2>4. \A f \in pushed' : pc'[f] = "idle" => f \in pushed /\ pc[f] = "idle"
      BY <2>1, DelayAssumption DEF Typed, TypeOK, Thread
    <2>5. Through'
      BY <2>1, <2>4, PushThrough
    <2> QED
      BY <1>1, <2>1, <2>2, <2>3, <2>5 DEF Clocks
  <1>8. ASSUME NEW e \in Encoder, PopPacket(e)
        PROVE  AgesInOrder'
    <2>1. /\ PopUnchanged /\ pc[e] = "pop" /\ (Takes(e) \/ Rests(e))
          /\ since' \in {since, [since EXCEPT ![e] = 0]}
      BY <1>8, PopCases
    <2>2. \A f \in Encoder : since'[f] = 0
      BY <2>1 DEF Clocks, Typed, TypeOK
    <2>3. CASE Takes(e)
      <3>1. /\ QueueShifts /\ pc'[e] = "handle"
            /\ \A f \in Encoder : f # e => pc'[f] = pc[f]
            /\ active_delay' = active_delay /\ pushed' = pushed
        BY <2>1, <2>3, TakesQueue DEF PopUnchanged, Takes
      <3>2. Sorted' /\ DueNow'
        BY <3>1, ShiftAges
      <3>3. Through'
        <4> SUFFICES ASSUME NEW f \in pushed, pc'[f] = "idle", NEW i \in 1 .. Len(delay_data')
                     PROVE  delay_data'[i].age <= active_delay
          BY <3>1 DEF Through
        <4>1. f # e /\ pc[f] = "idle"
          BY <3>1 DEF Typed, TypeOK
        <4>2. i + 1 \in 1 .. Len(delay_data) /\ delay_data'[i] = delay_data[i + 1]
          <5>1. PICK n \in Nat : Len(delay_data') = n
            BY <1>1
          <5>2. Len(delay_data) = n + 1
            <6>1. n = Len(delay_data) - 1 /\ Len(delay_data) \in Nat
              BY <1>1, <3>1, <5>1 DEF QueueShifts
            <6> QED
              BY <6>1
          <5> QED
            BY <3>1, <5>1, <5>2 DEF QueueShifts
        <4> QED
          BY <4>1, <4>2 DEF Through
      <3> QED
        BY <1>1, <2>2, <3>1, <3>2, <3>3 DEF Clocks
    <2>4. CASE Rests(e)
      <3>1. /\ delay_data' = delay_data /\ pushed' = pushed
            /\ \A f \in Encoder : f # e => pc'[f] = pc[f]
        BY <2>1, <2>4 DEF Rests, PopUnchanged, Typed, TypeOK, Thread
      <3>2. \/ active_delay' = active_delay /\ (Len(delay_data) = 0 \/ delay_data[1].age <= active_delay)
            \/ Len(delay_data) >= 1 /\ active_delay' = delay_data[1].age
        BY <2>4, PopInTime
      <3>3. /\ active_delay' \in Nat /\ active_delay' \in Ages
            /\ \A i \in 1 .. Len(delay_data) : delay_data[i].age <= active_delay'
        <4>1. ASSUME NEW i \in 1 .. Len(delay_data)
              PROVE  delay_data[1].age >= delay_data[i].age
          BY <1>1 DEF Sorted
        <4>2. Len(delay_data) >= 1 => delay_data[1].age \in Ages /\ delay_data[1].age \in Nat
          BY <1>1, QueueTyped
        <4>3. CASE active_delay' = active_delay /\ (Len(delay_data) = 0 \/ delay_data[1].age <= active_delay)
          BY <1>1, <4>1, <4>2, <4>3
        <4>4. CASE Len(delay_data) >= 1 /\ active_delay' = delay_data[1].age
          BY <1>1, <4>1, <4>2, <4>4
        <4> QED
          BY <3>2, <4>3, <4>4
      <3>4. Sorted' /\ DueNow' /\ Through'
        BY <1>1, <3>1, <3>3 DEF Sorted, DueNow, Through
      <3> QED
        BY <2>2, <3>3, <3>4 DEF Clocks
    <2> QED
      BY <2>1, <2>3, <2>4
  <1> QED
    BY <1>2, <1>3, <1>4, <1>5, <1>6, <1>7, <1>8, StepKinds

\* --------------------------------------------------------- one command at a time

(* Commands are given in different ticks, and so one at most is due.       *)
CommandsApart ==
    \A i, j \in 1 .. Len(delay_data) :
        i < j /\ delay_data[i].msg \in Commands /\ delay_data[j].msg \in Commands
            => delay_data[i].age > delay_data[j].age

PressedFresh ==
    ~pressed => \A i \in 1 .. Len(delay_data) :
                    delay_data[i].msg \in Commands => delay_data[i].age > 0

OneBusy == \A s, t \in Thread : Busy(s) /\ Busy(t) => s = t

NoneDue ==
    (\E t \in Thread : Busy(t)) =>
        \A i \in 1 .. Len(delay_data) :
            delay_data[i].msg \in Commands => delay_data[i].age <= active_delay

OneCommand == CommandsApart /\ PressedFresh /\ OneBusy /\ NoneDue

LEMMA PressOneCommand ==
    ASSUME InTime, Typed, Typed', OneCommand, Clocks, NEW c \in Commands, NEW k, Press(k),
           QueuePushes(c), UNCHANGED <<pc, hand>>
    PROVE  OneCommand'
  <1>1. /\ ~pressed /\ pressed' = TRUE
        /\ \A t \in Thread : ~Busy(t)
    BY CommandsQuiet
  <1>2. \A t \in Thread : ~Busy(t)'
    BY <1>1 DEF Busy, Stopping
  <1>3. PICK n \in Nat : Len(delay_data) = n
    BY QueueTyped
  <1>4. /\ Len(delay_data') = n + 1
        /\ \A i \in 1 .. n : delay_data'[i] = delay_data[i] /\ delay_data[i].age \in Nat
        /\ delay_data'[n + 1].age = 0
    BY <1>3, QueueTyped DEF QueuePushes, Ages
  <1>5. CommandsApart'
    <2> SUFFICES ASSUME NEW i \in 1 .. n + 1, NEW j \in 1 .. n + 1, i < j,
                        delay_data'[i].msg \in Commands, delay_data'[j].msg \in Commands
                 PROVE  delay_data'[i].age > delay_data'[j].age
      BY <1>4 DEF CommandsApart, Commands
    <2>1. i \in 1 .. n /\ (j \in 1 .. n \/ j = n + 1)
      BY <1>3
    <2>2. CASE j \in 1 .. n
      BY <1>3, <1>4, <2>1, <2>2 DEF OneCommand, CommandsApart
    <2>3. CASE j = n + 1
      <3>1. delay_data[i].age > 0
        BY <1>1, <1>3, <1>4, <2>1 DEF OneCommand, PressedFresh
      <3> QED
        BY <1>4, <2>1, <2>3, <3>1
    <2> QED
      BY <2>1, <2>2, <2>3
  <1> QED
    BY <1>1, <1>2, <1>5 DEF OneCommand, PressedFresh, OneBusy, NoneDue

LEMMA PushOneCommand ==
    ASSUME InTime, Typed, Typed', OneCommand, Clocks, NEW e \in Encoder, Pushes(e)
    PROVE  OneCommand'
  <1>1. /\ QueuePushes(e) /\ UNCHANGED <<active_delay, hand, pressed>>
        /\ pc[e] = "idle" /\ pc' = [pc EXCEPT ![e] = "pop"] /\ e \notin Commands /\ e \in Thread
    BY DelayAssumption DEF Pushes, Commands, Thread
  <1>2. \A t \in Thread : Busy(t)' => Busy(t)
    BY <1>1, BusyLess
  <1>3. PICK n \in Nat : Len(delay_data) = n
    BY QueueTyped
  <1>4. /\ Len(delay_data') = n + 1
        /\ \A i \in 1 .. n : delay_data'[i] = delay_data[i]
        /\ delay_data'[n + 1].msg \notin Commands
    BY <1>1, <1>3 DEF QueuePushes
  <1>5. \A i \in 1 .. n + 1 : delay_data'[i].msg \in Commands => i \in 1 .. n /\ delay_data'[i] = delay_data[i]
    BY <1>3, <1>4
  <1>6. CommandsApart'
    BY <1>3, <1>4, <1>5 DEF OneCommand, CommandsApart, Commands
  <1>7. PressedFresh' /\ NoneDue'
    BY <1>1, <1>2, <1>3, <1>4, <1>5 DEF OneCommand, PressedFresh, NoneDue, Commands
  <1> QED
    BY <1>2, <1>6, <1>7 DEF OneCommand, OneBusy

LEMMA TakeOneCommand ==
    ASSUME Typed, Typed', OneCommand, AgesInOrder, NEW e \in Encoder, PopPacket(e), Takes(e)
    PROVE  OneCommand'
  <1>1. /\ QueueShifts /\ hand'[e] = delay_data[1] /\ pc'[e] = "handle" /\ pc[e] = "pop"
        /\ \A f \in Encoder : f # e => hand'[f] = hand[f] /\ pc'[f] = pc[f]
        /\ pc'[User] = pc[User] /\ active_delay' = active_delay /\ pressed' = pressed
    BY TakesQueue, PopCases DEF PopUnchanged, Takes
  <1>2. PICK n \in Nat : Len(delay_data') = n
    BY QueueTypedNext
  <1>3. /\ Len(delay_data) = n + 1
        /\ \A i \in 1 .. n : /\ i + 1 \in 1 .. n + 1 /\ i + 1 \in Int
                             /\ delay_data'[i] = delay_data[i + 1]
    <2>1. n = Len(delay_data) - 1 /\ Len(delay_data) \in Nat
      BY <1>1, <1>2, QueueTyped DEF QueueShifts
    <2> QED
      BY <1>1, <1>2, <2>1 DEF QueueShifts
  <1>4. 1 \in 1 .. n + 1 /\ delay_data[1].age \in Nat /\ active_delay \in Nat
    BY <1>3, QueueTyped DEF AgesInOrder, Clocks, Ages
  <1>5. /\ delay_data[1].age > active_delay /\ delay_data[1].age <= active_delay + 1
    BY <1>3, <1>4, PopInTime DEF AgesInOrder, DueNow
  <1>6. CommandsApart'
    <2> SUFFICES ASSUME NEW i \in 1 .. n, NEW j \in 1 .. n, i < j,
                        delay_data'[i].msg \in Commands, delay_data'[j].msg \in Commands
                 PROVE  delay_data'[i].age > delay_data'[j].age
      BY <1>2 DEF CommandsApart, Commands
    <2>1. i + 1 \in 1 .. n + 1 /\ j + 1 \in 1 .. n + 1 /\ i + 1 < j + 1
      BY <1>3
    <2> QED
      BY <1>3, <2>1 DEF OneCommand, CommandsApart
  <1>7. PressedFresh'
    BY <1>1, <1>2, <1>3 DEF OneCommand, PressedFresh, Commands
  <1>8. CASE delay_data[1].msg \notin Commands
    <2>1. \A t \in Thread : Busy(t)' => Busy(t)
      BY <1>1, <1>8, DelayAssumption DEF Busy, Stopping, Thread, Commands
    <2>2. NoneDue'
      BY <1>1, <1>2, <1>3, <2>1 DEF OneCommand, NoneDue, Commands
    <2> QED
      BY <1>6, <1>7, <2>1, <2>2 DEF OneCommand, OneBusy
  <1>9. CASE delay_data[1].msg \in Commands
    <2>1. \A t \in Thread : ~Busy(t)
      <3> SUFFICES ASSUME NEW t \in Thread, Busy(t) PROVE FALSE
        OBVIOUS
      <3>1. delay_data[1].age <= active_delay
        BY <1>3, <1>4, <1>9 DEF OneCommand, NoneDue
      <3> QED
        BY <1>4, <1>5, <3>1
    <2>2. \A t \in Thread : Busy(t)' => t = e
      BY <1>1, <2>1, DelayAssumption DEF Busy, Stopping, Thread
    <2>3. NoneDue'
      <3> SUFFICES ASSUME NEW i \in 1 .. n, delay_data'[i].msg \in Commands
                   PROVE  delay_data'[i].age <= active_delay
        BY <1>1, <1>2 DEF NoneDue, Commands
      <3>1. i + 1 \in 1 .. n + 1 /\ 1 < i + 1 /\ delay_data'[i] = delay_data[i + 1]
        BY <1>3
      <3>2. delay_data[1].age > delay_data[i + 1].age
        BY <1>3, <1>4, <1>9, <3>1 DEF OneCommand, CommandsApart
      <3>3. delay_data[i + 1].age \in Nat
        BY <1>3, <3>1, QueueTyped DEF Ages
      <3> QED
        BY <1>4, <1>5, <3>1, <3>2, <3>3
    <2> QED
      BY <1>6, <1>7, <2>2, <2>3 DEF OneCommand, OneBusy
  <1> QED
    BY <1>8, <1>9

LEMMA RestOneCommand ==
    ASSUME Typed, Typed', OneCommand, AgesInOrder, AgesInOrder', NEW e \in Encoder,
           PopPacket(e), Rests(e)
    PROVE  OneCommand'
  <1>1. /\ UNCHANGED <<delay_data, hand, pressed>> /\ e \in Thread
        /\ pc' = [pc EXCEPT ![e] = "idle"]
    BY PopCases DEF Rests, PopUnchanged, Thread
  <1>2. \A t \in Thread : Busy(t)' => Busy(t)
    BY <1>1, BusyLess
  <1>3. \A i \in 1 .. Len(delay_data) : delay_data[i].age <= active_delay
                                       => delay_data[i].age <= active_delay'
    <2> SUFFICES ASSUME NEW i \in 1 .. Len(delay_data), delay_data[i].age <= active_delay
                 PROVE  delay_data[i].age <= active_delay'
      OBVIOUS
    <2>1. \/ active_delay' = active_delay
          \/ Len(delay_data) >= 1 /\ active_delay' = delay_data[1].age
      BY PopInTime DEF AgesInOrder
    <2>2. Len(delay_data) >= 1 => delay_data[1].age >= delay_data[i].age
      <3>1. CASE i = 1
        BY <3>1, QueueTyped DEF Ages
      <3>2. CASE i # 1
        BY <3>2, QueueTyped DEF AgesInOrder, Sorted
      <3> QED
        BY <3>1, <3>2
    <2>3. /\ Len(delay_data) \in Nat /\ delay_data[i].age \in Nat
          /\ Len(delay_data) >= 1 => delay_data[1].age \in Nat
      BY QueueTyped DEF Ages
    <2> QED
      BY <2>1, <2>2, <2>3
  <1>4. CommandsApart' /\ PressedFresh'
    BY <1>1 DEF OneCommand, CommandsApart, PressedFresh
  <1>5. NoneDue'
    BY <1>1, <1>2, <1>3 DEF OneCommand, NoneDue
  <1> QED
    BY <1>2, <1>4, <1>5 DEF OneCommand, OneBusy

LEMMA NextOneCommand ==
    ASSUME InTime, Typed, Typed', OffIsEmpty, OffIsStill, DelayedIsActive, AgesInOrder,
           AgesInOrder', OneCommand, [Next]_vars
    PROVE  OneCommand'
  <1>1. CASE Steady
    <2>1. /\ delay_data' = delay_data /\ active_delay' = active_delay
          /\ ~pressed' => ~pressed \/ delay_data = <<>>
          /\ \A t \in Thread : Busy(t)' => Busy(t)
      BY <1>1 DEF Steady
    <2>2. delay_data = <<>> => Len(delay_data) = 0
      OBVIOUS
    <2>3. CommandsApart' /\ PressedFresh'
      BY <2>1, <2>2 DEF OneCommand, CommandsApart, PressedFresh
    <2>4. NoneDue'
      BY <2>1 DEF OneCommand, NoneDue
    <2> QED
      BY <2>1, <2>3, <2>4 DEF OneCommand, OneBusy
  <1>2. CASE Empties
    <2>1. Len(delay_data') = 0 /\ \A t \in Thread : Busy(t)' => Busy(t)
      BY <1>2 DEF Empties
    <2> QED
      BY <2>1 DEF OneCommand, CommandsApart, PressedFresh, NoneDue, OneBusy
  <1>3. CASE Start
    <2>1. QueuePushes("START") /\ Press("start") /\ UNCHANGED <<pc, hand>> /\ "START" \in Commands
      BY <1>3, PushesQueue DEF Start, thread, Commands
    <2> QED
      BY <2>1, PressOneCommand DEF AgesInOrder
  <1>4. CASE Stop
    <2>1. QueuePushes("STOP") /\ Press("stop") /\ UNCHANGED <<pc, hand>> /\ "STOP" \in Commands
      BY <1>4, PushesQueue DEF Stop, thread, Commands
    <2> QED
      BY <2>1, PressOneCommand DEF AgesInOrder
  <1>5. CASE ForceStop
    <2>1. /\ UNCHANGED <<delay_data, active_delay, hand>> /\ Press("stop")
          /\ pc' = [pc EXCEPT ![User] = "join"]
      BY <1>5 DEF ForceStop, delay, BeginStop, Goto
    <2>2. /\ pressed' = TRUE /\ \A t \in Thread : ~Busy(t)
          /\ \A i \in 1 .. Len(delay_data) :
                 delay_data[i].msg \in Commands => delay_data[i].age <= active_delay
      BY <2>1, CommandsQuiet
    <2>3. \A t \in Thread : Busy(t)' => t = User
      <3> SUFFICES ASSUME NEW t \in Thread, t # User PROVE ~Busy(t)'
        OBVIOUS
      <3>1. pc'[t] = pc[t]
        BY <2>1 DEF Typed, TypeOK
      <3> QED
        BY <2>1, <2>2, <3>1 DEF Busy, Stopping
    <2>4. CommandsApart' /\ NoneDue'
      BY <2>1, <2>2 DEF OneCommand, CommandsApart, NoneDue
    <2> QED
      BY <2>2, <2>3, <2>4 DEF OneCommand, OneBusy, PressedFresh
  <1>6. CASE Tick
    <2>1. \A t \in Thread : pc[t] = "idle" /\ pc'[t] = "idle"
      BY <1>6 DEF InTime, Tick, Calm
    <2>2. \A t \in Thread : ~Busy(t)'
      BY <2>1 DEF Busy, Stopping, Thread
    <2>3. QueueAges
      BY <1>6, TickQueue
    <2>4. /\ Len(delay_data') = Len(delay_data)
          /\ \A i \in 1 .. Len(delay_data) :
                /\ delay_data'[i].msg = delay_data[i].msg
                /\ delay_data'[i].age = delay_data[i].age + 1 /\ delay_data[i].age \in Nat
      BY <2>3, QueueTyped DEF QueueAges, Ages
    <2>5. CommandsApart'
      BY <2>4 DEF OneCommand, CommandsApart, Commands
    <2>6. PressedFresh'
      BY <2>4 DEF PressedFresh, Commands
    <2> QED
      BY <2>2, <2>5, <2>6 DEF OneCommand, OneBusy, NoneDue
  <1>7. ASSUME NEW e \in Encoder, Pushes(e)
        PROVE  OneCommand'
    BY <1>7, PushOneCommand DEF AgesInOrder
  <1>8. ASSUME NEW e \in Encoder, PopPacket(e)
        PROVE  OneCommand'
    BY <1>8, PopCases, TakeOneCommand, RestOneCommand
  <1> QED
    BY <1>1, <1>2, <1>3, <1>4, <1>5, <1>6, <1>7, <1>8, StepKinds

\* ------------------------------------------------- the capture and the plugin

Finishing(t) == pc[t] \in {"decide", "end"}

(* The plugin's thread ends the capture, and no one else does.             *)
EndingAlone ==
    stream = "ending" => /\ active /\ ~delay_active /\ ~timer
                         /\ \A t \in Thread : ~Finishing(t)

(* Once the threads are joined, nothing goes on until the stop is done.    *)
StoppedIsOff ==
    \A t \in Thread :
        /\ Finishing(t) => stream = "off" /\ ~timer
        /\ pc[t] = "end" => ~delay_active

CapturingSends == delay_capturing <=> stream = "sending"

ConnectedIsDelayed == stream \in {"connecting", "sending"} => delay_active

TimerWaits == timer => stream = "off" /\ active

CaptureRight ==
    /\ DelayedIsActive /\ OffIsStill /\ EndingAlone /\ StoppedIsOff
    /\ CapturingSends /\ ConnectedIsDelayed /\ TimerWaits

Holds(e, m) == pc[e] = "handle" /\ hand[e].msg = m
StopAhead(i) == \E j \in 1 .. Len(delay_data) : j < i /\ delay_data[j].msg = "STOP"
PluginOff == stream = "off" /\ ~timer

(* A START is handled only when the plugin is not at work, and the next    *)
(* one waits behind a STOP.                                                *)
StartInHand ==
    \A e \in Encoder : Holds(e, "START") =>
        /\ PluginOff
        /\ \A i \in 1 .. Len(delay_data) : delay_data[i].msg = "START" => StopAhead(i)

LEMMA CaptureSame ==
    ASSUME CaptureRight, UNCHANGED <<delay_active, delay_capturing, active, stream, timer>>,
           \A t \in Thread : pc'[t] \in {"decide", "end"} => pc'[t] = pc[t]
    PROVE  CaptureRight'
  BY DEF CaptureRight, DelayedIsActive, OffIsStill, EndingAlone, StoppedIsOff,
         CapturingSends, ConnectedIsDelayed, TimerWaits, Finishing

LEMMA NoneFinishing ==
    ASSUME CaptureRight, stream # "off" \/ timer
    PROVE  \A t \in Thread : ~Finishing(t) /\ pc[t] \notin {"decide", "end"}
  BY Zenon DEF CaptureRight, StoppedIsOff, Finishing

LEMMA FinishingIsOff ==
    ASSUME CaptureRight, NEW t \in Thread, Finishing(t)
    PROVE  stream = "off" /\ ~timer /\ (pc[t] = "end" => ~delay_active)
  BY Zenon DEF CaptureRight, StoppedIsOff

LEMMA PluginAtWork ==
    ASSUME CaptureRight, stream \in {"connecting", "sending"}
    PROVE  delay_active /\ active /\ ~timer
  <1>1. delay_active /\ stream # "off"
    BY DEF CaptureRight, ConnectedIsDelayed
  <1>2. active
    BY <1>1, Zenon DEF CaptureRight, DelayedIsActive
  <1>3. ~timer
    BY <1>1, Zenon DEF CaptureRight, TimerWaits
  <1> QED
    BY <1>1, <1>2, <1>3

LEMMA ReconnectCapture ==
    ASSUME Typed, CaptureRight, OutputReconnect, stream \in {"connecting", "sending"},
           active' = active, pc' = pc, delay_capturing' = FALSE
    PROVE  CaptureRight'
  <1>1. /\ delay_active /\ active /\ ~timer
        /\ \A t \in Thread : ~Finishing(t)
    BY PluginAtWork, NoneFinishing
  <1>2. \A t \in Thread : ~Finishing(t)' /\ pc'[t] # "end"
    BY <1>1 DEF Finishing
  <1>3. \/ delay_active' = FALSE /\ stream' = "ending" /\ timer' = timer
        \/ timer' = TRUE /\ stream' = "off" /\ delay_active' = delay_active
    BY DEF OutputReconnect
  <1>4. CASE delay_active' = FALSE /\ stream' = "ending" /\ timer' = timer
    BY <1>1, <1>2, <1>4
    DEF DelayedIsActive, OffIsStill, EndingAlone, StoppedIsOff,
        CapturingSends, ConnectedIsDelayed, TimerWaits, CaptureRight
  <1>5. CASE timer' = TRUE /\ stream' = "off" /\ delay_active' = delay_active
    BY <1>1, <1>2, <1>5
    DEF DelayedIsActive, OffIsStill, EndingAlone, StoppedIsOff,
        CapturingSends, ConnectedIsDelayed, TimerWaits, CaptureRight
  <1> QED
    BY <1>3, <1>4, <1>5

LEMMA NextCaptureRight ==
    ASSUME InTime, Typed, OffIsEmpty, OneCommand, CaptureRight, StartInHand, [Next]_vars
    PROVE  CaptureRight'
  <1>1. CASE UNCHANGED vars \/ TimePasses \/ Tick \/ Stop
    BY <1>1, CaptureSame DEF vars, TimePasses, Tick, Stop, capture, retry, thread
  <1>2. CASE Start
    <2>1. /\ UNCHANGED <<delay_capturing, stream, timer, pc>> /\ Press("start")
          /\ active => delay_active
          /\ \/ UNCHANGED <<delay_active, active>>
             \/ ~delay_active /\ delay_active' = TRUE /\ active' = TRUE
      BY <1>2 DEF Start, BeginDataCapture, capture, retry, thread
    <2>2. \A t \in Thread : ~Finishing(t)' /\ pc'[t] # "end"
      BY <2>1, CommandsQuiet DEF Busy, Stopping, Finishing
    <2>3. CASE UNCHANGED <<delay_active, active>>
      BY <2>1, <2>3, CaptureSame
    <2>4. CASE ~delay_active /\ delay_active' = TRUE /\ active' = TRUE
      <3>1. stream = "off" /\ ~timer
        BY <2>1, <2>4 DEF CaptureRight, OffIsStill
      <3> QED
        BY <2>1, <2>2, <2>4, <3>1
        DEF CaptureRight, DelayedIsActive, OffIsStill, EndingAlone, StoppedIsOff,
            CapturingSends, ConnectedIsDelayed, TimerWaits
    <2> QED
      BY <2>1, <2>3, <2>4
  <1>3. CASE ForceStop
    <2>1. /\ UNCHANGED <<delay_active, delay_capturing, active, stream, timer>>
          /\ pc' = [pc EXCEPT ![User] = "join"]
      BY <1>3 DEF ForceStop, BeginStop, Goto, capture
    <2> QED
      BY <2>1, CaptureSame DEF Typed, TypeOK
  <1>4. CASE Disconnected
    <2>1. /\ OutputReconnect /\ stream \in {"connecting", "sending"} /\ active' = active
          /\ pc' = pc /\ delay_capturing' = FALSE
      BY <1>4 DEF Disconnected, EndDelayedCapture, thread
    <2> QED
      BY <2>1, ReconnectCapture
  <1>5. CASE Refused
    <2>1. /\ stream \in {"connecting", "sending"} /\ active' = active
          /\ pc' = pc /\ delay_capturing' = FALSE
          /\ OutputReconnect \/ (delay_active' = FALSE /\ stream' = "ending" /\ timer' = timer)
      BY <1>5 DEF Refused, EndDelayedCapture, thread, retry
    <2>2. CASE OutputReconnect
      BY <2>1, <2>2, ReconnectCapture
    <2>3. CASE delay_active' = FALSE /\ stream' = "ending" /\ timer' = timer
      <3>1. /\ delay_active /\ active /\ ~timer
            /\ \A t \in Thread : ~Finishing(t)
        BY <2>1, PluginAtWork, NoneFinishing
      <3>2. \A t \in Thread : ~Finishing(t)' /\ pc'[t] # "end"
        BY <2>1, <3>1 DEF Finishing
      <3> QED
        BY <2>1, <2>3, <3>1, <3>2
        DEF CaptureRight, DelayedIsActive, OffIsStill, EndingAlone, StoppedIsOff,
            CapturingSends, ConnectedIsDelayed, TimerWaits
    <2> QED
      BY <2>1, <2>2, <2>3
  <1>6. CASE Connected
    <2>1. stream = "connecting" /\ stream' = "sending" /\ pc' = pc /\ timer' = timer
      BY <1>6 DEF Connected, thread
    <2>2. delay_active /\ active /\ ~timer /\ ~delay_capturing
      BY <2>1 DEF CaptureRight, ConnectedIsDelayed, DelayedIsActive, CapturingSends, TimerWaits
    <2>3. /\ delay_capturing' = TRUE /\ delay_active' = delay_active /\ active' = active
      BY <1>6, <2>2 DEF Connected, Typed, TypeOK
    <2>4. \A t \in Thread : ~Finishing(t)' /\ pc'[t] # "end"
      <3>1. \A t \in Thread : pc[t] \notin {"decide", "end"}
        BY <2>1, NoneFinishing
      <3> QED
        BY <2>1, <3>1 DEF Finishing
    <2> QED
      BY <2>1, <2>2, <2>3, <2>4
      DEF CaptureRight, DelayedIsActive, OffIsStill, EndingAlone, StoppedIsOff,
          CapturingSends, ConnectedIsDelayed, TimerWaits
  <1>7. CASE PluginEnds
    <2>1. /\ stream = "ending" /\ stream' = "off" /\ active' = FALSE
          /\ UNCHANGED <<delay_active, delay_capturing, timer, pc>>
      BY <1>7 DEF PluginEnds, EndDataCapture, retry, thread
    <2>2. /\ ~delay_active /\ ~timer /\ ~delay_capturing
          /\ \A t \in Thread : ~Finishing(t)
      BY <2>1 DEF CaptureRight, EndingAlone, CapturingSends
    <2>3. \A t \in Thread : ~Finishing(t)' /\ pc'[t] # "end"
      BY <2>1, <2>2 DEF Finishing
    <2> QED
      BY <2>1, <2>2, <2>3
      DEF CaptureRight, DelayedIsActive, OffIsStill, EndingAlone, StoppedIsOff,
          CapturingSends, ConnectedIsDelayed, TimerWaits
  <1>8. CASE Retry
    <2>1. /\ timer /\ timer' = FALSE /\ stream' \in {stream, "connecting"}
          /\ stream' = "connecting" => delay_active \/ ~active \/ stream = "connecting"
          /\ UNCHANGED <<delay_active, delay_capturing, active, pc>>
      BY <1>8 DEF Retry, ActualStart, capture, thread
    <2>2. /\ stream = "off" /\ active /\ ~delay_capturing
          /\ \A t \in Thread : ~Finishing(t)
      <3>1. stream = "off" /\ active
        BY <2>1, Zenon DEF CaptureRight, TimerWaits
      <3>2. ~delay_capturing
        BY <3>1 DEF CaptureRight, CapturingSends
      <3> QED
        BY <2>1, <3>1, <3>2, NoneFinishing
    <2>3. \A t \in Thread : ~Finishing(t)' /\ pc'[t] # "end"
      BY <2>1, <2>2 DEF Finishing
    <2> QED
      BY <2>1, <2>2, <2>3
      DEF CaptureRight, DelayedIsActive, OffIsStill, EndingAlone, StoppedIsOff,
          CapturingSends, ConnectedIsDelayed, TimerWaits
  <1>9. CASE RetryCancelled
    <2>1. /\ timer /\ timer' = FALSE
          /\ UNCHANGED <<delay_active, delay_capturing, active, pc, stream>>
      BY <1>9 DEF RetryCancelled, capture, thread
    <2> QED
      BY <2>1
      DEF CaptureRight, DelayedIsActive, OffIsStill, EndingAlone, StoppedIsOff,
          CapturingSends, ConnectedIsDelayed, TimerWaits, Finishing
  <1>10. ASSUME NEW t \in Thread, JoinThreads(t)
         PROVE  CaptureRight'
    <2>1. /\ stream' = "off" /\ ~timer /\ timer' = timer
          /\ UNCHANGED <<delay_active, active>>
          /\ pc' = [pc EXCEPT ![t] = "decide"]
          /\ delay_capturing' = IF stream = "sending" THEN FALSE ELSE delay_capturing
      BY <1>10 DEF JoinThreads, Goto, retry
    <2>2. ~delay_capturing'
      BY <2>1 DEF CaptureRight, CapturingSends
    <2>3. \A s \in Thread : pc'[s] = "end" => pc[s] = "end"
      BY <2>1 DEF Typed, TypeOK
    <2> QED
      BY <2>1, <2>2, <2>3
      DEF CaptureRight, DelayedIsActive, OffIsStill, EndingAlone, StoppedIsOff,
          CapturingSends, ConnectedIsDelayed, TimerWaits
  <1>11. ASSUME NEW t \in Thread, Decide(t)
         PROVE  CaptureRight'
    <2>1. /\ UNCHANGED <<delay_capturing, active, stream, timer>>
          /\ \/ delay_active' = FALSE /\ pc' = [pc EXCEPT ![t] = "end"]
             \/ delay_active' = delay_active /\ pc' = [pc EXCEPT ![t] = Back(t)]
      BY <1>11 DEF Decide, Goto, retry
    <2>2. stream = "off" /\ ~timer
      BY <1>11, FinishingIsOff DEF Decide, Finishing
    <2>3. CASE delay_active' = FALSE
      BY <2>1, <2>2, <2>3
      DEF CaptureRight, DelayedIsActive, OffIsStill, EndingAlone, StoppedIsOff,
          CapturingSends, ConnectedIsDelayed, TimerWaits
    <2>4. CASE delay_active' = delay_active /\ pc' = [pc EXCEPT ![t] = Back(t)]
      <3>1. \A s \in Thread : pc'[s] \in {"decide", "end"} => pc'[s] = pc[s]
        BY <2>4 DEF Back, Typed, TypeOK
      <3> QED
        BY <2>1, <2>4, <3>1, CaptureSame
    <2> QED
      BY <2>1, <2>3, <2>4
  <1>12. ASSUME NEW t \in Thread, EndStop(t)
         PROVE  CaptureRight'
    <2>1. /\ UNCHANGED <<delay_active, delay_capturing, stream, timer>> /\ active' = FALSE
          /\ pc' = [pc EXCEPT ![t] = Back(t)] /\ pc[t] = "end"
      BY <1>12 DEF EndStop, EndDataCapture, Goto, retry
    <2>2. stream = "off" /\ ~timer /\ ~delay_active
      BY <2>1, FinishingIsOff DEF Finishing
    <2> QED
      BY <2>1, <2>2
      DEF CaptureRight, DelayedIsActive, OffIsStill, EndingAlone, StoppedIsOff,
          CapturingSends, ConnectedIsDelayed, TimerWaits
  <1>13. ASSUME NEW e \in Encoder, ProcessStart(e)
         PROVE  CaptureRight'
    <2>1. /\ UNCHANGED <<delay_active, delay_capturing, active, timer>>
          /\ pc' = [pc EXCEPT ![e] = "pop"] /\ e \in Thread
          /\ stream' \in {stream, "connecting"} /\ pc[e] = "handle" /\ hand[e].msg = "START"
          /\ stream' = "connecting" => delay_active \/ ~active \/ stream = "connecting"
      BY <1>13 DEF ProcessStart, ActualStart, Done, Goto, capture, retry, Thread
    <2>2. active /\ stream = "off" /\ ~timer /\ Busy(e)
      BY <2>1 DEF OffIsEmpty, StartInHand, Holds, PluginOff, Busy, Commands
    <2>3. \A s \in Thread : ~Finishing(s)' /\ pc'[s] # "end"
      <3> SUFFICES ASSUME NEW s \in Thread PROVE pc'[s] \notin {"decide", "end"}
        BY DEF Finishing
      <3>1. CASE s = e
        BY <2>1, <3>1 DEF Typed, TypeOK
      <3>2. CASE s # e
        <4>1. ~Busy(s) /\ pc'[s] = pc[s]
          BY <2>1, <2>2, <3>2 DEF OneCommand, OneBusy, Typed, TypeOK
        <4> QED
          BY <4>1 DEF Busy, Stopping
      <3> QED
        BY <3>1, <3>2
    <2>4. ~delay_capturing
      BY <2>2 DEF CaptureRight, CapturingSends
    <2> QED
      BY <2>1, <2>2, <2>3, <2>4
      DEF CaptureRight, DelayedIsActive, OffIsStill, EndingAlone, StoppedIsOff,
          CapturingSends, ConnectedIsDelayed, TimerWaits
  <1>14. ASSUME NEW e \in Encoder, Encode(e) \/ ProcessPacket(e) \/ ProcessStop(e) \/ PopPacket(e)
         PROVE  CaptureRight'
    <2>1. UNCHANGED <<delay_active, delay_capturing, active, stream, timer>>
      BY <1>14 DEF Encode, ProcessPacket, ProcessStop, PopPacket, capture, retry
    <2>2. PICK p \in {"pop", "join", "handle", "idle"} : pc' = [pc EXCEPT ![e] = p]
      BY <1>14 DEF Encode, ProcessPacket, ProcessStop, PopPacket, Done, BeginStop, Goto
    <2>3. \A s \in Thread : pc'[s] \in {"decide", "end"} => pc'[s] = pc[s]
      BY <2>2 DEF Typed, TypeOK
    <2> QED
      BY <2>1, <2>3, CaptureSame
  <1> QED
    BY <1>1, <1>2, <1>3, <1>4, <1>5, <1>6, <1>7, <1>8, <1>9, <1>10, <1>11, <1>12, <1>13, <1>14
    DEF Next, Plugin, Reconnect, Work, Stopper

\* ---------------------------------------------------- the commands in the queue

StopHeld == \E e \in Encoder : Holds(e, "STOP") \/ Stopping(e)

(* Between two starts there is a stop.                                     *)
StartsApart ==
    \A i, j \in 1 .. Len(delay_data) :
        i < j /\ delay_data[i].msg = "START" /\ delay_data[j].msg = "START"
            => \E k \in 1 .. Len(delay_data) : i < k /\ k < j /\ delay_data[k].msg = "STOP"

(* A start finds the plugin off, or the stop before it is to come.         *)
StartsWait ==
    \A i \in 1 .. Len(delay_data) : delay_data[i].msg = "START" =>
        StopAhead(i) \/ StopHeld \/ PluginOff

(* A stop that was asked for, and not forced, is on its way.               *)
StopAsked == command = "stop" /\ delay_active /\ pc[User] = "idle"
StopLast ==
    \E i \in 1 .. Len(delay_data) :
        /\ delay_data[i].msg = "STOP"
        /\ \A j \in 1 .. Len(delay_data) : delay_data[j].msg = "START" => j < i
StopNow == StopHeld /\ \A j \in 1 .. Len(delay_data) : delay_data[j].msg # "START"
StopWaits == StopAsked => StopLast \/ StopNow

CommandsWait == StartsApart /\ StartsWait /\ StartInHand /\ StopWaits

MsgsSame ==
    /\ Len(delay_data') = Len(delay_data)
    /\ \A i \in 1 .. Len(delay_data) : delay_data'[i].msg = delay_data[i].msg

LEMMA SameCommands ==
    ASSUME CommandsWait, MsgsSame,
           (StopHeld => StopHeld') \/ PluginOff',
           PluginOff => \/ PluginOff'
                        \/ \A i \in 1 .. Len(delay_data) : delay_data[i].msg = "START" => StopAhead(i),
           \A e \in Encoder : Holds(e, "START")' => Holds(e, "START") /\ PluginOff',
           StopAsked' => StopAsked /\ (StopNow => StopHeld')
    PROVE  CommandsWait'
  <1>1. /\ Len(delay_data') = Len(delay_data)
        /\ \A i \in 1 .. Len(delay_data) : delay_data'[i].msg = delay_data[i].msg
    BY DEF MsgsSame
  <1>2. \A i \in 1 .. Len(delay_data) : StopAhead(i)' <=> StopAhead(i)
    BY <1>1 DEF StopAhead
  <1>3. StartsApart'
    BY <1>1 DEF CommandsWait, StartsApart
  <1>4. StartsWait'
    <2> SUFFICES ASSUME NEW i \in 1 .. Len(delay_data), delay_data[i].msg = "START"
                 PROVE  StopAhead(i)' \/ StopHeld' \/ PluginOff'
      BY <1>1 DEF StartsWait
    <2>1. StopAhead(i) \/ StopHeld \/ PluginOff
      BY DEF CommandsWait, StartsWait
    <2> QED
      BY <1>2, <2>1
  <1>5. StartInHand'
    <2> SUFFICES ASSUME NEW e \in Encoder, Holds(e, "START")'
                 PROVE  /\ PluginOff'
                        /\ \A i \in 1 .. Len(delay_data) : delay_data[i].msg = "START" => StopAhead(i)'
      BY <1>1 DEF StartInHand
    <2> QED
      BY <1>2 DEF CommandsWait, StartInHand
  <1>6. StopWaits'
    <2> SUFFICES ASSUME StopAsked' PROVE StopLast' \/ StopNow'
      BY DEF StopWaits
    <2>1. StopLast \/ StopNow
      BY DEF CommandsWait, StopWaits
    <2>2. CASE StopLast
      BY <1>1, <2>2 DEF StopLast
    <2>3. CASE StopNow
      BY <1>1, <2>3 DEF StopNow
    <2> QED
      BY <2>1, <2>2, <2>3
  <1> QED
    BY <1>3, <1>4, <1>5, <1>6 DEF CommandsWait

(* Nobody is busy, so nothing is held.                                     *)
LEMMA NothingHeld ==
    ASSUME \A t \in Thread : ~Busy(t)
    PROVE  ~StopHeld /\ \A e \in Encoder : ~Holds(e, "START") /\ ~Holds(e, "STOP")
  BY DEF Busy, StopHeld, Holds, Commands, Thread

LEMMA StartCommands ==
    ASSUME InTime, Typed, Typed', OffIsEmpty, CaptureRight, CommandsWait, Start
    PROVE  CommandsWait'
  <1>1. /\ QueuePushes("START") /\ Press("start") /\ UNCHANGED <<pc, hand, stream, timer>>
        /\ command = "stop" /\ (active => delay_active)
    BY PushesQueue DEF Start, thread, retry
  <1>2. (\A t \in Thread : ~Busy(t)) /\ pc[User] = "idle" /\ command' = "start"
    BY <1>1, CommandsQuiet
  <1>3. ~StopHeld /\ \A e \in Encoder : ~Holds(e, "START")'
    BY <1>1, <1>2, NothingHeld DEF Holds
  <1>4. PICK n \in Nat : Len(delay_data) = n
    BY QueueTyped
  <1>5. /\ Len(delay_data') = n + 1
        /\ \A i \in 1 .. n : delay_data'[i] = delay_data[i]
        /\ \A i \in 1 .. n + 1 : i \in 1 .. n \/ i = n + 1
        /\ \A i \in 1 .. n : i \in 1 .. n + 1 /\ i < n + 1
    BY <1>1, <1>4 DEF QueuePushes
  <1>6. \/ StopLast
        \/ n = 0 /\ PluginOff'
    <2>1. CASE delay_active
      <3>1. StopAsked
        <4>1. command = "stop" /\ pc[User] = "idle"
          BY <1>1, <1>2
        <4> QED
          BY <2>1, <4>1, Zenon DEF StopAsked
      <3>2. StopLast \/ StopNow
        BY <3>1 DEF CommandsWait, StopWaits
      <3> QED
        BY <1>3, <3>2 DEF StopNow
    <2>2. CASE ~delay_active
      <3>1. ~active
        <4>1. active => delay_active
          BY <1>1, Zenon
        <4> QED
          BY <2>2, <4>1, Zenon
      <3>2. stream = "off" /\ ~timer
        BY <3>1 DEF CaptureRight, OffIsStill
      <3>3. Len(delay_data) = 0
        BY <3>1 DEF OffIsEmpty
      <3> QED
        BY <1>1, <1>4, <3>2, <3>3 DEF PluginOff
    <2> QED
      BY <2>1, <2>2
  <1>7. StartsApart'
    <2> SUFFICES ASSUME NEW i \in 1 .. n + 1, NEW j \in 1 .. n + 1, i < j,
                        delay_data'[i].msg = "START", delay_data'[j].msg = "START"
                 PROVE  \E k \in 1 .. n + 1 : i < k /\ k < j /\ delay_data'[k].msg = "STOP"
      BY <1>5 DEF StartsApart
    <2>1. i \in 1 .. n /\ delay_data[i].msg = "START"
      BY <1>5
    <2>2. CASE j \in 1 .. n
      <3>1. PICK k \in 1 .. n : i < k /\ k < j /\ delay_data[k].msg = "STOP"
        BY <1>4, <1>5, <2>1, <2>2 DEF CommandsWait, StartsApart
      <3> QED
        BY <1>5, <3>1
    <2>3. CASE j = n + 1
      <3>1. PICK k \in 1 .. n : delay_data[k].msg = "STOP" /\ i < k
        BY <1>4, <1>6, <2>1 DEF StopLast
      <3> QED
        BY <1>5, <2>3, <3>1
    <2> QED
      BY <1>5, <2>2, <2>3
  <1>8. StartsWait'
    <2> SUFFICES ASSUME NEW i \in 1 .. n + 1, delay_data'[i].msg = "START"
                 PROVE  StopAhead(i)' \/ StopHeld' \/ PluginOff'
      BY <1>5 DEF StartsWait
    <2>1. CASE i \in 1 .. n
      <3>1. StopAhead(i) \/ PluginOff
        BY <1>3, <1>4, <1>5, <2>1 DEF CommandsWait, StartsWait
      <3>2. StopAhead(i) => StopAhead(i)'
        BY <1>4, <1>5 DEF StopAhead
      <3>3. PluginOff => PluginOff'
        BY <1>1 DEF PluginOff
      <3> QED
        BY <3>1, <3>2, <3>3
    <2>2. CASE i = n + 1
      <3>1. CASE StopLast
        <4>1. PICK k \in 1 .. n : delay_data[k].msg = "STOP"
          BY <1>4, <3>1 DEF StopLast
        <4>2. StopAhead(i)'
          BY <1>5, <2>2, <4>1 DEF StopAhead
        <4> QED
          BY <4>2
      <3> QED
        BY <1>6, <3>1
    <2> QED
      BY <1>5, <2>1, <2>2
  <1>9. StartInHand'
    BY <1>3 DEF StartInHand
  <1>10. StopWaits'
    BY <1>2 DEF StopWaits, StopAsked
  <1> QED
    BY <1>7, <1>8, <1>9, <1>10 DEF CommandsWait

(* An entry pushed that is no START changes nothing for those in the queue. *)
LEMMA PushCommands ==
    ASSUME Typed, Typed', CommandsWait, NEW m, m # "START", QueuePushes(m),
           UNCHANGED <<stream, timer>>, StopHeld => StopHeld',
           \A e \in Encoder : Holds(e, "START")' => Holds(e, "START"),
           StopAsked' => StopAsked \/ m = "STOP"
    PROVE  CommandsWait'
  <1>1. PICK n \in Nat : Len(delay_data) = n
    BY QueueTyped
  <1>2. /\ Len(delay_data') = n + 1
        /\ \A i \in 1 .. n : delay_data'[i] = delay_data[i]
        /\ delay_data'[n + 1].msg = m
        /\ \A i \in 1 .. n + 1 : i \in 1 .. n \/ i = n + 1
        /\ \A i \in 1 .. n : i \in 1 .. n + 1 /\ i < n + 1
        /\ n + 1 \in 1 .. n + 1
    BY <1>1 DEF QueuePushes
  <1>3. \A i \in 1 .. n + 1 : delay_data'[i].msg = "START" =>
           i \in 1 .. n /\ delay_data[i].msg = "START" /\ (StopAhead(i) => StopAhead(i)')
    <2> SUFFICES ASSUME NEW i \in 1 .. n + 1, delay_data'[i].msg = "START"
                 PROVE  i \in 1 .. n /\ delay_data[i].msg = "START" /\ (StopAhead(i) => StopAhead(i)')
      OBVIOUS
    <2>1. i \in 1 .. n /\ delay_data[i].msg = "START"
      BY <1>2
    <2>2. StopAhead(i) => StopAhead(i)'
      BY <1>1, <1>2 DEF StopAhead
    <2> QED
      BY <2>1, <2>2
  <1>4. PluginOff' <=> PluginOff
    BY DEF PluginOff
  <1>5. StartsApart'
    <2> SUFFICES ASSUME NEW i \in 1 .. n + 1, NEW j \in 1 .. n + 1, i < j,
                        delay_data'[i].msg = "START", delay_data'[j].msg = "START"
                 PROVE  \E k \in 1 .. n + 1 : i < k /\ k < j /\ delay_data'[k].msg = "STOP"
      BY <1>2 DEF StartsApart
    <2>1. PICK k \in 1 .. n : i < k /\ k < j /\ delay_data[k].msg = "STOP"
      BY <1>1, <1>3 DEF CommandsWait, StartsApart
    <2> QED
      BY <1>2, <2>1
  <1>6. StartsWait'
    <2> SUFFICES ASSUME NEW i \in 1 .. n + 1, delay_data'[i].msg = "START"
                 PROVE  StopAhead(i)' \/ StopHeld' \/ PluginOff'
      BY <1>2 DEF StartsWait
    <2>1. StopAhead(i) \/ StopHeld \/ PluginOff
      BY <1>1, <1>3 DEF CommandsWait, StartsWait
    <2> QED
      BY <1>3, <1>4, <2>1
  <1>7. StartInHand'
    <2> SUFFICES ASSUME NEW e \in Encoder, Holds(e, "START")'
                 PROVE  /\ PluginOff'
                        /\ \A i \in 1 .. n + 1 : delay_data'[i].msg = "START" => StopAhead(i)'
      BY <1>2 DEF StartInHand
    <2> QED
      BY <1>1, <1>3, <1>4 DEF CommandsWait, StartInHand
  <1>8. StopWaits'
    <2> SUFFICES ASSUME StopAsked' PROVE StopLast' \/ StopNow'
      BY DEF StopWaits
    <2>1. CASE m = "STOP"
      BY <1>2, <1>3, <2>1 DEF StopLast
    <2>2. CASE StopAsked
      <3>1. CASE StopLast
        <4>1. PICK k \in 1 .. n : /\ delay_data[k].msg = "STOP"
                                 /\ \A j \in 1 .. n : delay_data[j].msg = "START" => j < k
          BY <1>1, <3>1 DEF StopLast
        <4>2. /\ k \in 1 .. n + 1 /\ delay_data'[k].msg = "STOP"
              /\ \A j \in 1 .. n + 1 : delay_data'[j].msg = "START" => j < k
          BY <1>2, <1>3, <4>1
        <4> QED
          BY <1>2, <4>2 DEF StopLast
      <3>2. CASE StopNow
        BY <1>1, <1>2, <1>3, <3>2 DEF StopNow
      <3> QED
        BY <2>2, <3>1, <3>2 DEF CommandsWait, StopWaits
    <2> QED
      BY <2>1, <2>2
  <1> QED
    BY <1>5, <1>6, <1>7, <1>8 DEF CommandsWait

(* A command that is due finds no thread busy.                             *)
LEMMA DueAlone ==
    ASSUME Typed, AgesInOrder, OneCommand, NEW e \in Encoder, Takes(e),
           delay_data[1].msg \in Commands
    PROVE  \A t \in Thread : ~Busy(t)
  <1>1. delay_data[1].age > active_delay /\ Len(delay_data) >= 1
    BY PopInTime DEF AgesInOrder
  <1>2. Len(delay_data) \in Nat /\ active_delay \in Nat
    BY QueueTyped DEF AgesInOrder, Clocks, Ages
  <1>3. 1 \in 1 .. Len(delay_data) /\ delay_data[1].age \in Nat
    BY <1>1, <1>2, QueueTyped DEF Ages
  <1>4. ~(delay_data[1].age <= active_delay)
    BY <1>1, <1>2, <1>3
  <1> QED
    BY <1>3, <1>4 DEF OneCommand, NoneDue

LEMMA TakeCommands ==
    ASSUME Typed, Typed', AgesInOrder, OneCommand, CommandsWait, NEW e \in Encoder,
           PopPacket(e), Takes(e)
    PROVE  CommandsWait'
  <1>1. /\ QueueShifts /\ hand'[e] = delay_data[1] /\ pc'[e] = "handle" /\ pc[e] = "pop"
        /\ \A f \in Encoder : f # e => hand'[f] = hand[f] /\ pc'[f] = pc[f]
        /\ pc'[User] = pc[User]
        /\ UNCHANGED <<stream, timer, command, delay_active>>
    BY TakesQueue, PopCases DEF PopUnchanged
  <1>2. PICK n \in Nat : Len(delay_data') = n
    BY QueueTypedNext
  <1>3. /\ Len(delay_data) = n + 1
        /\ \A i \in 1 .. n : /\ i + 1 \in 1 .. n + 1
                             /\ delay_data'[i] = delay_data[i + 1]
    <2>1. n = Len(delay_data) - 1 /\ Len(delay_data) \in Nat
      BY <1>1, <1>2, QueueTyped DEF QueueShifts
    <2> QED
      BY <1>1, <1>2, <2>1 DEF QueueShifts
  <1>4. \A k \in 1 .. n + 1 : k # 1 => k - 1 \in 1 .. n /\ delay_data'[k - 1] = delay_data[k]
    <2> SUFFICES ASSUME NEW k \in 1 .. n + 1, k # 1
                 PROVE  k - 1 \in 1 .. n /\ delay_data'[k - 1] = delay_data[k]
      OBVIOUS
    <2>1. k - 1 \in 1 .. n /\ (k - 1) + 1 = k
      OBVIOUS
    <2>2. delay_data'[k - 1] = delay_data[(k - 1) + 1]
      BY <1>3, <2>1
    <2> QED
      BY <2>1, <2>2
  <1>5. ASSUME NEW i \in 1 .. n, NEW k \in 1 .. n + 1, k # 1, k < i + 1, delay_data[k].msg = "STOP"
        PROVE  StopAhead(i)'
    <2>1. k - 1 \in 1 .. n /\ k - 1 < i /\ delay_data'[k - 1].msg = "STOP"
      BY <1>4, <1>5
    <2> QED
      BY <1>2, <2>1 DEF StopAhead
  <1>6. PluginOff' <=> PluginOff
    BY <1>1 DEF PluginOff
  <1>7. StartsApart'
    <2> SUFFICES ASSUME NEW i \in 1 .. n, NEW j \in 1 .. n, i < j,
                        delay_data'[i].msg = "START", delay_data'[j].msg = "START"
                 PROVE  \E k \in 1 .. n : i < k /\ k < j /\ delay_data'[k].msg = "STOP"
      BY <1>2 DEF StartsApart
    <2>1. /\ i + 1 \in 1 .. n + 1 /\ j + 1 \in 1 .. n + 1 /\ i + 1 < j + 1
          /\ delay_data[i + 1].msg = "START" /\ delay_data[j + 1].msg = "START"
      BY <1>3
    <2>2. PICK k \in 1 .. n + 1 : i + 1 < k /\ k < j + 1 /\ delay_data[k].msg = "STOP"
      BY <1>3, <2>1 DEF CommandsWait, StartsApart
    <2>3. k - 1 \in 1 .. n /\ i < k - 1 /\ k - 1 < j /\ delay_data'[k - 1].msg = "STOP"
      BY <1>4, <2>2
    <2> QED
      BY <2>3
  <1>8. StopAsked' <=> StopAsked
    BY <1>1 DEF StopAsked
  <1>9. ASSUME StopLast, delay_data[1].msg # "STOP" \/ \E i \in 1 .. n : delay_data'[i].msg = "START"
        PROVE  StopLast'
    <2>1. PICK k \in 1 .. n + 1 : /\ delay_data[k].msg = "STOP"
                                 /\ \A j \in 1 .. n + 1 : delay_data[j].msg = "START" => j < k
      BY <1>3, <1>9 DEF StopLast
    <2>2. k # 1
      <3>1. CASE delay_data[1].msg # "STOP"
        BY <2>1, <3>1
      <3>2. CASE \E i \in 1 .. n : delay_data'[i].msg = "START"
        <4>1. PICK i \in 1 .. n : delay_data'[i].msg = "START"
          BY <3>2
        <4>2. i + 1 < k
          BY <1>3, <2>1, <4>1
        <4> QED
          BY <4>2
      <3> QED
        BY <1>9, <3>1, <3>2
    <2>3. k - 1 \in 1 .. n /\ delay_data'[k - 1].msg = "STOP"
      BY <1>4, <2>1, <2>2
    <2>4. \A j \in 1 .. n : delay_data'[j].msg = "START" => j < k - 1
      <3> SUFFICES ASSUME NEW j \in 1 .. n, delay_data'[j].msg = "START" PROVE j < k - 1
        OBVIOUS
      <3>1. j + 1 < k
        BY <1>3, <2>1
      <3> QED
        BY <3>1
    <2> QED
      BY <1>2, <2>3, <2>4 DEF StopLast
  <1>10. CASE delay_data[1].msg \notin Commands
    <2>1. /\ StopHeld' <=> StopHeld
          /\ \A f \in Encoder : Holds(f, "START")' => Holds(f, "START")
      BY <1>1, <1>10 DEF StopHeld, Holds, Stopping, Commands
    <2>2. ASSUME NEW i \in 1 .. n, StopAhead(i + 1)
          PROVE  StopAhead(i)'
      <3>1. PICK k \in 1 .. n + 1 : k < i + 1 /\ delay_data[k].msg = "STOP"
        BY <1>3, <2>2 DEF StopAhead
      <3> QED
        BY <1>5, <1>10, <3>1 DEF Commands
    <2>3. StartsWait'
      <3> SUFFICES ASSUME NEW i \in 1 .. n, delay_data'[i].msg = "START"
                   PROVE  StopAhead(i)' \/ StopHeld' \/ PluginOff'
        BY <1>2 DEF StartsWait
      <3>1. i + 1 \in 1 .. Len(delay_data) /\ delay_data[i + 1].msg = "START"
        BY <1>3
      <3>2. StopAhead(i + 1) \/ StopHeld \/ PluginOff
        BY <3>1 DEF CommandsWait, StartsWait
      <3> QED
        BY <1>6, <2>1, <2>2, <3>2
    <2>4. StartInHand'
      <3> SUFFICES ASSUME NEW f \in Encoder, Holds(f, "START")'
                   PROVE  /\ PluginOff'
                          /\ \A i \in 1 .. n : delay_data'[i].msg = "START" => StopAhead(i)'
        BY <1>2 DEF StartInHand
      <3>1. /\ PluginOff
            /\ \A i \in 1 .. Len(delay_data) : delay_data[i].msg = "START" => StopAhead(i)
        BY <2>1 DEF CommandsWait, StartInHand
      <3>2. \A i \in 1 .. n : delay_data'[i].msg = "START" => StopAhead(i + 1)
        BY <1>3, <3>1
      <3> QED
        BY <1>6, <2>2, <3>1, <3>2
    <2>5. StopWaits'
      <3> SUFFICES ASSUME StopAsked' PROVE StopLast' \/ StopNow'
        BY DEF StopWaits
      <3>1. StopLast \/ StopNow
        BY <1>8 DEF CommandsWait, StopWaits
      <3>2. CASE StopLast
        BY <1>9, <1>10, <3>2 DEF Commands
      <3>3. CASE StopNow
        BY <1>2, <1>3, <2>1, <3>3 DEF StopNow
      <3> QED
        BY <3>1, <3>2, <3>3
    <2> QED
      BY <1>7, <2>3, <2>4, <2>5 DEF CommandsWait
  <1>11. CASE delay_data[1].msg \in Commands
    <2>1. ~StopHeld /\ \A f \in Encoder : ~Holds(f, "START")
      BY <1>11, DueAlone, NothingHeld
    <2>2. \A f \in Encoder : Holds(f, "START")' => f = e
      BY <1>1, <2>1 DEF Holds
    <2>3. CASE delay_data[1].msg = "STOP"
      <3>1. StopHeld' /\ ~Holds(e, "START")'
        BY <1>1, <2>3 DEF StopHeld, Holds
      <3>2. StartsWait' /\ StartInHand'
        BY <2>2, <3>1 DEF StartsWait, StartInHand
      <3>3. StopWaits'
        <4> SUFFICES ASSUME StopAsked' PROVE StopLast' \/ StopNow'
          BY DEF StopWaits
        <4>1. StopLast
          BY <1>8, <2>1 DEF CommandsWait, StopWaits, StopNow
        <4>2. CASE \E i \in 1 .. n : delay_data'[i].msg = "START"
          BY <1>9, <4>1, <4>2
        <4>3. CASE ~\E i \in 1 .. n : delay_data'[i].msg = "START"
          BY <1>2, <3>1, <4>3 DEF StopNow
        <4> QED
          BY <4>2, <4>3
      <3> QED
        BY <1>7, <3>2, <3>3 DEF CommandsWait
    <2>4. CASE delay_data[1].msg = "START"
      <3>1. 1 \in 1 .. n + 1 /\ 1 \in 1 .. Len(delay_data)
        BY <1>3
      <3>2. PluginOff
        <4>1. ~StopAhead(1)
          BY <1>3 DEF StopAhead
        <4> QED
          BY <2>1, <2>4, <3>1, <4>1 DEF CommandsWait, StartsWait
      <3>3. ASSUME NEW i \in 1 .. n, delay_data'[i].msg = "START"
            PROVE  StopAhead(i)'
        <4>1. i + 1 \in 1 .. n + 1 /\ 1 < i + 1 /\ delay_data[i + 1].msg = "START"
          BY <1>3, <3>3
        <4>2. PICK k \in 1 .. n + 1 : 1 < k /\ k < i + 1 /\ delay_data[k].msg = "STOP"
          BY <1>3, <2>4, <3>1, <4>1 DEF CommandsWait, StartsApart
        <4> QED
          BY <1>5, <4>2
      <3>4. StartsWait'
        BY <1>2, <3>3 DEF StartsWait
      <3>5. StartInHand'
        BY <1>2, <1>6, <3>2, <3>3 DEF StartInHand
      <3>6. StopWaits'
        <4> SUFFICES ASSUME StopAsked' PROVE StopLast'
          BY DEF StopWaits
        <4>1. StopLast
          BY <1>8, <2>1 DEF CommandsWait, StopWaits, StopNow
        <4> QED
          BY <1>9, <2>4, <4>1
      <3> QED
        BY <1>7, <3>4, <3>5, <3>6 DEF CommandsWait
    <2> QED
      BY <1>11, <2>3, <2>4 DEF Commands
  <1> QED
    BY <1>10, <1>11

LEMMA EmptyCommands ==
    ASSUME Typed, CaptureRight, delay_data' = <<>>, delay_active' = delay_active,
           stream = "ending" \/ (\E t \in Thread : pc[t] = "end"),
           \A e \in Encoder : pc'[e] # "handle"
    PROVE  CommandsWait'
  <1>1. ~delay_active
    <2>1. CASE stream = "ending"
      BY <2>1, Zenon DEF CaptureRight, EndingAlone
    <2>2. CASE \E t \in Thread : pc[t] = "end"
      BY <2>2 DEF CaptureRight, StoppedIsOff
    <2> QED
      BY <2>1, <2>2
  <1>2. Len(delay_data') = 0
    OBVIOUS
  <1>3. StartsApart' /\ StartsWait'
    BY <1>2 DEF StartsApart, StartsWait
  <1>4. StartInHand'
    BY DEF StartInHand, Holds
  <1>5. ~delay_active'
    BY <1>1
  <1>6. StopWaits'
    BY <1>5, Zenon DEF StopWaits, StopAsked
  <1> QED
    BY <1>3, <1>4, <1>6 DEF CommandsWait

(* A step that changes no command.                                         *)
LEMMA StillCommands ==
    ASSUME CommandsWait,
           UNCHANGED <<delay_data, pc, hand, stream, timer, command, delay_active>>
    PROVE  CommandsWait'
  <1>1. StopHeld' = StopHeld /\ PluginOff' = PluginOff /\ StopAsked' = StopAsked
    BY DEF StopHeld, Holds, Stopping, PluginOff, StopAsked
  <1>2. StopLast' = StopLast /\ StopNow' = StopNow
    BY <1>1 DEF StopLast, StopNow
  <1>3. \A i \in 1 .. Len(delay_data) : StopAhead(i)' = StopAhead(i)
    BY DEF StopAhead
  <1>4. \A e \in Encoder : Holds(e, "START")' = Holds(e, "START")
    BY DEF Holds
  <1>5. StartsApart' /\ StopWaits'
    BY <1>1, <1>2 DEF CommandsWait, StartsApart, StopWaits
  <1>6. StartsWait' /\ StartInHand'
    BY <1>1, <1>3, <1>4 DEF CommandsWait, StartsWait, StartInHand
  <1> QED
    BY <1>5, <1>6 DEF CommandsWait

(* The plugin at work, or its thread to be: no start is being handled.     *)
LEMMA PluginCommands ==
    ASSUME CommandsWait, stream # "off" \/ timer,
           UNCHANGED <<delay_data, pc, hand, command>>, delay_active' => delay_active
    PROVE  CommandsWait'
  <1>1. ~PluginOff
    BY DEF PluginOff
  <1>2. \A e \in Encoder : ~Holds(e, "START") /\ ~Holds(e, "START")'
    BY <1>1 DEF CommandsWait, StartInHand, Holds
  <1>3. StopHeld' <=> StopHeld
    BY DEF StopHeld, Holds, Stopping
  <1>4. StopAsked' => StopAsked
    <2>1. command' = command /\ pc' = pc
      OBVIOUS
    <2> QED
      BY <2>1, Zenon DEF StopAsked
  <1>5. MsgsSame
    BY DEF MsgsSame
  <1>6. StopNow => StopHeld'
    BY <1>3 DEF StopNow
  <1> QED
    BY <1>1, <1>2, <1>3, <1>4, <1>5, <1>6, SameCommands

LEMMA TickCommands ==
    ASSUME InTime, Typed, CommandsWait, Tick
    PROVE  CommandsWait'
  <1>1. /\ \A t \in Thread : pc[t] = "idle"
        /\ UNCHANGED <<pc, stream, timer, command, delay_active>>
    BY DEF InTime, Tick, Calm, capture, retry
  <1>2. /\ ~StopHeld /\ ~StopHeld'
        /\ \A e \in Encoder : ~Holds(e, "START")'
    BY <1>1 DEF StopHeld, Holds, Stopping, Thread
  <1>3. MsgsSame
    BY TickQueue DEF QueueAges, MsgsSame
  <1>4. StopAsked' <=> StopAsked
    BY <1>1 DEF StopAsked
  <1>5. PluginOff' <=> PluginOff
    BY <1>1 DEF PluginOff
  <1>6. ~StopNow
    BY <1>2 DEF StopNow
  <1> QED
    BY <1>2, <1>3, <1>4, <1>5, <1>6, SameCommands

LEMMA StopCommands ==
    ASSUME Typed, Typed', CommandsWait, Stop
    PROVE  CommandsWait'
  <1>1. QueuePushes("STOP") /\ UNCHANGED <<pc, hand, stream, timer>>
    BY PushesQueue DEF Stop, thread, retry
  <1>2. StopHeld' <=> StopHeld
    BY <1>1 DEF StopHeld, Holds, Stopping
  <1>3. \A e \in Encoder : Holds(e, "START")' => Holds(e, "START")
    BY <1>1 DEF Holds
  <1> QED
    BY <1>1, <1>2, <1>3, PushCommands

LEMMA EncodeCommands ==
    ASSUME Typed, Typed', CommandsWait, NEW e \in Encoder, Encode(e)
    PROVE  CommandsWait'
  <1>1. /\ QueuePushes(e) /\ UNCHANGED <<hand, stream, timer, command, delay_active>>
        /\ pc' = [pc EXCEPT ![e] = "pop"] /\ pc[e] = "idle" /\ e # "START"
        /\ e \in Thread /\ e # User
    BY PushesQueue, DelayAssumption DEF Encode, retry, capture, user, Goto, Thread
  <1>2. pc \in [Thread -> {"idle", "pop", "handle", "join", "decide", "end"}]
    BY DEF Typed, TypeOK
  <1>3. pc'[e] = "pop" /\ \A f \in Thread : f # e => pc'[f] = pc[f]
    BY <1>1, <1>2
  <1>4. StopHeld => StopHeld'
    BY <1>1, <1>3 DEF StopHeld, Holds, Stopping, Thread
  <1>5. \A f \in Encoder : Holds(f, "START")' => Holds(f, "START")
    BY <1>1, <1>3 DEF Holds, Thread
  <1>6. StopAsked' <=> StopAsked
    BY <1>1, <1>3 DEF StopAsked, Thread
  <1> QED
    BY <1>1, <1>4, <1>5, <1>6, PushCommands

LEMMA ForceStopCommands ==
    ASSUME InTime, Typed, CommandsWait, ForceStop
    PROVE  CommandsWait'
  <1>1. /\ Press("stop") /\ UNCHANGED <<delay_data, hand, stream, timer>>
        /\ pc' = [pc EXCEPT ![User] = "join"]
    BY DEF ForceStop, delay, BeginStop, Goto
  <1>2. \A t \in Thread : ~Busy(t)
    BY <1>1, CommandsQuiet
  <1>3. pc'[User] = "join" /\ \A e \in Encoder : pc'[e] = pc[e]
    BY <1>1, DelayAssumption DEF Typed, TypeOK, Thread
  <1>4. ~StopHeld /\ \A e \in Encoder : ~Holds(e, "START") /\ ~Holds(e, "START")'
    BY <1>1, <1>2, <1>3, NothingHeld DEF Holds
  <1>5. ~StopAsked'
    BY <1>3 DEF StopAsked
  <1>6. MsgsSame /\ (PluginOff' <=> PluginOff)
    BY <1>1 DEF MsgsSame, PluginOff
  <1> QED
    BY <1>4, <1>5, <1>6, SameCommands

LEMMA JoinCommands ==
    ASSUME Typed, CommandsWait, NEW t \in Thread, JoinThreads(t)
    PROVE  CommandsWait'
  <1>1. /\ UNCHANGED <<delay_data, hand, command, delay_active>>
        /\ pc[t] = "join" /\ pc' = [pc EXCEPT ![t] = "decide"]
        /\ stream' = "off" /\ ~timer'
    BY DEF JoinThreads, delay, user, retry, Goto
  <1>2. pc'[t] = "decide" /\ \A s \in Thread : s # t => pc'[s] = pc[s]
    BY <1>1 DEF Typed, TypeOK
  <1>3. StopHeld => StopHeld'
    <2> SUFFICES ASSUME NEW e \in Encoder, Holds(e, "STOP") \/ Stopping(e) PROVE StopHeld'
      BY DEF StopHeld
    <2>1. Holds(e, "STOP")' \/ Stopping(e)'
      BY <1>1, <1>2 DEF Holds, Stopping, Thread
    <2> QED
      BY <2>1 DEF StopHeld
  <1>4. PluginOff' /\ MsgsSame
    BY <1>1 DEF PluginOff, MsgsSame
  <1>5. \A e \in Encoder : Holds(e, "START")' => Holds(e, "START")
    BY <1>1, <1>2 DEF Holds, Thread
  <1>6. StopAsked' => StopAsked
    BY <1>1, <1>2 DEF StopAsked, Thread
  <1>7. StopNow => StopHeld'
    BY <1>3 DEF StopNow
  <1> QED
    BY <1>3, <1>4, <1>5, <1>6, <1>7, SameCommands

(* A stop keeps the capture for a restart that is still to be handled.     *)
LEMMA DecideCommands ==
    ASSUME Typed, OneCommand, CaptureRight, Counted, CommandsWait, NEW t \in Thread, Decide(t)
    PROVE  CommandsWait'
  <1>1. /\ UNCHANGED <<delay_data, hand, command, stream, timer>> /\ pc[t] = "decide"
        /\ \/ delay_active' = FALSE
           \/ /\ ~(delay_active /\ (t = User \/ ~RestartWaits))
              /\ delay_active' = delay_active /\ pc' = [pc EXCEPT ![t] = Back(t)]
        /\ \E p \in {"end", "idle", "pop"} : pc' = [pc EXCEPT ![t] = p]
    BY DEF Decide, delay, user, retry, Goto, Back
  <1>2. /\ pc'[t] \in {"end", "idle", "pop"}
        /\ \A s \in Thread : s # t => pc'[s] = pc[s]
    BY <1>1 DEF Typed, TypeOK
  <1>3. PluginOff' /\ MsgsSame
    <2>1. stream = "off" /\ ~timer
      BY <1>1, FinishingIsOff DEF Finishing
    <2> QED
      BY <1>1, <2>1 DEF PluginOff, MsgsSame
  <1>4. \A e \in Encoder : Holds(e, "START")' => Holds(e, "START")
    BY <1>1, <1>2 DEF Holds, Thread
  <1>5. ASSUME StopAsked'
        PROVE  StopAsked /\ (StopNow => StopHeld')
    <2>1. command' = "stop" /\ delay_active' /\ pc'[User] = "idle"
      BY <1>5, Zenon DEF StopAsked
    <2>2. delay_active' = delay_active /\ ~(delay_active /\ (t = User \/ ~RestartWaits))
      BY <1>1, <2>1
    <2>3. delay_active
      BY <2>1, <2>2
    <2>4. t # User /\ RestartWaits
      BY <2>2, <2>3, Zenon
    <2>5. pc[User] = "idle"
      BY <1>2, <2>1, <2>4 DEF Thread
    <2>6. command = "stop"
      BY <1>1, <2>1
    <2>7. ~StopNow
      <3> SUFFICES ASSUME StopNow PROVE FALSE
        OBVIOUS
      <3>1. Queued("START") = {}
        BY QueueTyped DEF StopNow, Queued
      <3>2. InHand("START") = {}
        <4> SUFFICES ASSUME NEW e \in Encoder, pc[e] = "handle", hand[e].msg = "START" PROVE FALSE
          BY DEF InHand
        <4>1. Busy(e) /\ Busy(t) /\ e \in Thread
          BY <1>1 DEF Busy, Stopping, Commands, Thread
        <4>2. e = t
          BY <4>1 DEF OneCommand, OneBusy
        <4> QED
          BY <1>1, <4>2
      <3>3. Pending("START") = 0
        BY <3>1, <3>2, PendingZero
      <3>4. delay_restart_refs \in Nat /\ delay_restart_refs > 0 /\ delay_restart_refs <= 0
        BY <2>4, <3>3 DEF RestartWaits, Counted, Typed, TypeOK
      <3> QED
        BY <3>4
    <2>8. StopAsked
      BY <2>3, <2>5, <2>6, Zenon DEF StopAsked
    <2> QED
      BY <2>7, <2>8
  <1> QED
    BY <1>3, <1>4, <1>5, SameCommands

LEMMA ProcessCommands ==
    ASSUME Typed, OneCommand, CommandsWait, NEW e \in Encoder,
           ProcessPacket(e) \/ ProcessStart(e) \/ ProcessStop(e)
    PROVE  CommandsWait'
  <1>1. /\ UNCHANGED <<delay_data, command, delay_active, timer>> /\ pc[e] = "handle"
        /\ hand' = [hand EXCEPT ![e] = Entry("NONE")] /\ e \in Thread /\ e # User
        /\ \/ pc' = [pc EXCEPT ![e] = "pop"] /\ hand[e].msg # "STOP"
           \/ pc' = [pc EXCEPT ![e] = "join"] /\ hand[e].msg = "STOP"
        /\ hand[e].msg # "START" => stream' = stream
    BY DelayAssumption
    DEF ProcessPacket, ProcessStart, ProcessStop, delay, capture, retry, user, Done, BeginStop, Goto, Thread
  <1>2. /\ pc'[e] \in {"pop", "join"} /\ (hand[e].msg = "STOP" => pc'[e] = "join")
        /\ \A f \in Thread : f # e => pc'[f] = pc[f]
        /\ \A f \in Encoder : f # e => hand'[f] = hand[f]
    BY <1>1 DEF Typed, TypeOK
  <1>3. StopHeld => StopHeld'
    <2> SUFFICES ASSUME NEW f \in Encoder, Holds(f, "STOP") \/ Stopping(f) PROVE StopHeld'
      BY DEF StopHeld
    <2>1. CASE f = e
      BY <1>1, <1>2, <2>1 DEF StopHeld, Holds, Stopping
    <2>2. CASE f # e
      BY <1>2, <2>2 DEF StopHeld, Holds, Stopping, Thread
    <2> QED
      BY <2>1, <2>2
  <1>4. \A f \in Encoder : Holds(f, "START")' => f # e /\ Holds(f, "START")
    BY <1>2 DEF Holds, Thread
  <1>5. MsgsSame
    BY <1>1 DEF MsgsSame
  <1>6. StopAsked' => StopAsked
    BY <1>1, <1>2 DEF StopAsked, Thread
  <1>7. CASE hand[e].msg # "START"
    <2>1. PluginOff' <=> PluginOff
      BY <1>1, <1>7 DEF PluginOff
    <2>2. \A f \in Encoder : Holds(f, "START")' => Holds(f, "START") /\ PluginOff'
      BY <1>4, <2>1 DEF CommandsWait, StartInHand
    <2>3. StopNow => StopHeld'
      BY <1>3 DEF StopNow
    <2> QED
      BY <1>3, <1>5, <1>6, <2>1, <2>2, <2>3, SameCommands
  <1>8. CASE hand[e].msg = "START"
    <2>1. Busy(e) /\ Holds(e, "START")
      BY <1>1, <1>8 DEF Busy, Holds, Commands
    <2>2. \A f \in Encoder : Busy(f) => f = e
      BY <2>1 DEF OneCommand, OneBusy, Thread
    <2>3. \A f \in Encoder : ~Holds(f, "START")'
      BY <1>4, <2>2 DEF Busy, Holds, Commands
    <2>4. ~StopHeld
      BY <1>1, <1>8, <2>2 DEF StopHeld, Holds, Stopping, Busy, Commands
    <2>5. ~StopNow
      BY <2>4 DEF StopNow
    <2>6. \A i \in 1 .. Len(delay_data) : delay_data[i].msg = "START" => StopAhead(i)
      BY <2>1 DEF CommandsWait, StartInHand
    <2> QED
      BY <1>5, <1>6, <2>3, <2>4, <2>5, <2>6, SameCommands
  <1> QED
    BY <1>7, <1>8

LEMMA RestCommands ==
    ASSUME Typed, CommandsWait, NEW e \in Encoder, PopPacket(e), Rests(e)
    PROVE  CommandsWait'
  <1>1. /\ UNCHANGED <<delay_data, hand, stream, timer, command, delay_active>>
        /\ pc' = [pc EXCEPT ![e] = "idle"] /\ pc[e] = "pop" /\ e \in Thread /\ e # User
    BY PopCases, DelayAssumption DEF Rests, PopUnchanged, Thread
  <1>2. /\ pc'[e] = "idle" /\ pc'[User] = pc[User]
        /\ \A f \in Thread : f # e => pc'[f] = pc[f]
    BY <1>1 DEF Typed, TypeOK, Thread
  <1>3. StopHeld => StopHeld'
    BY <1>1, <1>2 DEF StopHeld, Holds, Stopping, Thread
  <1>4. \A f \in Encoder : Holds(f, "START")' => Holds(f, "START")
    BY <1>1, <1>2 DEF Holds, Thread
  <1>5. MsgsSame /\ (PluginOff' <=> PluginOff) /\ (StopAsked' <=> StopAsked)
    BY <1>1, <1>2 DEF MsgsSame, PluginOff, StopAsked
  <1>6. \A f \in Encoder : Holds(f, "START") => PluginOff
    BY DEF CommandsWait, StartInHand
  <1>7. StopNow => StopHeld'
    BY <1>3 DEF StopNow
  <1> QED
    BY <1>3, <1>4, <1>5, <1>6, <1>7, SameCommands

LEMMA NextCommandsWait ==
    ASSUME InTime, Typed, Typed', Counted, OffIsEmpty, AgesInOrder, OneCommand, CaptureRight,
           CommandsWait, [Next]_vars
    PROVE  CommandsWait'
  <1>1. CASE UNCHANGED vars \/ TimePasses
    BY <1>1, StillCommands DEF vars, TimePasses, delay, capture, retry, thread, user
  <1>2. CASE Start
    BY <1>2, StartCommands
  <1>3. CASE Stop
    BY <1>3, StopCommands
  <1>4. CASE ForceStop
    BY <1>4, ForceStopCommands
  <1>5. CASE Disconnected \/ Refused
    <2>1. /\ stream # "off" /\ UNCHANGED <<delay_data, pc, hand, command>>
          /\ delay_active' = delay_active \/ delay_active' = FALSE
      BY <1>5 DEF Disconnected, Refused, OutputReconnect, delay, thread, user
    <2> QED
      BY <2>1, PluginCommands
  <1>6. CASE Connected
    <2>1. /\ stream = "connecting" /\ UNCHANGED <<delay_data, pc, hand, command>>
      BY <1>6 DEF Connected, delay, thread, user
    <2>2. delay_active
      BY <2>1, PluginAtWork
    <2> QED
      BY <2>1, <2>2, PluginCommands
  <1>7. CASE PluginEnds
    <2>1. /\ stream = "ending" /\ delay_data' = <<>> /\ delay_active' = delay_active /\ pc' = pc
          /\ \A e \in Encoder : pc[e] = "idle"
      BY <1>7, DelayAssumption DEF PluginEnds, EndDataCapture, CleanupDelay, thread
    <2> QED
      BY <2>1, EmptyCommands
  <1>8. CASE Reconnect
    <2>1. /\ timer /\ UNCHANGED <<delay_data, pc, hand, command>> /\ delay_active' = delay_active
      BY <1>8 DEF Reconnect, Retry, RetryCancelled, delay, capture, thread, user
    <2> QED
      BY <2>1, PluginCommands
  <1>9. CASE Tick
    BY <1>9, TickCommands
  <1>10. ASSUME NEW t \in Thread, EndStop(t)
         PROVE  CommandsWait'
    <2>1. /\ pc[t] = "end" /\ delay_data' = <<>> /\ delay_active' = delay_active
          /\ \A e \in Encoder \ {t} : pc[e] = "idle"
          /\ pc' = [pc EXCEPT ![t] = Back(t)] /\ Back(t) # "handle"
      BY <1>10 DEF EndStop, EndDataCapture, CleanupDelay, Goto, Back
    <2>2. \A e \in Encoder : pc'[e] # "handle"
      BY <2>1 DEF Typed, TypeOK, Thread
    <2> QED
      BY <2>1, <2>2, EmptyCommands
  <1>11. ASSUME NEW e \in Encoder, PopPacket(e)
         PROVE  CommandsWait'
    BY <1>11, PopCases, TakeCommands, RestCommands
  <1> QED
    BY <1>1, <1>2, <1>3, <1>4, <1>5, <1>6, <1>7, <1>8, <1>9, <1>10, <1>11,
       JoinCommands, DecideCommands, EncodeCommands, ProcessCommands
    DEF Next, Plugin, Work, Stopper

\* ---------------------------------------------------------- the delay is consistent

(* The inductive invariant: the commands in the queue decide when a start  *)
(* is handled, and so whether the plugin is off by then; that is what      *)
(* keeps the capture in step with the connection.                          *)
DelayRight ==
    /\ Typed /\ Counted /\ OffIsEmpty /\ AgesInOrder /\ OneCommand
    /\ CaptureRight /\ CommandsWait

LEMMA InitDelayRight == Init => DelayRight
  <1> SUFFICES ASSUME Init PROVE DelayRight
    OBVIOUS
  <1>1. /\ delay_data = <<>> /\ active_delay = 0 /\ delay_restart_refs = 0
        /\ ~delay_active /\ ~delay_capturing /\ ~active /\ ~timer /\ stream = "off"
        /\ pc = [t \in Thread |-> "idle"] /\ since = [e \in Encoder |-> 0] /\ pushed = {}
    BY DEF Init
  <1>2. Typed
    BY InitTyped
  <1>3. Len(delay_data) = 0
    BY <1>1
  <1>4. /\ \A t \in Thread : pc[t] = "idle"
        /\ \A e \in Encoder : pc[e] = "idle" /\ since[e] = 0
    BY <1>1 DEF Thread
  <1>5. Counted
    <2>1. Pending("START") \in Nat
      BY <1>2, PendingFinite
    <2> QED
      BY <1>1, <2>1 DEF Counted
  <1>6. OffIsEmpty
    BY <1>1, <1>4 DEF OffIsEmpty
  <1>7. AgesInOrder
    BY <1>1, <1>3, <1>4, DelayAssumption
    DEF AgesInOrder, Clocks, Sorted, DueNow, Through, Ages
  <1>8. \A t \in Thread : ~Busy(t)
    BY <1>4 DEF Busy, Stopping
  <1>9. OneCommand
    BY <1>3, <1>8 DEF OneCommand, CommandsApart, PressedFresh, OneBusy, NoneDue
  <1>10. CaptureRight
    BY <1>1, <1>4 DEF CaptureRight, DelayedIsActive, OffIsStill, EndingAlone, StoppedIsOff,
                      CapturingSends, ConnectedIsDelayed, TimerWaits, Finishing
  <1>11. ~StopAsked
    BY <1>1, Zenon DEF StopAsked
  <1>12. CommandsWait
    BY <1>3, <1>4, <1>11 DEF CommandsWait, StartsApart, StartsWait, StartInHand, StopWaits, Holds
  <1> QED
    BY <1>2, <1>5, <1>6, <1>7, <1>9, <1>10, <1>12 DEF DelayRight

LEMMA NextDelayRight ==
    ASSUME InTime, DelayRight, [Next]_vars
    PROVE  DelayRight'
  <1>1. /\ Typed /\ Counted /\ OffIsEmpty /\ AgesInOrder /\ OneCommand
        /\ CaptureRight /\ CommandsWait
    BY DEF DelayRight
  <1>2. DelayedIsActive /\ OffIsStill /\ StartInHand
    BY <1>1 DEF CaptureRight, CommandsWait
  <1>3. Typed'
    BY <1>1, NextTyped
  <1>4. Counted' /\ OffIsEmpty'
    BY <1>1, <1>2, <1>3, NextCounted, NextOffIsEmpty
  <1>5. AgesInOrder'
    BY <1>1, <1>2, <1>3, NextAgesInOrder
  <1>6. OneCommand'
    BY <1>1, <1>2, <1>3, <1>5, NextOneCommand
  <1>7. CaptureRight' /\ CommandsWait'
    BY <1>1, <1>2, <1>3, NextCaptureRight, NextCommandsWait
  <1> QED
    BY <1>3, <1>4, <1>5, <1>6, <1>7 DEF DelayRight

LEMMA DelayRightConsistent ==
    ASSUME DelayRight
    PROVE  DelayConsistent
  <1>1. Typed /\ Counted /\ OffIsEmpty /\ CapturingSends
    BY DEF DelayRight, CaptureRight
  <1>2. TypeOK
    BY <1>1 DEF Typed
  <1>3. RestartsCounted
    BY <1>1 DEF RestartsCounted, Counted
  <1>4. CapturingIsSending
    BY <1>1, Zenon DEF CapturingIsSending, CapturingSends
  <1>5. NothingLeft
    BY <1>1, Zenon DEF NothingLeft, OffIsEmpty
  <1> QED
    BY <1>2, <1>3, <1>4, <1>5 DEF DelayConsistent

LEMMA AlwaysDelayRight ==
    ASSUME InTime
    PROVE  Spec => []DelayRight
  <1>1. DelayRight /\ [Next]_vars => DelayRight'
    BY NextDelayRight
  <1> QED
    BY <1>1, InitDelayRight, PTL DEF Spec

(* Restarts are counted, the plugin is handed packets exactly while it is  *)
(* connected, and an output that has ended leaves nothing to the next one, *)
(* also when connections are lost or refused and restarts wait: provided   *)
(* only that no whole tick overtakes a thread and that no command is given *)
(* in the tick in which another one is handled.                            *)
THEOREM DelayConsistentHolds ==
    ASSUME InTime
    PROVE  Spec => []DelayConsistent
  <1>1. DelayRight => DelayConsistent
    BY DelayRightConsistent
  <1> QED
    BY <1>1, AlwaysDelayRight, PTL

\* ------------------------------------------------------------ the restart is kept

(* One command at a time, and none while a connection is made again: a     *)
(* second start waits for the first one, and no connection is lost while a *)
(* restart waits, or the reverse.                                          *)
OneAtATime == Hasty \subseteq {"refusal"}

LEMMA InTimeToo ==
    ASSUME OneAtATime
    PROVE  InTime
  BY DEF OneAtATime, InTime

OneStart ==
    /\ \A i, j \in 1 .. Len(delay_data) :
          delay_data[i].msg = "START" /\ delay_data[j].msg = "START" => i = j
    /\ \A e \in Encoder : Holds(e, "START") =>
          \A i \in 1 .. Len(delay_data) : delay_data[i].msg # "START"

(* A start that waits for a stop is counted.                               *)
RestartIsCounted ==
    \A i \in 1 .. Len(delay_data) :
        delay_data[i].msg = "START" /\ (StopAhead(i) \/ StopHeld) => delay_restart_refs > 0

NoneReconnects ==
    reconnecting =>
        /\ \A i \in 1 .. Len(delay_data) : delay_data[i].msg # "START"
        /\ \A e \in Encoder : ~Holds(e, "START")

(* Once the frontend has started again, the stops before it have its start *)
(* behind them.                                                            *)
StopsOverridden ==
    command = "start" =>
        /\ \A i \in 1 .. Len(delay_data) : delay_data[i].msg = "STOP" =>
              \E j \in 1 .. Len(delay_data) : i < j /\ delay_data[j].msg = "START"
        /\ StopHeld => \E j \in 1 .. Len(delay_data) : delay_data[j].msg = "START"

RestartsWait == OneStart /\ RestartIsCounted /\ NoneReconnects /\ StopsOverridden

LEMMA SameRestarts ==
    ASSUME RestartsWait, MsgsSame, StopHeld' => StopHeld,
           \A e \in Encoder : Holds(e, "START")' => Holds(e, "START"),
           \/ delay_restart_refs' = delay_restart_refs
           \/ \A i \in 1 .. Len(delay_data) : delay_data[i].msg # "START",
           \/ reconnecting' => reconnecting
           \/ /\ \A i \in 1 .. Len(delay_data) : delay_data[i].msg # "START"
              /\ \A e \in Encoder : ~Holds(e, "START"),
           command' = "start" => command = "start"
    PROVE  RestartsWait'
  <1>1. /\ Len(delay_data') = Len(delay_data)
        /\ \A i \in 1 .. Len(delay_data) : delay_data'[i].msg = delay_data[i].msg
    BY DEF MsgsSame
  <1>2. \A i \in 1 .. Len(delay_data) : StopAhead(i)' <=> StopAhead(i)
    BY <1>1 DEF StopAhead
  <1>3. OneStart'
    BY <1>1 DEF RestartsWait, OneStart
  <1>4. RestartIsCounted'
    <2> SUFFICES ASSUME NEW i \in 1 .. Len(delay_data), delay_data[i].msg = "START",
                        StopAhead(i)' \/ StopHeld'
                 PROVE  delay_restart_refs' > 0
      BY <1>1 DEF RestartIsCounted
    <2>1. StopAhead(i) \/ StopHeld
      BY <1>2
    <2>2. delay_restart_refs > 0
      BY <2>1 DEF RestartsWait, RestartIsCounted
    <2>3. delay_restart_refs' = delay_restart_refs
      OBVIOUS
    <2> QED
      BY <2>2, <2>3
  <1>5. NoneReconnects'
    BY <1>1 DEF RestartsWait, NoneReconnects
  <1>6. StopsOverridden'
    BY <1>1 DEF RestartsWait, StopsOverridden
  <1> QED
    BY <1>3, <1>4, <1>5, <1>6 DEF RestartsWait

LEMMA StartRestarts ==
    ASSUME OneAtATime, DelayRight, Typed', Start
    PROVE  RestartsWait'
  <1>1. /\ QueuePushes("START") /\ Press("start") /\ UNCHANGED <<pc, hand, reconnecting>>
        /\ ~reconnecting /\ Pending("START") = 0
        /\ (active => delay_active)
        /\ (delay_active => delay_restart_refs' = delay_restart_refs + 1)
    BY PushesQueue DEF DelayRight, Start, thread, retry, Calm, OneAtATime, CountRestart
  <1>2. Typed /\ OffIsEmpty /\ InTime
    BY InTimeToo DEF DelayRight
  <1>3. \A t \in Thread : ~Busy(t)
    BY <1>1, <1>2, CommandsQuiet
  <1>4. ~StopHeld' /\ \A e \in Encoder : ~Holds(e, "START")'
    <2>1. ~StopHeld /\ \A e \in Encoder : ~Holds(e, "START")
      BY <1>3, NothingHeld
    <2> QED
      BY <1>1, <2>1 DEF StopHeld, Holds, Stopping
  <1>5. PICK n \in Nat : Len(delay_data) = n
    BY <1>2, QueueTyped
  <1>6. /\ Len(delay_data') = n + 1
        /\ \A i \in 1 .. n : delay_data'[i] = delay_data[i]
        /\ delay_data'[n + 1].msg = "START"
        /\ \A i \in 1 .. n + 1 : i \in 1 .. n \/ i = n + 1
        /\ n + 1 \in 1 .. n + 1
    BY <1>1, <1>5 DEF QueuePushes
  <1>7. \A i \in 1 .. n : delay_data[i].msg # "START" /\ i < n + 1
    <2>1. Queued("START") = {}
      BY <1>1, <1>2, PendingZero
    <2> QED
      BY <1>2, <1>5, <2>1, QueueTyped DEF Queued
  <1>8. OneStart'
    BY <1>4, <1>6, <1>7 DEF OneStart
  <1>9. RestartIsCounted'
    <2> SUFFICES ASSUME NEW i \in 1 .. n + 1, delay_data'[i].msg = "START", StopAhead(i)'
                 PROVE  delay_restart_refs' > 0
      BY <1>4, <1>6 DEF RestartIsCounted
    <2>1. PICK j \in 1 .. n + 1 : j < i /\ delay_data'[j].msg = "STOP"
      BY <1>6 DEF StopAhead
    <2>2. n # 0
      BY <1>6, <2>1
    <2>3. delay_active
      <3>1. CASE ~active
        BY <1>2, <1>5, <2>2, <3>1 DEF OffIsEmpty
      <3>2. CASE active
        BY <1>1, <3>2, Zenon
      <3> QED
        BY <3>1, <3>2
    <2>4. delay_restart_refs' = delay_restart_refs + 1 /\ delay_restart_refs \in Nat
      BY <1>1, <1>2, <2>3 DEF Typed, TypeOK
    <2> QED
      BY <2>4
  <1>10. NoneReconnects'
    BY <1>1 DEF NoneReconnects
  <1>11. StopsOverridden'
    BY <1>4, <1>6, <1>7 DEF StopsOverridden
  <1> QED
    BY <1>8, <1>9, <1>10, <1>11 DEF RestartsWait

LEMMA PushRestarts ==
    ASSUME Typed, Typed', RestartsWait, NEW m, m # "START", QueuePushes(m),
           UNCHANGED <<delay_restart_refs, reconnecting>>, StopHeld' => StopHeld,
           \A e \in Encoder : Holds(e, "START")' => Holds(e, "START"),
           command' = "start" => command = "start" /\ m # "STOP"
    PROVE  RestartsWait'
  <1>1. PICK n \in Nat : Len(delay_data) = n
    BY QueueTyped
  <1>2. /\ Len(delay_data') = n + 1
        /\ \A i \in 1 .. n : delay_data'[i] = delay_data[i]
        /\ delay_data'[n + 1].msg = m
        /\ \A i \in 1 .. n + 1 : i \in 1 .. n \/ i = n + 1
        /\ \A i \in 1 .. n : i \in 1 .. n + 1 /\ i < n + 1
    BY <1>1 DEF QueuePushes
  <1>3. \A i \in 1 .. n + 1 : delay_data'[i].msg = "START" =>
           i \in 1 .. n /\ delay_data[i].msg = "START" /\ (StopAhead(i)' => StopAhead(i))
    <2> SUFFICES ASSUME NEW i \in 1 .. n + 1, delay_data'[i].msg = "START"
                 PROVE  i \in 1 .. n /\ delay_data[i].msg = "START" /\ (StopAhead(i)' => StopAhead(i))
      OBVIOUS
    <2>1. i \in 1 .. n /\ delay_data[i].msg = "START"
      BY <1>2
    <2>2. ASSUME StopAhead(i)'
          PROVE  StopAhead(i)
      <3>1. PICK j \in 1 .. n + 1 : j < i /\ delay_data'[j].msg = "STOP"
        BY <1>2, <2>2 DEF StopAhead
      <3>2. j \in 1 .. n
        BY <2>1, <3>1
      <3> QED
        BY <1>1, <1>2, <3>1, <3>2 DEF StopAhead
    <2> QED
      BY <2>1, <2>2
  <1>4. OneStart'
    BY <1>1, <1>2, <1>3 DEF RestartsWait, OneStart
  <1>5. RestartIsCounted'
    <2> SUFFICES ASSUME NEW i \in 1 .. n + 1, delay_data'[i].msg = "START",
                        StopAhead(i)' \/ StopHeld'
                 PROVE  delay_restart_refs > 0
      BY <1>2 DEF RestartIsCounted
    <2>1. i \in 1 .. n /\ delay_data[i].msg = "START" /\ (StopAhead(i) \/ StopHeld)
      BY <1>3
    <2> QED
      BY <1>1, <2>1 DEF RestartsWait, RestartIsCounted
  <1>6. NoneReconnects'
    BY <1>1, <1>2, <1>3 DEF RestartsWait, NoneReconnects
  <1>7. StopsOverridden'
    <2> SUFFICES ASSUME command' = "start"
                 PROVE  /\ \A i \in 1 .. n + 1 : delay_data'[i].msg = "STOP" =>
                              \E j \in 1 .. n + 1 : i < j /\ delay_data'[j].msg = "START"
                        /\ StopHeld' => \E j \in 1 .. n + 1 : delay_data'[j].msg = "START"
      BY <1>2 DEF StopsOverridden
    <2>1. /\ \A i \in 1 .. n : delay_data[i].msg = "STOP" =>
                \E j \in 1 .. n : i < j /\ delay_data[j].msg = "START"
          /\ StopHeld => \E j \in 1 .. n : delay_data[j].msg = "START"
      BY <1>1 DEF RestartsWait, StopsOverridden
    <2>2. ASSUME NEW i \in 1 .. n + 1, delay_data'[i].msg = "STOP"
          PROVE  \E j \in 1 .. n + 1 : i < j /\ delay_data'[j].msg = "START"
      <3>1. i \in 1 .. n
        BY <1>2, <2>2
      <3>2. PICK j \in 1 .. n : i < j /\ delay_data[j].msg = "START"
        BY <1>2, <2>1, <2>2, <3>1
      <3> QED
        BY <1>2, <3>2
    <2>3. StopHeld' => \E j \in 1 .. n + 1 : delay_data'[j].msg = "START"
      BY <1>2, <2>1
    <2> QED
      BY <2>2, <2>3
  <1> QED
    BY <1>4, <1>5, <1>6, <1>7 DEF RestartsWait

LEMMA TakeRestarts ==
    ASSUME Typed, Typed', AgesInOrder, OneCommand, RestartsWait, NEW e \in Encoder,
           PopPacket(e), Takes(e)
    PROVE  RestartsWait'
  <1>1. /\ QueueShifts /\ hand'[e] = delay_data[1] /\ pc'[e] = "handle" /\ pc[e] = "pop"
        /\ \A f \in Encoder : f # e => hand'[f] = hand[f] /\ pc'[f] = pc[f]
        /\ UNCHANGED <<delay_restart_refs, reconnecting, command>>
    BY TakesQueue, PopCases DEF PopUnchanged
  <1>2. PICK n \in Nat : Len(delay_data') = n
    BY QueueTypedNext
  <1>3. /\ Len(delay_data) = n + 1
        /\ \A i \in 1 .. n : /\ i + 1 \in 1 .. n + 1 /\ i + 1 \in Int /\ i + 1 # 1
                             /\ delay_data'[i] = delay_data[i + 1]
        /\ 1 \in 1 .. n + 1
    <2>1. n = Len(delay_data) - 1 /\ Len(delay_data) \in Nat
      BY <1>1, <1>2, QueueTyped DEF QueueShifts
    <2> QED
      BY <1>1, <1>2, <2>1 DEF QueueShifts
  <1>4. \A k \in 1 .. n + 1 : k # 1 => k - 1 \in 1 .. n /\ delay_data'[k - 1] = delay_data[k]
    <2> SUFFICES ASSUME NEW k \in 1 .. n + 1, k # 1
                 PROVE  k - 1 \in 1 .. n /\ delay_data'[k - 1] = delay_data[k]
      OBVIOUS
    <2>1. k - 1 \in 1 .. n /\ (k - 1) + 1 = k
      OBVIOUS
    <2>2. delay_data'[k - 1] = delay_data[(k - 1) + 1]
      BY <1>3, <2>1
    <2> QED
      BY <2>1, <2>2
  <1>5. \A f \in Encoder : Holds(f, "START")' =>
           Holds(f, "START") \/ (f = e /\ delay_data[1].msg = "START")
    BY <1>1 DEF Holds
  <1>6. StopHeld' => StopHeld \/ delay_data[1].msg = "STOP"
    <2> SUFFICES ASSUME NEW f \in Encoder, (Holds(f, "STOP") \/ Stopping(f))'
                 PROVE  StopHeld \/ delay_data[1].msg = "STOP"
      BY DEF StopHeld
    <2>1. CASE f = e
      BY <1>1, <2>1 DEF Holds, Stopping
    <2>2. CASE f # e
      BY <1>1, <2>2 DEF StopHeld, Holds, Stopping
    <2> QED
      BY <2>1, <2>2
  <1>7. OneStart'
    <2>1. ASSUME NEW i \in 1 .. n, NEW j \in 1 .. n,
                 delay_data'[i].msg = "START", delay_data'[j].msg = "START"
          PROVE  i = j
      <3>1. i + 1 = j + 1
        BY <1>3, <2>1 DEF RestartsWait, OneStart
      <3> QED
        BY <3>1
    <2>2. ASSUME NEW f \in Encoder, Holds(f, "START")', NEW i \in 1 .. n
          PROVE  delay_data'[i].msg # "START"
      BY <1>3, <1>5, <2>2 DEF RestartsWait, OneStart
    <2> QED
      BY <1>2, <2>1, <2>2 DEF OneStart
  <1>8. RestartIsCounted'
    <2> SUFFICES ASSUME NEW i \in 1 .. n, delay_data'[i].msg = "START", StopAhead(i)' \/ StopHeld'
                 PROVE  delay_restart_refs > 0
      BY <1>1, <1>2 DEF RestartIsCounted
    <2>1. i + 1 \in 1 .. n + 1 /\ delay_data[i + 1].msg = "START"
      BY <1>3
    <2>2. StopAhead(i + 1) \/ StopHeld
      <3>1. CASE StopAhead(i)'
        <4>1. PICK k \in 1 .. n : k < i /\ delay_data'[k].msg = "STOP"
          BY <1>2, <3>1 DEF StopAhead
        <4>2. k + 1 \in 1 .. n + 1 /\ k + 1 < i + 1 /\ delay_data[k + 1].msg = "STOP"
          BY <1>3, <4>1
        <4> QED
          BY <1>3, <4>2 DEF StopAhead
      <3>2. CASE StopHeld' /\ delay_data[1].msg = "STOP"
        <4>1. 1 < i + 1
          BY <1>3
        <4> QED
          BY <1>3, <3>2, <4>1 DEF StopAhead
      <3> QED
        BY <1>6, <3>1, <3>2
    <2> QED
      BY <1>3, <2>1, <2>2 DEF RestartsWait, RestartIsCounted
  <1>9. NoneReconnects'
    <2> SUFFICES ASSUME reconnecting'
                 PROVE  /\ \A i \in 1 .. n : delay_data'[i].msg # "START"
                        /\ \A f \in Encoder : ~Holds(f, "START")'
      BY <1>2 DEF NoneReconnects
    <2>1. reconnecting
      BY <1>1
    <2>2. /\ \A i \in 1 .. Len(delay_data) : delay_data[i].msg # "START"
          /\ \A f \in Encoder : ~Holds(f, "START")
      BY <2>1 DEF RestartsWait, NoneReconnects
    <2> QED
      BY <1>3, <1>5, <2>2
  <1>10. StopsOverridden'
    <2> SUFFICES ASSUME command' = "start"
                 PROVE  /\ \A i \in 1 .. n : delay_data'[i].msg = "STOP" =>
                              \E j \in 1 .. n : i < j /\ delay_data'[j].msg = "START"
                        /\ StopHeld' => \E j \in 1 .. n : delay_data'[j].msg = "START"
      BY <1>2 DEF StopsOverridden
    <2>1. /\ \A i \in 1 .. n + 1 : delay_data[i].msg = "STOP" =>
                \E j \in 1 .. n + 1 : i < j /\ delay_data[j].msg = "START"
          /\ StopHeld => \E j \in 1 .. n + 1 : delay_data[j].msg = "START"
      BY <1>1, <1>3 DEF RestartsWait, StopsOverridden
    <2>2. ASSUME NEW i \in 1 .. n, delay_data'[i].msg = "STOP"
          PROVE  \E j \in 1 .. n : i < j /\ delay_data'[j].msg = "START"
      <3>1. i + 1 \in 1 .. n + 1 /\ delay_data[i + 1].msg = "STOP"
        BY <1>3, <2>2
      <3>2. PICK k \in 1 .. n + 1 : i + 1 < k /\ delay_data[k].msg = "START"
        BY <2>1, <3>1
      <3>3. k - 1 \in 1 .. n /\ i < k - 1 /\ delay_data'[k - 1].msg = "START"
        BY <1>4, <3>2
      <3> QED
        BY <3>3
    <2>3. ASSUME StopHeld'
          PROVE  \E j \in 1 .. n : delay_data'[j].msg = "START"
      <3>1. PICK k \in 1 .. n + 1 : delay_data[k].msg = "START"
        BY <1>3, <1>6, <2>1, <2>3
      <3>2. k # 1
        <4>1. delay_data[1].msg # "START"
          <5> SUFFICES ASSUME delay_data[1].msg = "START" PROVE FALSE
            OBVIOUS
          <5>1. ~StopHeld
            BY DueAlone, NothingHeld DEF Commands
          <5> QED
            BY <1>6, <2>3, <5>1
        <4> QED
          BY <3>1, <4>1
      <3>3. k - 1 \in 1 .. n /\ delay_data'[k - 1].msg = "START"
        BY <1>4, <3>1, <3>2
      <3> QED
        BY <3>3
    <2> QED
      BY <2>2, <2>3
  <1> QED
    BY <1>7, <1>8, <1>9, <1>10 DEF RestartsWait

LEMMA EmptyRestarts ==
    ASSUME delay_data' = <<>>, \A e \in Encoder : pc'[e] # "handle",
           StopHeld' => command' = "stop"
    PROVE  RestartsWait'
  <1>1. Len(delay_data') = 0
    OBVIOUS
  <1>2. \A e \in Encoder : ~Holds(e, "START")'
    BY DEF Holds
  <1>3. OneStart' /\ RestartIsCounted' /\ NoneReconnects' /\ StopsOverridden'
    BY <1>1, <1>2 DEF OneStart, RestartIsCounted, NoneReconnects, StopsOverridden
  <1> QED
    BY <1>3 DEF RestartsWait

(* The reconnect thread waits only while the output reconnects.            *)
TimerRetries == timer => reconnecting

LEMMA ThreadsStill ==
    ASSUME UNCHANGED <<delay_data, pc, hand>>
    PROVE  /\ MsgsSame /\ (StopHeld' <=> StopHeld)
           /\ \A e \in Encoder : Holds(e, "START")' <=> Holds(e, "START")
  BY DEF MsgsSame, StopHeld, Holds, Stopping

LEMMA NoStart ==
    ASSUME Typed, Pending("START") = 0
    PROVE  /\ \A i \in 1 .. Len(delay_data) : delay_data[i].msg # "START"
           /\ \A e \in Encoder : ~Holds(e, "START")
  <1>1. Queued("START") = {} /\ InHand("START") = {}
    BY PendingZero
  <1>2. DOMAIN delay_data = 1 .. Len(delay_data)
    BY QueueTyped
  <1> QED
    BY <1>1, <1>2 DEF Queued, InHand, Holds

LEMMA PluginRestarts ==
    ASSUME OneAtATime, Typed, RestartsWait, TimerRetries,
           Disconnected \/ Refused \/ Connected \/ Reconnect
    PROVE  RestartsWait'
  <1>1. UNCHANGED <<delay_data, pc, hand, command>>
    <2>1. CASE Disconnected \/ Refused \/ Reconnect
      BY <2>1 DEF Disconnected, Refused, Reconnect, Retry, RetryCancelled, delay, thread, user
    <2>2. CASE Connected
      BY <2>2 DEF Connected, delay, thread, user
    <2> QED
      BY <2>1, <2>2
  <1>2. /\ MsgsSame /\ (StopHeld' => StopHeld)
        /\ \A e \in Encoder : Holds(e, "START")' => Holds(e, "START")
    BY <1>1, ThreadsStill
  <1>3. \/ delay_restart_refs' = delay_restart_refs
        \/ \A i \in 1 .. Len(delay_data) : delay_data[i].msg # "START"
    <2>1. CASE Disconnected \/ Refused \/ RetryCancelled
      BY <2>1 DEF Disconnected, Refused, RetryCancelled, delay
    <2>2. CASE Connected
      BY <2>2 DEF Connected, delay
    <2>3. CASE Retry
      <3>1. reconnecting
        BY <2>3, Zenon DEF Retry, TimerRetries
      <3> QED
        BY <3>1 DEF RestartsWait, NoneReconnects
    <2> QED
      BY <2>1, <2>2, <2>3 DEF Reconnect
  <1>4. \/ reconnecting' => reconnecting
        \/ /\ \A i \in 1 .. Len(delay_data) : delay_data[i].msg # "START"
           /\ \A e \in Encoder : ~Holds(e, "START")
    <2>1. CASE Disconnected
      <3>1. Pending("START") = 0
        BY <2>1 DEF Disconnected, Calm, OneAtATime
      <3> QED
        BY <3>1, NoStart
    <2>2. CASE Refused
      <3>1. ~reconnecting => reconnecting' = reconnecting
        BY <2>2 DEF Refused, retry
      <3> QED
        BY <3>1, Zenon
    <2>3. CASE Connected
      BY <2>3 DEF Connected
    <2>4. CASE Reconnect
      BY <2>4 DEF Reconnect, Retry, RetryCancelled
    <2> QED
      BY <2>1, <2>2, <2>3, <2>4
  <1> QED
    BY <1>1, <1>2, <1>3, <1>4, SameRestarts

LEMMA StopperRestarts ==
    ASSUME Typed, RestartsWait, NEW t \in Thread, Stopper(t)
    PROVE  RestartsWait'
  <1>1. pc \in [Thread -> {"idle", "pop", "handle", "join", "decide", "end"}]
    BY DEF Typed, TypeOK
  <1>2. CASE EndStop(t)
    <2>1. /\ delay_data' = <<>> /\ \A e \in Encoder \ {t} : pc[e] = "idle"
          /\ pc' = [pc EXCEPT ![t] = Back(t)] /\ Back(t) \in {"idle", "pop"}
      BY <1>2 DEF EndStop, EndDataCapture, CleanupDelay, Goto, Back
    <2>2. \A e \in Encoder : pc'[e] \in {"idle", "pop"}
      BY <1>1, <2>1 DEF Thread
    <2>3. ~StopHeld'
      BY <2>2 DEF StopHeld, Holds, Stopping
    <2>4. \A e \in Encoder : pc'[e] # "handle"
      BY <2>2
    <2> QED
      BY <2>1, <2>3, <2>4, EmptyRestarts
  <1>3. CASE JoinThreads(t) \/ Decide(t)
    <2>1. /\ UNCHANGED <<delay_data, delay_restart_refs, hand, command, reconnecting>>
          /\ pc[t] \in {"join", "decide"}
          /\ \E p \in {"decide", "end", "idle", "pop"} : pc' = [pc EXCEPT ![t] = p]
      BY <1>3 DEF JoinThreads, Decide, Goto, Back, delay, retry, user
    <2>2. /\ pc'[t] # "handle" /\ \A s \in Thread : s # t => pc'[s] = pc[s]
      BY <1>1, <2>1
    <2>3. StopHeld' => StopHeld
      <3> SUFFICES ASSUME NEW e \in Encoder, (Holds(e, "STOP") \/ Stopping(e))'
                   PROVE  Holds(e, "STOP") \/ Stopping(e)
        BY DEF StopHeld
      <3>1. CASE e = t
        BY <2>1, <3>1 DEF Stopping
      <3>2. CASE e # t
        BY <2>1, <2>2, <3>2 DEF Holds, Stopping, Thread
      <3> QED
        BY <3>1, <3>2
    <2>4. \A e \in Encoder : Holds(e, "START")' => Holds(e, "START")
      BY <2>1, <2>2 DEF Holds, Thread
    <2>5. MsgsSame
      BY <2>1 DEF MsgsSame
    <2> QED
      BY <2>1, <2>3, <2>4, <2>5, SameRestarts
  <1> QED
    BY <1>2, <1>3 DEF Stopper

LEMMA ProcessRestarts ==
    ASSUME Typed, RestartsWait, NEW e \in Encoder,
           ProcessPacket(e) \/ ProcessStart(e) \/ ProcessStop(e)
    PROVE  RestartsWait'
  <1>1. /\ UNCHANGED <<delay_data, command, reconnecting>> /\ pc[e] = "handle"
        /\ hand' = [hand EXCEPT ![e] = Entry("NONE")] /\ e \in Thread
        /\ \/ pc' = [pc EXCEPT ![e] = "pop"]
           \/ pc' = [pc EXCEPT ![e] = "join"] /\ hand[e].msg = "STOP"
        /\ delay_restart_refs' = delay_restart_refs \/ hand[e].msg = "START"
    BY DEF ProcessPacket, ProcessStart, ProcessStop, delay, retry, user, Done, BeginStop, Goto, Thread
  <1>2. /\ pc'[e] = "pop" \/ (pc'[e] = "join" /\ Holds(e, "STOP"))
        /\ \A f \in Thread : f # e => pc'[f] = pc[f]
        /\ \A f \in Encoder : f # e => hand'[f] = hand[f]
    BY <1>1 DEF Typed, TypeOK, Holds
  <1>3. StopHeld' => StopHeld
    <2> SUFFICES ASSUME NEW f \in Encoder, (Holds(f, "STOP") \/ Stopping(f))'
                 PROVE  StopHeld
      BY DEF StopHeld
    <2>1. CASE f = e
      <3>1. Holds(e, "STOP")
        BY <1>2, <2>1 DEF Holds, Stopping
      <3> QED
        BY <3>1 DEF StopHeld
    <2>2. CASE f # e
      BY <1>2, <2>2 DEF StopHeld, Holds, Stopping, Thread
    <2> QED
      BY <2>1, <2>2
  <1>4. \A f \in Encoder : Holds(f, "START")' => Holds(f, "START")
    BY <1>2 DEF Holds, Thread
  <1>5. MsgsSame
    BY <1>1 DEF MsgsSame
  <1>6. \/ delay_restart_refs' = delay_restart_refs
        \/ \A i \in 1 .. Len(delay_data) : delay_data[i].msg # "START"
    BY <1>1 DEF RestartsWait, OneStart, Holds
  <1> QED
    BY <1>1, <1>3, <1>4, <1>5, <1>6, SameRestarts

LEMMA NextRestartsWait ==
    ASSUME OneAtATime, DelayRight, Typed', RestartsWait, TimerRetries, [Next]_vars
    PROVE  RestartsWait'
  <1>1. /\ Typed /\ AgesInOrder /\ OneCommand /\ InTime
        /\ pc \in [Thread -> {"idle", "pop", "handle", "join", "decide", "end"}]
    BY InTimeToo DEF DelayRight, Typed, TypeOK
  <1>2. CASE UNCHANGED vars \/ TimePasses
    <2>1. UNCHANGED <<delay_data, pc, hand, delay_restart_refs, reconnecting, command>>
      BY <1>2 DEF vars, TimePasses, delay, retry, thread, user
    <2> QED
      BY <2>1, ThreadsStill, SameRestarts
  <1>3. CASE Start
    BY <1>3, StartRestarts
  <1>4. CASE Stop
    <2>1. /\ QueuePushes("STOP") /\ UNCHANGED <<pc, hand, delay_restart_refs, reconnecting>>
          /\ command' = "stop"
      BY <1>1, <1>4, PushesQueue DEF Stop, Press, thread, retry
    <2>2. /\ StopHeld' => StopHeld
          /\ \A e \in Encoder : Holds(e, "START")' => Holds(e, "START")
      BY <2>1 DEF StopHeld, Holds, Stopping
    <2> QED
      BY <1>1, <2>1, <2>2, PushRestarts
  <1>5. CASE ForceStop
    <2>1. /\ UNCHANGED <<delay_data, hand, delay_restart_refs, reconnecting>>
          /\ command' = "stop" /\ pc' = [pc EXCEPT ![User] = "join"]
      BY <1>5 DEF ForceStop, Press, delay, BeginStop, Goto
    <2>2. \A e \in Encoder : pc'[e] = pc[e]
      BY <1>1, <2>1, DelayAssumption DEF Thread
    <2>3. /\ StopHeld' => StopHeld
          /\ \A e \in Encoder : Holds(e, "START")' => Holds(e, "START")
      BY <2>1, <2>2 DEF StopHeld, Holds, Stopping
    <2>4. MsgsSame
      BY <2>1 DEF MsgsSame
    <2> QED
      BY <2>1, <2>3, <2>4, SameRestarts
  <1>6. CASE Disconnected \/ Refused \/ Connected \/ Reconnect
    BY <1>1, <1>6, PluginRestarts
  <1>7. CASE PluginEnds
    <2>1. /\ delay_data' = <<>> /\ pc' = pc /\ \A e \in Encoder : pc[e] = "idle"
      BY <1>7, DelayAssumption DEF PluginEnds, EndDataCapture, CleanupDelay, thread
    <2>2. ~StopHeld' /\ \A e \in Encoder : pc'[e] # "handle"
      BY <2>1 DEF StopHeld, Holds, Stopping
    <2> QED
      BY <2>1, <2>2, EmptyRestarts
  <1>8. CASE Tick
    <2>1. /\ \A t \in Thread : pc[t] = "idle" /\ pc'[t] = "idle"
          /\ UNCHANGED <<delay_restart_refs, reconnecting, command>>
      BY <1>1, <1>8 DEF InTime, Tick, Calm, retry
    <2>2. ~StopHeld' /\ \A e \in Encoder : ~Holds(e, "START")'
      BY <2>1 DEF StopHeld, Holds, Stopping, Thread
    <2>3. MsgsSame
      BY <1>1, <1>8, TickQueue DEF QueueAges, MsgsSame
    <2> QED
      BY <2>1, <2>2, <2>3, SameRestarts
  <1>9. ASSUME NEW e \in Encoder, Encode(e)
        PROVE  RestartsWait'
    <2>1. /\ QueuePushes(e) /\ UNCHANGED <<hand, delay_restart_refs, reconnecting, command>>
          /\ pc' = [pc EXCEPT ![e] = "pop"] /\ e \notin {"START", "STOP"} /\ e \in Thread
      BY <1>1, <1>9, PushesQueue, DelayAssumption DEF Encode, retry, user, Goto, Thread
    <2>2. pc'[e] = "pop" /\ \A f \in Thread : f # e => pc'[f] = pc[f]
      BY <1>1, <2>1
    <2>3. StopHeld' => StopHeld
      BY <2>1, <2>2 DEF StopHeld, Holds, Stopping, Thread
    <2>4. \A f \in Encoder : Holds(f, "START")' => Holds(f, "START")
      BY <2>1, <2>2 DEF Holds, Thread
    <2> QED
      BY <1>1, <2>1, <2>3, <2>4, PushRestarts
  <1>10. ASSUME NEW e \in Encoder, PopPacket(e)
         PROVE  RestartsWait'
    <2>1. CASE Takes(e)
      BY <1>1, <1>10, <2>1, TakeRestarts
    <2>2. CASE Rests(e)
      <3>1. /\ UNCHANGED <<delay_data, hand, delay_restart_refs, reconnecting, command>>
            /\ pc' = [pc EXCEPT ![e] = "idle"] /\ e \in Thread
        BY <1>10, <2>2, PopCases DEF Rests, PopUnchanged, Thread
      <3>2. pc'[e] = "idle" /\ \A f \in Thread : f # e => pc'[f] = pc[f]
        BY <1>1, <3>1
      <3>3. StopHeld' => StopHeld
        BY <3>1, <3>2 DEF StopHeld, Holds, Stopping, Thread
      <3>4. \A f \in Encoder : Holds(f, "START")' => Holds(f, "START")
        BY <3>1, <3>2 DEF Holds, Thread
      <3>5. MsgsSame
        BY <3>1 DEF MsgsSame
      <3> QED
        BY <3>1, <3>3, <3>4, <3>5, SameRestarts
    <2> QED
      BY <1>10, <2>1, <2>2, PopCases
  <1> QED
    BY <1>1, <1>2, <1>3, <1>4, <1>5, <1>6, <1>7, <1>8, <1>9, <1>10, StopperRestarts,
       ProcessRestarts
    DEF Next, Plugin, Work

(* The frontend is told that the output stopped by its own thread, which   *)
(* works on nothing but a forced stop, or by the thread that has found no  *)
(* restart to wait for.                                                    *)
EndsAsked ==
    \A t \in Thread : pc[t] = "end" \/ (t = User /\ Stopping(t)) => command = "stop"

HoldsStop(e) == Holds(e, "STOP") \/ pc[e] \in {"join", "decide"}

(* A stop from the queue finds the delay on, or the plugin's thread ending *)
(* the capture.                                                            *)
HeldIsDelayed ==
    \A e \in Encoder :
        /\ HoldsStop(e) => delay_active \/ stream = "ending"
        /\ pc[e] = "decide" => delay_active

DelayedOrEnding ==
    active => delay_active \/ stream = "ending" \/ \E t \in Thread : pc[t] = "end"

StopsRight ==
    /\ TimerRetries /\ EndsAsked /\ HeldIsDelayed /\ DelayedOrEnding /\ RestartKept

LEMMA SameStops ==
    ASSUME StopsRight, timer' => reconnecting',
           command' = command \/ command' = "stop",
           \A t \in Thread : pc'[t] = "end" <=> pc[t] = "end",
           Stopping(User)' => Stopping(User) \/ command' = "stop",
           \A e \in Encoder : /\ HoldsStop(e)' => HoldsStop(e)
                              /\ pc'[e] = "decide" => pc[e] = "decide",
           UNCHANGED <<active, delay_active>>,
           stream = "ending" => stream' = "ending",
           signal' = "stop" => signal = "stop"
    PROVE  StopsRight'
  <1>1. TimerRetries'
    BY DEF TimerRetries
  <1>2. EndsAsked'
    <2> SUFFICES ASSUME NEW t \in Thread, (pc[t] = "end" \/ (t = User /\ Stopping(t)))'
                 PROVE  command' = "stop"
      BY DEF EndsAsked
    <2>1. pc[t] = "end" \/ (t = User /\ Stopping(t)) \/ command' = "stop"
      OBVIOUS
    <2>2. command = "stop" \/ command' = "stop"
      BY <2>1 DEF StopsRight, EndsAsked
    <2> QED
      BY <2>2
  <1>3. HeldIsDelayed'
    BY DEF StopsRight, HeldIsDelayed
  <1>4. DelayedOrEnding'
    BY DEF StopsRight, DelayedOrEnding
  <1>5. RestartKept'
    BY DEF StopsRight, RestartKept
  <1> QED
    BY <1>1, <1>2, <1>3, <1>4, <1>5 DEF StopsRight

LEMMA StartStops ==
    ASSUME InTime, Typed, StopsRight, Start
    PROVE  StopsRight'
  <1>1. /\ Press("start") /\ UNCHANGED <<timer, reconnecting, pc, hand, stream>>
        /\ signal' = "starting" /\ (active => delay_active)
        /\ delay_active' = TRUE \/ UNCHANGED <<delay_active, active>>
    BY DEF Start, retry, thread, capture, BeginDataCapture
  <1>2. \A t \in Thread : ~Busy(t)
    BY <1>1, CommandsQuiet
  <1>3. \A t \in Thread : pc'[t] \notin {"join", "decide", "end"}
    BY <1>1, <1>2 DEF Busy, Stopping
  <1>4. \A e \in Encoder : ~HoldsStop(e)' /\ pc'[e] # "decide"
    BY <1>1, <1>2, <1>3, NothingHeld DEF HoldsStop, Holds, Thread
  <1>5. TimerRetries' /\ RestartKept'
    BY <1>1 DEF StopsRight, TimerRetries, RestartKept
  <1>6. EndsAsked' /\ HeldIsDelayed'
    BY <1>3, <1>4 DEF EndsAsked, HeldIsDelayed, Stopping
  <1>7. DelayedOrEnding'
    BY <1>1, Zenon DEF DelayedOrEnding
  <1> QED
    BY <1>5, <1>6, <1>7 DEF StopsRight

LEMMA LostStops ==
    ASSUME Typed, CaptureRight, StopsRight, Disconnected \/ Refused
    PROVE  StopsRight'
  <1>1. /\ stream \in {"connecting", "sending"}
        /\ UNCHANGED <<pc, hand, command, active>>
    BY DEF Disconnected, Refused, thread, user
  <1>2. delay_active /\ active /\ ~timer /\ \A t \in Thread : pc[t] \notin {"decide", "end"}
    BY <1>1, PluginAtWork, NoneFinishing
  <1>3. \/ delay_active' = FALSE /\ stream' = "ending" /\ timer' = timer /\ signal' = signal
        \/ /\ timer' = TRUE /\ reconnecting' = TRUE /\ delay_active' = delay_active
           /\ signal' = "reconnect"
    BY DEF Disconnected, Refused, OutputReconnect, retry
  <1>4. TimerRetries'
    BY <1>2, <1>3 DEF TimerRetries
  <1>5. EndsAsked'
    BY <1>1 DEF StopsRight, EndsAsked, Stopping
  <1>6. HeldIsDelayed'
    <2>1. \A e \in Encoder : pc'[e] # "decide"
      BY <1>1, <1>2 DEF Thread
    <2>2. delay_active' \/ stream' = "ending"
      BY <1>2, <1>3
    <2> QED
      BY <2>1, <2>2, Zenon DEF HeldIsDelayed
  <1>7. DelayedOrEnding'
    <2>1. delay_active' \/ stream' = "ending"
      BY <1>2, <1>3
    <2> QED
      BY <2>1, Zenon DEF DelayedOrEnding
  <1>8. RestartKept'
    BY <1>1, <1>3 DEF StopsRight, RestartKept
  <1> QED
    BY <1>4, <1>5, <1>6, <1>7, <1>8 DEF StopsRight

LEMMA TakeStops ==
    ASSUME DelayRight, StopsRight, NEW e \in Encoder, PopPacket(e), Takes(e)
    PROVE  StopsRight'
  <1>1. Typed /\ OffIsEmpty /\ AgesInOrder /\ OneCommand
    BY DEF DelayRight
  <1>2. /\ UNCHANGED <<active, delay_active, stream, signal, timer, reconnecting, command>>
        /\ hand'[e] = delay_data[1] /\ pc'[e] = "handle" /\ pc[e] = "pop"
        /\ \A f \in Encoder : f # e => hand'[f] = hand[f] /\ pc'[f] = pc[f]
        /\ pc'[User] = pc[User] /\ delay_data # <<>>
    BY <1>1, TakesQueue, PopCases DEF PopUnchanged, Takes
  <1>3. \A t \in Thread : t # e => pc'[t] = pc[t]
    BY <1>2 DEF Thread
  <1>4. active
    BY <1>1, <1>2, Zenon DEF OffIsEmpty
  <1>5. TimerRetries' /\ RestartKept'
    BY <1>2 DEF StopsRight, TimerRetries, RestartKept
  <1>6. EndsAsked'
    <2> SUFFICES ASSUME NEW t \in Thread, (pc[t] = "end" \/ (t = User /\ Stopping(t)))'
                 PROVE  command = "stop"
      BY <1>2 DEF EndsAsked
    <2>1. t # e
      BY <1>2, DelayAssumption DEF Stopping
    <2>2. pc[t] = "end" \/ (t = User /\ Stopping(t))
      BY <1>3, <2>1 DEF Stopping
    <2> QED
      BY <2>2 DEF StopsRight, EndsAsked
  <1>7. HeldIsDelayed'
    <2> SUFFICES ASSUME NEW f \in Encoder
                 PROVE  /\ HoldsStop(f)' => delay_active \/ stream = "ending"
                        /\ pc'[f] = "decide" => delay_active
      BY <1>2 DEF HeldIsDelayed
    <2>1. CASE f # e
      <3>1. HoldsStop(f)' <=> HoldsStop(f)
        BY <1>2, <2>1 DEF HoldsStop, Holds
      <3>2. pc'[f] = pc[f]
        BY <1>2, <2>1
      <3> QED
        BY <3>1, <3>2 DEF StopsRight, HeldIsDelayed
    <2>2. CASE f = e
      <3>1. pc'[f] # "decide"
        BY <1>2, <2>2
      <3>2. ASSUME HoldsStop(f)'
            PROVE  delay_active \/ stream = "ending"
        <4>1. delay_data[1].msg \in Commands
          BY <1>2, <2>2, <3>2 DEF HoldsStop, Holds, Commands
        <4>2. \A t \in Thread : pc[t] # "end"
          BY <1>1, <4>1, DueAlone DEF Busy, Stopping
        <4> QED
          BY <1>4, <4>2, Zenon DEF StopsRight, DelayedOrEnding
      <3> QED
        BY <3>1, <3>2
    <2> QED
      BY <2>1, <2>2
  <1>8. DelayedOrEnding'
    <2>1. \A t \in Thread : pc[t] = "end" => pc'[t] = "end"
      BY <1>2, <1>3
    <2> QED
      BY <1>2, <2>1 DEF StopsRight, DelayedOrEnding
  <1> QED
    BY <1>5, <1>6, <1>7, <1>8 DEF StopsRight

LEMMA JoinStops ==
    ASSUME Typed, StopsRight, NEW t \in Thread, JoinThreads(t)
    PROVE  StopsRight'
  <1>1. /\ UNCHANGED <<active, delay_active, signal, timer, reconnecting, command, hand>>
        /\ stream # "ending" /\ pc[t] = "join" /\ pc' = [pc EXCEPT ![t] = "decide"]
    BY DEF JoinThreads, Goto, retry, user
  <1>2. pc'[t] = "decide" /\ \A s \in Thread : s # t => pc'[s] = pc[s]
    BY <1>1 DEF Typed, TypeOK
  <1>3. TimerRetries' /\ RestartKept'
    BY <1>1 DEF StopsRight, TimerRetries, RestartKept
  <1>4. EndsAsked'
    <2> SUFFICES ASSUME NEW s \in Thread, (pc[s] = "end" \/ (s = User /\ Stopping(s)))'
                 PROVE  command = "stop"
      BY <1>1 DEF EndsAsked
    <2>1. pc[s] = "end" \/ (s = User /\ Stopping(s))
      BY <1>1, <1>2 DEF Stopping
    <2> QED
      BY <2>1 DEF StopsRight, EndsAsked
  <1>5. HeldIsDelayed'
    <2> SUFFICES ASSUME NEW e \in Encoder, HoldsStop(e)' \/ pc'[e] = "decide"
                 PROVE  delay_active
      BY <1>1 DEF HeldIsDelayed
    <2>1. HoldsStop(e)
      BY <1>1, <1>2 DEF HoldsStop, Holds, Thread
    <2> QED
      BY <1>1, <2>1 DEF StopsRight, HeldIsDelayed
  <1>6. DelayedOrEnding'
    <2>1. \A s \in Thread : pc[s] = "end" => pc'[s] = "end"
      BY <1>1, <1>2
    <2> QED
      BY <1>1, <2>1 DEF StopsRight, DelayedOrEnding
  <1> QED
    BY <1>3, <1>4, <1>5, <1>6 DEF StopsRight

LEMMA DecideStops ==
    ASSUME Typed, OneCommand, RestartsWait, StopsRight, NEW t \in Thread, Decide(t)
    PROVE  StopsRight'
  <1>1. /\ UNCHANGED <<active, stream, timer, reconnecting, command, hand>> /\ pc[t] = "decide"
        /\ \/ /\ delay_active /\ (t = User \/ ~RestartWaits)
              /\ delay_active' = FALSE /\ pc' = [pc EXCEPT ![t] = "end"] /\ signal' = signal
           \/ /\ delay_active' = delay_active /\ pc' = [pc EXCEPT ![t] = Back(t)]
              /\ signal' = IF t = User \/ ~delay_active THEN "stop" ELSE signal
    BY DEF Decide, Goto, retry, user
  <1>2. /\ Back(t) \in {"idle", "pop"} /\ pc'[t] \in {"end", "idle", "pop"}
        /\ \A s \in Thread : s # t => pc'[s] = pc[s]
    BY <1>1 DEF Typed, TypeOK, Back
  <1>3. \A s \in Thread : s # t => ~Busy(s)
    BY <1>1 DEF OneCommand, OneBusy, Busy, Stopping
  <1>4. TimerRetries'
    BY <1>1 DEF StopsRight, TimerRetries
  <1>5. t \in Encoder => delay_active
    BY <1>1 DEF StopsRight, HeldIsDelayed
  <1>6. t = User => command = "stop"
    BY <1>1 DEF StopsRight, EndsAsked, Stopping
  <1>7. EndsAsked'
    <2> SUFFICES ASSUME NEW s \in Thread, (pc[s] = "end" \/ (s = User /\ Stopping(s)))'
                 PROVE  command = "stop"
      BY <1>1 DEF EndsAsked
    <2>1. CASE s # t
      BY <1>2, <1>3, <2>1 DEF Busy, Stopping
    <2>2. CASE s = t /\ t # User
      <3>1. pc'[t] = "end" /\ t \in Encoder
        BY <2>2 DEF Thread
      <3>2. ~RestartWaits
        BY <1>1, <1>2, <2>2, <3>1 DEF Typed, TypeOK
      <3>3. StopHeld
        BY <1>1, <3>1 DEF StopHeld, Stopping
      <3>4. command # "start"
        <4> SUFFICES ASSUME command = "start" PROVE FALSE
          OBVIOUS
        <4>1. PICK j \in 1 .. Len(delay_data) : delay_data[j].msg = "START"
          BY <3>3 DEF RestartsWait, StopsOverridden
        <4>2. delay_restart_refs > 0
          BY <3>3, <4>1 DEF RestartsWait, RestartIsCounted
        <4> QED
          BY <3>2, <4>2 DEF RestartWaits
      <3> QED
        BY <3>4 DEF Typed
    <2> QED
      BY <1>6, <2>1, <2>2
  <1>8. HeldIsDelayed'
    <2>1. \A e \in Encoder : ~HoldsStop(e)' /\ pc'[e] # "decide"
      <3> SUFFICES ASSUME NEW e \in Encoder PROVE ~HoldsStop(e)' /\ pc'[e] # "decide"
        OBVIOUS
      <3>1. CASE e = t
        BY <1>2, <3>1 DEF HoldsStop, Holds
      <3>2. CASE e # t
        BY <1>1, <1>2, <1>3, <3>2 DEF HoldsStop, Holds, Busy, Stopping, Commands, Thread
      <3> QED
        BY <3>1, <3>2
    <2> QED
      BY <2>1 DEF HeldIsDelayed
  <1>9. DelayedOrEnding'
    <2>1. CASE pc'[t] = "end"
      BY <2>1 DEF DelayedOrEnding
    <2>2. CASE pc'[t] # "end"
      <3>1. delay_active' = delay_active
        BY <1>1, <1>2, <2>2 DEF Typed, TypeOK
      <3>2. \A s \in Thread : pc[s] = "end" => pc'[s] = "end"
        BY <1>1, <1>2
      <3> QED
        BY <1>1, <3>1, <3>2 DEF StopsRight, DelayedOrEnding
    <2> QED
      BY <2>1, <2>2
  <1>10. RestartKept'
    <2>1. CASE t = User
      BY <1>1, <1>6, <2>1 DEF RestartKept
    <2>2. CASE t # User
      <3>1. delay_active
        BY <1>5, <2>2 DEF Thread
      <3>2. signal' = signal
        BY <1>1, <2>2, <3>1
      <3> QED
        BY <1>1, <3>2 DEF StopsRight, RestartKept
    <2> QED
      BY <2>1, <2>2
  <1> QED
    BY <1>4, <1>7, <1>8, <1>9, <1>10 DEF StopsRight

LEMMA EndStops ==
    ASSUME Typed, OneCommand, StopsRight, NEW t \in Thread, EndStop(t)
    PROVE  StopsRight'
  <1>1. /\ UNCHANGED <<timer, reconnecting, command, hand>> /\ pc[t] = "end" /\ active' = FALSE
        /\ pc' = [pc EXCEPT ![t] = Back(t)] /\ \A e \in Encoder \ {t} : pc[e] = "idle"
    BY DEF EndStop, EndDataCapture, Goto, retry, user
  <1>2. /\ pc'[t] \in {"idle", "pop"} /\ \A s \in Thread : s # t => pc'[s] = pc[s]
    BY <1>1 DEF Typed, TypeOK, Back
  <1>3. command = "stop"
    BY <1>1 DEF StopsRight, EndsAsked
  <1>4. TimerRetries' /\ RestartKept' /\ EndsAsked'
    BY <1>1, <1>3 DEF StopsRight, TimerRetries, RestartKept, EndsAsked
  <1>5. \A e \in Encoder : pc'[e] \in {"idle", "pop"}
    BY <1>1, <1>2 DEF Thread
  <1>6. HeldIsDelayed'
    BY <1>5 DEF HeldIsDelayed, HoldsStop, Holds
  <1>7. DelayedOrEnding'
    BY <1>1 DEF DelayedOrEnding
  <1> QED
    BY <1>4, <1>6, <1>7 DEF StopsRight

LEMMA PluginEndsStops ==
    ASSUME StopsRight, PluginEnds
    PROVE  StopsRight'
  <1>1. /\ UNCHANGED <<timer, reconnecting, command, hand, pc>> /\ active' = FALSE
        /\ signal' = "failed" /\ \A e \in Encoder : pc[e] = "idle"
    BY DelayAssumption DEF PluginEnds, EndDataCapture, retry, thread, user
  <1>2. TimerRetries' /\ RestartKept'
    BY <1>1 DEF StopsRight, TimerRetries, RestartKept
  <1>3. EndsAsked'
    BY <1>1 DEF StopsRight, EndsAsked, Stopping
  <1>4. HeldIsDelayed'
    BY <1>1 DEF HeldIsDelayed, HoldsStop, Holds
  <1>5. DelayedOrEnding'
    BY <1>1 DEF DelayedOrEnding
  <1> QED
    BY <1>2, <1>3, <1>4, <1>5 DEF StopsRight

(* An encoder's step that neither takes an entry nor ends a stop.          *)
LEMMA WorkStops ==
    ASSUME Typed, CaptureRight, StopsRight, NEW e \in Encoder,
           Encode(e) \/ (PopPacket(e) /\ Rests(e)) \/ ProcessPacket(e) \/ ProcessStart(e)
             \/ ProcessStop(e)
    PROVE  StopsRight'
  <1>1. /\ UNCHANGED <<active, delay_active, signal, timer, reconnecting, command>>
        /\ pc[e] \notin {"end", "decide"} /\ e \in Thread /\ e # User
        /\ hand' = hand \/ hand' = [hand EXCEPT ![e] = Entry("NONE")]
        /\ \/ \E p \in {"pop", "idle"} : pc' = [pc EXCEPT ![e] = p]
           \/ pc' = [pc EXCEPT ![e] = "join"] /\ Holds(e, "STOP")
    <2>1. CASE Encode(e)
      BY <2>1, DelayAssumption DEF Encode, Goto, Thread, capture, retry, user
    <2>2. CASE PopPacket(e) /\ Rests(e)
      BY <2>2, DelayAssumption, PopCases DEF Rests, PopUnchanged, Thread
    <2>3. CASE ProcessPacket(e)
      BY <2>3, DelayAssumption DEF ProcessPacket, Done, Goto, Thread, capture, retry, user
    <2>4. CASE ProcessStart(e)
      BY <2>4, DelayAssumption DEF ProcessStart, Done, Goto, Thread, capture, retry, user
    <2>5. CASE ProcessStop(e)
      BY <2>5, DelayAssumption
      DEF ProcessStop, BeginStop, Goto, Thread, capture, user, Holds
    <2> QED
      BY <2>1, <2>2, <2>3, <2>4, <2>5
  <1>2. stream = "ending" => stream' = "ending"
    <2> SUFFICES ASSUME stream = "ending" PROVE stream' = "ending"
      OBVIOUS
    <2>1. active /\ ~delay_active
      BY Zenon DEF CaptureRight, EndingAlone
    <2>2. CASE ProcessStart(e)
      BY <2>1, <2>2 DEF ProcessStart, ActualStart
    <2>3. CASE ~ProcessStart(e)
      BY <2>3, PopCases
      DEF Encode, ProcessPacket, ProcessStop, PopUnchanged
    <2> QED
      BY <2>2, <2>3
  <1>3. /\ pc'[e] \in {"pop", "idle"} \/ (pc'[e] = "join" /\ Holds(e, "STOP"))
        /\ \A s \in Thread : s # e => pc'[s] = pc[s]
        /\ \A f \in Encoder : f # e => hand'[f] = hand[f]
    BY <1>1 DEF Typed, TypeOK
  <1>4. \A t \in Thread : pc'[t] = "end" <=> pc[t] = "end"
    BY <1>1, <1>3
  <1>5. Stopping(User)' => Stopping(User)
    BY <1>1, <1>3 DEF Stopping, Thread
  <1>6. ASSUME NEW f \in Encoder
        PROVE  /\ HoldsStop(f)' => HoldsStop(f)
               /\ pc'[f] = "decide" => pc[f] = "decide"
    <2>1. CASE f = e
      BY <1>3, <2>1 DEF HoldsStop, Holds
    <2>2. CASE f # e
      BY <1>3, <2>2 DEF HoldsStop, Holds, Thread
    <2> QED
      BY <2>1, <2>2
  <1>7. timer' => reconnecting'
    BY <1>1 DEF StopsRight, TimerRetries
  <1> QED
    BY <1>1, <1>2, <1>4, <1>5, <1>6, <1>7, SameStops

LEMMA StillStops ==
    ASSUME StopsRight, UNCHANGED <<pc, hand, active, delay_active>>,
           timer' => reconnecting', stream = "ending" => stream' = "ending",
           command' = command \/ command' = "stop", signal' = "stop" => signal = "stop"
    PROVE  StopsRight'
  <1>1. Stopping(User)' <=> Stopping(User)
    BY DEF Stopping
  <1>2. \A e \in Encoder : HoldsStop(e)' <=> HoldsStop(e)
    BY DEF HoldsStop, Holds
  <1> QED
    BY <1>1, <1>2, SameStops

LEMMA NextStopsRight ==
    ASSUME OneAtATime, DelayRight, RestartsWait, StopsRight, [Next]_vars
    PROVE  StopsRight'
  <1>1. Typed /\ CaptureRight /\ OneCommand /\ InTime /\ TimerRetries
    BY InTimeToo DEF DelayRight, StopsRight
  <1>2. CASE UNCHANGED vars \/ TimePasses \/ Stop
    <2>1. /\ UNCHANGED <<pc, hand, active, delay_active, timer, reconnecting, stream>>
          /\ command' = command \/ command' = "stop"
          /\ signal' = signal \/ signal' = "stopping"
      BY <1>2 DEF vars, TimePasses, Stop, Press, capture, retry, thread, user
    <2>2. timer' => reconnecting'
      BY <1>1, <2>1 DEF TimerRetries
    <2> QED
      BY <2>1, <2>2, StillStops
  <1>3. CASE Start
    BY <1>1, <1>3, StartStops
  <1>4. CASE ForceStop
    <2>1. /\ UNCHANGED <<hand, active, delay_active, timer, reconnecting, stream, signal>>
          /\ command' = "stop" /\ pc' = [pc EXCEPT ![User] = "join"] /\ pc[User] = "idle"
      BY <1>4 DEF ForceStop, Press, BeginStop, Goto, capture
    <2>2. pc'[User] = "join" /\ \A t \in Thread : t # User => pc'[t] = pc[t]
      BY <1>1, <2>1 DEF Typed, TypeOK, Thread
    <2>3. \A t \in Thread : pc'[t] = "end" <=> pc[t] = "end"
      BY <2>1, <2>2
    <2>4. \A e \in Encoder : /\ HoldsStop(e)' => HoldsStop(e)
                             /\ pc'[e] = "decide" => pc[e] = "decide"
      BY <2>1, <2>2, DelayAssumption DEF HoldsStop, Holds, Thread
    <2>5. timer' => reconnecting'
      BY <1>1, <2>1 DEF TimerRetries
    <2> QED
      BY <2>1, <2>3, <2>4, <2>5, SameStops
  <1>5. CASE Disconnected \/ Refused
    BY <1>1, <1>5, LostStops
  <1>6. CASE Connected
    <2>1. stream = "connecting" /\ UNCHANGED <<pc, hand, command, timer>>
      BY <1>6 DEF Connected, thread, user
    <2>2. delay_active /\ active /\ ~timer
      BY <1>1, <2>1, PluginAtWork
    <2>3. UNCHANGED <<active, delay_active>>
      <3>1. CASE delay_active = delay_capturing
        BY <1>6, <2>2, <3>1 DEF Connected, capture
      <3>2. CASE delay_active # delay_capturing
        BY <1>6, <2>2, <3>2 DEF Connected
      <3> QED
        BY <3>1, <3>2
    <2>4. signal' \in {signal, "reconnect_success", "start"}
      BY <1>6, <2>2 DEF Connected
    <2>5. timer' => reconnecting'
      BY <2>1, <2>2, Zenon
    <2> QED
      BY <2>1, <2>3, <2>4, <2>5, StillStops
  <1>7. CASE Reconnect
    <2>1. /\ timer /\ timer' = FALSE
          /\ UNCHANGED <<pc, hand, active, delay_active, command, signal>>
      BY <1>7 DEF Reconnect, Retry, RetryCancelled, capture, thread, user
    <2>2. stream = "off"
      BY <1>1, <2>1, Zenon DEF CaptureRight, TimerWaits
    <2> QED
      BY <2>1, <2>2, StillStops
  <1>8. CASE Tick
    <2>1. /\ \A t \in Thread : pc[t] = "idle"
          /\ UNCHANGED <<pc, active, delay_active, timer, reconnecting, stream, signal, command>>
      BY <1>1, <1>8 DEF InTime, Tick, Calm, capture, retry
    <2>2. \A e \in Encoder : ~HoldsStop(e)' /\ pc'[e] # "decide"
      BY <2>1 DEF HoldsStop, Holds, Thread
    <2>3. Stopping(User)' <=> Stopping(User)
      BY <2>1 DEF Stopping
    <2>4. timer' => reconnecting'
      BY <1>1, <2>1 DEF TimerRetries
    <2> QED
      BY <2>1, <2>2, <2>3, <2>4, SameStops
  <1>9. ASSUME NEW e \in Encoder, PopPacket(e)
        PROVE  StopsRight'
    BY <1>1, <1>9, PopCases, TakeStops, WorkStops
  <1> QED
    BY <1>1, <1>2, <1>3, <1>4, <1>5, <1>6, <1>7, <1>8, <1>9, PluginEndsStops, JoinStops,
       DecideStops, EndStops, WorkStops
    DEF Next, Plugin, Work, Stopper

(* No stop that was queued before the frontend started again ends the      *)
(* output that was started: what the frontend was told last agrees with    *)
(* what it asked for last.  For one command at a time, with losses and     *)
(* refusals of the connection.                                             *)
THEOREM RestartKeptHolds ==
    ASSUME OneAtATime
    PROVE  Spec => []RestartKept
  <1> DEFINE Inv == DelayRight /\ RestartsWait /\ StopsRight
  <1>1. Init => Inv
    <2> SUFFICES ASSUME Init PROVE Inv
      OBVIOUS
    <2>1. /\ delay_data = <<>> /\ signal = "none" /\ ~active /\ ~timer /\ ~reconnecting
          /\ pc = [t \in Thread |-> "idle"] /\ command = "stop"
      BY DEF Init
    <2>2. Len(delay_data) = 0 /\ \A t \in Thread : pc[t] = "idle"
      BY <2>1
    <2>3. \A e \in Encoder : pc[e] = "idle"
      BY <2>2 DEF Thread
    <2>4. RestartsWait
      BY <2>1, <2>2, <2>3
      DEF RestartsWait, OneStart, RestartIsCounted, NoneReconnects, StopsOverridden, Holds
    <2>5. TimerRetries /\ DelayedOrEnding
      BY <2>1, Zenon DEF TimerRetries, DelayedOrEnding
    <2>6. EndsAsked /\ HeldIsDelayed /\ RestartKept
      BY <2>1, <2>2, <2>3 DEF EndsAsked, HeldIsDelayed, HoldsStop, Holds, RestartKept
    <2> QED
      BY <2>4, <2>5, <2>6, InitDelayRight DEF StopsRight
  <1>2. Inv /\ [Next]_vars => Inv'
    <2> SUFFICES ASSUME DelayRight, RestartsWait, StopsRight, [Next]_vars
                 PROVE  Inv'
      OBVIOUS
    <2>1. DelayRight'
      BY InTimeToo, NextDelayRight
    <2>2. Typed' /\ TimerRetries
      BY <2>1 DEF DelayRight, StopsRight
    <2> QED
      BY <2>1, <2>2, NextRestartsWait, NextStopsRight
  <1>3. Inv => RestartKept
    BY DEF StopsRight
  <1> QED
    BY <1>1, <1>2, <1>3, PTL DEF Spec

\* ------------------------------------------------ packets are handed on in time

(* While an output reconnects, the reconnect thread waits or the plugin    *)
(* connects, and the delay is on.                                          *)
RetryGoesOn ==
    /\ reconnecting => timer \/ stream = "connecting"
    /\ timer => delay_active

LEMMA PluginRetryGoesOn ==
    ASSUME DelayRight, RetryGoesOn, Disconnected \/ Refused \/ Connected \/ PluginEnds
    PROVE  RetryGoesOn'
  <1>1. CaptureRight /\ Typed
    BY DEF DelayRight
  <1>2. ASSUME stream \in {"connecting", "sending"}, OutputReconnect
        PROVE  RetryGoesOn'
    <2>1. delay_active /\ ~timer
      BY <1>1, <1>2, PluginAtWork
    <2>2. \/ reconnecting' = FALSE /\ timer' = timer
          \/ timer' = TRUE /\ delay_active' = delay_active
      BY <1>2 DEF OutputReconnect
    <2>3. CASE reconnecting' = FALSE /\ timer' = timer
      BY <2>1, <2>3 DEF RetryGoesOn
    <2>4. CASE timer' = TRUE /\ delay_active' = delay_active
      BY <2>1, <2>4 DEF RetryGoesOn
    <2> QED
      BY <2>2, <2>3, <2>4
  <1>3. CASE Disconnected
    <2>1. OutputReconnect /\ stream = "sending"
      BY <1>3 DEF Disconnected
    <2> QED
      BY <1>2, <2>1
  <1>4. CASE Refused
    <2>1. stream = "connecting"
          /\ (OutputReconnect \/ (~reconnecting /\ UNCHANGED <<reconnecting, timer>>))
      BY <1>4 DEF Refused, retry
    <2>2. ~timer
      BY <1>1, <2>1, PluginAtWork
    <2>3. CASE OutputReconnect
      BY <1>2, <2>1, <2>3
    <2>4. CASE ~reconnecting /\ UNCHANGED <<reconnecting, timer>>
      BY <2>2, <2>4 DEF RetryGoesOn
    <2> QED
      BY <2>1, <2>3, <2>4
  <1>5. CASE Connected
    <2>1. stream = "connecting" /\ timer' = timer
      BY <1>5 DEF Connected
    <2>2. delay_active /\ active /\ ~timer
      BY <1>1, <2>1, PluginAtWork
    <2>3. ~delay_capturing
      BY <1>1, <2>1 DEF CaptureRight, CapturingSends
    <2>4. ~(delay_active = delay_capturing /\ active)
      BY <2>2, <2>3, Zenon
    <2>5. reconnecting' = FALSE
      BY <1>5, <2>4 DEF Connected
    <2> QED
      BY <2>1, <2>2, <2>5 DEF RetryGoesOn
  <1>6. CASE PluginEnds
    <2>1. stream = "ending" /\ UNCHANGED <<reconnecting, timer>>
      BY <1>6 DEF PluginEnds, retry
    <2>2. ~timer
      BY <1>1, <2>1 DEF CaptureRight, EndingAlone
    <2> QED
      BY <2>1, <2>2 DEF RetryGoesOn
  <1> QED
    BY <1>3, <1>4, <1>5, <1>6

LEMMA NextRetryGoesOn ==
    ASSUME DelayRight, RetryGoesOn, [Next]_vars
    PROVE  RetryGoesOn'
  <1>1. CaptureRight
    BY DEF DelayRight
  <1>2. ASSUME UNCHANGED <<reconnecting, timer>>,
               stream' = stream \/ stream' = "connecting", delay_active => delay_active'
        PROVE  RetryGoesOn'
    BY <1>2 DEF RetryGoesOn
  <1>3. CASE UNCHANGED vars \/ TimePasses \/ Tick \/ Stop \/ ForceStop
    <2>1. UNCHANGED <<reconnecting, timer, stream, delay_active>>
      BY <1>3 DEF vars, TimePasses, Tick, Stop, ForceStop, capture, retry
    <2> QED
      BY <1>2, <2>1
  <1>4. CASE Start
    <2>1. /\ UNCHANGED <<reconnecting, timer, stream>>
          /\ delay_active' = TRUE \/ delay_active' = delay_active
      BY <1>4 DEF Start, BeginDataCapture, capture, retry
    <2> QED
      BY <1>2, <2>1
  <1>5. CASE Disconnected \/ Refused \/ Connected \/ PluginEnds
    BY <1>5, PluginRetryGoesOn
  <1>6. CASE Retry
    <2>1. /\ timer /\ timer' = FALSE /\ reconnecting' = reconnecting
          /\ stream' = IF delay_active \/ ~active THEN "connecting" ELSE stream
      BY <1>6 DEF Retry, ActualStart
    <2> QED
      BY <2>1 DEF RetryGoesOn
  <1>7. CASE RetryCancelled
    BY <1>7 DEF RetryCancelled, RetryGoesOn
  <1>8. ASSUME NEW t \in Thread, JoinThreads(t)
        PROVE  RetryGoesOn'
    BY <1>8 DEF JoinThreads, RetryGoesOn, retry
  <1>9. ASSUME NEW t \in Thread, Decide(t)
        PROVE  RetryGoesOn'
    <2>1. UNCHANGED <<reconnecting, timer, stream>> /\ ~timer
      BY <1>1, <1>9, FinishingIsOff DEF Decide, Finishing, retry
    <2> QED
      BY <2>1 DEF RetryGoesOn
  <1>10. ASSUME NEW t \in Thread, EndStop(t)
         PROVE  RetryGoesOn'
    <2>1. UNCHANGED <<reconnecting, timer, stream, delay_active>>
      BY <1>10 DEF EndStop, EndDataCapture, retry
    <2> QED
      BY <1>2, <2>1
  <1>11. ASSUME NEW e \in Encoder, Work(e)
         PROVE  RetryGoesOn'
    <2>1. UNCHANGED <<reconnecting, timer, delay_active>>
      BY <1>11 DEF Work, Encode, PopPacket, ProcessPacket, ProcessStart, ProcessStop, capture, retry
    <2>2. stream' = stream \/ stream' = "connecting"
      BY <1>11 DEF Work, Encode, PopPacket, ProcessPacket, ProcessStart, ProcessStop, ActualStart
    <2> QED
      BY <1>2, <2>1, <2>2
  <1> QED
    BY <1>3, <1>4, <1>5, <1>6, <1>7, <1>8, <1>9, <1>10, <1>11
    DEF Next, Plugin, Reconnect, Stopper

(* No thread gets another entry into its hand.                             *)
HandsLess ==
    \A e \in Encoder : pc'[e] = "handle" => pc[e] = "handle" /\ hand'[e] = hand[e]

LEMMA StepHands ==
    ASSUME InTime, Typed, [Next]_vars
    PROVE  HandsLess \/ \E e \in Encoder : PopPacket(e) /\ Takes(e)
  <1>1. pc \in [Thread -> {"idle", "pop", "handle", "join", "decide", "end"}]
    BY DEF Typed, TypeOK
  <1>2. ASSUME UNCHANGED <<pc, hand>>
        PROVE  HandsLess
    BY <1>2 DEF HandsLess
  <1>3. ASSUME NEW t \in Thread, NEW p \in {"idle", "pop", "join", "decide", "end"},
               pc' = [pc EXCEPT ![t] = p], \A e \in Encoder : e # t => hand'[e] = hand[e]
        PROVE  HandsLess
    <2>1. pc'[t] = p /\ \A s \in Thread : s # t => pc'[s] = pc[s]
      BY <1>1, <1>3
    <2> QED
      BY <1>3, <2>1 DEF HandsLess, Thread
  <1>4. CASE UNCHANGED vars \/ TimePasses \/ Start \/ Stop \/ Disconnected \/ Plugin \/ Reconnect
    <2>1. CASE UNCHANGED vars \/ TimePasses \/ Start \/ Stop \/ Disconnected
      BY <1>2, <2>1 DEF vars, TimePasses, Start, Stop, Disconnected, thread
    <2>2. CASE Plugin \/ Reconnect
      BY <1>2, <2>2 DEF Plugin, Reconnect, Connected, Refused, PluginEnds, Retry,
                        RetryCancelled, thread
    <2> QED
      BY <1>4, <2>1, <2>2
  <1>5. CASE ForceStop
    <2>1. pc' = [pc EXCEPT ![User] = "join"] /\ hand' = hand /\ User \in Thread
      BY <1>5 DEF ForceStop, BeginStop, Goto, Thread
    <2> QED
      BY <1>3, <2>1
  <1>6. CASE Tick
    <2>1. pc' = pc /\ \A t \in Thread : pc[t] = "idle"
      BY <1>6 DEF InTime, Tick, Calm
    <2> QED
      BY <2>1 DEF HandsLess, Thread
  <1>7. ASSUME NEW t \in Thread, Stopper(t)
        PROVE  HandsLess
    <2>1. /\ hand' = hand
          /\ \E p \in {"idle", "pop", "decide", "end"} : pc' = [pc EXCEPT ![t] = p]
      BY <1>7 DEF Stopper, JoinThreads, Decide, EndStop, Goto, Back
    <2> QED
      BY <1>3, <2>1
  <1>8. ASSUME NEW e \in Encoder, Encode(e) \/ ProcessPacket(e) \/ ProcessStart(e) \/ ProcessStop(e)
        PROVE  HandsLess
    <2>1. /\ hand' = hand \/ hand' = [hand EXCEPT ![e] = Entry("NONE")]
          /\ \E p \in {"pop", "join"} : pc' = [pc EXCEPT ![e] = p]
      BY <1>8 DEF Encode, ProcessPacket, ProcessStart, ProcessStop, Done, BeginStop, Goto
    <2>2. \A f \in Encoder : f # e => hand'[f] = hand[f]
      BY <2>1 DEF Typed
    <2> QED
      BY <1>3, <2>1, <2>2 DEF Thread
  <1>9. ASSUME NEW e \in Encoder, PopPacket(e)
        PROVE  HandsLess \/ Takes(e)
    <2>1. Takes(e) \/ Rests(e)
      BY <1>9, PopCases
    <2>2. CASE Rests(e)
      BY <1>3, <2>2 DEF Rests, Thread
    <2> QED
      BY <2>1, <2>2
  <1> QED
    BY <1>4, <1>5, <1>6, <1>7, <1>8, <1>9 DEF Next, Work

LEMMA StepSent ==
    ASSUME [Next]_vars
    PROVE  sent' = sent \/ Tick \/ \E e \in Encoder : ProcessPacket(e)
  <1>1. CASE UNCHANGED vars \/ TimePasses \/ Start \/ Stop \/ ForceStop \/ Disconnected
    BY <1>1 DEF vars, TimePasses, Start, Stop, ForceStop, Disconnected
  <1>2. CASE Plugin \/ Reconnect
    BY <1>2 DEF Plugin, Reconnect, Connected, Refused, PluginEnds, Retry, RetryCancelled
  <1>3. ASSUME NEW t \in Thread, Stopper(t)
        PROVE  sent' = sent
    BY <1>3 DEF Stopper, JoinThreads, Decide, EndStop
  <1>4. ASSUME NEW e \in Encoder, Encode(e) \/ ProcessStart(e) \/ ProcessStop(e) \/ PopPacket(e)
        PROVE  sent' = sent
    BY <1>4 DEF Encode, ProcessStart, ProcessStop, PopPacket
  <1> QED
    BY <1>1, <1>2, <1>3, <1>4 DEF Next, Work

(* The plugin has been started and is not yet stopped, or is about to be   *)
(* started.                                                                *)
InUse == stream # "off" \/ timer \/ \E e \in Encoder : Holds(e, "START")

LEMMA StepInUse ==
    ASSUME DelayRight, HandsLess, [Next]_vars
    PROVE  (InUse' => InUse) /\ (active' => active \/ Start)
  <1>1. CaptureRight /\ Typed
    BY DEF DelayRight
  <1>2. \A e \in Encoder : Holds(e, "START")' => Holds(e, "START")
    BY DEF HandsLess, Holds
  <1>3. ASSUME stream' = stream \/ stream' = "off" \/ stream # "off" \/ timer
               \/ \E e \in Encoder : Holds(e, "START"),
               timer' => timer \/ stream # "off"
        PROVE  InUse' => InUse
    BY <1>2, <1>3 DEF InUse
  <1>4. CASE UNCHANGED vars \/ TimePasses \/ Tick \/ Stop \/ ForceStop
    <2>1. UNCHANGED <<stream, timer, active>>
      BY <1>4 DEF vars, TimePasses, Tick, Stop, ForceStop, capture, retry
    <2> QED
      BY <1>3, <2>1
  <1>5. CASE Start
    <2>1. UNCHANGED <<stream, timer>>
      BY <1>5 DEF Start, retry
    <2> QED
      BY <1>3, <1>5, <2>1
  <1>6. CASE Disconnected \/ Refused \/ PluginEnds
    <2>1. stream # "off" /\ (active' => active)
      BY <1>6 DEF Disconnected, Refused, PluginEnds, EndDataCapture
    <2> QED
      BY <1>3, <2>1
  <1>7. CASE Connected
    <2>1. stream = "connecting"
      BY <1>7 DEF Connected
    <2>2. active
      BY <1>1, <2>1, PluginAtWork
    <2> QED
      BY <1>3, <2>1, <2>2
  <1>8. CASE Reconnect
    <2>1. timer /\ active' = active
      BY <1>8 DEF Reconnect, Retry, RetryCancelled, capture
    <2>2. InUse
      BY <2>1 DEF InUse
    <2>3. active' => active
      BY <2>1
    <2> QED
      BY <2>2, <2>3
  <1>9. ASSUME NEW t \in Thread, Stopper(t)
        PROVE  (InUse' => InUse) /\ (active' => active)
    <2>1. (stream' = stream \/ stream' = "off") /\ timer' = timer /\ (active' => active)
      <3>1. CASE JoinThreads(t)
        BY <3>1 DEF JoinThreads, retry
      <3>2. CASE Decide(t)
        BY <3>2 DEF Decide, retry
      <3>3. CASE EndStop(t)
        BY <3>3 DEF EndStop, EndDataCapture, retry
      <3> QED
        BY <1>9, <3>1, <3>2, <3>3 DEF Stopper
    <2> QED
      BY <1>3, <2>1
  <1>10. ASSUME NEW e \in Encoder, Work(e)
         PROVE  (InUse' => InUse) /\ (active' => active)
    <2>1. UNCHANGED <<timer, active>>
      BY <1>10 DEF Work, Encode, PopPacket, ProcessPacket, ProcessStart, ProcessStop, capture, retry
    <2>2. stream' = stream \/ Holds(e, "START")
      BY <1>10 DEF Work, Encode, PopPacket, ProcessPacket, ProcessStart, ProcessStop, Holds
    <2> QED
      BY <1>3, <2>1, <2>2
  <1> QED
    BY <1>4, <1>5, <1>6, <1>7, <1>8, <1>9, <1>10 DEF Next, Plugin

(* The queue reaches back in time: while the output is on, the delay is at *)
(* least the one that was asked for; there is no tick without an entry;    *)
(* and when the plugin is in use, the queue is as old as the delay, so     *)
(* that a reconnect (which takes the age of the oldest entry for the       *)
(* delay) never makes it shorter.                                          *)
WholeDelay == active => active_delay >= Delay

NoGaps ==
    \A i \in 1 .. Len(delay_data) : \A a \in 1 .. delay_data[i].age :
        \E j \in 1 .. Len(delay_data) : delay_data[j].age = a

TickBegun == active /\ pushed # {} => \E i \in 1 .. Len(delay_data) : delay_data[i].age = 0

ReachesBack == InUse => \E i \in 1 .. Len(delay_data) : delay_data[i].age >= active_delay

QueueFull == WholeDelay /\ NoGaps /\ TickBegun /\ ReachesBack

LEMMA PushFull ==
    ASSUME Typed, NoGaps, NEW m, QueuePushes(m)
    PROVE  /\ NoGaps'
           /\ \E i \in 1 .. Len(delay_data') : delay_data'[i].age = 0
           /\ \A i \in 1 .. Len(delay_data) :
                 i \in 1 .. Len(delay_data') /\ delay_data'[i] = delay_data[i]
  <1>1. PICK n \in Nat : Len(delay_data) = n
    BY QueueTyped
  <1>2. /\ Len(delay_data') = n + 1
        /\ \A i \in 1 .. n : i \in 1 .. n + 1 /\ delay_data'[i] = delay_data[i]
        /\ delay_data'[n + 1].age = 0 /\ n + 1 \in 1 .. n + 1
        /\ \A i \in 1 .. n + 1 : i \in 1 .. n \/ i = n + 1
    BY <1>1 DEF QueuePushes
  <1>3. NoGaps'
    <2> SUFFICES ASSUME NEW i \in 1 .. n + 1, NEW a \in 1 .. delay_data'[i].age
                 PROVE  \E j \in 1 .. n + 1 : delay_data'[j].age = a
      BY <1>2 DEF NoGaps
    <2>1. i \in 1 .. n
      <3>1. i # n + 1
        BY <1>2
      <3> QED
        BY <1>2, <3>1
    <2>2. a \in 1 .. delay_data[i].age
      BY <1>2, <2>1
    <2>3. PICK j \in 1 .. n : delay_data[j].age = a
      BY <1>1, <2>1, <2>2 DEF NoGaps
    <2> QED
      BY <1>2, <2>3
  <1> QED
    BY <1>1, <1>2, <1>3

LEMMA TickFull ==
    ASSUME Typed, NoGaps, QueueAges, NEW k \in 1 .. Len(delay_data), delay_data[k].age = 0
    PROVE  NoGaps'
  <1>1. /\ Len(delay_data') = Len(delay_data)
        /\ \A i \in 1 .. Len(delay_data) :
              delay_data'[i].age = delay_data[i].age + 1 /\ delay_data[i].age \in Nat
    BY QueueTyped DEF QueueAges, Ages
  <1> SUFFICES ASSUME NEW i \in 1 .. Len(delay_data), NEW a \in 1 .. delay_data'[i].age
               PROVE  \E j \in 1 .. Len(delay_data) : delay_data'[j].age = a
    BY <1>1 DEF NoGaps
  <1>2. PICK b \in Nat : delay_data[i].age = b /\ a \in 1 .. b + 1
    BY <1>1
  <1>3. CASE a = 1
    BY <1>1, <1>3
  <1>4. CASE a # 1
    <2>1. a - 1 \in 1 .. delay_data[i].age
      BY <1>2, <1>4
    <2>2. PICK j \in 1 .. Len(delay_data) : delay_data[j].age = a - 1
      BY <2>1 DEF NoGaps
    <2>3. delay_data'[j].age = a
      BY <1>1, <1>2, <2>2
    <2> QED
      BY <2>3
  <1> QED
    BY <1>3, <1>4

LEMMA TakeFull ==
    ASSUME Typed, Typed', Sorted, DueNow, Clocks, QueueFull, active, QueueShifts, pushed' = pushed,
           active' = active, active_delay' = active_delay, delay_data[1].age > active_delay
    PROVE  QueueFull'
  <1>1. PICK n \in Nat : Len(delay_data') = n
    BY QueueTypedNext
  <1>2. PICK d \in Nat : active_delay = d /\ d >= 1
    BY DelayAssumption DEF Clocks, Ages, QueueFull, WholeDelay
  <1>3. /\ Len(delay_data) = n + 1 /\ 1 \in 1 .. n + 1
        /\ \A i \in 1 .. n : i + 1 \in 1 .. n + 1 /\ delay_data'[i] = delay_data[i + 1]
        /\ \A j \in 1 .. n + 1 : j = 1 \/ (j - 1 \in 1 .. n /\ delay_data'[j - 1] = delay_data[j])
    <2>1. Len(delay_data) = n + 1
      BY <1>1, QueueTyped DEF QueueShifts
    <2>2. \A i \in 1 .. n : delay_data'[i] = delay_data[i + 1]
      BY <1>1 DEF QueueShifts
    <2>3. \A j \in 1 .. n + 1 : j = 1 \/ (j - 1 \in 1 .. n /\ delay_data'[j - 1] = delay_data[j])
      <3> SUFFICES ASSUME NEW j \in 1 .. n + 1, j # 1
                   PROVE  j - 1 \in 1 .. n /\ delay_data'[j - 1] = delay_data[j]
        OBVIOUS
      <3>1. j - 1 \in 1 .. n /\ (j - 1) + 1 = j
        OBVIOUS
      <3> QED
        BY <2>2, <3>1
    <2> QED
      BY <2>1, <2>2, <2>3
  <1>4. /\ \A i \in 1 .. n + 1 : delay_data[i].age \in Nat /\ delay_data[i].age <= delay_data[1].age
        /\ delay_data[1].age = d + 1
    <2>1. \A i \in 1 .. n + 1 : delay_data[i].age \in Nat
      BY <1>3, QueueTyped DEF Ages
    <2>2. ASSUME NEW i \in 1 .. n + 1
          PROVE  delay_data[i].age <= delay_data[1].age
      <3>1. CASE i = 1
        BY <2>1, <3>1
      <3>2. CASE i # 1
        <4>1. 1 < i
          BY <3>2
        <4> QED
          BY <1>3, <2>1, <4>1 DEF Sorted
      <3> QED
        BY <3>1, <3>2
    <2>3. delay_data[1].age <= d + 1 /\ delay_data[1].age > d
      BY <1>2, <1>3 DEF DueNow
    <2> QED
      BY <1>3, <2>1, <2>2, <2>3
  <1>5. ASSUME NEW a \in 0 .. d, \E j \in 1 .. n + 1 : delay_data[j].age = a
        PROVE  \E j \in 1 .. n : delay_data'[j].age = a
    <2>1. PICK j \in 1 .. n + 1 : delay_data[j].age = a
      BY <1>5
    <2>2. j # 1
      BY <1>4, <2>1
    <2> QED
      BY <1>3, <2>1, <2>2
  <1>6. ASSUME NEW a \in 1 .. d
        PROVE  \E j \in 1 .. n : delay_data'[j].age = a
    <2>1. a \in 1 .. delay_data[1].age
      BY <1>4
    <2>2. \E j \in 1 .. n + 1 : delay_data[j].age = a
      BY <1>3, <2>1 DEF QueueFull, NoGaps
    <2> QED
      BY <1>5, <2>2
  <1>7. NoGaps'
    <2> SUFFICES ASSUME NEW i \in 1 .. n, NEW a \in 1 .. delay_data'[i].age
                 PROVE  \E j \in 1 .. n : delay_data'[j].age = a
      BY <1>1 DEF NoGaps
    <2>1. PICK b \in Nat : delay_data'[i].age = b /\ b <= d + 1 /\ a \in 1 .. b
      BY <1>3, <1>4
    <2>2. a \in 1 .. d \/ a = b
      BY <2>1
    <2> QED
      BY <1>6, <2>1, <2>2
  <1>8. TickBegun'
    <2> SUFFICES ASSUME pushed # {}
                 PROVE  \E i \in 1 .. n : delay_data'[i].age = 0
      BY <1>1 DEF TickBegun
    <2>1. \E i \in 1 .. n + 1 : delay_data[i].age = 0
      BY <1>3 DEF QueueFull, TickBegun
    <2> QED
      BY <1>5, <2>1
  <1>9. ReachesBack'
    <2>1. d \in 1 .. d
      BY <1>2
    <2>2. PICK j \in 1 .. n : delay_data'[j].age = d
      BY <1>6, <2>1
    <2> QED
      BY <1>1, <1>2, <2>2 DEF ReachesBack
  <1>10. WholeDelay'
    BY DEF QueueFull, WholeDelay
  <1> QED
    BY <1>7, <1>8, <1>9, <1>10 DEF QueueFull

(* A thread that finds nothing due, or waits for the reconnect.            *)
LEMMA RestFull ==
    ASSUME Typed, Sorted, Clocks, OffIsEmpty, RetryGoesOn, QueueFull, NEW e \in Encoder, Rests(e),
           PopUnchanged, InUse' => InUse
    PROVE  QueueFull'
  <1>1. UNCHANGED <<delay_data, pushed, active>>
    BY DEF Rests, PopUnchanged
  <1>2. \A i \in 1 .. Len(delay_data) : delay_data[i].age \in Nat
    BY QueueTyped DEF Ages
  <1>3. active_delay \in Nat /\ Delay \in Nat
    BY DelayAssumption DEF Clocks, Ages
  <1>4. NoGaps' /\ TickBegun'
    BY <1>1 DEF QueueFull, NoGaps, TickBegun
  <1>5. CASE active_delay' = active_delay
    BY <1>1, <1>4, <1>5 DEF QueueFull, WholeDelay, ReachesBack
  <1>6. CASE Len(delay_data) >= 1 /\ active_delay' = delay_data[1].age /\ Kept
    <2>1. InUse
      BY <1>6 DEF Kept, RetryGoesOn, InUse
    <2>2. PICK i \in 1 .. Len(delay_data) : delay_data[i].age >= active_delay
      BY <2>1 DEF QueueFull, ReachesBack
    <2>3. 1 \in 1 .. Len(delay_data) /\ delay_data[1].age >= delay_data[i].age
      <3>1. 1 \in 1 .. Len(delay_data)
        BY <1>6, QueueTyped
      <3>2. i = 1 \/ 1 < i
        OBVIOUS
      <3> QED
        BY <1>2, <3>1, <3>2 DEF Sorted
    <2>4. delay_data[1].age >= active_delay
      BY <1>2, <1>3, <2>2, <2>3
    <2>5. WholeDelay'
      BY <1>1, <1>2, <1>3, <1>6, <2>3, <2>4 DEF QueueFull, WholeDelay
    <2>6. ReachesBack'
      BY <1>1, <1>2, <1>6, <2>3 DEF ReachesBack
    <2> QED
      BY <1>4, <2>5, <2>6 DEF QueueFull
  <1> QED
    BY <1>5, <1>6, PopInTime

LEMMA NextQueueFull ==
    ASSUME InTime, DelayRight, DelayRight', RetryGoesOn, QueueFull, [Next]_vars
    PROVE  QueueFull'
  <1>1. /\ Typed /\ Typed' /\ OffIsEmpty /\ OffIsEmpty' /\ Sorted /\ DueNow /\ Clocks /\ Clocks'
        /\ OffIsStill /\ OffIsStill'
    BY DEF DelayRight, AgesInOrder, CaptureRight
  <1>2. /\ active_delay \in Nat /\ active_delay' \in Nat
        /\ \A i \in 1 .. Len(delay_data) : delay_data[i].age \in Nat
    BY <1>1, QueueTyped DEF Clocks, Ages
  <1>3. ASSUME NEW e \in Encoder, PopPacket(e), Takes(e)
        PROVE  QueueFull'
    <2>1. /\ QueueShifts /\ active_delay' = active_delay /\ pushed' = pushed /\ active' = active
          /\ delay_data # <<>>
      BY <1>1, <1>3, TakesQueue, PopCases DEF Takes, PopUnchanged
    <2>2. active
      BY <1>1, <2>1 DEF OffIsEmpty
    <2>3. delay_data[1].age > active_delay
      BY <1>1, <1>3, PopInTime
    <2> QED
      BY <1>1, <2>1, <2>2, <2>3, TakeFull
  <1>4. CASE HandsLess
    <2>1. (InUse' => InUse) /\ (active' => active \/ Start)
      BY <1>4, StepInUse
    <2>2. CASE Start \/ Stop
      <3>1. PICK c \in Commands : QueuePushes(c)
        BY <1>1, <2>2, PushesQueue DEF Start, Stop, Commands
      <3>2. /\ NoGaps'
            /\ \E i \in 1 .. Len(delay_data') : delay_data'[i].age = 0
            /\ \A i \in 1 .. Len(delay_data) :
                 i \in 1 .. Len(delay_data') /\ delay_data'[i] = delay_data[i]
        BY <1>1, <3>1, PushFull DEF QueueFull
      <3>3. \/ UNCHANGED <<active_delay, active>>
            \/ ~active /\ active_delay' = Delay
        BY <2>2 DEF Start, Stop, BeginDataCapture, capture
      <3>4. CASE UNCHANGED <<active_delay, active>>
        BY <2>1, <3>2, <3>4 DEF QueueFull, WholeDelay, TickBegun, ReachesBack
      <3>5. CASE ~active /\ active_delay' = Delay
        <4>1. stream = "off" /\ ~timer /\ \A e \in Encoder : pc[e] # "handle"
          BY <1>1, <3>5, Zenon DEF OffIsStill, OffIsEmpty
        <4>2. ~InUse
          BY <4>1 DEF InUse, Holds
        <4> QED
          BY <2>1, <3>2, <3>5, <4>2, DelayAssumption DEF QueueFull, WholeDelay, TickBegun, ReachesBack
      <3> QED
        BY <3>3, <3>4, <3>5
    <2>3. CASE ~Start /\ (Steady \/ ForceStop)
      <3>1. UNCHANGED <<delay_data, active_delay, pushed>>
        BY <2>3 DEF Steady, ForceStop, delay
      <3> QED
        BY <2>1, <2>3, <3>1 DEF QueueFull, WholeDelay, NoGaps, TickBegun, ReachesBack
    <2>4. CASE Empties
      <3>1. Len(delay_data') = 0 /\ ~active'
        BY <2>4 DEF Empties
      <3>2. stream' = "off" /\ ~timer' /\ \A e \in Encoder : pc'[e] # "handle"
        BY <1>1, <3>1, Zenon DEF OffIsStill, OffIsEmpty
      <3>3. ~InUse'
        BY <3>2 DEF InUse, Holds
      <3> QED
        BY <3>1, <3>3 DEF QueueFull, WholeDelay, NoGaps, TickBegun, ReachesBack
    <2>5. CASE Tick
      <3>1. /\ pushed = Encoder /\ active /\ pushed' = {}
            /\ UNCHANGED <<active_delay, active>>
        BY <2>5 DEF Tick, capture
      <3>2. QueueAges
        BY <1>1, <2>5, TickQueue
      <3>3. PICK k \in 1 .. Len(delay_data) : delay_data[k].age = 0
        BY <3>1, DelayAssumption DEF QueueFull, TickBegun
      <3>4. NoGaps'
        BY <1>1, <3>2, <3>3, TickFull DEF QueueFull
      <3>5. ReachesBack'
        <4> SUFFICES ASSUME InUse
                     PROVE  \E i \in 1 .. Len(delay_data') : delay_data'[i].age >= active_delay
          BY <2>1, <3>1 DEF ReachesBack
        <4>1. PICK i \in 1 .. Len(delay_data) : delay_data[i].age >= active_delay
          BY DEF QueueFull, ReachesBack
        <4>2. i \in 1 .. Len(delay_data') /\ delay_data'[i].age = delay_data[i].age + 1
          BY <3>2 DEF QueueAges
        <4> QED
          BY <1>2, <4>1, <4>2
      <3> QED
        BY <3>1, <3>4, <3>5 DEF QueueFull, WholeDelay, TickBegun
    <2>6. ASSUME NEW e \in Encoder, Pushes(e), ~Start
          PROVE  QueueFull'
      <3>1. QueuePushes(e) /\ active_delay' = active_delay
        BY <2>6 DEF Pushes
      <3>2. /\ NoGaps'
            /\ \E i \in 1 .. Len(delay_data') : delay_data'[i].age = 0
            /\ \A i \in 1 .. Len(delay_data) :
                 i \in 1 .. Len(delay_data') /\ delay_data'[i] = delay_data[i]
        BY <1>1, <3>1, PushFull DEF QueueFull
      <3> QED
        BY <2>1, <2>6, <3>1, <3>2 DEF QueueFull, WholeDelay, TickBegun, ReachesBack
    <2>7. ASSUME NEW e \in Encoder, PopPacket(e)
          PROVE  QueueFull'
      <3>1. PopUnchanged /\ (Takes(e) \/ Rests(e))
        BY <2>7, PopCases
      <3> QED
        BY <1>1, <1>3, <2>1, <2>7, <3>1, RestFull
    <2> QED
      BY <1>1, <2>2, <2>3, <2>4, <2>5, <2>6, <2>7, StepKinds
  <1> QED
    BY <1>1, <1>3, <1>4, StepHands

(* What a thread has in its hand has waited for longer than the delay, and *)
(* is no younger than anything in the queue; what is due there has the     *)
(* same age, and so have the entries in the hands of other threads.        *)
HandsDue ==
    \A e \in Encoder : pc[e] = "handle" =>
        /\ hand[e].age > Delay
        /\ \A i \in 1 .. Len(delay_data) :
              /\ delay_data[i].age <= hand[e].age
              /\ delay_data[i].age > active_delay => delay_data[i].age = hand[e].age

HandsEqual ==
    \A e, f \in Encoder : pc[e] = "handle" /\ pc[f] = "handle" => hand[e].age = hand[f].age

LEMMA HandsStay ==
    ASSUME HandsLess, HandsDue, HandsEqual,
           \A e \in Encoder : pc[e] = "handle" /\ pc'[e] = "handle" =>
               \A i \in 1 .. Len(delay_data') :
                   /\ delay_data'[i].age <= hand[e].age
                   /\ delay_data'[i].age > active_delay' => delay_data'[i].age = hand[e].age
    PROVE  HandsDue' /\ HandsEqual'
  <1>1. HandsEqual'
    BY DEF HandsLess, HandsEqual
  <1>2. HandsDue'
    BY DEF HandsLess, HandsDue
  <1> QED
    BY <1>1, <1>2

LEMMA TakeHands ==
    ASSUME Typed, Typed', AgesInOrder, WholeDelay, OffIsEmpty, HandsDue, HandsEqual,
           NEW e \in Encoder, Takes(e)
    PROVE  HandsDue' /\ HandsEqual'
  <1>1. /\ Sorted /\ DueNow /\ Clocks
        /\ hand' \in [Encoder -> [msg : Messages \cup {"NONE"}, age : Nat]]
    BY DEF AgesInOrder, Typed
  <1>2. /\ QueueShifts /\ hand'[e] = delay_data[1] /\ active_delay' = active_delay
        /\ delay_data # <<>>
        /\ \A f \in Encoder : f # e => hand'[f] = hand[f] /\ pc'[f] = pc[f]
    BY TakesQueue DEF Takes
  <1>3. PICK d \in Nat : active_delay = d
    BY <1>1 DEF Clocks, Ages
  <1>4. d >= Delay
    BY <1>2, <1>3 DEF OffIsEmpty, WholeDelay
  <1>5. PICK n \in Nat : Len(delay_data') = n
    BY QueueTypedNext
  <1>6. Len(delay_data) = n + 1
    BY <1>2, <1>5, QueueTyped DEF QueueShifts
  <1>7. 1 \in 1 .. n + 1 /\ delay_data[1].age = d + 1
    <2>1. delay_data[1].age > d
      BY <1>1, <1>3, PopInTime
    <2>2. delay_data[1].age <= d + 1 /\ delay_data[1].age \in Nat
      BY <1>1, <1>3, <1>6, QueueTyped DEF DueNow, Ages
    <2> QED
      BY <2>1, <2>2
  <1>8. ASSUME NEW i \in 1 .. n
        PROVE  /\ i + 1 \in 1 .. n + 1 /\ delay_data'[i].age = delay_data[i + 1].age
               /\ delay_data[i + 1].age \in Nat /\ delay_data[i + 1].age <= d + 1
    <2>1. i + 1 \in 1 .. n + 1 /\ delay_data'[i] = delay_data[i + 1]
      BY <1>2, <1>5 DEF QueueShifts
    <2>2. delay_data[i + 1].age \in Nat
      BY <1>6, <2>1, QueueTyped DEF Ages
    <2>3. delay_data[i + 1].age <= d + 1
      BY <1>1, <1>3, <1>6, <2>1 DEF DueNow
    <2> QED
      BY <2>1, <2>2, <2>3
  <1>9. ASSUME NEW f \in Encoder, f # e, pc'[f] = "handle"
        PROVE  pc[f] = "handle" /\ hand'[f] = hand[f] /\ hand[f].age = d + 1
    <2>1. pc[f] = "handle" /\ hand'[f] = hand[f]
      BY <1>2, <1>9
    <2>2. delay_data[1].age > active_delay
      BY <1>3, <1>7
    <2>3. delay_data[1].age = hand[f].age
      BY <1>6, <1>7, <2>1, <2>2 DEF HandsDue
    <2> QED
      BY <1>7, <2>1, <2>3
  <1>10. \A f \in Encoder : pc'[f] = "handle" => hand'[f].age = d + 1
    BY <1>2, <1>7, <1>9
  <1>11. HandsDue'
    <2> SUFFICES ASSUME NEW f \in Encoder, pc'[f] = "handle"
                 PROVE  /\ d + 1 > Delay
                        /\ \A i \in 1 .. n : /\ delay_data'[i].age <= d + 1
                                             /\ delay_data'[i].age > d => delay_data'[i].age = d + 1
      BY <1>2, <1>3, <1>5, <1>10 DEF HandsDue
    <2>1. d + 1 > Delay
      BY <1>4, DelayAssumption
    <2>2. ASSUME NEW i \in 1 .. n
          PROVE  /\ delay_data'[i].age <= d + 1
                 /\ delay_data'[i].age > d => delay_data'[i].age = d + 1
      BY <1>8
    <2> QED
      BY <2>1, <2>2
  <1>12. HandsEqual'
    BY <1>10 DEF HandsEqual
  <1> QED
    BY <1>11, <1>12

LEMMA NextHands ==
    ASSUME InTime, DelayRight, DelayRight', QueueFull, HandsDue, HandsEqual, [Next]_vars
    PROVE  HandsDue' /\ HandsEqual'
  <1>1. /\ Typed /\ Typed' /\ OffIsEmpty /\ AgesInOrder /\ Sorted /\ DueNow /\ Clocks /\ OffIsStill
        /\ WholeDelay
    BY DEF DelayRight, AgesInOrder, CaptureRight, QueueFull
  <1>2. /\ active_delay \in Nat
        /\ \A i \in 1 .. Len(delay_data) : delay_data[i].age \in Nat
        /\ \A e \in Encoder : hand[e].age \in Nat
    BY <1>1, QueueTyped DEF Clocks, Ages, Typed
  <1>3. CASE \E e \in Encoder : PopPacket(e) /\ Takes(e)
    BY <1>1, <1>3, TakeHands
  <1>4. CASE HandsLess
    <2>1. ASSUME NEW m, QueuePushes(m), active_delay' = active_delay
          PROVE  HandsDue' /\ HandsEqual'
      <3>1. PICK n \in Nat : Len(delay_data) = n
        BY <1>1, QueueTyped
      <3>2. \A i \in 1 .. Len(delay_data') : i \in 1 .. n \/ i = n + 1
        BY <2>1, <3>1 DEF QueuePushes
      <3>3. \A i \in 1 .. n : delay_data'[i] = delay_data[i]
        BY <2>1, <3>1 DEF QueuePushes
      <3>4. delay_data'[n + 1].age = 0
        BY <2>1, <3>1 DEF QueuePushes
      <3> SUFFICES ASSUME NEW e \in Encoder, pc[e] = "handle",
                          NEW i \in 1 .. Len(delay_data')
                   PROVE  /\ delay_data'[i].age <= hand[e].age
                          /\ delay_data'[i].age > active_delay => delay_data'[i].age = hand[e].age
        BY <1>4, <2>1, HandsStay
      <3>5. CASE i \in 1 .. n
        BY <3>1, <3>3, <3>5 DEF HandsDue
      <3>6. CASE i = n + 1
        BY <1>2, <3>4, <3>6
      <3> QED
        BY <3>2, <3>5, <3>6
    <2>2. ASSUME \A e \in Encoder : pc[e] # "handle"
          PROVE  HandsDue' /\ HandsEqual'
      BY <1>4, <2>2, HandsStay
    <2>3. CASE Start \/ Stop
      <3>1. PICK c \in Commands : QueuePushes(c)
        BY <1>1, <2>3, PushesQueue DEF Start, Stop, Commands
      <3>2. active_delay' = active_delay \/ ~active
        BY <2>3 DEF Start, Stop
      <3>3. CASE ~active
        BY <1>1, <2>2, <3>3 DEF OffIsEmpty
      <3> QED
        BY <2>1, <3>1, <3>2, <3>3
    <2>4. CASE Steady \/ ForceStop
      <3>1. UNCHANGED <<delay_data, active_delay>>
        BY <2>4 DEF Steady, ForceStop, delay
      <3> QED
        BY <1>4, <3>1, HandsStay DEF HandsDue
    <2>5. CASE Empties
      <3>1. Len(delay_data') = 0
        BY <2>5 DEF Empties
      <3> QED
        BY <1>4, <3>1, HandsStay
    <2>6. CASE Tick
      BY <2>2, <2>6 DEF InTime, Tick, Calm, Thread
    <2>7. ASSUME NEW e \in Encoder, Pushes(e)
          PROVE  HandsDue' /\ HandsEqual'
      BY <2>1, <2>7 DEF Pushes
    <2>8. ASSUME NEW e \in Encoder, PopPacket(e), Rests(e)
          PROVE  HandsDue' /\ HandsEqual'
      <3>1. delay_data' = delay_data
        BY <2>8 DEF Rests
      <3>2. active_delay' = active_delay
            \/ (Len(delay_data) >= 1 /\ active_delay' = delay_data[1].age)
        BY <1>1, <2>8, PopInTime
      <3>3. CASE active_delay' = active_delay
        BY <1>4, <3>1, <3>3, HandsStay DEF HandsDue
      <3>4. CASE Len(delay_data) >= 1 /\ active_delay' = delay_data[1].age
        <4>1. ASSUME NEW i \in 1 .. Len(delay_data)
              PROVE  ~(delay_data[i].age > active_delay')
          <5>1. 1 \in 1 .. Len(delay_data) /\ (i = 1 \/ 1 < i)
            BY <1>1, <3>4, QueueTyped
          <5>2. delay_data[1].age >= delay_data[i].age
            BY <1>1, <1>2, <5>1 DEF Sorted
          <5> QED
            BY <1>2, <3>4, <5>1, <5>2
        <4> QED
          BY <1>4, <3>1, <4>1, HandsStay DEF HandsDue
      <3> QED
        BY <3>2, <3>3, <3>4
    <2>9. ASSUME NEW e \in Encoder, PopPacket(e)
          PROVE  HandsDue' /\ HandsEqual'
      BY <1>1, <2>8, <2>9, PopCases, TakeHands
    <2> QED
      BY <1>1, <2>3, <2>4, <2>5, <2>6, <2>7, <2>9, StepKinds
  <1> QED
    BY <1>1, <1>3, <1>4, StepHands

(* An encoder has one packet of each age, and one of this tick only when   *)
(* it ran in this tick.                                                    *)
OneOfAnAge ==
    \A i, j \in 1 .. Len(delay_data) :
        i # j /\ delay_data[i].msg \in Encoder /\ delay_data[i].msg = delay_data[j].msg
            => delay_data[i].age # delay_data[j].age

NewIsPushed ==
    \A i \in 1 .. Len(delay_data) :
        delay_data[i].msg \in Encoder /\ delay_data[i].age = 0 => delay_data[i].msg \in pushed

LEMMA PushDistinct ==
    ASSUME Typed, OneOfAnAge, NewIsPushed, NEW m, QueuePushes(m), m \in Encoder => m \notin pushed,
           pushed \subseteq pushed', m \in Encoder => m \in pushed'
    PROVE  OneOfAnAge' /\ NewIsPushed'
  <1>1. PICK n \in Nat : Len(delay_data) = n
    BY QueueTyped
  <1>2. /\ Len(delay_data') = n + 1
        /\ \A i \in 1 .. n : delay_data'[i] = delay_data[i]
        /\ delay_data'[n + 1].age = 0 /\ delay_data'[n + 1].msg = m
        /\ \A i \in 1 .. n + 1 : i \in 1 .. n \/ i = n + 1
    BY <1>1 DEF QueuePushes
  <1>3. \A i \in 1 .. n : delay_data[i].msg = m /\ m \in Encoder => delay_data[i].age # 0
    BY <1>1 DEF NewIsPushed
  <1>4. OneOfAnAge'
    <2> SUFFICES ASSUME NEW i \in 1 .. n + 1, NEW j \in 1 .. n + 1, i # j,
                        delay_data'[i].msg \in Encoder, delay_data'[i].msg = delay_data'[j].msg
                 PROVE  delay_data'[i].age # delay_data'[j].age
      BY <1>2 DEF OneOfAnAge
    <2>1. CASE i \in 1 .. n /\ j \in 1 .. n
      BY <1>1, <1>2, <2>1 DEF OneOfAnAge
    <2>2. CASE i = n + 1 /\ j \in 1 .. n
      BY <1>2, <1>3, <2>2
    <2>3. CASE j = n + 1 /\ i \in 1 .. n
      BY <1>2, <1>3, <2>3
    <2> QED
      BY <1>2, <2>1, <2>2, <2>3
  <1>5. NewIsPushed'
    <2> SUFFICES ASSUME NEW i \in 1 .. n + 1, delay_data'[i].msg \in Encoder, delay_data'[i].age = 0
                 PROVE  delay_data'[i].msg \in pushed'
      BY <1>2 DEF NewIsPushed
    <2>1. CASE i \in 1 .. n
      BY <1>1, <1>2, <2>1 DEF NewIsPushed
    <2>2. CASE i = n + 1
      BY <1>2, <2>2
    <2> QED
      BY <1>2, <2>1, <2>2
  <1> QED
    BY <1>4, <1>5

LEMMA NextDistinct ==
    ASSUME InTime, DelayRight, OneOfAnAge, NewIsPushed, [Next]_vars
    PROVE  OneOfAnAge' /\ NewIsPushed'
  <1>1. Typed /\ OffIsEmpty /\ OffIsStill
    BY DEF DelayRight, CaptureRight
  <1>2. ASSUME UNCHANGED <<delay_data, pushed>>
        PROVE  OneOfAnAge' /\ NewIsPushed'
    BY <1>2 DEF OneOfAnAge, NewIsPushed
  <1>3. CASE Start \/ Stop
    <2>1. PICK c \in Commands : QueuePushes(c)
      BY <1>1, <1>3, PushesQueue DEF Start, Stop, Commands
    <2>2. c \notin Encoder
      BY <2>1, DelayAssumption DEF Commands
    <2>3. pushed' = pushed
      BY <1>3 DEF Start, Stop, thread
    <2> QED
      BY <1>1, <2>1, <2>2, <2>3, PushDistinct
  <1>4. CASE Steady \/ ForceStop
    <2>1. UNCHANGED <<delay_data, pushed>>
      BY <1>4 DEF Steady, ForceStop, delay
    <2> QED
      BY <1>2, <2>1
  <1>5. CASE Empties
    <2>1. Len(delay_data') = 0
      BY <1>5 DEF Empties
    <2> QED
      BY <2>1 DEF OneOfAnAge, NewIsPushed
  <1>6. CASE Tick
    <2>1. QueueAges
      BY <1>1, <1>6, TickQueue
    <2>2. \A i \in 1 .. Len(delay_data) : delay_data[i].age \in Nat
      BY <1>1, QueueTyped DEF Ages
    <2>3. Len(delay_data') = Len(delay_data)
      BY <2>1 DEF QueueAges
    <2>4. \A i \in 1 .. Len(delay_data) :
             delay_data'[i].msg = delay_data[i].msg /\ delay_data'[i].age = delay_data[i].age + 1
      BY <2>1 DEF QueueAges
    <2>5. NewIsPushed'
      BY <2>2, <2>3, <2>4 DEF NewIsPushed
    <2>6. OneOfAnAge'
      <3> SUFFICES ASSUME NEW i \in 1 .. Len(delay_data), NEW j \in 1 .. Len(delay_data), i # j,
                          delay_data[i].msg \in Encoder, delay_data[i].msg = delay_data[j].msg
                   PROVE  delay_data'[i].age # delay_data'[j].age
        BY <2>3, <2>4 DEF OneOfAnAge
      <3>1. delay_data[i].age # delay_data[j].age
        BY DEF OneOfAnAge
      <3> QED
        BY <2>2, <2>4, <3>1
    <2> QED
      BY <2>5, <2>6
  <1>7. ASSUME NEW e \in Encoder, Pushes(e)
        PROVE  OneOfAnAge' /\ NewIsPushed'
    <2>1. QueuePushes(e) /\ e \notin pushed /\ pushed' = pushed \cup {e}
      BY <1>7 DEF Pushes
    <2> QED
      BY <1>1, <2>1, PushDistinct
  <1>8. ASSUME NEW e \in Encoder, PopPacket(e)
        PROVE  OneOfAnAge' /\ NewIsPushed'
    <2>1. pushed' = pushed /\ (Takes(e) \/ Rests(e))
      BY <1>8, PopCases DEF PopUnchanged
    <2>2. CASE Rests(e)
      BY <1>2, <2>1, <2>2 DEF Rests
    <2>3. CASE Takes(e)
      <3>1. QueueShifts
        BY <1>1, <2>3, TakesQueue
      <3>2. PICK k \in Nat : Len(delay_data) = k
        BY <1>1, QueueTyped
      <3>3. PICK n \in Nat : Len(delay_data') = n /\ k = n + 1
        BY <3>1, <3>2 DEF QueueShifts
      <3>4. \A i \in 1 .. n : i + 1 \in 1 .. k /\ delay_data'[i] = delay_data[i + 1]
        BY <3>1, <3>3 DEF QueueShifts
      <3>5. \A i, j \in 1 .. n : i # j => i + 1 # j + 1
        OBVIOUS
      <3>6. OneOfAnAge'
        BY <3>2, <3>3, <3>4, <3>5 DEF OneOfAnAge
      <3>7. NewIsPushed'
        BY <2>1, <3>2, <3>3, <3>4 DEF NewIsPushed
      <3> QED
        BY <3>6, <3>7
    <2> QED
      BY <2>1, <2>2, <2>3
  <1> QED
    BY <1>1, <1>3, <1>4, <1>5, <1>6, <1>7, <1>8, StepKinds

(* A packet in a thread's hand is no longer in the queue, and no other     *)
(* thread has a packet of the same encoder.                                *)
HandsApart ==
    \A e \in Encoder : pc[e] = "handle" /\ hand[e].msg \in Encoder =>
        /\ \A i \in 1 .. Len(delay_data) :
              delay_data[i].msg = hand[e].msg => delay_data[i].age # hand[e].age
        /\ \A f \in Encoder : f # e /\ pc[f] = "handle" => hand[f].msg # hand[e].msg

LEMMA TakeApart ==
    ASSUME DelayRight, DelayRight', HandsDue, OneOfAnAge, HandsApart, NEW e \in Encoder, Takes(e)
    PROVE  HandsApart'
  <1>1. Typed /\ Typed' /\ Clocks
    BY DEF DelayRight, AgesInOrder
  <1>2. /\ QueueShifts /\ hand'[e] = delay_data[1] /\ delay_data[1].age > active_delay
        /\ \A f \in Encoder : f # e => hand'[f] = hand[f] /\ pc'[f] = pc[f]
    BY <1>1, TakesQueue, PopInTime
  <1>3. PICK n \in Nat : Len(delay_data') = n
    BY <1>1, QueueTypedNext
  <1>4. Len(delay_data) = n + 1
    BY <1>1, <1>2, <1>3, QueueTyped DEF QueueShifts
  <1>5. 1 \in 1 .. n + 1
        /\ \A i \in 1 .. n : i + 1 \in 1 .. n + 1 /\ i + 1 # 1 /\ delay_data'[i] = delay_data[i + 1]
    BY <1>2, <1>3 DEF QueueShifts
  <1>6. ASSUME delay_data[1].msg \in Encoder, NEW i \in 1 .. n, delay_data'[i].msg = delay_data[1].msg
        PROVE  delay_data'[i].age # delay_data[1].age
    BY <1>4, <1>5, <1>6 DEF OneOfAnAge
  <1>7. ASSUME NEW f \in Encoder, f # e, pc[f] = "handle"
        PROVE  /\ hand[f].msg \in Encoder => hand[f].msg # delay_data[1].msg
               /\ delay_data[1].msg \in Encoder => hand[f].msg # delay_data[1].msg
    <2>1. delay_data[1].age = hand[f].age
      BY <1>2, <1>4, <1>5, <1>7 DEF HandsDue
    <2>2. hand[f].msg \in Encoder => hand[f].msg # delay_data[1].msg
      BY <1>4, <1>5, <1>7, <2>1 DEF HandsApart
    <2> QED
      BY <2>2
  <1>8. ASSUME NEW f \in Encoder, f # e, pc'[f] = "handle", hand'[f].msg \in Encoder
        PROVE  /\ \A i \in 1 .. n : delay_data'[i].msg = hand'[f].msg => delay_data'[i].age # hand'[f].age
               /\ \A g \in Encoder : g # f /\ pc'[g] = "handle" => hand'[g].msg # hand'[f].msg
    <2>1. pc[f] = "handle" /\ hand'[f] = hand[f] /\ hand[f].msg \in Encoder
      BY <1>2, <1>8
    <2>2. \A i \in 1 .. n : delay_data'[i].msg = hand'[f].msg => delay_data'[i].age # hand'[f].age
      BY <1>4, <1>5, <2>1 DEF HandsApart
    <2>3. ASSUME NEW g \in Encoder, g # f, pc'[g] = "handle"
          PROVE  hand'[g].msg # hand'[f].msg
      <3>1. CASE g = e
        BY <1>2, <1>7, <1>8, <2>1, <3>1
      <3>2. CASE g # e
        BY <1>2, <2>1, <2>3, <3>2 DEF HandsApart
      <3> QED
        BY <3>1, <3>2
    <2> QED
      BY <2>2, <2>3
  <1>9. ASSUME hand'[e].msg \in Encoder
        PROVE  /\ \A i \in 1 .. n : delay_data'[i].msg = hand'[e].msg => delay_data'[i].age # hand'[e].age
               /\ \A g \in Encoder : g # e /\ pc'[g] = "handle" => hand'[g].msg # hand'[e].msg
    BY <1>2, <1>6, <1>7, <1>9
  <1> QED
    BY <1>3, <1>8, <1>9 DEF HandsApart

LEMMA NextApart ==
    ASSUME InTime, DelayRight, DelayRight', HandsDue, OneOfAnAge, HandsApart, [Next]_vars
    PROVE  HandsApart'
  <1>1. Typed /\ OffIsEmpty /\ OffIsStill /\ Delay \in Nat \ {0}
        /\ \A e \in Encoder : hand[e].age \in Nat
    BY DelayAssumption DEF DelayRight, CaptureRight, Typed
  <1>2. CASE \E e \in Encoder : PopPacket(e) /\ Takes(e)
    BY <1>2, TakeApart
  <1>3. CASE HandsLess
    <2>1. ASSUME \A e \in Encoder : pc[e] = "handle" /\ hand[e].msg \in Encoder =>
                     \A i \in 1 .. Len(delay_data') :
                         delay_data'[i].msg = hand[e].msg => delay_data'[i].age # hand[e].age
          PROVE  HandsApart'
      <3> SUFFICES ASSUME NEW e \in Encoder, pc'[e] = "handle", hand'[e].msg \in Encoder
                   PROVE  /\ \A i \in 1 .. Len(delay_data') :
                                delay_data'[i].msg = hand'[e].msg => delay_data'[i].age # hand'[e].age
                          /\ \A f \in Encoder : f # e /\ pc'[f] = "handle" => hand'[f].msg # hand'[e].msg
        BY DEF HandsApart
      <3>1. pc[e] = "handle" /\ hand'[e] = hand[e]
        BY <1>3 DEF HandsLess
      <3>2. \A f \in Encoder : pc'[f] = "handle" => pc[f] = "handle" /\ hand'[f] = hand[f]
        BY <1>3 DEF HandsLess
      <3>3. \A f \in Encoder : f # e /\ pc[f] = "handle" => hand[f].msg # hand[e].msg
        BY <3>1 DEF HandsApart
      <3> QED
        BY <2>1, <3>1, <3>2, <3>3
    <2>2. ASSUME delay_data' = delay_data
          PROVE  HandsApart'
      BY <2>1, <2>2 DEF HandsApart
    <2>3. ASSUME NEW m, QueuePushes(m)
          PROVE  HandsApart'
      <3>1. PICK n \in Nat : Len(delay_data) = n
        BY <1>1, QueueTyped
      <3>2. \A i \in 1 .. Len(delay_data') : i \in 1 .. n \/ i = n + 1
        BY <2>3, <3>1 DEF QueuePushes
      <3>3. delay_data'[n + 1].age = 0 /\ \A i \in 1 .. n : delay_data'[i] = delay_data[i]
        BY <2>3, <3>1 DEF QueuePushes
      <3> SUFFICES ASSUME NEW e \in Encoder, pc[e] = "handle", hand[e].msg \in Encoder,
                          NEW i \in 1 .. Len(delay_data'), delay_data'[i].msg = hand[e].msg
                   PROVE  delay_data'[i].age # hand[e].age
        BY <2>1
      <3>4. CASE i \in 1 .. n
        BY <3>1, <3>3, <3>4 DEF HandsApart
      <3>5. CASE i = n + 1
        <4>1. hand[e].age > Delay
          BY DEF HandsDue
        <4> QED
          BY <1>1, <3>3, <3>5, <4>1
      <3> QED
        BY <3>2, <3>4, <3>5
    <2>4. CASE Start \/ Stop
      BY <1>1, <2>3, <2>4, PushesQueue DEF Start, Stop
    <2>5. CASE Steady \/ ForceStop
      BY <2>2, <2>5 DEF Steady, ForceStop, delay
    <2>6. CASE Empties
      <3>1. Len(delay_data') = 0
        BY <2>6 DEF Empties
      <3> QED
        BY <2>1, <3>1
    <2>7. CASE Tick
      <3>1. \A e \in Encoder : pc[e] # "handle"
        BY <2>7 DEF InTime, Tick, Calm, Thread
      <3> QED
        BY <2>1, <3>1
    <2>8. ASSUME NEW e \in Encoder, Pushes(e)
          PROVE  HandsApart'
      BY <2>3, <2>8 DEF Pushes
    <2>9. ASSUME NEW e \in Encoder, PopPacket(e)
          PROVE  HandsApart'
      <3>1. Takes(e) \/ delay_data' = delay_data
        BY <2>9, PopCases DEF Rests
      <3> QED
        BY <2>2, <2>9, <3>1, TakeApart
    <2> QED
      BY <1>1, <2>4, <2>5, <2>6, <2>7, <2>8, <2>9, StepKinds
  <1> QED
    BY <1>1, <1>2, <1>3, StepHands

(* What is queued or in a hand is younger than what was handed on.         *)
SentAges == sent \in [Encoder -> 1 .. Never]

NotYetSent ==
    /\ \A i \in 1 .. Len(delay_data) :
          delay_data[i].msg \in Encoder => delay_data[i].age < sent[delay_data[i].msg]
    /\ \A e \in Encoder : pc[e] = "handle" /\ hand[e].msg \in Encoder =>
          hand[e].age < sent[hand[e].msg]

LEMMA PacketNotYetSent ==
    ASSUME DelayRight, Typed', HandsDue, HandsApart, SentAges, NotYetSent,
           NEW e \in Encoder, ProcessPacket(e), HandsLess
    PROVE  SentAges' /\ NotYetSent'
  <1>1. Typed /\ \A i \in 1 .. Len(delay_data) : delay_data[i].age \in Nat
    BY QueueTyped DEF DelayRight, Ages
  <1>2. /\ pc[e] = "handle" /\ hand[e].msg \in Encoder /\ delay_data' = delay_data
        /\ pc' = [pc EXCEPT ![e] = "pop"]
        /\ sent' = sent \/ sent' = [sent EXCEPT ![hand[e].msg] = hand[e].age]
    BY DEF ProcessPacket, Done, Goto, delay
  <1>3. pc'[e] # "handle"
    BY <1>1, <1>2 DEF Typed, TypeOK, Thread
  <1>4. CASE sent' = sent
    BY <1>2, <1>4 DEF HandsLess, SentAges, NotYetSent
  <1>5. CASE sent' = [sent EXCEPT ![hand[e].msg] = hand[e].age]
    <2>1. PICK a \in Nat, f \in Encoder : hand[e].age = a /\ hand[e].msg = f
      BY <1>1, <1>2 DEF Typed
    <2>2. /\ sent'[f] = a
          /\ \A g \in Encoder : g # f => sent'[g] = sent[g]
      BY <1>5, <2>1 DEF SentAges
    <2>3. SentAges'
      <3>1. a > Delay /\ a < sent[f] /\ sent[f] \in 1 .. Never
        BY <1>2, <2>1 DEF HandsDue, NotYetSent, SentAges
      <3>2. a \in 1 .. Never
        BY <3>1, DelayAssumption DEF Never
      <3> QED
        BY <1>5, <2>1, <3>2 DEF SentAges
    <2>4. ASSUME NEW i \in 1 .. Len(delay_data), delay_data[i].msg \in Encoder
          PROVE  delay_data[i].age < sent'[delay_data[i].msg]
      <3>1. CASE delay_data[i].msg = f
        <4>1. delay_data[i].age <= a /\ delay_data[i].age # a
          BY <1>2, <2>1, <3>1 DEF HandsDue, HandsApart
        <4> QED
          BY <1>1, <2>1, <2>2, <3>1, <4>1
      <3>2. CASE delay_data[i].msg # f
        BY <2>2, <2>4, <3>2 DEF NotYetSent
      <3> QED
        BY <3>1, <3>2
    <2>5. ASSUME NEW g \in Encoder, pc'[g] = "handle", hand'[g].msg \in Encoder
          PROVE  hand'[g].age < sent'[hand'[g].msg]
      <3>1. pc[g] = "handle" /\ hand'[g] = hand[g] /\ g # e
        BY <1>3, <2>5 DEF HandsLess
      <3>2. hand[g].msg # f
        BY <1>2, <2>1, <3>1 DEF HandsApart
      <3> QED
        BY <2>2, <2>5, <3>1, <3>2 DEF NotYetSent
    <2> QED
      BY <1>2, <2>3, <2>4, <2>5 DEF NotYetSent
  <1> QED
    BY <1>2, <1>4, <1>5

LEMMA TickNotYetSent ==
    ASSUME InTime, Typed, SentAges, NotYetSent, HandsLess, Tick
    PROVE  SentAges' /\ NotYetSent'
  <1>1. /\ sent' = [e \in Encoder |-> IF sent[e] >= Never THEN Never ELSE sent[e] + 1]
        /\ \A e \in Encoder : pc[e] # "handle"
    BY DEF InTime, Tick, Calm, Thread
  <1>2. Never \in Nat /\ Never = MaxAge + 1 /\ MaxAge \in Nat
    BY DelayAssumption DEF Never
  <1>3. /\ Len(delay_data') = Len(delay_data)
        /\ \A i \in 1 .. Len(delay_data) :
              /\ delay_data'[i].msg = delay_data[i].msg
              /\ delay_data'[i].age = delay_data[i].age + 1
              /\ delay_data[i].age \in Nat /\ delay_data[i].age < MaxAge
    <2>1. QueueAges
      BY TickQueue
    <2>2. ASSUME NEW i \in 1 .. Len(delay_data)
          PROVE  delay_data[i].age \in Nat /\ delay_data[i].age < MaxAge
      <3>1. delay_data[i].age \in Nat
        BY QueueTyped DEF Ages
      <3>2. delay_data[i].age < IF Kept THEN MaxAge - 1 ELSE MaxAge
        BY <2>1 DEF QueueAges
      <3> QED
        BY <1>2, <3>1, <3>2
    <2> QED
      BY <2>1, <2>2 DEF QueueAges
  <1>4. ASSUME NEW e \in Encoder
        PROVE  /\ sent'[e] = IF sent[e] >= Never THEN Never ELSE sent[e] + 1
               /\ sent[e] \in 1 .. Never /\ sent'[e] \in 1 .. Never
    <2>1. sent[e] \in 1 .. Never /\ sent'[e] = IF sent[e] >= Never THEN Never ELSE sent[e] + 1
      BY <1>1 DEF SentAges
    <2> QED
      BY <1>2, <2>1
  <1>5. SentAges'
    BY <1>1, <1>4 DEF SentAges
  <1>6. ASSUME NEW i \in 1 .. Len(delay_data), delay_data'[i].msg \in Encoder
        PROVE  delay_data'[i].age < sent'[delay_data'[i].msg]
    <2>1. PICK e \in Encoder : delay_data[i].msg = e /\ delay_data'[i].msg = e
      BY <1>3, <1>6
    <2>2. delay_data[i].age < sent[e]
      BY <2>1 DEF NotYetSent
    <2>3. delay_data'[i].age < sent'[e]
      BY <1>2, <1>3, <1>4, <2>2
    <2> QED
      BY <2>1, <2>3
  <1>7. \A e \in Encoder : pc'[e] # "handle"
    BY <1>1 DEF HandsLess
  <1> QED
    BY <1>3, <1>5, <1>6, <1>7 DEF NotYetSent

LEMMA NextNotYetSent ==
    ASSUME InTime, DelayRight, DelayRight', HandsDue, HandsApart, SentAges, NotYetSent, [Next]_vars
    PROVE  SentAges' /\ NotYetSent'
  <1>1. Typed /\ Typed' /\ OffIsEmpty /\ OffIsStill
    BY DEF DelayRight, CaptureRight
  <1>2. ASSUME NEW e \in Encoder, PopPacket(e), Takes(e)
        PROVE  SentAges' /\ NotYetSent'
    <2>1. /\ QueueShifts /\ hand'[e] = delay_data[1] /\ sent' = sent
          /\ \A f \in Encoder : f # e => hand'[f] = hand[f] /\ pc'[f] = pc[f]
      BY <1>1, <1>2, TakesQueue, PopCases DEF PopUnchanged
    <2>2. PICK n \in Nat : Len(delay_data') = n
      BY <1>1, QueueTypedNext
    <2>3. Len(delay_data) = n + 1 /\ 1 \in 1 .. n + 1
      BY <1>1, <2>1, <2>2, QueueTyped DEF QueueShifts
    <2>4. \A i \in 1 .. n : i + 1 \in 1 .. n + 1 /\ delay_data'[i] = delay_data[i + 1]
      BY <2>1, <2>2 DEF QueueShifts
    <2>5. \A i \in 1 .. n : delay_data'[i].msg \in Encoder =>
                                delay_data'[i].age < sent[delay_data'[i].msg]
      BY <2>3, <2>4 DEF NotYetSent
    <2>6. ASSUME NEW f \in Encoder, pc'[f] = "handle", hand'[f].msg \in Encoder
          PROVE  hand'[f].age < sent[hand'[f].msg]
      BY <2>1, <2>3, <2>6 DEF NotYetSent
    <2> QED
      BY <2>1, <2>2, <2>5, <2>6 DEF SentAges, NotYetSent
  <1>3. CASE HandsLess /\ sent' = sent
    <2>1. ASSUME \A i \in 1 .. Len(delay_data') : delay_data'[i].msg \in Encoder =>
                     delay_data'[i].age < sent[delay_data'[i].msg]
          PROVE  SentAges' /\ NotYetSent'
      BY <1>3, <2>1 DEF HandsLess, SentAges, NotYetSent
    <2>2. ASSUME delay_data' = delay_data
          PROVE  SentAges' /\ NotYetSent'
      BY <2>1, <2>2 DEF NotYetSent
    <2>3. ASSUME NEW m, QueuePushes(m)
          PROVE  SentAges' /\ NotYetSent'
      <3>1. PICK n \in Nat : Len(delay_data) = n
        BY <1>1, QueueTyped
      <3>2. \A i \in 1 .. Len(delay_data') : i \in 1 .. n \/ i = n + 1
        BY <2>3, <3>1 DEF QueuePushes
      <3>3. delay_data'[n + 1].age = 0 /\ \A i \in 1 .. n : delay_data'[i] = delay_data[i]
        BY <2>3, <3>1 DEF QueuePushes
      <3> SUFFICES ASSUME NEW i \in 1 .. Len(delay_data'), delay_data'[i].msg \in Encoder
                   PROVE  delay_data'[i].age < sent[delay_data'[i].msg]
        BY <2>1
      <3>4. CASE i \in 1 .. n
        BY <3>1, <3>3, <3>4 DEF NotYetSent
      <3>5. CASE i = n + 1
        <4>1. sent[delay_data'[i].msg] \in 1 .. Never
          BY DEF SentAges
        <4> QED
          BY <3>3, <3>5, <4>1
      <3> QED
        BY <3>2, <3>4, <3>5
    <2>4. CASE Start \/ Stop
      BY <1>1, <2>3, <2>4, PushesQueue DEF Start, Stop
    <2>5. CASE Steady \/ ForceStop
      BY <2>2, <2>5 DEF Steady, ForceStop, delay
    <2>6. CASE Empties
      <3>1. Len(delay_data') = 0
        BY <2>6 DEF Empties
      <3> QED
        BY <2>1, <3>1
    <2>7. CASE Tick
      BY <1>1, <1>3, <2>7, TickNotYetSent
    <2>8. ASSUME NEW e \in Encoder, Pushes(e)
          PROVE  SentAges' /\ NotYetSent'
      BY <2>3, <2>8 DEF Pushes
    <2>9. ASSUME NEW e \in Encoder, PopPacket(e)
          PROVE  SentAges' /\ NotYetSent'
      <3>1. Takes(e) \/ delay_data' = delay_data
        BY <2>9, PopCases DEF Rests
      <3> QED
        BY <1>2, <2>2, <2>9, <3>1
    <2> QED
      BY <1>1, <2>4, <2>5, <2>6, <2>7, <2>8, <2>9, StepKinds
  <1>4. CASE HandsLess /\ sent' # sent
    BY <1>1, <1>4, StepSent, TickNotYetSent, PacketNotYetSent
  <1> QED
    BY <1>1, <1>2, <1>3, <1>4, StepHands

(* The inductive invariant of the packets' order and time.                 *)
PacketsRight ==
    /\ DelayRight /\ RetryGoesOn /\ QueueFull /\ HandsDue /\ HandsEqual
    /\ OneOfAnAge /\ NewIsPushed /\ HandsApart /\ SentAges /\ NotYetSent

LEMMA InitPacketsRight == Init => PacketsRight
  <1> SUFFICES ASSUME Init PROVE PacketsRight
    OBVIOUS
  <1>1. /\ delay_data = <<>> /\ ~active /\ ~timer /\ ~reconnecting /\ stream = "off"
        /\ pc = [t \in Thread |-> "idle"] /\ sent = [e \in Encoder |-> Never]
    BY DEF Init
  <1>2. Len(delay_data) = 0 /\ \A e \in Encoder : pc[e] = "idle"
    BY <1>1 DEF Thread
  <1>3. DelayRight
    BY InitDelayRight
  <1>4. RetryGoesOn
    BY <1>1, Zenon DEF RetryGoesOn
  <1>5. ~InUse
    BY <1>1, <1>2 DEF InUse, Holds
  <1>6. WholeDelay /\ TickBegun
    BY <1>1, Zenon DEF WholeDelay, TickBegun
  <1>7. QueueFull
    BY <1>2, <1>5, <1>6 DEF QueueFull, NoGaps, ReachesBack
  <1>8. HandsDue /\ HandsEqual /\ HandsApart
    BY <1>2 DEF HandsDue, HandsEqual, HandsApart
  <1>9. OneOfAnAge /\ NewIsPushed /\ NotYetSent
    BY <1>2 DEF OneOfAnAge, NewIsPushed, NotYetSent
  <1>10. SentAges
    <2>1. Never \in 1 .. Never
      BY DelayAssumption DEF Never
    <2> QED
      BY <1>1, <2>1 DEF SentAges
  <1> QED
    BY <1>3, <1>4, <1>7, <1>8, <1>9, <1>10 DEF PacketsRight

LEMMA NextPacketsRight ==
    ASSUME InTime, PacketsRight, [Next]_vars
    PROVE  PacketsRight'
  <1> USE DEF PacketsRight
  <1>1. DelayRight'
    BY NextDelayRight
  <1>2. RetryGoesOn' /\ QueueFull'
    BY <1>1, NextRetryGoesOn, NextQueueFull
  <1>3. HandsDue' /\ HandsEqual'
    BY <1>1, NextHands
  <1>4. OneOfAnAge' /\ NewIsPushed'
    BY NextDistinct
  <1>5. HandsApart' /\ SentAges' /\ NotYetSent'
    BY <1>1, NextApart, NextNotYetSent
  <1> QED
    BY <1>1, <1>2, <1>3, <1>4, <1>5

LEMMA StepKeepsDelay ==
    ASSUME InTime, PacketsRight, [Next]_vars, NEW e \in Encoder, sent'[e] < sent[e]
    PROVE  sent'[e] > Delay
  <1>1. Typed /\ SentAges /\ HandsDue
    BY DEF PacketsRight, DelayRight
  <1>2. sent[e] \in 1 .. Never /\ Never \in Nat
    BY <1>1, DelayAssumption DEF SentAges, Never
  <1>3. sent' # sent
    BY <1>2
  <1>4. CASE Tick
    <2>1. sent'[e] = IF sent[e] >= Never THEN Never ELSE sent[e] + 1
      BY <1>4 DEF Tick
    <2> QED
      BY <1>2, <2>1
  <1>5. ASSUME NEW f \in Encoder, ProcessPacket(f)
        PROVE  sent'[e] > Delay
    <2>1. /\ pc[f] = "handle" /\ hand[f].msg \in Encoder
          /\ sent' = [sent EXCEPT ![hand[f].msg] = hand[f].age]
      BY <1>3, <1>5 DEF ProcessPacket
    <2>2. hand[f].age > Delay
      BY <1>1, <2>1 DEF HandsDue
    <2>3. sent'[e] = sent[e] \/ sent'[e] = hand[f].age
      BY <1>1, <2>1 DEF SentAges
    <2> QED
      BY <1>2, <2>2, <2>3
  <1> QED
    BY <1>3, <1>4, <1>5, StepSent

(* A packet is handed to the plugin when it has waited for the whole delay *)
(* that was asked for, and the packets of an encoder in their order,       *)
(* although several threads pop them and hand them on after the mutex is   *)
(* released, and whatever is lost, refused, stopped and started again: if  *)
(* no whole tick overtakes a thread, and no command is given in the tick   *)
(* in which another one is handled.                                        *)
THEOREM HandedOnInTimeHolds ==
    ASSUME InTime
    PROVE  Spec => HandedOnInTime
  <1>1. PacketsRight /\ [Next]_vars => PacketsRight'
    BY NextPacketsRight
  <1>2. PacketsRight /\ [Next]_vars =>
            [\A e \in Encoder : sent'[e] < sent[e] => sent'[e] > Delay]_sent
    BY StepKeepsDelay
  <1>3. PacketsRight /\ [Next]_vars =>
            [\A e, f \in Encoder :
                ProcessPacket(e) /\ HandOn /\ hand[e].msg = f => hand[e].age < sent[f]]_vars
    BY DEF PacketsRight, NotYetSent, ProcessPacket
  <1>4. Spec => DelayKept
    BY <1>1, <1>2, InitPacketsRight, PTL DEF Spec, DelayKept
  <1>5. Spec => InOrder
    BY <1>1, <1>3, InitPacketsRight, PTL DEF Spec, InOrder
  <1> QED
    BY <1>4, <1>5 DEF HandedOnInTime
===============================================================================
