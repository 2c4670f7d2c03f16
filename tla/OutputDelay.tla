----------------------------- MODULE OutputDelay ------------------------------
(***************************************************************************)
(* The stream delay (obs-output-delay.c, and what obs-output.c does while  *)
(* delay_active): the encoders' packets and the user's commands to start   *)
(* and to stop wait in one queue, and the encoders' threads hand on what   *)
(* is due.  One output with its plugin: "connecting" is the connect thread *)
(* of rtmp-stream.c, "sending" its send thread.                            *)
(*                                                                         *)
(* A tick is the time between two packets of an encoder; entries of the    *)
(* queue carry their age.  The plugin and the reconnect thread take whole  *)
(* handlers as steps (StreamOutput looks into them); steps of a thread end *)
(* where it takes a mutex, joins another thread, or goes round the loop.   *)
(***************************************************************************)
EXTENDS Integers, FiniteSets, SequencesExt

CONSTANTS
    Encoder,        \* the encoders, each with its thread
    User,           \* the frontend's thread
    Delay,          \* delay_sec, in ticks
    RetryMax,       \* reconnect_retry_max
    Hasty,          \* what else may happen, see Calm
    MaxStarts,      \* bound: calls of obs_output_start
    MaxStops,       \* bound: calls of obs_output_stop and _force_stop
    MaxBreaks,      \* bound: connections lost
    MaxAge          \* bound: no tick while an entry is as old (one tick less
                    \* while packets are kept for a reconnect)

ASSUME DelayAssumption ==
    /\ IsFiniteSet(Encoder) /\ Encoder # {} /\ User \notin Encoder
    /\ Encoder \cap {"START", "STOP", "NONE"} = {}
    /\ Delay \in Nat \ {0} /\ RetryMax \in Nat
    /\ Hasty \subseteq {"restart", "loss", "refusal", "collision", "stall"}
    /\ MaxStarts \in Nat /\ MaxStops \in Nat /\ MaxBreaks \in Nat
    /\ MaxAge \in Nat /\ Delay <= MaxAge

VARIABLES
    delay_data,         \* the queue: [msg, age]
    active_delay,       \* active_delay_ns, in ticks
    delay_restart_refs,
    delay_active, delay_capturing, active,
    preserve,           \* delay_cur_flags has OBS_OUTPUT_DELAY_PRESERVE
    reconnecting, retries,
    stop_event,         \* reconnect_stop_event
    timer,              \* reconnect_thread waits
    stream,             \* the plugin: "off", "connecting", "sending", or
                        \* "ending": its thread is in end_data_capture
    pc, hand, since,    \* per thread: where it is, the entry it has popped,
                        \* and how many ticks ago it read the clock
    pushed,             \* the encoders that ran in this tick
    command, pressed,   \* the user's last command; one was given in this tick
    signal,             \* the last signal to the frontend
    sent,               \* per encoder: the age of the packet last handed on
    starts, stops, breaks

delay == <<delay_data, active_delay, delay_restart_refs, preserve>>
capture == <<delay_active, delay_capturing, active>>
retry == <<reconnecting, retries, stop_event, timer>>
thread == <<pc, hand, since, pushed>>
user == <<command, pressed, starts, stops>>
vars == <<delay, capture, retry, stream, thread, user, signal, sent, breaks>>

Thread == Encoder \cup {User}
Wrapped == MaxAge + 100     \* any difference of ages that went below zero
Never == MaxAge + 1         \* older than any packet
Entry(msg) == [msg |-> msg, age |-> 0]

Init ==
    /\ delay_data = <<>> /\ active_delay = 0 /\ delay_restart_refs = 0
    /\ preserve = FALSE
    /\ delay_active = FALSE /\ delay_capturing = FALSE /\ active = FALSE
    /\ reconnecting = FALSE /\ retries = 0 /\ stop_event = FALSE /\ timer = FALSE
    /\ stream = "off"
    /\ pc = [t \in Thread |-> "idle"] /\ hand = [e \in Encoder |-> Entry("NONE")]
    /\ since = [e \in Encoder |-> 0] /\ pushed = {}
    /\ command = "stop" /\ pressed = FALSE /\ signal = "none"
    /\ sent = [e \in Encoder |-> Never]
    /\ starts = 0 /\ stops = 0 /\ breaks = 0

Goto(t, to) == pc' = [pc EXCEPT ![t] = to]
Done(e) == Goto(e, "pop") /\ hand' = [hand EXCEPT ![e] = Entry("NONE")]
Back(t) == IF t = User THEN "idle" ELSE "pop"
Stopping(t) == pc[t] \in {"join", "decide", "end"}
Commands == {"START", "STOP"}
Pending(msg) ==
    Cardinality({i \in DOMAIN delay_data : delay_data[i].msg = msg})
    + Cardinality({e \in Encoder : pc[e] = "handle" /\ hand[e].msg = msg})

(* What a run without the member of Hasty leaves out:                      *)
(*   "restart"    a second start while the first one waits in the queue,   *)
(*   "loss"       a connection lost while a restart waits, or the reverse, *)
(*   "refusal"    a stop that waits for the plugin's thread while that one *)
(*                ends the capture, because its connection was refused or  *)
(*                it has no retry left,                                    *)
(*   "collision"  a command given in the tick in which another is handled, *)
(*   "stall"      a thread that a whole tick overtakes.                    *)
Calm(what, condition) == what \in Hasty \/ condition

\* ------------------------------------------------------------ data capture

(* hook_data_capture and obs_output_begin_data_capture.                    *)
BeginDataCapture(p) ==
    /\ active_delay' = Delay /\ preserve' = p
    /\ delay_active' = TRUE /\ active' = TRUE

(* obs_output_cleanup_delay.                                               *)
CleanupDelay ==
    /\ delay_data' = <<>> /\ active_delay' = 0 /\ delay_restart_refs' = 0

(* obs_output_end_data_capture after delay_active was cleared: it takes    *)
(* the mutex that an encoder's thread holds during its callback.           *)
EndDataCapture(t) ==
    /\ \A e \in Encoder \ {t} : pc[e] = "idle"
    /\ CleanupDelay
    /\ active' = FALSE
    /\ UNCHANGED <<delay_active, delay_capturing, preserve>>

\* ------------------------------------------------------------- the frontend

(* No command of the kind is being handled, or waits and is due.           *)
Quiet(kinds) ==
    /\ \A t \in Thread : ~Stopping(t)
    /\ \A e \in Encoder : ~(pc[e] = "handle" /\ hand[e].msg \in kinds)
    /\ \A i \in DOMAIN delay_data :
           delay_data[i].msg \in kinds => delay_data[i].age <= active_delay

Alone == Calm("collision", ~pressed /\ Quiet(Commands))

Press(c) ==
    /\ pc[User] = "idle" /\ Alone
    /\ pressed' = TRUE /\ command' = c

(* Mutant: a restart is not counted.                                       *)
CountRestart_not == UNCHANGED delay_restart_refs

CountRestart == delay_restart_refs' = delay_restart_refs + 1

(* obs_output_delay_start.                                                 *)
Start ==
    /\ starts < MaxStarts /\ command = "stop" /\ Press("start")
    /\ Calm("restart", Pending("START") = 0)
    /\ Calm("loss", ~reconnecting)
    /\ active => delay_active
    /\ starts' = starts + 1
    /\ delay_data' = Append(delay_data, Entry("START"))
    /\ IF delay_active
       THEN CountRestart /\ UNCHANGED <<active_delay, preserve, capture>>
       ELSE /\ \E p \in BOOLEAN : BeginDataCapture(p)
            /\ UNCHANGED <<delay_restart_refs, delay_capturing>>
    /\ signal' = "starting"
    /\ UNCHANGED <<retry, stream, thread, sent, stops, breaks>>

(* obs_output_delay_stop.                                                  *)
Stop ==
    /\ stops < MaxStops /\ command = "start" /\ Press("stop")
    /\ active_delay # 0
    /\ stops' = stops + 1
    /\ delay_data' = Append(delay_data, Entry("STOP"))
    /\ signal' = "stopping"
    /\ UNCHANGED <<active_delay, delay_restart_refs, preserve, capture, retry,
                   stream, thread, sent, starts, breaks>>

(* The beginning of obs_output_actual_stop.                                *)
BeginStop(t) == stop_event' = TRUE /\ Goto(t, "join")

(* obs_output_force_stop.                                                  *)
ForceStop ==
    /\ stops < MaxStops /\ active /\ Press("stop")
    /\ stops' = stops + 1
    /\ BeginStop(User)
    /\ UNCHANGED <<delay, capture, reconnecting, retries, timer, stream, hand,
                   since, pushed, signal, sent, starts, breaks>>

\* ----------------------------------------------------- the encoders' threads

(* process_delay: reads the clock and pushes its packet.                   *)
Encode(e) ==
    /\ active /\ pc[e] = "idle" /\ e \notin pushed
    /\ delay_data' = Append(delay_data, Entry(e))
    /\ pushed' = pushed \cup {e} /\ since' = [since EXCEPT ![e] = 0]
    /\ Goto(e, "pop")
    /\ UNCHANGED <<active_delay, delay_restart_refs, preserve, capture, retry,
                   stream, hand, user, signal, sent, breaks>>

(* t - dd.ts, unsigned.                                                    *)
Elapsed(e) ==
    IF Head(delay_data).age >= since[e] THEN Head(delay_data).age - since[e] ELSE Wrapped

Due(e) == Elapsed(e) > active_delay

Kept == preserve /\ reconnecting

(* Mutant: from the other end.                                             *)
TakeEntry_back(e) ==
    /\ hand' = [hand EXCEPT ![e] = Last(delay_data)] /\ delay_data' = Front(delay_data)

TakeEntry(e) ==
    /\ hand' = [hand EXCEPT ![e] = Head(delay_data)] /\ delay_data' = Tail(delay_data)

(* pop_packet.                                                             *)
PopPacket(e) ==
    /\ pc[e] = "pop"
    /\ IF delay_data # <<>> /\ ~Kept /\ Due(e)
       THEN /\ TakeEntry(e)
            /\ Goto(e, "handle")
            /\ UNCHANGED active_delay
       ELSE /\ active_delay' = IF delay_data # <<>> /\ Kept THEN Elapsed(e) ELSE active_delay
            /\ Goto(e, "idle")
            /\ UNCHANGED <<delay_data, hand>>
    /\ since' = IF pc'[e] = "idle" THEN [since EXCEPT ![e] = 0] ELSE since
    /\ UNCHANGED <<delay_restart_refs, preserve, capture, retry, stream, pushed,
                   user, signal, sent, breaks>>

(* output->delay_restart_refs in obs_output_actual_stop.                   *)
RestartWaits == delay_restart_refs > 0

HandOn == delay_active /\ delay_capturing

(* process_delay_data: a packet.                                           *)
ProcessPacket(e) ==
    /\ pc[e] = "handle" /\ hand[e].msg \in Encoder
    /\ sent' = IF HandOn THEN [sent EXCEPT ![hand[e].msg] = hand[e].age] ELSE sent
    /\ Done(e)
    /\ UNCHANGED <<delay, capture, retry, stream, since, pushed, user,
                   signal, breaks>>

RestartDone ==
    delay_restart_refs' = IF delay_restart_refs > 0 THEN delay_restart_refs - 1 ELSE 0

(* obs_output_actual_start: the plugin begins to connect, unless the       *)
(* capture is just ending (obs_output_can_begin_data_capture).             *)
ActualStart ==
    /\ stream' = IF delay_active \/ ~active THEN "connecting" ELSE stream
    /\ RestartDone

ProcessStart(e) ==
    /\ pc[e] = "handle" /\ hand[e].msg = "START"
    /\ ActualStart
    /\ Done(e)
    /\ UNCHANGED <<delay_data, active_delay, preserve, capture, retry, since,
                   pushed, user, signal, sent, breaks>>

ProcessStop(e) ==
    /\ pc[e] = "handle" /\ hand[e].msg = "STOP"
    /\ BeginStop(e)
    /\ hand' = [hand EXCEPT ![e] = Entry("NONE")]
    /\ UNCHANGED <<delay, capture, reconnecting, retries, timer, stream, since,
                   pushed, user, signal, sent, breaks>>

\* -------------------------------------------------- obs_output_actual_stop

(* Joins the reconnect thread; info.stop joins the plugin's threads and    *)
(* ends the capture.                                                       *)
JoinThreads(t) ==
    /\ pc[t] = "join"
    /\ ~timer /\ stream \in {"off", "sending"}
    /\ stream' = "off"
    /\ delay_capturing' = IF stream = "sending" THEN FALSE ELSE delay_capturing
    /\ Goto(t, "decide")
    /\ UNCHANGED <<delay, delay_active, active, retry, hand, since, pushed, user,
                   signal, sent, breaks>>

(* A restart in the queue keeps the delay, unless the stop is forced.      *)
Decide(t) ==
    /\ pc[t] = "decide"
    /\ IF delay_active /\ (t = User \/ ~RestartWaits)
       THEN delay_active' = FALSE /\ Goto(t, "end") /\ UNCHANGED signal
       ELSE /\ signal' = IF t = User \/ ~delay_active THEN "stop" ELSE signal
            /\ Goto(t, Back(t)) /\ UNCHANGED delay_active
    /\ UNCHANGED <<delay, delay_capturing, active, retry, stream, hand, since,
                   pushed, user, sent, breaks>>

(* Mutant: the frontend is not told.                                       *)
EndStop_mute(t) ==
    /\ pc[t] = "end"
    /\ EndDataCapture(t)
    /\ Goto(t, Back(t))
    /\ UNCHANGED <<retry, stream, hand, since, pushed, user, signal, sent, breaks>>

EndStop(t) ==
    /\ pc[t] = "end"
    /\ EndDataCapture(t)
    /\ signal' = "stop"
    /\ Goto(t, Back(t))
    /\ UNCHANGED <<retry, stream, hand, since, pushed, user, sent, breaks>>

\* -------------------------------------------- the plugin and reconnecting

(* obs_output_begin_data_capture by the connect thread.                    *)
Connected ==
    /\ stream = "connecting" /\ stream' = "sending"
    /\ IF delay_active = delay_capturing /\ active
       THEN UNCHANGED <<delay, capture, reconnecting, signal>>
       ELSE /\ reconnecting' = FALSE
            /\ IF active
               THEN /\ delay_capturing' = TRUE
                    /\ signal' = IF reconnecting THEN "reconnect_success" ELSE "start"
                    /\ UNCHANGED <<delay, delay_active, active>>
               ELSE /\ \E p \in BOOLEAN : BeginDataCapture(p)
                    /\ signal' = IF reconnecting THEN "reconnect_success" ELSE "starting"
                    /\ UNCHANGED <<delay_data, delay_restart_refs, delay_capturing>>
    /\ UNCHANGED <<retries, stop_event, timer, thread, user, sent, breaks>>

(* output_reconnect; when it gives up, its thread ends the data capture.   *)
OutputReconnect ==
    LET tried == IF reconnecting THEN retries ELSE 0 IN
    IF tried >= RetryMax
    THEN /\ Calm("refusal", Quiet({"STOP"}))
         /\ reconnecting' = FALSE /\ retries' = tried
         /\ delay_active' = FALSE
         /\ stream' = "ending"
         /\ UNCHANGED <<stop_event, timer, signal>>
    ELSE /\ reconnecting' = TRUE /\ retries' = tried + 1
         /\ stop_event' = (reconnecting /\ stop_event)
         /\ timer' = TRUE
         /\ stream' = "off"
         /\ signal' = "reconnect"
         /\ UNCHANGED delay_active

(* Mutant: the capture goes on.                                            *)
EndDelayedCapture_not == UNCHANGED delay_capturing

(* obs_output_end_data_capture while delay_active.                         *)
EndDelayedCapture == delay_capturing' = FALSE

(* send_thread loses the connection: obs_output_signal_stop.               *)
Disconnected ==
    /\ breaks < MaxBreaks /\ stream = "sending"
    /\ \A t \in Thread : pc[t] # "join"
    /\ Calm("loss", Pending("START") = 0)
    /\ breaks' = breaks + 1
    /\ EndDelayedCapture /\ OutputReconnect
    /\ UNCHANGED <<delay, active, thread, user, sent>>

(* connect_thread fails: obs_output_signal_stop with another code.         *)
Refused ==
    /\ stream = "connecting"
    /\ EndDelayedCapture
    /\ IF reconnecting
       THEN OutputReconnect
       ELSE /\ Calm("refusal", Quiet({"STOP"}))
            /\ delay_active' = FALSE /\ stream' = "ending"
            /\ UNCHANGED <<retry, signal>>
    /\ UNCHANGED <<delay, active, thread, user, sent, breaks>>

(* The second half of obs_output_signal_stop.                              *)
PluginEnds ==
    /\ stream = "ending" /\ stream' = "off"
    /\ EndDataCapture(User)
    /\ signal' = "failed"
    /\ UNCHANGED <<retry, thread, user, sent, breaks>>

(* reconnect_thread: its time is over, or it is told to stop.              *)
Retry ==
    /\ timer /\ ~stop_event
    /\ timer' = FALSE
    /\ ActualStart
    /\ UNCHANGED <<delay_data, active_delay, preserve, capture, reconnecting,
                   retries, stop_event, thread, user, signal, sent, breaks>>

RetryCancelled ==
    /\ timer /\ stop_event
    /\ timer' = FALSE /\ reconnecting' = FALSE
    /\ UNCHANGED <<delay, capture, retries, stop_event, stream, thread, user,
                   signal, sent, breaks>>

\* ----------------------------------------------------------------- the time

Older(entry) == [entry EXCEPT !.age = @ + 1]

(* Every encoder has run and, but for "stall", every thread is done.       *)
Tick ==
    /\ active /\ pushed = Encoder
    /\ Calm("stall", stream # "ending" /\ \A t \in Thread : pc[t] = "idle")
    /\ \A i \in DOMAIN delay_data :
           delay_data[i].age < IF Kept THEN MaxAge - 1 ELSE MaxAge
    /\ \A e \in Encoder : since[e] < MaxAge
    /\ delay_data' = [i \in DOMAIN delay_data |-> Older(delay_data[i])]
    /\ hand' = [e \in Encoder |-> IF pc[e] = "handle" THEN Older(hand[e]) ELSE hand[e]]
    /\ since' = [e \in Encoder |-> IF pc[e] = "idle" THEN 0 ELSE since[e] + 1]
    /\ sent' = [e \in Encoder |-> IF sent[e] >= Never THEN Never ELSE sent[e] + 1]
    /\ pushed' = {} /\ pressed' = FALSE
    /\ UNCHANGED <<active_delay, delay_restart_refs, preserve, capture, retry,
                   stream, pc, command, signal, starts, stops, breaks>>

(* A tick of the frontend alone: the output is off.                        *)
TimePasses ==
    /\ ~active /\ pressed /\ pressed' = FALSE
    /\ UNCHANGED <<delay, capture, retry, stream, thread, command, starts, stops,
                   signal, sent, breaks>>

Plugin == Connected \/ Refused \/ PluginEnds
Reconnect == Retry \/ RetryCancelled
Stopper(t) == JoinThreads(t) \/ Decide(t) \/ EndStop(t)
Work(e) ==
    Encode(e) \/ PopPacket(e) \/ ProcessPacket(e) \/ ProcessStart(e) \/ ProcessStop(e)

Next ==
    \/ Start \/ Stop \/ ForceStop \/ Disconnected \/ Plugin \/ Reconnect
    \/ Tick \/ TimePasses
    \/ \E t \in Thread : Stopper(t)
    \/ \E e \in Encoder : Work(e)

Spec == Init /\ [][Next]_vars
(* The connection comes or is refused, the retry is timed, and the threads *)
(* of this process run; time passes when they are done.                    *)
FairSpec ==
    /\ Spec /\ WF_vars(Plugin) /\ WF_vars(Reconnect)
    /\ WF_vars(Tick \/ (\E t \in Thread : Stopper(t)) \/ (\E e \in Encoder : Work(e)))

\* --------------------------------------------------------------- properties

Messages == Encoder \cup Commands
Ages == 0..MaxAge

(* The type invariant.                                                     *)
TypeOK ==
    /\ delay_data \in Seq([msg : Messages, age : Ages])
    /\ active_delay \in Ages \cup {Wrapped}
    /\ delay_restart_refs \in 0..MaxStarts /\ preserve \in BOOLEAN
    /\ delay_active \in BOOLEAN /\ delay_capturing \in BOOLEAN /\ active \in BOOLEAN
    /\ reconnecting \in BOOLEAN /\ retries \in 0..RetryMax
    /\ stop_event \in BOOLEAN /\ timer \in BOOLEAN
    /\ stream \in {"off", "connecting", "sending", "ending"}
    /\ pc \in [Thread -> {"idle", "pop", "handle", "join", "decide", "end"}]
    /\ since \in [Encoder -> Ages] /\ pushed \subseteq Encoder
    /\ sent \in [Encoder -> Nat]

(* A packet waits for the whole delay before it is handed on.              *)
DelayKept == [][\A e \in Encoder : sent'[e] < sent[e] => sent'[e] > Delay]_sent

(* The packets of an encoder are handed on in their order, although two    *)
(* threads pop them and hand them on after they have released delay_mutex. *)
InOrder ==
    [][\A e, f \in Encoder :
        ProcessPacket(e) /\ HandOn /\ hand[e].msg = f => hand[e].age < sent[f]]_vars

(* While the delay is on, delay_restart_refs counts the restarts: the      *)
(* START entries that wait behind a STOP.                                  *)
RestartsCounted == delay_active => delay_restart_refs <= Pending("START")

(* What the frontend is told last agrees with what it has asked for last:  *)
(* no earlier STOP in the queue ends an output that was started again.     *)
RestartKept == signal = "stop" => command = "stop"

(* Packets are handed to the plugin only while it has a connection, and a  *)
(* connection gets packets as soon as it is there.                         *)
CapturingIsSending == delay_active => (delay_capturing <=> stream = "sending")

(* An output that has ended leaves nothing to the next one.                *)
NothingLeft == ~active => delay_data = <<>> /\ active_delay = 0 /\ delay_restart_refs = 0

(* obs_output_stop ends: the output stops, unless it is started again.     *)
StopEnds == command = "stop" ~> ~active \/ command = "start"

(* obs_output_start is answered.                                           *)
StartAnswered == signal = "starting" ~> signal # "starting"

(* The delay is consistent: restarts are counted, packets go where the     *)
(* connection is, and nothing is left over.                                *)
DelayConsistent == TypeOK /\ RestartsCounted /\ CapturingIsSending /\ NothingLeft

(* Packets are handed on in order and not before their time.               *)
HandedOnInTime == DelayKept /\ InOrder

(* A start and a stop that wait in the queue are answered.                 *)
CommandsEnd == StopEnds /\ StartAnswered

=============================================================================
