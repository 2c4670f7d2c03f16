----------------------------- MODULE StreamOutput -----------------------------
(***************************************************************************)
(* The life of an RTMP output: obs_output_start / obs_output_stop of       *)
(* libobs/obs-output.c, the automatic reconnect of the same file, and the  *)
(* connect and send threads of plugins/obs-outputs/rtmp-stream.c, all of   *)
(* which read and write the two structs without a lock.                    *)
(*                                                                         *)
(* Every thread ever created has an entry in threads; the pthread_t of a   *)
(* struct field names the newest thread of its kind.  Output delay is off  *)
(* (the configuration in which obs_output_stop calls actual_stop).         *)
(***************************************************************************)
EXTENDS Integers, Sequences, FiniteSets

CONSTANTS
    RetryMax,       \* reconnect_retry_max
    Sessions,       \* what may happen, see session
    MaxThreads      \* bound: threads of a kind that a session creates

Session == [
    stopWhen : {"never", "streaming", "any"},
                             \* what the frontend sees when it calls
                             \* obs_output_stop
    earlyBreak : BOOLEAN,    \* a connection may be lost before it is announced
    startMayFail : BOOLEAN,  \* rtmp_stream_start may fail (encoder, service)
    starts : Nat,            \* bound: calls of obs_output_start
    stops : Nat,             \* bound: calls of obs_output_stop
    breaks : Nat]            \* bound: connections lost while sending

ASSUME StreamAssumption ==
    RetryMax \in Nat /\ MaxThreads \in Nat /\ Sessions \subseteq Session

VARIABLES
    output,     \* struct obs_output
    stream,     \* struct rtmp_stream
    threads,    \* kind -> the program counter of every thread of that kind
    detached,   \* the threads pthread_detach was called on
    user,       \* the frontend's thread in obs_output_stop
    joining,    \* the thread its pthread_join waits for
    signals,    \* the last signal of the output, as the frontend hears it
    session,    \* the member of Sessions that this is
    starts, stops, breaks

frontend == <<user, joining>>
counts == <<session, starts, stops, breaks>>
vars == <<output, stream, threads, detached, frontend, signals, counts>>

Kinds == {"connect", "send", "reconnect"}

Init ==
    /\ output = [stopped |-> FALSE, active |-> FALSE, reconnecting |-> FALSE,
                 reconnect_retries |-> 0, reconnect_stop_event |-> FALSE,
                 reconnect_thread_active |-> FALSE]
    /\ stream = [active |-> FALSE, stop_event |-> FALSE, send_sem |-> FALSE]
    /\ threads = [k \in Kinds |-> <<>>]
    /\ detached = {}
    /\ user = "idle" /\ joining = <<"none", 0>> /\ signals = "none"
    /\ session \in Sessions /\ starts = 0 /\ stops = 0 /\ breaks = 0

At(kind, i, pc) == i \in DOMAIN threads[kind] /\ threads[kind][i] = pc

(* A thread moves on.                                                      *)
Goto(kind, i, pc) == threads' = [threads EXCEPT ![kind][i] = pc]

(* A thread moves on and creates another one.                              *)
GotoCreate(kind, i, pc, new, entry) ==
    threads' = [k \in Kinds |->
        LET own == IF k = kind THEN [threads[k] EXCEPT ![i] = pc]
                               ELSE threads[k]
        IN IF k = new THEN Append(own, entry) ELSE own]

(* pthread_detach of the thread the struct field names.                    *)
DetachNewest(kind) == detached' = detached \cup {<<kind, Len(threads[kind])>>}

(* pthread_join of it reads the field, and returns when that thread has    *)
(* ended; for a thread that was detached it may fail at once.              *)
JoinNewest(kind) == joining' = <<kind, Len(threads[kind])>>
Joined == At(joining[1], joining[2], "done") \/ joining \in detached

(* The frontend believes in the stream between its start and a "stop".     *)
Running == signals \notin {"none", "stop"}

(* Mutant: the capture is not ended.                                       *)
EndCapture_not(o) == o

(* obs_output_end_data_capture.                                            *)
EndCapture(o) == [o EXCEPT !.active = FALSE]

(* Mutant: the semaphore is not posted.                                    *)
PostSend_not(s) == s

(* os_sem_post(stream->send_sem).                                          *)
PostSend(s) == [s EXCEPT !.send_sem = TRUE]

\* ---------------------------------------------------------- frontend calls

(* Everything that can run without waiting for the network, a packet or an *)
(* event has run.  The retry delay (seconds, doubled with every retry) and *)
(* a frontend's next start take that long.                                 *)
Settled ==
    /\ user \in {"idle", "join_reconnect", "join_send"}
    /\ user # "idle" => ~Joined
    /\ \A i \in DOMAIN threads["connect"] :
          threads["connect"][i] \in {"try", "done"}
    /\ \A i \in DOMAIN threads["send"] :
          threads["send"][i] \in {"wait", "done"}
    /\ \A i \in DOMAIN threads["reconnect"] :
          threads["reconnect"][i] \in {"wait", "done"}

(* obs_output_start: rtmp_stream_start refuses an output that is active.   *)
UserStart ==
    /\ user = "idle" /\ ~Running /\ starts < session.starts /\ Settled
    /\ starts' = starts + 1
    /\ output' = [output EXCEPT !.stopped = FALSE]
    /\ IF output.active
       THEN UNCHANGED <<threads, signals>>
       ELSE /\ threads' = [threads EXCEPT !["connect"] = Append(@, "try")]
            /\ signals' = "starting"
    /\ UNCHANGED <<stream, detached, frontend, session, stops, breaks>>

StopPressed ==
    CASE session.stopWhen = "never" -> FALSE
      [] session.stopWhen = "streaming" -> signals \in {"start", "reconnect_success"}
      [] OTHER -> TRUE

(* obs_output_actual_stop: stop the data, wake a waiting reconnect.        *)
UserStop ==
    /\ user = "idle" /\ Running /\ StopPressed /\ stops < session.stops
    /\ stops' = stops + 1
    /\ output' = [output EXCEPT !.stopped = TRUE,
                                !.reconnect_stop_event = TRUE]
    /\ user' = "check_reconnect"
    /\ UNCHANGED <<stream, threads, detached, joining, signals, session, starts, breaks>>

UserChecksReconnect ==
    /\ user = "check_reconnect"
    /\ IF output.reconnect_thread_active
       THEN user' = "join_reconnect" /\ JoinNewest("reconnect")
       ELSE user' = "info_stop" /\ UNCHANGED joining
    /\ UNCHANGED <<output, stream, threads, detached, signals, counts>>

UserJoins(pc, next) ==
    /\ user = pc /\ Joined
    /\ user' = next
    /\ UNCHANGED <<output, stream, threads, detached, joining, signals, counts>>

UserJoinsReconnect == UserJoins("join_reconnect", "info_stop")
UserJoinsSend == UserJoins("join_send", "end_data_capture")

(* rtmp_stream_stop: nothing in rtmp-stream.c sets stream->connecting, so   *)
(* the connect thread is never joined.                                     *)
StreamStop ==
    /\ user = "info_stop"
    /\ stream' = [stream EXCEPT !.stop_event = TRUE]
    /\ user' = "check_active"
    /\ UNCHANGED <<output, threads, detached, joining, signals, counts>>

UserChecksActive ==
    /\ user = "check_active"
    /\ IF stream.active
       THEN /\ stream' = PostSend(stream)
            /\ user' = "join_send" /\ JoinNewest("send")
       ELSE /\ user' = "reset_stop_event"
            /\ UNCHANGED <<stream, joining>>
    /\ UNCHANGED <<output, threads, detached, signals, counts>>

UserEndsCapture ==
    /\ user = "end_data_capture"
    /\ output' = EndCapture(output)
    /\ user' = "reset_stop_event"
    /\ UNCHANGED <<stream, threads, detached, joining, signals, counts>>

UserResetsStopEvent ==
    /\ user = "reset_stop_event"
    /\ stream' = [stream EXCEPT !.stop_event = FALSE]
    /\ user' = "signal_stop"
    /\ UNCHANGED <<output, threads, detached, joining, signals, counts>>

UserSignalsStop ==
    /\ user = "signal_stop"
    /\ signals' = "stop" /\ user' = "idle"
    /\ UNCHANGED <<output, stream, threads, detached, joining, counts>>

Frontend ==
    \/ UserChecksReconnect \/ UserJoinsReconnect \/ StreamStop
    \/ UserChecksActive \/ UserJoinsSend
    \/ UserEndsCapture \/ UserResetsStopEvent \/ UserSignalsStop

\* -------------------------------------------------------- output_reconnect

(* Where a thread goes on after obs_output_signal_stop returned.           *)
AfterSignal(kind) == IF kind = "connect" THEN "leave" ELSE "inactive"

(* A new series of retries counts from zero.                               *)
Retries == IF output.reconnecting THEN output.reconnect_retries ELSE 0
RetriesLeft == Retries < RetryMax

GivenUp(o) == [o EXCEPT !.reconnecting = FALSE, !.reconnect_retries = Retries]

(* output_reconnect: the retries are used up; a "stop" is the last word.   *)
GiveUp(kind, i) ==
    /\ At(kind, i, "reconnect") /\ ~RetriesLeft
    /\ output' = GivenUp(output)
    /\ Goto(kind, i, AfterSignal(kind))
    /\ signals' = "stop"
    /\ UNCHANGED <<stream, detached, frontend, counts>>

(* output_reconnect: count the retry; the first one of a series unsets the *)
(* event that a stopping frontend sets.                                    *)
Retry(kind, i) ==
    /\ At(kind, i, "reconnect") /\ RetriesLeft
    /\ output' = [output EXCEPT
                    !.reconnecting = TRUE,
                    !.reconnect_stop_event = @ /\ output.reconnecting,
                    !.reconnect_retries = Retries + 1]
    /\ Goto(kind, i, "create_reconnect")
    /\ UNCHANGED <<stream, detached, frontend, signals, counts>>

(* Mutant: pthread_create failed unnoticed.                                *)
CreateReconnect_none(kind, i) ==
    /\ At(kind, i, "create_reconnect")
    /\ Goto(kind, i, AfterSignal(kind))
    /\ signals' = "reconnect"
    /\ UNCHANGED <<output, stream, detached, frontend, counts>>

(* output_reconnect: the thread that waits and restarts.                   *)
CreateReconnect(kind, i) ==
    /\ At(kind, i, "create_reconnect")
    /\ GotoCreate(kind, i, AfterSignal(kind), "reconnect", "created")
    /\ signals' = "reconnect"
    /\ UNCHANGED <<output, stream, detached, frontend, counts>>

OutputReconnect(kind, i) ==
    GiveUp(kind, i) \/ Retry(kind, i) \/ CreateReconnect(kind, i)

\* ---------------------------------------------------------- connect_thread

(* init_send: a new semaphore and a send thread that waits on it.          *)
ConnectSucceeds(i) ==
    /\ At("connect", i, "try")
    /\ stream' = [stream EXCEPT !.send_sem = FALSE]
    /\ GotoCreate("connect", i, "active", "send", "wait")
    /\ UNCHANGED <<output, detached, frontend, signals, counts>>

StreamActive(i) ==
    /\ At("connect", i, "active")
    /\ stream' = [stream EXCEPT !.active = TRUE]
    /\ Goto("connect", i, "begin_capture")
    /\ UNCHANGED <<output, detached, frontend, signals, counts>>

(* obs_output_begin_data_capture: the check, and later the assignment.     *)
BeginDataCapture(i) ==
    /\ At("connect", i, "begin_capture")
    /\ Goto("connect", i, IF output.active THEN "leave" ELSE "hooked")
    /\ UNCHANGED <<output, stream, detached, frontend, signals, counts>>

CaptureActive(i) ==
    /\ At("connect", i, "hooked")
    /\ output' = [output EXCEPT !.active = TRUE]
    /\ Goto("connect", i, "announce")
    /\ UNCHANGED <<stream, detached, frontend, signals, counts>>

(* Mutant: "start" is not signalled.                                       *)
AnnouncedSignal_none ==
    IF output.reconnecting THEN "reconnect_success" ELSE signals

AnnouncedSignal == IF output.reconnecting THEN "reconnect_success" ELSE "start"

Announce(i) ==
    /\ At("connect", i, "announce")
    /\ signals' = AnnouncedSignal
    /\ output' = [output EXCEPT !.reconnecting = FALSE]
    /\ Goto("connect", i, "leave")
    /\ UNCHANGED <<stream, detached, frontend, counts>>

(* try_connect failed: obs_output_signal_stop ends the capture.            *)
ConnectFails(i) ==
    /\ At("connect", i, "try")
    /\ output' = EndCapture(output)
    /\ Goto("connect", i, "failed")
    /\ UNCHANGED <<stream, detached, frontend, signals, counts>>

(* obs_output_signal_stop with an error code: retry only when this was one.*)
SignalFailure(i) ==
    /\ At("connect", i, "failed")
    /\ IF output.reconnecting
       THEN /\ Goto("connect", i, "reconnect")
            /\ UNCHANGED signals
       ELSE /\ Goto("connect", i, "leave")
            /\ signals' = "stop"
    /\ UNCHANGED <<output, stream, detached, frontend, counts>>

(* The end of connect_thread.                                              *)
ConnectEnds(i) ==
    /\ At("connect", i, "leave")
    /\ Goto("connect", i, "done")
    /\ UNCHANGED <<output, stream, detached, frontend, signals, counts>>

ConnectThread(i) ==
    \/ ConnectSucceeds(i) \/ ConnectFails(i) \/ StreamActive(i)
    \/ BeginDataCapture(i) \/ CaptureActive(i) \/ Announce(i)
    \/ SignalFailure(i) \/ ConnectEnds(i)
    \/ OutputReconnect("connect", i)

\* ------------------------------------------------------------- send_thread

(* An encoded packet reaches rtmp_stream_data, which posts the semaphore.  *)
Packet ==
    /\ output.active /\ ~output.stopped /\ ~stream.send_sem
    /\ stream' = PostSend(stream)
    /\ UNCHANGED <<output, threads, detached, frontend, signals, counts>>

(* os_sem_wait returns; more tokens may be left.                           *)
SendWakes(i) ==
    /\ At("send", i, "wait") /\ stream.send_sem
    /\ stream' \in {stream, [stream EXCEPT !.send_sem = FALSE]}
    /\ Goto("send", i, "woken")
    /\ UNCHANGED <<output, detached, frontend, signals, counts>>

SendPacket(i) ==
    /\ At("send", i, "woken") /\ ~stream.stop_event
    /\ Goto("send", i, "wait")
    /\ UNCHANGED <<output, stream, detached, frontend, signals, counts>>

(* RTMP_Write fails.                                                       *)
ConnectionLost ==
    /\ breaks < session.breaks
    /\ session.earlyBreak \/ \A c \in DOMAIN threads["connect"] :
                         ~At("connect", c, "announce")

(* The stop event is set, or the connection is lost.                       *)
SendBreaks(i) ==
    /\ At("send", i, "woken")
    /\ stream.stop_event \/ ConnectionLost
    /\ breaks' = IF stream.stop_event THEN breaks ELSE breaks + 1
    /\ Goto("send", i, "broken")
    /\ UNCHANGED <<output, stream, detached, frontend, signals, session, starts, stops>>

(* send_thread: nobody is stopping the stream, so the connection was lost. *)
SendLeaves(i) ==
    /\ At("send", i, "broken")
    /\ IF stream.stop_event
       THEN /\ Goto("send", i, "inactive")
            /\ UNCHANGED detached
       ELSE /\ Goto("send", i, "end_capture")
            /\ DetachNewest("send")
    /\ UNCHANGED <<output, stream, frontend, signals, counts>>

SendEndsCapture(i) ==
    /\ At("send", i, "end_capture")
    /\ output' = EndCapture(output)
    /\ Goto("send", i, "reconnect")
    /\ UNCHANGED <<stream, detached, frontend, signals, counts>>

SendEnds(i) ==
    /\ At("send", i, "inactive")
    /\ stream' = [stream EXCEPT !.active = FALSE]
    /\ Goto("send", i, "done")
    /\ UNCHANGED <<output, detached, frontend, signals, counts>>

SendThread(i) ==
    \/ SendWakes(i) \/ SendPacket(i) \/ SendBreaks(i) \/ SendLeaves(i)
    \/ SendEndsCapture(i) \/ SendEnds(i) \/ OutputReconnect("send", i)

\* -------------------------------------------------------- reconnect_thread

ReconnectBegins(i) ==
    /\ At("reconnect", i, "created")
    /\ output' = [output EXCEPT !.reconnect_thread_active = TRUE]
    /\ Goto("reconnect", i, "wait")
    /\ UNCHANGED <<stream, detached, frontend, signals, counts>>

ReconnectInterrupted(i) ==
    /\ At("reconnect", i, "wait") /\ output.reconnect_stop_event
    /\ Goto("reconnect", i, "check")
    /\ UNCHANGED <<output, stream, detached, frontend, signals, counts>>

ReconnectTimesOut(i) ==
    /\ At("reconnect", i, "wait") /\ ~output.reconnect_stop_event
    /\ Settled
    /\ Goto("reconnect", i, "restart")
    /\ UNCHANGED <<output, stream, detached, frontend, signals, counts>>

AfterRestart == "check"

(* obs_output_actual_start, whose result is not looked at.                 *)
Restart(i) ==
    /\ At("reconnect", i, "restart")
    /\ output' = [output EXCEPT !.stopped = FALSE]
    /\ \/ ~output.active
          /\ GotoCreate("reconnect", i, AfterRestart, "connect", "try")
       \/ (output.active \/ session.startMayFail)
          /\ Goto("reconnect", i, AfterRestart)
    /\ UNCHANGED <<stream, detached, frontend, signals, counts>>

ReconnectChecks(i) ==
    /\ At("reconnect", i, "check")
    /\ IF output.reconnect_stop_event
       THEN /\ output' = [output EXCEPT !.reconnecting = FALSE]
            /\ UNCHANGED detached
       ELSE /\ DetachNewest("reconnect")
            /\ UNCHANGED output
    /\ Goto("reconnect", i, "clear")
    /\ UNCHANGED <<stream, frontend, signals, counts>>

ReconnectEnds(i) ==
    /\ At("reconnect", i, "clear")
    /\ output' = [output EXCEPT !.reconnect_thread_active = FALSE]
    /\ Goto("reconnect", i, "done")
    /\ UNCHANGED <<stream, detached, frontend, signals, counts>>

ReconnectThread(i) ==
    \/ ReconnectBegins(i) \/ ReconnectInterrupted(i) \/ ReconnectTimesOut(i)
    \/ Restart(i) \/ ReconnectChecks(i) \/ ReconnectEnds(i)

Threads ==
    \/ \E i \in DOMAIN threads["connect"] : ConnectThread(i)
    \/ \E i \in DOMAIN threads["send"] : SendThread(i)
    \/ \E i \in DOMAIN threads["reconnect"] : ReconnectThread(i)

Next == UserStart \/ UserStop \/ Frontend \/ Packet \/ Threads

Spec == Init /\ [][Next]_vars

(* The scheduler runs every thread that can run; the encoders run on.      *)
ThreadIds == 1 .. MaxThreads

Fairness ==
    /\ WF_vars(Frontend)
    /\ \A i \in ThreadIds : /\ WF_vars(ConnectThread(i))
                             /\ WF_vars(SendThread(i))
                             /\ WF_vars(ReconnectThread(i))

FairSpec == Spec /\ Fairness

\* ---------------------------------------------------------------- properties

Alive(kind) == {i \in DOMAIN threads[kind] : threads[kind][i] # "done"}

ConnectPc == {"try", "active", "begin_capture", "hooked", "announce", "failed",
              "reconnect", "create_reconnect", "leave", "done"}
SendPc == {"wait", "woken", "broken", "end_capture", "reconnect",
           "create_reconnect", "inactive", "done"}
ReconnectPc == {"created", "wait", "restart", "check", "clear", "done"}

(* The type invariant: the fields, the program counters, and that retries  *)
(* and threads stay within their bounds.                                   *)
TypeOK ==
    /\ output \in [stopped : BOOLEAN, active : BOOLEAN,
                   reconnecting : BOOLEAN, reconnect_retries : 0 .. RetryMax,
                   reconnect_stop_event : BOOLEAN,
                   reconnect_thread_active : BOOLEAN]
    /\ stream \in [active : BOOLEAN, stop_event : BOOLEAN, send_sem : BOOLEAN]
    /\ DOMAIN threads = Kinds
    /\ threads["connect"] \in Seq(ConnectPc)
    /\ threads["send"] \in Seq(SendPc)
    /\ threads["reconnect"] \in Seq(ReconnectPc)
    /\ \A k \in Kinds : DOMAIN threads[k] \subseteq ThreadIds
    /\ detached \subseteq {"send", "reconnect"} \X ThreadIds

(* Sessions in which a broken promise of the code is out of the way: a stop *)
(* while the connect thread connects (it captures after the stop), a       *)
(* connection lost before it is announced, and a restart that fails at     *)
(* once, after which the output stays "reconnecting".                      *)
Undisturbed ==
    session.stopWhen = "never" /\ ~session.earlyBreak /\ ~session.startMayFail

(* No orphan capture: while encoded packets are let through to the stream  *)
(* a send thread is there to send them (begin_data_capture and             *)
(* end_data_capture against the life of send_thread).                      *)
CaptureHasSender ==
    Undisturbed /\ output.active /\ ~output.stopped => Alive("send") # {}

(* At most one retry is being timed: a failed restart and a lost           *)
(* connection never both call output_reconnect for the same loss.          *)
OneTimer ==
    Cardinality({i \in Alive("reconnect") :
                   threads["reconnect"][i] \in {"created", "wait"}}) <= 1

(* One connection at a time: init_send destroys and creates the semaphore  *)
(* of a stream whose last send thread has left it.                         *)
OneSender ==
    Cardinality({i \in Alive("send") :
                   threads["send"][i] \in {"wait", "woken"}}) <= 1

(* obs_output_stop returns: no pthread_join waits for a thread that waits  *)
(* for something else.                                                     *)
StopReturns == user # "idle" ~> user = "idle"

(* Every obs_output_start that returned true is answered by a signal.      *)
StartAnswered == signals = "starting" ~> signals # "starting"

(* A series of retries ends: "reconnecting" never stays set.               *)
ReconnectResolves == Undisturbed /\ output.reconnecting ~> ~output.reconnecting

(* A stream that was lost is captured again, or the frontend hears "stop". *)
LossResolved == Undisturbed /\ Running /\ ~output.active ~> output.active \/ ~Running

(* The threads of one stream do not pile up, and captured packets have one *)
(* that sends them.                                                        *)
ThreadsSound == TypeOK /\ OneTimer /\ OneSender /\ CaptureHasSender

(* However often a connection is lost and in whatever step of the threads, *)
(* the loss comes to an end.                                               *)
LossesResolved == ReconnectResolves /\ LossResolved

=============================================================================
