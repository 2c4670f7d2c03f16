--------------------------- MODULE BroadcastControl ---------------------------
(***************************************************************************)
(* The frontend's control of streaming and recording                       *)
(* (biliobs/src/BiLiOBSMainWid_BroadcastRecord.cpp): the two buttons, the  *)
(* worker thread that talks to the web API and stops the stream, the       *)
(* counted pending actions of a stop, and the OutputSignalMonitor that     *)
(* restarts the outputs after a change of the settings.                    *)
(*                                                                         *)
(* Four kinds of threads meet here: the GUI thread with its event queue,   *)
(* the worker with its task queue, the stream's own threads, and the user. *)
(* A slot of the GUI thread is one step, except where it runs a nested     *)
(* event loop (QDialog::exec) or hands tasks to the worker one by one.     *)
(* The outputs are seen through obs_output_start/stop and their signals;   *)
(* their insides are in StreamOutput.                                      *)
(***************************************************************************)
EXTENDS Integers, Sequences

CONSTANTS
    Failures,      \* what may fail: see StartStreaming, Connects, RunTask
    Hasty,         \* what may happen at an awkward moment: see Calm
    SyncRec,       \* configuration: record whatever is streamed
    MaxStarts,     \* bound: broadcasts started by a click
    MaxRecords,    \* bound: recordings started by a click
    MaxLosses,     \* bound: connections lost
    MaxSettings    \* bound: changes of the settings

ASSUME ControlAssumption ==
    /\ Failures \subseteq {"turn_on", "turn_off", "user_info", "start",
                           "connect", "restart", "retries"}
    /\ Hasty \subseteq {"click", "settings", "close", "signal"}
    /\ SyncRec \in BOOLEAN
    /\ {MaxStarts, MaxRecords, MaxLosses, MaxSettings} \subseteq Nat

VARIABLES
    app,        \* what the threads of the program share
    triggers,   \* the count of every BiliCounterTrigger
    counts      \* what the user and the network have done so far

vars == <<app, triggers, counts>>

NoMonitor == [alive |-> FALSE, chained |-> FALSE, isRecording |-> FALSE,
              isStreaming |-> FALSE, isDisconnecting |-> FALSE, leftTasks |-> 0]

Init ==
    /\ app = [status |-> "NORMAL_IDLE",      \* broadcastButtonOperator
              record |-> "IDLE",             \* recordButtonOperator
              stream |-> "off",              \* streamOutput
              file |-> "off",                \* fileOutput
              connected |-> FALSE,           \* broadcastReconnectSignal
              monitor |-> NoMonitor,         \* the DoReconnect object
              reset |-> "none",              \* the outputs at the last DoReset
              gui |-> "loop",                \* where the GUI thread is
              closing |-> FALSE,             \* in closeEvent
              events |-> <<>>,               \* the GUI thread's event queue
              tasks |-> <<>>,                \* the worker's task queue
              worker |-> TRUE]               \* isThreadRunning
    /\ triggers = <<>>
    /\ counts = [starts |-> 0, records |-> 0, losses |-> 0, settings |-> 0]

May(what) == IF what \in Failures THEN BOOLEAN ELSE {TRUE}

(* QMetaObject::invokeMethod from another thread; BiliThreadWorker::AddTask.*)
Post(a, slot) == [a EXCEPT !.events = Append(@, slot)]
AddTask(a, task, trigger) ==
    [a EXCEPT !.tasks = Append(@, [task |-> task, trigger |-> trigger])]

(* obs_output_active: reconnecting counts, connecting does not.            *)
StreamingActive(a) == a.stream \in {"on", "reconnecting"}
RecordingActive(a) == a.file = "on"

\* ----------------------------------------------------- the button operators

SetStatus(a, to) == [a EXCEPT !.status = to]
SetConnecting(a) ==
    IF a.status # "BROADCASTING" THEN SetStatus(a, "CONNECTING") ELSE a
SetDisconnecting(a) ==
    IF a.status \notin {"NORMAL_IDLE", "WAITING_NETWORK_API"}
    THEN SetStatus(a, "DISCONNECTING") ELSE a

SetRecord(a, from, to) == IF a.record \in from THEN [a EXCEPT !.record = to] ELSE a
SetIdle(a) == [a EXCEPT !.record = "IDLE"]
SetStarting(a) == SetRecord(a, {"IDLE"}, "STARTING")
SetRecording(a) == SetRecord(a, {"STARTING", "IDLE"}, "RECORDING")
SetStopping(a) == SetRecord(a, {"RECORDING"}, "STOPPING")

\* ------------------------------------------- OutputSignalMonitor_DoReconnect

(* Video, audio and sources are set up anew.                               *)
DoReset(a) ==
    [a EXCEPT !.reset = IF a.stream = "off" /\ a.file = "off"
                        THEN "stopped" ELSE "running"]

NewTask(a) == [a EXCEPT !.monitor.leftTasks = @ + 1]

(* finishOneTask, everything is stopped: reset, and start what was running.*)
StartAgain(a) ==
    LET record(b) == IF b.monitor.isRecording
                     THEN Post(SetStarting(NewTask(b)), "StartRecordingTask")
                     ELSE b
        stream(b) == IF b.monitor.isStreaming
                     THEN Post(SetStatus(NewTask(b), "WAITING_NETWORK_API"),
                               "StartStreamingTask")
                     ELSE b
    IN stream(record(DoReset([a EXCEPT !.monitor.isDisconnecting = FALSE])))

(* Mutant: the first answer is taken for the last.                         *)
FinishOneTask_first(a) ==
    LET b == [a EXCEPT !.monitor.leftTasks = @ - 1]
    IN IF b.monitor.isDisconnecting THEN StartAgain(b)
       ELSE [b EXCEPT !.gui = "used_dialog"]

FinishOneTask(a) ==
    LET b == [a EXCEPT !.monitor.leftTasks = @ - 1]
    IN IF b.monitor.leftTasks # 0 THEN b
       ELSE IF b.monitor.isDisconnecting THEN StartAgain(b)
       ELSE [b EXCEPT !.gui = "used_dialog"]

\* ------------------------------- signals of the outputs, through the monitor

RecordingStart(a) ==
    LET b == SetRecording(a)
    IN IF b.monitor.chained /\ b.monitor.isRecording
       THEN FinishOneTask(b) ELSE b

RecordingStop(a) ==
    IF a.monitor.chained THEN FinishOneTask(SetIdle(a)) ELSE SetIdle(a)

(* The monitor's inherited RecordingStopping passes on RecordingStarting.  *)
RecordingStopping(a) ==
    IF a.monitor.chained THEN SetStarting(a) ELSE SetStopping(a)

(* SimpleOutput::StartRecording and StopRecording on the GUI thread: the   *)
(* muxer signals inside the call and the slots run at once.                *)
StartRecording(a) ==
    IF a.file = "on" THEN a ELSE RecordingStart([a EXCEPT !.file = "on"])
StopRecording(a) == RecordingStopping(RecordingStop([a EXCEPT !.file = "off"]))

StreamingStart(a) ==
    LET b == SetStatus(a, "BROADCASTING")
        c == IF SyncRec /\ b.record = "IDLE" THEN StartRecording(b) ELSE b
    IN IF c.monitor.chained /\ c.monitor.isStreaming
       THEN FinishOneTask(c) ELSE c

(* Only a failed connection is shown.  The monitor has set the status to   *)
(* WAITING_NETWORK_API before it passes a stop on.                         *)
StreamingStop(a) ==
    IF a.monitor.chained
    THEN FinishOneTask(IF a.monitor.isDisconnecting
                       THEN SetStatus(a, "WAITING_NETWORK_API") ELSE a)
    ELSE IF a.status = "CONNECTING" THEN SetStatus(a, "NORMAL_IDLE") ELSE a

\* ---------------------------------------------------------------- the slots

(* SimpleOutput::StartStreaming: an output that runs refuses to start.     *)
StartStreaming(a, ok) ==
    IF ok /\ a.stream = "off" THEN [a EXCEPT !.stream = "connecting"] ELSE a

StartBroadcast(a, ok) ==
    StartStreaming([SetConnecting(a) EXCEPT !.connected = TRUE], ok)

(* The event loop, also the nested one of a dialog, runs the next slot.    *)
Slot(a, slot, ok) ==
    CASE slot = "SetNotRetrived" -> SetStatus(a, "NO_PUSHSERVER")
      [] slot = "SetNormalIdle" -> SetStatus(a, "NORMAL_IDLE")
      [] slot = "StartBroadcast" -> StartBroadcast(a, ok)
      [] slot = "OnBroadcastReconnect" -> SetStatus(a, "RECONNECTING")
      [] slot = "OnBroadcastReconnected" -> SetStatus(a, "BROADCASTING")
      [] slot = "StreamingStart" -> StreamingStart(a)
      [] slot = "StreamingStop" -> StreamingStop(a)
      [] slot = "StopRecordingTask" -> StopRecording(a)
      [] slot = "StartRecordingTask" -> StartRecording(a)
      [] slot = "StartStreamingTask" -> StartStreaming(a, ok)
      [] slot = "DeleteThis" -> [a EXCEPT !.monitor = NoMonitor]

HandleEvent ==
    /\ app.gui \in {"loop", "need_dialog", "used_dialog"} /\ app.events # <<>>
    /\ \E ok \in May("start") :
          app' = Slot([app EXCEPT !.events = Tail(@)], Head(app.events), ok)
    /\ UNCHANGED <<triggers, counts>>

\* ------------------------------------------------------------------- clicks

Reconnects == {"OnBroadcastReconnect", "OnBroadcastReconnected"}

(* What Hasty does not list waits for a calm moment.                       *)
Quiet == /\ app.gui = "loop" /\ app.events = <<>> /\ app.tasks = <<>>
         /\ app.stream # "connecting"
NoReconnectPosted == \A i \in DOMAIN app.events : app.events[i] \notin Reconnects
Calm(what) ==
    \/ what \in Hasty
    \/ CASE what = "click" -> ~app.monitor.chained
         [] what = "settings" -> Quiet
         [] what = "close" -> app.status \notin {"WAITING_NETWORK_API", "CONNECTING"}
         [] what = "signal" -> NoReconnectPosted

ClickRetry ==
    /\ app.gui = "loop" /\ app.status = "NO_PUSHSERVER"
    /\ app' = AddTask(SetStatus(app, "WAITING_NETWORK_API"), "RetriveUserInfo", 0)
    /\ UNCHANGED <<triggers, counts>>

ClickStart ==
    /\ app.gui = "loop" /\ app.status = "NORMAL_IDLE"
    /\ counts.starts < MaxStarts
    /\ counts' = [counts EXCEPT !.starts = @ + 1]
    /\ app' = AddTask(SetStatus(app, "WAITING_NETWORK_API"), "TurnOnRoom", 0)
    /\ UNCHANGED triggers

(* The rest of closeEvent follows OnStopBroadcastButtonClicked.            *)
AfterStop(a) == IF a.closing THEN "stop_worker" ELSE "loop"

(* Mutant: nothing holds the trigger back until Activate.                  *)
NewTrigger_zero == 0

(* BiliCounterTrigger::Create counts one for Activate.                     *)
NewTrigger == 1

(* OnStopBroadcastButtonClicked: the first of the three tasks.             *)
OnStop(a) ==
    IF StreamingActive(a)
    THEN /\ triggers' = Append(triggers, NewTrigger + 1)
         /\ app' = AddTask([a EXCEPT !.gui = "stop_danmaku"],
                           "StopStreaming", Len(triggers) + 1)
    ELSE /\ app' = [a EXCEPT !.gui = AfterStop(a)]
         /\ UNCHANGED triggers

ClickStop ==
    /\ app.gui = "loop" /\ app.status \in {"BROADCASTING", "RECONNECTING"}
    /\ StreamingActive(app) /\ Calm("signal")
    /\ OnStop(app)
    /\ UNCHANGED counts

(* StartPendingAction, then AddTask.                                       *)
PendingTask(a, task) ==
    /\ triggers' = [triggers EXCEPT ![Len(triggers)] = @ + 1]
    /\ app' = AddTask(a, task, Len(triggers))

StopDanmaku ==
    /\ app.gui = "stop_danmaku"
    /\ PendingTask([app EXCEPT !.gui = "stop_room"], "StopDanmaku")
    /\ UNCHANGED counts

StopRoom ==
    /\ app.gui = "stop_room"
    /\ PendingTask([SetDisconnecting(app) EXCEPT !.connected = FALSE,
                                                 !.gui = "activate"],
                   "TurnOffRoom")
    /\ UNCHANGED counts

(* BiliCounterTrigger::Dec: the last one runs SetNormalIdle where it is.   *)
FinishPending(a, trigger) ==
    IF trigger = 0
    THEN app' = a /\ UNCHANGED triggers
    ELSE /\ triggers' = [triggers EXCEPT ![trigger] = @ - 1]
         /\ app' = IF triggers[trigger] = 1 THEN SetStatus(a, "NORMAL_IDLE") ELSE a

Activate ==
    /\ app.gui = "activate"
    /\ FinishPending([app EXCEPT !.gui = AfterStop(app)], Len(triggers))
    /\ UNCHANGED counts

ClickRecord ==
    /\ app.gui = "loop" /\ app.record = "IDLE" /\ counts.records < MaxRecords
    /\ counts' = [counts EXCEPT !.records = @ + 1]
    /\ app' = StartRecording(app)
    /\ UNCHANGED triggers

ClickStopRecord ==
    /\ app.gui = "loop" /\ app.record = "RECORDING" /\ RecordingActive(app)
    /\ app' = StopRecording(app)
    /\ UNCHANGED <<triggers, counts>>

UserClicks ==
    /\ Calm("click")
    /\ \/ ClickRetry \/ ClickStart \/ ClickStop
       \/ ClickRecord \/ ClickStopRecord

\* -------------------------------------------------- a change of the settings

(* mRequestReconnect: reset at once if nothing runs, ask otherwise.        *)
Settings ==
    /\ app.gui = "loop" /\ Calm("settings") /\ counts.settings < MaxSettings
    /\ counts' = [counts EXCEPT !.settings = @ + 1]
    /\ app' = IF StreamingActive(app) \/ RecordingActive(app)
              THEN [app EXCEPT !.gui = "need_dialog"]
              ELSE DoReset(app)
    /\ UNCHANGED triggers

Decline ==
    /\ app.gui = "need_dialog"
    /\ app' = [app EXCEPT !.gui = "loop"]
    /\ UNCHANGED <<triggers, counts>>

(* The outputs are looked at again, stopped, and the monitor is chained.   *)
Accept ==
    /\ app.gui = "need_dialog"
    /\ LET monitor == [alive |-> TRUE, chained |-> TRUE, isDisconnecting |-> TRUE,
                       isRecording |-> RecordingActive(app),
                       isStreaming |-> StreamingActive(app), leftTasks |-> 0]
           a == [app EXCEPT !.gui = "loop", !.monitor = monitor]
           b == IF monitor.isRecording
                THEN Post(NewTask(a), "StopRecordingTask") ELSE a
       IN app' = IF monitor.isStreaming
                 THEN AddTask(NewTask(b), "StopStreaming", 0) ELSE b
    /\ UNCHANGED <<triggers, counts>>

(* finishOneTask after its last dialog.                                    *)
DialogEnds ==
    /\ app.gui = "used_dialog"
    /\ app' = Post([app EXCEPT !.gui = "loop", !.monitor.chained = FALSE],
                   "DeleteThis")
    /\ UNCHANGED <<triggers, counts>>

\* --------------------------------------------------------------- closeEvent

Close ==
    /\ app.gui = "loop" /\ Calm("close") /\ Calm("signal")
    /\ OnStop([app EXCEPT !.closing = TRUE])
    /\ UNCHANGED counts

(* BiliThreadWorker::Stop: a last task, and a wait that blocks the GUI.    *)
StopWorker ==
    /\ app.gui = "stop_worker"
    /\ app' = AddTask([app EXCEPT !.gui = "join_worker"], "stop", 0)
    /\ UNCHANGED <<triggers, counts>>

JoinWorker ==
    /\ app.gui = "join_worker" /\ ~app.worker
    /\ app' = [app EXCEPT !.gui = "closed"]
    /\ UNCHANGED <<triggers, counts>>

GuiThread ==
    \/ HandleEvent \/ StopDanmaku \/ StopRoom \/ Activate
    \/ DialogEnds \/ StopWorker \/ JoinWorker

\* --------------------------------------------------------------- the worker

(* obs_output_stop: a connection attempt is not ended, "stop" is signalled. *)
StopStreaming(a) ==
    Post(IF StreamingActive(a) THEN [a EXCEPT !.stream = "off"] ELSE a,
         "StreamingStop")

(* Mutant: a failed request to close the room is not shown.                *)
RunTask_mute(a, t, ok) ==
    CASE t.task = "TurnOnRoom" ->
            Post(a, IF ok THEN "StartBroadcast" ELSE "SetNotRetrived")
      [] t.task = "RetriveUserInfo" ->
            Post(a, IF ok THEN "SetNormalIdle" ELSE "SetNotRetrived")
      [] t.task = "TurnOffRoom" /\ ~ok -> a
      [] t.task = "StopStreaming" -> StopStreaming(a)
      [] t.task = "stop" -> [a EXCEPT !.worker = FALSE]
      [] OTHER -> a

(* What the task does, its trigger aside.                                  *)
RunTask(a, t, ok) ==
    CASE t.task = "TurnOnRoom" ->
            Post(a, IF ok THEN "StartBroadcast" ELSE "SetNotRetrived")
      [] t.task = "RetriveUserInfo" ->
            Post(a, IF ok THEN "SetNormalIdle" ELSE "SetNotRetrived")
      [] t.task = "TurnOffRoom" /\ ~ok -> Post(a, "SetNotRetrived")
      [] t.task = "StopStreaming" -> StopStreaming(a)
      [] t.task = "stop" -> [a EXCEPT !.worker = FALSE]
      [] OTHER -> a

Fallible(task) ==
    CASE task = "TurnOnRoom" -> May("turn_on")
      [] task = "TurnOffRoom" -> May("turn_off")
      [] task = "RetriveUserInfo" -> May("user_info")
      [] OTHER -> {TRUE}

(* The next task; a request that throws finishes no pending action.        *)
WorkerRuns ==
    /\ app.worker /\ app.tasks # <<>>
    /\ LET t == Head(app.tasks)
           a == [app EXCEPT !.tasks = Tail(@)]
       IN \E ok \in Fallible(t.task) :
             FinishPending(RunTask(a, t, ok), IF ok THEN t.trigger ELSE 0)
    /\ UNCHANGED counts

\* --------------------------------------------------- the stream's own threads

(* The connect thread: started by a click or, monitored, by a restart.     *)
Connects ==
    /\ app.stream = "connecting"
    /\ \E ok \in May(IF app.monitor.chained THEN "restart" ELSE "connect") :
          app' = IF ok
                 THEN Post([app EXCEPT !.stream = "on"], "StreamingStart")
                 ELSE Post([app EXCEPT !.stream = "off"], "StreamingStop")
    /\ UNCHANGED <<triggers, counts>>

(* Mutant: the signals stay connected when the user stops.                 *)
Reconnecting_always(a, slot) == Post(a, slot)

(* OnBroadcastReconnectCallback, while the signal is connected.            *)
Reconnecting(a, slot) == IF a.connected THEN Post(a, slot) ELSE a

InOnStop == app.gui \in {"stop_danmaku", "stop_room"}

Lost ==
    /\ app.stream = "on" /\ counts.losses < MaxLosses
    /\ "signal" \in Hasty \/ ~InOnStop
    /\ counts' = [counts EXCEPT !.losses = @ + 1]
    /\ app' = Reconnecting([app EXCEPT !.stream = "reconnecting"],
                           "OnBroadcastReconnect")
    /\ UNCHANGED triggers

(* A retry succeeds, or the last one has failed: "stop", DISCONNECTED.     *)
Regained ==
    /\ app.stream = "reconnecting"
    /\ "signal" \in Hasty \/ ~InOnStop
    /\ \E ok \in May("retries") :
          app' = IF ok
                 THEN Reconnecting([app EXCEPT !.stream = "on"],
                                   "OnBroadcastReconnected")
                 ELSE Post([app EXCEPT !.stream = "off"], "StreamingStop")
    /\ UNCHANGED <<triggers, counts>>

Next ==
    \/ UserClicks \/ Settings \/ Accept \/ Decline \/ Close
    \/ GuiThread \/ WorkerRuns \/ Connects \/ Lost \/ Regained

Spec == Init /\ [][Next]_vars

(* The threads run; a dialog is closed sooner or later.                    *)
Fairness == /\ WF_vars(GuiThread) /\ WF_vars(WorkerRuns)
            /\ WF_vars(Connects) /\ WF_vars(Regained) /\ WF_vars(Accept \/ Decline)

FairSpec == Spec /\ Fairness

\* ---------------------------------------------------------------- properties

Statuses == {"NO_PUSHSERVER", "WAITING_NETWORK_API", "NORMAL_IDLE", "BROADCASTING",
             "CONNECTING", "DISCONNECTING", "RECONNECTING"}

(* The type invariant; tasks and triggers stay within what the bounds allow.*)
TypeOK ==
    /\ app.status \in Statuses
    /\ app.record \in {"IDLE", "STARTING", "RECORDING", "STOPPING"}
    /\ app.stream \in {"off", "connecting", "on", "reconnecting"}
    /\ app.file \in {"off", "on"}
    /\ app.monitor.leftTasks \in 0 .. 2
    /\ Len(app.tasks) <= 7 /\ Len(triggers) <= MaxStarts + MaxSettings
    /\ \A t \in DOMAIN triggers : triggers[t] \in 0 .. 4

(* The buttons tell the truth: when nothing is under way, each shows what  *)
(* its output does, and so a click on it does what it says (the status of  *)
(* the button operators against obs_output_active).                        *)
ButtonTruth ==
    Quiet /\ app.worker =>
        /\ (app.status = "BROADCASTING") <=> (app.stream = "on")
        /\ (app.status = "RECONNECTING") <=> (app.stream = "reconnecting")
        /\ (app.record = "RECORDING") <=> (app.file = "on")
        /\ ~app.monitor.chained =>
               app.status \notin {"WAITING_NETWORK_API", "CONNECTING", "DISCONNECTING"}

(* Video and audio are reset only while no output uses them: DoReset waits *)
(* for the last of the counted stops (finishOneTask).                      *)
ResetWhenStopped == app.reset # "running"

(* The monitor deletes itself only when no task bound to it is left in     *)
(* either queue (DeleteThis against QueueTask and AsyncQueueTask).         *)
MonitorOutlivesTasks ==
    ~app.monitor.alive =>
        /\ \A i \in DOMAIN app.events : app.events[i] \notin
              {"StopRecordingTask", "StartRecordingTask", "StartStreamingTask"}
        /\ \A i \in DOMAIN app.tasks :
              app.tasks[i].task = "StopStreaming" => app.tasks[i].trigger # 0

(* Leaving the program leaves nothing running behind: the stop that        *)
(* closeEvent ordered is done before the worker's last task.               *)
ClosedIsOff == app.gui = "closed" => ~StreamingActive(app) /\ app.tasks = <<>>

(* The button returns to idle only when the stop is complete: a trigger    *)
(* fires after the stream went off and after the last of its three tasks,  *)
(* never while they are still being handed to the worker                   *)
(* (BiliCounterTrigger counts one for Activate).                           *)
IdleWhenDone ==
    [][\A t \in DOMAIN triggers :
         triggers[t] > 0 /\ triggers'[t] = 0 =>
            /\ app'.stream = "off"
            /\ \A i \in DOMAIN app'.tasks : app'.tasks[i].trigger # t
            /\ t = Len(triggers) => app'.gui \notin {"stop_danmaku", "stop_room"}]_vars

(* Waiting ends: no network call, connection attempt or stop leaves the    *)
(* button in a status in which clicks do nothing.                          *)
WaitingEnds ==
    app.status \in {"WAITING_NETWORK_API", "CONNECTING", "DISCONNECTING"}
        ~> \/ app.status \in {"NORMAL_IDLE", "NO_PUSHSERVER", "BROADCASTING", "RECONNECTING"}
           \/ app.gui = "closed"

(* A restart of the outputs ends: every task that finishOneTask waits for  *)
(* is answered by one signal.                                              *)
RestartEnds == app.monitor.chained ~> ~app.monitor.chained \/ app.gui = "closed"

(* closeEvent returns: the worker reaches its stop task.                   *)
CloseEnds == app.closing ~> app.gui = "closed"

(* Objects outlive what refers to them: outputs are reset and the program  *)
(* is left when they are off, a monitor goes after its last task.          *)
TeardownInOrder == TypeOK /\ ResetWhenStopped /\ MonitorOutlivesTasks /\ ClosedIsOff

(* No click, restart or close waits for ever.                              *)
WaitsEnd == WaitingEnds /\ RestartEnds /\ CloseEnds

=============================================================================
