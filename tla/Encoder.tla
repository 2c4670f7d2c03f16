-------------------------------- MODULE Encoder --------------------------------
(***************************************************************************)
(* One encoder of libobs/obs-encoder.c, shared by several outputs (the     *)
(* stream and the recording).  Outputs initialize, start and stop it from  *)
(* their own threads; the media thread (video-io.c or audio-io.c) encodes  *)
(* and calls the outputs back, holding input_mutex, and takes the encoder  *)
(* down itself when encoding fails (full_stop).                            *)
(*                                                                         *)
(* Critical sections are single steps; callbacks_mutex appears as a        *)
(* variable because full_stop holds it across several of them.             *)
(***************************************************************************)
EXTENDS Integers, FiniteSets

CONSTANTS
    Outputs,        \* the outputs that use the encoder
    Overlap,        \* may calls overlap with each other and with full_stop?
    EncodeMayFail,  \* may info.encode fail?
    MaxStarts       \* bound: obs_output_start calls of all outputs

ASSUME EncoderAssumption ==
    Overlap \in BOOLEAN /\ EncodeMayFail \in BOOLEAN /\ MaxStarts \in Nat

VARIABLES
    pc,             \* what each output is doing
    callbacks,      \* the outputs in encoder->callbacks
    sent_first,     \* those of them with sent_first_packet
    data,           \* encoder->context.data is not NULL
    data_usage_state,
    active,
    connected,      \* receive_video is an input of the media output
    media,          \* the media thread; not "idle": it has input_mutex
    callbacks_mutex,\* held by full_stop
    starts

vars == <<pc, callbacks, sent_first, data, data_usage_state, active,
          connected, media, callbacks_mutex, starts>>

Init ==
    /\ pc = [o \in Outputs |-> "off"]
    /\ callbacks = {} /\ sent_first = {} /\ data = FALSE
    /\ data_usage_state = "idle" /\ active = FALSE /\ connected = FALSE
    /\ media = "idle" /\ callbacks_mutex = FALSE
    /\ starts = 0

Goto(o, to) == pc' = [pc EXCEPT ![o] = to]

(* Resting: not inside a call.  A ready output is initialized and, like    *)
(* the RTMP output while it connects, not capturing yet.                   *)
Resting == {"off", "ready", "on"}
Failing == media \in {"fail", "wait", "shutdown"}
MayCall(o) ==
    Overlap \/ (~Failing /\ \A p \in Outputs \ {o} : pc[p] \in Resting)
MayFail == EncodeMayFail /\ (Overlap \/ \A o \in Outputs : pc[o] \in Resting)

\* --------------------------------------------- obs_encoder_initialize

(* Mutant: the encoder is created anew for every output.                   *)
InUse_never == FALSE

(* An encoder that is active is used as it is.                             *)
InUse == active

Initialize(o) ==
    /\ pc[o] = "off" /\ MayCall(o) /\ starts < MaxStarts
    /\ starts' = starts + 1
    /\ Goto(o, IF InUse THEN "ready" ELSE "create")
    /\ UNCHANGED <<callbacks, sent_first, data, data_usage_state, active,
                   connected, media, callbacks_mutex>>

(* Mutant: the state of the last session is kept.                          *)
StateOfNewData_kept == data_usage_state

StateOfNewData == "idle"

(* obs_encoder_shutdown and info.create.                                   *)
Create(o) ==
    /\ pc[o] = "create"
    /\ data' = TRUE /\ data_usage_state' = StateOfNewData
    /\ Goto(o, "ready")
    /\ UNCHANGED <<callbacks, sent_first, active, connected, media,
                   callbacks_mutex, starts>>

\* -------------------------------------------------- obs_encoder_start

(* Without data the call returns at once, and tells nobody.                *)
Start(o) ==
    /\ pc[o] = "ready" /\ MayCall(o)
    /\ Goto(o, IF data THEN "start" ELSE "on")
    /\ UNCHANGED <<callbacks, sent_first, data, data_usage_state, active,
                   connected, media, callbacks_mutex, starts>>

IsFirst == callbacks = {}

AddCallback(o) ==
    /\ pc[o] = "start" /\ ~callbacks_mutex
    /\ callbacks' = callbacks \cup {o}
    /\ Goto(o, IF IsFirst THEN "connect" ELSE "on")
    /\ UNCHANGED <<sent_first, data, data_usage_state, active, connected,
                   media, callbacks_mutex, starts>>

(* add_connection: video_output_connect, then active.                      *)
Connect(o) ==
    /\ pc[o] = "connect" /\ media = "idle"
    /\ connected' = TRUE
    /\ Goto(o, "activate")
    /\ UNCHANGED <<callbacks, sent_first, data, data_usage_state, active,
                   media, callbacks_mutex, starts>>

Activate(o) ==
    /\ pc[o] = "activate"
    /\ active' = TRUE
    /\ Goto(o, "on")
    /\ UNCHANGED <<callbacks, sent_first, data, data_usage_state, connected,
                   media, callbacks_mutex, starts>>

\* --------------------------------------------------- obs_encoder_stop

(* Mutant: whoever stops disconnects, whoever else still uses it.          *)
IsLast_any(o) == o \in callbacks

IsLast(o) == callbacks = {o}

Without(o) == callbacks \ {o}

FirstWithout(o) == sent_first \ {o}

Stop(o) ==
    /\ pc[o] = "on" /\ MayCall(o) /\ ~callbacks_mutex
    /\ callbacks' = Without(o) /\ sent_first' = FirstWithout(o)
    /\ Goto(o, IF IsLast(o) THEN "disconnect" ELSE "off")
    /\ UNCHANGED <<data, data_usage_state, active, connected, media,
                   callbacks_mutex, starts>>

(* remove_connection: video_output_disconnect waits for the media thread.  *)
Disconnect(o) ==
    /\ pc[o] = "disconnect" /\ media = "idle"
    /\ connected' = FALSE
    /\ Goto(o, "wait")
    /\ UNCHANGED <<callbacks, sent_first, data, data_usage_state, active,
                   media, callbacks_mutex, starts>>

WaitIdle(o) ==
    /\ pc[o] = "wait" /\ data_usage_state = "idle"
    /\ data_usage_state' = "destroy"
    /\ Goto(o, "shutdown")
    /\ UNCHANGED <<callbacks, sent_first, data, active, connected, media,
                   callbacks_mutex, starts>>

Shutdown(o) ==
    /\ pc[o] = "shutdown"
    /\ data' = FALSE
    /\ Goto(o, "deactivate")
    /\ UNCHANGED <<callbacks, sent_first, data_usage_state, active, connected,
                   media, callbacks_mutex, starts>>

Deactivate(o) ==
    /\ pc[o] = "deactivate"
    /\ active' = FALSE
    /\ Goto(o, "off")
    /\ UNCHANGED <<callbacks, sent_first, data, data_usage_state, connected,
                   media, callbacks_mutex, starts>>

\* --------------------------------------------- do_encode, media thread

(* The media output calls receive_video, or receive_audio.                 *)
Receive ==
    /\ media = "idle" /\ connected
    /\ IF data_usage_state = "idle"
       THEN data_usage_state' = "inuse" /\ media' = "encode"
       ELSE media' = "fail" /\ UNCHANGED data_usage_state
    /\ UNCHANGED <<pc, callbacks, sent_first, data, active, connected,
                   callbacks_mutex, starts>>

(* info.encode fails, keeps the frame, or returns a packet.                *)
Encode ==
    /\ media = "encode"
    /\ data_usage_state' = "idle"
    /\ \/ media' \in {"idle", "deliver"}
       \/ MayFail /\ media' = "fail"
    /\ UNCHANGED <<pc, callbacks, sent_first, data, active, connected,
                   callbacks_mutex, starts>>

(* send_packet: the first packet of an output is a key frame.              *)
Takes(o, keyframe) == keyframe \/ o \in sent_first

Deliver ==
    /\ media = "deliver" /\ ~callbacks_mutex
    /\ \E keyframe \in BOOLEAN :
          sent_first' = sent_first \cup {o \in callbacks : Takes(o, keyframe)}
    /\ media' = "idle"
    /\ UNCHANGED <<pc, callbacks, data, data_usage_state, active, connected,
                   callbacks_mutex, starts>>

(* full_stop: da_free(encoder->callbacks), and remove_connection           *)
(* disconnects the input (input_mutex is recursive).                       *)
FullStop ==
    /\ media = "fail" /\ ~callbacks_mutex
    /\ callbacks_mutex' = TRUE
    /\ callbacks' = {} /\ sent_first' = {} /\ connected' = FALSE
    /\ media' = "wait"
    /\ UNCHANGED <<pc, data, data_usage_state, active, starts>>

FullWaitIdle ==
    /\ media = "wait" /\ data_usage_state = "idle"
    /\ data_usage_state' = "destroy" /\ media' = "shutdown"
    /\ UNCHANGED <<pc, callbacks, sent_first, data, active, connected,
                   callbacks_mutex, starts>>

FullShutdown ==
    /\ media = "shutdown"
    /\ data' = FALSE /\ active' = FALSE
    /\ media' = "idle" /\ callbacks_mutex' = FALSE
    /\ UNCHANGED <<pc, callbacks, sent_first, data_usage_state, connected,
                   starts>>

OutputStep(o) ==
    \/ Initialize(o) \/ Create(o)
    \/ Start(o) \/ AddCallback(o) \/ Connect(o) \/ Activate(o)
    \/ Stop(o) \/ Disconnect(o) \/ WaitIdle(o) \/ Shutdown(o)
    \/ Deactivate(o)

MediaStep == Receive \/ Encode \/ Deliver \/ FullStop \/ FullWaitIdle
             \/ FullShutdown

Next == (\E o \in Outputs : OutputStep(o)) \/ MediaStep

Spec == Init /\ [][Next]_vars

(* The threads run.  Stopping waits for input_mutex and callbacks_mutex,   *)
(* which the media thread takes and leaves again and again.                *)
FairSpec ==
    /\ Spec /\ WF_vars(MediaStep)
    /\ \A o \in Outputs :
          /\ WF_vars(Create(o)) /\ WF_vars(AddCallback(o))
          /\ SF_vars(Connect(o)) /\ WF_vars(Activate(o))
          /\ SF_vars(Disconnect(o)) /\ WF_vars(WaitIdle(o))
          /\ WF_vars(Shutdown(o)) /\ WF_vars(Deactivate(o))

\* ---------------------------------------------------------------- properties

(* The type invariant.                                                     *)
TypeOK ==
    /\ pc \in [Outputs -> Resting \cup {"create", "start", "connect",
                 "activate", "disconnect", "wait", "shutdown", "deactivate"}]
    /\ sent_first \subseteq callbacks /\ callbacks \subseteq Outputs
    /\ data_usage_state \in {"idle", "inuse", "destroy"}
    /\ data \in BOOLEAN /\ active \in BOOLEAN
    /\ connected \in BOOLEAN /\ callbacks_mutex \in BOOLEAN
    /\ media \in {"idle", "encode", "deliver", "fail", "wait", "shutdown"}

(* The media thread never encodes with an encoder that was destroyed.      *)
EncodesLiveData == media = "encode" => data /\ data_usage_state = "inuse"

(* After obs_encoder_stop has returned the output is not called back.      *)
NoPacketAfterStop == callbacks \subseteq {o \in Outputs :
                        pc[o] \in {"connect", "activate", "on"}}

(* When nobody is inside a call, an encoder has callbacks exactly when it  *)
(* is connected, active and created: no output waits for an encoder that   *)
(* another output has taken down.                                          *)
Quiet == media = "idle" /\ \A o \in Outputs : pc[o] \in Resting
CallbacksAreServed ==
    Quiet => /\ (callbacks # {}) = connected
             /\ connected = active
             /\ connected => data

(* remove_connection waits only "if some program flow is still in          *)
(* info.encode() function".                                                *)
WaitsForEncode ==
    \A o \in Outputs : pc[o] = "wait" /\ data_usage_state # "idle"
                          => media = "encode"

(* obs_encoder_stop returns.                                               *)
StopReturns == \A o \in Outputs : pc[o] = "disconnect" ~> pc[o] = "off"

(* The encoder is safe to use: it is alive while the media thread encodes, *)
(* a stopped output is not called back, and no thread waits for anything   *)
(* but an encode.                                                          *)
EncoderSafe == TypeOK /\ EncodesLiveData /\ NoPacketAfterStop /\ WaitsForEncode

=============================================================================
