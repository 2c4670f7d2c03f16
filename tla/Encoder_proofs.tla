---------------------------- MODULE Encoder_proofs ----------------------------
(***************************************************************************)
(* Proofs about one encoder, for every set of outputs: it is alive while   *)
(* the media thread encodes, a stopped output is not called back, and its  *)
(* callbacks, its connection and its state agree.  Calls do not overlap,   *)
(* as in the frontend; when they do, the properties are false.             *)
(***************************************************************************)
EXTENDS Encoder, TLAPS

(* The last output takes the encoder down.                                 *)
Stopping == {"disconnect", "wait", "shutdown", "deactivate"}

(* One output is inside a call at a time, and not while the encoder fails. *)
OneCaller ==
    /\ \A o, p \in Outputs : pc[o] \notin Resting /\ pc[p] \notin Resting => o = p
    /\ Failing => \A o \in Outputs : pc[o] \in Resting

(* The media thread is at work only for a connected encoder, which is      *)
(* created; it disconnects itself before it takes the encoder down.        *)
Media ==
    /\ media \in {"encode", "deliver", "fail"} => connected
    /\ media \in {"wait", "shutdown"} => ~connected /\ callbacks = {}
    /\ callbacks_mutex <=> media \in {"wait", "shutdown"}
    /\ data_usage_state = "inuse" <=> media = "encode"
    /\ connected => data /\ data_usage_state # "destroy"
    /\ data /\ data_usage_state = "destroy" =>
          media = "shutdown" \/ \E o \in Outputs : pc[o] = "shutdown"

(* Nobody has taken over: the callbacks and the connection agree.          *)
Settled ==
    /\ (\A o \in Outputs : pc[o] \in Resting \cup {"start"})
          /\ media \notin {"wait", "shutdown"}
       => /\ callbacks # {} <=> connected
          /\ connected <=> active
    /\ \A o \in Outputs : pc[o] = "start" => data

(* What the first output has connected, and the last one disconnected.     *)
TakenOver ==
    \A o \in Outputs :
        /\ pc[o] = "create" => callbacks = {} /\ ~connected /\ ~active
        /\ pc[o] = "connect" => callbacks = {o} /\ ~connected /\ ~active /\ data
        /\ pc[o] = "activate" => callbacks = {o} /\ connected /\ ~active
        /\ pc[o] \in Stopping => callbacks = {} /\ active
        /\ pc[o] = "disconnect" => connected
        /\ pc[o] \in Stopping \ {"disconnect"} => ~connected
        /\ pc[o] = "wait" => data
        /\ pc[o] = "shutdown" => data_usage_state = "destroy"
        /\ pc[o] = "deactivate" => ~data

(* The inductive invariant.                                                *)
IInv == TypeOK /\ NoPacketAfterStop /\ OneCaller /\ Media /\ Settled /\ TakenOver

-----------------------------------------------------------------------------
(* The encoder is created by nobody and used by nobody.                    *)
LEMMA InitIInv == Init => IInv
  BY DEF Init, IInv, TypeOK, NoPacketAfterStop, OneCaller, Media, Settled, TakenOver,
         Resting, Failing, Stopping

(* What an output does.                                                    *)
LEMMA OutputStepIInv ==
    ASSUME ~Overlap, IInv, NEW o \in Outputs, OutputStep(o)
    PROVE  IInv'
  <1> USE DEF IInv, TypeOK, NoPacketAfterStop, OneCaller, Media, Settled, TakenOver,
              Resting, Failing, Stopping, Goto, MayCall
  <1>1. CASE Initialize(o)
    BY <1>1 DEF Initialize, InUse
  <1>2. CASE Create(o)
    BY <1>2 DEF Create, StateOfNewData
  <1>3. CASE Start(o)
    BY <1>3 DEF Start
  <1>4. CASE AddCallback(o)
    BY <1>4 DEF AddCallback, IsFirst
  <1>5. CASE Connect(o)
    BY <1>5 DEF Connect
  <1>6. CASE Activate(o)
    BY <1>6 DEF Activate
  <1>7. CASE Stop(o)
    BY <1>7 DEF Stop, IsLast, Without, FirstWithout
  <1>8. CASE Disconnect(o)
    BY <1>8 DEF Disconnect
  <1>9. CASE WaitIdle(o)
    BY <1>9 DEF WaitIdle
  <1>10. CASE Shutdown(o)
    BY <1>10 DEF Shutdown
  <1>11. CASE Deactivate(o)
    BY <1>11 DEF Deactivate
  <1>12. QED
    BY <1>1, <1>2, <1>3, <1>4, <1>5, <1>6, <1>7, <1>8, <1>9, <1>10, <1>11 DEF OutputStep

(* What the media thread does.                                             *)
LEMMA MediaStepIInv ==
    ASSUME ~Overlap, IInv, MediaStep
    PROVE  IInv'
  <1> USE DEF IInv, TypeOK, NoPacketAfterStop, OneCaller, Media, Settled, TakenOver,
              Resting, Failing, Stopping, MayFail
  <1>1. CASE Receive
    BY <1>1 DEF Receive
  <1>2. CASE Encode
    BY <1>2 DEF Encode
  <1>3. CASE Deliver
    BY <1>3 DEF Deliver, Takes
  <1>4. CASE FullStop
    BY <1>4 DEF FullStop
  <1>5. CASE FullWaitIdle
    BY <1>5 DEF FullWaitIdle
  <1>6. CASE FullShutdown
    BY <1>6 DEF FullShutdown
  <1>7. QED
    BY <1>1, <1>2, <1>3, <1>4, <1>5, <1>6 DEF MediaStep

(* The invariant is inductive, whatever the number of outputs.             *)
LEMMA Invariance == ~Overlap /\ Spec => []IInv
  <1>1. SUFFICES ASSUME ~Overlap PROVE Spec => []IInv
    OBVIOUS
  <1>2. IInv /\ [Next]_vars => IInv'
    <2>1. CASE Next
      BY <1>1, <2>1, OutputStepIInv, MediaStepIInv DEF Next
    <2>2. CASE UNCHANGED vars
      BY <2>2 DEF vars, IInv, TypeOK, NoPacketAfterStop, OneCaller, Media, Settled,
                  TakenOver, Resting, Failing, Stopping
    <2>3. QED
      BY <2>1, <2>2
  <1>3. QED
    BY <1>2, InitIInv, PTL DEF Spec

-----------------------------------------------------------------------------
(* info.encode is never called with an encoder that was destroyed, an      *)
(* output whose obs_encoder_stop has returned is not called back, and      *)
(* obs_encoder_stop waits for nothing but the end of an encode.            *)
THEOREM EncoderSafeHolds == ~Overlap /\ Spec => []EncoderSafe
  <1>1. IInv => EncoderSafe
    <2> SUFFICES ASSUME IInv PROVE EncoderSafe
      OBVIOUS
    <2>1. EncodesLiveData
      BY DEF IInv, Media, EncodesLiveData
    <2>2. WaitsForEncode
      <3> SUFFICES ASSUME NEW o \in Outputs, pc[o] = "wait", data_usage_state # "idle"
                   PROVE  media = "encode"
        BY DEF WaitsForEncode
      <3>1. data /\ \A p \in Outputs : pc[p] # "shutdown"
        BY DEF IInv, TakenOver, OneCaller, Resting
      <3>2. media # "shutdown"
        BY DEF IInv, OneCaller, Failing, Resting
      <3>3. data_usage_state # "destroy"
        BY <3>1, <3>2 DEF IInv, Media
      <3>4. QED
        BY <3>3 DEF IInv, Media, TypeOK
    <2>3. QED
      BY <2>1, <2>2 DEF EncoderSafe, IInv
  <1>2. QED
    BY <1>1, Invariance, PTL

(* No output is left with a callback that is never served because another  *)
(* output has disconnected or destroyed the encoder they share.            *)
THEOREM CallbacksAreServedHolds == ~Overlap /\ Spec => []CallbacksAreServed
  <1>1. IInv => CallbacksAreServed
    BY DEF IInv, Settled, Media, CallbacksAreServed, Quiet, Resting, TypeOK
  <1>2. QED
    BY <1>1, Invariance, PTL

=============================================================================
