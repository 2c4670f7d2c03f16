------------------------------ MODULE RtmpQueue ------------------------------
(***************************************************************************)
(* The packet queue of plugins/obs-outputs/rtmp-stream.c: rtmp_stream_data *)
(* puts encoded packets in, dropping video when the network is too slow,   *)
(* and the send thread takes them out, woken by a semaphore.               *)
(*                                                                         *)
(* A packet has a kind: "audio", or the video frame types of an H.264      *)
(* stream in decoding order: "I" key frames, "P", "B" (a B frame that is   *)
(* itself a reference) and "b" (a disposable one).  Packets arrive in the  *)
(* order of their dts (obs-output.c interleaves them), so the packet's     *)
(* number in that order serves as its dts.                                 *)
(***************************************************************************)
EXTENDS Integers, Sequences, FiniteSets, FiniteSetsExt

CONSTANTS
    Gops,           \* the groups of pictures the encoder may produce
    DropThreshold,  \* drop_threshold_usec, in packets
    MinBuffered,    \* the least queue that is checked (5 in the code)
    MaxPackets      \* bound: packets the encoders produce

VideoKinds == {"I", "P", "B", "b"}

ASSUME QueueAssumption ==
    /\ \A g \in Gops : g \in Seq(VideoKinds) /\ g # <<>> /\ g[1] = "I"
    /\ DropThreshold \in Nat /\ MinBuffered \in Nat \ {0}
    /\ MaxPackets \in Nat

VARIABLES
    gop,            \* frames left of this group of pictures
    arrived,        \* every packet the encoders have produced
    anchors,        \* the last reference frames: at most two, and a "B"
    packets,        \* stream->packets
    last_dts,       \* last_dts_usec
    min_priority,
    dropped_frames,
    send_sem,       \* tokens in the semaphore
    producer,       \* rtmp_stream_data: "idle", or about to post
    sender,         \* send_thread: "wait", "woken", "send"
    sending,        \* the packet it sends
    sent            \* the packets it has sent

vars == <<gop, arrived, anchors, packets, last_dts, min_priority,
          dropped_frames, send_sem, producer, sender, sending, sent>>

NoPacket == [dts |-> 0, kind |-> "none", refs |-> {}]

Init ==
    /\ gop = <<>> /\ arrived = {}
    /\ anchors = [old |-> {}, new |-> {}, b |-> {}]
    /\ packets = <<>> /\ last_dts = 0
    /\ min_priority = 0 /\ dropped_frames = 0
    /\ send_sem = 0 /\ producer = "idle"
    /\ sender = "wait" /\ sending = NoPacket /\ sent = {}

(* serialize_avc_data: the priority is the nal_ref_idc of the slice.       *)
Priority(kind) == CASE kind = "I" -> 3 [] kind = "P" -> 2
                    [] kind = "B" -> 1 [] OTHER -> 0

(* get_drop_priority: what is more than LOW counts as HIGHEST.             *)
DropPriority(kind) == IF Priority(kind) <= 1 THEN Priority(kind) ELSE 3

\* -------------------------------------------------------------- the encoder

produced == Cardinality(arrived)

(* The next packet of the encoders: a frame of the group or audio.         *)
NextVideo(g) ==
    [dts |-> produced + 1, kind |-> g[1],
     refs |-> CASE g[1] = "I" -> {}
                [] g[1] = "P" -> anchors.new
                [] g[1] = "B" -> anchors.old \cup anchors.new
                [] OTHER -> anchors.old \cup anchors.new \cup anchors.b]

AnchorsAfter(p) ==
    CASE p.kind = "I" -> [old |-> {}, new |-> {p.dts}, b |-> {}]
      [] p.kind = "P" -> [old |-> anchors.new, new |-> {p.dts}, b |-> {}]
      [] p.kind = "B" -> [anchors EXCEPT !.b = {p.dts}]
      [] OTHER -> anchors

NextAudio == [dts |-> produced + 1, kind |-> "audio", refs |-> {}]

IsVideo(p) == p.kind # "audio"

\* -------------------------------------------------------------- drop_frames

(* First pass: do not drop audio data or video keyframes.                  *)
KeptFirst(p) == ~IsVideo(p) \/ DropPriority(p.kind) = 3

KeyframesIn(q) == {i \in DOMAIN q : q[i].kind = "I"}

(* Mutant: the count of key frames still to come is never decremented.     *)
KeptSecond_all(p, q) == p.kind # "P" \/ Cardinality(KeyframesIn(q)) <= 1

(* Second pass: while more than one key frame is still to come, the frames *)
(* between them go.                                                        *)
KeptSecond(p, q) ==
    \/ p.kind # "P"
    \/ LET before == {i \in KeyframesIn(q) : q[i].dts < p.dts}
       IN Cardinality(KeyframesIn(q)) - Cardinality(before) <= 1

(* The loops of both passes: what is at the given places is pushed back.   *)
PushedBack(q, places) ==
    LET after[n \in 0 .. Len(q)] ==
            IF n = 0 THEN <<>>
            ELSE IF n \in places THEN Append(after[n - 1], q[n])
            ELSE after[n - 1]
    IN after[Len(q)]

KeptPlaces(q) == {i \in DOMAIN q : KeptFirst(q[i]) /\ KeptSecond(q[i], q)}

(* Mutant: video and audio are put back one after the other.               *)
AfterDrop_regrouped(q) ==
    LET audio == {i \in DOMAIN q : ~IsVideo(q[i])}
    IN PushedBack(q, KeptPlaces(q) \ audio) \o PushedBack(q, audio)

AfterDrop(q) == PushedBack(q, KeptPlaces(q))

(* The highest drop priority among the packets of the first pass.          *)
DroppedPriority(q) ==
    Max({0} \cup {DropPriority(q[i].kind) :
                    i \in {j \in DOMAIN q : ~KeptFirst(q[j])}})

(* check_to_drop_frames: the queue holds more than the threshold.          *)
TooLong(q) ==
    Len(q) >= MinBuffered /\ last_dts - q[1].dts > DropThreshold

\* --------------------------------------------------------- rtmp_stream_data

(* A packet is added, or dropped on arrival, after the queue was thinned:  *)
(* one step, under packets_mutex.                                          *)
Arrive(p, q, min) ==
    IF IsVideo(p) /\ Priority(p.kind) < min
    THEN /\ packets' = q
         /\ min_priority' = min
         /\ dropped_frames' = dropped_frames + 1 + Len(packets) - Len(q)
         /\ UNCHANGED <<last_dts, producer>>
    ELSE /\ packets' = Append(q, p)
         /\ min_priority' = IF IsVideo(p) THEN 0 ELSE min
         /\ dropped_frames' = dropped_frames + Len(packets) - Len(q)
         /\ last_dts' = p.dts
         /\ producer' = "post"

VideoPacket ==
    /\ producer = "idle" /\ produced < MaxPackets
    /\ \E g \in (IF gop = <<>> THEN Gops ELSE {gop}) :
         LET p == NextVideo(g)
         IN /\ gop' = Tail(g)
            /\ arrived' = arrived \cup {p}
            /\ anchors' = AnchorsAfter(p)
            /\ IF TooLong(packets)
               THEN Arrive(p, AfterDrop(packets), DroppedPriority(packets))
               ELSE Arrive(p, packets, min_priority)
    /\ UNCHANGED <<send_sem, sender, sending, sent>>

AudioPacket ==
    /\ producer = "idle" /\ produced < MaxPackets
    /\ Arrive(NextAudio, packets, min_priority)
    /\ arrived' = arrived \cup {NextAudio}
    /\ UNCHANGED <<gop, anchors, send_sem, sender, sending, sent>>

(* Mutant: the semaphore holds one token at most.                          *)
Posted_binary(tokens) == 1

Posted(tokens) == tokens + 1

(* os_sem_post, after the mutex was released.                              *)
Post ==
    /\ producer = "post"
    /\ send_sem' = Posted(send_sem) /\ producer' = "idle"
    /\ UNCHANGED <<gop, arrived, anchors, packets, last_dts, min_priority,
                   dropped_frames, sender, sending, sent>>

\* -------------------------------------------------------------- send_thread

SemWait ==
    /\ sender = "wait" /\ send_sem > 0
    /\ send_sem' = send_sem - 1 /\ sender' = "woken"
    /\ UNCHANGED <<gop, arrived, anchors, packets, last_dts, min_priority,
                   dropped_frames, producer, sending, sent>>

(* get_next_packet; a token may be left over from a dropped packet.        *)
GetNextPacket ==
    /\ sender = "woken"
    /\ IF packets = <<>>
       THEN /\ sender' = "wait"
            /\ UNCHANGED <<packets, sending>>
       ELSE /\ packets' = Tail(packets) /\ sending' = packets[1]
            /\ sender' = "send"
    /\ UNCHANGED <<gop, arrived, anchors, last_dts, min_priority,
                   dropped_frames, send_sem, producer, sent>>

SendPacket ==
    /\ sender = "send"
    /\ sent' = sent \cup {sending} /\ sending' = NoPacket
    /\ sender' = "wait"
    /\ UNCHANGED <<gop, arrived, anchors, packets, last_dts, min_priority,
                   dropped_frames, send_sem, producer>>

Next == VideoPacket \/ AudioPacket \/ Post \/ SemWait \/ GetNextPacket
        \/ SendPacket

Spec == Init /\ [][Next]_vars

(* The send thread runs, and every RTMP_Write returns.                     *)
FairSpec == Spec /\ WF_vars(Post) /\ WF_vars(SemWait)
                 /\ WF_vars(GetNextPacket) /\ WF_vars(SendPacket)

\* ---------------------------------------------------------------- properties

Queued == {packets[i] : i \in DOMAIN packets}
Sending == IF sender = "send" THEN {sending} ELSE {}
OnTheWay == sent \cup Sending \cup Queued
Dts(s) == {p.dts : p \in s}

Packet == [dts : 1 .. MaxPackets, kind : {"I", "P", "B", "b", "audio"},
           refs : SUBSET (1 .. MaxPackets)]

(* The type invariant.                                                     *)
TypeOK ==
    /\ produced \in 0 .. MaxPackets
    /\ packets \in Seq(Packet) /\ sent \subseteq Packet
    /\ sending \in Packet \cup {NoPacket}
    /\ last_dts \in 0 .. produced /\ min_priority \in 0 .. 1
    /\ dropped_frames \in 0 .. produced /\ send_sem \in 0 .. produced
    /\ producer \in {"idle", "post"} /\ sender \in {"wait", "woken", "send"}

(* Dropping never breaks the chain of reference frames: a P frame that is  *)
(* kept (queued or sent) has the frame it refers to before it.             *)
ChainKept ==
    \A p \in OnTheWay : p.kind = "P" => p.refs \subseteq Dts(OnTheWay)

(* Packets leave in decoding order, whatever was dropped in between.       *)
QueueInOrder ==
    /\ \A i, j \in DOMAIN packets : i < j => packets[i].dts < packets[j].dts
    /\ \A p \in sent \cup Sending, q \in Queued : p.dts < q.dts

Dropped == arrived \ OnTheWay

(* "do not drop audio data or video keyframes", and every frame that is    *)
(* dropped is counted: the frontend shows the drop rate from the counter.  *)
OnlyFramesDropped ==
    /\ \A d \in Dropped : d.kind \in {"P", "B", "b"}
    /\ dropped_frames = Cardinality(Dropped)

(* Every queued packet has a token: the send thread never sleeps with work *)
(* in the queue.                                                           *)
TokensCover ==
    Len(packets) <= send_sem + (IF producer = "post" THEN 1 ELSE 0)
                             + (IF sender = "woken" THEN 1 ELSE 0)

(* What is queued is sent or dropped.                                      *)
QueueDrains == Queued # {} ~> Queued = {}

(* The queue is kept: dropping changes neither the order nor anything but  *)
(* frames, counts what it takes, and leaves a token for all the rest.      *)
QueueKept == TypeOK /\ QueueInOrder /\ OnlyFramesDropped /\ TokensCover

=============================================================================
