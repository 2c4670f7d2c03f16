------------------------------ MODULE Interleaver ------------------------------
(***************************************************************************)
(* interleave_packets of libobs/obs-output.c: the packets of one video     *)
(* encoder and of the audio encoders of an output are merged, by their     *)
(* dts, into one stream that starts at timestamp zero.                     *)
(*                                                                         *)
(* The encoders call it from two threads (the video thread and the audio   *)
(* thread, which hands every tick to the tracks in order); each call is    *)
(* one step, under interleaved_mutex.  A packet has the dts of its encoder *)
(* and dts_usec, "system time", the start_ts of the encoder plus the dts.  *)
(***************************************************************************)
EXTENDS Integers, Sequences, SequencesExt, FiniteSetsExt

CONSTANTS
    Tracks,         \* the number of audio encoders
    TickLen,        \* the time an audio packet covers
    FrameLen,       \* the time a video packet covers
    VideoStarts,    \* when the first video packet may be stamped
    LateStarts,     \* how many ticks after track 0 each track may begin
    FirstDts,       \* dts of a first packet (not 0: an encoder in use)
    MaxTime,        \* bound: system time of the packets
    MaxRestarts     \* bound: times the capture begins again

ASSUME InterleaverAssumption ==
    /\ Tracks \in Nat \ {0} /\ TickLen \in Nat \ {0} /\ FrameLen \in Nat \ {0}
    /\ VideoStarts \subseteq Nat \ {0} /\ LateStarts \subseteq Nat
    /\ FirstDts \in Int /\ MaxTime \in Nat /\ MaxRestarts \in Nat

Track == 0 .. Tracks - 1
Never == MaxTime + TickLen

VARIABLES
    interleaved_packets, received_audio, received_video,
    highest_audio_ts, highest_video_ts, video_offset, audio_offsets,
    video_start,    \* start_ts of the video encoder
    audio_start,    \* start_ts of every audio encoder
    video_time,     \* when the next video packet is stamped
    tick,           \* the audio tick being handed out
    track,          \* and the track it goes to next
    sent,           \* what went to the output's encoded_packet
    heard,          \* history: time of a track's first packet, or Never
    restarts

encoders == <<video_start, audio_start, video_time, tick, track>>
vars == <<interleaved_packets, received_audio, received_video,
          highest_audio_ts, highest_video_ts, video_offset, audio_offsets,
          encoders, sent, heard, restarts>>

Init ==
    /\ interleaved_packets = <<>> /\ received_audio = FALSE
    /\ received_video = FALSE /\ highest_audio_ts = 0 /\ highest_video_ts = 0
    /\ video_offset = 0 /\ audio_offsets = [t \in Track |-> 0]
    /\ video_start \in VideoStarts
    /\ \E late \in [Track -> LateStarts] :
          /\ late[0] = 0
          /\ audio_start = [t \in Track |-> TickLen * (1 + late[t])]
    /\ video_time = video_start
    /\ tick = TickLen /\ track = 0
    /\ sent = <<>> /\ heard = [t \in Track |-> Never] /\ restarts = 0

Video(time) == [type |-> "video", track_idx |-> 0, dts_usec |-> time,
                dts |-> FirstDts + time - video_start]
Audio(time, t) == [type |-> "audio", track_idx |-> t, dts_usec |-> time,
                   dts |-> FirstDts + time - audio_start[t]]

\* ------------------------------------------------------------- interleaving

(* insert_interleaved_packet: behind every packet that is not later.       *)
Insert(q, p) ==
    LET later == {i \in DOMAIN q : p.dts_usec < q[i].dts_usec}
    IN InsertAt(q, Min(later \cup {Len(q) + 1}), p)

(* apply_interleaved_packet_offset                                         *)
Shifted(p, voff, aoff) ==
    LET dts == p.dts - (IF p.type = "video" THEN voff ELSE aoff[p.track_idx])
    IN [p EXCEPT !.dts = dts, !.dts_usec = dts]

(* Mutant: only the last packet is looked at.                              *)
CanPrune_never(q, i) == i = Len(q) /\ q[i].type = "audio"

(* can_prune_interleaved_packet: audio before the first video, except a    *)
(* packet right before it with the same timestamp.                         *)
CanPrune(q, i) ==
    /\ i < Len(q) /\ q[i].type = "audio"
    /\ ~(q[i + 1].type = "video" /\ q[i + 1].dts_usec = q[i].dts_usec)

(* prune_interleaved_packets                                               *)
Pruned(q) ==
    SubSeq(q, Min({i \in DOMAIN q : ~CanPrune(q, i)}), Len(q))

(* find_first_packet_type                                                  *)
Has(q, type, t) ==
    \E i \in DOMAIN q : q[i].type = type /\ q[i].track_idx = t

FirstOf(q, type, t) ==
    q[Min({i \in DOMAIN q : q[i].type = type /\ q[i].track_idx = t})]

(* resort_interleaved_packets: one packet after the other is inserted anew *)
(* with its offset.                                                        *)
Resorted(q, voff, aoff) ==
    LET sorted[n \in 0 .. Len(q)] ==
            IF n = 0 THEN <<>>
            ELSE Insert(sorted[n - 1], Shifted(q[n], voff, aoff))
    IN  sorted[Len(q)]

(* Mutant: each type is compared with itself.                              *)
HasHigherOpposing_own(p, high_audio, high_video) ==
    IF p.type = "video" THEN high_video >= p.dts_usec
                        ELSE high_audio >= p.dts_usec

(* has_higher_opposing_ts                                                  *)
HasHigherOpposing(p, high_audio, high_video) ==
    IF p.type = "video" THEN high_audio > p.dts_usec
                        ELSE high_video > p.dts_usec

(* send_interleaved: at most one packet.                                   *)
Send(q, high_audio, high_video) ==
    IF HasHigherOpposing(q[1], high_audio, high_video)
    THEN interleaved_packets' = Tail(q) /\ sent' = Append(sent, q[1])
    ELSE interleaved_packets' = q /\ UNCHANGED sent

(* set_higher_ts                                                           *)
Higher(high, p, type) ==
    IF p.type = type /\ high < p.dts_usec THEN p.dts_usec ELSE high

(* initialize_interleaved_packets fails: a stream has no packet yet.       *)
AwaitMore(q) ==
    /\ interleaved_packets' = q
    /\ received_video' = Has(q, "video", 0)
    /\ received_audio' = \A t \in Track : Has(q, "audio", t)
    /\ UNCHANGED <<video_offset, audio_offsets, sent>>

(* initialize_interleaved_packets succeeds.                                *)
Begin(q, high_audio, high_video) ==
    LET video == FirstOf(q, "video", 0)
        audio == [t \in Track |-> FirstOf(q, "audio", t)]
    IN /\ received_audio' = TRUE /\ received_video' = TRUE
       /\ video_offset' = video.dts
       /\ audio_offsets' = [t \in Track |-> audio[t].dts]
       /\ highest_audio_ts' = high_audio - audio[0].dts_usec
       /\ highest_video_ts' = high_video - video.dts_usec
       /\ Send(Resorted(q, video_offset', audio_offsets'),
               highest_audio_ts', highest_video_ts')

(* interleave_packets                                                      *)
InterleavePacket(packet) ==
    LET was_started == received_audio /\ received_video
        out  == IF was_started
                THEN Shifted(packet, video_offset, audio_offsets) ELSE packet
        q    == Insert(interleaved_packets, out)
        high_audio == Higher(highest_audio_ts, out, "audio")
        high_video == Higher(highest_video_ts, out, "video")
        audio == received_audio \/ packet.type = "audio"
        video == received_video \/ packet.type = "video"
        ready == /\ Has(Pruned(q), "video", 0)
                 /\ \A t \in Track : Has(Pruned(q), "audio", t)
    IN IF ~was_started /\ audio /\ video /\ ready
       THEN Begin(Pruned(q), high_audio, high_video)
       ELSE /\ highest_audio_ts' = high_audio /\ highest_video_ts' = high_video
            /\ IF was_started
               THEN /\ Send(q, high_audio, high_video)
                    /\ UNCHANGED <<received_audio, received_video,
                                   video_offset, audio_offsets>>
               ELSE IF audio /\ video
               THEN AwaitMore(Pruned(q))
               ELSE /\ interleaved_packets' = q
                    /\ received_audio' = audio /\ received_video' = video
                    /\ UNCHANGED <<video_offset, audio_offsets, sent>>

\* ------------------------------------------------------------- the encoders

VideoPacket ==
    /\ video_time <= MaxTime
    /\ InterleavePacket(Video(video_time))
    /\ video_time' = video_time + FrameLen
    /\ UNCHANGED <<video_start, audio_start, tick, track, heard, restarts>>

(* The audio thread hands the tick to one track after the other.           *)
AudioPacket ==
    /\ tick <= MaxTime
    /\ IF track = Tracks - 1
       THEN track' = 0 /\ tick' = tick + TickLen
       ELSE track' = track + 1 /\ UNCHANGED tick
    /\ UNCHANGED <<video_start, audio_start, video_time, restarts>>
    /\ IF tick >= audio_start[track]
       THEN /\ InterleavePacket(Audio(tick, track))
            /\ heard' = [heard EXCEPT ![track] = Min({@, tick})]
       ELSE UNCHANGED <<interleaved_packets, received_audio, received_video,
                        highest_audio_ts, highest_video_ts, video_offset,
                        audio_offsets, sent, heard>>

(* Mutant: what is still queued from before is kept.                       *)
AfterReset_kept(q) == q

AfterReset(q) == <<>>

(* reset_packet_data, when the capture begins again: only the first audio  *)
(* offset is reset.  The encoders go on, for another output uses them.     *)
Restart ==
    /\ restarts < MaxRestarts
    /\ restarts' = restarts + 1
    /\ received_audio' = FALSE /\ received_video' = FALSE
    /\ highest_audio_ts' = 0 /\ highest_video_ts' = 0
    /\ video_offset' = 0 /\ audio_offsets' = [audio_offsets EXCEPT ![0] = 0]
    /\ interleaved_packets' = AfterReset(interleaved_packets)
    /\ sent' = <<>> /\ heard' = [t \in Track |-> Never]
    /\ UNCHANGED encoders

Next == VideoPacket \/ AudioPacket \/ Restart

Spec == Init /\ [][Next]_vars

\* ---------------------------------------------------------------- properties

Streams == {<<"video", 0>>} \cup {<<"audio", t>> : t \in Track}
Started == received_audio /\ received_video
StreamOf(p) == <<p.type, p.track_idx>>
Step(s) == IF s[1] = "video" THEN FrameLen ELSE TickLen

(* The type invariant.                                                     *)
TypeOK ==
    /\ \A i \in DOMAIN interleaved_packets :
          LET p == interleaved_packets[i]
          IN StreamOf(p) \in Streams /\ p.dts_usec \in Nat
    /\ received_audio \in BOOLEAN /\ received_video \in BOOLEAN
    /\ highest_audio_ts \in Nat /\ highest_video_ts \in Nat
    /\ audio_offsets \in [Track -> Int] /\ track \in Track
    /\ sent # <<>> => Started

(* "this ensures that the timestamps are monotonic": the muxer never gets  *)
(* a packet earlier than the one before it.                                *)
Monotonic ==
    \A i \in 1 .. Len(sent) - 1 : sent[i].dts_usec <= sent[i + 1].dts_usec

(* "audio and video need to start at timestamp 0", and after the start no  *)
(* stream loses a packet: of what was sent and what is queued of a stream, *)
(* the first is at 0, and each packet one step behind the one before it.   *)
StartsAtZeroNoGaps ==
    Started =>
        LET all == sent \o interleaved_packets
            Before(i) == {j \in 1 .. i - 1 : StreamOf(all[j]) = StreamOf(all[i])}
        IN  \A i \in DOMAIN all :
               all[i].dts_usec = IF Before(i) = {} THEN 0
                                 ELSE all[Max(Before(i))].dts_usec + Step(StreamOf(all[i]))

(* What two packets with the same new timestamp are apart in system time.  *)
Skew(t) == (audio_start[t] + audio_offsets[t])
           - (video_start + video_offset)

(* Pruning pairs the first video packet with the next audio: a track that  *)
(* was there before the video is in step with it to within one packet.     *)
SyncedIfHeard ==
    Started => \A t \in Track :
        heard[t] <= video_start + video_offset - FirstDts
            => Skew(t) \in 0 .. TickLen

(* Tracks that were heard before the video are in step with it.            *)
TracksInStep == TypeOK /\ SyncedIfHeard

=============================================================================
