------------------------------ MODULE AsyncFrames ------------------------------
(***************************************************************************)
(* The video of an asynchronous source (obs-source.c): its capture thread  *)
(* copies pictures into frames of a cache, the graphics thread takes at    *)
(* every tick the frame whose time has come, and the frontend polls for    *)
(* the first one.                                                          *)
(*                                                                         *)
(* A step ends where a thread releases async_mutex.  Timestamps are        *)
(* relative to last_frame_ts, so a step that moves last_frame_ts moves     *)
(* every timestamp the other way.                                          *)
(***************************************************************************)
EXTENDS Integers, FiniteSets, SequencesExt

CONSTANTS
    Capture,        \* threads that call obs_source_output_video
    Frame,          \* addresses of frames
    None,           \* the null pointer
    Gap,            \* what a source may add to its last timestamp
    Interval,       \* time between two ticks
    Lag,            \* how many intervals a tick may take
    Slack,          \* 2000000 ns in ready_async_frame
    MaxVar,         \* MAX_TS_VAR
    MaxFrames,      \* MAX_ASYNC_FRAMES
    MaxUnused,      \* MAX_UNUSED_FRAME_DURATION
    TextureFails,   \* set_async_texture_size and update_async_texture may fail
    MaxChanges      \* bound: changes of the picture's format

ASSUME AsyncAssumption ==
    /\ Frame \subseteq Nat /\ None \notin Frame
    /\ Gap \subseteq Int /\ Lag \subseteq Nat \ {0}
    /\ {Interval, Slack, MaxVar, MaxFrames, MaxUnused} \subseteq Nat \ {0}
    /\ TextureFails \in BOOLEAN /\ MaxChanges \in Nat

VARIABLES
    refs,           \* per frame, 0: it is not allocated
    async_cache, used, unused_count,
                    \* the frames of the cache, those in use, the wear of the
                    \* others (the order of the array is left out)
    async_frames,   \* the queue: [frame, ts]
    cur_async_frame,
    last_set,       \* last_frame_ts # 0
    unbuffered,     \* OBS_SOURCE_FLAG_UNBUFFERED
    newest,         \* the timestamp the source has used last
    copy,           \* per capture thread: [frame, ts, at]
    hold,           \* the frame a reader got, per reader
    at,             \* the graphics thread: "tick", "get" or "render"
    changes

cache == <<refs, async_cache, used, unused_count>>
time == <<last_set, unbuffered, newest>>
readers == <<hold, at>>
vars == <<cache, async_frames, cur_async_frame, time, copy, readers, changes>>

Reader == {"graphics", "frontend"}
Idle == [frame |-> None, ts |-> 0, at |-> "idle"]

Init ==
    /\ refs = [f \in Frame |-> 0]
    /\ async_cache = {} /\ used = {} /\ unused_count = [f \in Frame |-> 0]
    /\ async_frames = <<>> /\ cur_async_frame = None
    /\ last_set = FALSE /\ unbuffered \in BOOLEAN /\ newest = 0
    /\ copy = [c \in Capture |-> Idle]
    /\ hold = [r \in Reader |-> None] /\ at = "tick"
    /\ changes = 0

\* ---------------------------------------------------------------- the cache

Alive == {f \in Frame : refs[f] > 0}
Lowest(frames) == CHOOSE f \in frames : \A g \in frames : f <= g

(* obs_source_frame_decref for some frames; the last one destroys.         *)
Decref(frames) == [f \in Frame |-> IF f \in frames THEN refs[f] - 1 ELSE refs[f]]

(* Mutant: whoever still holds one.                                        *)
FreeAsyncCache_hard == [f \in Frame |-> IF f \in async_cache THEN 0 ELSE refs[f]]

(* free_async_cache: the references of the cache are given up.             *)
FreeAsyncCache == Decref(async_cache)

(* clean_cache: the frames that this picture has not used.                 *)
Wear(frames, taken) == (frames \ used) \ taken

(* cache_video under the mutex, with the frames of the cache and their     *)
(* references: takes an unused frame, or allocates one; the unused frames  *)
(* that no picture has used for a while are destroyed.                     *)
TakeFrame(c, ts, frames, references) ==
    LET unused == frames \ used
        f == Lowest(IF unused # {} THEN unused ELSE Frame \ Alive)
        worn == Wear(frames, {f})
        gone == {g \in worn : unused_count[g] + 1 = MaxUnused}
    IN  /\ async_cache' = (frames \ gone) \cup {f}
        /\ used' = (used \cap frames) \cup {f}
        /\ unused_count' = [g \in Frame |->
               IF g \in worn \ gone THEN unused_count[g] + 1
               ELSE IF g \in frames \ gone /\ g # f THEN unused_count[g] ELSE 0]
        /\ refs' = [g \in Frame |->
               IF g = f THEN IF unused = {} THEN 2 ELSE references[f] + 1
               ELSE IF g \in gone THEN 0 ELSE references[g]]
        /\ copy' = [copy EXCEPT ![c] = [frame |-> f, ts |-> ts, at |-> "copy"]]

\* ------------------------------------------------------- the capture threads

Full == Len(async_frames) >= MaxFrames

(* The timestamp of the next picture; nobody reads them if unbuffered.     *)
Stamp(gap) == IF unbuffered THEN newest ELSE newest + gap

(* A full queue: everything is thrown away, the picture too, and the next  *)
(* one starts a new time.                                                  *)
Overrun(c) ==
    /\ copy[c].at = "idle" /\ Full
    /\ refs' = FreeAsyncCache
    /\ async_cache' = {} /\ used' = {} /\ unused_count' = [f \in Frame |-> 0]
    /\ async_frames' = <<>> /\ cur_async_frame' = None
    /\ last_set' = FALSE /\ newest' = 0
    /\ UNCHANGED <<unbuffered, copy, readers, changes>>

(* obs_source_output_video with a picture of the format of the cache.      *)
CacheVideo(c) ==
    /\ copy[c].at = "idle" /\ ~Full
    /\ \E gap \in Gap :
           /\ newest' = Stamp(gap)
           /\ TakeFrame(c, newest', async_cache, refs)
    /\ UNCHANGED <<async_frames, cur_async_frame, last_set, unbuffered, readers, changes>>

(* The same with a picture of another format or size.                      *)
ChangeFormat(c) ==
    /\ copy[c].at = "idle" /\ ~Full
    /\ changes < MaxChanges /\ changes' = changes + 1
    /\ \E gap \in Gap :
           /\ newest' = Stamp(gap)
           /\ TakeFrame(c, newest', {}, FreeAsyncCache)
    /\ async_frames' = <<>> /\ cur_async_frame' = None
    /\ UNCHANGED <<last_set, unbuffered, readers>>

(* The picture is copied without the mutex.                                *)
Copied(c) ==
    /\ copy[c].at = "copy"
    /\ refs' = Decref({copy[c].frame})
    /\ copy' = [copy EXCEPT ![c] =
           IF refs'[@.frame] > 0 THEN [@ EXCEPT !.at = "push"] ELSE Idle]
    /\ UNCHANGED <<async_cache, used, unused_count, async_frames, cur_async_frame,
                   time, readers, changes>>

Push(c) ==
    /\ copy[c].at = "push"
    /\ async_frames' = Append(async_frames, [frame |-> copy[c].frame, ts |-> copy[c].ts])
    /\ copy' = [copy EXCEPT ![c] = Idle]
    /\ UNCHANGED <<cache, cur_async_frame, time, readers, changes>>

\* ------------------------------------------------------- the graphics thread

Jump(difference) == difference > MaxVar \/ difference < 0     \* unsigned
OutOfBounds(ts) == ts > MaxVar \/ -ts > MaxVar

(* Mutant: the slack is on the wrong side.                                 *)
NotYet_early(last, ts) == ts - last >= Slack

(* The frame's time has not come, or not by so much that it could not wait *)
(* for the next tick.                                                      *)
NotYet(last, ts) == last - ts < Slack

(* The loop of ready_async_frame: last_frame_ts when it has passed i of     *)
(* the frames and looks at the next one.  Where the timestamps jump, the   *)
(* distance that last_frame_ts had before is kept.                         *)
LastFrameTs(sys_offset) ==
    LET ts(i) == async_frames[i].ts
        last[i \in 0 .. Len(async_frames) - 1] ==
            IF i = 0 THEN sys_offset
            ELSE IF Jump(ts(i + 1) - ts(i))
                 THEN ts(i + 1) - (ts(i) - (IF i = 1 THEN 0 ELSE last[i - 1]))
                 ELSE last[i - 1]
    IN  last

(* Where the loop ends, at a frame whose time has not come or at the last  *)
(* one: whether a frame is ready, how many before it were erased, and      *)
(* last_frame_ts.                                                          *)
Search(sys_offset) ==
    LET last == LastFrameTs(sys_offset)
        early(i) == NotYet(last[i], async_frames[i + 1].ts)
        passed == Min({i \in DOMAIN last : early(i) \/ i + 1 = Len(async_frames)})
        erased == IF early(passed) /\ passed > 0 THEN passed - 1 ELSE passed
    IN  [ready |-> passed > 0 \/ ~early(0), gone |-> erased, last |-> last[passed]]

(* Mutant: last_sys_timestamp is set before it is used.                    *)
SysOffset_zero(lag) == 0

(* sys_time - last_sys_timestamp.                                          *)
SysOffset(lag) == lag * Interval

(* ready_async_frame.                                                      *)
ReadyAsyncFrame(sys_offset) ==
    LET first == Head(async_frames).ts
    IN  IF unbuffered THEN [ready |-> TRUE, gone |-> Len(async_frames) - 1, last |-> 0]
        ELSE IF OutOfBounds(first) THEN [ready |-> TRUE, gone |-> 0, last |-> first]
        ELSE Search(sys_offset)

(* get_closest_frame: what is taken and skipped, and last_frame_ts.        *)
ClosestFrame(sys_offset) ==
    IF async_frames = <<>> THEN [ready |-> FALSE, gone |-> 0, last |-> 0]
    ELSE IF ~last_set THEN [ready |-> TRUE, gone |-> 0, last |-> Head(async_frames).ts]
    ELSE ReadyAsyncFrame(sys_offset)

Since(entry, last) == [entry EXCEPT !.ts = @ - last]

NotDrawn == {cur_async_frame} \ {None}

(* obs_source_video_tick.                                                  *)
VideoTick ==
    /\ at = "tick" /\ at' = "get"
    /\ \E lag \in Lag :
        LET closest == ClosestFrame(SysOffset(lag))
            rest == SubSeq(async_frames, closest.gone + 1, Len(async_frames))
            skipped == {async_frames[i].frame : i \in 1..closest.gone}
        IN  /\ used' = used \ (NotDrawn \cup skipped)
            /\ cur_async_frame' = IF closest.ready THEN Head(rest).frame ELSE None
            /\ LET left == IF closest.ready THEN Tail(rest) ELSE rest IN
                   async_frames' = [i \in DOMAIN left |-> Since(left[i], closest.last)]
            /\ newest' = newest - closest.last
            /\ copy' = [c \in Capture |->
                   IF copy[c].at = "idle" THEN Idle ELSE Since(copy[c], closest.last)]
            /\ last_set' = (last_set \/ closest.ready)
    /\ UNCHANGED <<refs, async_cache, unused_count, unbuffered, hold, changes>>

\* ----------------------------------------------------------------- the readers

(* os_atomic_inc_long(&frame->refs).                                       *)
AddRef == refs' = [refs EXCEPT ![cur_async_frame] = @ + 1]

(* obs_source_get_frame.                                                   *)
GetFrame(r) ==
    /\ cur_async_frame # None /\ hold[r] = None
    /\ hold' = [hold EXCEPT ![r] = cur_async_frame] /\ cur_async_frame' = None
    /\ AddRef
    /\ UNCHANGED <<async_cache, used, unused_count, async_frames, time, copy, changes>>

(* obs_source_release_frame.                                               *)
Release(f) == refs' = Decref({f}) /\ used' = used \ {f}

(* obs_source_render_async_video; without a frame, or hidden, the source   *)
(* is done.                                                                *)
RenderAsyncVideo ==
    /\ at = "get" /\ at' = "render" /\ GetFrame("graphics")

NothingToRender ==
    /\ at = "get" /\ at' = "tick"
    /\ UNCHANGED <<cache, async_frames, cur_async_frame, time, copy, hold, changes>>

(* Without its texture it returns before it releases the frame.            *)
Render ==
    /\ at = "render" /\ at' = "tick"
    /\ hold' = [hold EXCEPT !["graphics"] = None]
    /\ \/ Release(hold["graphics"])
       \/ TextureFails /\ UNCHANGED <<refs, used>>
    /\ UNCHANGED <<async_cache, unused_count, async_frames, cur_async_frame, time,
                   copy, changes>>

(* OnPropDlgAcceptedTask waits for the first picture of a new source.      *)
PollFrame == GetFrame("frontend") /\ UNCHANGED at

PollRelease ==
    /\ hold["frontend"] # None
    /\ hold' = [hold EXCEPT !["frontend"] = None]
    /\ Release(hold["frontend"])
    /\ UNCHANGED <<async_cache, unused_count, async_frames, cur_async_frame, time,
                   copy, at, changes>>

Captures(c) == Overrun(c) \/ CacheVideo(c) \/ ChangeFormat(c) \/ Copied(c) \/ Push(c)
Graphics == VideoTick \/ RenderAsyncVideo \/ NothingToRender \/ Render
Frontend == PollFrame \/ PollRelease

Next == Graphics \/ Frontend \/ \E c \in Capture : Captures(c)

Spec == Init /\ [][Next]_vars
(* The graphics thread runs, and a capture thread finishes a call.         *)
FairSpec ==
    /\ Spec /\ WF_vars(Graphics)
    /\ \A c \in Capture : WF_vars(Copied(c) \/ Push(c))

\* ------------------------------------------------------------------ properties

Queued == {async_frames[i].frame : i \in DOMAIN async_frames}
Copying == {copy[c].frame : c \in Capture} \ {None}
Held == {hold[r] : r \in Reader} \ {None}

(* The type invariant; Frame is large enough.                              *)
TypeOK ==
    /\ refs \in [Frame -> Nat] /\ Alive # Frame
    /\ used \subseteq async_cache /\ async_cache \subseteq Frame
    /\ unused_count \in [Frame -> 0..(MaxUnused - 1)]
    /\ async_frames \in Seq([frame : Frame, ts : Int])
    /\ Len(async_frames) <= MaxFrames + Cardinality(Capture) - 1
    /\ cur_async_frame \in Frame \cup {None}
    /\ last_set \in BOOLEAN /\ unbuffered \in BOOLEAN /\ newest \in Int
    /\ copy \in [Capture ->
           [frame : Frame \cup {None}, ts : Int, at : {"idle", "copy", "push"}]]
    /\ hold \in [Reader -> Frame \cup {None}]
    /\ at \in {"tick", "get", "render"} /\ changes \in 0..MaxChanges

(* Whatever order the capture thread frees the cache in, and the readers   *)
(* release, nobody is left with a frame that is freed.                     *)
NoUseAfterFree == async_cache \cup Queued \cup Copying \cup Held \cup NotDrawn \subseteq Alive

(* A frame has as many references as the cache and its users have, so none *)
(* is left allocated that no one will free.                                *)
NothingLeaks ==
    \A f \in Frame :
        refs[f] = (IF f \in async_cache THEN 1 ELSE 0) + (IF f \in Held THEN 1 ELSE 0)
                  + Cardinality({c \in Capture : copy[c].frame = f /\ copy[c].at = "copy"})

(* A frame that is in use in the cache is with exactly one party: no       *)
(* picture is overwritten while it waits or is drawn, and no frame is lost *)
(* for reuse.                                                              *)
OneOwner ==
    \A f \in async_cache :
        LET places == Cardinality({j \in DOMAIN async_frames : async_frames[j].frame = f})
                      + Cardinality({c \in Capture : copy[c].frame = f})
                      + Cardinality({r \in Reader : hold[r] = f})
                      + (IF cur_async_frame = f THEN 1 ELSE 0)
        IN  places = IF f \in used THEN 1 ELSE 0

Increasing == \A i, j \in DOMAIN async_frames : i < j => async_frames[i].ts < async_frames[j].ts

(* While the timestamps increase, a tick takes the newest frame whose time *)
(* has come, and none before its time: nothing that is left is overdue.    *)
TakesFrameOnTime ==
    [][VideoTick /\ ~unbuffered /\ Increasing =>
        /\ \A i \in DOMAIN async_frames' : async_frames'[i].ts > -Slack
        /\ \A i \in DOMAIN async_frames :
               async_frames[i].frame = cur_async_frame' =>
                   async_frames[i].ts <= newest - newest']_vars

(* No timestamps, however they jump, make the source stand still.          *)
KeepsGoing == []<>(async_frames = <<>> \/ cur_async_frame # None)

(* The frames' memory is sound: none freed too early, none never, and one  *)
(* owner for each that is in use.                                          *)
FramesSound == TypeOK /\ NoUseAfterFree /\ NothingLeaks /\ OneOwner

=============================================================================
