------------------------------ MODULE VideoIO ------------------------------
(***************************************************************************)
(* The frame cache of libobs/media-io/video-io.c (struct video_output) and *)
(* the three threads that meet in it:                                      *)
(*   - the graphics thread (obs-video.c, obs_video_thread) fills slots with *)
(*     video_output_lock_frame / video_output_unlock_frame;                *)
(*   - the video thread (video_thread) hands every slot to the connected   *)
(*     callbacks, once per tick the slot stands for;                       *)
(*   - any other thread connects and disconnects callbacks and finally     *)
(*     stops the output.                                                   *)
(* A step is one critical section, or one unlocked access to shared state. *)
(* Time is counted in frame intervals: a timestamp is a tick number, and   *)
(* frame_time is 1.  The picture of a slot is not represented; who may be  *)
(* touching it is (wslot, rslot).                                          *)
(***************************************************************************)
EXTENDS Integers, Sequences, FiniteSets, SequencesExt

CONSTANTS
    CacheSize,   \* info.cache_size: number of slots (6 in obs.c)
    Inputs,      \* callbacks that may be connected
    MaxCount,    \* bound: ticks one rendered frame may stand for (lag)
    MaxTicks     \* bound: ticks produced in a behaviour

ASSUME CacheSizeAssumption == CacheSize \in Nat \ {0}
ASSUME BoundsAssumption == MaxCount \in Nat \ {0} /\ MaxTicks \in Nat

VARIABLES
    cache,             \* cache[s] = [timestamp, count] of slot s
    available_frames,  \* slots not holding an unlocked frame
    first_added,       \* slot the video thread reads
    last_added,        \* slot the graphics thread wrote last
    update_semaphore,  \* tokens posted and not taken
    stop,              \* read without a lock by both threads
    initialized,       \* cleared by the first video_output_stop
    closed,            \* video_output_close has freed everything
    inputs,            \* the array of connected callbacks, in order
    total_frames, skipped_frames,
    gpc, wslot,        \* graphics thread: where it is, slot it copies into
    vpc, rslot, idx,   \* video thread: where it is, slot and callback index
    tick,              \* timestamp of the next frame to be produced
    shown,             \* 1 + timestamp of the last tick given to callbacks
    visited, erased    \* this pass: inputs reached; inputs erased by callbacks

cacheVars == <<cache, available_frames, first_added, last_added>>
graphicsVars == <<gpc, wslot, tick>>
videoVars == <<vpc, rslot, total_frames, skipped_frames, shown>>
inputVars == <<inputs, idx, visited, erased>>
stopVars == <<stop, initialized, closed>>
vars == <<cacheVars, update_semaphore, graphicsVars, videoVars, inputVars,
          stopVars>>

Slots == 0 .. CacheSize - 1

(* The index after i in the ring: ++i, back to 0 at cache_size.            *)
Succ(i) == IF i + 1 = CacheSize THEN 0 ELSE i + 1

(* Frames the cache holds for the video thread.                            *)
InFlight == CacheSize - available_frames

Init ==
    /\ cache = [s \in Slots |-> [timestamp |-> 0, count |-> 0]]
    /\ available_frames = CacheSize
    /\ first_added = 0 /\ last_added = 0
    /\ update_semaphore = 0
    /\ stop = FALSE /\ initialized = TRUE /\ closed = FALSE
    /\ inputs = <<>> /\ idx = 1 /\ visited = {} /\ erased = 0
    /\ total_frames = 0 /\ skipped_frames = 0
    /\ gpc = "check" /\ wslot = 0 /\ tick = 0
    /\ vpc = "wait" /\ rslot = 0 /\ shown = 0

-----------------------------------------------------------------------------
(* The graphics thread: obs_video_thread, output_frame, output_video_data. *)

(* while (!video_output_stopped(...)): another iteration, or the end.      *)
CheckStopped ==
    /\ gpc = "check"
    /\ stop \/ tick < MaxTicks
    /\ gpc' = IF stop THEN "exit" ELSE "output"
    /\ UNCHANGED <<cacheVars, update_semaphore, wslot, tick, videoVars,
                   inputVars, stopVars>>

(* download_frame had nothing (pipeline still filling, or the map failed): *)
(* no frame is output and no vframe_info is popped.                        *)
NoFrame ==
    /\ gpc = "output"
    /\ gpc' = "check"
    /\ UNCHANGED <<cacheVars, update_semaphore, wslot, tick, videoVars,
                   inputVars, stopVars>>

(* Mutant: always advances, also when the cache is empty.                  *)
NextSlot_always == Succ(last_added)

(* The slot video_output_lock_frame writes: the next one, unless the cache *)
(* is empty, in which case last_added already names it.                    *)
NextSlot ==
    IF available_frames # CacheSize THEN Succ(last_added) ELSE last_added

(* video_output_lock_frame with a free slot: the slot gets the timestamp   *)
(* and count, and the caller starts copying its picture, without the lock. *)
LockSlot(count) ==
    /\ gpc = "output"
    /\ available_frames # 0
    /\ last_added' = NextSlot
    /\ cache' = [cache EXCEPT ![NextSlot] =
                    [timestamp |-> tick, count |-> count]]
    /\ wslot' = NextSlot
    /\ gpc' = "copy"
    /\ tick' = tick + count
    /\ UNCHANGED <<available_frames, first_added, update_semaphore,
                   videoVars, inputVars, stopVars>>

(* video_output_lock_frame with no free slot: the picture is dropped, and  *)
(* the newest cached frame is shown for count more ticks.                  *)
LockFull(count) ==
    /\ gpc = "output"
    /\ available_frames = 0
    /\ cache' = [cache EXCEPT ![last_added].count = @ + count]
    /\ gpc' = "check"
    /\ tick' = tick + count
    /\ UNCHANGED <<available_frames, first_added, last_added, wslot,
                   update_semaphore, videoVars, inputVars, stopVars>>

(* One output_video_data: count ticks are handed over (vframe_info).       *)
LockFrame ==
    \E count \in 1 .. MaxCount :
        /\ tick + count <= MaxTicks
        /\ LockSlot(count) \/ LockFull(count)

(* video_output_unlock_frame, when the picture has been copied.            *)
UnlockFrame ==
    /\ gpc = "copy"
    /\ available_frames' = available_frames - 1
    /\ update_semaphore' = update_semaphore + 1
    /\ gpc' = "check"
    /\ UNCHANGED <<cache, first_added, last_added, wslot, tick, videoVars,
                   inputVars, stopVars>>

Graphics == CheckStopped \/ NoFrame \/ LockFrame \/ UnlockFrame

-----------------------------------------------------------------------------
(* The video thread: video_thread, video_output_cur_frame.                 *)

(* os_sem_wait(update_semaphore).                                          *)
SemWait ==
    /\ vpc = "wait"
    /\ update_semaphore > 0
    /\ update_semaphore' = update_semaphore - 1
    /\ vpc' = "woken"
    /\ UNCHANGED <<cacheVars, graphicsVars, rslot, total_frames,
                   skipped_frames, shown, inputVars, stopVars>>

(* if (video->stop) break;                                                 *)
Woken ==
    /\ vpc = "woken"
    /\ vpc' = IF stop THEN "exit" ELSE "loop"
    /\ UNCHANGED <<cacheVars, update_semaphore, graphicsVars, rslot,
                   total_frames, skipped_frames, shown, inputVars, stopVars>>

(* The while loop ends because of stop: the frame is abandoned, and still  *)
(* counted by the total_frames++ below the loop.                           *)
LoopStopped ==
    /\ vpc = "loop"
    /\ stop
    /\ vpc' = "wait"
    /\ total_frames' = total_frames + 1
    /\ UNCHANGED <<cacheVars, update_semaphore, graphicsVars, rslot,
                   skipped_frames, shown, inputVars, stopVars>>

(* video_output_cur_frame, up to the callbacks: the slot to read is        *)
(* first_added; input_mutex is held from here to the end of the callbacks. *)
TakeSlot ==
    /\ vpc = "loop"
    /\ ~stop
    /\ rslot' = first_added
    /\ vpc' = "callbacks"
    /\ idx' = 1 /\ visited' = {} /\ erased' = 0
    /\ UNCHANGED <<cacheVars, update_semaphore, graphicsVars, total_frames,
                   skipped_frames, shown, inputs, stopVars>>

(* One turn of the loop over the inputs: the frame is scaled and passed to *)
(* the callback.  A failing encoder disconnects itself from inside its     *)
(* callback (do_encode, full_stop, remove_connection): input_mutex is      *)
(* recursive, so the array shrinks under the loop, which still does i++.   *)
Callback ==
    /\ vpc = "callbacks"
    /\ idx <= Len(inputs)
    /\ visited' = visited \cup {inputs[idx]}
    /\ idx' = idx + 1
    /\ \/ UNCHANGED <<inputs, erased>>
       \/ inputs' = RemoveAt(inputs, idx) /\ erased' = erased + 1
    /\ UNCHANGED <<cacheVars, update_semaphore, graphicsVars, videoVars,
                   stopVars>>

(* frame_info->frame.timestamp += frame_time; --frame_info->count.         *)
TickCompleted(s) ==
    [cache EXCEPT ![s].timestamp = @ + 1, ![s].count = @ - 1]

(* complete = --frame_info->count == 0                                     *)
FrameComplete(s) == cache[s].count = 1

(* Mutant: an emptied cache does not reset last_added.                     *)
LastAfterRelease_keep == last_added

(* if (++available_frames == cache_size) last_added = first_added;         *)
LastAfterRelease ==
    IF available_frames + 1 = CacheSize THEN Succ(first_added) ELSE last_added

(* The end of video_output_cur_frame with ticks left for the frame: it is  *)
(* shown again, counted as skipped.                                        *)
RepeatFrame ==
    /\ vpc = "callbacks"
    /\ idx > Len(inputs)
    /\ ~FrameComplete(rslot)
    /\ cache' = TickCompleted(rslot)
    /\ shown' = cache[rslot].timestamp + 1
    /\ total_frames' = total_frames + 1
    /\ skipped_frames' = skipped_frames + 1
    /\ vpc' = "loop"
    /\ UNCHANGED <<available_frames, first_added, last_added, graphicsVars,
                   update_semaphore, rslot, inputVars, stopVars>>

(* The end of video_output_cur_frame with the frame complete: its slot is  *)
(* released.                                                               *)
ReleaseFrame ==
    /\ vpc = "callbacks"
    /\ idx > Len(inputs)
    /\ FrameComplete(rslot)
    /\ cache' = TickCompleted(rslot)
    /\ shown' = cache[rslot].timestamp + 1
    /\ first_added' = Succ(first_added)
    /\ available_frames' = available_frames + 1
    /\ last_added' = LastAfterRelease
    /\ total_frames' = total_frames + 1
    /\ vpc' = "wait"
    /\ UNCHANGED <<update_semaphore, graphicsVars, rslot, skipped_frames,
                   inputVars, stopVars>>

Video == SemWait \/ Woken \/ LoopStopped \/ TakeSlot \/ Callback
            \/ RepeatFrame \/ ReleaseFrame

-----------------------------------------------------------------------------
(* Other threads.                                                          *)

(* Mutant: input_mutex is not taken.                                       *)
InputMutexFree_never == TRUE

(* input_mutex is free: the video thread is not in its callback loop.      *)
InputMutexFree == vpc # "callbacks"

(* video_output_connect of a callback that is not yet connected.           *)
Connect(x) ==
    /\ InputMutexFree
    /\ ~closed
    /\ ~Contains(inputs, x)
    /\ inputs' = Append(inputs, x)
    /\ UNCHANGED <<cacheVars, update_semaphore, graphicsVars, videoVars, idx,
                   visited, erased, stopVars>>

(* video_output_disconnect of a connected callback.                        *)
Disconnect(x) ==
    /\ InputMutexFree
    /\ ~closed
    /\ \E i \in 1 .. Len(inputs) :
          inputs[i] = x /\ inputs' = RemoveAt(inputs, i)
    /\ UNCHANGED <<cacheVars, update_semaphore, graphicsVars, videoVars, idx,
                   visited, erased, stopVars>>

(* Mutant: the video thread is not woken.                                  *)
Stop_nopost ==
    /\ initialized
    /\ initialized' = FALSE
    /\ stop' = TRUE
    /\ UNCHANGED <<cacheVars, graphicsVars, videoVars, inputVars, closed,
                   update_semaphore>>

(* video_output_stop up to pthread_join.                                   *)
Stop ==
    /\ initialized
    /\ initialized' = FALSE
    /\ stop' = TRUE
    /\ update_semaphore' = update_semaphore + 1
    /\ UNCHANGED <<cacheVars, graphicsVars, videoVars, inputVars, closed>>

(* stop_video and obs_free_video of obs.c: both threads are joined, then   *)
(* video_output_close frees the cache.                                     *)
Close ==
    /\ ~initialized /\ ~closed
    /\ vpc = "exit" /\ gpc = "exit"
    /\ closed' = TRUE
    /\ UNCHANGED <<cacheVars, update_semaphore, graphicsVars, videoVars,
                   inputVars, stop, initialized>>

(* The output is gone: nothing is left to happen.                          *)
Terminated == closed /\ UNCHANGED vars

Next ==
    \/ Graphics
    \/ Video
    \/ \E x \in Inputs : Connect(x) \/ Disconnect(x)
    \/ Stop
    \/ Close
    \/ Terminated

(* The scheduler runs both threads, and a joined thread lets Close go on.  *)
Fairness == WF_vars(Graphics) /\ WF_vars(Video) /\ WF_vars(Close)

Spec == Init /\ [][Next]_vars
FairSpec == Spec /\ Fairness

-----------------------------------------------------------------------------
(* Properties.                                                             *)

(* Every variable stays in its type; indices stay inside the cache.        *)
TypeOK ==
    /\ cache \in [Slots -> [timestamp : Nat, count : Nat]]
    /\ available_frames \in 0 .. CacheSize
    /\ first_added \in Slots /\ last_added \in Slots
    /\ wslot \in Slots /\ rslot \in Slots
    /\ update_semaphore \in Nat
    /\ stop \in BOOLEAN /\ initialized \in BOOLEAN /\ closed \in BOOLEAN
    /\ inputs \in Seq(Inputs) /\ idx \in Nat \ {0}
    /\ visited \subseteq Inputs /\ erased \in Nat
    /\ total_frames \in Nat /\ skipped_frames \in Nat
    /\ gpc \in {"check", "output", "copy", "exit"}
    /\ vpc \in {"wait", "woken", "loop", "callbacks", "exit"}
    /\ tick \in Nat /\ shown \in Nat

(* The graphics thread copies a picture into a slot without holding        *)
(* data_mutex, and the video thread hands a slot's picture to the          *)
(* callbacks without holding it either: it is never the same slot.         *)
NoTearing == gpc = "copy" /\ vpc = "callbacks" => wslot # rslot

(* The tick the callbacks are given is the successor of the tick they were *)
(* given last: no tick is lost, repeated or reordered, whether frames are  *)
(* lagged, repeated, or dropped because the cache is full.                 *)
TicksInOrder == vpc = "callbacks" => cache[rslot].timestamp = shown

(* While the output runs, the semaphore and the frame being processed      *)
(* account for every frame in the cache: none is stranded in it, and the   *)
(* video thread never reads an empty cache.                                *)
FramesAccounted ==
    ~stop => InFlight = update_semaphore
                        + IF vpc \in {"woken", "loop", "callbacks"}
                          THEN 1 ELSE 0

(* The statistics the UI shows: total_frames counts the ticks shown, plus  *)
(* at most the one frame abandoned by a stop.                              *)
TotalIsShown ==
    /\ total_frames \in {shown, shown + 1}
    /\ total_frames = shown + 1 => stop

(* An input that is connected when the callback loop ends was reached by   *)
(* the loop, except for one input per callback that disconnected itself    *)
(* during this very tick (the erase moves its successor out of the loop's  *)
(* way).                                                                   *)
InputsReached ==
    vpc = "callbacks" /\ idx > Len(inputs) =>
        Cardinality(ToSet(inputs) \ visited) <= erased

(* Every tick produced is shown, unless the output is stopped.             *)
EveryTickShown ==
    \A k \in 1 .. MaxTicks : tick >= k ~> (shown >= k \/ stop)

(* The cache implements a stream of ticks: what the callbacks are shown is  *)
(* what was produced, tick by tick.                                        *)
Stream == INSTANCE FrameStream WITH produced <- tick, stopped <- stop
ImplementsStream == Stream!Spec

(* video_output_stop returns, both threads end and the output is closed.   *)
StopCompletes == stop ~> closed

(* The cache is consistent: slots, indices and semaphore agree, no picture *)
(* is torn, every callback tick follows the one before, and the statistics *)
(* count what was shown.                                                   *)
CacheSafe ==
    TypeOK /\ NoTearing /\ TicksInOrder /\ FramesAccounted /\ TotalIsShown

(* The threads make progress: ticks are shown, and a stop ends both.       *)
Progress == EveryTickShown /\ StopCompletes

=============================================================================
