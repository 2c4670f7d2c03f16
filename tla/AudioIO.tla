-------------------------------- MODULE AudioIO --------------------------------
(***************************************************************************)
(* The lines of the audio mixer (audio-io.c): sources place sound in a     *)
(* line's buffer at its timestamp, the audio thread takes from every line  *)
(* what is due and mixes it, buffer_ms behind the clock, and a line that   *)
(* is destroyed goes when its buffer is empty.                             *)
(*                                                                         *)
(* Times are in audio frames and relative to the audio thread's prev_time, *)
(* and a round that moves prev_time moves every other time the other way.  *)
(* A step of the audio thread ends where it takes or releases a line's     *)
(* mutex; line_mutex is held during its whole round.                       *)
(***************************************************************************)
EXTENDS Integers, Sequences

CONSTANTS
    Line,
    Buffer,         \* buffer_ms
    MaxDelay,       \* MAX_DELAY_NS
    Smoothing,      \* TS_SMOOTHING_THRESHOLD
    Frames,         \* data->frames of a packet
    Late,           \* how far a source's timestamps are off the clock:
                    \* timing_adjust and sync_offset put them there
    MaxLag          \* bound: a round is at most as long

ASSUME AudioAssumption ==
    /\ {Buffer, MaxDelay, Smoothing, Frames, MaxLag} \subseteq Nat \ {0}
    /\ Late \subseteq Int /\ \E d \in Late : \A e \in Late : d <= e

VARIABLES
    now,            \* the clock, less buffer_ms
    audio_time,     \* the end of the round
    at,             \* the audio thread: "sleep", "lines", "mix" or "output"
    todo,           \* the lines that its round has not seen
    mixing,         \* the line it is about to lock
    state,          \* per line: "none", "live", "removing" (audio_line_destroy
                    \* waits for line_mutex) or "dead" (~alive)
    buffer,         \* per line: timestamps of the sound, or Silence
    base_timestamp, \* of a line whose buffer is not empty, else 0
    next_ts_min     \* None: not set, or so old that no timestamp is near it

None == -1000
Silence == None
audio == <<audio_time, at, todo, mixing>>
lines == <<state, buffer, base_timestamp, next_ts_min>>
vars == <<now, audio, lines>>

Init ==
    /\ now = 0 /\ audio_time = 0 /\ at = "sleep" /\ todo = {} /\ mixing = {}
    /\ state = [l \in Line |-> "none"]
    /\ buffer = [l \in Line |-> <<>>]
    /\ base_timestamp = [l \in Line |-> 0] /\ next_ts_min = [l \in Line |-> None]

Listed(l) == state[l] # "none"
LineMutexFree == at = "sleep"

\* ----------------------------------------------------------- the sources' side

(* audio_output_create_line.                                               *)
CreateLine(l) ==
    /\ state[l] = "none" /\ LineMutexFree
    /\ state' = [state EXCEPT ![l] = "live"]
    /\ UNCHANGED <<now, audio, buffer, base_timestamp, next_ts_min>>

Near(a, b) == a - b < Smoothing /\ b - a < Smoothing

(* smooth_ts.                                                              *)
Smoothed(l, ts) ==
    IF next_ts_min[l] # None /\ Near(ts, next_ts_min[l]) THEN next_ts_min[l] ELSE ts

(* valid_timestamp_range.                                                  *)
InRange(base, ts) == base <= ts /\ ts < base + Buffer + MaxDelay

(* Mutant: behind what is there.                                           *)
Placed_append(sound, position, ts) == sound \o [i \in 1..Frames |-> ts + i - 1]

(* circlebuf_place: pads with silence, and overwrites.                     *)
Placed(sound, position, ts) ==
    [i \in 1..(IF Len(sound) > position + Frames THEN Len(sound) ELSE position + Frames) |->
        IF position < i /\ i <= position + Frames THEN ts + (i - position) - 1
        ELSE IF i <= Len(sound) THEN sound[i] ELSE Silence]

(* audio_line_place_data; what smoothing puts before the buffer is lost.   *)
PlaceData(l, base, ts) ==
    IF ts < base
    THEN /\ base_timestamp' = [base_timestamp EXCEPT ![l] = IF buffer[l] = <<>> THEN 0 ELSE base]
         /\ UNCHANGED <<buffer, next_ts_min>>
    ELSE /\ base_timestamp' = [base_timestamp EXCEPT ![l] = base]
         /\ buffer' = [buffer EXCEPT ![l] = Placed(@, ts - base, ts)]
         /\ next_ts_min' = [next_ts_min EXCEPT ![l] = ts + Frames]

(* An empty buffer begins buffer_ms before its first packet.               *)
BaseFor(l, ts) == IF buffer[l] = <<>> THEN ts - Buffer ELSE base_timestamp[l]

(* audio_line_output.                                                      *)
LineOutput(l) ==
    /\ state[l] = "live"
    /\ \E late \in Late :
        LET ts == now + Buffer + late
            base == BaseFor(l, ts)
        IN  /\ InRange(base, ts)
            /\ PlaceData(l, base, Smoothed(l, ts))
    /\ UNCHANGED <<now, audio, state>>

(* audio_line_destroy reads the size of the buffer without a mutex.        *)
DestroyLine(l) ==
    /\ state[l] = "live"
    /\ state' = [state EXCEPT ![l] = IF buffer[l] = <<>> THEN "removing" ELSE "dead"]
    /\ UNCHANGED <<now, audio, buffer, base_timestamp, next_ts_min>>

Free(l) ==
    /\ state' = [state EXCEPT ![l] = "none"]
    /\ buffer' = [buffer EXCEPT ![l] = <<>>]
    /\ base_timestamp' = [base_timestamp EXCEPT ![l] = 0]
    /\ next_ts_min' = [next_ts_min EXCEPT ![l] = None]

(* Mutant: without line_mutex.                                             *)
RemoveLine_unlocked(l) == state[l] = "removing"

(* What audio_output_removeline waits for.                                 *)
RemoveLine(l) == state[l] = "removing" /\ LineMutexFree

Removed(l) == RemoveLine(l) /\ Free(l) /\ UNCHANGED <<now, audio>>

\* ------------------------------------------------------------- the audio thread

(* The clock.                                                              *)
Tick == now < MaxLag /\ now' = now + 1 /\ UNCHANGED <<audio, lines>>

StartRound ==
    /\ at = "sleep" /\ now > 0
    /\ at' = "lines" /\ audio_time' = now
    /\ todo' = {l \in Line : Listed(l)}
    /\ UNCHANGED <<now, mixing, lines>>

(* Mutant: nobody removes it.                                              *)
Depleted_never(l) == FALSE

Depleted(l) == buffer[l] = <<>> /\ state[l] = "dead"

(* A line that is destroyed and empty is removed.                          *)
CheckLine(l) ==
    /\ at = "lines" /\ l \in todo /\ todo' = todo \ {l}
    /\ IF Depleted(l)
       THEN Free(l) /\ UNCHANGED <<at, mixing>>
       ELSE at' = "mix" /\ mixing' = {l} /\ UNCHANGED lines
    /\ UNCHANGED <<now, audio_time>>

(* clear_excess_audio_data.                                                *)
ClearExcess(l) ==
    IF base_timestamp[l] < 0
    THEN SubSeq(buffer[l], 1 - base_timestamp[l], Len(buffer[l])) ELSE buffer[l]

(* Mutant: as if the buffer began with the round.                          *)
Due_all(base) == audio_time

(* How much of the buffer mix_audio_line takes.                            *)
Due(base) == IF base > audio_time THEN 0 ELSE audio_time - base

(* What mix_and_output does with a line under its mutex.                   *)
MixLine(l) ==
    /\ at = "mix" /\ mixing = {l} /\ mixing' = {}
    /\ at' = "lines"
    /\ LET sound == ClearExcess(l)
           base == IF base_timestamp[l] < 0 THEN 0 ELSE base_timestamp[l]
           rest == SubSeq(sound, Due(base) + 1, Len(sound))
       IN  /\ buffer' = [buffer EXCEPT ![l] = rest]
           /\ base_timestamp' = [base_timestamp EXCEPT ![l] =
                  IF rest = <<>> THEN 0 ELSE IF base <= audio_time THEN audio_time ELSE base]
    /\ UNCHANGED <<now, audio_time, todo, state, next_ts_min>>

Earlier(time) == time - audio_time
EarliestTimestamp == Buffer + (CHOOSE d \in Late : \A e \in Late : d <= e)

(* The mix goes out, and the next round begins where this one ended.       *)
Output ==
    /\ at = "lines" /\ todo = {} /\ at' = "sleep"
    /\ now' = Earlier(now) /\ audio_time' = 0
    /\ buffer' = [l \in Line |-> [i \in DOMAIN buffer[l] |->
           IF buffer[l][i] = Silence THEN Silence ELSE Earlier(buffer[l][i])]]
    /\ base_timestamp' = [l \in Line |->
           IF buffer[l] = <<>> THEN 0 ELSE Earlier(base_timestamp[l])]
    /\ next_ts_min' = [l \in Line |->
           IF next_ts_min[l] = None \/ Earlier(next_ts_min[l]) + Smoothing <= EarliestTimestamp
           THEN None ELSE Earlier(next_ts_min[l])]
    /\ UNCHANGED <<todo, mixing, state>>

AudioThread == StartRound \/ Output \/ \E l \in Line : CheckLine(l) \/ MixLine(l)

Next ==
    \/ AudioThread \/ Tick
    \/ \E l \in Line : CreateLine(l) \/ LineOutput(l) \/ DestroyLine(l) \/ Removed(l)

Spec == Init /\ [][Next]_vars
(* The audio thread runs, and between its rounds a thread gets line_mutex. *)
FairSpec ==
    /\ Spec /\ WF_vars(AudioThread) /\ WF_vars(Tick)
    /\ \A l \in Line : SF_vars(Removed(l))

\* ------------------------------------------------------------------- properties

(* The type invariant; a buffer is bounded by the range of timestamps.     *)
TypeOK ==
    /\ now \in 0..MaxLag /\ audio_time \in 0..MaxLag
    /\ at \in {"sleep", "lines", "mix"} /\ todo \subseteq Line /\ mixing \subseteq Line
    /\ state \in [Line -> {"none", "live", "removing", "dead"}]
    /\ \A l \in Line :
        /\ buffer[l] \in Seq(Int) /\ Len(buffer[l]) < Buffer + MaxDelay + Smoothing + Frames
        /\ base_timestamp[l] \in Int /\ next_ts_min[l] \in Int

(* Every sound is mixed at its time: wherever it was placed and whatever   *)
(* was cut off, its place in the buffer is its time after base_timestamp.  *)
MixedOnTime ==
    \A l \in Line : \A i \in DOMAIN buffer[l] :
        buffer[l][i] # Silence => buffer[l][i] = base_timestamp[l] + i - 1

(* The audio thread never has a line in its hands that is freed.           *)
NoUseAfterFree == \A l \in todo \cup mixing : Listed(l)

(* By how much a step moves prev_time.                                     *)
Moved == IF at' = "sleep" /\ at # "sleep" THEN audio_time ELSE 0

(* Sound is not thrown away while it can still be heard: a line loses only *)
(* what is mixed, what is late, or what newer sound replaces.              *)
SoundKept ==
    \A l \in Line : \A i \in DOMAIN buffer[l] :
        buffer[l][i] # Silence /\ buffer[l][i] >= audio_time =>
            \E j \in DOMAIN buffer'[l] : buffer'[l][j] = buffer[l][i] - Moved
NothingLost == [][SoundKept]_vars

(* A line that is destroyed is freed, once its sound is played.            *)
DestroyedIsFreed == \A l \in Line : state[l] \in {"dead", "removing"} ~> state[l] = "none"

(* However far its timestamps are off the clock, a line that is never      *)
(* empty is mixed again and again.                                         *)
LineIsServed ==
    \A l \in Line :
        []<>(buffer[l] = <<>>) \/ []<><<MixLine(l) /\ Len(buffer'[l]) < Len(buffer[l])>>_vars

(* The list of lines is sound whatever the audio thread is doing in it.    *)
LinesSound == TypeOK /\ NoUseAfterFree

(* Every line is served, and let go when it is done.                       *)
LinesServed == DestroyedIsFreed /\ LineIsServed

=============================================================================
