----------------------------- MODULE VideoSystem -----------------------------
(***************************************************************************)
(* The whole path of a picture: the graphics thread of obs-video.c runs    *)
(* the texture pipeline (VideoPipeline) and writes what it downloads into  *)
(* the frame cache (VideoIO), from which the video thread shows it to the  *)
(* callbacks.  Each action is one of VideoIO, of VideoPipeline, or of both *)
(* where output_video_data and obs_video_thread join them.                 *)
(***************************************************************************)
EXTENDS VideoIO

CONSTANT
    MaxIterations   \* bound: iterations of obs_video_thread

ASSUME IterationsAssumption == MaxIterations \in Nat

VARIABLES
    gpu_conversion, pc, cur_texture, iteration, video_time, ready, content,
    mapped_surface, vframe_info_buffer, out, failures,  \* see VideoPipeline
    started,        \* the time at which each iteration rendered the scene
    picture         \* what is in each slot of the cache

Pipeline == INSTANCE VideoPipeline

pipelineVars == <<gpu_conversion, pc, cur_texture, iteration, video_time, ready,
                  content, mapped_surface, vframe_info_buffer, out, failures>>
systemVars == <<vars, pipelineVars, started, picture>>

Torn == -2         \* a slot whose picture is being copied

SystemInit ==
    /\ Init /\ Pipeline!Init
    /\ started = <<>>
    /\ picture = [s \in Slots |-> Pipeline!Garbage]

(* while (!video_output_stopped): before tick_sources, or at the end.      *)
NextIteration ==
    /\ pc = "render" /\ CheckStopped
    /\ UNCHANGED <<pipelineVars, started, picture>>

(* render_video: the scene is rendered and handed on from stage to stage.  *)
RenderVideo ==
    /\ gpc = "output"
    /\ \/ Pipeline!RenderMain /\ started' = Append(started, video_time)
       \/ /\ Pipeline!RenderOutput \/ Pipeline!RenderConvert \/ Pipeline!StageOutput
          /\ UNCHANGED started
    /\ UNCHANGED <<vars, gpu_conversion, picture>>

(* download_frame returns false.                                           *)
NothingToOutput ==
    /\ Pipeline!NotReady \/ Pipeline!MapFails
    /\ NoFrame
    /\ UNCHANGED <<gpu_conversion, started, picture>>

(* output_video_data with the frame downloaded, up to the copy.            *)
OutputVideoData ==
    /\ Pipeline!Download
    /\ \/ /\ LockSlot(out'.count)
          /\ picture' = [picture EXCEPT ![wslot'] = Torn]
       \/ LockFull(out'.count) /\ UNCHANGED picture
    /\ UNCHANGED <<gpu_conversion, started>>

(* The copy from the mapped surface is finished.                           *)
CopyEnds ==
    /\ UnlockFrame
    /\ picture' = [picture EXCEPT ![wslot] = out.content]
    /\ UNCHANGED <<pipelineVars, started>>

(* video_sleep.                                                            *)
Sleep ==
    /\ gpc = "check" /\ Pipeline!Sleep
    /\ UNCHANGED <<vars, gpu_conversion, started, picture>>

GraphicsThread ==
    NextIteration \/ RenderVideo \/ NothingToOutput \/ OutputVideoData
       \/ CopyEnds \/ Sleep

(* Everything else touches the frame cache only.  Connections change what  *)
(* callbacks are called, not what is shown: no input is connected here.    *)
OtherThreads ==
    /\ Video \/ Stop \/ Close
    /\ UNCHANGED <<pipelineVars, started, picture>>

(* Bound: the graphics thread never wakes from its last sleep.             *)
LastSleep == pc = "sleep" /\ iteration = MaxIterations

(* The output is closed, or the bound is reached.                          *)
Finished ==
    /\ closed \/ LastSleep
    /\ UNCHANGED systemVars

SystemNext == GraphicsThread \/ OtherThreads \/ Finished

SystemSpec == SystemInit /\ [][SystemNext]_systemVars

-----------------------------------------------------------------------------
(* The frame that goes into the cache begins where the cache's last frame  *)
(* ended, failed maps or not: what VideoIO takes for granted of its input. *)
TimeIsContiguous == [][tick' # tick => out'.timestamp = tick]_systemVars

(* What every picture is paired with, in either mode (see VideoPipeline).  *)
PicturesAreTimed == Pipeline!PicturesAreTimed

(* A surface is never staged into while it is still mapped.                *)
NoStageIntoMapped ==
    [][content["copy"]' # content["copy"] => mapped_surface' # cur_texture]_systemVars

(* The pictures in the cache, oldest first.                                *)
Queued == [i \in 1 .. InFlight |-> picture[(first_added + i - 1) % CacheSize]]

(* What the callbacks are shown is a whole picture, and a scene rendered   *)
(* no later than the tick it is shown for, but for one iteration per       *)
(* failed map.                                                             *)
ShownIsPast ==
    vpc = "callbacks" =>
        /\ picture[rslot] # Torn
        /\ picture[rslot] >= failures =>
              started[picture[rslot] - failures + 1] <= cache[rslot].timestamp

(* Scenes never go backwards: not in the cache, and not from it to the     *)
(* picture on its way into it.                                             *)
PicturesInOrder ==
    /\ \A i, j \in 1 .. InFlight :
          i < j /\ Queued[j] # Pipeline!Garbage => Queued[i] < Queued[j]
    /\ gpc = "copy" => \A i \in 1 .. InFlight : Queued[i] <= out.content

(* From the renderer to the callbacks, textures and slots in between: those *)
(* shown are whole, in order, and not ahead of their time.                 *)
ShownInOrder == ShownIsPast /\ PicturesInOrder

=============================================================================
