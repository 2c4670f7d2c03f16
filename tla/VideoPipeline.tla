---------------------------- MODULE VideoPipeline ----------------------------
(***************************************************************************)
(* The graphics thread of libobs/obs-video.c: the scene is rendered into a *)
(* chain of double-buffered textures (render, output, convert, staging     *)
(* surface), each stage reading what the previous iteration left in the    *)
(* stage before it, and several iterations later the picture is downloaded *)
(* and paired with a vframe_info that video_sleep queued.                  *)
(* A texture holds the number of the iteration whose scene is in it.       *)
(***************************************************************************)
EXTENDS Integers, Sequences

CONSTANTS
    MaxCount,       \* bound: ticks one iteration may take
    MaxIterations   \* bound: iterations of obs_video_thread

Garbage == -1      \* a texture nothing was rendered into yet
NoSurface == -1    \* mapped_surface = NULL

VARIABLES
    gpu_conversion, \* of obs_core_video, set once by obs_init_video
    pc,             \* the next call of output_frame / obs_video_thread
    cur_texture,
    iteration, video_time,
    ready,          \* textures_rendered, _output, _converted, _copied
    content,        \* what is in each texture
    mapped_surface,
    vframe_info_buffer,
    out,            \* the frames given to output_video_data: the last one
    failures        \* failed maps of a ready surface

vars == <<gpu_conversion, pc, cur_texture, iteration, video_time, ready,
          content, mapped_surface, vframe_info_buffer, out, failures>>

Textures == {0, 1}                                  \* NUM_TEXTURES
Stages == {"render", "output", "convert", "copy"}
prev_texture == 1 - cur_texture

NoFrameYet == [content |-> Garbage, iter |-> -1, failed |-> 0,
               timestamp |-> 0, count |-> 0]

Init ==
    /\ gpu_conversion \in BOOLEAN
    /\ pc = "render" /\ cur_texture = 0
    /\ iteration = 0 /\ video_time = 0
    /\ ready = [s \in Stages |-> [t \in Textures |-> FALSE]]
    /\ content = [s \in Stages |-> [t \in Textures |-> Garbage]]
    /\ mapped_surface = NoSurface
    /\ vframe_info_buffer = <<>>
    /\ out = NoFrameYet /\ failures = 0

(* Draw into this iteration's texture of a stage.                          *)
Draw(stage, picture) ==
    /\ ready' = [ready EXCEPT ![stage][cur_texture] = TRUE]
    /\ content' = [content EXCEPT ![stage][cur_texture] = picture]

(* render_main_texture: the scene of this iteration.                       *)
RenderMain ==
    /\ pc = "render"
    /\ Draw("render", iteration)
    /\ pc' = "output"
    /\ UNCHANGED <<cur_texture, iteration, video_time, mapped_surface,
                   vframe_info_buffer, out, failures>>

(* Mutant: reads this iteration's texture instead of the previous one's.   *)
Source_cur(stage) == content[stage][cur_texture]

(* What a stage reads from the stage before it.                            *)
Source(stage) == content[stage][prev_texture]

(* render_output_texture: scaled copy, once the previous texture is there. *)
RenderOutput ==
    /\ pc = "output"
    /\ IF ready["render"][prev_texture]
       THEN Draw("output", Source("render"))
       ELSE UNCHANGED <<ready, content>>
    /\ pc' = IF gpu_conversion THEN "convert" ELSE "stage"
    /\ UNCHANGED <<cur_texture, iteration, video_time, mapped_surface,
                   vframe_info_buffer, out, failures>>

(* render_convert_texture, with gpu_conversion only.                       *)
RenderConvert ==
    /\ pc = "convert"
    /\ IF ready["output"][prev_texture]
       THEN Draw("convert", Source("output"))
       ELSE UNCHANGED <<ready, content>>
    /\ pc' = "stage"
    /\ UNCHANGED <<cur_texture, iteration, video_time, mapped_surface,
                   vframe_info_buffer, out, failures>>

(* Mutant: the surface mapped by the last download stays mapped.           *)
unmap_last_surface_not == mapped_surface

(* unmap_last_surface, before the surface is staged into again.           *)
unmap_last_surface == NoSurface

(* stage_output_texture's texture_ready: without gpu_conversion the code   *)
(* tests the texture pointer, which is never null, not textures_output.    *)
texture_ready == IF gpu_conversion THEN ready["convert"][prev_texture] ELSE TRUE

StageOutput ==
    /\ pc = "stage"
    /\ mapped_surface' = unmap_last_surface
    /\ IF texture_ready
       THEN Draw("copy", Source(IF gpu_conversion THEN "convert" ELSE "output"))
       ELSE UNCHANGED <<ready, content>>
    /\ pc' = "download"
    /\ UNCHANGED <<cur_texture, iteration, video_time, vframe_info_buffer,
                   out, failures>>

(* The end of output_frame: ++cur_texture == NUM_TEXTURES.                 *)
NextTexture == cur_texture' = 1 - cur_texture /\ pc' = "sleep"

(* download_frame: the previous iteration staged something.                *)
FrameReady == ready["copy"][prev_texture]

(* circlebuf_pop_front(&video->vframe_info_buffer).                        *)
PopInfo == vframe_info_buffer' = Tail(vframe_info_buffer)

(* download_frame maps the previous surface: frame_ready, and the frame    *)
(* goes out with the oldest vframe_info.                                   *)
Download ==
    /\ pc = "download"
    /\ FrameReady
    /\ mapped_surface' = prev_texture
    /\ out' = [content |-> content["copy"][prev_texture],
               iter |-> Head(vframe_info_buffer).iter, failed |-> failures,
               timestamp |-> Head(vframe_info_buffer).timestamp,
               count |-> Head(vframe_info_buffer).count]
    /\ PopInfo
    /\ NextTexture
    /\ UNCHANGED <<iteration, video_time, ready, content, failures>>

(* gs_stagesurface_map fails: nothing is popped.                           *)
MapFails ==
    /\ pc = "download"
    /\ FrameReady
    /\ failures' = failures + 1
    /\ NextTexture
    /\ UNCHANGED <<iteration, video_time, ready, content, mapped_surface,
                   vframe_info_buffer, out>>

(* Nothing has been staged yet.                                            *)
NotReady ==
    /\ pc = "download"
    /\ ~FrameReady
    /\ NextTexture
    /\ UNCHANGED <<iteration, video_time, ready, content, mapped_surface,
                   vframe_info_buffer, out, failures>>

(* Mutant: the count pushed is always 1, also after a late iteration.      *)
PushedCount_one(count) == 1

PushedCount(count) == count

(* video_sleep: the iteration took count ticks; its timestamp is queued.   *)
Sleep ==
    /\ pc = "sleep"
    /\ iteration < MaxIterations
    /\ \E count \in 1 .. MaxCount :
          /\ vframe_info_buffer' =
                Append(vframe_info_buffer,
                       [iter |-> iteration, timestamp |-> video_time,
                        count |-> PushedCount(count)])
          /\ video_time' = video_time + count
    /\ iteration' = iteration + 1
    /\ pc' = "render"
    /\ UNCHANGED <<cur_texture, ready, content, mapped_surface, out, failures>>

Next == /\ \/ RenderMain \/ RenderOutput \/ RenderConvert \/ StageOutput
           \/ Download \/ MapFails \/ NotReady \/ Sleep
        /\ UNCHANGED gpu_conversion

Spec == Init /\ [][Next]_vars

-----------------------------------------------------------------------------
(* Every variable stays in its type.                                       *)
TypeOK ==
    /\ pc \in {"render", "output", "convert", "stage", "download", "sleep"}
    /\ cur_texture \in Textures
    /\ iteration \in Nat /\ video_time \in Nat /\ failures \in Nat
    /\ ready \in [Stages -> [Textures -> BOOLEAN]]
    /\ content \in [Stages -> [Textures -> Nat \cup {Garbage}]]
    /\ mapped_surface \in Textures \cup {NoSurface}
    /\ out.content \in Nat \cup {Garbage}

(* A surface that is about to be downloaded always has a timestamp queued: *)
(* circlebuf_pop_front is never called on an empty buffer.                 *)
InfoQueued ==
    pc = "download" /\ FrameReady => vframe_info_buffer # <<>>

(* With GPU conversion a picture goes out with the timestamp of the very   *)
(* iteration that rendered it, shifted by one iteration for every map that *)
(* failed before (the timestamps then stay late for the rest of the run).  *)
PictureHasItsTime ==
    gpu_conversion /\ out.count > 0 => out.content = out.iter + out.failed

(* Without GPU conversion the first two pictures are of a texture that was *)
(* never rendered, and every later one is two iterations older than its    *)
(* timestamp says, less one iteration for every failed map.                *)
PictureIsTwoLate ==
    ~gpu_conversion /\ out.count > 0 =>
        out.content = IF out.iter + out.failed < 2 THEN Garbage
                      ELSE out.iter + out.failed - 2

(* What every picture is paired with, in either mode, failed maps or not:  *)
(* a timestamp is there for it, and it is exactly so many iterations off.  *)
PicturesAreTimed == TypeOK /\ InfoQueued /\ PictureHasItsTime /\ PictureIsTwoLate

=============================================================================
