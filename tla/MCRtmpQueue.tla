---------------------------- MODULE MCRtmpQueue ----------------------------
(* RtmpQueue for TLC.  Three groups of pictures: one with a referenced B    *)
(* frame, one without B frames, one with a disposable frame.  Two or three  *)
(* groups fit in the bound, so the queue may hold several key frames when   *)
(* it is thinned.                                                           *)
EXTENDS RtmpQueue

MCGops == {<<"I", "P", "B", "b", "b">>, <<"I", "P", "P">>, <<"I", "P", "b">>}
=============================================================================
