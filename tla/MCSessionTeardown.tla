------------------------- MODULE MCSessionTeardown --------------------------
(***************************************************************************)
(* Two workers, as in the code, one LOD job and two frame jobs that shape  *)
(* text: enough for both workers to want the text engine, and for a third  *)
(* job to be queued behind two when the session is destroyed.              *)
(***************************************************************************)
EXTENDS SessionTeardown, TLC

CONSTANTS w1, w2, lod1, frame1, frame2

MCWorkers == {w1, w2}
MCJobs == {lod1, frame1, frame2}
MCFrameJobs == {frame1, frame2}
=============================================================================
