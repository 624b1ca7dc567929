------------------------ MODULE MCRenderTaskScheduler ------------------------
(* Small instances of RenderTaskScheduler for TLC. *)
EXTENDS RenderTaskScheduler

CONSTANTS b1, b2, r1
=============================================================================
