---------------------------- MODULE MCFrameLoop -----------------------------
(* Frames of a few lines and of seven or eight slices.                        *)
EXTENDS FrameLoop
=============================================================================
