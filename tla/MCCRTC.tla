------------------------------- MODULE MCCRTC -------------------------------
(* Three masks, enough to tell a request's mask from an earlier and a later;   *)
(* the raster 0, which the test for a change treats alone, and another one.    *)
EXTENDS CRTC
=============================================================================
