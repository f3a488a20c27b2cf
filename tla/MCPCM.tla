-------------------------------- MODULE MCPCM -------------------------------
(* The ring for TLC: 16 words; the device asks for 2 to 8 words, and a line   *)
(* makes none, one or two samples.                                             *)
EXTENDS PCM

MCLens == {4, 8, 12, 16}
MCClocks == {1, 2}
=============================================================================
