-------------------------------- MODULE MCSASI ------------------------------
(* The hard disk interface for TLC: an image of one block of two bytes, which *)
(* writes lengthen.                                                           *)
EXTENDS SASI

MCLevel == {1}
MCHDCSets == {{}, {"HDC"}, {"HDC", "FDC", "FDD"}}
=============================================================================
