------------------------------- MODULE MCMFP --------------------------------
(* Three channels: HSYNC (15) and the keyboard (12) in the A half, the OPM   *)
(* (3) in the B half, with one device on a lower level.                      *)
EXTENDS MFP

CONSTANT SCC_Int

MCOtherHandlersOf == [l \in Level \ {6} |-> {SCC_Int}]
=============================================================================
