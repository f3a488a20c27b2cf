------------------------------ MODULE MCArbiter -----------------------------
(* The controller with four levels: one shared by two devices (as level 1 is *)
(* by the FDC and SASI), one of a plain device (SCC), one of a device with   *)
(* several sources (MFP), and the interrupt switch.                          *)
EXTENDS Arbiter

CONSTANTS FDC_Int, SASI_Int, SCC_Int, MFP_IntCallback, IRQH_DefaultVector

MCHandlersOf ==
  [l \in Level |-> CASE l = 1 -> {FDC_Int, SASI_Int}
                     [] l = 5 -> {SCC_Int}
                     [] l = 6 -> {MFP_IntCallback}
                     [] l = 7 -> {IRQH_DefaultVector}]
=============================================================================
