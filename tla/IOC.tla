--------------------------------- MODULE IOC --------------------------------
(***************************************************************************)
(* The I/O controller (x68k/ioc.c): it lets the floppy controller (FDC),   *)
(* the floppy drives (FDD) and the hard disk controller (HDC) share level  *)
(* 1 of the interrupt controller, each behind an enable bit of             *)
(* IOC_IntStat.  The request bits of that byte, which only the guest       *)
(* reads, and the printer port are left out.                               *)
(***************************************************************************)
EXTENDS IRQH

CONSTANTS
  FDC_Int,     \* the vector routine of the floppy controller
  FDD_Int,     \* the vector routine of the drives
  SASI_Int     \* the vector routine of the hard disk controller

ASSUME IOCAssumption ==
  /\ {FDC_Int, FDD_Int, SASI_Int} \subseteq Handler
  /\ 1 \in Level

Source == {"FDC", "FDD", "HDC"}

VARIABLES
  irqh,      \* the interrupt controller and the CPU's line
  enabled    \* the enable bits of IOC_IntStat

IOCTypeOK == irqh \in Controller /\ enabled \subseteq Source

IOC_Init == irqh = PowerOn /\ enabled = {}

\* A faulty variant: a request passes whatever the enable bit.
AskIgnoringEnable(q, source, h) == IRQH_Int(q, 1, h)

\* A source asks for its interrupt: only an enabled one reaches the
\* controller, and what it asked before it was enabled is not remembered.
Ask(q, source, h) == IF source \in enabled THEN IRQH_Int(q, 1, h) ELSE q

\* IOC_Write, the enable bits.
IOC_Write(e) ==
  /\ e # enabled
  /\ enabled' = e
  /\ UNCHANGED irqh

\* The core accepts level 1, and the installed routine withdraws it: FDC_Int,
\* FDD_Int and SASI_Int do it alike.
Answer ==
  /\ irqh.line = 1
  /\ irqh' = AfterVector(IRQH_IRQCallBack(AcceptLine(irqh), 1))
  /\ UNCHANGED enabled

\* The part of WinX68k_Reset.
IOC_Reset == irqh' = IRQH_Init(irqh) /\ enabled' = {}
=============================================================================
