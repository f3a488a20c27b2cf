------------------------------- MODULE Arbiter ------------------------------
(***************************************************************************)
(* The interrupt controller with devices and a guest program that do       *)
(* anything their interface allows.  It is what the modules of the devices *)
(* implement: each of their steps is one of these.                         *)
(***************************************************************************)
EXTENDS IRQH

CONSTANTS
  HandlersOf,        \* the routines of the devices wired to each level
  Rearming           \* the routines of devices with several request sources

ASSUME WiringAssumption ==
  /\ HandlersOf \in [Level -> SUBSET Handler]
  /\ Rearming \subseteq Handler

VARIABLES
  irqh,     \* the controller and the CPU's interrupt line
  mask      \* the CPU's interrupt mask (flag_I)

vars == <<irqh, mask>>

Init ==
  /\ irqh = PowerOn
  /\ mask = 7

\* A device wired to the level raises it.
Raise(l, h) ==
  /\ h \in HandlersOf[l]
  /\ irqh' = IRQH_Int(irqh, l, h)
  /\ UNCHANGED mask

\* A device with several sources withdraws its level, and raises it again if a
\* request is left.
Withdraw(l, h, again) ==
  /\ h \in HandlersOf[l] \cap Rearming
  /\ LET q == IRQH_IRQCallBack(irqh, l)
     IN  irqh' = IF again THEN IRQH_Int(q, l, h) ELSE q
  /\ UNCHANGED mask

\* The core accepts its line: the installed routine withdraws the level and,
\* if it belongs to a device with several sources, may raise it again at once.
Acknowledge(again) ==
  /\ Accepts(irqh, mask)
  /\ LET l == irqh.line
         h == irqh.CallBack[l]
         q == IRQH_IRQCallBack(AcceptLine(irqh), l)
     IN  /\ again => h \in Rearming
         /\ irqh' = AfterVector(IF again THEN IRQH_Int(q, l, h) ELSE q)
  /\ mask' = irqh.line

\* The guest program writes its status register or returns from an interrupt.
SetMask(m) ==
  /\ mask' = m
  /\ UNCHANGED irqh

\* The user resets the machine.
Reset ==
  /\ irqh' = IRQH_Init(irqh)
  /\ mask' = 7

Next ==
  \/ \E l \in Level, h \in Handler : Raise(l, h)
  \/ \E l \in Level, h \in Handler, again \in BOOLEAN : Withdraw(l, h, again)
  \/ \E again \in BOOLEAN : Acknowledge(again)
  \/ \E m \in 0..7 : SetMask(m)
  \/ Reset

Spec == Init /\ [][Next]_vars

\* The execution loop calls the core slice after slice, and the core looks at
\* its line whenever a slice starts and whenever the mask is lowered: an
\* acceptable line is not left standing for ever.
FairSpec == Spec /\ WF_vars(\E again \in BOOLEAN : Acknowledge(again))

-----------------------------------------------------------------------------
TypeOK ==
  /\ irqh \in Controller
  /\ mask \in 0..7

\* The CPU's line is the highest raised level at every moment the core can look
\* at it, however raises, withdrawals, acceptances and resets interleave: no
\* raised level is hidden, and no level that nobody asks for is presented.
LineIsHighest == irqh.line = HighestPending(irqh.IRQ)

\* my_irqh_callback calls through IRQH_CallBack without a test: a level the
\* core is offered always has the routine of a device wired to it.
OfferedLevelHasHandler ==
  irqh.line # 0 => irqh.CallBack[irqh.line] \in HandlersOf[irqh.line]

\* The interrupt switch (level 7) is always answered, whatever the mask.
NMIAnswered == 7 \in irqh.IRQ ~> 7 \notin irqh.IRQ
=============================================================================
