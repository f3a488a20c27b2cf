-------------------------------- MODULE IRQH --------------------------------
(***************************************************************************)
(* The interrupt controller of the emulator (x68k/irqh.c): the state it    *)
(* shares with the CPU core and the operations devices call on it.         *)
(*                                                                         *)
(* Devices raise one of seven levels with IRQH_Int; the controller drives  *)
(* the interrupt line of the CPU core with the highest raised level; when  *)
(* the core accepts its line it calls my_irqh_callback, which runs the     *)
(* vector routine the last device installed for that level.  A device      *)
(* often calls several operations in one step, so they are operators on    *)
(* the controller's state and not actions.                                 *)
(***************************************************************************)
EXTENDS Integers, FiniteSets

CONSTANTS
  Level,             \* the interrupt levels in use
  Handler,           \* the vector routines devices install
  NULL,              \* the empty slot of IRQH_CallBack
  CoreClearsLine     \* TRUE: c68k drops its line before the callback; FALSE: Musashi

ASSUME LevelAssumption == Level \subseteq 1..7
ASSUME HandlerAssumption == NULL \notin Handler
ASSUME CoreAssumption == CoreClearsLine \in BOOLEAN

Controller == [IRQ : SUBSET Level, CallBack : [Level -> Handler \cup {NULL}],
               line : Level \cup {0}]

\* Faulty variants of the definitions below, which the properties must refute.
IntKeepingHandler(q, l, h) ==
  [q EXCEPT !.IRQ = @ \cup {l}, !.line = IF l > @ THEN l ELSE @]
CallBackWithoutRescan(q, l) == [q EXCEPT !.IRQ = @ \ {l}, !.line = 0]
AcceptsAboveMask(q, mask) == q.line > mask

\* The highest raised level, 0 if there is none: the scan from 7 down to 1.
HighestPending(S) ==
  IF S = {} THEN 0 ELSE CHOOSE i \in S : \A j \in S : j <= i

\* Raise a level; the handler replaces the one installed for that level.
IRQH_Int(q, l, h) ==
  [IRQ      |-> q.IRQ \cup {l},
   CallBack |-> [q.CallBack EXCEPT ![l] = h],
   line     |-> HighestPending(q.IRQ \cup {l})]

\* Withdraw a level: drop the line, then drive it with the highest one left.
IRQH_IRQCallBack(q, l) ==
  [q EXCEPT !.IRQ = @ \ {l}, !.line = HighestPending(q.IRQ \ {l})]

\* The core has accepted its line and is about to call my_irqh_callback.
AcceptLine(q) == IF CoreClearsLine THEN [q EXCEPT !.line = 0] ELSE q

\* The end of my_irqh_callback, after the device's vector routine.
AfterVector(q) ==
  IF q.IRQ = {} THEN q ELSE [q EXCEPT !.line = HighestPending(q.IRQ)]

\* A reset of the machine: the core's reset drops its line, IRQH_Init forgets
\* the raised levels, and the installed routines stay.
IRQH_Init(q) == [q EXCEPT !.IRQ = {}, !.line = 0]

\* The controller before the first device has raised anything.
PowerOn == [IRQ |-> {}, CallBack |-> [l \in Level |-> NULL], line |-> 0]

\* The core accepts a line above its mask, and level 7 whatever the mask is.
Accepts(q, mask) == q.line = 7 \/ q.line > mask
=============================================================================
