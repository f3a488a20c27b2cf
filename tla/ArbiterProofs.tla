--------------------------- MODULE ArbiterProofs ----------------------------
(***************************************************************************)
(* The safety of the interrupt controller, for every set of levels and     *)
(* devices and for both CPU cores.                                         *)
(***************************************************************************)
EXTENDS Arbiter, IRQHProofs

\* The controller is sound in the sense of IRQHProofs, the mask is in range.
IInv == Sound(irqh, HandlersOf) /\ mask \in 0..7

LEMMA InitIInv == Init => IInv
BY HighestPendingType DEF Init, IInv, Sound, PowerOn, Controller

LEMMA NextIInv == IInv /\ [Next]_vars => IInv'
<1> SUFFICES ASSUME IInv, [Next]_vars  PROVE IInv'
  OBVIOUS
<1>0. irqh \in Controller /\ (\A k \in irqh.IRQ : irqh.CallBack[k] \in HandlersOf[k])
  BY DEF IInv, Sound
<1>1. ASSUME NEW l \in Level, NEW h \in Handler, Raise(l, h)  PROVE IInv'
  BY <1>1, IntSound DEF IInv, Raise
<1>2. ASSUME NEW l \in Level, NEW h \in Handler, NEW again \in BOOLEAN,
             Withdraw(l, h, again)
      PROVE  IInv'
  <2> DEFINE q == IRQH_IRQCallBack(irqh, l)
  <2>1. Sound(q, HandlersOf)
    BY <1>0, CallBackSound
  <2>2. h \in HandlersOf[l]
    BY <1>2 DEF Withdraw
  <2>3. Sound(IRQH_Int(q, l, h), HandlersOf)
    BY <2>1, <2>2, IntSound
  <2> QED  BY <1>2, <2>1, <2>3 DEF IInv, Withdraw
<1>3. ASSUME NEW again \in BOOLEAN, Acknowledge(again)  PROVE IInv'
  <2> DEFINE l == irqh.line
             h == irqh.CallBack[l]
             a == AcceptLine(irqh)
             q == IRQH_IRQCallBack(a, l)
  <2>1. l \in Level /\ l \in 0..7 /\ h \in HandlersOf[l]
    BY <1>3, AcceptedIsRaised DEF IInv, Acknowledge
  <2>2. a \in Controller /\ a.IRQ = irqh.IRQ /\ a.CallBack = irqh.CallBack
    BY <1>0, AcceptLineKeeps
  <2>3. Sound(q, HandlersOf)
    BY <1>0, <2>1, <2>2, CallBackSound
  <2>4. h \in Handler
    BY <2>1, WiringAssumption
  <2>5. Sound(IRQH_Int(q, l, h), HandlersOf)
    BY <2>1, <2>3, <2>4, IntSound
  <2>6. irqh' = (IF again THEN IRQH_Int(q, l, h) ELSE q)
    BY <1>3, <2>3, <2>5, AfterVectorSound DEF Acknowledge
  <2>7. mask' \in 0..7
    BY <1>3, <2>1 DEF Acknowledge
  <2> QED  BY <2>3, <2>5, <2>6, <2>7 DEF IInv
<1>4. ASSUME NEW m \in 0..7, SetMask(m)  PROVE IInv'
  BY <1>4 DEF IInv, SetMask
<1>5. CASE Reset
  BY <1>0, <1>5, ResetSound DEF IInv, Reset
<1>6. CASE UNCHANGED vars
  BY <1>6 DEF IInv, vars
<1> QED  BY <1>1, <1>2, <1>3, <1>4, <1>5, <1>6 DEF Next

\* Every state of the controller is sound: the invariant the theorems below
\* project.
THEOREM Soundness == Spec => []IInv
BY InitIInv, NextIInv, PTL DEF Spec

\* The controller and the CPU mask keep their types.
THEOREM TypeCorrect == Spec => []TypeOK
<1>1. IInv => TypeOK
  BY DEF IInv, Sound, TypeOK
<1> QED  BY Soundness, <1>1, PTL

\* The CPU's line is the highest raised level in every reachable state.
THEOREM LineCorrect == Spec => []LineIsHighest
<1>1. IInv => LineIsHighest
  BY DEF IInv, Sound, LineIsHighest
<1> QED  BY Soundness, <1>1, PTL

\* The core is never sent through an empty or a foreign slot of IRQH_CallBack.
THEOREM HandlerCorrect == Spec => []OfferedLevelHasHandler
<1>1. IInv => OfferedLevelHasHandler
  BY HighestPendingType DEF IInv, Sound, Controller, OfferedLevelHasHandler
<1> QED  BY Soundness, <1>1, PTL
=============================================================================
