----------------------------- MODULE MFPProofs ------------------------------
(***************************************************************************)
(* The MFP raises level 6 exactly while it has a request, and each of its  *)
(* steps is a step of the interrupt controller: for every set of channels, *)
(* of other devices and of masks, and for both CPU cores.                  *)
(***************************************************************************)
EXTENDS MFP, IRQHProofs

\* The inductive invariant: a sound controller, whose level 6 belongs to the
\* MFP, next to the two invariants on the registers.
IInv ==
  /\ TypeOK
  /\ Sound(irqh, HandlersOf)
  /\ LevelMirrorsRequests
  /\ PendingIsEnabled

LEMMA Wiring ==
  /\ HandlersOf[6] = {MFP_IntCallback}
  /\ \A l \in Level \ {6} : HandlersOf[l] = OtherHandlersOf[l]
  /\ 6 \in Level /\ MFP_IntCallback \in Handler
BY MFPAssumption DEF HandlersOf

\* After MFP_RecheckInt, level 6 is raised exactly if a request is left.
LEMMA RecheckMirrors ==
  ASSUME NEW q, Sound(q, HandlersOf), NEW R
  PROVE  /\ Sound(MFP_RecheckInt(q, R), HandlersOf)
         /\ 6 \in MFP_RecheckInt(q, R).IRQ <=> R # {}
<1> DEFINE w == IRQH_IRQCallBack(q, 6)
<1>1. Sound(w, HandlersOf)
  BY CallBackSound, Wiring DEF Sound
<1>2. 6 \notin w.IRQ
  BY DEF IRQH_IRQCallBack, Sound, Controller
<1>3. /\ Sound(IRQH_Int(w, 6, MFP_IntCallback), HandlersOf)
      /\ 6 \in IRQH_Int(w, 6, MFP_IntCallback).IRQ
  BY <1>1, IntSound, Wiring DEF IRQH_Int
<1> QED  BY <1>1, <1>2, <1>3 DEF MFP_RecheckInt

\* When the core accepts level 6, the routine's withdrawal and the renewed raise
\* leave level 6 raised exactly if a request is left.
LEMMA AcceptMirrors ==
  ASSUME NEW q, Sound(q, HandlersOf), NEW R
  PROVE  LET w == IRQH_IRQCallBack(AcceptLine(q), 6)
             r == IF R = {} THEN w ELSE IRQH_Int(w, 6, MFP_IntCallback)
         IN  AfterVector(r) = r /\ Sound(r, HandlersOf) /\ (6 \in r.IRQ <=> R # {})
<1> DEFINE a == AcceptLine(q)
           w == IRQH_IRQCallBack(a, 6)
           r == IF R = {} THEN w ELSE IRQH_Int(w, 6, MFP_IntCallback)
<1>1. /\ a \in Controller
      /\ \A k \in a.IRQ : a.CallBack[k] \in HandlersOf[k]
  BY AcceptLineKeeps DEF Sound
<1>2. Sound(w, HandlersOf)
  BY <1>1, CallBackSound, Wiring
<1>3. 6 \notin w.IRQ
  BY <1>1 DEF IRQH_IRQCallBack, Controller
<1>4. /\ Sound(IRQH_Int(w, 6, MFP_IntCallback), HandlersOf)
      /\ 6 \in IRQH_Int(w, 6, MFP_IntCallback).IRQ
  BY <1>2, IntSound, Wiring DEF IRQH_Int
<1>5. Sound(r, HandlersOf) /\ (6 \in r.IRQ <=> R # {})
  BY <1>2, <1>3, <1>4
<1> QED  BY <1>5, AfterVectorSound

\* A set of channels has a highest member, a channel, or is empty.
LEMMA HighestOf ==
  ASSUME NEW S \in SUBSET Channel
  PROVE  Highest(S) \subseteq S
BY DEF Highest

LEMMA InitIInv == Init => IInv
<1> SUFFICES ASSUME Init  PROVE IInv
  OBVIOUS
<1>1. PowerOn \in Controller /\ Sound(PowerOn, HandlersOf)
  BY HighestPendingType DEF Sound, PowerOn, Controller
<1>2. ResetChannels \subseteq Channel /\ PowerOn.IRQ = {}
  BY DEF ResetChannels, PowerOn
<1>3. Requests(ipr, imr, isr) = {}
  BY DEF Init, Requests
<1>4. TypeOK
  <2>1. eoi \in BOOLEAN /\ irqh \in Controller
    BY <1>1, Zenon DEF Init
  <2>2. mask \in 0..7 /\ vect \in Channel \cup {NoVector}
    BY DEF Init
  <2>3. /\ ier \in SUBSET Channel /\ ipr \in SUBSET Channel
        /\ imr \in SUBSET Channel /\ isr \in SUBSET Channel
    BY <1>2 DEF Init
  <2> QED  BY <2>1, <2>2, <2>3 DEF TypeOK
<1> QED  BY <1>1, <1>2, <1>3, <1>4
         DEF Init, IInv, LevelMirrorsRequests, PendingIsEnabled

LEMMA NextIInv == IInv /\ [Next]_vars => IInv'
<1> SUFFICES ASSUME IInv, [Next]_vars  PROVE IInv'
  OBVIOUS
<1> USE DEF IInv
<1>0. irqh \in Controller
  BY DEF TypeOK
<1>1. ASSUME NEW c \in Channel, MFP_Int(c)  PROVE IInv'
  <2> DEFINE q == IRQH_Int(irqh, 6, MFP_IntCallback)
  <2>1. Sound(q, HandlersOf) /\ 6 \in q.IRQ
    BY IntSound, Wiring DEF IRQH_Int
  <2>2. irqh' = IF c \in imr \ isr THEN q ELSE irqh
    BY <1>1 DEF MFP_Int, Requests
  <2>3. irqh' \in Controller /\ Sound(irqh', HandlersOf)
    BY <2>1, <2>2 DEF Sound
  <2>4. LevelMirrorsRequests'
    BY <1>1, <2>1, <2>2 DEF LevelMirrorsRequests, Requests, MFP_Int
  <2> QED  BY <1>1, <2>3, <2>4 DEF MFP_Int, TypeOK, PendingIsEnabled
<1>2. ASSUME NEW half \in Half, NEW data \in SUBSET half,
             WriteIER(half, data) \/ WriteIPR(half, data)
               \/ WriteISR(half, data) \/ WriteIMR(half, data)
      PROVE  IInv'
  <2>1. irqh' = MFP_RecheckInt(irqh, Requests(ipr, imr, isr)')
    BY <1>2 DEF WriteIER, WriteIPR, WriteISR, WriteIMR, Requests
  <2>2. Sound(irqh', HandlersOf) /\ LevelMirrorsRequests'
    BY <2>1, RecheckMirrors DEF LevelMirrorsRequests
  <2>3. half \subseteq Channel
    BY DEF Half
  <2>4. PendingIsEnabled'
    BY <1>2, <2>3 DEF WriteIER, WriteIPR, WriteISR, WriteIMR, PendingIsEnabled
  <2>5. TypeOK'
    <3>1. irqh' \in Controller
      BY <2>2 DEF Sound
    <3> QED  BY <1>2, <2>3, <3>1
             DEF WriteIER, WriteIPR, WriteISR, WriteIMR, TypeOK
  <2> QED  BY <2>2, <2>4, <2>5
<1>3. ASSUME NEW software \in BOOLEAN, WriteVR(software)  PROVE IInv'
  BY <1>3 DEF WriteVR, TypeOK, LevelMirrorsRequests, PendingIsEnabled
<1>4. CASE MFPAccept
  <2>1. /\ Sound(irqh', HandlersOf)
        /\ 6 \in irqh'.IRQ <=> Requests(ipr', imr', isr') # {}
    BY <1>4, AcceptMirrors DEF MFPAccept
  <2>2. LevelMirrorsRequests'
    BY <2>1 DEF LevelMirrorsRequests
  <2>3. Highest(Requests(ipr, imr, isr)) \subseteq Channel
    BY DEF Highest, Requests, TypeOK
  <2>4. /\ vect' \in Channel \cup {NoVector}
        /\ ipr' \subseteq ipr
        /\ isr' \in SUBSET Channel
        /\ UNCHANGED <<ier, imr, eoi>> /\ mask' = 6
    BY <1>4, <2>3 DEF MFPAccept, TypeOK
  <2>5. irqh' \in Controller
    BY <2>1 DEF Sound
  <2> QED  BY <2>1, <2>2, <2>4, <2>5 DEF TypeOK, PendingIsEnabled
<1>5. ASSUME NEW l \in Level \ {6}, NEW h \in Handler, OtherRaise(l, h)
      PROVE  IInv'
  <2>1. Sound(irqh', HandlersOf)
    BY <1>5, IntSound, Wiring DEF OtherRaise
  <2>2. 6 \in irqh'.IRQ <=> 6 \in irqh.IRQ
    BY <1>5 DEF OtherRaise, IRQH_Int
  <2>3. UNCHANGED <<mask, mfp>> /\ irqh' \in Controller
    BY <1>5, <2>1 DEF OtherRaise, Sound
  <2> QED  BY <2>1, <2>2, <2>3 DEF TypeOK, LevelMirrorsRequests, PendingIsEnabled, mfp
<1>6. CASE OtherAccept
  <2> DEFINE a == AcceptLine(irqh)
             w == IRQH_IRQCallBack(a, irqh.line)
  <2>1. irqh.line \in Level /\ irqh.line \in 1..7 /\ irqh.line # 6
    BY <1>6, AcceptedIsRaised DEF OtherAccept, TypeOK
  <2>2. /\ a \in Controller /\ a.IRQ = irqh.IRQ
        /\ \A k \in a.IRQ : a.CallBack[k] \in HandlersOf[k]
    BY <1>0, AcceptLineKeeps DEF Sound
  <2>3. Sound(w, HandlersOf)
    BY <2>1, <2>2, CallBackSound
  <2>4. irqh' = w
    BY <1>6, <2>3, AfterVectorSound DEF OtherAccept
  <2>5. 6 \in irqh'.IRQ <=> 6 \in irqh.IRQ
    BY <2>1, <2>2, <2>4 DEF IRQH_IRQCallBack, Controller
  <2>6. mask' \in 0..7 /\ UNCHANGED mfp /\ irqh' \in Controller
    BY <1>6, <2>1, <2>3, <2>4 DEF OtherAccept, Sound
  <2> QED  BY <2>3, <2>4, <2>5, <2>6
           DEF TypeOK, LevelMirrorsRequests, PendingIsEnabled, mfp
<1>7. ASSUME NEW m \in Masks, SetMask(m)  PROVE IInv'
  BY <1>7, MFPAssumption
     DEF SetMask, TypeOK, LevelMirrorsRequests, PendingIsEnabled, mfp
<1>8. CASE Reset
  <2>1. Sound(irqh', HandlersOf) /\ irqh' \in Controller /\ 6 \notin irqh'.IRQ
    BY <1>0, <1>8, ResetSound DEF Reset, Sound, IRQH_Init, Controller
  <2>2. ResetChannels \subseteq Channel
    BY DEF ResetChannels
  <2>3. Requests(ipr', imr', isr') = {} /\ ipr' \subseteq ier'
    BY <1>8 DEF Reset, Requests
  <2>4. TypeOK'
    <3>1. eoi' \in BOOLEAN /\ irqh' \in Controller
      BY <1>8, <2>1, Zenon DEF Reset
    <3>2. mask' \in 0..7 /\ vect' \in Channel \cup {NoVector}
      BY <1>8 DEF Reset, TypeOK
    <3>3. /\ ier' \in SUBSET Channel /\ ipr' \in SUBSET Channel
          /\ imr' \in SUBSET Channel /\ isr' \in SUBSET Channel
      BY <1>8, <2>2 DEF Reset
    <3> QED  BY <3>1, <3>2, <3>3 DEF TypeOK
  <2> QED  BY <2>1, <2>3, <2>4 DEF LevelMirrorsRequests, PendingIsEnabled
<1>9. CASE UNCHANGED vars
  BY <1>9 DEF vars, TypeOK, LevelMirrorsRequests, PendingIsEnabled
<1> QED  BY <1>1, <1>2, <1>3, <1>4, <1>5, <1>6, <1>7, <1>8, <1>9
         DEF Next, GuestWrite

\* The invariant the theorems below project.
THEOREM Invariance == Spec => []IInv
BY InitIInv, NextIInv, PTL DEF Spec

\* The registers and the controller keep their types.
THEOREM TypeCorrect == Spec => []TypeOK
BY Invariance, PTL DEF IInv

\* No request waits without the CPU being asked, and the CPU is never asked
\* without a request.
THEOREM MirrorCorrect == Spec => []LevelMirrorsRequests
BY Invariance, PTL DEF IInv

\* A channel the guest has disabled has no pending request.
THEOREM PendingCorrect == Spec => []PendingIsEnabled
BY Invariance, PTL DEF IInv

-----------------------------------------------------------------------------
(* Refinement: every step of the MFP is a step of the controller.          *)

\* The instance's operations are those of this module.
LEMMA SameOperations ==
  /\ Controls!PowerOn = PowerOn
  /\ \A q, l, h : Controls!IRQH_Int(q, l, h) = IRQH_Int(q, l, h)
  /\ \A q, l : Controls!IRQH_IRQCallBack(q, l) = IRQH_IRQCallBack(q, l)
  /\ \A q : /\ Controls!AcceptLine(q) = AcceptLine(q)
             /\ Controls!AfterVector(q) = AfterVector(q)
             /\ Controls!IRQH_Init(q) = IRQH_Init(q)
  /\ \A q, m : Controls!Accepts(q, m) <=> Accepts(q, m)
BY DEF Controls!PowerOn, PowerOn, Controls!IRQH_Int, IRQH_Int,
       Controls!IRQH_IRQCallBack, IRQH_IRQCallBack, Controls!AcceptLine, AcceptLine,
       Controls!AfterVector, AfterVector, Controls!IRQH_Init, IRQH_Init,
       Controls!Accepts, Accepts, Controls!HighestPending, HighestPending

\* The withdrawal of MFP_RecheckInt is the controller's Withdraw.
LEMMA RecheckIsWithdraw ==
  ASSUME NEW R, irqh' = MFP_RecheckInt(irqh, R), UNCHANGED mask
  PROVE  \E again \in BOOLEAN : Controls!Withdraw(6, MFP_IntCallback, again)
<1>1. MFP_IntCallback \in HandlersOf[6] \cap {MFP_IntCallback}
  BY Wiring
<1>2. CASE R = {}
  <2>1. Controls!Withdraw(6, MFP_IntCallback, FALSE)
    BY <1>1, <1>2, SameOperations DEF Controls!Withdraw, MFP_RecheckInt
  <2> QED  BY <2>1
<1>3. CASE R # {}
  <2>1. Controls!Withdraw(6, MFP_IntCallback, TRUE)
    BY <1>1, <1>3, SameOperations DEF Controls!Withdraw, MFP_RecheckInt
  <2> QED  BY <2>1
<1> QED  BY <1>2, <1>3

LEMMA StepImplements == IInv /\ [Next]_vars => [Controls!Next]_(Controls!vars)
<1> SUFFICES ASSUME IInv, [Next]_vars  PROVE Controls!Next \/ UNCHANGED <<irqh, mask>>
  BY DEF Controls!vars
<1> USE DEF IInv
<1>1. ASSUME NEW c \in Channel, MFP_Int(c)
      PROVE  Controls!Next \/ UNCHANGED <<irqh, mask>>
  <2>1. CASE UNCHANGED irqh
    BY <1>1, <2>1 DEF MFP_Int
  <2>2. CASE irqh' = IRQH_Int(irqh, 6, MFP_IntCallback)
    <3>1. Controls!Raise(6, MFP_IntCallback)
      BY <1>1, <2>2, Wiring, SameOperations DEF MFP_Int, Controls!Raise
    <3> QED  BY <3>1, Wiring DEF Controls!Next
  <2> QED  BY <1>1, <2>1, <2>2 DEF MFP_Int
<1>2. ASSUME NEW half \in Half, NEW data \in SUBSET half,
             WriteIER(half, data) \/ WriteIPR(half, data)
               \/ WriteISR(half, data) \/ WriteIMR(half, data)
      PROVE  Controls!Next
  <2>1. /\ irqh' = MFP_RecheckInt(irqh, Requests(ipr, imr, isr)')
        /\ UNCHANGED mask
    BY <1>2 DEF WriteIER, WriteIPR, WriteISR, WriteIMR, Requests
  <2>2. \E again \in BOOLEAN : Controls!Withdraw(6, MFP_IntCallback, again)
    BY <2>1, RecheckIsWithdraw
  <2> QED  BY <2>2, Wiring DEF Controls!Next
<1>3. ASSUME NEW software \in BOOLEAN, WriteVR(software)
      PROVE  UNCHANGED <<irqh, mask>>
  BY <1>3 DEF WriteVR
<1>4. CASE MFPAccept
  <2> DEFINE w == IRQH_IRQCallBack(AcceptLine(irqh), 6)
             R == Requests(ipr', imr, isr')
  <2>1. irqh.CallBack[6] = MFP_IntCallback
    BY <1>4, AcceptedIsRaised, Wiring DEF MFPAccept, TypeOK
  <2>2. /\ Accepts(irqh, mask) /\ irqh.line = 6 /\ mask' = irqh.line
        /\ irqh' = AfterVector(IF R = {} THEN w ELSE IRQH_Int(w, 6, MFP_IntCallback))
    BY <1>4 DEF MFPAccept
  <2>3. CASE R = {}
    <3>1. Controls!Acknowledge(FALSE)
      BY <2>2, <2>3, SameOperations DEF Controls!Acknowledge
    <3> QED  BY <3>1 DEF Controls!Next
  <2>4. CASE R # {}
    <3>1. Controls!Acknowledge(TRUE)
      BY <2>1, <2>2, <2>4, SameOperations DEF Controls!Acknowledge
    <3> QED  BY <3>1 DEF Controls!Next
  <2> QED  BY <2>3, <2>4
<1>5. ASSUME NEW l \in Level \ {6}, NEW h \in Handler, OtherRaise(l, h)
      PROVE  Controls!Next
  <2>1. Controls!Raise(l, h)
    BY <1>5, Wiring, SameOperations DEF OtherRaise, Controls!Raise
  <2> QED  BY <2>1 DEF Controls!Next
<1>6. CASE OtherAccept
  <2>1. Controls!Acknowledge(FALSE)
    BY <1>6, SameOperations DEF OtherAccept, Controls!Acknowledge
  <2> QED  BY <2>1 DEF Controls!Next
<1>7. ASSUME NEW m \in Masks, SetMask(m)  PROVE Controls!Next
  <2>1. Controls!SetMask(m) /\ m \in 0..7
    BY <1>7, MFPAssumption DEF SetMask, Controls!SetMask
  <2> QED  BY <2>1 DEF Controls!Next
<1>8. CASE Reset
  BY <1>8, SameOperations DEF Reset, Controls!Reset, Controls!Next
<1>9. CASE UNCHANGED vars
  BY <1>9 DEF vars
<1> QED  BY <1>1, <1>2, <1>3, <1>4, <1>5, <1>6, <1>7, <1>8, <1>9
         DEF Next, GuestWrite

\* The MFP with the devices of the other levels implements the interrupt
\* controller: whatever is proved of the controller holds with this MFP.
THEOREM Refinement == Spec => ImplementsArbiter
<1>1. Init => Controls!Init
  BY SameOperations DEF Init, Controls!Init
<1> QED  BY <1>1, StepImplements, Invariance, PTL
         DEF Spec, Controls!Spec, ImplementsArbiter
=============================================================================
