--------------------------------- MODULE MFP --------------------------------
(***************************************************************************)
(* The interrupt logic of the MC68901 multi-function peripheral            *)
(* (x68k/mfp.c) on level 6 of the interrupt controller.                    *)
(*                                                                         *)
(* Sixteen request sources, the channels, are named by their vector number *)
(* (15 is the highest priority, MFP_Int(i) raises channel 15 - i).  A      *)
(* register pair such as IERA/IERB is the set of channels whose bit is 1.  *)
(* The devices of other levels are arbitrary: they raise their level and   *)
(* withdraw it when the core accepts it.                                   *)
(***************************************************************************)
EXTENDS IRQH

CONSTANTS
  Channel,           \* the channels in use, of 0..15
  MFP_IntCallback,   \* the MFP's vector routine
  OtherHandlersOf,   \* the routines of the devices on the other levels
  Masks              \* the interrupt masks the guest program uses

ASSUME MFPAssumption ==
  /\ Channel \subseteq 0..15
  /\ 6 \in Level
  /\ MFP_IntCallback \in Handler
  /\ OtherHandlersOf \in [Level \ {6} -> SUBSET (Handler \ {MFP_IntCallback})]
  /\ Masks \subseteq 0..7

\* The halves of a register pair: A holds channels 15..8, B channels 7..0.
Half == {{c \in Channel : c >= 8}, {c \in Channel : c < 8}}

\* The channels MFP_Init enables and unmasks (0x18 in the A half, 0x3e in B).
ResetChannels == Channel \cap {12, 11, 5, 4, 3, 2, 1}

NoVector == -1

VARIABLES
  irqh,   \* the interrupt controller and the CPU's line
  mask,   \* the CPU's interrupt mask
  ier,    \* IERA/IERB: enabled
  ipr,    \* IPRA/IPRB: pending
  imr,    \* IMRA/IMRB: not masked
  isr,    \* ISRA/ISRB: in service
  eoi,    \* bit 3 of VR: the guest ends interrupts itself (software EOI)
  vect    \* the channel of the last vector given to the CPU

mfp  == <<ier, ipr, imr, isr, eoi, vect>>
vars == <<irqh, mask, ier, ipr, imr, isr, eoi, vect>>

-----------------------------------------------------------------------------
\* Faulty variants of the definitions below, which the properties must refute.
RecheckWithoutRaise(q, requests) == IRQH_IRQCallBack(q, 6)
RecheckKeepingLine(q, requests) ==
  IF requests = {} THEN [q EXCEPT !.IRQ = @ \ {6}]
                   ELSE IRQH_Int(q, 6, MFP_IntCallback)

\* The channels that ask for an interrupt: pending, unmasked, not in service.
Requests(p, m, s) == (p \cap m) \ s

\* The highest of some channels: the scan of MFP_IntCallback (none of none).
Highest(S) == {c \in S : \A d \in S : d <= c}

\* MFP_RecheckInt: withdraw level 6, raise it again if a request is left.
MFP_RecheckInt(q, requests) ==
  LET w == IRQH_IRQCallBack(q, 6)
  IN  IF requests = {} THEN w ELSE IRQH_Int(w, 6, MFP_IntCallback)

Init ==
  /\ irqh = PowerOn
  /\ mask = 7
  /\ ier = ResetChannels
  /\ imr = ResetChannels
  /\ ipr = {} /\ isr = {}
  /\ eoi = FALSE
  /\ vect = NoVector

\* A device or a timer requests an interrupt on a channel.
MFP_Int(c) ==
  /\ c \in ier
  /\ ipr' = ipr \cup {c}
  /\ irqh' = IF c \in Requests({c}, imr, isr)
               THEN IRQH_Int(irqh, 6, MFP_IntCallback) ELSE irqh
  /\ UNCHANGED <<mask, ier, imr, isr, eoi, vect>>

\* Guest writes IERA or IERB: disabled channels lose their pending request.
WriteIER(half, data) ==
  /\ ier' = (ier \ half) \cup data
  /\ ipr' = ipr \ (half \ data)
  /\ irqh' = MFP_RecheckInt(irqh, Requests(ipr', imr, isr))
  /\ UNCHANGED <<mask, imr, isr, eoi, vect>>

\* Guest writes IPRA or IPRB: zeros cancel pending requests.
WriteIPR(half, data) ==
  /\ ipr' = ipr \ (half \ data)
  /\ irqh' = MFP_RecheckInt(irqh, Requests(ipr', imr, isr))
  /\ UNCHANGED <<mask, ier, imr, isr, eoi, vect>>

\* Guest writes ISRA or ISRB: zeros end the service of a channel.
WriteISR(half, data) ==
  /\ isr' = isr \ (half \ data)
  /\ irqh' = MFP_RecheckInt(irqh, Requests(ipr, imr, isr'))
  /\ UNCHANGED <<mask, ier, ipr, imr, eoi, vect>>

\* Guest writes IMRA or IMRB.
WriteIMR(half, data) ==
  /\ imr' = (imr \ half) \cup data
  /\ irqh' = MFP_RecheckInt(irqh, Requests(ipr, imr', isr))
  /\ UNCHANGED <<mask, ier, ipr, isr, eoi, vect>>

\* Guest writes VR: only its bit 3 matters here; the in-service bits stay.
WriteVR(software) ==
  /\ eoi' = software
  /\ UNCHANGED <<irqh, mask, ier, ipr, imr, isr, vect>>

\* The core accepts level 6: MFP_IntCallback serves the highest request and
\* raises level 6 again if another is left.  With no request at all it reports
\* "MFP Int w/o Request" and gives no vector.
MFPAccept ==
  /\ Accepts(irqh, mask)
  /\ irqh.line = 6
  /\ mask' = 6
  /\ LET q == IRQH_IRQCallBack(AcceptLine(irqh), 6)
         served == Highest(Requests(ipr, imr, isr))
     IN  /\ vect' \in IF served = {} THEN {NoVector} ELSE served
         /\ ipr' = ipr \ served
         /\ isr' = IF eoi THEN isr \cup served ELSE isr
         /\ irqh' = AfterVector(IF Requests(ipr', imr, isr') = {} THEN q
                                ELSE IRQH_Int(q, 6, MFP_IntCallback))
  /\ UNCHANGED <<ier, imr, eoi>>

\* A device of another level raises it.
OtherRaise(l, h) ==
  /\ h \in OtherHandlersOf[l]
  /\ irqh' = IRQH_Int(irqh, l, h)
  /\ UNCHANGED <<mask, mfp>>

\* The core accepts another level; its routine withdraws it.
OtherAccept ==
  /\ Accepts(irqh, mask)
  /\ irqh.line # 6
  /\ mask' = irqh.line
  /\ irqh' = AfterVector(IRQH_IRQCallBack(AcceptLine(irqh), irqh.line))
  /\ UNCHANGED mfp

\* The guest program writes its status register or returns from an interrupt.
SetMask(m) ==
  /\ mask' = m
  /\ UNCHANGED <<irqh, mfp>>

\* WinX68k_Reset: m68000_reset, MFP_Init and IRQH_Init.
Reset ==
  /\ irqh' = IRQH_Init(irqh)
  /\ mask' = 7
  /\ ier' = ResetChannels
  /\ imr' = ResetChannels
  /\ ipr' = {} /\ isr' = {}
  /\ eoi' = FALSE
  /\ UNCHANGED vect

GuestWrite ==
  \/ \E half \in Half : \E data \in SUBSET half :
        WriteIER(half, data) \/ WriteIPR(half, data)
          \/ WriteISR(half, data) \/ WriteIMR(half, data)
  \/ \E software \in BOOLEAN : WriteVR(software)

Next ==
  \/ \E c \in Channel : MFP_Int(c)
  \/ GuestWrite
  \/ MFPAccept
  \/ \E l \in Level \ {6}, h \in Handler : OtherRaise(l, h)
  \/ OtherAccept
  \/ \E m \in Masks : SetMask(m)
  \/ Reset

Spec == Init /\ [][Next]_vars

-----------------------------------------------------------------------------
TypeOK ==
  /\ irqh \in Controller
  /\ mask \in 0..7
  /\ ier \in SUBSET Channel /\ ipr \in SUBSET Channel
  /\ imr \in SUBSET Channel /\ isr \in SUBSET Channel
  /\ eoi \in BOOLEAN
  /\ vect \in Channel \cup {NoVector}

\* Level 6 is raised exactly while some channel asks for an interrupt, whatever
\* the guest writes between a request and its acceptance: no request waits
\* without the CPU being asked, and no acceptance finds "MFP Int w/o Request".
LevelMirrorsRequests == 6 \in irqh.IRQ <=> Requests(ipr, imr, isr) # {}

\* A pending request belongs to an enabled channel: a channel the guest has
\* disabled never interrupts, not even for a request made before.
PendingIsEnabled == ipr \subseteq ier

\* The MFP is a well-behaved device of the interrupt controller.
HandlersOf ==
  [l \in Level |-> IF l = 6 THEN {MFP_IntCallback} ELSE OtherHandlersOf[l]]
Controls == INSTANCE Arbiter WITH Rearming <- {MFP_IntCallback}
ImplementsArbiter == Controls!Spec
=============================================================================
