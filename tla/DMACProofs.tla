----------------------------- MODULE DMACProofs -----------------------------
(***************************************************************************)
(* The DMAC raises level 3 exactly while a channel has an interrupt to     *)
(* deliver, and each of its steps is a step of the interrupt controller or *)
(* none: for every set of channels, chain tables, register values the      *)
(* guest writes and bus faults, and for both CPU cores.                    *)
(***************************************************************************)
EXTENDS DMAC, IRQHProofs

\* The inductive invariant.  Level 3 alone has a routine wired to it, so the
\* line the core accepts is the DMAC's.
IInv ==
  /\ mask \in 0..7
  /\ Sound(irqh, HandlersOf)
  /\ LevelMirrorsChannels

LEMMA Wiring ==
  /\ HandlersOf[3] = {DMA_Int} /\ 3 \in Level /\ DMA_Int \in Handler
  /\ \A l \in Level \ {3} : HandlersOf[l] = {}
BY DMACAssumption DEF HandlersOf

\* What a step on a channel does to the shared state: nothing, or it adds the
\* channel to those that wait and raises the level.
Raised(c) ==
  \/ UNCHANGED <<intCH, irqh>>
  \/ intCH' = intCH \cup {c} /\ irqh' = IRQH_Int(irqh, 3, DMA_Int)

LEMMA UpdateRaises ==
  ASSUME NEW c, NEW d, NEW event, Update(c, d, event)
  PROVE  Raised(c)
BY DEF Update, DMAINT, Raised

\* Every step on a channel is one of those.
LEMMA ChannelStep ==
  ASSUME NEW c \in Chan,
         \/ GuestWrite(c)
         \/ ContinueLater(c) \/ ContinueError(c) \/ ContinueNow(c)
         \/ Poll(c) \/ Transfer(c) \/ Return(c)
         \/ \E flag \in BusFlags, toMemory \in BOOLEAN : BusError(c, flag, toMemory)
  PROVE  Raised(c) /\ UNCHANGED mask
<1>1. CASE GuestWrite(c)
  <2>1. ASSUME NEW ones, WriteCSR(c, ones)
        PROVE  Raised(c) /\ UNCHANGED mask
    BY <2>1, UpdateRaises, Zenon DEF WriteCSR
  <2>2. CASE WriteCER(c)
    BY <2>2, UpdateRaises, Zenon DEF WriteCER
  <2>3. ASSUME NEW mode, WriteOCR(c, mode)
        PROVE  Raised(c) /\ UNCHANGED mask
    BY <2>3, UpdateRaises, Zenon DEF WriteOCR
  <2>4. ASSUME NEW n, WriteMTC(c, n) \/ WriteBTC(c, n) \/ WriteBAR(c, n)
        PROVE  Raised(c) /\ UNCHANGED mask
    BY <2>4, UpdateRaises, Zenon DEF WriteMTC, WriteBTC, WriteBAR
  <2>5. ASSUME NEW data, WriteCCR(c, data)
        PROVE  Raised(c) /\ UNCHANGED mask
    <3>1. CASE Abort(c, data)
      BY <3>1, UpdateRaises, Zenon DEF Abort
    <3>2. CASE Halt(c, data)
      BY <3>2, UpdateRaises, Zenon DEF Halt
    <3>3. CASE Release(c, data)
      BY <3>3, UpdateRaises, Zenon DEF Release
    <3>4. CASE Start(c, data)
      <4>1. \E d, event : Update(c, d, event)
        BY <3>4, Zenon DEF Start
      <4> QED
        BY <3>4, <4>1, UpdateRaises, Zenon DEF Start
    <3>5. CASE Store(c, data)
      BY <3>5, UpdateRaises, Zenon DEF Store
    <3> QED
      BY <2>5, <3>1, <3>2, <3>3, <3>4, <3>5 DEF WriteCCR
  <2> QED
    BY <1>1, <2>1, <2>2, <2>3, <2>4, <2>5, Zenon DEF GuestWrite
<1>2. CASE ContinueLater(c) \/ Poll(c) \/ Return(c)
  BY <1>2, Zenon DEF ContinueLater, Poll, Return, Raised
<1>3. CASE ContinueError(c)
  BY <1>3, UpdateRaises, Zenon DEF ContinueError
<1>4. CASE ContinueNow(c)
  <2>1. \E d, event : Update(c, d, event)
    BY <1>4, Zenon DEF ContinueNow
  <2> QED
    BY <1>4, <2>1, UpdateRaises, Zenon DEF ContinueNow
<1>5. CASE Transfer(c)
  <2>1. \E d, event : Update(c, d, event)
    BY <1>5, Zenon DEF Transfer
  <2> QED
    BY <1>5, <2>1, UpdateRaises, Zenon DEF Transfer
<1>6. ASSUME NEW flag, NEW toMemory, BusError(c, flag, toMemory)
      PROVE  Raised(c) /\ UNCHANGED mask
  <2>1. (\E d, event : Update(c, d, event)) /\ UNCHANGED mask
    BY <1>6, Zenon DEF BusError
  <2> QED
    BY <2>1, UpdateRaises, Zenon
<1> QED
  BY <1>1, <1>2, <1>3, <1>4, <1>5, <1>6, Zenon

-----------------------------------------------------------------------------
\* When the core accepts level 3, the routine's withdrawal and the renewed
\* raise leave the level raised exactly if another channel waits.
LEMMA AcceptMirrors ==
  ASSUME NEW q, Sound(q, HandlersOf), NEW W
  PROVE  LET w == IRQH_IRQCallBack(AcceptLine(q), 3)
             r == IF W = {} THEN w ELSE IRQH_Int(w, 3, DMA_Int)
         IN  AfterVector(r) = r /\ Sound(r, HandlersOf) /\ (3 \in r.IRQ <=> W # {})
<1> DEFINE a == AcceptLine(q)
           w == IRQH_IRQCallBack(a, 3)
           r == IF W = {} THEN w ELSE IRQH_Int(w, 3, DMA_Int)
<1>1. /\ a \in Controller
      /\ \A k \in a.IRQ : a.CallBack[k] \in HandlersOf[k]
  BY AcceptLineKeeps DEF Sound
<1>2. Sound(w, HandlersOf)
  BY <1>1, CallBackSound, Wiring
<1>3. 3 \notin w.IRQ
  BY <1>1 DEF IRQH_IRQCallBack, Controller
<1>4. /\ Sound(IRQH_Int(w, 3, DMA_Int), HandlersOf)
      /\ 3 \in IRQH_Int(w, 3, DMA_Int).IRQ
  BY <1>2, IntSound, Wiring DEF IRQH_Int
<1>5. Sound(r, HandlersOf) /\ (3 \in r.IRQ <=> W # {})
  BY <1>2, <1>3, <1>4
<1> QED  BY <1>5, AfterVectorSound

LEMMA InitIInv == Init => IInv
<1> SUFFICES ASSUME Init PROVE IInv
  OBVIOUS
<1>1. irqh \in Controller /\ irqh.IRQ = {} /\ irqh.line = 0
  BY DEF Init, PowerOn, Controller
<1>2. Sound(irqh, HandlersOf)
  BY <1>1, HighestPendingType DEF Sound
<1> QED
  BY <1>1, <1>2 DEF Init, IInv, LevelMirrorsChannels

LEMMA NextIInv == IInv /\ [Next]_vars => IInv'
<1> SUFFICES ASSUME IInv, [Next]_vars PROVE IInv'
  OBVIOUS
<1> USE DEF IInv
<1>1. ASSUME NEW c \in Chan, Raised(c), UNCHANGED mask
      PROVE  IInv'
  <2>1. CASE UNCHANGED <<intCH, irqh>>
    BY <1>1, <2>1 DEF LevelMirrorsChannels
  <2>2. CASE intCH' = intCH \cup {c} /\ irqh' = IRQH_Int(irqh, 3, DMA_Int)
    <3>1. Sound(irqh', HandlersOf)
      BY <2>2, IntSound, Wiring
    <3>2. 3 \in irqh'.IRQ /\ intCH' # {}
      BY <2>2 DEF IRQH_Int
    <3> QED
      BY <1>1, <3>1, <3>2 DEF LevelMirrorsChannels
  <2> QED
    BY <1>1, <2>1, <2>2 DEF Raised
<1>2. CASE DMAAccept
  <2>1. irqh' = AfterVector(IF intCH' = {} THEN IRQH_IRQCallBack(AcceptLine(irqh), 3)
                            ELSE IRQH_Int(IRQH_IRQCallBack(AcceptLine(irqh), 3), 3, DMA_Int))
    BY <1>2 DEF DMAAccept
  <2>2. Sound(irqh', HandlersOf) /\ (3 \in irqh'.IRQ <=> intCH' # {})
    BY <2>1, AcceptMirrors
  <2>3. mask' \in 0..7
    BY <1>2, AcceptedIsRaised DEF DMAAccept
  <2> QED
    BY <2>2, <2>3 DEF LevelMirrorsChannels
<1>3. ASSUME NEW m \in Masks, SetMask(m)
      PROVE  IInv'
  BY <1>3, DMACAssumption DEF SetMask, LevelMirrorsChannels
<1>4. CASE Reset
  <2>1. Sound(irqh', HandlersOf)
    BY <1>4, ResetSound DEF Reset, Sound
  <2>2. irqh'.IRQ = {} /\ intCH' = {} /\ mask' = 7
    BY <1>4 DEF Reset, IRQH_Init, Sound, Controller
  <2> QED
    BY <2>1, <2>2 DEF LevelMirrorsChannels
<1>5. CASE UNCHANGED vars
  BY <1>5 DEF vars, LevelMirrorsChannels
<1> QED
  BY <1>1, <1>2, <1>3, <1>4, <1>5, ChannelStep DEF Next

\* The inductive invariant holds at all times.
THEOREM Invariance == Spec => []IInv
BY InitIInv, NextIInv, PTL DEF Spec

\* Level 3 is raised exactly while some channel has an interrupt to deliver,
\* for any number of channels that end in any order.
THEOREM MirrorCorrect == Spec => []LevelMirrorsChannels
<1>1. IInv => LevelMirrorsChannels
  BY DEF IInv
<1> QED
  BY <1>1, Invariance, PTL

-----------------------------------------------------------------------------
(* Refinement: every step of the DMAC is a step of the controller.         *)

\* The instance's operations are those of this module.
LEMMA SameOperations ==
  /\ Controls!PowerOn = PowerOn
  /\ \A q, l, h : Controls!IRQH_Int(q, l, h) = IRQH_Int(q, l, h)
  /\ \A q, l : Controls!IRQH_IRQCallBack(q, l) = IRQH_IRQCallBack(q, l)
  /\ \A q : /\ Controls!AcceptLine(q) = AcceptLine(q)
             /\ Controls!AfterVector(q) = AfterVector(q)
             /\ Controls!IRQH_Init(q) = IRQH_Init(q)
  /\ \A q, m : Controls!Accepts(q, m) <=> Accepts(q, m)
BY DEF Controls!PowerOn, PowerOn, Controls!IRQH_Int, IRQH_Int,
       Controls!IRQH_IRQCallBack, IRQH_IRQCallBack, Controls!AcceptLine, AcceptLine,
       Controls!AfterVector, AfterVector, Controls!IRQH_Init, IRQH_Init,
       Controls!Accepts, Accepts, Controls!HighestPending, HighestPending

LEMMA StepImplements == IInv /\ [Next]_vars => [Controls!Next]_(Controls!vars)
<1> SUFFICES ASSUME IInv, [Next]_vars  PROVE Controls!Next \/ UNCHANGED <<irqh, mask>>
  BY DEF Controls!vars
<1> USE DEF IInv
<1>1. ASSUME NEW c \in Chan, Raised(c), UNCHANGED mask
      PROVE  Controls!Next \/ UNCHANGED <<irqh, mask>>
  <2>1. CASE UNCHANGED irqh
    BY <1>1, <2>1
  <2>2. CASE irqh' = IRQH_Int(irqh, 3, DMA_Int)
    <3>1. Controls!Raise(3, DMA_Int)
      BY <1>1, <2>2, Wiring, SameOperations DEF Controls!Raise
    <3> QED  BY <3>1, Wiring DEF Controls!Next
  <2> QED  BY <1>1, <2>1, <2>2 DEF Raised
<1>2. CASE DMAAccept
  <2> DEFINE w == IRQH_IRQCallBack(AcceptLine(irqh), 3)
  <2>1. Accepts(irqh, mask) /\ mask' = irqh.line
    BY <1>2 DEF DMAAccept
  <2>2. irqh.line = 3 /\ irqh.CallBack[3] = DMA_Int
    BY <2>1, AcceptedIsRaised, Wiring
  <2>3. irqh' = AfterVector(IF intCH' = {} THEN w ELSE IRQH_Int(w, 3, DMA_Int))
    BY <1>2 DEF DMAAccept
  <2>4. CASE intCH' = {}
    <3>1. Controls!Acknowledge(FALSE)
      BY <2>1, <2>2, <2>3, <2>4, SameOperations DEF Controls!Acknowledge
    <3> QED  BY <3>1 DEF Controls!Next
  <2>5. CASE intCH' # {}
    <3>1. Controls!Acknowledge(TRUE)
      BY <2>1, <2>2, <2>3, <2>5, SameOperations DEF Controls!Acknowledge
    <3> QED  BY <3>1 DEF Controls!Next
  <2> QED  BY <2>4, <2>5
<1>3. ASSUME NEW m \in Masks, SetMask(m)  PROVE Controls!Next
  <2>1. Controls!SetMask(m) /\ m \in 0..7
    BY <1>3, DMACAssumption DEF SetMask, Controls!SetMask
  <2> QED  BY <2>1 DEF Controls!Next
<1>4. CASE Reset
  BY <1>4, SameOperations DEF Reset, Controls!Reset, Controls!Next
<1>5. CASE UNCHANGED vars
  BY <1>5 DEF vars
<1> QED  BY <1>1, <1>2, <1>3, <1>4, <1>5, ChannelStep DEF Next

\* The DMAC implements the interrupt controller: its interrupts are raised and
\* answered as those of any device may be.
THEOREM Refinement == Spec => ImplementsArbiter
<1>1. Init => Controls!Init
  BY SameOperations DEF Init, Controls!Init
<1> QED  BY <1>1, StepImplements, Invariance, PTL
         DEF Spec, Controls!Spec, ImplementsArbiter

-----------------------------------------------------------------------------
(***************************************************************************)
(* The channels.  A channel is typed; an array chain that is active has    *)
(* entries left (its count is decremented before it is tested); only an    *)
(* active channel is halted, and none while DMA_Exec runs.                 *)
(***************************************************************************)
Typed(d) ==
  /\ d \in Channel
  /\ "ACT" \in d.csr /\ d.chain = "array" => d.btc # 0
  /\ "HLT" \in d.ccr => "ACT" \in d.csr

\* An active channel has work: ActiveHasWork for one channel.
Working(d) == "ACT" \in d.csr => d.mtc # 0 /\ d.csr \cap {"COC", "ERR"} = {}

\* A channel that was active and is not has something to report.
Reports(e) == "ACT" \in e.csr \/ e.csr \cap {"COC", "ERR"} # {}

\* A write of CCR with CNT has nothing to go on with after a run of DMA_Exec.
Spent(d) == "CNT" \in d.ccr \/ "STR" \notin d.ccr \/ d.mtc # 0

\* What e, the registers of a channel after a step from d inside DMA_Exec, may be.
Ends(d, e) ==
  /\ Typed(e) /\ Reports(e)
  /\ e.chain = d.chain /\ e.reqg = d.reqg /\ e.ccr \subseteq d.ccr
  /\ d.csr \cap {"COC", "ERR"} = {} => Working(e)
  /\ "CNT" \in d.ccr => Spent(e)

LEMMA TableType ==
  ASSUME NEW a \in Addr
  PROVE  /\ Table[a].mtc \in 0..MaxCount /\ Table[a].next \in Addr
         /\ NextEntry(a) \in Addr
BY DMACAssumption DEF Addr, NextEntry

LEMMA ErrorEnds ==
  ASSUME NEW d \in Channel, "HLT" \notin d.ccr, NEW err \in Errors \cup {0}
  PROVE  /\ Ends(d, DMAERR(d, err))
         /\ "ACT" \notin DMAERR(d, err).csr /\ "STR" \notin DMAERR(d, err).ccr
BY DEF Ends, DMAERR, Typed, Reports, Working, Spent, Channel, CSRBits, CCRBits

LEMMA EitherErrorEnds ==
  ASSUME NEW d \in Channel, "HLT" \notin d.ccr, NEW p \in BOOLEAN,
         NEW a \in Errors, NEW b \in Errors
  PROVE  /\ Ends(d, EitherDMAERR(d, p, a, b))
         /\ "ACT" \notin EitherDMAERR(d, p, a, b).csr
<1>1. d.cer \in Errors \cup {0}
  BY DEF Channel
<1>2. QED
  BY <1>1, ErrorEnds DEF EitherDMAERR

LEMMA CompleteEnds ==
  ASSUME NEW d \in Channel, "HLT" \notin d.ccr
  PROVE  Ends(d, Complete(d))
BY DEF Ends, Complete, Typed, Reports, Working, Spent, Channel, CSRBits, CCRBits

\* The operands of a table entry replace those of the last block.
LEMMA LoadType ==
  ASSUME NEW d \in Channel
  PROVE  /\ LoadBlock(d) \in Channel
         /\ LoadBlock(d).csr = d.csr /\ LoadBlock(d).ccr = d.ccr
         /\ LoadBlock(d).chain = d.chain /\ LoadBlock(d).reqg = d.reqg
         /\ LoadBlock(d).btc = d.btc
<1>1. d.bar \in Addr
  BY DEF Channel
<1>2. QED
  BY <1>1, TableType DEF LoadBlock, Channel

LEMMA ChainEnds ==
  ASSUME NEW d \in Channel, "HLT" \notin d.ccr, "ACT" \in d.csr,
         d.chain = "array" => d.btc # 0
  PROVE  Ends(d, ChainBlock(d))
<1> DEFINE b == LoadBlock(d)
           flag == Table[d.bar].flag
<1>1. /\ b \in Channel
      /\ b.csr = d.csr /\ b.ccr = d.ccr /\ b.chain = d.chain /\ b.reqg = d.reqg
      /\ b.btc = d.btc
  BY LoadType
<1> HIDE DEF b
<1>2. \A e : Ends(b, e) => Ends(d, e)
  BY <1>1 DEF Ends
<1>3. Ends(b, EitherDMAERR(b, flag = 1, 11, 7))
  BY <1>1, EitherErrorEnds DEF Errors
<1>4. Ends(b, DMAERR(b, 13))
  BY <1>1, ErrorEnds DEF Errors
<1>5. b.mtc # 0 => Ends(b, b)
  BY <1>1 DEF Ends, Typed, Reports, Working, Spent
<1>6. ChainBlock(d) = IF flag # 0 THEN EitherDMAERR(b, flag = 1, 11, 7)
                      ELSE IF b.mtc = 0 THEN DMAERR(b, 13) ELSE b
  BY DEF ChainBlock, b
<1>7. QED
  BY <1>2, <1>3, <1>4, <1>5, <1>6

LEMMA ArrayEnds ==
  ASSUME NEW d, Typed(d), "HLT" \notin d.ccr, "ACT" \in d.csr, d.chain = "array"
  PROVE  Ends(d, EndArray(d))
<1> DEFINE b == [d EXCEPT !.btc = (@ - 1) % 65536]
<1>1. d.btc \in 1..MaxCount /\ MaxCount \in Nat
  BY DMACAssumption DEF Typed, Channel
<1>2. (d.btc - 1) % 65536 \in 0..MaxCount
  BY <1>1
<1>3. /\ b \in Channel
      /\ b.csr = d.csr /\ b.ccr = d.ccr /\ b.chain = d.chain /\ b.reqg = d.reqg
  BY <1>2 DEF Typed, Channel
<1>4. EndArray(d) = IF b.btc = 0 THEN Complete(b) ELSE ChainBlock(b)
  BY DEF EndArray
<1> HIDE DEF b
<1>5. \A e : Ends(b, e) => Ends(d, e)
  BY <1>3 DEF Ends
<1>6. Ends(b, Complete(b))
  BY <1>3, CompleteEnds
<1>7. b.btc # 0 => Ends(b, ChainBlock(b))
  BY <1>3, ChainEnds
<1>8. QED
  BY <1>4, <1>5, <1>6, <1>7

LEMMA LinkEnds ==
  ASSUME NEW d, Typed(d), "HLT" \notin d.ccr, "ACT" \in d.csr, d.chain = "link"
  PROVE  Ends(d, EndLink(d))
<1>1. Ends(d, Complete(d))
  BY CompleteEnds DEF Typed
<1>2. Ends(d, ChainBlock(d))
  BY ChainEnds DEF Typed
<1>3. QED
  BY <1>1, <1>2 DEF EndLink

LEMMA NextSingleType ==
  ASSUME NEW d \in Channel
  PROVE  /\ NextSingle(d) \in Channel
         /\ NextSingle(d).csr = d.csr \cup {"ACT"} /\ NextSingle(d).ccr = d.ccr
         /\ NextSingle(d).mtc = d.btc
         /\ NextSingle(d).chain = d.chain /\ NextSingle(d).reqg = d.reqg
<1>1. d.btc \in 0..MaxCount /\ 0 \in 0..MaxCount /\ 0 \in Addr
  BY DMACAssumption DEF Channel, Addr
<1>2. d.csr \cup {"ACT"} \in SUBSET CSRBits
  BY DEF Channel, CSRBits
<1>3. QED
  BY <1>1, <1>2 DEF NextSingle, Channel

LEMMA SingleEnds ==
  ASSUME NEW d, Typed(d), "HLT" \notin d.ccr, "ACT" \in d.csr, d.chain = "none"
  PROVE  Ends(d, EndSingle(d))
<1> DEFINE b == [d EXCEPT !.csr = @ \cup {"BTC"}]
           n == NextSingle(b)
           g == [n EXCEPT !.ccr = @ \ {"CNT"}]
<1>1. /\ b \in Channel /\ b.csr = d.csr \cup {"BTC"} /\ b.ccr = d.ccr
      /\ b.chain = d.chain /\ b.reqg = d.reqg /\ b.btc = d.btc
  BY DEF Typed, Channel, CSRBits
<1>2. /\ n \in Channel /\ n.csr = d.csr \cup {"BTC"} /\ n.ccr = d.ccr
      /\ n.mtc = d.btc /\ n.chain = d.chain /\ n.reqg = d.reqg
  <2> HIDE DEF b
  <2>1. QED
    BY <1>1, NextSingleType
<1>3. EndSingle(d) = CASE "CNT" \notin d.ccr -> Complete(d)
                       [] "CNT" \in d.ccr /\ d.bar = 0 -> Complete(b)
                       [] "CNT" \in d.ccr /\ d.bar # 0 /\ d.btc = 0 -> DMAERR(n, 13)
                       [] "CNT" \in d.ccr /\ d.bar # 0 /\ d.btc # 0 -> g
  BY DEF EndSingle
<1>4. Ends(d, Complete(d))
  BY CompleteEnds DEF Typed
<1> HIDE DEF n, b
<1>5. Ends(d, Complete(b))
  <2>1. Ends(b, Complete(b))
    BY <1>1, CompleteEnds
  <2>2. QED
    BY <1>1, <2>1 DEF Ends
<1>6. Ends(d, DMAERR(n, 13))
  <2>1. Ends(n, DMAERR(n, 13))
    BY <1>1, <1>2, ErrorEnds DEF Errors
  <2>2. QED
    BY <1>2, <2>1 DEF Ends
<1>7. d.btc # 0 => Ends(d, g)
  BY <1>2 DEF Ends, Typed, Reports, Working, Spent, Channel
<1> HIDE DEF g
<1>8. QED
  BY <1>3, <1>4, <1>5, <1>6, <1>7

LEMMA BlockEndsTyped ==
  ASSUME NEW d, Typed(d), "HLT" \notin d.ccr, "ACT" \in d.csr
  PROVE  Ends(d, EndBlock(d))
<1>1. d.chain \in {"none", "array", "link"}
  BY DEF Typed, Channel, Chaining
<1>2. CASE d.chain = "none"
  BY <1>2, SingleEnds DEF EndBlock
<1>3. CASE d.chain = "array"
  BY <1>3, ArrayEnds DEF EndBlock
<1>4. CASE d.chain = "link"
  BY <1>4, LinkEnds DEF EndBlock
<1>5. QED
  BY <1>1, <1>2, <1>3, <1>4

-----------------------------------------------------------------------------
(* The channels and the emulator's place in DMA_Exec, step by step.        *)

Channels == dma \in [Chan -> Channel] /\ \A c \in Chan : Typed(dma[c])

\* DMA_Exec does not run on a halted channel.
Place ==
  /\ exec \in {<<>>} \cup (Chan \X {"exec", "exec+cnt", "cnt"})
  /\ exec # <<>> => "HLT" \notin dma[exec[1]].ccr

\* With a guest that does not start operations at maximum rate with CNT set,
\* every channel has work and no CNT is left when DMA_Exec returns to the write.
Busy ==
  /\ \A c \in Chan : Working(dma[c])
  /\ exec # <<>> =>
       /\ exec[2] = "exec+cnt" =>
            "CNT" \in dma[exec[1]].ccr /\ dma[exec[1]].reqg # "maximum"
       /\ exec[2] = "cnt" => Spent(dma[exec[1]])

\* The body of NoSilentStop.
StopsTold ==
  \A c \in Chan :
    "ACT" \in dma[c].csr /\ "ACT" \notin dma'[c].csr =>
      /\ dma'[c].csr \cap {"COC", "ERR"} # {}
      /\ "INT" \in dma'[c].ccr => c \in intCH'

\* What every step on a channel does.
Step ==
  /\ Channels' /\ Place' /\ StopsTold
  /\ ~ StartWithCNT /\ Busy => Busy'

\* A channel that stops reports and is updated with an event.
Told(d, e, event) == "ACT" \in d.csr => Reports(e) /\ ("ACT" \in e.csr \/ event)

LEMMA UpdateKeeps ==
  ASSUME Channels, NEW c \in Chan, NEW e, NEW event \in BOOLEAN, Update(c, e, event),
         Typed(e), Told(dma[c], e, event)
  PROVE  /\ Channels' /\ StopsTold /\ dma'[c] = e
         /\ \A b \in Chan \ {c} : dma'[b] = dma[b]
         /\ (\A b \in Chan : Working(dma[b])) /\ Working(e) =>
              \A b \in Chan : Working(dma'[b])
<1>1. /\ dma' = [dma EXCEPT ![c] = e] /\ e \in Channel
      /\ event /\ "INT" \in dma'[c].ccr => c \in intCH'
  BY DEF Update, DMAINT, Typed
<1>2. dma'[c] = e /\ \A b \in Chan \ {c} : dma'[b] = dma[b]
  BY <1>1 DEF Channels
<1>3. Channels'
  <2>1. dma' \in [Chan -> Channel]
    BY <1>1 DEF Channels
  <2>2. \A b \in Chan : Typed(dma'[b])
    BY <1>2 DEF Channels
  <2>3. QED
    BY <2>1, <2>2 DEF Channels
<1>4. StopsTold
  BY <1>1, <1>2 DEF StopsTold, Told, Reports
<1>5. QED
  BY <1>2, <1>3, <1>4

\* The emulator is outside DMA_Exec or, with c, in it.
At(c) == {<<>>, <<c, "exec">>, <<c, "exec+cnt">>, <<c, "cnt">>}

\* What the registers e of channel c must be for the emulator to be at p.
Fits(c, e, p) ==
  /\ p = <<c, "exec+cnt">> => "CNT" \in e.ccr /\ e.reqg # "maximum"
  /\ p = <<c, "cnt">> => Spent(e)

LEMMA PlaceUpdate ==
  ASSUME Channels, Place, NEW c \in Chan, NEW e, NEW event \in BOOLEAN,
         Update(c, e, event), Typed(e), Told(dma[c], e, event),
         exec' \in At(c), exec' # <<>> => "HLT" \notin e.ccr,
         ~ StartWithCNT /\ Busy => Working(e) /\ Fits(c, e, exec')
  PROVE  Step
<1>1. Channels' /\ StopsTold /\ dma'[c] = e
  BY UpdateKeeps
<1>2. exec' # <<>> => exec'[1] = c
  BY DEF At
<1>3. Place'
  BY <1>1, <1>2 DEF Place, At
<1>4. ASSUME ~ StartWithCNT, Busy PROVE Busy'
  <2>1. \A b \in Chan : Working(dma'[b])
    BY <1>4, UpdateKeeps DEF Busy
  <2>2. Fits(c, dma'[c], exec')
    BY <1>1, <1>4
  <2>3. QED
    BY <1>2, <2>1, <2>2 DEF Busy, Fits, At
<1>5. QED
  BY <1>1, <1>3, <1>4 DEF Step

LEMMA PlaceSame ==
  ASSUME Channels, Place, NEW c \in Chan, UNCHANGED dma,
         exec' \in At(c), exec' # <<>> => "HLT" \notin dma[c].ccr,
         ~ StartWithCNT /\ Busy => Fits(c, dma[c], exec')
  PROVE  Step
<1>1. Channels' /\ StopsTold
  BY DEF Channels, StopsTold
<1>2. exec' # <<>> => exec'[1] = c
  BY DEF At
<1>3. Place'
  BY <1>2 DEF Place, At
<1>4. ASSUME ~ StartWithCNT, Busy PROVE Busy'
  BY <1>2, <1>4 DEF Busy, Fits, At
<1>5. QED
  BY <1>1, <1>3, <1>4 DEF Step

\* A register write outside DMA_Exec that leaves the emulator there.
LEMMA QuietUpdate ==
  ASSUME Channels, Place, exec = <<>>, exec' = <<>>,
         NEW c \in Chan, NEW e, NEW event \in BOOLEAN, Update(c, e, event),
         Typed(e), Told(dma[c], e, event), Working(dma[c]) => Working(e)
  PROVE  Step
<1>1. exec' \in At(c) /\ Fits(c, e, exec')
  BY DEF At, Fits
<1>2. Busy => Working(e)
  BY DEF Busy
<1>3. QED
  BY <1>1, <1>2, PlaceUpdate

LEMMA PlainWrites ==
  ASSUME Channels, Place, NEW c \in Chan,
         \/ \E ones \in CSRValues : WriteCSR(c, ones)
         \/ WriteCER(c)
         \/ \E mode \in Modes : WriteOCR(c, mode)
         \/ \E n \in 0..MaxCount : WriteMTC(c, n) \/ WriteBTC(c, n)
         \/ \E a \in Addr : WriteBAR(c, a)
  PROVE  Step
<1>0. dma[c] \in Channel /\ Typed(dma[c])
  BY DEF Channels
<1>1. ASSUME NEW ones \in CSRValues, WriteCSR(c, ones)
      PROVE  Step
  <2> DEFINE e == [dma[c] EXCEPT !.csr = @ \ (ones \ {"ACT"})]
  <2>1. /\ exec = <<>> /\ exec' = <<>> /\ Update(c, e, FALSE)
    BY <1>1 DEF WriteCSR
  <2>2. Typed(e) /\ Told(dma[c], e, FALSE) /\ (Working(dma[c]) => Working(e))
    BY <1>0 DEF Typed, Told, Reports, Working, Channel
  <2> HIDE DEF e
  <2>3. QED
    BY <2>1, <2>2, QuietUpdate
<1>2. CASE WriteCER(c)
  <2> DEFINE e == [dma[c] EXCEPT !.cer = 0]
  <2>1. /\ exec = <<>> /\ exec' = <<>> /\ Update(c, e, FALSE)
    BY <1>2 DEF WriteCER
  <2>2. Typed(e) /\ Told(dma[c], e, FALSE) /\ (Working(dma[c]) => Working(e))
    BY <1>0 DEF Typed, Told, Reports, Working, Channel
  <2> HIDE DEF e
  <2>3. QED
    BY <2>1, <2>2, QuietUpdate
<1>3. ASSUME NEW mode \in Modes, WriteOCR(c, mode)
      PROVE  Step
  <2> DEFINE e == [dma[c] EXCEPT !.chain = mode[1], !.reqg = mode[2]]
  <2>1. /\ exec = <<>> /\ exec' = <<>> /\ Update(c, e, FALSE) /\ Quiet(c)
    BY <1>3 DEF WriteOCR
  <2>2. mode[1] \in Chaining /\ mode[2] \in Requests
    BY DMACAssumption
  <2>3. Typed(e) /\ Told(dma[c], e, FALSE) /\ (Working(dma[c]) => Working(e))
    BY <1>0, <2>1, <2>2 DEF Typed, Told, Reports, Working, Channel, Quiet
  <2> HIDE DEF e
  <2>4. QED
    BY <2>1, <2>3, QuietUpdate
<1>4. ASSUME NEW n \in 0..MaxCount, WriteMTC(c, n)
      PROVE  Step
  <2> DEFINE e == [dma[c] EXCEPT !.mtc = n]
  <2>1. /\ exec = <<>> /\ exec' = <<>> /\ Update(c, e, FALSE) /\ Quiet(c)
    BY <1>4 DEF WriteMTC
  <2>2. Typed(e) /\ Told(dma[c], e, FALSE) /\ (Working(dma[c]) => Working(e))
    BY <1>0, <2>1 DEF Typed, Told, Reports, Working, Channel, Quiet
  <2> HIDE DEF e
  <2>3. QED
    BY <2>1, <2>2, QuietUpdate
<1>5. ASSUME NEW n \in 0..MaxCount, WriteBTC(c, n)
      PROVE  Step
  <2> DEFINE e == [dma[c] EXCEPT !.btc = n]
  <2>1. /\ exec = <<>> /\ exec' = <<>> /\ Update(c, e, FALSE) /\ QuietNext(c)
    BY <1>5 DEF WriteBTC
  <2>2. Typed(e) /\ Told(dma[c], e, FALSE) /\ (Working(dma[c]) => Working(e))
    BY <1>0, <2>1 DEF Typed, Told, Reports, Working, Channel, Quiet, QuietNext
  <2> HIDE DEF e
  <2>3. QED
    BY <2>1, <2>2, QuietUpdate
<1>6. ASSUME NEW a \in Addr, WriteBAR(c, a)
      PROVE  Step
  <2> DEFINE e == [dma[c] EXCEPT !.bar = a]
  <2>1. /\ exec = <<>> /\ exec' = <<>> /\ Update(c, e, FALSE)
    BY <1>6 DEF WriteBAR
  <2>2. Typed(e) /\ Told(dma[c], e, FALSE) /\ (Working(dma[c]) => Working(e))
    BY <1>0 DEF Typed, Told, Reports, Working, Channel
  <2> HIDE DEF e
  <2>3. QED
    BY <2>1, <2>2, QuietUpdate
<1>7. QED
  BY <1>1, <1>2, <1>3, <1>4, <1>5, <1>6

\* The registers after a write of CCR, before what the write sets off.
LEMMA WrittenType ==
  ASSUME NEW d \in Channel, NEW data \in CCRValues
  PROVE  /\ Written(d, data) \in Channel
         /\ Written(d, data).csr = d.csr /\ Written(d, data).mtc = d.mtc
         /\ Written(d, data).chain = d.chain /\ Written(d, data).reqg = d.reqg
         /\ Written(d, data).btc = d.btc
         /\ Written(d, data).ccr = (data \ {"SAB"}) \cup (d.ccr \cap {"STR"})
<1>1. (data \ {"SAB"}) \cup (d.ccr \cap {"STR"}) \in SUBSET CCRBits
  BY DMACAssumption DEF Channel, CCRBits
<1>2. QED
  BY <1>1 DEF Written, Channel

LEMMA StopWrites ==
  ASSUME Channels, Place, NEW c \in Chan, NEW data \in CCRValues,
         Abort(c, data) \/ Halt(c, data)
  PROVE  Step
<1> DEFINE w == Written(dma[c], data)
<1>1. /\ dma[c] \in Channel /\ Typed(dma[c])
      /\ w \in Channel /\ w.csr = dma[c].csr /\ w.mtc = dma[c].mtc
      /\ w.chain = dma[c].chain /\ w.btc = dma[c].btc
      /\ w.ccr = (data \ {"SAB"}) \cup (dma[c].ccr \cap {"STR"})
  BY WrittenType DEF Channels, Typed
<1>2. CASE Abort(c, data)
  <2> DEFINE e == DMAERR(w, 17)
  <2>1. exec = <<>> /\ exec' = <<>> /\ Update(c, e, TRUE) /\ "HLT" \notin data
    BY <1>2 DEF Abort, GuestMay
  <2> HIDE DEF w
  <2>2. Ends(w, e) /\ "ACT" \notin e.csr
    BY <1>1, <2>1, ErrorEnds DEF Errors
  <2>3. Typed(e) /\ Told(dma[c], e, TRUE) /\ Working(e)
    BY <2>2 DEF Ends, Told, Working
  <2> HIDE DEF e
  <2>4. QED
    BY <2>1, <2>3, QuietUpdate
<1>3. CASE Halt(c, data)
  <2>1. exec = <<>> /\ exec' = <<>> /\ Update(c, w, FALSE) /\ "ACT" \in dma[c].csr
    BY <1>3 DEF Halt, NotAborted, GuestMay
  <2> HIDE DEF w
  <2>2. Typed(w) /\ Told(dma[c], w, FALSE) /\ (Working(dma[c]) => Working(w))
    BY <1>1, <2>1 DEF Typed, Told, Reports, Working
  <2>3. QED
    BY <2>1, <2>2, QuietUpdate
<1>4. QED
  BY <1>2, <1>3

LEMMA ReleaseStep ==
  ASSUME Channels, Place, NEW c \in Chan, NEW data \in CCRValues, Release(c, data)
  PROVE  Step
<1> DEFINE w == Written(dma[c], data)
           e == [w EXCEPT !.csr = @ \cup {"ACT"}]
<1>1. /\ dma[c] \in Channel /\ Typed(dma[c])
      /\ w \in Channel /\ w.csr = dma[c].csr /\ w.mtc = dma[c].mtc
      /\ w.chain = dma[c].chain /\ w.btc = dma[c].btc /\ w.reqg = dma[c].reqg
      /\ w.ccr = (data \ {"SAB"}) \cup (dma[c].ccr \cap {"STR"})
  BY WrittenType DEF Channels, Typed
<1>2. /\ exec = <<>> /\ Update(c, e, FALSE)
      /\ "HLT" \in dma[c].ccr /\ "HLT" \notin data /\ "STR" \in data
      /\ exec' = <<c, IF "CNT" \in data THEN "exec+cnt" ELSE "exec">>
      /\ StartWithCNT \/ ~ ("CNT" \in data /\ dma[c].reqg = "maximum")
  BY DEF Release, NotAborted, GuestMay
<1> HIDE DEF w
<1>3. /\ e \in Channel /\ e.csr = dma[c].csr /\ "ACT" \in e.csr
      /\ e.mtc = dma[c].mtc /\ e.chain = dma[c].chain /\ e.btc = dma[c].btc
      /\ e.reqg = dma[c].reqg /\ e.ccr = w.ccr
  BY <1>1, <1>2 DEF Typed, Channel
<1> HIDE DEF e
<1>4. Typed(e) /\ Told(dma[c], e, FALSE) /\ (Working(dma[c]) => Working(e))
  BY <1>1, <1>2, <1>3 DEF Typed, Told, Reports, Working
<1>5. exec' \in At(c) /\ "HLT" \notin e.ccr
  BY <1>1, <1>2, <1>3 DEF At
<1>6. ~ StartWithCNT => Fits(c, e, exec')
  BY <1>1, <1>2, <1>3 DEF Fits
<1>7. Busy => Working(e)
  BY <1>4 DEF Busy
<1>8. QED
  BY <1>2, <1>4, <1>5, <1>6, <1>7, PlaceUpdate

LEMMA StoreStep ==
  ASSUME Channels, Place, NEW c \in Chan, NEW data \in CCRValues, Store(c, data)
  PROVE  Step
<1> DEFINE w == Written(dma[c], data)
<1>1. /\ dma[c] \in Channel /\ Typed(dma[c])
      /\ w \in Channel /\ w.csr = dma[c].csr /\ w.mtc = dma[c].mtc
      /\ w.chain = dma[c].chain /\ w.btc = dma[c].btc
      /\ w.ccr = (data \ {"SAB"}) \cup (dma[c].ccr \cap {"STR"})
  BY WrittenType DEF Channels, Typed
<1>2. /\ Update(c, w, FALSE) /\ "HLT" \notin data
      /\ exec' = IF "CNT" \in data THEN <<c, "cnt">> ELSE <<>>
  BY DEF Store
<1> HIDE DEF w
<1>3. Typed(w) /\ Told(dma[c], w, FALSE) /\ (Working(dma[c]) => Working(w))
  BY <1>1, <1>2 DEF Typed, Told, Reports, Working
<1>4. exec' \in At(c) /\ "HLT" \notin w.ccr /\ Fits(c, w, exec')
  BY <1>1, <1>2 DEF At, Fits, Spent
<1>5. Busy => Working(w)
  BY <1>3 DEF Busy
<1>6. QED
  BY <1>2, <1>3, <1>4, <1>5, PlaceUpdate

LEMMA StartStep ==
  ASSUME Channels, Place, NEW c \in Chan, NEW data \in CCRValues, Start(c, data)
  PROVE  Step
<1> DEFINE w == Written(dma[c], data)
           a == [w EXCEPT !.csr = @ \cup {"ACT"}]
           b == IF a.chain = "none" THEN a ELSE LoadBlock(a)
           err == IF w.csr # {} THEN 2
                  ELSE IF w.chain = "array" /\ w.btc = 0 THEN 15
                  ELSE IF b.mtc = 0 THEN 13 ELSE 0
           f == IF err = 2 THEN w ELSE b
<1>1. /\ dma[c] \in Channel /\ w \in Channel
      /\ w.reqg = dma[c].reqg
      /\ w.ccr = (data \ {"SAB"}) \cup (dma[c].ccr \cap {"STR"})
  BY WrittenType DEF Channels
<1>2. /\ exec = <<>> /\ "HLT" \notin data /\ "STR" \in data
      /\ StartWithCNT \/ ~ ("CNT" \in data /\ dma[c].reqg = "maximum")
      /\ IF err = 0
           THEN /\ Update(c, [b EXCEPT !.cer = 0], FALSE)
                /\ exec' = <<c, IF "CNT" \in data THEN "exec+cnt" ELSE "exec">>
           ELSE /\ Update(c, DMAERR(f, err), TRUE)
                /\ UNCHANGED exec
  BY DEF Start, NotAborted, GuestMay
<1> HIDE DEF w
<1>3. /\ a \in Channel /\ a.csr = w.csr \cup {"ACT"} /\ a.ccr = w.ccr
      /\ a.chain = w.chain /\ a.reqg = w.reqg /\ a.btc = w.btc
  BY <1>1 DEF Channel, CSRBits
<1> HIDE DEF a
<1>4. /\ b \in Channel /\ b.csr = w.csr \cup {"ACT"} /\ b.ccr = w.ccr
      /\ b.chain = w.chain /\ b.reqg = w.reqg /\ b.btc = w.btc
  BY <1>3, LoadType
<1> HIDE DEF b
<1>5. CASE err = 0
  <2> DEFINE e == [b EXCEPT !.cer = 0]
  <2>1. /\ w.csr = {} /\ (w.chain = "array" => w.btc # 0) /\ b.mtc # 0
    BY <1>5
  <2>2. /\ e \in Channel /\ e.csr = {"ACT"} /\ e.mtc = b.mtc /\ e.ccr = w.ccr
        /\ e.chain = w.chain /\ e.reqg = w.reqg /\ e.btc = w.btc
    BY <1>4, <2>1 DEF Channel
  <2>3. /\ Update(c, e, FALSE)
        /\ exec' = <<c, IF "CNT" \in data THEN "exec+cnt" ELSE "exec">>
    BY <1>2, <1>5
  <2> HIDE DEF e, err
  <2>4. Typed(e) /\ Told(dma[c], e, FALSE) /\ Working(e)
    BY <2>1, <2>2 DEF Typed, Told, Reports, Working
  <2>5. exec' \in At(c) /\ "HLT" \notin e.ccr
    BY <1>1, <1>2, <2>2, <2>3 DEF At
  <2>6. ~ StartWithCNT => Fits(c, e, exec')
    BY <1>1, <1>2, <2>2, <2>3 DEF Fits
  <2>7. QED
    BY <2>3, <2>4, <2>5, <2>6, PlaceUpdate
<1>6. CASE err # 0
  <2>1. f \in Channel /\ "HLT" \notin f.ccr
    BY <1>1, <1>2, <1>4
  <2>2. err \in Errors
    BY <1>6 DEF Errors
  <2> DEFINE e == DMAERR(f, err)
  <2>3. Update(c, e, TRUE) /\ exec' = <<>>
    BY <1>2, <1>6
  <2> HIDE DEF f, err
  <2>4. Ends(f, e) /\ "ACT" \notin e.csr
    BY <2>1, <2>2, ErrorEnds
  <2>5. Typed(e) /\ Told(dma[c], e, TRUE) /\ Working(e)
    BY <2>4 DEF Ends, Told, Working
  <2> HIDE DEF e
  <2>6. QED
    BY <1>2, <2>3, <2>5, QuietUpdate
<1>7. QED
  BY <1>5, <1>6

-----------------------------------------------------------------------------
(* Inside DMA_Exec and the rest of a CCR write.                            *)

LEMMA ContinueStep ==
  ASSUME Channels, Place, NEW c \in Chan,
         ContinueLater(c) \/ ContinueError(c) \/ ContinueNow(c)
  PROVE  Step
<1>0. exec = <<c, "cnt">>
  BY Zenon DEF ContinueLater, ContinueError, ContinueNow
<1>1. /\ dma[c] \in Channel /\ Typed(dma[c])
      /\ exec = <<c, "cnt">> /\ "HLT" \notin dma[c].ccr
  BY <1>0 DEF Channels, Place
<1>2. CASE ContinueLater(c)
  <2>1. exec' = <<>> /\ UNCHANGED dma
    BY <1>2 DEF ContinueLater
  <2>2. exec' \in At(c) /\ Fits(c, dma[c], exec')
    BY <2>1 DEF At, Fits
  <2>3. QED
    BY <2>1, <2>2, PlaceSame
<1>3. CASE ContinueError(c)
  <2>1. PICK err \in {1, 2} : Update(c, DMAERR(dma[c], err), TRUE)
    BY <1>3 DEF ContinueError
  <2> DEFINE e == DMAERR(dma[c], err)
  <2>2. Ends(dma[c], e) /\ "ACT" \notin e.csr
    BY <1>1, ErrorEnds DEF Errors
  <2>3. exec' = <<>> /\ Update(c, e, TRUE)
    BY <1>3, <2>1 DEF ContinueError
  <2> HIDE DEF e
  <2>4. Typed(e) /\ Told(dma[c], e, TRUE) /\ Working(e)
    BY <2>2 DEF Ends, Told, Working
  <2>5. exec' \in At(c) /\ Fits(c, e, exec')
    BY <2>3 DEF At, Fits
  <2>6. QED
    BY <2>3, <2>4, <2>5, PlaceUpdate
<1>4. CASE ContinueNow(c)
  <2> DEFINE d == dma[c]
             n == NextSingle(d)
             g == [n EXCEPT !.csr = @ \cup {"BTC"}]
             h == [n EXCEPT !.ccr = @ \ {"CNT"}]
             e == CASE d.bar = 0 -> g
                    [] d.bar # 0 /\ d.btc = 0 -> DMAERR(n, 13)
                    [] d.bar # 0 /\ d.btc # 0 -> h
  <2>1. /\ d.mtc = 0 /\ Continues(d)
        /\ Update(c, e, d.bar = 0 \/ d.btc = 0)
        /\ exec' = IF d.bar # 0 /\ d.btc # 0 THEN <<c, "exec">> ELSE <<>>
    BY <1>4 DEF ContinueNow
  <2>2. /\ n \in Channel /\ n.csr = d.csr \cup {"ACT"} /\ n.ccr = d.ccr
        /\ n.chain = d.chain
    BY <1>1, NextSingleType
  <2> HIDE DEF n
  <2>3. /\ g \in Channel /\ "ACT" \in g.csr /\ g.ccr = d.ccr /\ g.chain = d.chain
        /\ h \in Channel /\ "ACT" \in h.csr /\ h.ccr \subseteq d.ccr /\ h.chain = d.chain
    BY <2>2 DEF Channel, CSRBits
  <2>4. Typed(g) /\ Typed(h) /\ Reports(g) /\ Reports(h)
    BY <1>1, <2>1, <2>3 DEF Typed, Reports, Continues
  <2>5. Ends(n, DMAERR(n, 13))
    BY <1>1, <2>2, ErrorEnds DEF Errors
  <2> HIDE DEF g, h
  <2>6. /\ Typed(e) /\ Reports(e) /\ "HLT" \notin e.ccr
        /\ "ACT" \in e.csr \/ d.bar = 0 \/ d.btc = 0
    <3>1. d.bar = 0 => e = g
      OBVIOUS
    <3>2. d.bar # 0 /\ d.btc = 0 => e = DMAERR(n, 13)
      OBVIOUS
    <3>3. d.bar # 0 /\ d.btc # 0 => e = h
      OBVIOUS
    <3> HIDE DEF e
    <3>4. QED
      BY <1>1, <2>2, <2>3, <2>4, <2>5, <3>1, <3>2, <3>3 DEF Ends
  <2>7. ~ (~ StartWithCNT /\ Busy)
    BY <1>1, <2>1 DEF Busy, Spent, Continues
  <2> HIDE DEF e
  <2>8. Told(dma[c], e, d.bar = 0 \/ d.btc = 0)
    BY <2>6 DEF Told
  <2>9. exec' \in At(c)
    BY <2>1 DEF At
  <2>10. (d.bar = 0 \/ d.btc = 0) \in BOOLEAN
    OBVIOUS
  <2>11. QED
    BY <2>1, <2>6, <2>7, <2>8, <2>9, <2>10, PlaceUpdate
<1>5. QED
  BY <1>2, <1>3, <1>4

\* Where DMA_Exec returns to.
LEMMA LeaveType ==
  ASSUME NEW c, Leave(c)
  PROVE  exec' \in At(c) /\ exec' # <<c, "exec+cnt">>
         /\ (exec' = <<c, "cnt">> => exec = <<c, "exec+cnt">>)
BY DEF Leave, At

LEMMA TransferStep ==
  ASSUME Channels, Place, NEW c \in Chan, Transfer(c)
  PROVE  Step
<1> DEFINE d == [dma[c] EXCEPT !.mtc = @ - 1]
           e == IF d.mtc = 0 THEN EndBlock(d) ELSE d
           event == d.mtc = 0 /\ Event(d, e)
<1>1. /\ exec \in {<<c, "exec">>, <<c, "exec+cnt">>}
      /\ "ACT" \in dma[c].csr /\ "HLT" \notin dma[c].ccr
      /\ "COC" \notin dma[c].csr /\ dma[c].mtc # 0
  BY DEF Transfer, Executing, CanTransfer
<1>2. /\ Update(c, e, event)
      /\ (d.reqg = "maximum" /\ UNCHANGED exec) \/ Leave(c)
  BY DEF Transfer
<1>3. dma[c] \in Channel /\ Typed(dma[c])
  BY DEF Channels
<1>4. dma[c].mtc \in 1..MaxCount
  BY <1>1, <1>3, DMACAssumption DEF Channel
<1>5. /\ d \in Channel
      /\ d.csr = dma[c].csr /\ d.ccr = dma[c].ccr /\ d.chain = dma[c].chain
      /\ d.reqg = dma[c].reqg /\ d.btc = dma[c].btc
  BY <1>3, <1>4, DMACAssumption DEF Channel
<1> HIDE DEF d
<1>6. Typed(d)
  BY <1>3, <1>5 DEF Typed
<1>7. d.mtc # 0 => Ends(d, d)
  BY <1>1, <1>5, <1>6 DEF Ends, Reports, Working, Spent
<1>8. Ends(d, EndBlock(d))
  BY <1>1, <1>5, <1>6, BlockEndsTyped
<1>9. Ends(d, e)
  BY <1>7, <1>8
<1>10. event \in BOOLEAN /\ ("ACT" \in e.csr \/ event)
  <2>1. d.mtc # 0 => e = d
    OBVIOUS
  <2> HIDE DEF e
  <2>2. QED
    BY <1>1, <1>5, <2>1 DEF Event
<1> HIDE DEF e, event
<1>11. Typed(e) /\ Told(dma[c], e, event) /\ "HLT" \notin e.ccr
  BY <1>1, <1>5, <1>9, <1>10 DEF Ends, Told
<1>12. exec' \in At(c)
  BY <1>1, <1>2, LeaveType DEF At
<1>13. ASSUME ~ StartWithCNT, Busy PROVE Working(e) /\ Fits(c, e, exec')
  <2>1. d.csr \cap {"COC", "ERR"} = {}
    BY <1>1, <1>5, <1>13 DEF Busy, Working
  <2>2. exec = <<c, "exec+cnt">> => "CNT" \in d.ccr /\ d.reqg # "maximum"
    BY <1>5, <1>13 DEF Busy
  <2>3. exec' # <<c, "exec+cnt">>
    BY <1>2, <2>2, LeaveType
  <2>4. exec' = <<c, "cnt">> => "CNT" \in d.ccr
    BY <1>1, <1>2, <2>2, LeaveType
  <2>5. QED
    BY <1>9, <2>1, <2>3, <2>4 DEF Ends, Fits
<1>14. QED
  BY <1>2, <1>10, <1>11, <1>12, <1>13, PlaceUpdate

LEMMA BusErrorStep ==
  ASSUME Channels, Place, NEW c \in Chan, NEW flag \in BusFlags, NEW toMemory \in BOOLEAN,
         BusError(c, flag, toMemory)
  PROVE  Step
<1>1. /\ exec \in {<<c, "exec">>, <<c, "exec+cnt">>} /\ Leave(c)
      /\ dma[c] \in Channel /\ Typed(dma[c]) /\ "HLT" \notin dma[c].ccr
  BY DEF BusError, Executing, CanTransfer, Channels
<1>2. exec' \in At(c)
  BY <1>1, LeaveType
<1>3. ~ StartWithCNT /\ Busy => exec' # <<c, "exec+cnt">> /\ (exec' = <<c, "cnt">> => "CNT" \in dma[c].ccr)
  BY <1>1, LeaveType DEF Busy
<1>4. CASE flag \in 1..4
  <2>1. PICK a \in Errors, b \in Errors :
          Update(c, EitherDMAERR(dma[c], toMemory, a, b), TRUE)
    <3> DEFINE f == FaultCodes(flag)[1]
               g == FaultCodes(flag)[2]
    <3>1. f \in Errors /\ g \in Errors
      BY DEF FaultCodes, Errors
    <3>2. Update(c, IF flag \in {1, 3} THEN EitherDMAERR(dma[c], toMemory, f, g)
                                      ELSE EitherDMAERR(dma[c], toMemory, g, f), TRUE)
      BY <1>4, Zenon DEF BusError
    <3> HIDE DEF f, g
    <3>3. CASE flag \in {1, 3}
      BY <3>1, <3>2, <3>3
    <3>4. CASE flag \notin {1, 3}
      BY <3>1, <3>2, <3>4
    <3>5. QED
      BY <3>3, <3>4
  <2> DEFINE e == EitherDMAERR(dma[c], toMemory, a, b)
  <2>2. Ends(dma[c], e) /\ "ACT" \notin e.csr
    BY <1>1, EitherErrorEnds
  <2>3. Update(c, e, TRUE)
    BY <2>1
  <2> HIDE DEF e
  <2>4. Typed(e) /\ Told(dma[c], e, TRUE) /\ Working(e) /\ "HLT" \notin e.ccr
    BY <1>1, <2>2 DEF Ends, Told, Working
  <2>5. ~ StartWithCNT /\ Busy => Fits(c, e, exec')
    BY <1>3, <2>2 DEF Ends, Fits
  <2>6. QED
    BY <1>2, <2>3, <2>4, <2>5, PlaceUpdate
<1>5. CASE flag \notin 1..4
  <2> DEFINE e == [dma[c] EXCEPT !.retry = TRUE]
  <2>1. Update(c, e, FALSE)
    BY <1>5, Zenon DEF BusError
  <2>2. /\ e \in Channel /\ e.csr = dma[c].csr /\ e.ccr = dma[c].ccr /\ e.mtc = dma[c].mtc
        /\ e.chain = dma[c].chain /\ e.btc = dma[c].btc
    BY <1>1 DEF Channel
  <2>3. "ACT" \in dma[c].csr /\ "COC" \notin dma[c].csr
    BY DEF BusError, CanTransfer
  <2> HIDE DEF e
  <2>4. Typed(e) /\ Told(dma[c], e, FALSE) /\ "HLT" \notin e.ccr
    BY <1>1, <2>2, <2>3 DEF Typed, Told, Reports
  <2>5. ~ StartWithCNT /\ Busy => Working(e) /\ Fits(c, e, exec')
    BY <1>3, <2>2 DEF Busy, Working, Fits, Spent
  <2>6. QED
    BY <1>2, <2>1, <2>4, <2>5, PlaceUpdate
<1>6. QED
  BY <1>4, <1>5

LEMMA PollReturnStep ==
  ASSUME Channels, Place, NEW c \in Chan, Poll(c) \/ Return(c)
  PROVE  Step
<1>1. UNCHANGED dma
  BY DEF Poll, Return
<1>2. CASE Poll(c)
  BY <1>1, <1>2, PlaceSame DEF Poll, CanTransfer, At, Fits
<1>3. CASE Return(c)
  <2>1. exec \in {<<c, "exec">>, <<c, "exec+cnt">>} /\ "HLT" \notin dma[c].ccr
    BY <1>3 DEF Return, Executing, Place
  <2>2. /\ exec' \in At(c) /\ exec' # <<c, "exec+cnt">>
        /\ exec' = <<c, "cnt">> => exec = <<c, "exec+cnt">>
    BY <1>3, LeaveType DEF Return
  <2>3. Busy => Fits(c, dma[c], exec')
    BY <2>2 DEF Busy, Fits, Spent
  <2>4. QED
    BY <1>1, <2>1, <2>2, <2>3, PlaceSame
<1>4. QED
  BY <1>2, <1>3

LEMMA ChannelsStep ==
  ASSUME Channels, Place, NEW c \in Chan,
         \/ GuestWrite(c)
         \/ ContinueLater(c) \/ ContinueError(c) \/ ContinueNow(c)
         \/ Poll(c) \/ Transfer(c) \/ Return(c)
         \/ \E flag \in BusFlags, toMemory \in BOOLEAN : BusError(c, flag, toMemory)
  PROVE  Step
<1>1. CASE GuestWrite(c)
  BY <1>1, PlainWrites, StopWrites, ReleaseStep, StartStep, StoreStep DEF GuestWrite, WriteCCR
<1>2. QED
  BY <1>1, ContinueStep, PollReturnStep, TransferStep, BusErrorStep

-----------------------------------------------------------------------------
\* The controller's part and the channels' part together.
CInv == IInv /\ Channels /\ Place /\ intCH \subseteq Chan /\ lastInt \in 0..3

\* The steps of the CPU leave the channels alone; a reset clears them.
LEMMA CPUStep ==
  ASSUME Channels, Place, DMAAccept \/ \E m \in Masks : SetMask(m)
  PROVE  Step
BY DEF DMAAccept, SetMask, Step, Channels, Place, Busy, StopsTold

LEMMA ResetChannelType == Typed(ResetChannel) /\ Working(ResetChannel)
BY DMACAssumption DEF ResetChannel, Typed, Working, Channel, CSRBits, CCRBits, Chaining,
                      Requests, Addr

LEMMA ResetStep ==
  ASSUME Reset
  PROVE  Channels' /\ Place' /\ Busy'
BY ResetChannelType DEF Reset, Channels, Place, Busy, Typed

LEMMA SharedKeeps ==
  ASSUME intCH \subseteq Chan, lastInt \in 0..3, [Next]_vars
  PROVE  intCH' \subseteq Chan /\ lastInt' \in 0..3
<1>1. ASSUME NEW c \in Chan,
             \/ GuestWrite(c)
             \/ ContinueLater(c) \/ ContinueError(c) \/ ContinueNow(c)
             \/ Poll(c) \/ Transfer(c) \/ Return(c)
             \/ \E flag \in BusFlags, toMemory \in BOOLEAN : BusError(c, flag, toMemory)
      PROVE  intCH' \subseteq Chan /\ lastInt' \in 0..3
  <2>1. intCH' \subseteq Chan
    BY <1>1, ChannelStep DEF Raised
  <2>2. UNCHANGED lastInt
    <3>1. CASE GuestWrite(c)
      BY <3>1, Zenon DEF GuestWrite, WriteCSR, WriteCER, WriteOCR, WriteMTC, WriteBTC, WriteBAR,
                         WriteCCR, Abort, Halt, Release, Start, Store
    <3>2. QED
      BY <1>1, <3>1, Zenon DEF ContinueLater, ContinueError, ContinueNow, Poll, Transfer, Return,
                               BusError
  <2>3. QED
    BY <2>1, <2>2
<1>2. CASE DMAAccept
  <2>1. FirstFrom(lastInt, intCH) \subseteq intCH /\ intCH \subseteq 0..3
    BY DMACAssumption DEF FirstFrom
  <2>2. QED
    BY <1>2, <2>1 DEF DMAAccept
<1>3. CASE (\E m \in Masks : SetMask(m)) \/ Reset \/ UNCHANGED vars
  BY <1>3 DEF SetMask, Reset, vars
<1>4. QED
  BY <1>1, <1>2, <1>3 DEF Next

LEMMA InitCInv == Init => CInv /\ Busy
<1> SUFFICES ASSUME Init PROVE CInv /\ Busy
  OBVIOUS
<1>1. Channels /\ Place /\ Busy
  BY ResetChannelType DEF Init, Channels, Place, Busy, Typed
<1>2. QED
  BY <1>1, InitIInv DEF Init, CInv

LEMMA NextCInv ==
  CInv /\ [Next]_vars =>
    CInv' /\ (StopsTold \/ Reset) /\ (~ StartWithCNT /\ Busy => Busy')
<1> SUFFICES ASSUME CInv, [Next]_vars
             PROVE  CInv' /\ (StopsTold \/ Reset) /\ (~ StartWithCNT /\ Busy => Busy')
  OBVIOUS
<1>1. IInv' /\ intCH' \subseteq Chan /\ lastInt' \in 0..3
  BY NextIInv, SharedKeeps DEF CInv
<1>2. Step \/ (Reset /\ Channels' /\ Place' /\ Busy')
  <2>1. CASE UNCHANGED vars
    BY <2>1 DEF CInv, vars, Step, Channels, Place, Busy, StopsTold
  <2>2. CASE Next
    BY <2>2, ChannelsStep, CPUStep, ResetStep DEF CInv, Next
  <2>3. QED
    BY <2>1, <2>2
<1>3. QED
  BY <1>1, <1>2 DEF CInv, Step

LEMMA ChannelsInvariance == Spec => []CInv
BY InitCInv, NextCInv, PTL DEF Spec

\* Type correctness of the registers, whatever the guest's register writes.
THEOREM TypeCorrect == Spec => []TypeOK
<1>1. CInv => TypeOK
  BY DEF CInv, IInv, Sound, Channels, Place, TypeOK
<1>2. QED
  BY <1>1, ChannelsInvariance, PTL

\* A channel never stops without a report, for every chain and every guest,
\* also one that starts operations at maximum rate with CNT set (DMA_Exec).
THEOREM StopsAreTold == Spec => NoSilentStop
<1>1. CInv /\ [Next]_vars =>
        [\A c \in Chan :
           "ACT" \in dma[c].csr /\ "ACT" \notin dma'[c].csr /\ ~ Reset =>
             /\ dma'[c].csr \cap {"COC", "ERR"} # {}
             /\ "INT" \in dma'[c].ccr => c \in intCH']_vars
  BY NextCInv DEF StopsTold
<1>2. QED
  BY <1>1, ChannelsInvariance, PTL DEF Spec, NoSilentStop

\* An active channel always has work, for every chain and every guest that does
\* not start an operation at maximum rate with CNT set (DMA_Write, DMA_Exec).
THEOREM ActiveChannelsWork ==
  ASSUME StartWithCNT = FALSE
  PROVE  Spec => []ActiveHasWork
<1>1. Init => CInv /\ Busy
  BY InitCInv
<1>2. CInv /\ Busy /\ [Next]_vars => (CInv /\ Busy)'
  BY NextCInv
<1>3. CInv /\ Busy => ActiveHasWork
  BY DEF Busy, Working, ActiveHasWork
<1>4. QED
  BY <1>1, <1>2, <1>3, PTL DEF Spec
=============================================================================
