-------------------------------- MODULE DMAC --------------------------------
(***************************************************************************)
(* The DMA controller HD63450 (x68k/dmac.c) on level 3 of the interrupt    *)
(* controller.                                                             *)
(*                                                                         *)
(* The guest programs a channel through its registers and starts it with   *)
(* the channel control register (CCR); the execution loop then polls the   *)
(* channel, and a call of DMA_Exec moves operands one by one until the     *)
(* block ends, the device has nothing more to give, or the bus faults.     *)
(* Each turn of its loop is a step.  Addresses and data are left out, with *)
(* the exception of the chain tables in memory, which give the length of   *)
(* the next block, and of what a fault tells of the address it wrote to.   *)
(* Flag registers are sets of the names of their bits.                     *)
(***************************************************************************)
EXTENDS IRQH

CONSTANTS
  Chan,         \* the channels in use, of 0..3
  MaxCount,     \* bound on the transfer counts the guest writes
  Table,        \* memory: block length and next address for each chain address
  Modes,        \* the operation modes the guest programs: <<chaining, requests>>
  BusFlags,     \* the values of BusErrFlag after the accesses of a transfer
  DMA_Int,      \* the DMAC's vector routine
  CCRValues,    \* the values the guest writes to CCR, as sets of bits
  CSRValues,    \* the values it writes to CSR
  Masks,        \* the interrupt masks the guest uses
  StartWithCNT  \* TRUE: the guest starts operations at maximum rate with CNT set

Chaining == {"none", "array", "link"}
Requests == {"limited", "maximum", "external"}    \* REQG: 0 and 3, 1, 2

ASSUME DMACAssumption ==
  /\ Chan \subseteq 0..3
  /\ MaxCount \in Nat \ {0}
  /\ 0 \in DOMAIN Table /\ DOMAIN Table \subseteq Nat
  /\ \A a \in DOMAIN Table :
       Table[a] \in [mtc : 0..MaxCount, next : DOMAIN Table, flag : 0..3]
  /\ Modes \subseteq Chaining \X Requests
  /\ BusFlags \subseteq {1, 2, 3, 4, 5, 7}
  /\ CCRValues \subseteq SUBSET {"STR", "CNT", "HLT", "INT", "SAB"}
  /\ CSRValues \subseteq SUBSET {"COC", "BTC", "ERR", "ACT"}
  /\ 3 \in Level /\ DMA_Int \in Handler
  /\ Masks \subseteq 0..7
  /\ StartWithCNT \in BOOLEAN

Addr == DOMAIN Table
Errors == {1, 2, 5, 6, 7, 9, 10, 11, 13, 15, 17}

CSRBits == {"COC", "BTC", "ERR", "ACT"}
CCRBits == {"STR", "CNT", "HLT", "INT"}

\* A channel's registers; csr, ccr hold the bits that are 1.  retry: the last
\* operand was given up without an error, because both its read and its write
\* faulted; it is then written to an odd address, and so is every later one, as
\* DMA_Exec moves the addresses of words by even numbers also after a fault.
Channel ==
  [csr : SUBSET CSRBits, cer : Errors \cup {0}, ccr : SUBSET CCRBits,
   chain : Chaining, reqg : Requests,
   mtc : 0..MaxCount, btc : 0..MaxCount, bar : Addr, retry : BOOLEAN]

VARIABLES
  irqh,      \* the interrupt controller and the CPU's line
  mask,      \* the CPU's interrupt mask
  dma,       \* the registers of each channel
  intCH,     \* DMA_IntCH: the channels with an interrupt to deliver
  lastInt,   \* DMA_LastInt: where the next scan for a vector starts
  exec       \* where the emulator is: <<>> outside DMA_Exec and the CCR write,
             \* else the channel and what is left to do ("exec", "exec+cnt", "cnt")

vars == <<irqh, mask, dma, intCH, lastInt, exec>>

\* The state of a channel after DMA_Init (mode "none", "limited" is OCR = 0).
ResetChannel ==
  [csr |-> {}, cer |-> 0, ccr |-> {}, chain |-> "none", reqg |-> "limited",
   mtc |-> 0, btc |-> 0, bar |-> 0, retry |-> FALSE]

Init ==
  /\ irqh = PowerOn
  /\ mask = 7
  /\ dma = [c \in Chan |-> ResetChannel]
  /\ intCH = {}
  /\ lastInt = 0
  /\ exec = <<>>

-----------------------------------------------------------------------------
(* Operations on the registers d of one channel.                           *)

\* Faulty variants of the definitions below, which the properties must refute.
ErrorKeepingActive(d, err) == [d EXCEPT !.cer = err, !.csr = @ \cup {"ERR"}]
CompleteKeepingActive(d) == [d EXCEPT !.csr = @ \cup {"COC"}]
EventOnError(d, e) == "ERR" \in e.csr
LinkKeepingAddress(d) == [d EXCEPT !.mtc = Table[d.bar].mtc]
DMAINTWithoutLine(c) ==
  IF "INT" \in dma'[c].ccr
    THEN intCH' = intCH \cup {c} /\ irqh' = [irqh EXCEPT !.IRQ = @ \cup {3}]
    ELSE UNCHANGED <<intCH, irqh>>

\* DMAERR: record the error, stop the channel; the guest may then give another
\* address.
DMAERR(d, err) ==
  [d EXCEPT !.cer = err, !.csr = (@ \cup {"ERR"}) \ {"ACT"}, !.ccr = @ \ {"STR"},
            !.retry = FALSE]

\* "if (p) DMAERR(ch,a) else DMAERR(ch,b)": the macro is several statements, so
\* p decides about its first one only, and the else is that of the macro's own
\* test of the INT bit: b is reported by a channel without interrupts, a by one
\* with interrupts if p holds, and if p does not hold the old code stays.
EitherDMAERR(d, p, a, b) ==
  DMAERR(d, IF "INT" \notin d.ccr THEN b ELSE IF p THEN a ELSE d.cer)

\* The operation is complete.
Complete(d) == [d EXCEPT !.csr = (@ \cup {"COC"}) \ {"ACT"}]

\* The array entry after address a.
NextEntry(a) == IF a + 1 \in Addr THEN a + 1 ELSE 0

\* Read the next block of a chain from the table.
LoadBlock(d) ==
  [d EXCEPT !.mtc = Table[d.bar].mtc,
            !.bar = IF d.chain = "link" THEN Table[d.bar].next ELSE NextEntry(d.bar)]

\* The next block of a chain: a bus fault and an empty block are errors.
ChainBlock(d) ==
  LET b == LoadBlock(d)
      flag == Table[d.bar].flag
  IN  IF flag # 0 THEN EitherDMAERR(b, flag = 1, 11, 7)
      ELSE IF b.mtc = 0 THEN DMAERR(b, 13) ELSE b

\* The block in BAR and BTC, of an operation that goes on.
NextSingle(d) ==
  [d EXCEPT !.csr = @ \cup {"ACT"}, !.mtc = d.btc, !.bar = 0, !.btc = 0]

\* The end of a block in each of the modes.
EndLink(d) == IF d.bar = 0 THEN Complete(d) ELSE ChainBlock(d)

EndArray(d) ==
  LET b == [d EXCEPT !.btc = (@ - 1) % 65536]
  IN  IF b.btc = 0 THEN Complete(b) ELSE ChainBlock(b)

EndSingle(d) ==
  LET b == [d EXCEPT !.csr = @ \cup {"BTC"}]
  IN  CASE "CNT" \notin d.ccr -> Complete(d)
        [] "CNT" \in d.ccr /\ d.bar = 0 -> Complete(b)
        [] "CNT" \in d.ccr /\ d.bar # 0 /\ d.btc = 0 -> DMAERR(NextSingle(b), 13)
        [] "CNT" \in d.ccr /\ d.bar # 0 /\ d.btc # 0 ->
             [NextSingle(b) EXCEPT !.ccr = @ \ {"CNT"}]

EndBlock(d) ==
  CASE d.chain = "link"  -> EndLink(d)
    [] d.chain = "array" -> EndArray(d)
    [] d.chain = "none"  -> EndSingle(d)

\* Whether the end of the block of d, which makes it e, is told to the CPU:
\* every end but the change to the next block of a chain.
Event(d, e) == d.chain = "none" \/ e.csr # d.csr

\* DMAINT: deliver an interrupt if the channel has interrupts enabled.
DMAINT(c) ==
  IF "INT" \in dma'[c].ccr
    THEN /\ intCH' = intCH \cup {c}
         /\ irqh' = IRQH_Int(irqh, 3, DMA_Int)
    ELSE UNCHANGED <<intCH, irqh>>

\* The channel's registers become d; an interrupt goes with every event.
Update(c, d, event) ==
  /\ dma' = [dma EXCEPT ![c] = d]
  /\ IF event THEN DMAINT(c) ELSE UNCHANGED <<intCH, irqh>>

-----------------------------------------------------------------------------
(* Register writes of the guest.                                           *)

\* The protocol of the chip, to which guest programs keep: only an active
\* channel is halted, an abort is not a halt, and the registers of an active
\* channel are left alone but for CCR and, in single block mode, the next block
\* in BAR and BTC.
GuestMay(c, data) ==
  /\ "HLT" \in data => "ACT" \in dma[c].csr /\ "SAB" \notin data
  /\ StartWithCNT \/ ~ ({"STR", "CNT"} \subseteq data /\ dma[c].reqg = "maximum")
Quiet(c) == "ACT" \notin dma[c].csr
QuietNext(c) == Quiet(c) \/ dma[c].chain = "none"

\* CSR: ones clear status bits; ACT cannot be cleared.
WriteCSR(c, ones) ==
  /\ exec = <<>>
  /\ Update(c, [dma[c] EXCEPT !.csr = @ \ (ones \ {"ACT"})], FALSE)
  /\ UNCHANGED <<mask, lastInt, exec>>

\* CER: ones clear the error code's bits; the guest clears them all.
WriteCER(c) ==
  /\ exec = <<>>
  /\ Update(c, [dma[c] EXCEPT !.cer = 0], FALSE)
  /\ UNCHANGED <<mask, lastInt, exec>>

\* OCR, MTC, BTC and BAR are plain storage.
WriteOCR(c, mode) ==
  /\ exec = <<>> /\ Quiet(c)
  /\ Update(c, [dma[c] EXCEPT !.chain = mode[1], !.reqg = mode[2]], FALSE)
  /\ UNCHANGED <<mask, lastInt, exec>>

WriteMTC(c, n) ==
  /\ exec = <<>> /\ Quiet(c)
  /\ Update(c, [dma[c] EXCEPT !.mtc = n], FALSE)
  /\ UNCHANGED <<mask, lastInt, exec>>

WriteBTC(c, n) ==
  /\ exec = <<>> /\ QuietNext(c)
  /\ Update(c, [dma[c] EXCEPT !.btc = n], FALSE)
  /\ UNCHANGED <<mask, lastInt, exec>>

WriteBAR(c, a) ==
  /\ exec = <<>> /\ QuietNext(c)
  /\ Update(c, [dma[c] EXCEPT !.bar = a], FALSE)
  /\ UNCHANGED <<mask, lastInt, exec>>

\* CCR as written: STR cannot be cleared, SAB is not stored.
Written(d, data) ==
  [d EXCEPT !.ccr = (data \ {"SAB"}) \cup (@ \cap {"STR"})]

\* CCR with SAB on a started channel: software abort.
Abort(c, data) ==
  /\ exec = <<>> /\ GuestMay(c, data)
  /\ "SAB" \in data /\ "STR" \in Written(dma[c], data).ccr
  /\ Update(c, DMAERR(Written(dma[c], data), 17), TRUE)
  /\ UNCHANGED <<mask, lastInt, exec>>

NotAborted(c, data) ==
  /\ exec = <<>> /\ GuestMay(c, data)
  /\ ~ ("SAB" \in data /\ "STR" \in Written(dma[c], data).ccr)

\* CCR with HLT: the channel stops where it is (ACT stays, on purpose).
Halt(c, data) ==
  /\ NotAborted(c, data)
  /\ "HLT" \in data
  /\ Update(c, Written(dma[c], data), FALSE)
  /\ UNCHANGED <<mask, lastInt, exec>>

\* CCR with STR on a halted channel: it goes on.
Release(c, data) ==
  /\ NotAborted(c, data)
  /\ "HLT" \notin data /\ "STR" \in data /\ "HLT" \in dma[c].ccr
  /\ Update(c, [Written(dma[c], data) EXCEPT !.csr = @ \cup {"ACT"}], FALSE)
  /\ exec' = <<c, IF "CNT" \in data THEN "exec+cnt" ELSE "exec">>
  /\ UNCHANGED <<mask, lastInt>>

\* CCR with STR: the start of an operation, with the errors it can end in.
Start(c, data) ==
  /\ NotAborted(c, data)
  /\ "HLT" \notin data /\ "STR" \in data /\ "HLT" \notin dma[c].ccr
  /\ LET w == Written(dma[c], data)
         a == [w EXCEPT !.csr = @ \cup {"ACT"}]
         b == IF a.chain = "none" THEN a ELSE LoadBlock(a)
         err == IF w.csr # {} THEN 2                                \* timing
                ELSE IF w.chain = "array" /\ w.btc = 0 THEN 15      \* base count
                ELSE IF b.mtc = 0 THEN 13 ELSE 0                    \* memory count
     IN  IF err = 0
           THEN /\ Update(c, [b EXCEPT !.cer = 0], FALSE)
                /\ exec' = <<c, IF "CNT" \in data THEN "exec+cnt" ELSE "exec">>
           ELSE /\ Update(c, DMAERR(IF err = 2 THEN w ELSE b, err), TRUE)
                /\ UNCHANGED exec
  /\ UNCHANGED <<mask, lastInt>>

\* CCR without SAB, HLT and STR.
Store(c, data) ==
  /\ NotAborted(c, data)
  /\ data \cap {"HLT", "STR"} = {}
  /\ Update(c, Written(dma[c], data), FALSE)
  /\ exec' = IF "CNT" \in data THEN <<c, "cnt">> ELSE <<>>
  /\ UNCHANGED <<mask, lastInt>>

\* The rest of a CCR write with CNT: nothing while the count has not run out.
ContinueLater(c) ==
  /\ exec = <<c, "cnt">> /\ dma[c].mtc # 0
  /\ exec' = <<>>
  /\ UNCHANGED <<irqh, mask, dma, intCH, lastInt>>

\* CNT when the count has run out: an error on a channel that is not started,
\* on one that has CNT already, and on a chained one.
Continues(d) == {"STR", "CNT"} \cap d.ccr = {"STR"} /\ d.chain = "none"

ContinueError(c) ==
  /\ exec = <<c, "cnt">> /\ dma[c].mtc = 0
  /\ ~ Continues(dma[c])
  /\ Update(c, DMAERR(dma[c], IF {"STR", "CNT"} \cap dma[c].ccr = {"STR"} THEN 1 ELSE 2),
            TRUE)
  /\ exec' = <<>>
  /\ UNCHANGED <<mask, lastInt>>

\* CNT when the count has run out and the operation can go on: with the next
\* block, if there is one.
ContinueNow(c) ==
  /\ exec = <<c, "cnt">> /\ dma[c].mtc = 0
  /\ Continues(dma[c])
  /\ LET d == dma[c]
         n == NextSingle(d)
     IN  /\ Update(c, CASE d.bar = 0 -> [n EXCEPT !.csr = @ \cup {"BTC"}]
                        [] d.bar # 0 /\ d.btc = 0 -> DMAERR(n, 13)
                        [] d.bar # 0 /\ d.btc # 0 -> [n EXCEPT !.ccr = @ \ {"CNT"}],
                   d.bar = 0 \/ d.btc = 0)
         /\ exec' = IF d.bar # 0 /\ d.btc # 0 THEN <<c, "exec">> ELSE <<>>
  /\ UNCHANGED <<mask, lastInt>>

WriteCCR(c, data) ==
  Abort(c, data) \/ Halt(c, data) \/ Release(c, data) \/ Start(c, data) \/ Store(c, data)

GuestWrite(c) ==
  \/ \E ones \in CSRValues : WriteCSR(c, ones)
  \/ WriteCER(c)
  \/ \E mode \in Modes : WriteOCR(c, mode)
  \/ \E n \in 0..MaxCount : WriteMTC(c, n) \/ WriteBTC(c, n)
  \/ \E a \in Addr : WriteBAR(c, a)
  \/ \E data \in CCRValues : WriteCCR(c, data)

-----------------------------------------------------------------------------
(* DMA_Exec.                                                               *)

\* The condition of its loop, without the device's readiness.
CanTransfer(d) ==
  /\ "ACT" \in d.csr /\ "HLT" \notin d.ccr /\ "COC" \notin d.csr
  /\ d.mtc # 0

\* The execution loop (or, for channel 3, the ADPCM) calls DMA_Exec; a call
\* that finds nothing to do is left out.
Poll(c) ==
  /\ exec = <<>> /\ CanTransfer(dma[c])
  /\ exec' = <<c, "exec">>
  /\ UNCHANGED <<irqh, mask, dma, intCH, lastInt>>

Executing(c) == exec \in {<<c, "exec">>, <<c, "exec+cnt">>}

\* DMA_Exec returns, to the loop or into the CCR write that called it.
Leave(c) == exec' = IF exec = <<c, "exec+cnt">> THEN <<c, "cnt">> ELSE <<>>

\* One operand is moved; at maximum rate the loop goes on.
Transfer(c) ==
  /\ Executing(c) /\ CanTransfer(dma[c]) /\ ~ dma[c].retry
  /\ LET d == [dma[c] EXCEPT !.mtc = @ - 1]
         e == IF d.mtc = 0 THEN EndBlock(d) ELSE d
     IN  /\ Update(c, e, d.mtc = 0 /\ Event(d, e))
         /\ IF d.reqg = "maximum" /\ ("ERR" \in e.csr => "ERR" \in d.csr)
              THEN UNCHANGED exec ELSE Leave(c)
  /\ UNCHANGED <<mask, lastInt>>

\* The codes meant for a fault: on the read and on the write of a transfer.
FaultCodes(flag) == IF flag \in {1, 2} THEN <<10, 9>> ELSE <<6, 5>>

\* The transfer ends in a bus or an address error.  A write at an odd address
\* after a failed read adds 4 to the flag, and that value has no case: the
\* channel stays active and tries again at the next poll.
BusError(c, flag, toMemory) ==
  /\ Executing(c) /\ CanTransfer(dma[c])
  /\ dma[c].retry => flag \in {4, 5, 7}
  /\ IF flag \in 1..4
       THEN LET code == FaultCodes(flag)
                read == flag \in {1, 3}
            IN  Update(c, IF read THEN EitherDMAERR(dma[c], toMemory, code[1], code[2])
                                  ELSE EitherDMAERR(dma[c], toMemory, code[2], code[1]),
                       TRUE)
       ELSE Update(c, [dma[c] EXCEPT !.retry = TRUE], FALSE)
  /\ Leave(c)
  /\ UNCHANGED <<mask, lastInt>>

\* Nothing to transfer, or the device is not ready (IsReady).
Return(c) ==
  /\ Executing(c)
  /\ ~ CanTransfer(dma[c]) \/ dma[c].reqg = "external"
  /\ Leave(c)
  /\ UNCHANGED <<irqh, mask, dma, intCH, lastInt>>

-----------------------------------------------------------------------------
(* The CPU.                                                                *)

\* The channels whose interrupt DMA_Int finds first, from the last one served.
FirstFrom(from, S) ==
  {c \in S : \A d \in S : (c - from) % 4 <= (d - from) % 4}

\* A faulty variant of DMAAccept: a second waiting channel is not raised again.
DMAAcceptOnce ==
  /\ exec = <<>>
  /\ Accepts(irqh, mask)
  /\ mask' = irqh.line
  /\ intCH' = intCH \ FirstFrom(lastInt, intCH)
  /\ lastInt' \in FirstFrom(lastInt, intCH)
  /\ irqh' = AfterVector(IRQH_IRQCallBack(AcceptLine(irqh), 3))
  /\ UNCHANGED <<dma, exec>>

\* The core accepts level 3: DMA_Int gives the vector of one channel and raises
\* the level again if another channel is waiting.
DMAAccept ==
  /\ exec = <<>>
  /\ Accepts(irqh, mask)
  /\ mask' = irqh.line
  /\ LET q == IRQH_IRQCallBack(AcceptLine(irqh), 3)
         served == FirstFrom(lastInt, intCH)
     IN  /\ intCH' = intCH \ served
         /\ lastInt' \in IF served = {} THEN {lastInt} ELSE served
         /\ irqh' = AfterVector(IF intCH' = {} THEN q ELSE IRQH_Int(q, 3, DMA_Int))
  /\ UNCHANGED <<dma, exec>>

\* The guest program writes its status register or returns from an interrupt.
SetMask(m) ==
  /\ exec = <<>>
  /\ mask' = m
  /\ UNCHANGED <<irqh, dma, intCH, lastInt, exec>>

\* WinX68k_Reset: m68000_reset, DMA_Init and IRQH_Init.
Reset ==
  /\ exec = <<>>
  /\ irqh' = IRQH_Init(irqh)
  /\ mask' = 7
  /\ dma' = [c \in Chan |-> ResetChannel]
  /\ intCH' = {}
  /\ lastInt' = 0
  /\ UNCHANGED exec

Next ==
  \/ \E c \in Chan :
       \/ GuestWrite(c)
       \/ ContinueLater(c) \/ ContinueError(c) \/ ContinueNow(c)
       \/ Poll(c) \/ Transfer(c) \/ Return(c)
       \/ \E flag \in BusFlags, toMemory \in BOOLEAN : BusError(c, flag, toMemory)
  \/ DMAAccept
  \/ \E m \in Masks : SetMask(m)
  \/ Reset

Spec == Init /\ [][Next]_vars

\* What DMA_Exec does with a device that is ready: it moves an operand, or the
\* operand faults.
Operand(c) ==
  Transfer(c) \/ \E flag \in BusFlags, toMemory \in BOOLEAN : BusError(c, flag, toMemory)

\* Each slice of the execution loop polls every channel, whatever the guest
\* writes in between; a device that is polled is ready again and again, and an
\* operand is then tried, which need not succeed; DMA_Exec and the CCR write
\* return.
Fairness ==
  \A c \in Chan :
    /\ SF_vars(Poll(c)) /\ SF_vars(Operand(c)) /\ WF_vars(Return(c))
    /\ WF_vars(ContinueLater(c) \/ ContinueError(c) \/ ContinueNow(c))
FairSpec == Spec /\ Fairness

-----------------------------------------------------------------------------
TypeOK ==
  /\ irqh \in Controller
  /\ mask \in 0..7
  /\ dma \in [Chan -> Channel]
  /\ intCH \in SUBSET Chan
  /\ lastInt \in 0..3
  /\ exec \in {<<>>} \cup (Chan \X {"exec", "exec+cnt", "cnt"})

\* Level 3 is raised exactly while some channel has an interrupt to deliver: no
\* channel's interrupt is lost when several are waiting, and DMA_Int is never
\* called without a channel to answer for.
LevelMirrorsChannels == 3 \in irqh.IRQ <=> intCH # {}

\* A channel that reports itself active has something to transfer and neither
\* an error nor an end to report: it cannot hang with its ACT bit set.
ActiveHasWork ==
  \A c \in Chan : "ACT" \in dma[c].csr =>
     dma[c].mtc # 0 /\ dma[c].csr \cap {"COC", "ERR"} = {}

\* A channel never stops silently: when it gives up its ACT bit it reports an
\* end or an error and, with interrupts enabled, interrupts the CPU.
NoSilentStop ==
  [][\A c \in Chan :
       "ACT" \in dma[c].csr /\ "ACT" \notin dma'[c].csr /\ ~ Reset =>
         /\ dma'[c].csr \cap {"COC", "ERR"} # {}
         /\ "INT" \in dma'[c].ccr => c \in intCH']_vars

\* An operation never runs for ever: a channel that can transfer comes to the
\* end of its chain or of its block, if no chain in memory is a cycle, or stops
\* with an error.  One that DMA_Exec retries without an error is left out.
BlockEnds ==
  \A c \in Chan :
    CanTransfer(dma[c]) ~> \/ ~ CanTransfer(dma[c])
                           \/ "BTC" \in dma[c].csr
                           \/ dma[c].retry

\* The DMAC is a well-behaved device of the interrupt controller.
HandlersOf == [l \in Level |-> IF l = 3 THEN {DMA_Int} ELSE {}]
Controls == INSTANCE Arbiter WITH Rearming <- {DMA_Int}
ImplementsArbiter == Controls!Spec
=============================================================================
