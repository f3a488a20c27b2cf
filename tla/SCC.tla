--------------------------------- MODULE SCC --------------------------------
(***************************************************************************)
(* The serial controller Z8530 as far as the mouse uses it (x68k/scc.c),   *)
(* with the mouse itself (SDL/mouse.c), on level 5 of the interrupt        *)
(* controller.                                                             *)
(*                                                                         *)
(* The guest writes the registers of a port through one address: a byte    *)
(* selects a register, the next one is its value.  Raising RTS in register *)
(* 5 of port B samples the motion the host has reported into a packet of   *)
(* three bytes, which the guest reads one by one.  One axis is modelled;   *)
(* the buttons and the vectors are left out.                               *)
(***************************************************************************)
EXTENDS IRQH

CONSTANTS
  BytesA,      \* the bytes the guest writes to the command address of port A
  BytesB,      \* and of port B
  Scale,       \* the fractions of a step in which the host reports motion
  Low, High,   \* the steps a packet can tell: -128 and 127 in the code
  Moves,       \* the motions the host reports
  MaxMotion,   \* bound on the motion not yet sampled
  SCC_Int      \* the vector routine

ASSUME SCCAssumption ==
  /\ BytesA \cup BytesB \subseteq 0..255
  /\ Scale \in Nat \ {0} /\ MaxMotion \in Nat /\ Moves \subseteq Int
  /\ Low \in Int /\ High \in Nat /\ Low < 0
  /\ 5 \in Level /\ SCC_Int \in Handler

Bit(byte, weight) == (byte \div weight) % 2 = 1
NoReg == -1            \* no register is selected

VARIABLES
  irqh,       \* the interrupt controller and the CPU's line
  selA, selB, \* the register selected at each port, or NoReg
  regs,       \* SCC_RegsB as far as it matters: see Registers
  datNum,     \* SCC_DatNum: bytes of the packet not yet read
  x,          \* SCC_Dat[1]: the packet's motion
  got,        \* history: bytes of a packet the guest has read
  mouse,      \* MouseDX and MouseSW
  due         \* history: motion reported by the host and not read by the guest

vars == <<irqh, selA, selB, regs, datNum, x, got, mouse, due>>

\* all, first: when received bytes interrupt (bits 3 and 4 of register 1);
\* rx: register 3, bit 0; rts: register 5, bit 1; mie: register 9, bit 3.
Registers == [int : {"none", "first", "all"}, rx : BOOLEAN, rts : BOOLEAN, mie : BOOLEAN]

Init ==
  /\ irqh = PowerOn
  /\ selA = NoReg /\ selB = NoReg
  /\ regs = [int |-> "none", rx |-> FALSE, rts |-> FALSE, mie |-> FALSE]
  /\ datNum = 0 /\ x = 0 /\ got = 0
  /\ mouse = [dx |-> 0, on |-> FALSE] /\ due = 0

-----------------------------------------------------------------------------
\* The conversion of a motion to whole steps: towards zero, then clipped.
Truncated(dx) == IF dx >= 0 THEN dx \div Scale ELSE -((-dx) \div Scale)
Clipped(steps) == IF steps > High THEN High ELSE IF steps < Low THEN Low ELSE steps

\* Faulty variants: the motion is taken before the test; the test is missing.
SampleTooEarly(data) ==
  IF Bit(data, 2) /\ ~ regs.rts /\ regs.rx
    THEN /\ mouse' = [mouse EXCEPT !.dx = 0]
         /\ IF datNum = 0
              THEN /\ datNum' = 3
                   /\ x' = Clipped(Truncated(mouse.dx))
                   /\ due' = due - (mouse.dx - Scale * x')
              ELSE UNCHANGED <<datNum, x, due>>
    ELSE UNCHANGED <<datNum, x, mouse, due>>
SampleAlways(data) ==
  IF Bit(data, 2) /\ ~ regs.rts /\ regs.rx
    THEN /\ datNum' = 3 /\ x' = 0
         /\ UNCHANGED <<mouse, due>>
    ELSE UNCHANGED <<datNum, x, mouse, due>>

\* A rising edge of RTS samples the mouse (Mouse_SetData), unless a packet is
\* still unread.  What is cut off is not reported any more.
Sample(data) ==
  IF Bit(data, 2) /\ ~ regs.rts /\ regs.rx /\ datNum = 0
    THEN /\ datNum' = 3
         /\ IF mouse.on
              THEN /\ mouse' = [mouse EXCEPT !.dx = 0]
                   /\ x' = Clipped(Truncated(mouse.dx))
                   /\ due' = due - (mouse.dx - Scale * x')
              ELSE /\ x' = 0
                   /\ UNCHANGED <<mouse, due>>
    ELSE UNCHANGED <<datNum, x, mouse, due>>

\* The register a value goes to; those that matter keep a few bits.
Stored(reg, data) ==
  CASE reg = 1 -> [regs EXCEPT !.int = IF ~ Bit(data, 8) /\ ~ Bit(data, 16) THEN "none"
                                       ELSE IF ~ Bit(data, 16) THEN "first"
                                       ELSE IF ~ Bit(data, 8) THEN "all" ELSE "none"]
    [] reg = 3 -> [regs EXCEPT !.rx = Bit(data, 1)]
    [] reg = 5 -> [regs EXCEPT !.rts = Bit(data, 2)]
    [] reg = 9 -> [regs EXCEPT !.mie = Bit(data, 8)]
    [] OTHER -> regs

\* SCC_Write, command of port B.  A byte below 16 selects a register, 0 too.
WriteB(data) ==
  /\ IF selB = NoReg
       THEN /\ selB' = IF data < 16 THEN data ELSE NoReg
            /\ UNCHANGED <<regs, datNum, x, mouse, due>>
       ELSE /\ selB' = NoReg
            /\ regs' = Stored(selB, data)
            /\ IF selB = 5 THEN Sample(data)
               ELSE UNCHANGED <<datNum, x, mouse, due>>
  /\ UNCHANGED <<irqh, selA, got>>

\* SCC_Write, command of port A: of its registers only 2 and 9 exist, as those
\* of port B, and 0 does not select one.
WriteA(data) ==
  /\ IF selA = NoReg
       THEN /\ selA' = IF data % 16 # 0 THEN data % 16 ELSE NoReg
            /\ UNCHANGED regs
       ELSE /\ selA' = NoReg
            /\ regs' = IF selA = 9 THEN Stored(9, data) ELSE regs
  /\ UNCHANGED <<irqh, selB, datNum, x, got, mouse, due>>

\* SCC_Read, commands: reading forgets the selection.
ReadStatus ==
  \/ /\ selB' = NoReg
     /\ UNCHANGED <<irqh, selA, regs, datNum, x, got, mouse, due>>
  \/ /\ selA' = NoReg
     /\ UNCHANGED <<irqh, selB, regs, datNum, x, got, mouse, due>>

\* SCC_Read, data of port B: the bytes are read from the last to the first,
\* buttons, horizontal, vertical.
ReadData ==
  /\ datNum > 0
  /\ datNum' = datNum - 1
  /\ got' = (got + 1) % 3
  /\ due' = IF datNum = 2 THEN due - Scale * x ELSE due
  /\ UNCHANGED <<irqh, selA, selB, regs, x, mouse>>

\* Whether the bytes that wait interrupt.
Announces ==
  /\ regs.mie
  /\ (regs.int = "all" /\ datNum > 0) \/ (regs.int = "first" /\ datNum = 3)

\* SCC_IntCheck, several times a frame.
SCC_IntCheck ==
  /\ Announces
  /\ irqh' = IRQH_Int(irqh, 5, SCC_Int)
  /\ UNCHANGED <<selA, selB, regs, datNum, x, got, mouse, due>>

\* The core accepts level 5: SCC_Int withdraws it.
Acknowledge ==
  /\ irqh.line = 5
  /\ irqh' = AfterVector(IRQH_IRQCallBack(AcceptLine(irqh), 5))
  /\ UNCHANGED <<selA, selB, regs, datNum, x, got, mouse, due>>

\* Mouse_Event: the host reports a motion, which counts while it is captured.
Mouse_Event(dx) ==
  /\ mouse.on
  /\ mouse.dx + dx \in -MaxMotion..MaxMotion
  /\ mouse' = [mouse EXCEPT !.dx = @ + dx]
  /\ due' = due + dx
  /\ UNCHANGED <<irqh, selA, selB, regs, datNum, x, got>>

\* Mouse_StartCapture.
Mouse_StartCapture(on) ==
  /\ on # mouse.on
  /\ mouse' = [mouse EXCEPT !.on = on]
  /\ UNCHANGED <<irqh, selA, selB, regs, datNum, x, got, due>>

\* WinX68k_Reset: SCC_Init leaves the registers as they are, and IRQH_Init.
Reset ==
  /\ irqh' = IRQH_Init(irqh)
  /\ selA' = NoReg /\ selB' = NoReg
  /\ datNum' = 0 /\ x' = 0 /\ got' = 0
  /\ due' = mouse.dx
  /\ UNCHANGED <<regs, mouse>>

Next ==
  \/ \E data \in BytesA : WriteA(data)
  \/ \E data \in BytesB : WriteB(data)
  \/ ReadStatus \/ ReadData
  \/ SCC_IntCheck
  \/ Acknowledge
  \/ \E dx \in Moves : Mouse_Event(dx)
  \/ \E on \in BOOLEAN : Mouse_StartCapture(on)
  \/ Reset

Spec == Init /\ [][Next]_vars

-----------------------------------------------------------------------------
TypeOK ==
  /\ irqh \in Controller
  /\ {selA, selB} \subseteq 0..15 \cup {NoReg} /\ regs \in Registers
  /\ datNum \in 0..3 /\ x \in Low..High
  /\ got \in 0..2
  /\ mouse \in [dx : -MaxMotion..MaxMotion, on : BOOLEAN] /\ due \in Int

\* The guest reads whole packets, their bytes in order, however often it raises
\* RTS meanwhile ("only when there is no data", says the comment in SCC_Write):
\* what it has read of a packet and what is left make three bytes.
PacketsWhole == got + datNum \in {0, 3}

\* No motion is lost but what the conversion cuts off, and none is told twice:
\* what the host reported and the guest has not read is in the packet or waits
\* for the next one, whatever requests and captures come between.
MotionConserved ==
  due = mouse.dx + IF datNum >= 2 THEN Scale * x ELSE 0
=============================================================================
