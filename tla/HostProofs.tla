------------------------------ MODULE HostProofs ----------------------------
(***************************************************************************)
(* What the host's side hands to the machine and takes from it: the motion *)
(* of the mouse through the serial controller, the keys through the ring   *)
(* of the keyboard, and the sound through the ring of the audio device.    *)
(* The three do not touch each other; each part below has an inductive     *)
(* invariant of its own.                                                   *)
(***************************************************************************)
EXTENDS SCC, Keyboard, PCM, IRQHProofs, SequenceTheorems, WellFoundedInduction

(***************************************************************************)
(* The serial controller and the mouse.                                    *)
(***************************************************************************)

Wires == [l \in Level |-> IF l = 5 THEN {SCC_Int} ELSE {}]

\* The state without the controller.
PortType ==
  /\ {selA, selB} \subseteq 0..15 \cup {NoReg} /\ regs \in Registers
  /\ datNum \in 0..3 /\ x \in Low..High
  /\ got \in 0..2
  /\ mouse \in [dx : -MaxMotion..MaxMotion, on : BOOLEAN] /\ due \in Int

\* The port and the mouse.
Port == PortType /\ PacketsWhole /\ MotionConserved

IInv == Sound(irqh, Wires) /\ Port

-----------------------------------------------------------------------------
\* A packet's motion is one it can tell.
LEMMA ClippedType ==
  ASSUME NEW dx \in Int
  PROVE  Clipped(Truncated(dx)) \in Low..High
<1>1. Truncated(dx) \in Int
  <2>1. \A n \in Int : n \div Scale \in Int
    BY SCCAssumption
  <2>2. QED
    BY <2>1 DEF Truncated
<1>2. QED
  BY <1>1, SCCAssumption DEF Clipped

\* The motion is conserved whatever number of fractions a step is.
LEMMA ScaledType ==
  ASSUME NEW s \in Low..High
  PROVE  Scale * s \in Int /\ Scale * 0 = 0
BY SCCAssumption

\* The registers keep their type whatever the guest writes to them.
LEMMA StoredType ==
  ASSUME regs \in Registers, NEW reg, NEW data
  PROVE  Stored(reg, data) \in Registers
BY DEF Stored, Registers, Bit

LEMMA InitIInv == Init => IInv
<1> SUFFICES ASSUME Init PROVE IInv
  OBVIOUS
<1>1. irqh \in Controller /\ irqh.IRQ = {} /\ irqh.line = 0
  BY DEF Init, PowerOn, Controller
<1>2. Sound(irqh, Wires)
  BY <1>1, HighestPendingType DEF Sound
<1>3. PortType
  BY SCCAssumption DEF Init, PortType, Registers
<1>4. QED
  BY <1>2, <1>3 DEF Init, IInv, Port, PacketsWhole, MotionConserved

-----------------------------------------------------------------------------
(* The steps that leave the controller alone.                              *)

\* A packet is begun only when the former one is read.
LEMMA SampleKeeps ==
  ASSUME Port, NEW data, Sample(data), UNCHANGED got, regs' \in Registers,
         {selA', selB'} \subseteq 0..15 \cup {NoReg}
  PROVE  Port'
<1>1. mouse.dx \in Int /\ due \in Int /\ mouse.dx \in -MaxMotion..MaxMotion
  BY SCCAssumption DEF Port, PortType
<1>2. CASE UNCHANGED <<datNum, x, mouse, due>>
  BY <1>2 DEF Port, PortType, PacketsWhole, MotionConserved
<1>3. CASE /\ datNum = 0 /\ datNum' = 3 /\ mouse.on
           /\ mouse' = [mouse EXCEPT !.dx = 0]
           /\ x' = Clipped(Truncated(mouse.dx))
           /\ due' = due - (mouse.dx - Scale * x')
  <2>1. x' \in Low..High /\ Scale * x' \in Int
    BY <1>1, <1>3, ClippedType, ScaledType
  <2>2. due = mouse.dx /\ due' = Scale * x' /\ mouse'.dx = 0
    BY <1>1, <1>3, <2>1 DEF Port, PortType, MotionConserved
  <2>3. MotionConserved'
    BY <1>3, <2>1, <2>2 DEF MotionConserved
  <2>4. PacketsWhole'
    BY <1>3 DEF Port, PortType, PacketsWhole
  <2>5. PortType'
    BY <1>3, <2>1, <2>2, SCCAssumption DEF Port, PortType
  <2>6. QED
    BY <2>3, <2>4, <2>5 DEF Port
<1>4. CASE datNum = 0 /\ datNum' = 3 /\ x' = 0 /\ UNCHANGED <<mouse, due>>
  <2>1. x' \in Low..High /\ Scale * x' = 0
    BY <1>4, SCCAssumption
  <2>2. MotionConserved'
    BY <1>1, <1>4, <2>1 DEF Port, MotionConserved
  <2>3. QED
    BY <1>4, <2>1, <2>2 DEF Port, PortType, PacketsWhole
<1>5. QED
  BY <1>2, <1>3, <1>4 DEF Sample

LEMMA WriteKeeps ==
  ASSUME Port, NEW data \in 0..255, WriteA(data) \/ WriteB(data)
  PROVE  Port'
<1>1. data % 16 \in 0..15
  OBVIOUS
<1>2. CASE WriteA(data)
  <2>1. regs' \in Registers
    BY <1>2, StoredType DEF WriteA, Port, PortType
  <2>2. QED
    BY <1>1, <1>2, <2>1 DEF WriteA, Port, PortType, PacketsWhole, MotionConserved
<1>3. CASE WriteB(data)
  <2>1. regs' \in Registers
    BY <1>3, StoredType DEF WriteB, Port, PortType
  <2>2. {selA', selB'} \subseteq 0..15 \cup {NoReg} /\ UNCHANGED got
    BY <1>3 DEF WriteB, Port, PortType
  <2>3. CASE Sample(data)
    BY <2>1, <2>2, <2>3, SampleKeeps
  <2>4. CASE UNCHANGED <<datNum, x, mouse, due>>
    BY <2>1, <2>2, <2>4 DEF Port, PortType, PacketsWhole, MotionConserved
  <2>5. QED
    BY <1>3, <2>3, <2>4 DEF WriteB
<1>4. QED
  BY <1>2, <1>3

\* The bytes are read in order, and the motion is told with the second one.
LEMMA ReadDataKeeps ==
  ASSUME Port, ReadData
  PROVE  Port'
<1>1. Scale * x \in Int
  BY ScaledType DEF Port, PortType
<1>2. datNum' = datNum - 1 /\ datNum \in 1..3 /\ got + datNum = 3
  BY DEF ReadData, Port, PortType, PacketsWhole
<1>3. got' \in 0..2 /\ got' + datNum' \in {0, 3}
  BY <1>2 DEF ReadData, Port, PortType
<1>4. MotionConserved'
  <2>1. CASE datNum = 2
    BY <1>1, <1>2, <2>1, SCCAssumption DEF ReadData, Port, PortType, MotionConserved
  <2>2. CASE datNum # 2
    BY <1>1, <1>2, <2>2 DEF ReadData, Port, PortType, MotionConserved
  <2>3. QED
    BY <2>1, <2>2
<1>5. due' \in Int
  BY <1>1 DEF ReadData, Port, PortType
<1>6. QED
  BY <1>2, <1>3, <1>4, <1>5 DEF ReadData, Port, PortType, PacketsWhole

LEMMA MouseKeeps ==
  ASSUME Port,
         \/ \E dx \in Moves : Mouse_Event(dx)
         \/ \E on \in BOOLEAN : Mouse_StartCapture(on)
  PROVE  Port' /\ UNCHANGED irqh
<1>1. Scale * x \in Int
  BY ScaledType DEF Port, PortType
<1>2. ASSUME NEW dx \in Moves, Mouse_Event(dx)
      PROVE  Port' /\ UNCHANGED irqh
  <2>1. dx \in Int /\ mouse.dx \in Int /\ due \in Int
    BY SCCAssumption DEF Port, PortType
  <2>2. /\ mouse'.dx = mouse.dx + dx /\ due' = due + dx
        /\ mouse' \in [dx : -MaxMotion..MaxMotion, on : BOOLEAN]
    BY <1>2, <2>1 DEF Mouse_Event, Port, PortType
  <2>3. MotionConserved'
    BY <1>1, <1>2, <2>1, <2>2 DEF Mouse_Event, Port, MotionConserved
  <2>4. QED
    BY <1>2, <2>1, <2>2, <2>3 DEF Mouse_Event, Port, PortType, PacketsWhole
<1>3. ASSUME NEW on \in BOOLEAN, Mouse_StartCapture(on)
      PROVE  Port' /\ UNCHANGED irqh
  <2>1. mouse'.dx = mouse.dx /\ mouse' \in [dx : -MaxMotion..MaxMotion, on : BOOLEAN]
    BY <1>3 DEF Mouse_StartCapture, Port, PortType
  <2>2. QED
    BY <1>3, <2>1 DEF Mouse_StartCapture, Port, PortType, PacketsWhole, MotionConserved
<1>4. QED
  BY <1>2, <1>3

LEMMA ResetKeeps ==
  ASSUME Port, Reset
  PROVE  Port'
<1>1. mouse.dx \in Int
  BY SCCAssumption DEF Port, PortType
<1>2. QED
  BY <1>1, SCCAssumption DEF Reset, Port, PortType, PacketsWhole, MotionConserved

-----------------------------------------------------------------------------
LEMMA NextIInv == IInv /\ [Next]_vars => IInv'
<1> SUFFICES ASSUME IInv, [Next]_vars PROVE IInv'
  OBVIOUS
<1> USE DEF IInv
<1>0. /\ 5 \in Level /\ SCC_Int \in Handler /\ SCC_Int \in Wires[5]
      /\ BytesA \cup BytesB \subseteq 0..255
  BY SCCAssumption DEF Wires
<1>1. ASSUME NEW data \in BytesA, WriteA(data)
      PROVE  IInv'
  BY <1>0, <1>1, WriteKeeps DEF WriteA
<1>2. ASSUME NEW data \in BytesB, WriteB(data)
      PROVE  IInv'
  BY <1>0, <1>2, WriteKeeps DEF WriteB
<1>3. CASE ReadStatus
  BY <1>3 DEF ReadStatus, Port, PortType, PacketsWhole, MotionConserved
<1>4. CASE ReadData
  BY <1>4, ReadDataKeeps DEF ReadData
<1>5. CASE SCC_IntCheck
  <2>1. Sound(irqh', Wires)
    BY <1>0, <1>5, IntSound DEF SCC_IntCheck
  <2>2. Port'
    BY <1>5 DEF SCC_IntCheck, Port, PortType, PacketsWhole, MotionConserved
  <2>3. QED
    BY <2>1, <2>2
<1>6. CASE Acknowledge
  <2>1. /\ AcceptLine(irqh) \in Controller
        /\ \A k \in AcceptLine(irqh).IRQ : AcceptLine(irqh).CallBack[k] \in Wires[k]
    BY AcceptLineKeeps DEF Sound
  <2>2. Sound(IRQH_IRQCallBack(AcceptLine(irqh), 5), Wires)
    BY <1>0, <2>1, CallBackSound
  <2>3. Sound(irqh', Wires)
    BY <1>6, <2>2, AfterVectorSound DEF Acknowledge
  <2>4. Port'
    BY <1>6 DEF Acknowledge, Port, PortType, PacketsWhole, MotionConserved
  <2>5. QED
    BY <2>3, <2>4
<1>7. CASE \/ \E dx \in Moves : Mouse_Event(dx)
           \/ \E on \in BOOLEAN : Mouse_StartCapture(on)
  BY <1>7, MouseKeeps
<1>8. CASE Reset
  <2>1. Sound(irqh', Wires)
    BY <1>8, ResetSound DEF Reset, Sound
  <2>2. QED
    BY <1>8, <2>1, ResetKeeps
<1>9. CASE UNCHANGED vars
  BY <1>9 DEF vars, Port, PortType, PacketsWhole, MotionConserved
<1>10. QED
  BY <1>1, <1>2, <1>3, <1>4, <1>5, <1>6, <1>7, <1>8, <1>9 DEF Next

LEMMA Invariance == Spec => []IInv
BY InitIInv, NextIInv, PTL DEF Spec

\* The guest reads whole packets however it raises RTS and whatever bytes it
\* writes (SCC_Write's test for data still unread).
THEOREM PacketsAreWhole == Spec => []PacketsWhole
<1>1. IInv => PacketsWhole
  BY DEF IInv, Port
<1>2. QED
  BY <1>1, Invariance, PTL

\* No motion is lost but what the conversion cuts off, none is told twice, for
\* every scale and range (Mouse_SetData and SCC_Read).
THEOREM MotionIsConserved == Spec => []MotionConserved
<1>1. IInv => MotionConserved
  BY DEF IInv, Port
<1>2. QED
  BY <1>1, Invariance, PTL

\* Type correctness of the mouse port.
THEOREM TypeCorrect == Spec => []TypeOK
<1>1. IInv => TypeOK
  BY DEF IInv, Port, PortType, Sound, TypeOK
<1>2. QED
  BY <1>1, Invariance, PTL

(***************************************************************************)
(* The keyboard.                                                           *)
(***************************************************************************)
-----------------------------------------------------------------------------
(* The ring buffer of the keyboard as a sequence of events.                *)

\* Indexes wrap once at most.
LEMMA Wrap ==
  /\ KeyBufSize \in Nat /\ KeyBufSize > 1
  /\ \A a \in 0..2 * KeyBufSize - 1 :
       a % KeyBufSize = IF a < KeyBufSize THEN a ELSE a - KeyBufSize
  /\ \A a \in 1 - KeyBufSize..-1 : a % KeyBufSize = a + KeyBufSize
<1> DEFINE n == KeyBufSize
<1>1. n \in Nat /\ n > 1
  BY KeyboardAssumption
<1>2. ASSUME NEW a \in 0..2 * n - 1
      PROVE  a % n = IF a < n THEN a ELSE a - n
  BY <1>1, <1>2
<1>3. ASSUME NEW a \in 1 - n..-1
      PROVE  a % n = a + n
  BY <1>1, <1>3
<1> QED
  BY <1>1, <1>2, <1>3

\* The number of the slots from a reader's to a writer's pointer, and the slot
\* of the i-th of them.
Between(rp, wp) == (wp - rp) % KeyBufSize
At(rp, i) == (rp + i - 1) % KeyBufSize

LEMMA Slots ==
  ASSUME NEW rp \in Slot, NEW wp \in Slot
  PROVE  /\ KeyBufSize \in Nat /\ KeyBufSize > 1
         /\ Between(rp, wp) = IF wp >= rp THEN wp - rp ELSE wp - rp + KeyBufSize
         /\ Between(rp, wp) \in 0..KeyBufSize - 1
         /\ (wp + 1) % KeyBufSize = IF wp + 1 = KeyBufSize THEN 0 ELSE wp + 1
         /\ \A i \in 1..KeyBufSize :
              At(rp, i) = IF rp + i - 1 < KeyBufSize THEN rp + i - 1 ELSE rp + i - 1 - KeyBufSize
<1>1. KeyBufSize \in Nat /\ KeyBufSize > 1 /\ rp \in 0..KeyBufSize - 1 /\ wp \in 0..KeyBufSize - 1
  BY Wrap DEF Slot
<1>2. Between(rp, wp) = IF wp >= rp THEN wp - rp ELSE wp - rp + KeyBufSize
  <2>1. CASE wp >= rp
    <3>1. wp - rp \in 0..2 * KeyBufSize - 1 /\ wp - rp < KeyBufSize
      BY <1>1, <2>1
    <3> QED
      BY <2>1, <3>1, Wrap DEF Between
  <2>2. CASE ~ (wp >= rp)
    <3>1. wp - rp \in 1 - KeyBufSize..-1
      BY <1>1, <2>2
    <3> QED
      BY <2>2, <3>1, Wrap DEF Between
  <2> QED
    BY <2>1, <2>2
<1>3. Between(rp, wp) \in 0..KeyBufSize - 1
  BY <1>1, <1>2
<1>4. (wp + 1) % KeyBufSize = IF wp + 1 = KeyBufSize THEN 0 ELSE wp + 1
  <2>1. wp + 1 \in 0..2 * KeyBufSize - 1
    BY <1>1
  <2> QED
    BY <1>1, <2>1, Wrap
<1>5. ASSUME NEW i \in 1..KeyBufSize
      PROVE  At(rp, i) = IF rp + i - 1 < KeyBufSize THEN rp + i - 1 ELSE rp + i - 1 - KeyBufSize
  <2> DEFINE a == rp + i - 1
  <2>1. a \in 0..2 * KeyBufSize - 1 /\ At(rp, i) = a % KeyBufSize
    BY <1>1 DEF At
  <2> HIDE DEF a
  <2>2. At(rp, i) = IF a < KeyBufSize THEN a ELSE a - KeyBufSize
    BY <2>1, Wrap
  <2> QED
    BY <1>1, <2>2 DEF a
<1> QED
  BY <1>1, <1>2, <1>3, <1>4, <1>5

\* The events from a reader's to a writer's pointer.
Content(buf, rp, wp) == [i \in 1..Between(rp, wp) |-> buf[At(rp, i)]]

LEMMA BufferedIsContent == Buffered = Content(KeyBuf, KeyBufRP, KeyBufWP) /\ Count = Between(KeyBufRP, KeyBufWP)
BY DEF Buffered, Count, Content, Between, At

\* An event is put behind the others, where there is a slot for it.
LEMMA ContentPut ==
  ASSUME NEW rp \in Slot, NEW wp \in Slot, NEW buf \in [Slot -> Event \cup {NoKey}],
         NEW e \in Event, Content(buf, rp, wp) \in Seq(Event),
         Between(rp, wp) < KeyBufSize - 1
  PROVE  LET newwp == (wp + 1) % KeyBufSize
         IN  /\ newwp \in Slot
             /\ Between(rp, newwp) = Between(rp, wp) + 1
             /\ Content([buf EXCEPT ![wp] = e], rp, newwp) = Append(Content(buf, rp, wp), e)
<1> DEFINE newwp == (wp + 1) % KeyBufSize
           c == Between(rp, wp)
           old == Content(buf, rp, wp)
           new == [buf EXCEPT ![wp] = e]
<1>1. /\ KeyBufSize \in Nat /\ KeyBufSize > 1 /\ rp \in 0..KeyBufSize - 1 /\ wp \in 0..KeyBufSize - 1
      /\ c = IF wp >= rp THEN wp - rp ELSE wp - rp + KeyBufSize
      /\ c \in 0..KeyBufSize - 1
      /\ newwp = IF wp + 1 = KeyBufSize THEN 0 ELSE wp + 1
      /\ \A i \in 1..KeyBufSize :
           At(rp, i) = IF rp + i - 1 < KeyBufSize THEN rp + i - 1 ELSE rp + i - 1 - KeyBufSize
  BY Slots DEF Slot
<1>2. newwp \in Slot
  BY <1>1 DEF Slot
<1> HIDE DEF newwp, c
<1>3. Between(rp, newwp) = IF newwp >= rp THEN newwp - rp ELSE newwp - rp + KeyBufSize
  BY <1>2, Slots
<1>4. Between(rp, newwp) = c + 1
  BY <1>1, <1>3 DEF c
<1>5. At(rp, c + 1) = wp /\ \A i \in 1..c : At(rp, i) # wp /\ At(rp, i) \in Slot
  BY <1>1 DEF c, Slot
<1>6. Len(old) = c /\ \A i \in 1..c : old[i] = buf[At(rp, i)]
  BY <1>1 DEF Content, c
<1>7. new[wp] = e /\ \A s \in Slot : s # wp => new[s] = buf[s]
  BY <1>1 DEF Slot
<1>8. /\ DOMAIN Append(old, e) = 1..c + 1
      /\ Append(old, e)[c + 1] = e /\ \A i \in 1..c : Append(old, e)[i] = old[i]
  <2> HIDE DEF old
  <2> QED
    BY <1>1, <1>6, AppendProperties
<1>9. Content(new, rp, newwp) = [i \in 1..c + 1 |-> new[At(rp, i)]]
  BY <1>4 DEF Content
<1>10. ASSUME NEW i \in 1..c + 1
       PROVE  new[At(rp, i)] = Append(old, e)[i]
  <2> HIDE DEF new, old
  <2>1. i = c + 1 \/ i \in 1..c
    BY <1>1
  <2> QED
    BY <1>5, <1>6, <1>7, <1>8, <2>1
<1>11. Content(new, rp, newwp) = Append(old, e)
  <2>1. Append(old, e) \in Seq(Event) /\ Len(Append(old, e)) = c + 1
    <3> HIDE DEF old
    <3>1. old \in Seq(Event)
      BY DEF old
    <3> QED
      BY <1>6, <3>1, AppendProperties
  <2>2. Content(new, rp, newwp) = [i \in 1..c + 1 |-> Append(old, e)[i]]
    BY <1>9, <1>10
  <2>3. \A q \in Seq(Event) : q = [i \in 1..Len(q) |-> q[i]]
    OBVIOUS
  <2> HIDE DEF old, new
  <2> QED
    BY <2>1, <2>2, <2>3
<1> QED
  BY <1>2, <1>4, <1>11 DEF newwp, c

\* The ring is empty when its pointers are equal; otherwise the reader's slot is
\* the first event, and the others are left without it.
LEMMA ContentTake ==
  ASSUME NEW rp \in Slot, NEW wp \in Slot, NEW buf,
         Content(buf, rp, wp) \in Seq(Event)
  PROVE  LET new == (rp + 1) % KeyBufSize
         IN  /\ new \in Slot
             /\ Len(Content(buf, rp, wp)) = Between(rp, wp)
             /\ rp = wp => Content(buf, rp, wp) = <<>>
             /\ rp # wp => /\ Content(buf, rp, wp) # <<>>
                           /\ buf[rp] = Head(Content(buf, rp, wp))
                           /\ Content(buf, new, wp) = Tail(Content(buf, rp, wp))
<1> DEFINE new == (rp + 1) % KeyBufSize
           c == Between(rp, wp)
           old == Content(buf, rp, wp)
<1>1. /\ KeyBufSize \in Nat /\ KeyBufSize > 1 /\ rp \in 0..KeyBufSize - 1 /\ wp \in 0..KeyBufSize - 1
      /\ c = IF wp >= rp THEN wp - rp ELSE wp - rp + KeyBufSize
      /\ c \in 0..KeyBufSize - 1
      /\ \A i \in 1..KeyBufSize :
           At(rp, i) = IF rp + i - 1 < KeyBufSize THEN rp + i - 1 ELSE rp + i - 1 - KeyBufSize
  BY Slots DEF Slot
<1>2. new = IF rp + 1 = KeyBufSize THEN 0 ELSE rp + 1
  BY Slots
<1>3. new \in Slot
  BY <1>1, <1>2 DEF Slot
<1> HIDE DEF new, c
<1>4. /\ Between(new, wp) = IF wp >= new THEN wp - new ELSE wp - new + KeyBufSize
      /\ \A i \in 1..KeyBufSize :
           At(new, i) = IF new + i - 1 < KeyBufSize THEN new + i - 1 ELSE new + i - 1 - KeyBufSize
  BY <1>3, Slots
<1>5. Len(old) = c /\ \A i \in 1..c : old[i] = buf[At(rp, i)]
  BY <1>1 DEF Content, c
<1>6. ASSUME rp = wp
      PROVE  old = <<>>
  <2>1. c = 0
    BY <1>1, <1>6
  <2> HIDE DEF old
  <2>2. old \in Seq(Event)
    BY DEF old
  <2> QED
    BY <1>5, <2>1, <2>2, EmptySeq
<1>7. ASSUME rp # wp
      PROVE  /\ old # <<>> /\ buf[rp] = Head(old)
             /\ Content(buf, new, wp) = Tail(old)
  <2>1. c > 0 /\ At(rp, 1) = rp /\ Between(new, wp) = c - 1
    <3>1. c > 0 /\ Between(new, wp) = c - 1
      <4> HIDE DEF old
      <4>1. c > 0
        BY <1>1, <1>7
      <4>2. Between(new, wp) = IF wp >= new THEN wp - new ELSE wp - new + KeyBufSize
        BY <1>4
      <4>3. CASE rp + 1 = KeyBufSize
        BY <1>1, <1>2, <1>7, <4>2, <4>3
      <4>4. CASE rp + 1 # KeyBufSize
        BY <1>1, <1>2, <1>7, <4>2, <4>4
      <4> QED
        BY <4>1, <4>3, <4>4
    <3>2. 1 \in 1..KeyBufSize
      BY <1>1
    <3>3. At(rp, 1) = rp
      BY <1>1, <3>2
    <3> QED
      BY <3>1, <3>3
  <2>2. \A i \in 1..c - 1 : At(new, i) = At(rp, i + 1)
    <3> SUFFICES ASSUME NEW i \in 1..c - 1
                 PROVE  At(new, i) = At(rp, i + 1)
      OBVIOUS
    <3>1. i \in 1..KeyBufSize /\ i + 1 \in 1..KeyBufSize /\ i + 1 \in 1..c
      BY <1>1
    <3>2. At(new, i) = IF new + i - 1 < KeyBufSize THEN new + i - 1 ELSE new + i - 1 - KeyBufSize
      BY <1>4, <3>1
    <3>3. At(rp, i + 1) = IF rp + (i + 1) - 1 < KeyBufSize THEN rp + (i + 1) - 1
                          ELSE rp + (i + 1) - 1 - KeyBufSize
      BY <1>1, <3>1
    <3> QED
      BY <1>1, <1>2, <3>1, <3>2, <3>3
  <2> HIDE DEF old
  <2>3. old \in Seq(Event)
    BY DEF old
  <2>4. old # <<>> /\ Head(old) = old[1]
    BY <1>5, <2>1, <2>3
  <2>5. Tail(old) \in Seq(Event) /\ Len(Tail(old)) = c - 1 /\ \A i \in 1..c - 1 : Tail(old)[i] = old[i + 1]
    BY <1>1, <1>5, <2>3, <2>4, HeadTailProperties
  <2>6. Content(buf, new, wp) = [i \in 1..c - 1 |-> buf[At(new, i)]]
    BY <2>1 DEF Content
  <2>7. \A i \in 1..c - 1 : buf[At(new, i)] = Tail(old)[i]
    <3> SUFFICES ASSUME NEW i \in 1..c - 1
                 PROVE  buf[At(new, i)] = Tail(old)[i]
      OBVIOUS
    <3>1. i + 1 \in 1..c
      BY <1>1
    <3> QED
      BY <1>5, <2>2, <2>5, <3>1
  <2>8. \A q \in Seq(Event) : q = [i \in 1..Len(q) |-> q[i]]
    OBVIOUS
  <2>9. Content(buf, new, wp) = [i \in 1..c - 1 |-> Tail(old)[i]]
    BY <2>6, <2>7
  <2>10. Content(buf, new, wp) = Tail(old)
    BY <2>5, <2>8, <2>9
  <2>11. 1 \in 1..c
    BY <1>1, <2>1
  <2> QED
    BY <1>5, <2>1, <2>4, <2>10, <2>11
<1> QED
  BY <1>3, <1>5, <1>6, <1>7 DEF new, c

-----------------------------------------------------------------------------
(* Finite sets of indexes have a greatest element.                         *)

Below == {p \in Nat \X Nat : p[1] < p[2]}

LEMMA BelowIsWellFounded == IsWellFoundedOn(Below, Nat)
BY NatLessThanWellFounded DEF OpToRel, Below

LEMMA Greatest ==
  ASSUME NEW n \in Nat, NEW T, T \subseteq 1..n, T # {}
  PROVE  \E m \in T : \A y \in T : y <= m
<1> DEFINE U == {n - i : i \in T}
<1>1. \A i \in T : n - i \in Nat
  OBVIOUS
<1>2. U \subseteq Nat /\ U # {}
  BY <1>1
<1>3. PICK u \in U : \A v \in U : ~ (<<v, u>> \in Below)
  BY <1>2, BelowIsWellFounded, WFMin
<1>4. \A v \in U : ~ (v < u)
  <2> SUFFICES ASSUME NEW v \in U
               PROVE  ~ (v < u)
    OBVIOUS
  <2>1. <<v, u>> \in Nat \X Nat /\ ~ (<<v, u>> \in Below) /\ <<v, u>>[1] = v /\ <<v, u>>[2] = u
    BY <1>2, <1>3
  <2> QED
    BY <2>1 DEF Below
<1>5. PICK m \in T : u = n - m
  BY <1>3
<1>6. ASSUME NEW y \in T
      PROVE  y <= m
  <2>1. n - y \in U
    BY <1>6
  <2>2. ~ (n - y < u)
    <3> HIDE DEF U
    <3> QED
      BY <1>4, <2>1
  <2>3. m \in Int /\ y \in Int
    OBVIOUS
  <2> QED
    BY <1>5, <2>2, <2>3
<1> QED
  BY <1>5, <1>6
-----------------------------------------------------------------------------
(* The shift state that events tell.                                       *)

\* The events with a shift key, and the last of them.
ShiftEvents(q) == {i \in DOMAIN q : q[i].code = SHIFT}
IsLast(q, i) == i \in ShiftEvents(q) /\ \A j \in ShiftEvents(q) : j <= i

\* What an event changes of the shift state the guest has been told.
TellShift(shift, e) == IF e.code = SHIFT THEN ~ e.up ELSE shift

LEMMA ShiftToldIs ==
  ASSUME NEW shift, NEW q \in Seq(Event)
  PROVE  /\ ShiftEvents(q) = {} => ShiftTold(shift, q) = shift
         /\ \A i : IsLast(q, i) => ShiftTold(shift, q) = ~ q[i].up
<1>1. ShiftEvents(q) = {} => ShiftTold(shift, q) = shift
  BY DEF ShiftEvents, ShiftTold
<1>2. ASSUME NEW i, IsLast(q, i)
      PROVE  ShiftTold(shift, q) = ~ q[i].up
  <2>1. ShiftEvents(q) \subseteq Int
    BY DEF ShiftEvents
  <2>2. Max(ShiftEvents(q)) = i
    BY <1>2, <2>1 DEF IsLast, Max
  <2> QED
    BY <1>2, <2>2 DEF ShiftTold, ShiftEvents, IsLast
<1> QED
  BY <1>1, <1>2

\* The last one exists: sequences are finite.
LEMMA LastExists ==
  ASSUME NEW q \in Seq(Event), ShiftEvents(q) # {}
  PROVE  \E i : IsLast(q, i)
<1>1. ShiftEvents(q) \subseteq 1..Len(q) /\ Len(q) \in Nat
  BY DEF ShiftEvents
<1>2. \E i \in ShiftEvents(q) : \A j \in ShiftEvents(q) : j <= i
  BY <1>1, Greatest
<1> QED
  BY <1>2 DEF IsLast

LEMMA ToldEmpty == \A shift : ShiftTold(shift, <<>>) = shift
<1> SUFFICES ASSUME NEW shift
             PROVE  ShiftTold(shift, <<>>) = shift
  OBVIOUS
<1>1. <<>> \in Seq(Event) /\ ShiftEvents(<<>>) = {}
  BY DEF ShiftEvents
<1> QED
  BY <1>1, ShiftToldIs

LEMMA ToldAppend ==
  ASSUME NEW shift, NEW q \in Seq(Event), NEW e \in Event
  PROVE  /\ Append(q, e) \in Seq(Event)
         /\ ShiftTold(shift, Append(q, e)) = TellShift(ShiftTold(shift, q), e)
<1> DEFINE r == Append(q, e)
<1>1. /\ r \in Seq(Event) /\ Len(r) = Len(q) + 1 /\ r[Len(q) + 1] = e
      /\ \A i \in 1..Len(q) : r[i] = q[i]
      /\ Len(q) \in Nat /\ DOMAIN q = 1..Len(q) /\ DOMAIN r = 1..Len(q) + 1
  BY AppendProperties, LenProperties
<1> HIDE DEF r
<1>2. CASE e.code = SHIFT
  <2>1. IsLast(r, Len(q) + 1)
    BY <1>1, <1>2 DEF IsLast, ShiftEvents
  <2>2. ShiftTold(shift, r) = ~ r[Len(q) + 1].up
    BY <1>1, <2>1, ShiftToldIs
  <2> QED
    BY <1>1, <1>2, <2>2 DEF TellShift, r
<1>3. CASE e.code # SHIFT
  <2>1. ShiftEvents(r) = ShiftEvents(q)
    BY <1>1, <1>3 DEF ShiftEvents
  <2>2. CASE ShiftEvents(q) = {}
    <3>1. ShiftTold(shift, q) = shift /\ ShiftTold(shift, r) = shift
      BY <1>1, <2>1, <2>2, ShiftToldIs
    <3> QED
      BY <1>3, <3>1 DEF TellShift, r
  <2>3. CASE ShiftEvents(q) # {}
    <3>1. PICK i : IsLast(q, i)
      BY <2>3, LastExists
    <3>2. IsLast(r, i) /\ i \in 1..Len(q)
      BY <1>1, <2>1, <3>1 DEF IsLast, ShiftEvents
    <3>3. ShiftTold(shift, r) = ~ r[i].up /\ ShiftTold(shift, q) = ~ q[i].up
      BY <1>1, <3>1, <3>2, ShiftToldIs
    <3> QED
      BY <1>1, <1>3, <3>2, <3>3 DEF TellShift, r
  <2> QED
    BY <2>2, <2>3
<1> QED
  BY <1>1, <1>2, <1>3 DEF r

LEMMA ToldFirst ==
  ASSUME NEW shift, NEW q \in Seq(Event), NEW e \in Event
  PROVE  /\ <<e>> \o q \in Seq(Event)
         /\ ShiftTold(shift, <<e>> \o q) = ShiftTold(TellShift(shift, e), q)
<1> DEFINE r == <<e>> \o q
           n == Len(q)
<1>1. /\ r \in Seq(Event) /\ Len(r) = n + 1 /\ r[1] = e
      /\ \A i \in 1..n : r[i + 1] = q[i]
      /\ n \in Nat /\ DOMAIN q = 1..n /\ DOMAIN r = 1..n + 1
  <2>1. <<e>> \in Seq(Event) /\ Len(<<e>>) = 1 /\ <<e>>[1] = e /\ n \in Nat /\ DOMAIN q = 1..n
    OBVIOUS
  <2>2. /\ r \in Seq(Event) /\ Len(r) = 1 + n
        /\ \A i \in 1..1 + n : r[i] = IF i <= 1 THEN <<e>>[i] ELSE q[i - 1]
    BY <2>1, ConcatProperties
  <2> HIDE DEF r, n
  <2>3. r[1] = e
    BY <2>1, <2>2
  <2>4. \A i \in 1..n : r[i + 1] = q[i]
    <3> SUFFICES ASSUME NEW i \in 1..n
                 PROVE  r[i + 1] = q[i]
      OBVIOUS
    <3>1. i + 1 \in 1..1 + n /\ ~ (i + 1 <= 1) /\ (i + 1) - 1 = i
      BY <2>1
    <3> QED
      BY <2>2, <3>1
  <2> QED
    BY <2>1, <2>2, <2>3, <2>4, LenProperties
<1> HIDE DEF r, n
<1>2. CASE ShiftEvents(q) = {}
  <2>1. ShiftTold(TellShift(shift, e), q) = TellShift(shift, e)
    BY <1>2, ShiftToldIs
  <2>2. CASE e.code = SHIFT
    <3>1. IsLast(r, 1)
      <4> SUFFICES ASSUME NEW j \in 1..n + 1, j # 1, r[j].code = SHIFT
                   PROVE  FALSE
        BY <1>1, <2>2 DEF IsLast, ShiftEvents
      <4>1. j - 1 \in 1..n /\ (j - 1) + 1 = j
        BY <1>1
      <4> QED
        BY <1>1, <1>2, <4>1 DEF ShiftEvents
    <3>2. ShiftTold(shift, r) = ~ r[1].up
      BY <1>1, <3>1, ShiftToldIs
    <3> QED
      BY <1>1, <2>1, <2>2, <3>2 DEF TellShift, r
  <2>3. CASE e.code # SHIFT
    <3>1. ShiftEvents(r) = {}
      <4> SUFFICES ASSUME NEW j \in 1..n + 1, r[j].code = SHIFT
                   PROVE  FALSE
        BY <1>1 DEF ShiftEvents
      <4>1. j # 1
        BY <1>1, <2>3
      <4>2. j - 1 \in 1..n /\ (j - 1) + 1 = j
        BY <1>1, <4>1
      <4> QED
        BY <1>1, <1>2, <4>2 DEF ShiftEvents
    <3> QED
      BY <1>1, <2>1, <2>3, <3>1, ShiftToldIs DEF TellShift, r
  <2> QED
    BY <2>2, <2>3
<1>3. CASE ShiftEvents(q) # {}
  <2>1. PICK i : IsLast(q, i)
    BY <1>3, LastExists
  <2>2. i \in 1..n /\ q[i].code = SHIFT /\ \A j \in 1..n : q[j].code = SHIFT => j <= i
    BY <1>1, <2>1 DEF IsLast, ShiftEvents
  <2>3. IsLast(r, i + 1)
    <3>1. i + 1 \in 1..n + 1 /\ r[i + 1].code = SHIFT
      BY <1>1, <2>2
    <3>2. ASSUME NEW j \in 1..n + 1, r[j].code = SHIFT
          PROVE  j <= i + 1
      <4>1. CASE j = 1
        BY <2>2, <4>1
      <4>2. CASE j # 1
        <5>1. j - 1 \in 1..n /\ (j - 1) + 1 = j
          BY <1>1, <4>2
        <5>2. j - 1 <= i
          BY <1>1, <2>2, <3>2, <5>1
        <5> QED
          BY <2>2, <5>1, <5>2
      <4> QED
        BY <4>1, <4>2
    <3> QED
      BY <1>1, <3>1, <3>2 DEF IsLast, ShiftEvents
  <2>4. /\ ShiftTold(shift, r) = ~ r[i + 1].up
        /\ ShiftTold(TellShift(shift, e), q) = ~ q[i].up
    BY <1>1, <2>1, <2>3, ShiftToldIs
  <2> QED
    BY <1>1, <2>2, <2>4 DEF r
<1> QED
  BY <1>1, <1>2, <1>3 DEF r

-----------------------------------------------------------------------------
(* A queue of bounded length.                                              *)

Capacity == KeyBufSize - 1

\* What the queue of bounded length keeps of a sequence, and one more event.
Fit(s) == SubSeq(s, 1, IF Len(s) < Capacity THEN Len(s) ELSE Capacity)
Put(q, e) == IF Len(q) < Capacity THEN Append(q, e) ELSE q

LEMMA FitIs ==
  ASSUME NEW s \in Seq(Event)
  PROVE  /\ Fit(s) \in Seq(Event) /\ Len(Fit(s)) <= Capacity
         /\ Len(s) <= Capacity => Fit(s) = s
         /\ Len(s) >= Capacity => Len(Fit(s)) = Capacity
         /\ \A i \in 1..Len(Fit(s)) : Fit(s)[i] = s[i]
<1> DEFINE m == IF Len(s) < Capacity THEN Len(s) ELSE Capacity
<1>1. Capacity \in Nat \ {0} /\ Len(s) \in Nat
  BY Wrap DEF Capacity
<1>2. m \in Nat /\ m <= Len(s) /\ m <= Capacity /\ 1 \in 1..Len(s) + 1 /\ m \in 0..Len(s)
  BY <1>1
<1>3. Fit(s) \in Seq(Event) /\ Len(Fit(s)) = m /\ \A i \in 1..m : Fit(s)[i] = s[i]
  <2> HIDE DEF m
  <2>1. /\ SubSeq(s, 1, m) \in Seq(Event)
        /\ Len(SubSeq(s, 1, m)) = IF 1 <= m THEN m - 1 + 1 ELSE 0
        /\ \A i \in 1..m - 1 + 1 : SubSeq(s, 1, m)[i] = s[1 + i - 1]
    BY <1>1, <1>2, SubSeqProperties
  <2>2. Fit(s) = SubSeq(s, 1, m)
    BY DEF Fit, m
  <2>3. m - 1 + 1 = m /\ \A i \in 1..m : 1 + i - 1 = i
    BY <1>2
  <2>4. \A i \in 1..m : SubSeq(s, 1, m)[i] = s[i]
    BY <2>1, <2>3, Zenon
  <2> QED
    BY <1>2, <2>1, <2>2, <2>4
<1>4. Len(s) <= Capacity => m = Len(s)
  BY <1>1
<1>5. Len(s) >= Capacity => m = Capacity
  BY <1>1
<1> HIDE DEF m
<1>6. Len(s) <= Capacity => Fit(s) = s
  BY <1>3, <1>4, SeqEqual
<1> QED
  BY <1>2, <1>3, <1>5, <1>6

\* A queue takes an event as if it had room for all of them.
LEMMA PutFits ==
  ASSUME NEW s \in Seq(Event), NEW e \in Event
  PROVE  Append(s, e) \in Seq(Event) /\ Put(Fit(s), e) = Fit(Append(s, e))
<1>1. Capacity \in Nat \ {0} /\ Len(s) \in Nat
  BY Wrap DEF Capacity
<1>2. /\ Append(s, e) \in Seq(Event) /\ Len(Append(s, e)) = Len(s) + 1
      /\ \A i \in 1..Len(s) : Append(s, e)[i] = s[i]
  BY AppendProperties
<1>3. CASE Len(s) < Capacity
  <2>1. Fit(s) = s /\ Len(s) + 1 <= Capacity
    BY <1>1, <1>3, FitIs
  <2>2. Fit(Append(s, e)) = Append(s, e)
    BY <1>2, <2>1, FitIs
  <2> QED
    BY <1>2, <1>3, <2>1, <2>2 DEF Put
<1>4. CASE ~ (Len(s) < Capacity)
  <2>1. Len(s) >= Capacity /\ Len(s) + 1 >= Capacity
    BY <1>1, <1>4
  <2>2. /\ Fit(s) \in Seq(Event) /\ Len(Fit(s)) = Capacity
        /\ \A i \in 1..Capacity : Fit(s)[i] = s[i]
    BY <2>1, FitIs
  <2>3. /\ Fit(Append(s, e)) \in Seq(Event) /\ Len(Fit(Append(s, e))) = Capacity
        /\ \A i \in 1..Capacity : Fit(Append(s, e))[i] = Append(s, e)[i]
    BY <1>2, <2>1, FitIs
  <2>4. \A i \in 1..Capacity : i \in 1..Len(s)
    BY <1>1, <2>1
  <2>5. Fit(s) = Fit(Append(s, e))
    BY <1>2, <2>2, <2>3, <2>4, SeqEqual
  <2> QED
    BY <1>1, <1>2, <2>2, <2>5 DEF Put
<1> QED
  BY <1>3, <1>4

\* One, two and three events in a row.
LEMMA PutAll ==
  ASSUME NEW q \in Seq(Event), Len(q) <= Capacity,
         NEW a \in Event, NEW b \in Event, NEW c \in Event
  PROVE  /\ Put(q, a) = Fit(q \o <<a>>)
         /\ Put(Put(q, a), c) = Fit(q \o <<a, c>>)
         /\ Put(Put(Put(q, a), b), c) = Fit(q \o <<a, b, c>>)
<1>1. Fit(q) = q
  BY FitIs
<1>2. /\ Append(q, a) \in Seq(Event) /\ Append(Append(q, a), b) \in Seq(Event)
      /\ Append(Append(q, a), c) \in Seq(Event)
  BY PutFits
<1>3. Put(q, a) = Fit(Append(q, a))
  BY <1>1, PutFits
<1>4. Put(Fit(Append(q, a)), c) = Fit(Append(Append(q, a), c))
      /\ Put(Fit(Append(q, a)), b) = Fit(Append(Append(q, a), b))
  BY <1>2, PutFits
<1>5. Put(Fit(Append(Append(q, a), b)), c) = Fit(Append(Append(Append(q, a), b), c))
  BY <1>2, PutFits
<1>6. Append(q, a) = q \o <<a>>
  OBVIOUS
<1>7. Append(Append(q, a), c) = q \o <<a, c>>
  OBVIOUS
<1>8. Append(Append(Append(q, a), b), c) = q \o <<a, b, c>>
  OBVIOUS
<1> QED
  BY <1>3, <1>4, <1>5, <1>6, <1>7, <1>8

-----------------------------------------------------------------------------
(* What a host key sends.                                                  *)

\* A ring that is written to, and what it holds for the reader.
Held(r) == Content(r.buf, KeyBufRP, r.wp)
Rings(r) ==
  /\ r \in [buf : [Slot -> Event \cup {NoKey}], wp : Slot, lost : BOOLEAN]
  /\ Held(r) \in Seq(Event) /\ Len(Held(r)) <= Capacity

Offered == [code : Code \cup {NC}, up : BOOLEAN]

LEMMA SendEffect ==
  ASSUME KeyBufRP \in Slot, NEW r, Rings(r), NEW e \in Offered
  PROVE  LET w == send_keycode(r, e)
         IN  /\ Rings(w)
             /\ e.code = NC => w = r
             /\ e.code # NC => /\ e \in Event
                               /\ Held(w) = Put(Held(r), e)
                               /\ ~ w.lost => ~ r.lost /\ Held(w) = Append(Held(r), e)
<1> DEFINE w == send_keycode(r, e)
           newwp == (r.wp + 1) % KeyBufSize
           q == Held(r)
<1>1. /\ r.buf \in [Slot -> Event \cup {NoKey}] /\ r.wp \in Slot /\ r.lost \in BOOLEAN
      /\ q \in Seq(Event)
      /\ r \in [buf : [Slot -> Event \cup {NoKey}], wp : Slot, lost : BOOLEAN]
  BY DEF Rings
<1>2. Len(q) = Between(KeyBufRP, r.wp) /\ Len(q) \in Nat
  <2>1. KeyBufRP \in Slot /\ r.wp \in Slot /\ Content(r.buf, KeyBufRP, r.wp) \in Seq(Event)
    BY <1>1 DEF Held
  <2>2. Len(Content(r.buf, KeyBufRP, r.wp)) = Between(KeyBufRP, r.wp)
    BY <2>1, ContentTake
  <2> QED
    BY <1>1, <2>2 DEF Held
<1>3. newwp = KeyBufRP <=> ~ (Len(q) < Capacity)
  <2>1. /\ KeyBufSize \in Nat /\ KeyBufSize > 1 /\ KeyBufRP \in 0..KeyBufSize - 1
        /\ r.wp \in 0..KeyBufSize - 1
        /\ Between(KeyBufRP, r.wp) = IF r.wp >= KeyBufRP THEN r.wp - KeyBufRP
                                     ELSE r.wp - KeyBufRP + KeyBufSize
        /\ newwp = IF r.wp + 1 = KeyBufSize THEN 0 ELSE r.wp + 1
    BY <1>1, Slots DEF Slot
  <2> HIDE DEF newwp, q
  <2> QED
    BY <1>2, <2>1 DEF Capacity
<1>4. CASE e.code = NC
  BY <1>4 DEF send_keycode
<1>5. CASE e.code # NC /\ newwp = KeyBufRP
  <2>1. w = [r EXCEPT !.lost = TRUE] /\ e \in Event
    BY <1>5 DEF send_keycode, Offered, Event
  <2>2. w.buf = r.buf /\ w.wp = r.wp /\ w.lost
        /\ w \in [buf : [Slot -> Event \cup {NoKey}], wp : Slot, lost : BOOLEAN]
    BY <1>1, <2>1
  <2>3. Held(w) = q
    BY <2>2 DEF Held
  <2>4. Put(q, e) = q
    BY <1>3, <1>5 DEF Put
  <2> QED
    BY <1>5, <2>1, <2>2, <2>3, <2>4 DEF Rings
<1>6. CASE e.code # NC /\ newwp # KeyBufRP
  <2>1. w = [r EXCEPT !.buf[r.wp] = e, !.wp = newwp] /\ e \in Event
    BY <1>6 DEF send_keycode, Offered, Event
  <2>2. w.buf = [r.buf EXCEPT ![r.wp] = e] /\ w.wp = newwp /\ w.lost = r.lost
    BY <1>1, <2>1
  <2>3. Between(KeyBufRP, r.wp) < KeyBufSize - 1
    BY <1>2, <1>3, <1>6 DEF Capacity
  <2>4. newwp \in Slot /\ Content(w.buf, KeyBufRP, w.wp) = Append(q, e)
    <3>1. KeyBufRP \in Slot /\ r.wp \in Slot /\ Content(r.buf, KeyBufRP, r.wp) \in Seq(Event)
      BY <1>1 DEF Held
    <3>2. /\ newwp \in Slot
          /\ Content([r.buf EXCEPT ![r.wp] = e], KeyBufRP, newwp)
               = Append(Content(r.buf, KeyBufRP, r.wp), e)
      <4> HIDE DEF w
      <4> QED
        BY <1>1, <2>1, <2>3, <3>1, ContentPut
    <3> QED
      BY <2>2, <3>2 DEF Held
  <2>5. Held(w) = Append(q, e)
    BY <2>4 DEF Held
  <2>6. Put(q, e) = Append(q, e)
    BY <1>3, <1>6 DEF Put
  <2>7. Held(w) \in Seq(Event) /\ Len(Held(w)) <= Capacity
    <3> HIDE DEF q, w, newwp
    <3>1. Len(q) < Capacity /\ Capacity \in Nat
      BY <1>3, <1>6, Wrap DEF Capacity
    <3>2. Len(Append(q, e)) = Len(q) + 1 /\ Append(q, e) \in Seq(Event)
      BY <1>1, <2>1, AppendProperties
    <3> QED
      BY <1>2, <2>5, <3>1, <3>2
  <2>8. w \in [buf : [Slot -> Event \cup {NoKey}], wp : Slot, lost : BOOLEAN]
    <3>1. [r.buf EXCEPT ![r.wp] = e] \in [Slot -> Event \cup {NoKey}]
      BY <1>1, <2>1
    <3>2. w = [[r EXCEPT !.buf = [r.buf EXCEPT ![r.wp] = e]] EXCEPT !.wp = newwp]
      BY <1>1, <2>1
    <3> HIDE DEF w, newwp
    <3> QED
      BY <1>1, <2>4, <3>1, <3>2
  <2> QED
    BY <1>6, <2>1, <2>2, <2>5, <2>6, <2>7, <2>8 DEF Rings
<1> QED
  BY <1>4, <1>5, <1>6

-----------------------------------------------------------------------------
(* The inductive invariant.                                                *)

\* The shift state the guest has when it has read the register.
Base == IF KeyIntFlag = 1 THEN TellShift(guestShift, LastKey) ELSE guestShift

\* The register has been told if it has been read.
RegisterTold ==
  KeyIntFlag = 0 /\ LastKey # NoKey /\ LastKey.code = SHIFT => guestShift = ~ LastKey.up

\* Only an event in the register can be unread; the events behind it lead from
\* its shift state to that of the host.
ShiftIsTold == ~ lost => RegisterTold /\ ShiftTold(Base, Buffered) = (shiftdown = 1)

KeyIInv ==
  /\ KeyTypeOK
  /\ Buffered \in Seq(Event)
  /\ KeyIntFlag = 1 => LastKey \in Event
  /\ Announced
  /\ ShiftIsTold

LEMMA RingHolds ==
  ASSUME KeyTypeOK, Buffered \in Seq(Event)
  PROVE  /\ KeyBufRP \in Slot /\ Rings(TheRing)
         /\ Held(TheRing) = Buffered /\ TheRing.lost = lost
<1>1. /\ KeyBufRP \in Slot /\ KeyBufWP \in Slot /\ lost \in BOOLEAN
      /\ KeyBuf \in [Slot -> Event \cup {NoKey}]
  BY DEF KeyTypeOK
<1>2. TheRing.buf = KeyBuf /\ TheRing.wp = KeyBufWP /\ TheRing.lost = lost
  BY DEF TheRing
<1>3. TheRing \in [buf : [Slot -> Event \cup {NoKey}], wp : Slot, lost : BOOLEAN]
  BY <1>1 DEF TheRing
<1>4. Held(TheRing) = Buffered
  BY <1>2, BufferedIsContent DEF Held
<1>5. Len(Buffered) <= Capacity
  <2>1. Content(KeyBuf, KeyBufRP, KeyBufWP) \in Seq(Event)
    BY BufferedIsContent
  <2>2. Len(Content(KeyBuf, KeyBufRP, KeyBufWP)) = Between(KeyBufRP, KeyBufWP)
    BY <1>1, <2>1, ContentTake
  <2>3. Between(KeyBufRP, KeyBufWP) \in 0..KeyBufSize - 1
    BY <1>1, Slots
  <2>4. Len(Buffered) \in 0..Capacity
    BY <2>2, <2>3, BufferedIsContent DEF Capacity
  <2> QED
    BY <2>4, Wrap DEF Capacity
<1> QED
  BY <1>1, <1>2, <1>3, <1>4, <1>5 DEF Rings

\* Whatever fits of an event between two others, the last one ends it.
LEMMA AroundEffect ==
  ASSUME KeyTypeOK, Buffered \in Seq(Event),
         NEW first \in Event, first.code # NC, NEW e \in Offered, NEW final \in Event, final.code # NC
  PROVE  LET r == SendAround(first, e, final)
         IN  /\ Rings(r)
             /\ \/ Held(r) = Fit(Buffered \o <<first, final>>)
                \/ e \in Event /\ Held(r) = Fit(Buffered \o <<first, e, final>>)
             /\ ~ r.lost => ~ lost /\ \E q \in Seq(Event) : Held(r) = Append(q, final)
<1> DEFINE r1 == send_keycode(TheRing, first)
           r2 == send_keycode(r1, e)
           r3 == send_keycode(r2, final)
<1>1. /\ KeyBufRP \in Slot /\ Rings(TheRing) /\ Held(TheRing) = Buffered /\ TheRing.lost = lost
      /\ Len(Buffered) <= Capacity /\ first \in Offered /\ final \in Offered
  BY RingHolds DEF Rings, Event, Offered
<1>2. Rings(r1) /\ Held(r1) = Put(Buffered, first) /\ (~ r1.lost => ~ lost)
  BY <1>1, SendEffect
<1> HIDE DEF r1
<1>3. /\ Rings(r2) /\ (~ r2.lost => ~ r1.lost)
      /\ \/ Held(r2) = Held(r1)
         \/ e \in Event /\ Held(r2) = Put(Held(r1), e)
  BY <1>1, <1>2, SendEffect
<1> HIDE DEF r2
<1>4. /\ Rings(r3) /\ Held(r3) = Put(Held(r2), final)
      /\ ~ r3.lost => ~ r2.lost /\ Held(r3) = Append(Held(r2), final)
  BY <1>1, <1>3, SendEffect
<1>5. Held(r2) \in Seq(Event)
  BY <1>3 DEF Rings
<1>6. \/ Held(r3) = Fit(Buffered \o <<first, final>>)
      \/ e \in Event /\ Held(r3) = Fit(Buffered \o <<first, e, final>>)
  <2> HIDE DEF r3
  <2>1. CASE Held(r2) = Held(r1)
    <3>1. Put(Put(Buffered, first), final) = Fit(Buffered \o <<first, final>>)
      BY <1>1, PutAll
    <3> QED
      BY <1>2, <1>4, <2>1, <3>1
  <2>2. CASE e \in Event /\ Held(r2) = Put(Held(r1), e)
    <3>1. Put(Put(Put(Buffered, first), e), final) = Fit(Buffered \o <<first, e, final>>)
      BY <1>1, <2>2, PutAll
    <3> QED
      BY <1>2, <1>4, <2>2, <3>1
  <2> QED
    BY <1>3, <2>1, <2>2
<1>7. r3 = SendAround(first, e, final)
  BY DEF SendAround, r1, r2
<1> HIDE DEF r3
<1> QED
  BY <1>2, <1>3, <1>4, <1>5, <1>6, <1>7

Entry == [code : Code \cup {NC}, remap : BOOLEAN]

\* What a host key leaves in the ring: its events as far as they fit, and when
\* nothing is lost the guest is told of the host's shift key.
LEMMA KeySends ==
  ASSUME KeyIInv, NEW entry \in Entry, NEW up \in BOOLEAN
  PROVE  LET shift == ShiftAfterKey(entry, up)
             r == Sent(entry, shift, [code |-> entry.code, up |-> up])
         IN  /\ shift \in {0, 1} /\ Rings(r)
             /\ \/ Held(r) = Buffered
                \/ \E n \in 1..3 : \E events \in [1..n -> Event] :
                     Held(r) = Fit(Buffered \o events)
             /\ ~ r.lost => ~ lost /\ ShiftTold(Base, Held(r)) = (shift = 1)
<1> DEFINE shift == ShiftAfterKey(entry, up)
           e == [code |-> entry.code, up |-> up]
           r == Sent(entry, shift, e)
<1>1. /\ KeyTypeOK /\ Buffered \in Seq(Event) /\ shiftdown \in {0, 1}
      /\ ~ lost => ShiftTold(Base, Buffered) = (shiftdown = 1)
  BY DEF KeyIInv, ShiftIsTold, KeyTypeOK
<1>2. /\ KeyBufRP \in Slot /\ Rings(TheRing) /\ Held(TheRing) = Buffered /\ TheRing.lost = lost
      /\ Len(Buffered) <= Capacity
  BY <1>1, RingHolds DEF Rings
<1>3. e \in Offered /\ e.code = entry.code /\ e.up = up /\ SHIFT \in Code /\ SHIFT # NC
  BY KeyboardAssumption DEF Entry, Offered
<1>4. shift = IF entry = [code |-> SHIFT, remap |-> FALSE] THEN (IF up THEN 0 ELSE 1) ELSE shiftdown
  BY DEF ShiftAfterKey
<1>5. shift \in {0, 1}
  BY <1>1, <1>4
<1>6. CASE ~ entry.remap
  <2>1. r = send_keycode(TheRing, e)
    BY <1>6 DEF Sent
  <2>2. entry = [code |-> SHIFT, remap |-> FALSE] <=> e.code = SHIFT
    BY <1>3, <1>6 DEF Entry
  <2> HIDE DEF shift, e, r
  <2>3. CASE e.code = NC
    <3>1. Rings(r) /\ r = TheRing /\ shift = shiftdown
      BY <1>2, <1>3, <1>4, <2>1, <2>2, <2>3, SendEffect
    <3> QED
      BY <1>1, <1>2, <1>5, <3>1 DEF shift, e, r
  <2>4. CASE e.code # NC
    <3>1. /\ Rings(r) /\ e \in Event /\ Held(r) = Put(Buffered, e)
          /\ ~ r.lost => ~ lost /\ Held(r) = Append(Buffered, e)
      BY <1>2, <1>3, <2>1, <2>4, SendEffect
    <3>2. Held(r) = Fit(Buffered \o <<e>>) /\ <<e>> \in [1..1 -> Event] /\ 1 \in 1..3
      <4>1. Put(Buffered, e) = Fit(Buffered \o <<e>>)
        BY <1>1, <1>2, <3>1, PutAll
      <4>2. <<e>> \in [1..1 -> Event] /\ 1 \in 1..3
        BY <3>1
      <4> QED
        BY <3>1, <4>1, <4>2
    <3>3. ASSUME ~ r.lost
          PROVE  ShiftTold(Base, Held(r)) = (shift = 1)
      <4>1. ~ lost /\ ShiftTold(Base, Held(r)) = TellShift(ShiftTold(Base, Buffered), e)
        <5>1. ShiftTold(Base, Append(Buffered, e)) = TellShift(ShiftTold(Base, Buffered), e)
          BY <1>1, <3>1, ToldAppend
        <5> QED
          BY <3>1, <3>3, <5>1
      <4>2. ShiftTold(Base, Buffered) = (shiftdown = 1)
        BY <1>1, <4>1
      <4>3. CASE e.code = SHIFT
        <5>1. ShiftTold(Base, Held(r)) = ~ up
          BY <1>3, <4>1, <4>3 DEF TellShift
        <5>2. shift = IF up THEN 0 ELSE 1
          BY <1>4, <2>2, <4>3
        <5> QED
          BY <5>1, <5>2
      <4>4. CASE e.code # SHIFT
        BY <1>4, <2>2, <4>1, <4>2, <4>4 DEF TellShift
      <4> QED
        BY <4>3, <4>4
    <3> QED
      BY <1>5, <3>1, <3>2, <3>3 DEF shift, e, r
  <2> QED
    BY <2>3, <2>4 DEF shift, e, r
<1>7. CASE entry.remap
  <2>1. shift = shiftdown
    BY <1>4, <1>7
  <2>2. /\ Up(SHIFT) \in Event /\ Up(SHIFT).code = SHIFT /\ Up(SHIFT).up = TRUE
        /\ Down(SHIFT) \in Event /\ Down(SHIFT).code = SHIFT /\ Down(SHIFT).up = FALSE
    BY <1>3 DEF Up, Down, Event
  <2>3. \A a \in Event, b \in Event : <<a, b>> \in [1..2 -> Event]
    OBVIOUS
  <2>4. \A a \in Event, b \in Event, c \in Event : <<a, b, c>> \in [1..3 -> Event]
    OBVIOUS
  <2>5. ASSUME NEW first \in Event, NEW final \in Event, first.code = SHIFT, final.code = SHIFT,
               r = SendAround(first, e, final), final.up = (shift = 0)
        PROVE  /\ Rings(r)
               /\ \E n \in 1..3 : \E events \in [1..n -> Event] : Held(r) = Fit(Buffered \o events)
               /\ ~ r.lost => ~ lost /\ ShiftTold(Base, Held(r)) = (shift = 1)
    <3> HIDE DEF shift, e, r
    <3>1. /\ Rings(r)
          /\ \/ Held(r) = Fit(Buffered \o <<first, final>>)
             \/ e \in Event /\ Held(r) = Fit(Buffered \o <<first, e, final>>)
          /\ ~ r.lost => ~ lost /\ \E q \in Seq(Event) : Held(r) = Append(q, final)
      BY <1>1, <1>3, <2>5, AroundEffect
    <3>2. \E n \in 1..3 : \E events \in [1..n -> Event] : Held(r) = Fit(Buffered \o events)
      <4>1. 2 \in 1..3 /\ 3 \in 1..3
        OBVIOUS
      <4>2. CASE Held(r) = Fit(Buffered \o <<first, final>>)
        BY <2>3, <2>5, <4>1, <4>2
      <4>3. CASE e \in Event /\ Held(r) = Fit(Buffered \o <<first, e, final>>)
        BY <2>4, <2>5, <4>1, <4>3
      <4> QED
        BY <3>1, <4>2, <4>3
    <3>3. ASSUME ~ r.lost
          PROVE  ShiftTold(Base, Held(r)) = (shift = 1)
      <4>1. PICK q \in Seq(Event) : Held(r) = Append(q, final)
        BY <3>1, <3>3
      <4>2. ShiftTold(Base, Held(r)) = TellShift(ShiftTold(Base, q), final)
        BY <2>5, <4>1, ToldAppend
      <4>3. ShiftTold(Base, Held(r)) = ~ final.up
        BY <2>5, <4>2 DEF TellShift
      <4>4. (shift = 1) = ~ (shift = 0)
        <5>1. CASE shift = 0
          BY <5>1
        <5>2. CASE shift = 1
          BY <5>2
        <5> QED
          BY <1>5, <5>1, <5>2 DEF shift
      <4> QED
        BY <2>5, <4>3, <4>4, Zenon
    <3> QED
      BY <3>1, <3>2, <3>3
  <2>6. CASE shift = 1
    <3>1. r = SendAround(Up(SHIFT), e, Down(SHIFT))
      BY <1>7, <2>6 DEF Sent
    <3>2. Down(SHIFT).up = FALSE /\ (shift = 0) = FALSE
      <4> HIDE DEF shift
      <4> QED
        BY <2>2, <2>6
    <3> HIDE DEF shift, e, r
    <3> QED
      BY <1>5, <2>2, <2>5, <3>1, <3>2 DEF shift, e, r
  <2>7. CASE shift = 0
    <3>1. r = SendAround(Down(SHIFT), e, Up(SHIFT))
      BY <1>7, <2>7 DEF Sent
    <3>2. Up(SHIFT).up = TRUE /\ (shift = 0) = TRUE
      <4> HIDE DEF shift
      <4> QED
        BY <2>2, <2>7
    <3> HIDE DEF shift, e, r
    <3> QED
      BY <1>5, <2>2, <2>5, <3>1, <3>2 DEF shift, e, r
  <2> QED
    BY <1>5, <2>6, <2>7
<1> QED
  BY <1>6, <1>7

\* The parts of the invariant as the steps use them.
LEMMA KeyParts ==
  ASSUME KeyIInv
  PROVE  /\ KeyBuf \in [Slot -> Event \cup {NoKey}]
         /\ KeyBufWP \in Slot /\ KeyBufRP \in Slot
         /\ KeyIntFlag \in {0, 1} /\ shiftdown \in {0, 1}
         /\ LastKey \in Event \cup {NoKey}
         /\ enabled \in BOOLEAN /\ pending \in BOOLEAN /\ serving \in BOOLEAN
         /\ guestShift \in BOOLEAN /\ lost \in BOOLEAN /\ missed \in BOOLEAN
         /\ Buffered \in Seq(Event) /\ (KeyIntFlag = 1 => LastKey \in Event)
         /\ (KeyIntFlag = 1 => pending \/ serving \/ missed)
         /\ (~ lost => RegisterTold /\ ShiftTold(Base, Buffered) = (shiftdown = 1))
BY DEF KeyIInv, KeyTypeOK, Announced, ShiftIsTold

\* An emptied ring.
LEMMA Emptied ==
  /\ 0 \in Slot /\ [i \in Slot |-> NoKey] \in [Slot -> Event \cup {NoKey}]
  /\ \A buf : Content(buf, 0, 0) = <<>>
<1>1. 0 \in Slot
  BY Wrap DEF Slot
<1>2. Between(0, 0) = 0
  BY <1>1, Slots
<1>3. \A buf : Content(buf, 0, 0) = <<>>
  <2> SUFFICES ASSUME NEW buf
               PROVE  Content(buf, 0, 0) = <<>>
    OBVIOUS
  <2>1. Content(buf, 0, 0) = [i \in 1..0 |-> buf[At(0, i)]]
    BY <1>2 DEF Content
  <2>2. [i \in 1..0 |-> buf[At(0, i)]] = <<>>
    OBVIOUS
  <2> QED
    BY <2>1, <2>2
<1> QED
  BY <1>1, <1>3

LEMMA KeyIInvInit == KeyInit => KeyIInv
<1> SUFFICES ASSUME KeyInit
             PROVE  KeyIInv
  OBVIOUS
<1>1. Buffered = <<>>
  BY Emptied, BufferedIsContent DEF KeyInit
<1>2. ShiftTold(Base, Buffered) = FALSE /\ Base = FALSE
  BY <1>1, ToldEmpty DEF Base, KeyInit
<1>3. (shiftdown = 1) = FALSE /\ <<>> \in Seq(Event)
  BY DEF KeyInit
<1>4. RegisterTold
  BY DEF RegisterTold, KeyInit
<1>5. ShiftTold(Base, Buffered) = (shiftdown = 1)
  BY <1>2, <1>3
<1> QED
  BY <1>1, <1>3, <1>4, <1>5, Emptied DEF KeyIInv, KeyTypeOK, Announced, ShiftIsTold, KeyInit

\* What a step does to the shift state that is told depends on nothing else.
ToldFrame == <<KeyIntFlag, LastKey, guestShift>>

LEMMA ToldFrames ==
  ASSUME UNCHANGED ToldFrame
  PROVE  Base' = Base /\ RegisterTold' = RegisterTold
BY DEF ToldFrame, Base, RegisterTold, TellShift

LEMMA BufferedFrames ==
  ASSUME UNCHANGED ring
  PROVE  Buffered' = Buffered
BY DEF ring, Buffered, Count

\* A key of the host.
LEMMA KeyHost ==
  ASSUME KeyIInv, NEW scan \in Scan, NEW up \in BOOLEAN, HostKey(scan, up)
  PROVE  /\ KeyIInv'
         /\ UNCHANGED <<LastKey, KeyIntFlag>>
         /\ \/ Buffered' = Buffered
            \/ \E n \in 1..3 : \E events \in [1..n -> Event] :
                 Buffered' = Fit(Buffered \o events)
<1> DEFINE entry == ScanTable[shiftdown][scan]
           shift == ShiftAfterKey(entry, up)
           r == Sent(entry, shift, [code |-> entry.code, up |-> up])
<1>1. /\ shiftdown' = shift /\ KeyBuf' = r.buf /\ KeyBufWP' = r.wp /\ lost' = r.lost
      /\ UNCHANGED <<KeyBufRP, KeyIntFlag, LastKey, guest, pending, missed>>
  BY DEF HostKey
<1>2. entry \in Entry
  BY KeyboardAssumption, KeyParts DEF Entry
<1>3. /\ shift \in {0, 1} /\ Rings(r)
      /\ \/ Held(r) = Buffered
         \/ \E n \in 1..3 : \E events \in [1..n -> Event] : Held(r) = Fit(Buffered \o events)
      /\ ~ r.lost => ~ lost /\ ShiftTold(Base, Held(r)) = (shift = 1)
  <2> HIDE DEF entry
  <2> QED
    BY <1>2, KeySends
<1> HIDE DEF entry, shift, r
<1>4. /\ r.buf \in [Slot -> Event \cup {NoKey}] /\ r.wp \in Slot /\ r.lost \in BOOLEAN
      /\ Held(r) \in Seq(Event)
  BY <1>3 DEF Rings
<1>5. Buffered' = Held(r)
  <2>1. Buffered' = Content(KeyBuf, KeyBufRP, KeyBufWP)'
    BY DEF Buffered, Content, Count, Between, At
  <2>2. Content(KeyBuf, KeyBufRP, KeyBufWP)' = Content(KeyBuf', KeyBufRP', KeyBufWP')
    BY DEF Content, Between, At
  <2> QED
    BY <1>1, <2>1, <2>2 DEF Held
<1>6. Base' = Base /\ RegisterTold' = RegisterTold
  BY <1>1, ToldFrames DEF ToldFrame, guest
<1>7. /\ KeyBufRP' \in Slot /\ KeyIntFlag' \in {0, 1} /\ LastKey' \in Event \cup {NoKey}
      /\ enabled' \in BOOLEAN /\ pending' \in BOOLEAN /\ serving' \in BOOLEAN
      /\ guestShift' \in BOOLEAN /\ missed' \in BOOLEAN
      /\ (KeyIntFlag' = 1 => LastKey' \in Event)
      /\ (KeyIntFlag' = 1 => pending' \/ serving' \/ missed')
  BY <1>1, KeyParts DEF guest
<1>8. ASSUME ~ lost'
      PROVE  RegisterTold' /\ ShiftTold(Base, Buffered)' = (shiftdown' = 1)
  <2>1. ~ lost /\ ShiftTold(Base, Held(r)) = (shift = 1)
    BY <1>1, <1>3, <1>8
  <2>2. RegisterTold
    BY <2>1, KeyParts
  <2>3. ShiftTold(Base, Buffered)' = ShiftTold(Base', Buffered')
    BY DEF ShiftTold
  <2> QED
    BY <1>1, <1>5, <1>6, <2>1, <2>2, <2>3
<1>9. KeyIInv'
  BY <1>1, <1>3, <1>4, <1>5, <1>7, <1>8 DEF KeyIInv, KeyTypeOK, Announced, ShiftIsTold
<1> QED
  BY <1>1, <1>3, <1>5, <1>9

\* Nothing is in the ring, nothing in the register, and the host's shift key
\* is as the guest believes.
LEMMA KeyCleared ==
  ASSUME ClearRing
  PROVE  /\ KeyBuf' \in [Slot -> Event \cup {NoKey}] /\ KeyBufWP' \in Slot /\ KeyBufRP' \in Slot
         /\ KeyIntFlag' = 0 /\ missed' = FALSE /\ Buffered' = <<>> /\ <<>> \in Seq(Event)
         /\ Base' = guestShift'
         /\ \A shift : ShiftTold(shift, <<>>) = shift
<1>1. Buffered' = Content(KeyBuf', KeyBufRP', KeyBufWP')
  BY DEF Buffered, Content, Count, Between, At
<1>2. Buffered' = <<>>
  BY <1>1, Emptied DEF ClearRing
<1> QED
  BY <1>2, Emptied, ToldEmpty DEF ClearRing, Base

LEMMA KeyDelivered ==
  ASSUME KeyIInv, Keyboard_Int
  PROVE  KeyIInv' /\ Promise!Deliver
<1>1. /\ KeyBufRP # KeyBufWP /\ KeyIntFlag = 0
      /\ LastKey' = KeyBuf[KeyBufRP] /\ KeyBufRP' = (KeyBufRP + 1) % KeyBufSize
      /\ KeyIntFlag' = 1 /\ pending' = (pending \/ enabled)
      /\ missed' = ~ (enabled \/ serving)
      /\ UNCHANGED <<KeyBuf, KeyBufWP, shiftdown, guest, lost>>
  BY DEF Keyboard_Int
<1>2. Content(KeyBuf, KeyBufRP, KeyBufWP) \in Seq(Event)
  BY BufferedIsContent, KeyParts
<1>3. /\ KeyBufRP' \in Slot /\ Buffered # <<>> /\ KeyBuf[KeyBufRP] = Head(Buffered)
      /\ Content(KeyBuf, KeyBufRP', KeyBufWP) = Tail(Buffered)
  BY <1>1, <1>2, KeyParts, ContentTake, BufferedIsContent
<1>4. Buffered' = Tail(Buffered)
  <2>1. Buffered' = Content(KeyBuf', KeyBufRP', KeyBufWP')
    BY DEF Buffered, Content, Count, Between, At
  <2> QED
    BY <1>1, <1>3, <2>1
<1>5. /\ Head(Buffered) \in Event /\ Tail(Buffered) \in Seq(Event)
      /\ Buffered = <<Head(Buffered)>> \o Tail(Buffered)
  BY <1>3, KeyParts
<1>6. LastKey' = Head(Buffered) /\ Base = guestShift /\ Base' = TellShift(guestShift, LastKey')
      /\ guestShift' = guestShift
  BY <1>1, <1>3 DEF Base, TellShift, guest
<1>7. ASSUME ~ lost'
      PROVE  RegisterTold' /\ ShiftTold(Base, Buffered)' = (shiftdown' = 1)
  <2>1. ShiftTold(Base, Buffered)' = ShiftTold(Base', Buffered')
    BY DEF ShiftTold
  <2>2. ShiftTold(guestShift, Buffered) = ShiftTold(TellShift(guestShift, Head(Buffered)), Tail(Buffered))
    <3> DEFINE e == Head(Buffered)
               q == Tail(Buffered)
    <3>1. e \in Event /\ q \in Seq(Event) /\ Buffered = <<e>> \o q
      BY <1>5
    <3> HIDE DEF e, q
    <3>2. ShiftTold(guestShift, <<e>> \o q) = ShiftTold(TellShift(guestShift, e), q)
      BY <3>1, ToldFirst
    <3> QED
      BY <3>1, <3>2 DEF e, q
  <2>3. ShiftTold(guestShift, Buffered) = (shiftdown = 1)
    BY <1>1, <1>6, <1>7, KeyParts
  <2>4. RegisterTold'
    BY <1>1 DEF RegisterTold
  <2> QED
    BY <1>1, <1>4, <1>6, <2>1, <2>2, <2>3, <2>4
<1>8. /\ KeyBuf' \in [Slot -> Event \cup {NoKey}] /\ KeyBufWP' \in Slot
      /\ KeyIntFlag' = 1 /\ shiftdown' \in {0, 1} /\ LastKey' \in Event
      /\ enabled' \in BOOLEAN /\ pending' \in BOOLEAN /\ serving' \in BOOLEAN
      /\ guestShift' \in BOOLEAN /\ lost' \in BOOLEAN /\ missed' \in BOOLEAN
      /\ pending' \/ serving' \/ missed'
  BY <1>1, <1>5, <1>6, KeyParts DEF guest
<1>9. KeyIInv'
  BY <1>3, <1>4, <1>5, <1>7, <1>8 DEF KeyIInv, KeyTypeOK, Announced, ShiftIsTold
<1> QED
  BY <1>1, <1>3, <1>4, <1>6, <1>9 DEF Promise!Deliver

LEMMA KeyIdled ==
  ASSUME KeyIInv, Keyboard_Idle
  PROVE  KeyIInv' /\ Promise!Idle
<1>1. /\ KeyBufRP = KeyBufWP /\ KeyIntFlag = 0 /\ LastKey' = NoKey
      /\ UNCHANGED <<ring, KeyIntFlag, shiftdown, guest, pending, lost, missed>>
  BY DEF Keyboard_Idle
<1>2. Buffered' = Buffered /\ Buffered = <<>>
  <2>1. Content(KeyBuf, KeyBufRP, KeyBufWP) \in Seq(Event)
    BY BufferedIsContent, KeyParts
  <2>2. Content(KeyBuf, KeyBufRP, KeyBufWP) = <<>>
    BY <1>1, <2>1, KeyParts, ContentTake
  <2> QED
    BY <1>1, <2>2, BufferedFrames, BufferedIsContent
<1>3. Base' = Base
  BY <1>1 DEF Base, guest
<1>4. ShiftTold(Base, Buffered)' = ShiftTold(Base', Buffered')
  BY DEF ShiftTold
<1>5. ~ lost' => RegisterTold' /\ ShiftTold(Base, Buffered)' = (shiftdown' = 1)
  BY <1>1, <1>2, <1>3, <1>4, KeyParts DEF RegisterTold
<1>6. KeyTypeOK' /\ Announced' /\ KeyIntFlag' = 0 /\ Buffered' \in Seq(Event)
  BY <1>1, <1>2, KeyParts DEF KeyTypeOK, Announced, ring, guest
<1> QED
  BY <1>1, <1>2, <1>5, <1>6 DEF KeyIInv, ShiftIsTold, Promise!Idle

LEMMA KeyRead ==
  ASSUME KeyIInv, ReadUDR
  PROVE  KeyIInv' /\ Promise!Read
<1>1. /\ KeyIntFlag' = 0 /\ serving' = FALSE /\ missed' = FALSE
      /\ guestShift' = IF LastKey # NoKey /\ LastKey.code = SHIFT THEN ~ LastKey.up ELSE guestShift
      /\ UNCHANGED <<ring, LastKey, shiftdown, enabled, pending, lost>>
  BY DEF ReadUDR
<1>2. Buffered' = Buffered
  BY <1>1, BufferedFrames
<1>3. Base' = guestShift'
  BY <1>1 DEF Base
<1>4. ASSUME ~ lost
      PROVE  RegisterTold' /\ guestShift' = Base
  <2>1. RegisterTold /\ (KeyIntFlag = 1 => LastKey \in Event) /\ KeyIntFlag \in {0, 1}
    BY <1>4, KeyParts
  <2>2. RegisterTold'
    BY <1>1 DEF RegisterTold
  <2>3. CASE KeyIntFlag = 1
    <3>1. LastKey # NoKey /\ Base = TellShift(guestShift, LastKey)
      BY <2>1, <2>3, NoKeyAssumption DEF Base
    <3>2. guestShift' = TellShift(guestShift, LastKey)
      <4>1. CASE LastKey.code = SHIFT
        BY <1>1, <3>1, <4>1 DEF TellShift
      <4>2. CASE LastKey.code # SHIFT
        BY <1>1, <3>1, <4>2 DEF TellShift
      <4> QED
        BY <4>1, <4>2
    <3> QED
      BY <2>2, <3>1, <3>2
  <2>4. CASE KeyIntFlag = 0
    <3>1. Base = guestShift
      BY <2>4 DEF Base
    <3> QED
      BY <1>1, <2>1, <2>2, <2>4, <3>1 DEF RegisterTold
  <2> QED
    BY <2>1, <2>2, <2>3, <2>4
<1>5. ShiftTold(Base, Buffered)' = ShiftTold(Base', Buffered')
  BY DEF ShiftTold
<1>6. ~ lost' => RegisterTold' /\ ShiftTold(Base, Buffered)' = (shiftdown' = 1)
  BY <1>1, <1>2, <1>3, <1>4, <1>5, KeyParts
<1>7. guestShift' \in BOOLEAN
  BY <1>1, KeyParts DEF Event
<1>8. KeyTypeOK' /\ Announced' /\ Buffered' \in Seq(Event)
  <2>1. /\ KeyBuf' = KeyBuf /\ KeyBufWP' = KeyBufWP /\ KeyBufRP' = KeyBufRP
        /\ LastKey' = LastKey /\ shiftdown' = shiftdown /\ enabled' = enabled
        /\ pending' = pending /\ lost' = lost
    BY <1>1 DEF ring
  <2>2. Announced'
    BY <1>1 DEF Announced
  <2> QED
    BY <1>1, <1>2, <1>7, <2>1, <2>2, KeyParts DEF KeyTypeOK
<1> QED
  BY <1>1, <1>2, <1>6, <1>8 DEF KeyIInv, ShiftIsTold, Promise!Read

LEMMA KeyEmptied ==
  ASSUME KeyIInv, Keyboard_Init \/ KeyReset
  PROVE  KeyIInv' /\ Promise!Discard
<1>1. /\ KeyBuf' \in [Slot -> Event \cup {NoKey}] /\ KeyBufWP' \in Slot /\ KeyBufRP' \in Slot
      /\ KeyIntFlag' = 0 /\ missed' = FALSE /\ Buffered' = <<>> /\ <<>> \in Seq(Event)
      /\ Base' = guestShift'
      /\ \A shift : ShiftTold(shift, <<>>) = shift
  BY KeyCleared DEF Keyboard_Init, KeyReset
<1>2. ShiftTold(Base, Buffered)' = guestShift'
  <2>1. ShiftTold(Base, Buffered)' = ShiftTold(Base', Buffered')
    BY DEF ShiftTold
  <2> QED
    BY <1>1, <2>1
<1>3. UNCHANGED <<LastKey, shiftdown>>
  BY DEF Keyboard_Init, KeyReset
<1>4. ASSUME ~ lost'
      PROVE  RegisterTold' /\ guestShift' = (shiftdown' = 1)
  <2>1. CASE Keyboard_Init
    <3>1. /\ ~ lost /\ KeyBufRP = KeyBufWP /\ KeyIntFlag # 1
          /\ UNCHANGED <<LastKey, shiftdown, guest, pending>>
      BY <1>4, <2>1 DEF Keyboard_Init
    <3>2. Buffered = <<>>
      <4>1. Content(KeyBuf, KeyBufRP, KeyBufWP) \in Seq(Event)
        BY BufferedIsContent, KeyParts
      <4>2. Content(KeyBuf, KeyBufRP, KeyBufWP) = <<>>
        BY <3>1, <4>1, KeyParts, ContentTake
      <4> QED
        BY <4>2, BufferedIsContent
    <3>3. Base = guestShift /\ RegisterTold /\ ShiftTold(Base, Buffered) = (shiftdown = 1)
      BY <3>1, KeyParts DEF Base
    <3>4. guestShift = (shiftdown = 1)
      BY <1>1, <3>2, <3>3
    <3>5. RegisterTold'
      BY <1>1, <3>1, <3>3, KeyParts DEF RegisterTold, guest
    <3> QED
      BY <3>1, <3>4, <3>5 DEF guest
  <2>2. CASE KeyReset
    <3>1. shiftdown # 1 /\ LastKey' = NoKey /\ shiftdown' = shiftdown /\ guestShift' = FALSE
      BY <1>4, <2>2 DEF KeyReset
    <3>2. (shiftdown' = 1) = FALSE
      BY <3>1
    <3> QED
      BY <3>1, <3>2 DEF RegisterTold
  <2> QED
    BY <2>1, <2>2
<1>5. /\ enabled' \in BOOLEAN /\ pending' \in BOOLEAN /\ serving' \in BOOLEAN
      /\ guestShift' \in BOOLEAN /\ lost' \in BOOLEAN /\ missed' \in BOOLEAN
  BY <1>1, KeyParts DEF Keyboard_Init, KeyReset, guest
<1>6. KeyTypeOK' /\ Announced' /\ Buffered' \in Seq(Event)
  <2>1. Announced'
    BY <1>1 DEF Announced
  <2> QED
    BY <1>1, <1>3, <1>5, <2>1, KeyParts DEF KeyTypeOK
<1>7. KeyIInv'
  BY <1>1, <1>2, <1>4, <1>6 DEF KeyIInv, ShiftIsTold
<1> QED
  BY <1>1, <1>3, <1>7 DEF Promise!Discard

\* The guest's steps that leave ring and register alone.
LEMMA KeyGuest ==
  ASSUME KeyIInv, Accept \/ (\E on \in BOOLEAN : WriteIERA(on)) \/ WriteIPRA
                  \/ UNCHANGED keyVars
  PROVE  KeyIInv' /\ UNCHANGED <<Buffered, LastKey, KeyIntFlag>>
<1>1. UNCHANGED <<ring, KeyIntFlag, LastKey, shiftdown, guestShift, lost>>
  BY DEF Accept, WriteIERA, WriteIPRA, keyVars, guest
<1>2. Buffered' = Buffered
  BY <1>1, BufferedFrames
<1>3. Base' = Base /\ RegisterTold' = RegisterTold
  BY <1>1, ToldFrames DEF ToldFrame
<1>4. ShiftTold(Base, Buffered)' = ShiftTold(Base', Buffered')
  BY DEF ShiftTold
<1>5. /\ enabled' \in BOOLEAN /\ pending' \in BOOLEAN /\ serving' \in BOOLEAN /\ missed' \in BOOLEAN
      /\ (KeyIntFlag' = 1 => pending' \/ serving' \/ missed')
  <2>1. CASE Accept
    BY <2>1, KeyParts DEF Accept
  <2>2. ASSUME NEW request \in BOOLEAN, request => pending, Keep(request),
               KeyIntFlag' = KeyIntFlag, serving' = serving
        PROVE  /\ pending' \in BOOLEAN /\ missed' \in BOOLEAN
               /\ (KeyIntFlag' = 1 => pending' \/ serving' \/ missed')
    <3>1. /\ pending' = request
          /\ missed' = (missed \/ (pending /\ ~ request /\ ~ serving /\ KeyIntFlag = 1))
      BY <2>2 DEF Keep
    <3>2. KeyIntFlag = 1 => pending \/ serving \/ missed
      BY KeyParts
    <3> QED
      BY <2>2, <3>1, <3>2, KeyParts, Zenon
  <2>3. ASSUME NEW on \in BOOLEAN, WriteIERA(on)
        PROVE  /\ enabled' \in BOOLEAN /\ pending' \in BOOLEAN /\ serving' \in BOOLEAN
               /\ missed' \in BOOLEAN /\ (KeyIntFlag' = 1 => pending' \/ serving' \/ missed')
    <3> DEFINE request == pending /\ on
    <3>1. /\ request \in BOOLEAN /\ (request => pending) /\ Keep(request)
          /\ KeyIntFlag' = KeyIntFlag /\ serving' = serving /\ enabled' = on
      BY <2>3 DEF WriteIERA
    <3> HIDE DEF request
    <3> QED
      BY <2>2, <3>1, KeyParts
  <2>4. CASE WriteIPRA
    <3>1. /\ Keep(FALSE) /\ KeyIntFlag' = KeyIntFlag
          /\ serving' = serving /\ enabled' = enabled
      BY <2>4 DEF WriteIPRA, guest
    <3> QED
      BY <2>2, <3>1, KeyParts
  <2>5. CASE UNCHANGED keyVars
    BY <2>5, KeyParts DEF keyVars, guest
  <2> QED
    BY <2>1, <2>3, <2>4, <2>5
<1>6. KeyTypeOK' /\ Announced' /\ Buffered' \in Seq(Event)
  BY <1>1, <1>2, <1>5, KeyParts DEF KeyTypeOK, Announced, ring
<1>7. ~ lost' => RegisterTold' /\ ShiftTold(Base, Buffered)' = (shiftdown' = 1)
  BY <1>1, <1>2, <1>3, <1>4, KeyParts
<1>8. KeyIInv'
  BY <1>1, <1>6, <1>7, KeyParts DEF KeyIInv, ShiftIsTold
<1> QED
  BY <1>1, <1>2, <1>8

\* Every step keeps the invariant and is a step of the promised queue.
LEMMA KeyIInvNext ==
  ASSUME KeyIInv, [KeyNext]_keyVars
  PROVE  KeyIInv' /\ [Promise!Next]_(Promise!vars)
<1>1. ASSUME NEW scan \in Scan, NEW up \in BOOLEAN, HostKey(scan, up)
      PROVE  KeyIInv' /\ [Promise!Next]_(Promise!vars)
  <2>1. /\ KeyIInv' /\ UNCHANGED <<LastKey, KeyIntFlag>>
        /\ \/ Buffered' = Buffered
           \/ \E n \in 1..3 : \E events \in [1..n -> Event] : Buffered' = Fit(Buffered \o events)
    BY <1>1, KeyHost
  <2>2. CASE Buffered' = Buffered
    BY <2>1, <2>2 DEF Promise!vars
  <2>3. ASSUME NEW n \in 1..3, NEW events \in [1..n -> Event], Buffered' = Fit(Buffered \o events)
        PROVE  Promise!Next
    <3>1. Promise!Offer(events)
      BY <2>1, <2>3 DEF Promise!Offer, Fit, Capacity
    <3> QED
      BY <3>1 DEF Promise!Next
  <2> QED
    BY <2>1, <2>2, <2>3
<1>2. CASE \E scan \in Scan : Keyboard_KeyDown(scan) \/ Keyboard_KeyUp(scan)
  BY <1>1, <1>2 DEF Keyboard_KeyDown, Keyboard_KeyUp
<1>3. CASE Keyboard_Int
  BY <1>3, KeyDelivered DEF Promise!Next
<1>4. CASE Keyboard_Idle
  BY <1>4, KeyIdled DEF Promise!Next
<1>5. CASE ReadUDR
  BY <1>5, KeyRead DEF Promise!Next
<1>6. CASE Accept \/ (\E on \in BOOLEAN : WriteIERA(on)) \/ WriteIPRA \/ UNCHANGED keyVars
  BY <1>6, KeyGuest DEF Promise!vars
<1>7. CASE Keyboard_Init \/ KeyReset
  BY <1>7, KeyEmptied DEF Promise!Next
<1> QED
  BY <1>2, <1>3, <1>4, <1>5, <1>6, <1>7 DEF KeyNext

-----------------------------------------------------------------------------
\* The invariant of the keyboard holds in every state.
THEOREM KeyInvariance == KeySpec => []KeyIInv
<1>1. KeyIInv /\ [KeyNext]_keyVars => KeyIInv'
  BY KeyIInvNext
<1> QED
  BY <1>1, KeyIInvInit, PTL DEF KeySpec

\* Whatever keys come and whenever the machine is reset, the ring of
\* SDL/keyboard.c holds key codes and its pointers stay inside it.
THEOREM KeyTypeCorrect == KeySpec => []KeyTypeOK
<1>1. KeyIInv => KeyTypeOK
  BY DEF KeyIInv
<1> QED
  BY <1>1, KeyInvariance, PTL

\* Whatever the guest writes to the channel and whenever it reads the register,
\* an event in it has been announced, unless Keyboard_Int put it there while the
\* channel was disabled or the guest itself withdrew the request.
THEOREM EveryKeyIsAnnounced == KeySpec => []Announced
<1>1. KeyIInv => Announced
  BY DEF KeyIInv
<1> QED
  BY <1>1, KeyInvariance, PTL

\* For every key table and every ring: unless an event is lost, the guest that
\* has read all that waits sees the shift key as it is on the host.
THEOREM ShiftStatesAgree == KeySpec => []GuestShiftAgrees
<1>1. KeyIInv => GuestShiftAgrees
  <2> SUFFICES ASSUME KeyIInv, ~ lost
               PROVE  ShiftTold(guestShift, Waiting) = (shiftdown = 1)
    BY DEF GuestShiftAgrees
  <2>1. /\ ShiftTold(Base, Buffered) = (shiftdown = 1) /\ Buffered \in Seq(Event)
        /\ KeyIntFlag \in {0, 1} /\ (KeyIntFlag = 1 => LastKey \in Event)
    BY KeyParts
  <2>2. CASE KeyIntFlag = 1
    <3>1. Waiting = <<LastKey>> \o Buffered /\ Base = TellShift(guestShift, LastKey)
      BY <2>2 DEF Waiting, Base
    <3>2. ShiftTold(guestShift, <<LastKey>> \o Buffered) = ShiftTold(Base, Buffered)
      BY <2>1, <2>2, <3>1, ToldFirst
    <3> QED
      BY <2>1, <3>1, <3>2
  <2>3. CASE KeyIntFlag = 0
    <3>1. <<>> \o Buffered = Buffered
      BY <2>1
    <3>2. Waiting = Buffered /\ Base = guestShift
      BY <2>3, <3>1 DEF Waiting, Base
    <3> QED
      BY <2>1, <3>2
  <2> QED
    BY <2>1, <2>2, <2>3
<1> QED
  BY <1>1, KeyInvariance, PTL

\* For every size of the ring, the ring with its two pointers and the flag is a
\* first-in first-out queue in front of a register that is not overwritten.
THEOREM KeyboardIsAQueue == KeySpec => ImplementsKeyQueue
<1>1. KeyInit => Promise!Init
  <2> SUFFICES ASSUME KeyInit
               PROVE  Promise!Init
    OBVIOUS
  <2>1. Buffered = <<>>
    BY Emptied, BufferedIsContent DEF KeyInit
  <2> QED
    BY <2>1 DEF Promise!Init, KeyInit
<1>2. KeyIInv /\ [KeyNext]_keyVars => [Promise!Next]_(Promise!vars)
  BY KeyIInvNext
<1> QED
  BY <1>1, <1>2, KeyInvariance, PTL DEF KeySpec, ImplementsKeyQueue, Promise!Spec

(***************************************************************************)
(* The sound ring, for rings and requests of every size.  The inductive    *)
(* invariant adds to PointersCount the ranges of the pointers and that     *)
(* they are even: a request is halved twice.  For the order of the words   *)
(* it adds that those not heard yet lie in order from the reader's pointer *)
(* on (InPlace).                                                           *)
(***************************************************************************)

InRing ==
  /\ pbrp \in 0..Ring /\ pbrp % 2 = 0
  /\ pbwp \in 0..Ring - 1 /\ pbwp % 2 = 0
  /\ ahead \in 0..Ring - 1
  /\ pre \in Nat

PCMIInv == InRing /\ PointersCount

\* The remainder of the conversion of clocks, and the number of samples.
LEMMA ConvertType ==
  ASSUME NEW clock \in Clocks, pre \in Nat
  PROVE  Convert(clock).samples \in Nat /\ Convert(clock).rest \in Nat
<1>1. Rate * clock \in Nat
  BY PCMAssumption
<1>2. pre + Rate * clock \in Nat
  BY <1>1
<1>3. \A n \in Nat : n \div Second \in Nat /\ n % Second \in Nat
  BY PCMAssumption
<1>4. QED
  BY <1>2, <1>3 DEF Convert

\* The places of a piece of the ring.
LEMMA PlacesLen ==
  ASSUME NEW from \in Int, NEW n \in Nat
  PROVE  Places(from, n) \in Seq(Int) /\ Len(Places(from, n)) = n
BY DEF Places

LEMMA PCMInitInv == PCMInit => PCMIInv
BY PCMAssumption DEF PCMInit, PCMIInv, InRing, PointersCount

LEMMA SendInv ==
  ASSUME PCMIInv, NEW clock \in Clocks, DSound_Send0(clock)
  PROVE  PCMIInv'
<1> DEFINE n == Convert(clock).samples
<1>1. n \in Nat /\ Convert(clock).rest \in Nat
  BY ConvertType DEF PCMIInv, InRing
<1>2. /\ ahead + 2 * n < Ring /\ ahead' = ahead + 2 * n
      /\ pbwp' = Wrapped(pbwp + 2 * n)
      /\ pbrp' = pbrp /\ pre' = Convert(clock).rest
  BY <1>1 DEF DSound_Send0, Written, sound_send, Writer, PCMIInv, InRing
<1>3. QED
  BY <1>1, <1>2, PCMAssumption DEF PCMIInv, InRing, PointersCount, Wrapped

\* What a callback takes in one piece.
LEMMA TakeStep ==
  ASSUME NEW w, NEW from \in Int, NEW n \in Nat, NEW rp,
         Take(w, Places(from, n), rp)
  PROVE  /\ pbwp' = w.wp /\ ahead' = w.ahead - n
         /\ pbrp' = rp /\ pre' = pre
BY PlacesLen DEF Take, Written

\* What it takes in two pieces.
LEMMA TakeTwoStep ==
  ASSUME NEW w, NEW m \in Nat, NEW n \in Nat, NEW from \in Int, NEW rp,
         Take(w, Places(from, m) \o Places(0, n), rp)
  PROVE  /\ pbwp' = w.wp /\ ahead' = w.ahead - (m + n)
         /\ pbrp' = rp /\ pre' = pre
<1>1. Len(Places(from, m) \o Places(0, n)) = m + n
  <2>1. Places(from, m) \in Seq(Int) /\ Len(Places(from, m)) = m
    BY PlacesLen
  <2>2. Places(0, n) \in Seq(Int) /\ Len(Places(0, n)) = n
    BY PlacesLen
  <2>3. \A p, q \in Seq(Int) : Len(p \o q) = Len(p) + Len(q)
    OBVIOUS
  <2>4. QED
    BY <2>1, <2>2, <2>3
<1>2. QED
  BY <1>1 DEF Take, Written

\* The part of a writer's state the pointers depend on, when the writer is
\* behind the reader.
Behind(w) ==
  /\ w.wp \in 0..Ring - 1 /\ w.wp % 2 = 0 /\ w.wp < pbrp
  /\ w.ahead = w.wp - pbrp + Ring /\ w.ahead \in 0..Ring - 1

LEMMA TakeWrappingInv ==
  ASSUME PCMIInv, NEW len \in Lens, NEW w, Behind(w), TakeWrapping(w, len)
  PROVE  PCMIInv'
<1> DEFINE lena == Ring - pbrp
           lenb == len \div 2 - lena
           d == IF w.wp < lenb THEN sound_send(w, (lenb - w.wp) \div 2) ELSE w
<1>0. PICK k \in 1..(Ring \div 4) : len = 4 * k
  BY PCMAssumption
<1>1. len \div 2 = 2 * k /\ 2 * k \in Nat /\ 2 * k <= Ring \div 2
  BY <1>0, PCMAssumption
<1>2. lena \in 0..Ring /\ lena % 2 = 0 /\ lenb \in Int /\ lenb % 2 = 0
  BY <1>1, PCMAssumption DEF PCMIInv, InRing
<1>3. CASE lena >= len \div 2
  <2>1. Take(w, Places(pbrp, len \div 2), pbrp + len \div 2)
    BY <1>3 DEF TakeWrapping
  <2>2. /\ pbwp' = w.wp /\ ahead' = w.ahead - len \div 2
        /\ pbrp' = pbrp + len \div 2 /\ pre' = pre
    <3> DEFINE h == len \div 2
    <3>1. h \in Nat /\ pbrp \in Int
      BY <1>1 DEF PCMIInv, InRing
    <3>2. Take(w, Places(pbrp, h), pbrp + h)
      BY <2>1
    <3> HIDE DEF h
    <3>3. pbwp' = w.wp /\ ahead' = w.ahead - h /\ pbrp' = pbrp + h /\ pre' = pre
      BY <3>1, <3>2, TakeStep
    <3>4. QED
      BY <3>3 DEF h
  <2>3. QED
    BY <2>2, <1>1, <1>2, <1>3, PCMAssumption DEF PCMIInv, InRing, PointersCount, Behind
<1>4. CASE ~ (lena >= len \div 2)
  <2>1. Take(d, Places(pbrp, lena) \o Places(0, lenb), lenb)
    BY <1>4 DEF TakeWrapping
  <2>2. lena \in Nat /\ lenb \in Nat /\ lena + lenb = len \div 2
    BY <1>1, <1>2, <1>4
  <2>3. /\ pbwp' = d.wp /\ ahead' = d.ahead - (lena + lenb)
        /\ pbrp' = lenb /\ pre' = pre
    <3> HIDE DEF d, lena, lenb
    <3> QED
      BY <2>1, <2>2, TakeTwoStep DEF PCMIInv, InRing
  <2>4. CASE w.wp < lenb
    <3>1. 2 * ((lenb - w.wp) \div 2) = lenb - w.wp
      BY <1>2, <2>2 DEF Behind
    <3>2. d.wp = Wrapped(lenb) /\ d.ahead = w.ahead + lenb - w.wp
      <4>1. d.wp = Wrapped(w.wp + 2 * ((lenb - w.wp) \div 2))
            /\ d.ahead = w.ahead + 2 * ((lenb - w.wp) \div 2)
        BY <2>4 DEF sound_send
      <4> QED
        BY <4>1, <3>1, <2>2 DEF Behind
    <3> HIDE DEF d
    <3>3. QED
      BY <2>2, <2>3, <3>2, <1>1, <1>2, PCMAssumption
         DEF PCMIInv, InRing, PointersCount, Behind, Wrapped
  <2>5. CASE ~ (w.wp < lenb)
    BY <2>2, <2>3, <2>5, <1>1, <1>2, PCMAssumption DEF PCMIInv, InRing, PointersCount, Behind
  <2>6. QED
    BY <2>4, <2>5
<1>5. QED
  BY <1>3, <1>4

-----------------------------------------------------------------------------
(* The contents of the ring.                                               *)

\* A writer's pointer and the numbers in its ring.
Numbers(w) ==
  /\ w.wp \in 0..Ring - 1
  /\ w.cell \in [0..Ring - 1 -> 0..Laps - 1]
  /\ w.next \in 0..Laps - 1

LEMMA LapsType ==
  /\ Laps \in Nat \ {0}
  /\ \A n \in Nat : n % Laps \in 0..Laps - 1
<1>1. Laps \in Nat \ {0}
  BY PCMAssumption DEF Laps
<1>2. QED
  BY <1>1

\* The generators number the words on, wherever they write.
LEMMA SendNumbers ==
  ASSUME NEW w, Numbers(w), NEW length \in Nat, Wrapped(w.wp + 2 * length) \in 0..Ring - 1
  PROVE  Numbers(sound_send(w, length))
<1> DEFINE k(i) == IF i >= w.wp THEN i - w.wp ELSE i - w.wp + Ring
<1>0. Laps \in Int /\ Ring \in Int
  BY PCMAssumption, LapsType
<1>1. w.next \in Nat /\ w.next + 2 * length \in Nat
  <2>1. w.next \in 0..Laps - 1
    BY DEF Numbers
  <2>2. QED
    BY <1>0, <2>1
<1>2. ASSUME NEW i \in 0..Ring - 1
      PROVE  (IF k(i) < 2 * length THEN (w.next + k(i)) % Laps ELSE w.cell[i]) \in 0..Laps - 1
  <2>1. k(i) \in Nat
    <3>1. w.wp \in 0..Ring - 1
      BY DEF Numbers
    <3>2. QED
      BY <1>0, <3>1
  <2> HIDE DEF k
  <2>2. w.next + k(i) \in Nat
    BY <1>1, <2>1
  <2>3. (w.next + k(i)) % Laps \in 0..Laps - 1
    BY <2>2, LapsType
  <2>4. w.cell[i] \in 0..Laps - 1
    BY DEF Numbers
  <2>5. QED
    BY <2>3, <2>4
<1>3. Filled(w.cell, w.wp, 2 * length, w.next) \in [0..Ring - 1 -> 0..Laps - 1]
  BY <1>2 DEF Filled
<1>4. QED
  BY <1>1, <1>3, LapsType DEF Numbers, sound_send

\* The numbers of the state.
Cells == Numbers(Writer)

LEMMA CellsKept ==
  ASSUME NEW w, Numbers(w), NEW places, NEW rp, Take(w, places, rp)
  PROVE  Cells'
BY DEF Take, Written, Cells, Writer, Numbers

LEMMA TakeWrappingCells ==
  ASSUME PCMIInv, NEW len \in Lens, NEW w, Behind(w), Numbers(w), TakeWrapping(w, len)
  PROVE  Cells'
<1> DEFINE lena == Ring - pbrp
           lenb == len \div 2 - lena
           n == (lenb - w.wp) \div 2
           d == IF w.wp < lenb THEN sound_send(w, n) ELSE w
<1>1. CASE lena >= len \div 2
  BY <1>1, CellsKept DEF TakeWrapping
<1>2. CASE ~ (lena >= len \div 2)
  <2>1. Take(d, Places(pbrp, lena) \o Places(0, lenb), lenb)
    BY <1>2 DEF TakeWrapping
  <2>2. Numbers(d)
    <3>1. CASE w.wp < lenb
      <4>1. n \in Nat
        BY <3>1, PCMAssumption DEF Behind, PCMIInv, InRing
      <4>2. pbwp' = Wrapped(w.wp + 2 * n)
        BY <2>1, <3>1 DEF Take, Written, sound_send
      <4>3. Wrapped(w.wp + 2 * n) \in 0..Ring - 1
        BY <4>2, TakeWrappingInv DEF PCMIInv, InRing
      <4>4. d = sound_send(w, n)
        BY <3>1
      <4> HIDE DEF n, d
      <4>5. QED
        BY <4>1, <4>3, <4>4, SendNumbers
    <3>2. CASE ~ (w.wp < lenb)
      BY <3>2
    <3>3. QED
      BY <3>1, <3>2
  <2> HIDE DEF d
  <2>3. QED
    BY <2>1, <2>2, CellsKept
<1>3. QED
  BY <1>1, <1>2

LEMMA SendCells ==
  ASSUME PCMIInv, Cells, NEW clock \in Clocks, DSound_Send0(clock)
  PROVE  Cells' /\ pre' \in 0..Second - 1
<1> DEFINE n == Convert(clock).samples
<1>1. n \in Nat
  BY ConvertType DEF PCMIInv, InRing
<1>2. pre' \in 0..Second - 1
  <2>1. pre + Rate * clock \in Nat
    <3>1. Rate * clock \in Nat
      BY PCMAssumption
    <3>2. QED
      BY <3>1 DEF PCMIInv, InRing
  <2>2. \A p \in Nat : p % Second \in 0..Second - 1
    BY PCMAssumption
  <2>3. QED
    BY <2>1, <2>2 DEF DSound_Send0, Convert
<1>3. /\ ahead + 2 * n < Ring
      /\ Written(sound_send(Writer, n), 0)
  BY DEF DSound_Send0
<1>4. Wrapped(Writer.wp + 2 * n) \in 0..Ring - 1
  BY <1>1, <1>3, PCMAssumption DEF Writer, Wrapped, PCMIInv, InRing
<1> HIDE DEF n
<1>5. Numbers(sound_send(Writer, n))
  BY <1>1, <1>4, SendNumbers DEF Cells
<1>6. QED
  BY <1>2, <1>3, <1>5 DEF Written, Cells, Writer, Numbers

-----------------------------------------------------------------------------
\* What is generated in front of the writer's pointer brings it to or past what
\* is asked for, and not to the reader.
LEMMA RefilledBounds ==
  ASSUME PCMIInv, NEW len \in Lens, pbrp < pbwp
  PROVE  LET w == Refilled(pbwp - pbrp, len)
         IN  /\ w.wp \in 0..Ring - 1 /\ w.wp % 2 = 0
             /\ w.ahead \in (len \div 2)..Ring - 1
             /\ w.wp - pbrp \in {w.ahead, w.ahead - Ring}
             /\ Cells => Numbers(w)
<1> DEFINE w == Refilled(pbwp - pbrp, len)
           m == (len - (pbwp - pbrp)) \div 4
           n == IF pbwp - pbrp < len \div 2 THEN m ELSE 0
<1>0. PICK k \in 1..(Ring \div 4) : len = 4 * k
  BY PCMAssumption
<1>1. len \div 2 = 2 * k /\ 2 * k \in Nat /\ 2 * k <= Ring \div 2
  BY <1>0, PCMAssumption
<1>2. pbwp - pbrp = ahead /\ ahead > 1
  BY PCMAssumption DEF PCMIInv, InRing, PointersCount
<1>3. /\ n \in Nat /\ 2 * n <= Ring \div 2
      /\ ahead + 2 * n >= len \div 2 /\ ahead + 2 * n < Ring
  BY <1>0, <1>1, <1>2, PCMAssumption DEF PCMIInv, InRing
<1>4. w.wp = Wrapped(pbwp + 2 * n) /\ w.ahead = ahead + 2 * n
  BY <1>1, <1>2, PCMAssumption DEF Refilled, sound_send, Writer, Wrapped, PCMIInv, InRing
<1>5. Wrapped(pbwp + 2 * n) \in 0..Ring - 1 /\ Wrapped(pbwp + 2 * n) % 2 = 0
  <2> HIDE DEF n
  <2>1. QED
    BY <1>3, PCMAssumption DEF Wrapped, PCMIInv, InRing
<1>6. Cells => Numbers(w)
  <2>1. CASE pbwp - pbrp < len \div 2
    <3>1. w = sound_send(Writer, m) /\ n = m
      BY <2>1 DEF Refilled
    <3>2. m \in Nat /\ Wrapped(Writer.wp + 2 * m) \in 0..Ring - 1
      BY <1>3, <1>5, <3>1 DEF Writer
    <3> HIDE DEF m, w
    <3>3. QED
      BY <3>1, <3>2, SendNumbers DEF Cells
  <2>2. CASE ~ (pbwp - pbrp < len \div 2)
    BY <2>2 DEF Refilled, Cells
  <2>3. QED
    BY <2>1, <2>2
<1> HIDE DEF w, n
<1>7. w.wp - pbrp \in {w.ahead, w.ahead - Ring}
  BY <1>2, <1>3, <1>4, PCMAssumption DEF Wrapped, PCMIInv, InRing
<1>8. w.ahead \in (len \div 2)..Ring - 1
  BY <1>1, <1>3, <1>4, PCMAssumption DEF PCMIInv, InRing
<1>9. QED
  BY <1>4, <1>5, <1>6, <1>7, <1>8 DEF w

LEMMA CallbackInv ==
  ASSUME PCMIInv, NEW len \in Lens, sdlaudio_callback(len)
  PROVE  PCMIInv' /\ (Cells => Cells')
<1> DEFINE w == Refilled(pbwp - pbrp, len)
           h == len \div 2
<1>0. h \in Nat /\ pbrp \in 0..Ring /\ pbrp \in Int /\ Ring \in Nat
  BY PCMAssumption DEF PCMIInv, InRing
<1>1. CASE pbrp > pbwp
  <2>1. Behind(Writer)
    BY <1>1, PCMAssumption DEF PCMIInv, InRing, PointersCount, Behind, Writer
  <2>2. TakeWrapping(Writer, len)
    BY <1>1 DEF sdlaudio_callback, PCMIInv, InRing
  <2>3. QED
    BY <2>1, <2>2, TakeWrappingInv, TakeWrappingCells DEF Cells
<1>2. CASE pbrp = pbwp
  BY <1>2 DEF sdlaudio_callback, PCMIInv, InRing, PointersCount, Cells, Writer
<1>3. CASE pbrp < pbwp
  <2>1. IF pbrp > w.wp THEN TakeWrapping(w, len) ELSE Take(w, Places(pbrp, h), pbrp + h)
    BY <1>3 DEF sdlaudio_callback, PCMIInv, InRing
  <2>2. /\ w.wp \in 0..Ring - 1 /\ w.wp % 2 = 0
        /\ w.ahead \in h..Ring - 1
        /\ w.wp - pbrp \in {w.ahead, w.ahead - Ring}
        /\ Cells => Numbers(w)
    BY <1>3, RefilledBounds
  <2>3. h % 2 = 0
    BY PCMAssumption
  <2> HIDE DEF w, h
  <2>4. CASE pbrp > w.wp
    <3>1. Behind(w)
      BY <1>0, <2>2, <2>4 DEF Behind
    <3>2. QED
      BY <2>1, <2>2, <2>4, <3>1, TakeWrappingInv, TakeWrappingCells
  <2>5. CASE ~ (pbrp > w.wp)
    <3>1. Take(w, Places(pbrp, h), pbrp + h)
      BY <2>1, <2>5
    <3>2. pbwp' = w.wp /\ ahead' = w.ahead - h /\ pbrp' = pbrp + h /\ pre' = pre
      BY <1>0, <3>1, TakeStep
    <3>3. PCMIInv'
      BY <1>0, <2>2, <2>3, <2>5, <3>2 DEF PCMIInv, InRing, PointersCount
    <3>4. Cells => Cells'
      BY <2>2, <3>1, CellsKept
    <3>5. QED
      BY <3>3, <3>4
  <2>6. QED
    BY <2>4, <2>5
<1>4. QED
  BY <1>1, <1>2, <1>3 DEF PCMIInv, InRing

\* The reader never passes the writer, and equal pointers mean an empty ring,
\* whatever the sizes of the ring and of the requests (sdlaudio_callback).
THEOREM PointersCountAlways == PCMSpec => []PointersCount
<1>1. PCMInit => PCMIInv
  BY PCMInitInv
<1>2. PCMIInv /\ [PCMNext]_pcmVars => PCMIInv'
  <2> SUFFICES ASSUME PCMIInv, [PCMNext]_pcmVars PROVE PCMIInv'
    OBVIOUS
  <2>1. CASE PCMNext
    BY <2>1, SendInv, CallbackInv DEF PCMNext
  <2>2. CASE UNCHANGED pcmVars
    BY <2>2 DEF pcmVars, PCMIInv, InRing, PointersCount
  <2>3. QED
    BY <2>1, <2>2
<1>3. PCMIInv => PointersCount
  BY DEF PCMIInv
<1>4. QED
  BY <1>1, <1>2, <1>3, PTL DEF PCMSpec

\* Type correctness of the ring.
THEOREM PCMTypeCorrect == PCMSpec => []PCMTypeOK
<1> DEFINE I == PCMIInv /\ Cells /\ pre \in 0..Second - 1
<1>1. PCMInit => I
  <2>1. PCMInit => Cells
    BY PCMAssumption, LapsType DEF PCMInit, Cells, Numbers, Writer
  <2>2. PCMInit => pre \in 0..Second - 1
    BY PCMAssumption DEF PCMInit
  <2>3. QED
    BY <2>1, <2>2, PCMInitInv
<1>2. I /\ [PCMNext]_pcmVars => I'
  <2> SUFFICES ASSUME I, [PCMNext]_pcmVars PROVE I'
    OBVIOUS
  <2>1. ASSUME NEW clock \in Clocks, DSound_Send0(clock)
        PROVE  I'
    BY <2>1, SendInv, SendCells
  <2>2. ASSUME NEW len \in Lens, sdlaudio_callback(len)
        PROVE  I'
    <3>1. UNCHANGED pre
      BY <2>2, Zenon DEF sdlaudio_callback, TakeWrapping, Take
    <3>2. QED
      BY <2>2, <3>1, CallbackInv
  <2>3. CASE UNCHANGED pcmVars
    BY <2>3 DEF pcmVars, PCMIInv, InRing, PointersCount, Cells, Writer, Numbers
  <2>4. QED
    BY <2>1, <2>2, <2>3 DEF PCMNext
<1>3. I => PCMTypeOK
  BY DEF PCMIInv, InRing, Cells, Numbers, Writer, PCMTypeOK
<1>4. QED
  BY <1>1, <1>2, <1>3, PTL DEF PCMSpec

-----------------------------------------------------------------------------
(* The order of the words.                                                 *)

\* The k-th place from the reader's pointer on, and a number modulo Laps.
Place(rp, k) == IF rp + k >= Ring THEN rp + k - Ring ELSE rp + k
Num(n) == IF n < 0 THEN n + Laps ELSE IF n >= Laps THEN n - Laps ELSE n

\* The words produced and not heard lie in order from the reader's pointer on.
InPlace(w, rp) ==
  \A k \in 0..w.ahead - 1 : w.cell[Place(rp, k)] = Num(w.next - w.ahead + k)

\* A ring, and numbers modulo twice its length.
LEMMA RingRanges ==
  /\ Ring \in Nat /\ Ring > 1 /\ Laps = 2 * Ring
  /\ \A n \in -Laps..2 * Laps - 1 : n % Laps = Num(n)
  /\ \A n \in -Laps..2 * Laps - 1 : (n + 2 * Laps) % Laps = Num(n)
<1>1. Ring \in Nat /\ Ring > 1 /\ Laps = 2 * Ring
  BY PCMAssumption DEF Laps
<1> DEFINE l == Laps
<1>2. l \in Nat \ {0}
  BY <1>1
<1> HIDE DEF l
<1>3. ASSUME NEW n \in -l..2 * l - 1
      PROVE  n % l = IF n < 0 THEN n + l ELSE IF n >= l THEN n - l ELSE n
  BY <1>2, <1>3
<1>4. ASSUME NEW n \in -l..2 * l - 1
      PROVE  (n + 2 * l) % l = IF n < 0 THEN n + l ELSE IF n >= l THEN n - l ELSE n
  <2>1. CASE n < 0
    BY <1>2, <1>4, <2>1
  <2>2. CASE n >= 0 /\ n < l
    BY <1>2, <1>4, <2>2
  <2>3. CASE n >= l
    BY <1>2, <1>4, <2>3
  <2> QED
    BY <1>2, <1>4, <2>1, <2>2, <2>3
<1> QED
  BY <1>1, <1>3, <1>4 DEF l, Num

LEMMA PlaceIs ==
  ASSUME NEW rp \in 0..Ring, NEW k \in 0..Ring - 1
  PROVE  Place(rp, k) \in 0..Ring - 1
BY RingRanges DEF Place

\* The number of a word does not change when more are produced.
LEMMA NumShift ==
  ASSUME NEW n \in 0..Laps - 1, NEW m \in 0..Ring, NEW a \in -Ring..Ring
  PROVE  Num(((n + m) % Laps) - m + a) = Num(n + a)
<1>1. Ring \in Nat /\ Ring > 1 /\ Laps = 2 * Ring /\ n + m \in -Laps..2 * Laps - 1
  BY RingRanges
<1>2. (n + m) % Laps = IF n + m >= Laps THEN n + m - Laps ELSE n + m
  <2>1. (n + m) % Laps = Num(n + m)
    BY <1>1, RingRanges
  <2>2. Num(n + m) = IF n + m >= Laps THEN n + m - Laps ELSE n + m
    BY <1>1 DEF Num
  <2> QED
    BY <2>1, <2>2, Zenon
<1>3. CASE n + m >= Laps
  <2>1. ((n + m) % Laps) - m + a = n + a - Laps
    BY <1>1, <1>2, <1>3
  <2>2. n + a >= 0 /\ n + a < 2 * Laps
    BY <1>1, <1>3
  <2> QED
    BY <1>1, <2>1, <2>2 DEF Num
<1>4. CASE ~ (n + m >= Laps)
  <2>1. ((n + m) % Laps) - m + a = n + a
    BY <1>1, <1>2, <1>4
  <2> QED
    BY <2>1
<1> QED
  BY <1>3, <1>4

\* A writer's state whose pointer is as far from the reader's as it is ahead.
Counted(w, rp) ==
  /\ rp \in 0..Ring /\ w.ahead \in 0..Ring - 1
  /\ w.wp - rp \in {w.ahead, w.ahead - Ring}

\* What is generated comes behind the words that wait and over none of them.
LEMMA SendInPlace ==
  ASSUME NEW w, NEW rp, Numbers(w), Counted(w, rp), InPlace(w, rp),
         NEW length \in Nat, w.ahead + 2 * length < Ring
  PROVE  InPlace(sound_send(w, length), rp)
<1> DEFINE v == sound_send(w, length)
           m == 2 * length
<1>1. /\ Ring \in Nat /\ Ring > 1 /\ Laps = 2 * Ring
      /\ w.wp \in 0..Ring - 1 /\ w.next \in 0..Laps - 1 /\ w.ahead \in 0..Ring - 1
      /\ rp \in 0..Ring /\ w.wp - rp \in {w.ahead, w.ahead - Ring}
      /\ m \in Nat /\ m \in 0..Ring /\ w.ahead + m < Ring
  <2>1. Ring \in Nat /\ Ring > 1 /\ Laps = 2 * Ring
    BY RingRanges
  <2>2. /\ w.wp \in 0..Ring - 1 /\ w.next \in 0..Laps - 1 /\ w.ahead \in 0..Ring - 1
        /\ rp \in 0..Ring /\ w.wp - rp \in {w.ahead, w.ahead - Ring}
    BY DEF Numbers, Counted
  <2>3. m \in Nat /\ m \in 0..Ring /\ w.ahead + m < Ring
    BY <2>1, <2>2
  <2> QED
    BY <2>1, <2>2, <2>3
<1>2. /\ v.cell = Filled(w.cell, w.wp, m, w.next)
      /\ v.next = (w.next + m) % Laps /\ v.ahead = w.ahead + m
  BY DEF sound_send
<1> SUFFICES InPlace(v, rp)
  OBVIOUS
<1> HIDE DEF m, v
<1>3. SUFFICES ASSUME NEW k \in 0..v.ahead - 1
               PROVE  v.cell[Place(rp, k)] = Num(v.next - v.ahead + k)
  BY DEF InPlace
<1> DEFINE p == Place(rp, k)
           j == IF p >= w.wp THEN p - w.wp ELSE p - w.wp + Ring
           a == k - w.ahead
<1>4. k \in 0..Ring - 1 /\ k \in 0..w.ahead + m - 1 /\ p \in 0..Ring - 1
  BY <1>1, <1>2, PlaceIs
<1>5. v.cell[p] = IF j < m THEN (w.next + j) % Laps ELSE w.cell[p]
  BY <1>2, <1>4 DEF Filled
<1>6. a \in -Ring..Ring /\ a \in Int
  BY <1>1, <1>4
<1>7. Num(v.next - v.ahead + k) = Num(w.next + a)
  <2>1. v.next \in Int
    <3>1. w.next + m \in -Laps..2 * Laps - 1
      BY <1>1
    <3> QED
      BY <1>1, <1>2, <3>1, RingRanges DEF Num
  <2>2. v.next - v.ahead + k = v.next - m + a
    BY <1>1, <1>2, <1>4, <2>1
  <2> HIDE DEF a
  <2>3. Num(((w.next + m) % Laps) - m + a) = Num(w.next + a)
    BY <1>1, <1>6, NumShift
  <2> QED
    BY <1>2, <2>2, <2>3
<1>8. p = IF rp + k >= Ring THEN rp + k - Ring ELSE rp + k
  BY DEF Place
<1>9. CASE k < w.ahead
  <2>1. ~ (j < m)
    BY <1>1, <1>4, <1>8, <1>9
  <2>2. k \in 0..w.ahead - 1 /\ w.next - w.ahead + k = w.next + a
    BY <1>1, <1>4, <1>9
  <2>3. w.cell[p] = Num(w.next - w.ahead + k)
    BY <2>2 DEF InPlace
  <2> HIDE DEF a, p, j
  <2> QED
    BY <1>5, <1>7, <2>1, <2>2, <2>3 DEF p
<1>10. CASE ~ (k < w.ahead)
  <2>1. j < m /\ j = a
    BY <1>1, <1>4, <1>8, <1>10
  <2>2. w.next + a \in -Laps..2 * Laps - 1
    BY <1>1, <1>6, <1>10
  <2> HIDE DEF a, p, j
  <2>3. (w.next + a) % Laps = Num(w.next + a)
    BY <2>2, RingRanges
  <2> QED
    BY <1>5, <1>7, <2>1, <2>3 DEF p
<1> QED
  BY <1>9, <1>10

\* The words of this callback are those after the ones before it.
Order ==
  \A i \in DOMAIN heard' :
    heard'[i] = (next' - ahead' - (Len(heard') - i + 1) + 2 * Laps) % Laps

\* What is taken are the words in front of the reader's pointer, and the others
\* stay where they are.
LEMMA TakeInOrder ==
  ASSUME NEW w, Numbers(w), InPlace(w, pbrp), pbrp \in 0..Ring, w.ahead \in 0..Ring - 1,
         NEW places \in Seq(Int), NEW rp \in 0..Ring, Take(w, places, rp),
         Len(places) <= w.ahead,
         \A i \in 1..Len(places) : places[i] = Place(pbrp, i - 1),
         \A k \in 0..w.ahead - Len(places) - 1 : Place(rp, k) = Place(pbrp, Len(places) + k)
  PROVE  Order /\ InPlace(Writer, pbrp)'
<1> DEFINE n == Len(places)
<1>1. n \in Nat /\ DOMAIN places = 1..n /\ n <= w.ahead
  BY LenProperties
<1>2. /\ heard' = [i \in 1..n |-> w.cell[places[i]]]
      /\ cell' = w.cell /\ next' = w.next /\ ahead' = w.ahead - n /\ pbrp' = rp
  BY <1>1 DEF Take, Written, Hear
<1>3. /\ Ring \in Nat /\ Laps = 2 * Ring /\ w.next \in 0..Laps - 1 /\ w.ahead \in 0..Ring - 1
  BY RingRanges DEF Numbers
<1>4. Len(heard') = n /\ DOMAIN heard' = 1..n
  BY <1>1, <1>2
<1> HIDE DEF n
<1>5. ASSUME NEW i \in 1..n
      PROVE  heard'[i] = (next' - ahead' - (n - i + 1) + 2 * Laps) % Laps
  <2>1. i - 1 \in 0..w.ahead - 1 /\ i \in Int
    BY <1>1, <1>3
  <2>2. heard'[i] = w.cell[Place(pbrp, i - 1)]
    BY <1>2 DEF n
  <2>3. w.cell[Place(pbrp, i - 1)] = Num(w.next - w.ahead + (i - 1))
    BY <2>1 DEF InPlace
  <2> DEFINE e == w.next - w.ahead + (i - 1)
  <2>4. e \in -Laps..2 * Laps - 1
    BY <1>3, <2>1
  <2>5. next' - ahead' - (n - i + 1) = e
    <3>1. w.next \in Int /\ w.ahead \in Int /\ n \in Int /\ i \in Int
      BY <1>1, <1>3
    <3>2. w.next - (w.ahead - n) - (n - i + 1) = e
      BY <3>1
    <3> QED
      BY <1>2, <3>2
  <2> HIDE DEF e
  <2>6. (e + 2 * Laps) % Laps = Num(e)
    BY <2>4, RingRanges
  <2> QED
    BY <2>2, <2>3, <2>5, <2>6 DEF e
<1>6. Order
  BY <1>4, <1>5 DEF Order
<1>7. ASSUME NEW k \in 0..ahead' - 1
      PROVE  cell'[Place(pbrp', k)] = Num(next' - ahead' + k)
  <2>1. n + k \in 0..w.ahead - 1 /\ k \in 0..w.ahead - n - 1
    BY <1>1, <1>2, <1>3
  <2>2. w.cell[Place(pbrp, n + k)] = Num(w.next - w.ahead + (n + k))
    BY <2>1 DEF InPlace
  <2>3. Place(rp, k) = Place(pbrp, n + k)
    BY <2>1 DEF n
  <2>4. next' - ahead' + k = w.next - w.ahead + (n + k)
    <3>1. w.next \in Int /\ w.ahead \in Int /\ n \in Int /\ k \in Int
      BY <1>1, <1>3
    <3>2. w.next - (w.ahead - n) + k = w.next - w.ahead + (n + k)
      BY <3>1
    <3> QED
      BY <1>2, <3>2
  <2> QED
    BY <1>2, <2>2, <2>3, <2>4
<1>8. InPlace(Writer, pbrp)'
  <2>1. InPlace(Writer, pbrp)' = \A k \in 0..ahead' - 1 : cell'[Place(pbrp', k)] = Num(next' - ahead' + k)
    BY DEF InPlace, Writer, Place, Num
  <2> QED
    BY <1>7, <2>1
<1> QED
  BY <1>6, <1>8

\* The places of one piece that does not reach behind the end of the ring.
LEMMA OnePiece ==
  ASSUME PCMIInv, NEW w, Numbers(w), InPlace(w, pbrp), w.ahead \in 0..Ring - 1,
         NEW h \in Nat, h <= w.ahead, pbrp + h <= Ring, pbrp < Ring,
         Take(w, Places(pbrp, h), pbrp + h)
  PROVE  Order /\ InPlace(Writer, pbrp)'
<1> DEFINE places == Places(pbrp, h)
<1>1. pbrp \in 0..Ring /\ Ring \in Nat /\ Ring > 1 /\ pbrp + h \in 0..Ring
  BY RingRanges DEF PCMIInv, InRing
<1>2. places \in Seq(Int) /\ Len(places) = h
  BY <1>1, PlacesLen
<1>3. \A i \in 1..h : places[i] = pbrp + i - 1
  BY <1>1 DEF Places
<1>4. \A i \in 1..h : pbrp + i - 1 = Place(pbrp, i - 1)
  BY <1>1 DEF Place
<1>5. \A k \in 0..w.ahead - h - 1 : Place(pbrp + h, k) = Place(pbrp, h + k)
  BY <1>1 DEF Place
<1> HIDE DEF places
<1> QED
  BY <1>1, <1>2, <1>3, <1>4, <1>5, TakeInOrder DEF places

\* The places of two pieces, up to the end of the ring and from its start.
LEMMA TwoPieces ==
  ASSUME PCMIInv, NEW w, Numbers(w), InPlace(w, pbrp), w.ahead \in 0..Ring - 1,
         NEW b \in Nat, b <= Ring, Ring - pbrp + b <= w.ahead,
         Take(w, Places(pbrp, Ring - pbrp) \o Places(0, b), b)
  PROVE  Order /\ InPlace(Writer, pbrp)'
<1> DEFINE a == Ring - pbrp
           places == Places(pbrp, a) \o Places(0, b)
<1>1. pbrp \in 0..Ring /\ Ring \in Nat /\ Ring > 1 /\ a \in Nat /\ b \in 0..Ring
  BY RingRanges DEF PCMIInv, InRing
<1>2. /\ Places(pbrp, a) \in Seq(Int) /\ Len(Places(pbrp, a)) = a
      /\ Places(0, b) \in Seq(Int) /\ Len(Places(0, b)) = b
  <2>1. pbrp \in Int /\ 0 \in Int
    BY <1>1
  <2> HIDE DEF a
  <2>2. Places(pbrp, a) \in Seq(Int) /\ Len(Places(pbrp, a)) = a
    BY <1>1, <2>1, PlacesLen
  <2>3. Places(0, b) \in Seq(Int) /\ Len(Places(0, b)) = b
    BY <1>1, <2>1, PlacesLen
  <2> QED
    BY <2>2, <2>3
<1>3. /\ places \in Seq(Int) /\ Len(places) = a + b
      /\ \A i \in 1..a + b : places[i] = IF i <= a THEN Places(pbrp, a)[i] ELSE Places(0, b)[i - a]
  <2> DEFINE s == Places(pbrp, a)
             t == Places(0, b)
  <2>1. s \in Seq(Int) /\ Len(s) = a /\ t \in Seq(Int) /\ Len(t) = b
    BY <1>2
  <2> HIDE DEF a, s, t
  <2>2. /\ s \o t \in Seq(Int) /\ Len(s \o t) = a + b
        /\ \A i \in 1..a + b : (s \o t)[i] = IF i <= a THEN s[i] ELSE t[i - a]
    BY <2>1, ConcatProperties
  <2> QED
    BY <2>2 DEF s, t
<1>4. ASSUME NEW i \in 1..a + b
      PROVE  places[i] = Place(pbrp, i - 1)
  <2>1. CASE i <= a
    <3>1. places[i] = Places(pbrp, a)[i] /\ i \in 1..a
      BY <1>1, <1>3, <2>1
    <3>2. Places(pbrp, a)[i] = pbrp + i - 1
      BY <3>1 DEF Places
    <3>3. Place(pbrp, i - 1) = pbrp + i - 1
      BY <1>1, <2>1 DEF Place
    <3> HIDE DEF places, a
    <3> QED
      BY <3>1, <3>2, <3>3
  <2>2. CASE ~ (i <= a)
    <3>1. places[i] = Places(0, b)[i - a] /\ i - a \in 1..b
      BY <1>1, <1>3, <2>2
    <3>2. Places(0, b)[i - a] = 0 + (i - a) - 1
      BY <3>1 DEF Places
    <3>3. Place(pbrp, i - 1) = 0 + (i - a) - 1
      BY <1>1, <2>2 DEF Place
    <3> HIDE DEF places, a
    <3> QED
      BY <3>1, <3>2, <3>3
  <2> QED
    BY <2>1, <2>2
<1>5. \A k \in 0..w.ahead - (a + b) - 1 : Place(b, k) = Place(pbrp, (a + b) + k)
  BY <1>1 DEF Place
<1>6. a + b <= w.ahead
  OBVIOUS
<1>7. Take(w, places, b)
  OBVIOUS
<1> HIDE DEF places, a
<1> QED
  BY <1>1, <1>3, <1>4, <1>5, <1>6, <1>7, TakeInOrder

\* Around the end of the ring, with words generated where they lack.
LEMMA TakeWrappingInOrder ==
  ASSUME PCMIInv, NEW len \in Lens, NEW w, Behind(w), Numbers(w), InPlace(w, pbrp),
         TakeWrapping(w, len)
  PROVE  Order /\ InPlace(Writer, pbrp)'
<1> DEFINE h == len \div 2
           lena == Ring - pbrp
           lenb == h - lena
           n == (lenb - w.wp) \div 2
           d == IF w.wp < lenb THEN sound_send(w, n) ELSE w
<1>0. PICK k \in 1..(Ring \div 4) : len = 4 * k
  BY PCMAssumption
<1>1. h = 2 * k /\ h \in Nat \ {0} /\ 2 * h <= Ring
  BY <1>0, PCMAssumption
<1>2. /\ Ring \in Nat /\ Ring > 1 /\ pbrp \in 0..Ring /\ pbrp % 2 = 0 /\ Ring % 2 = 0
      /\ w.wp \in 0..Ring - 1 /\ w.wp % 2 = 0 /\ w.wp < pbrp
      /\ w.ahead = w.wp - pbrp + Ring /\ w.ahead \in 0..Ring - 1
  BY RingRanges, PCMAssumption DEF PCMIInv, InRing, Behind
<1>3. IF lena >= h THEN Take(w, Places(pbrp, h), pbrp + h)
      ELSE Take(d, Places(pbrp, lena) \o Places(0, lenb), lenb)
  BY DEF TakeWrapping
<1>4. CASE lena >= h
  <2>1. Take(w, Places(pbrp, h), pbrp + h)
    BY <1>3, <1>4
  <2>2. h <= w.ahead /\ pbrp + h <= Ring /\ pbrp < Ring
    BY <1>1, <1>2, <1>4
  <2> HIDE DEF h
  <2> QED
    BY <1>1, <1>2, <2>1, <2>2, OnePiece
<1>5. CASE ~ (lena >= h)
  <2>1. Take(d, Places(pbrp, lena) \o Places(0, lenb), lenb)
    BY <1>3, <1>5
  <2>2. lenb \in Nat /\ lenb <= Ring /\ lenb % 2 = 0
    <3>1. lenb = 2 * k - Ring + pbrp
      BY <1>1, <1>2
    <3> QED
      BY <1>1, <1>2, <1>5, <3>1
  <2>3. CASE w.wp < lenb
    <3>1. n \in Nat /\ 2 * n = lenb - w.wp
      <4> HIDE DEF lenb
      <4> QED
        BY <1>2, <2>2, <2>3
    <3>2. w.ahead + 2 * n = h
      BY <1>1, <1>2, <3>1
    <3>3. d = sound_send(w, n)
      BY <2>3
    <3>4. Wrapped(w.wp + 2 * n) \in 0..Ring - 1
      <4>1. w.wp + 2 * n = lenb /\ lenb < Ring
        BY <1>1, <1>2, <3>1
      <4> HIDE DEF lenb, n
      <4> QED
        BY <1>2, <2>2, <4>1 DEF Wrapped
    <3>5. Counted(w, pbrp)
      <4>1. w.ahead \in Int /\ w.wp \in Int /\ pbrp \in Int /\ Ring \in Int
        BY <1>2
      <4>2. w.wp - pbrp = w.ahead - Ring
        BY <1>2, <4>1
      <4> QED
        BY <1>2, <4>2, Zenon DEF Counted
    <3>6. h < Ring
      BY <1>1, <1>2
    <3> HIDE DEF n, h, lenb
    <3>7. Numbers(d) /\ InPlace(d, pbrp)
      BY <3>1, <3>2, <3>3, <3>4, <3>5, <3>6, SendNumbers, SendInPlace
    <3>8. d.ahead = h
      BY <3>2, <3>3 DEF sound_send
    <3>9. h \in 0..Ring - 1 /\ lena + lenb = h
      BY <1>1, <1>2, <3>6 DEF lenb
    <3> HIDE DEF d
    <3> QED
      BY <2>1, <2>2, <3>7, <3>8, <3>9, TwoPieces
  <2>4. CASE ~ (w.wp < lenb)
    <3>1. d = w
      BY <2>4
    <3>2. lena + lenb <= w.ahead
      BY <1>1, <1>2, <2>4
    <3> HIDE DEF d, lenb
    <3> QED
      BY <1>2, <2>1, <2>2, <3>1, <3>2, TwoPieces
  <2> QED
    BY <2>3, <2>4
<1> QED
  BY <1>4, <1>5

\* The words generated in front of the writer's pointer are in place too.
LEMMA RefilledInPlace ==
  ASSUME PCMIInv, NEW len \in Lens, pbrp < pbwp, Cells, InPlace(Writer, pbrp)
  PROVE  InPlace(Refilled(pbwp - pbrp, len), pbrp)
<1> DEFINE w == Refilled(pbwp - pbrp, len)
           n == (len - (pbwp - pbrp)) \div 4
<1>1. CASE pbwp - pbrp < len \div 2
  <2>1. w = sound_send(Writer, n)
    BY <1>1 DEF Refilled
  <2>2. w.ahead \in Int /\ w.ahead < Ring
    <3>1. w.ahead \in (len \div 2)..Ring - 1
      BY RefilledBounds
    <3>2. len \div 2 \in Int /\ Ring \in Int
      <4>1. len \in Nat
        BY PCMAssumption
      <4> QED
        BY <4>1, RingRanges
    <3> HIDE DEF w
    <3> QED
      BY <3>1, <3>2
  <2>3. w.ahead = ahead + 2 * n
    BY <2>1 DEF sound_send, Writer
  <2>4. n \in Nat
    <3>1. PICK k \in 1..(Ring \div 4) : len = 4 * k
      BY PCMAssumption
    <3>2. len - (pbwp - pbrp) \in Nat
      BY <1>1, <3>1, RingRanges DEF PCMIInv, InRing
    <3> QED
      BY <3>2
  <2>5. Counted(Writer, pbrp)
    BY RingRanges DEF Counted, Writer, PCMIInv, InRing, PointersCount
  <2>6. Writer.ahead + 2 * n < Ring
    BY <2>2, <2>3 DEF Writer
  <2> HIDE DEF n, w
  <2>7. InPlace(w, pbrp)
    BY <2>1, <2>4, <2>5, <2>6, SendInPlace DEF Cells
  <2> QED
    BY <2>7 DEF w
<1>2. CASE ~ (pbwp - pbrp < len \div 2)
  BY <1>2 DEF Refilled
<1> QED
  BY <1>1, <1>2

\* A callback, in each of its cases.
LEMMA CallbackInOrder ==
  ASSUME PCMIInv, Cells, InPlace(Writer, pbrp), NEW len \in Lens, sdlaudio_callback(len)
  PROVE  Order /\ InPlace(Writer, pbrp)'
<1> DEFINE w == Refilled(pbwp - pbrp, len)
           h == len \div 2
<1>0. /\ h \in Nat \ {0} /\ Ring \in Nat /\ Ring > 1 /\ pbrp \in 0..Ring
      /\ pbwp \in 0..Ring - 1 /\ h <= Ring
  <2>1. PICK k \in 1..(Ring \div 4) : len = 4 * k
    BY PCMAssumption
  <2> QED
    BY <2>1, RingRanges, PCMAssumption DEF PCMIInv, InRing
<1>1. CASE pbrp > pbwp
  <2>1. Behind(Writer)
    BY <1>1, PCMAssumption DEF PCMIInv, InRing, PointersCount, Behind, Writer
  <2>2. TakeWrapping(Writer, len)
    BY <1>0, <1>1 DEF sdlaudio_callback
  <2> QED
    BY <2>1, <2>2, TakeWrappingInOrder DEF Cells
<1>2. CASE pbrp = pbwp
  <2>1. heard' = <<>> /\ UNCHANGED <<pbrp, pbwp, cell, pre, next, ahead>>
    BY <1>0, <1>2 DEF sdlaudio_callback
  <2>2. InPlace(Writer, pbrp)' = InPlace(Writer, pbrp)
    BY <2>1 DEF InPlace, Writer, Place, Num
  <2>3. Order
    BY <2>1 DEF Order
  <2> QED
    BY <2>2, <2>3
<1>3. CASE pbrp < pbwp
  <2>1. IF pbrp > w.wp THEN TakeWrapping(w, len) ELSE Take(w, Places(pbrp, h), pbrp + h)
    BY <1>0, <1>3 DEF sdlaudio_callback
  <2>2. /\ w.wp \in 0..Ring - 1 /\ w.wp % 2 = 0
        /\ w.ahead \in h..Ring - 1
        /\ w.wp - pbrp \in {w.ahead, w.ahead - Ring}
        /\ Numbers(w) /\ InPlace(w, pbrp)
    BY <1>3, RefilledBounds, RefilledInPlace
  <2> HIDE DEF w, h
  <2>3. CASE pbrp > w.wp
    <3>1. Behind(w)
      BY <1>0, <2>2, <2>3 DEF Behind
    <3> QED
      BY <2>1, <2>2, <2>3, <3>1, TakeWrappingInOrder
  <2>4. CASE ~ (pbrp > w.wp)
    <3>1. pbrp + h <= Ring /\ pbrp < Ring /\ h <= w.ahead /\ w.ahead \in 0..Ring - 1
      BY <1>0, <2>2, <2>4
    <3> QED
      BY <1>0, <2>1, <2>2, <2>4, <3>1, OnePiece
  <2> QED
    BY <2>3, <2>4
<1> QED
  BY <1>0, <1>1, <1>2, <1>3

\* A line's words come behind those that wait.
LEMMA SendKeepsPlaces ==
  ASSUME PCMIInv, Cells, InPlace(Writer, pbrp), NEW clock \in Clocks, DSound_Send0(clock)
  PROVE  InPlace(Writer, pbrp)' /\ UNCHANGED <<pbrp, heard>>
<1> DEFINE n == Convert(clock).samples
           w == sound_send(Writer, n)
<1>1. n \in Nat
  BY ConvertType DEF PCMIInv, InRing
<1>2. /\ ahead + 2 * n < Ring /\ cell' = w.cell /\ next' = w.next /\ ahead' = w.ahead - 0
      /\ UNCHANGED <<pbrp, heard>>
  BY DEF DSound_Send0, Written
<1>3. Counted(Writer, pbrp) /\ Writer.ahead = ahead
  BY RingRanges DEF Counted, Writer, PCMIInv, InRing, PointersCount
<1> HIDE DEF n
<1>4. InPlace(w, pbrp)
  BY <1>1, <1>2, <1>3, SendInPlace DEF Cells
<1>5. w.ahead - 0 = w.ahead
  BY <1>1, RingRanges DEF sound_send, Writer, PCMIInv, InRing
<1> HIDE DEF w
<1>6. InPlace(Writer, pbrp)' = \A k \in 0..ahead' - 1 : cell'[Place(pbrp', k)] = Num(next' - ahead' + k)
  BY DEF InPlace, Writer, Place, Num
<1> QED
  BY <1>2, <1>4, <1>5, <1>6 DEF InPlace

\* Whatever the sizes of the ring and the requests are, and however
\* sdlaudio_callback and DSound_Send0 alternate, the device hears every word once
\* and in the order of its production.
THEOREM WordsAreInOrder == PCMSpec => InOrder
<1> DEFINE I == PCMIInv /\ Cells /\ InPlace(Writer, pbrp)
<1>1. PCMInit => I
  <2>1. PCMInit => Cells
    BY PCMAssumption, LapsType DEF PCMInit, Cells, Numbers, Writer
  <2>2. PCMInit => InPlace(Writer, pbrp)
    BY DEF PCMInit, InPlace, Writer
  <2> QED
    BY <2>1, <2>2, PCMInitInv
<1>2. I /\ [PCMNext]_pcmVars => I' /\ (Order \/ UNCHANGED <<pbrp, heard>>)
  <2> SUFFICES ASSUME I, [PCMNext]_pcmVars
               PROVE  I' /\ (Order \/ UNCHANGED <<pbrp, heard>>)
    OBVIOUS
  <2>1. ASSUME NEW clock \in Clocks, DSound_Send0(clock)
        PROVE  I' /\ (Order \/ UNCHANGED <<pbrp, heard>>)
    BY <2>1, SendInv, SendCells, SendKeepsPlaces
  <2>2. ASSUME NEW len \in Lens, sdlaudio_callback(len)
        PROVE  I' /\ (Order \/ UNCHANGED <<pbrp, heard>>)
    BY <2>2, CallbackInv, CallbackInOrder
  <2>3. CASE UNCHANGED pcmVars
    BY <2>3 DEF pcmVars, PCMIInv, InRing, PointersCount, Cells, Writer, Numbers, InPlace, Place, Num
  <2> QED
    BY <2>1, <2>2, <2>3 DEF PCMNext
<1>3. I /\ [PCMNext]_pcmVars => [Order]_<<pbrp, heard>>
  BY <1>2
<1> QED
  BY <1>1, <1>2, <1>3, PTL DEF PCMSpec, InOrder, Order
=============================================================================
