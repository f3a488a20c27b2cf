---------------------------- MODULE Level1Proofs -----------------------------
(***************************************************************************)
(* Proofs about the devices that share level 1, for every number of drives *)
(* and blocks, every disk and every set of enable bits: what the I/O       *)
(* controller does to the level, the floppy controller with its drives,    *)
(* and the hard disk interface.                                            *)
(***************************************************************************)
EXTENDS FDC, SASI, IRQHProofs, SequenceTheorems

-----------------------------------------------------------------------------
(* The level the three devices share.                                      *)

Sharers == {FDC_Int, FDD_Int, SASI_Int}

\* Level 1 is wired to the three devices, the other levels to none of them.
Wiring == [l \in Level |-> IF l = 1 THEN Sharers ELSE {}]

\* The line is the highest raised level and its routine one of a sharer.
LevelIsSound == Sound(irqh, Wiring) /\ enabled \subseteq Source

LEMMA LevelIsSoundTypes == LevelIsSound => IOCTypeOK
BY DEF LevelIsSound, IOCTypeOK, Sound

LEMMA IOCInitSound == IOC_Init => LevelIsSound
<1> SUFFICES ASSUME IOC_Init
             PROVE  LevelIsSound
  OBVIOUS
<1>1. irqh \in Controller /\ irqh.IRQ = {} /\ irqh.line = 0 /\ enabled = {}
  BY DEF IOC_Init, PowerOn, Controller
<1> QED
  BY <1>1, HighestPendingType DEF LevelIsSound, Sound

\* A request that passes is the only one the level then knows; one that does
\* not pass leaves no trace.
LEMMA AskEffect ==
  ASSUME NEW q, Sound(q, Wiring), NEW source \in Source, NEW h \in Sharers
  PROVE  /\ Sound(Ask(q, source, h), Wiring)
         /\ source \in enabled => /\ Ask(q, source, h).IRQ = q.IRQ \cup {1}
                                  /\ Ask(q, source, h).CallBack[1] = h
         /\ source \notin enabled => Ask(q, source, h) = q
<1>1. h \in Handler /\ 1 \in Level /\ h \in Wiring[1]
  BY IOCAssumption DEF IOCAssumption, Sharers, Wiring
<1>2. Sound(IRQH_Int(q, 1, h), Wiring)
  BY <1>1, IntSound
<1>3. IRQH_Int(q, 1, h).IRQ = q.IRQ \cup {1} /\ IRQH_Int(q, 1, h).CallBack[1] = h
  BY <1>1 DEF IRQH_Int, Sound, Controller
<1> QED
  BY <1>2, <1>3 DEF Ask

\* An answer withdraws the level for all of its sharers.
LEMMA AnswerEffect ==
  ASSUME LevelIsSound, Answer
  PROVE  LevelIsSound' /\ irqh'.IRQ = irqh.IRQ \ {1}
<1> DEFINE q == AcceptLine(irqh)
           r == IRQH_IRQCallBack(q, 1)
<1>1. q \in Controller /\ q.IRQ = irqh.IRQ /\ q.CallBack = irqh.CallBack
  BY AcceptLineKeeps DEF LevelIsSound, Sound
<1>2. \A k \in q.IRQ : q.CallBack[k] \in Wiring[k]
  BY <1>1 DEF LevelIsSound, Sound
<1>3. Sound(r, Wiring)
  BY <1>1, <1>2, CallBackSound, IOCAssumption DEF IOCAssumption
<1>4. irqh' = r /\ UNCHANGED enabled
  BY <1>3, AfterVectorSound DEF Answer
<1>5. r.IRQ = irqh.IRQ \ {1}
  BY <1>1 DEF IRQH_IRQCallBack, Controller
<1> QED
  BY <1>3, <1>4, <1>5 DEF LevelIsSound

\* A reset leaves no request.
LEMMA IOCResetEffect ==
  ASSUME LevelIsSound, IOC_Reset
  PROVE  LevelIsSound' /\ irqh'.IRQ = {}
<1>1. irqh \in Controller /\ irqh' = IRQH_Init(irqh) /\ enabled' = {}
  BY DEF LevelIsSound, Sound, IOC_Reset
<1>2. Sound(irqh', Wiring)
  BY <1>1, ResetSound
<1>3. irqh'.IRQ = {}
  BY <1>1 DEF IRQH_Init, Controller
<1> QED
  BY <1>1, <1>2, <1>3 DEF LevelIsSound

-----------------------------------------------------------------------------
(* The floppy controller: the inductive invariant.                         *)

ReadWrite == {"Read", "Write"}

\* A transfer that goes on owes what its parameters still ask for, or is one
\* that cannot succeed: it has begun behind its last sector, or it writes to
\* the sector 0, which no disk has.
Owes(cmd, p, t) ==
  cmd \in ReadWrite => (cmd = "Write" /\ p.r = 0) \/ p.r > p.eot \/ t = Asked(p)

\* The phases of the port: parameters, data, results.
PhasesFit ==
  /\ fdc.wrnum > 0 => /\ fdc.bufnum = 0 /\ fdc.rdnum = 0 /\ fdc.rdptr = 0
                      /\ fdc.wrptr + fdc.wrnum = 1 + CMD_TABLE[fdc.cmd]
  /\ fdc.bufnum > 0 => /\ fdc.bufnum = prm.len /\ fdc.rdptr < prm.len /\ fdc.wrptr < prm.len
                       /\ fdc.rdnum = DAT_TABLE[fdc.cmd]
                       /\ fdc.cmd = "Write" => fdc.wexec
                       /\ Owes(fdc.cmd, prm, todo)
  /\ fdc.bufnum = 0 => /\ ~ fdc.wexec
                       /\ fdc.rdnum > 0 => fdc.rdptr + fdc.rdnum = DAT_TABLE[fdc.cmd]

SectorSeq == Seq((0..1) \X Int)

IInv == LevelIsSound /\ TypeOK /\ todo \in SectorSeq /\ PhasesFit /\ CompleteOnSuccess

\* The sectors of one side, from the first to the last.
LEMMA SpanSeq ==
  ASSUME NEW side \in 0..1, NEW first \in Int, NEW last \in Int
  PROVE  /\ Span(side, first, last) \in SectorSeq
         /\ Len(Span(side, first, last)) = IF last < first THEN 0 ELSE last - first + 1
         /\ \A i \in 1..last - first + 1 : Span(side, first, last)[i] = <<side, first + i - 1>>
<1> DEFINE n == IF last < first THEN 0 ELSE last - first + 1
<1>1. n \in Nat /\ 1..last - first + 1 = 1..n
  OBVIOUS
<1>2. \A i \in 1..n : <<side, first + i - 1>> \in (0..1) \X Int
  OBVIOUS
<1>3. Span(side, first, last) = [i \in 1..n |-> <<side, first + i - 1>>]
  BY <1>1, Zenon DEF Span
<1> HIDE DEF n
<1>4. Span(side, first, last) \in SectorSeq /\ Len(Span(side, first, last)) = n
  BY <1>1, <1>2, <1>3 DEF SectorSeq
<1> QED
  BY <1>1, <1>3, <1>4 DEF n

LEMMA ConcatTail ==
  ASSUME NEW S, NEW a \in Seq(S), NEW b \in Seq(S), a # <<>>
  PROVE  /\ a \o b # <<>> /\ Head(a \o b) = Head(a)
         /\ Tail(a \o b) = Tail(a) \o b
<1>1. a \o b \in Seq(S) /\ Len(a \o b) = Len(a) + Len(b) /\ Len(a) > 0
  OBVIOUS
<1>2. Tail(a) \in Seq(S) /\ Len(Tail(a)) = Len(a) - 1
  OBVIOUS
<1>3. Tail(a \o b) \in Seq(S) /\ Tail(a) \o b \in Seq(S) /\ Len(Tail(a \o b)) = Len(Tail(a) \o b)
  BY <1>1, <1>2
<1>4. \A i \in 1..Len(Tail(a \o b)) : Tail(a \o b)[i] = (Tail(a) \o b)[i]
  BY <1>1, <1>2, <1>3
<1> QED
  BY <1>1, <1>3, <1>4, SeqEqual

OtherSide(p) == p.mt /\ p.hd = 0 /\ p.h = 0

LEMMA AskedType ==
  ASSUME NEW p \in Params
  PROVE  Asked(p) \in SectorSeq
<1>1. p.hd \in 0..1 /\ p.r \in Int /\ p.eot \in Int
  BY FDCAssumption DEF FDCAssumption, Params
<1>2. Span(p.hd, p.r, p.eot) \in SectorSeq
  BY <1>1, SpanSeq
<1>3. Span(1, 1, p.eot) \in SectorSeq
  <2>1. 1 \in 0..1 /\ 1 \in Int
    OBVIOUS
  <2> QED
    BY <1>1, <2>1, SpanSeq, Zenon
<1> QED
  BY <1>2, <1>3, EmptySeq, ConcatProperties DEF Asked, SectorSeq

\* The first of the sectors asked for, and what is left without it: the sectors
\* of the next parameters a transfer goes on with, or none.
LEMMA AskedNext ==
  ASSUME NEW p \in Params, p.r <= p.eot
  PROVE  /\ Asked(p) # <<>> /\ Head(Asked(p)) = <<p.hd, p.r>>
         /\ p.r # p.eot => Tail(Asked(p)) = Asked([p EXCEPT !.r = @ + 1])
         /\ p.r = p.eot /\ OtherSide(p) =>
              Tail(Asked(p)) = Asked([p EXCEPT !.hd = 1, !.h = 1, !.r = 1])
         /\ p.r = p.eot /\ ~ OtherSide(p) => Tail(Asked(p)) = <<>>
<1> DEFINE S == (0..1) \X Int
           a == Span(p.hd, p.r, p.eot)
           next == Span(p.hd, p.r + 1, p.eot)
           b == IF OtherSide(p) THEN Span(1, 1, p.eot) ELSE <<>>
<1>1. p.hd \in 0..1 /\ p.r \in Int /\ p.eot \in Int
  BY FDCAssumption DEF FDCAssumption, Params
<1>2. /\ a \in Seq(S) /\ Len(a) = p.eot - p.r + 1
      /\ \A i \in 1..p.eot - p.r + 1 : a[i] = <<p.hd, p.r + i - 1>>
  <2>1. /\ a \in Seq(S) /\ Len(a) = IF p.eot < p.r THEN 0 ELSE p.eot - p.r + 1
        /\ \A i \in 1..p.eot - p.r + 1 : a[i] = <<p.hd, p.r + i - 1>>
    BY <1>1, SpanSeq, Zenon DEF SectorSeq
  <2>2. ~ (p.eot < p.r)
    BY <1>1
  <2> QED
    BY <2>1, <2>2, Zenon
<1>3. /\ next \in Seq(S) /\ Len(next) = p.eot - p.r
      /\ \A i \in 1..p.eot - p.r : next[i] = <<p.hd, p.r + i>>
  <2>1. p.r + 1 \in Int /\ (p.eot < p.r + 1 <=> p.eot - p.r = 0)
        /\ p.eot - (p.r + 1) + 1 = p.eot - p.r
    BY <1>1
  <2>2. /\ next \in Seq(S)
        /\ Len(next) = IF p.eot < p.r + 1 THEN 0 ELSE p.eot - (p.r + 1) + 1
        /\ \A i \in 1..p.eot - (p.r + 1) + 1 : next[i] = <<p.hd, p.r + 1 + i - 1>>
    BY <1>1, <2>1, SpanSeq, Zenon DEF SectorSeq
  <2>3. \A i \in 1..p.eot - p.r : p.r + 1 + i - 1 = p.r + i
    BY <1>1
  <2>4. Len(next) = p.eot - p.r
    <3> HIDE DEF next
    <3> QED
      BY <1>1, <2>1, <2>2
  <2> QED
    BY <2>1, <2>2, <2>3, <2>4, Zenon
<1>4. Span(1, 1, p.eot) \in Seq(S) /\ b \in Seq(S)
  <2>1. 1 \in 0..1 /\ 1 \in Int
    OBVIOUS
  <2>2. Span(1, 1, p.eot) \in Seq(S)
    BY <1>1, <2>1, SpanSeq, Zenon DEF SectorSeq
  <2> QED
    BY <2>2, EmptySeq, Zenon
<1>5. Asked(p) = a \o b
  BY Zenon DEF Asked, OtherSide
<1> HIDE DEF a, next, b, S
<1>6. a # <<>> /\ Head(a) = <<p.hd, p.r>>
  BY <1>1, <1>2
<1>7. Tail(a) = next
  <2>1. Tail(a) \in Seq(S) /\ Len(Tail(a)) = Len(next)
    BY <1>1, <1>2, <1>3, <1>6, HeadTailProperties
  <2>2. \A i \in 1..Len(Tail(a)) : Tail(a)[i] = next[i]
    <3> SUFFICES ASSUME NEW i \in 1..Len(Tail(a))
                 PROVE  Tail(a)[i] = next[i]
      OBVIOUS
    <3>1. i \in 1..p.eot - p.r /\ i + 1 \in 1..p.eot - p.r + 1
      BY <1>1, <1>3, <2>1
    <3>2. Tail(a)[i] = a[i + 1]
      BY <1>2, <1>6, HeadTailProperties
    <3>3. a[i + 1] = <<p.hd, p.r + (i + 1) - 1>> /\ next[i] = <<p.hd, p.r + i>>
      BY <1>2, <1>3, <3>1
    <3> QED
      BY <1>1, <3>1, <3>2, <3>3
  <2> QED
    BY <1>3, <2>1, <2>2, SeqEqual
<1>8. Asked(p) # <<>> /\ Head(Asked(p)) = <<p.hd, p.r>> /\ Tail(Asked(p)) = next \o b
  BY <1>2, <1>4, <1>5, <1>6, <1>7, ConcatTail
<1>9. ASSUME p.r # p.eot
      PROVE  next \o b = Asked([p EXCEPT !.r = @ + 1])
  <2> DEFINE n == [p EXCEPT !.r = @ + 1]
  <2>1. n.hd = p.hd /\ n.r = p.r + 1 /\ n.eot = p.eot /\ (OtherSide(n) <=> OtherSide(p))
    BY DEF Params, OtherSide
  <2> HIDE DEF n
  <2>2. Asked(n) = next \o b
    BY <2>1 DEF Asked, OtherSide, next, b
  <2> QED
    BY <2>2 DEF n
<1>10. ASSUME p.r = p.eot
       PROVE  next = <<>>
  BY <1>1, <1>3, <1>10, EmptySeq
<1>11. ASSUME p.r = p.eot, OtherSide(p)
       PROVE  next \o b = Asked([p EXCEPT !.hd = 1, !.h = 1, !.r = 1])
  <2> DEFINE n == [p EXCEPT !.hd = 1, !.h = 1, !.r = 1]
  <2>1. n.hd = 1 /\ n.r = 1 /\ n.eot = p.eot
    BY DEF Params
  <2> HIDE DEF n
  <2>2. Asked(n) = Span(1, 1, p.eot) \o <<>>
    BY <2>1 DEF Asked
  <2>3. next \o b = Span(1, 1, p.eot)
    BY <1>4, <1>10, <1>11, ConcatEmptySeq DEF b
  <2> QED
    BY <1>4, <2>2, <2>3, ConcatEmptySeq DEF n
<1>12. ASSUME p.r = p.eot, ~ OtherSide(p)
       PROVE  next \o b = <<>>
  BY <1>10, <1>12, ConcatEmptySeq DEF b
<1> QED
  BY <1>8, <1>9, <1>11, <1>12

-----------------------------------------------------------------------------
(* What a command does to the state it works on.                           *)

Works == [f : Controllers, p : Params, t : SectorSeq, q : Controller]

\* A command between two of its steps: it awaits the bytes of one sector or
\* none, and a write awaits bytes that are written.
Steady(s) ==
  /\ s \in Works /\ Sound(s.q, Wiring)
  /\ s.f.bufnum \in {0, s.p.len} /\ s.f.rdptr < s.p.len
  /\ s.f.bufnum = 0 => ~ s.f.wexec /\ s.f.rdptr = 0
  /\ s.f.bufnum > 0 /\ s.f.cmd = "Write" => s.f.wexec

\* What no command touches.
Same(r, s) ==
  /\ r.f.cmd = s.f.cmd /\ r.f.drv = s.f.drv /\ r.f.wrptr = s.f.wrptr
  /\ r.f.rdnum = s.f.rdnum /\ r.f.wrnum = s.f.wrnum
  /\ r.p.len = s.p.len

LEMMA SetIntEffect ==
  ASSUME NEW s, Steady(s)
  PROVE  /\ Steady(SetInt(s))
         /\ SetInt(s).f = s.f /\ SetInt(s).p = s.p /\ SetInt(s).t = s.t
<1>1. Sound(Ask(s.q, "FDC", FDC_Int), Wiring)
  BY AskEffect DEF Steady, Source, Sharers
<1>2. Ask(s.q, "FDC", FDC_Int) \in Controller
  BY <1>1 DEF Sound
<1> QED
  BY <1>1, <1>2 DEF SetInt, Steady, Works

\* The status and the result byte may be set to anything.
WithResult(s, e, b) == [s EXCEPT !.f.err = e, !.f.rsp = b]

LEMMA ResultEffect ==
  ASSUME NEW s, Steady(s), NEW e \in BOOLEAN, NEW b \in BOOLEAN
  PROVE  LET r == WithResult(s, e, b)
         IN  /\ Steady(r) /\ Same(r, s) /\ r.p = s.p /\ r.t = s.t
<1> DEFINE g == [s.f EXCEPT !.err = e, !.rsp = b]
           r == [s EXCEPT !.f.err = e, !.f.rsp = b]
<1>1. s \in Works /\ s.f \in Controllers
  BY DEF Steady, Works
<1>2. /\ g \in Controllers /\ g.err = e /\ g.rsp = b
      /\ g.cmd = s.f.cmd /\ g.drv = s.f.drv /\ g.wrptr = s.f.wrptr /\ g.rdnum = s.f.rdnum
      /\ g.wrnum = s.f.wrnum /\ g.bufnum = s.f.bufnum /\ g.rdptr = s.f.rdptr /\ g.wexec = s.f.wexec
  BY <1>1 DEF Controllers
<1>3. r.f = g /\ r.p = s.p /\ r.t = s.t /\ r.q = s.q /\ (g \in Controllers => r \in Works)
  BY <1>1 DEF Works
<1>0. WithResult(s, e, b) = r
  BY Zenon DEF WithResult
<1> HIDE DEF g, r
<1>4. Steady(r)
  BY <1>2, <1>3 DEF Steady
<1> QED
  BY <1>2, <1>3, <1>4, <1>0 DEF Same

LEMMA ErrEffect ==
  ASSUME NEW s, Steady(s), NEW e \in BOOLEAN
  PROVE  LET r == [s EXCEPT !.f.err = e]
         IN  /\ Steady(r) /\ Same(r, s) /\ r.p = s.p /\ r.t = s.t
             /\ r.f.err = e /\ r.f.rsp = s.f.rsp /\ r.f.bufnum = s.f.bufnum
<1> DEFINE g == [s.f EXCEPT !.err = e]
           r == [s EXCEPT !.f.err = e]
<1>1. s \in Works /\ s.f \in Controllers
  BY DEF Steady, Works
<1>2. /\ g \in Controllers /\ g.err = e /\ g.rsp = s.f.rsp
      /\ g.cmd = s.f.cmd /\ g.drv = s.f.drv /\ g.wrptr = s.f.wrptr /\ g.rdnum = s.f.rdnum
      /\ g.wrnum = s.f.wrnum /\ g.bufnum = s.f.bufnum /\ g.rdptr = s.f.rdptr /\ g.wexec = s.f.wexec
  BY <1>1 DEF Controllers
<1>3. r.f = g /\ r.p = s.p /\ r.t = s.t /\ r.q = s.q /\ (g \in Controllers => r \in Works)
  BY <1>1 DEF Works
<1> HIDE DEF g, r
<1>4. Steady(r)
  BY <1>2, <1>3 DEF Steady
<1> QED
  BY <1>2, <1>3, <1>4 DEF Same, r

LEMMA EPhaseEndEffect ==
  ASSUME NEW s, Steady(s)
  PROVE  LET r == EPhaseEnd(s)
         IN  /\ Steady(r) /\ Same(r, s) /\ r.p = s.p /\ r.t = s.t
             /\ r.f.bufnum = 0 /\ r.f.rsp = s.f.err
<1> DEFINE g == [s.f EXCEPT !.rsp = s.f.err, !.bufnum = 0, !.rdptr = 0, !.wexec = FALSE]
           u == [s EXCEPT !.f.rsp = s.f.err, !.f.bufnum = 0, !.f.rdptr = 0, !.f.wexec = FALSE]
<1>1. s \in Works /\ s.f \in Controllers /\ s.p.len \in Nat \ {0}
  BY DEF Steady, Works, Params
<1>2. /\ g \in Controllers /\ g.rsp = s.f.err
      /\ g.cmd = s.f.cmd /\ g.drv = s.f.drv /\ g.wrptr = s.f.wrptr /\ g.rdnum = s.f.rdnum
      /\ g.wrnum = s.f.wrnum /\ g.bufnum = 0 /\ g.rdptr = 0 /\ g.wexec = FALSE
  BY <1>1 DEF Controllers
<1>3. u.f = g /\ u.p = s.p /\ u.t = s.t /\ u.q = s.q /\ (g \in Controllers => u \in Works)
  BY <1>1 DEF Works
<1>4. EPhaseEnd(s) = SetInt(u)
  BY Zenon DEF EPhaseEnd
<1> HIDE DEF g, u
<1>5. Steady(u)
  BY <1>1, <1>2, <1>3 DEF Steady
<1> QED
  BY <1>2, <1>3, <1>4, <1>5, SetIntEffect DEF Same

LEMMA ExecuteEffect ==
  ASSUME NEW s, Steady(s), NEW writes \in BOOLEAN, s.f.cmd = "Write" => writes
  PROVE  LET r == Execute(s, writes)
         IN  /\ Steady(r) /\ Same(r, s) /\ r.p = s.p /\ r.t = s.t
             /\ r.f.bufnum = s.p.len /\ r.f.err = s.f.err
<1> DEFINE w == writes \/ s.f.wexec
           g == [s.f EXCEPT !.bufnum = s.p.len, !.wexec = w]
           r == [s EXCEPT !.f.bufnum = s.p.len, !.f.wexec = w]
<1>1. s \in Works /\ s.f \in Controllers /\ s.p.len \in Nat \ {0}
  BY DEF Steady, Works, Params
<1>2. w \in BOOLEAN /\ (s.f.cmd = "Write" => w)
  BY Zenon
<1>3. Execute(s, writes) = r
  BY <1>1 DEF Execute, Works, Controllers
<1> HIDE DEF w
<1>4. /\ g \in Controllers /\ g.err = s.f.err
      /\ g.cmd = s.f.cmd /\ g.drv = s.f.drv /\ g.wrptr = s.f.wrptr /\ g.rdnum = s.f.rdnum
      /\ g.wrnum = s.f.wrnum /\ g.bufnum = s.p.len /\ g.rdptr = s.f.rdptr /\ g.wexec = w
  BY <1>1, <1>2 DEF Controllers
<1>5. r.f = g /\ r.p = s.p /\ r.t = s.t /\ r.q = s.q /\ (g \in Controllers => r \in Works)
  BY <1>1 DEF Works
<1> HIDE DEF g, r
<1>6. Steady(r)
  BY <1>1, <1>2, <1>4, <1>5 DEF Steady
<1> QED
  BY <1>3, <1>4, <1>5, <1>6 DEF Same

LEMMA EndIfAbnormalEffect ==
  ASSUME NEW s, Steady(s)
  PROVE  LET r == EndIfAbnormal(s)
         IN  /\ Steady(r) /\ Same(r, s) /\ r.p = s.p /\ r.t = s.t
             /\ s.f.err => r.f.bufnum = 0 /\ r.f.rsp
             /\ ~ s.f.err => r = s
<1>1. CASE s.f.err
  <2>1. EndIfAbnormal(s) = EPhaseEnd(s)
    BY <1>1 DEF EndIfAbnormal
  <2> QED
    BY <1>1, <2>1, EPhaseEndEffect, Zenon
<1>2. CASE ~ s.f.err
  <2>1. EndIfAbnormal(s) = s
    BY <1>2 DEF EndIfAbnormal
  <2> QED
    BY <1>2, <2>1, Zenon DEF Same
<1> QED
  BY <1>1, <1>2, Zenon

\* A command that begins, or goes on with the next sector, awaits its bytes or
\* has failed.  No sector 0 is read.
LEMMA ExecCmdEffect ==
  ASSUME NEW s, Steady(s)
  PROVE  LET r == ExecCmd(s)
         IN  /\ Steady(r) /\ Same(r, s) /\ r.p = s.p /\ r.t = s.t
             /\ s.f.cmd \in ReadWrite /\ r.f.bufnum = 0 => r.f.rsp
             /\ s.f.cmd = "Read" /\ r.f.bufnum > 0 => s.p.r # 0
<1> DEFINE Runs(r) == Steady(r) /\ Same(r, s) /\ r.p = s.p /\ r.t = s.t
           Asks(r) == r.f.bufnum > 0
           z == [s EXCEPT !.f.err = FALSE]
           accessible == FDD_IsReady(z.f.drv) \/ force
           reached == accessible /\ FDD_Seek(z)
           writes == z.f.cmd = "Scan"
<1>1. Runs(z) /\ ~ z.f.err
  BY ErrEffect DEF Same
<1>2. z.f.cmd = s.f.cmd /\ z.f.rsp \in BOOLEAN /\ s.f.err \in BOOLEAN /\ s.p.len > 0
  BY <1>1 DEF Same, Steady, Works, Controllers, Params
<1>3. \A u : Runs(u) => /\ Runs(Fail(u)) /\ Fail(u).f.err
                        /\ Runs(SetInt(u))
                        /\ Runs(EndIfAbnormal(u))
                        /\ u.f.err => EndIfAbnormal(u).f.bufnum = 0 /\ EndIfAbnormal(u).f.rsp
                        /\ ~ u.f.err => EndIfAbnormal(u) = u
  <2> SUFFICES ASSUME NEW u, Runs(u)
               PROVE  /\ Runs(Fail(u)) /\ Fail(u).f.err
                      /\ Runs(SetInt(u))
                      /\ Runs(EndIfAbnormal(u))
                      /\ u.f.err => EndIfAbnormal(u).f.bufnum = 0 /\ EndIfAbnormal(u).f.rsp
                      /\ ~ u.f.err => EndIfAbnormal(u) = u
    BY Zenon
  <2>1. Runs(Fail(u)) /\ Fail(u).f.err
    BY ErrEffect DEF Fail, Same
  <2>2. Runs(SetInt(u))
    BY SetIntEffect DEF Same
  <2>3. Runs(EndIfAbnormal(u))
    BY EndIfAbnormalEffect DEF Same
  <2> QED
    BY <2>1, <2>2, <2>3, EndIfAbnormalEffect, Zenon
<1>4. \A w \in BOOLEAN : (s.f.cmd = "Write" => w) =>
         Runs(Execute(z, w)) /\ Asks(Execute(z, w)) /\ ~ Execute(z, w).f.err
  <2> SUFFICES ASSUME NEW w \in BOOLEAN, s.f.cmd = "Write" => w
               PROVE  Runs(Execute(z, w)) /\ Asks(Execute(z, w)) /\ ~ Execute(z, w).f.err
    BY Zenon
  <2> DEFINE x == Execute(z, w)
  <2>1. /\ Steady(x) /\ Same(x, z) /\ x.p = z.p /\ x.t = z.t
        /\ x.f.bufnum = z.p.len /\ x.f.err = z.f.err
    BY <1>1, <1>2, ExecuteEffect, Zenon
  <2> HIDE DEF x, z
  <2>2. Runs(x) /\ Asks(x) /\ ~ x.f.err
    BY <1>1, <1>2, <2>1 DEF Same
  <2> QED
    BY <2>2 DEF x
<1>5. \A e, b \in BOOLEAN : Runs(WithResult(z, e, b))
  <2> SUFFICES ASSUME NEW e \in BOOLEAN, NEW b \in BOOLEAN
               PROVE  Runs(WithResult(z, e, b))
    BY Zenon
  <2>1. Steady(z)
    BY <1>1, Zenon
  <2> DEFINE x == WithResult(z, e, b)
  <2> HIDE DEF z
  <2>2. Steady(x) /\ Same(x, z) /\ x.p = z.p /\ x.t = z.t
    BY <2>1, ResultEffect, Zenon
  <2> HIDE DEF x
  <2>3. Runs(x)
    BY <1>1, <2>2 DEF Same
  <2> QED
    BY <2>3 DEF x
<1>6. s.p.r = 0 => Sector(z) = "missing"
  <2>1. 0 \notin DOMAIN Disk[s.p.hd]
    BY FDCAssumption DEF FDCAssumption, Steady, Works, Params
  <2> QED
    BY <1>1, <2>1 DEF Sector
<1>7. CASE s.f.cmd = "ReadDiag"
  <2>1. ExecCmd(s) = EndIfAbnormal(IF reached THEN Execute(z, FALSE) ELSE Fail(z))
    BY <1>2, <1>7, Zenon DEF ExecCmd
  <2> DEFINE x == IF reached THEN Execute(z, FALSE) ELSE Fail(z)
  <2> HIDE DEF z, reached, accessible
  <2>2. s.f.cmd # "Write"
    BY <1>7
  <2> HIDE DEF Runs, Asks
  <2>3. Runs(Execute(z, FALSE)) /\ Runs(Fail(z))
    BY <1>1, <1>3, <1>4, <2>2, Zenon
  <2>4. Runs(x)
    BY <2>3
  <2> HIDE DEF x
  <2>5. Runs(ExecCmd(s))
    BY <1>3, <2>1, <2>4, Zenon DEF x
  <2> QED
    BY <1>7, <2>5 DEF ReadWrite, Runs
<1>8. CASE s.f.cmd \in {"Read", "Scan"}
  <2> DEFINE x == IF ~ reached \/ Sector(z) = "missing" THEN Fail(z)
                  ELSE IF Sector(z) = "bad" THEN Fail(Execute(z, writes))
                  ELSE Execute(z, writes)
  <2>1. ExecCmd(s) = EndIfAbnormal(x)
    BY <1>2, <1>8 DEF ExecCmd
  <2>2. writes \in BOOLEAN /\ ~ (s.f.cmd = "Write" /\ ~ writes)
    BY <1>8
  <2> HIDE DEF z, reached, accessible, writes
  <2>3. Runs(Execute(z, writes)) /\ Asks(Execute(z, writes)) /\ ~ Execute(z, writes).f.err
    BY <1>4, <2>2
  <2>4. Runs(x) /\ (x.f.err \/ (Sector(z) # "missing" /\ Asks(x)))
    BY <1>1, <1>3, <2>3
  <2> HIDE DEF x
  <2>5. Runs(EndIfAbnormal(x)) /\ (x.f.err => EndIfAbnormal(x).f.bufnum = 0 /\ EndIfAbnormal(x).f.rsp)
        /\ (~ x.f.err => EndIfAbnormal(x) = x)
    BY <1>3, <2>4, Zenon
  <2> QED
    BY <1>6, <2>1, <2>4, <2>5
<1>9. CASE s.f.cmd = "Write"
  <2> DEFINE x == IF ~ FDD_IsReadOnly(z.f.drv) /\ reached THEN Execute(z, TRUE) ELSE Fail(z)
  <2>1. ExecCmd(s) = EndIfAbnormal(x)
    BY <1>2, <1>9, Zenon DEF ExecCmd
  <2> HIDE DEF z, reached, accessible
  <2>2. Runs(x) /\ (x.f.err \/ Asks(x))
    BY <1>1, <1>3, <1>4
  <2> HIDE DEF x
  <2>3. Runs(EndIfAbnormal(x)) /\ (x.f.err => EndIfAbnormal(x).f.bufnum = 0 /\ EndIfAbnormal(x).f.rsp)
        /\ (~ x.f.err => EndIfAbnormal(x) = x)
    BY <1>3, <2>2, Zenon
  <2> QED
    BY <1>9, <2>1, <2>2, <2>3
<1>10. CASE s.f.cmd = "WriteID"
  <2> DEFINE x == IF ~ FDD_IsReadOnly(z.f.drv) /\ accessible THEN Execute(z, TRUE) ELSE Fail(z)
  <2>1. ExecCmd(s) = EndIfAbnormal(x)
    BY <1>2, <1>10, Zenon DEF ExecCmd
  <2> HIDE DEF z, accessible
  <2>2. Runs(x)
    BY <1>1, <1>3, <1>4, <1>10
  <2> HIDE DEF x
  <2>3. Runs(ExecCmd(s))
    BY <1>3, <2>1, <2>2, Zenon
  <2> QED
    BY <1>10, <2>3 DEF ReadWrite
<1>11. CASE s.f.cmd = "ReadID"
  <2> DEFINE x == WithResult(z, ~ reached, ~ reached)
  <2>1. ExecCmd(s) = SetInt(x)
    BY <1>2, <1>11, Zenon DEF ExecCmd, WithResult
  <2>2. (~ reached) \in BOOLEAN
    BY Zenon
  <2> HIDE DEF z, reached, accessible
  <2>3. Runs(x)
    BY <1>5, <2>2, Zenon
  <2> HIDE DEF x
  <2>4. Runs(ExecCmd(s))
    BY <1>3, <2>1, <2>3, Zenon
  <2> QED
    BY <1>11, <2>4 DEF ReadWrite
<1>12. CASE s.f.cmd \in {"Recalibrate", "Seek"}
  <2>1. ExecCmd(s) = SetInt(z) \/ ExecCmd(s) = SetInt(Fail(z))
    BY <1>2, <1>12 DEF ExecCmd
  <2> HIDE DEF z
  <2>2. Runs(ExecCmd(s))
    BY <1>1, <1>3, <2>1, Zenon
  <2> QED
    BY <1>12, <2>2 DEF ReadWrite
<1>13. CASE s.f.cmd \in {"SenseDevice", "SenseInt"}
  <2> DEFINE x(b) == [z EXCEPT !.f.rsp = b]
  <2>1. \E b \in BOOLEAN : ExecCmd(s) = x(b)
    <3>1. CASE s.f.cmd = "SenseDevice"
      <4>1. ExecCmd(s) = x(FDD_IsReadOnly(z.f.drv))
        BY <1>2, <3>1, Zenon DEF ExecCmd
      <4>2. FDD_IsReadOnly(z.f.drv) \in BOOLEAN
        BY Zenon DEF FDD_IsReadOnly
      <4> QED
        BY <4>1, <4>2, Zenon
    <3>2. CASE s.f.cmd = "SenseInt"
      BY <1>2, <3>2, Zenon DEF ExecCmd
    <3> QED
      BY <1>13, <3>1, <3>2
  <2>2. \A b \in BOOLEAN : x(b) = WithResult(z, FALSE, b)
    BY <1>1 DEF WithResult, Steady, Works, Controllers
  <2> HIDE DEF z
  <2>3. Runs(ExecCmd(s))
    BY <1>5, <2>1, <2>2, Zenon
  <2> QED
    BY <1>13, <2>3 DEF ReadWrite
<1>14. CASE s.f.cmd \in {"Invalid", "Invalid20", "Specify"}
  <2>1. ExecCmd(s) = s
    BY <1>2, <1>14 DEF ExecCmd
  <2> QED
    BY <1>14, <2>1 DEF ReadWrite, Same
<1>15. s.f.cmd \in {"ReadDiag", "Read", "Scan", "Write", "WriteID", "ReadID", "Recalibrate",
                    "Seek", "SenseDevice", "SenseInt", "Invalid", "Invalid20", "Specify"}
  BY DEF Steady, Works, Controllers, Command, CMD_TABLE
<1> HIDE DEF Runs, Asks
<1> QED
  BY <1>7, <1>8, <1>9, <1>10, <1>11, <1>12, <1>13, <1>14, <1>15

LEMMA NextNumber ==
  ASSUME NEW r \in 0..RMod - 1
  PROVE  /\ (r + 1) % RMod \in 0..RMod - 1
         /\ r + 1 < RMod => (r + 1) % RMod = r + 1
         /\ ~ (r + 1 < RMod) => (r + 1) % RMod = 0
         /\ 1 \in 0..RMod - 1
<1>1. RMod \in Nat /\ RMod > 1
  BY FDCAssumption DEF FDCAssumption
<1>2. CASE r + 1 < RMod
  <2>1. (r + 1) % RMod = r + 1
    BY <1>1, <1>2
  <2> QED
    BY <1>1, <1>2, <2>1
<1>3. CASE r + 1 = RMod
  <2>1. RMod % RMod = 0
    BY <1>1
  <2> QED
    BY <1>1, <1>3, <2>1
<1> QED
  BY <1>1, <1>2, <1>3

\* A sector is moved: the next one is awaited, or the transfer has failed, or
\* nothing is left to move.
Goes(cmd, p, t) == cmd \in ReadWrite => p.r > p.eot \/ t = Asked(p)

LEMMA MovedEffect ==
  ASSUME NEW s, Steady(s), Goes(s.f.cmd, s.p, s.t)
  PROVE  LET m == Moved(s)
         IN  /\ Steady(m) /\ Same(m, s) /\ m.p = s.p /\ m.f.err = s.f.err
             /\ s.f.cmd \in ReadWrite /\ s.p.r <= s.p.eot => m.t = Tail(Asked(s.p))
<1> DEFINE m == Moved(s)
<1>1. s \in Works /\ s.t \in SectorSeq /\ s.p \in Params
  BY DEF Steady, Works
<1>2. /\ m.f = s.f /\ m.p = s.p /\ m.q = s.q /\ (m.t \in SectorSeq => m \in Works)
      /\ m.t = IF s.t # <<>> /\ Head(s.t) = <<s.p.hd, s.p.r>> THEN Tail(s.t) ELSE s.t
  BY <1>1 DEF Moved, Works
<1> HIDE DEF m
<1>3. m.t \in SectorSeq
  BY <1>1, <1>2, HeadTailProperties DEF SectorSeq
<1>4. Steady(m)
  BY <1>2, <1>3 DEF Steady
<1>5. ASSUME s.f.cmd \in ReadWrite, s.p.r <= s.p.eot
      PROVE  m.t = Tail(Asked(s.p))
  <2>1. ~ (s.p.r > s.p.eot)
    BY <1>1, <1>5, FDCAssumption DEF FDCAssumption, Params
  <2>2. s.t = Asked(s.p)
    BY <1>5, <2>1 DEF Goes
  <2> QED
    BY <1>1, <1>2, <1>5, <2>2, AskedNext
<1> QED
  BY <1>2, <1>4, <1>5 DEF Same, m

LEMMA NextTrackEffect ==
  ASSUME NEW s, Steady(s), Goes(s.f.cmd, s.p, s.t)
  PROVE  LET x == NextTrack(s)
         IN  /\ Steady(x) /\ Same(x, s)
             /\ x.f.bufnum > 0 => Owes(x.f.cmd, x.p, x.t)
             /\ x.f.bufnum = 0 /\ x.f.cmd \in ReadWrite => x.f.rsp \/ x.t = <<>>
<1> DEFINE m == Moved(s)
           p == s.p
           x == NextTrack(s)
<1>1. /\ Steady(m) /\ Same(m, s) /\ m.p = p
      /\ s.f.cmd \in ReadWrite /\ p.r <= p.eot => m.t = Tail(Asked(p))
  BY MovedEffect, Zenon
<1>2. m \in Works /\ p \in Params /\ p.r \in 0..RMod - 1 /\ p.eot \in 0..RMod - 1 /\ RMod \in Nat
  BY <1>1, FDCAssumption DEF Steady, Works, Params, FDCAssumption
<1> HIDE DEF m
\* It goes on with other parameters, for sectors of the same length.
<1>3. ASSUME NEW p2 \in Params, p2.len = p.len, NEW n, n = [m EXCEPT !.p = p2],
             x = ExecCmd(n),
             s.f.cmd \in ReadWrite => \/ p2.r = 0 \/ p2.r > p2.eot \/ m.t = Asked(p2)
      PROVE  /\ Steady(x) /\ Same(x, s)
             /\ x.f.bufnum > 0 => Owes(x.f.cmd, x.p, x.t)
             /\ x.f.bufnum = 0 /\ x.f.cmd \in ReadWrite => x.f.rsp
  <2>1. n \in Works /\ n.f = m.f /\ n.p = p2 /\ n.t = m.t /\ n.q = m.q
    BY <1>2, <1>3 DEF Works
  <2>2. Steady(n)
    BY <1>1, <1>3, <2>1 DEF Steady
  <2>3. /\ Steady(x) /\ Same(x, n) /\ x.p = p2 /\ x.t = m.t
        /\ n.f.cmd \in ReadWrite /\ x.f.bufnum = 0 => x.f.rsp
        /\ n.f.cmd = "Read" /\ x.f.bufnum > 0 => p2.r # 0
    BY <1>3, <2>1, <2>2, ExecCmdEffect, Zenon
  <2>4. Same(x, s) /\ x.f.cmd = s.f.cmd /\ n.f.cmd = s.f.cmd
    BY <1>1, <1>3, <2>1, <2>3 DEF Same
  <2>5. x.f.bufnum > 0 => Owes(x.f.cmd, x.p, x.t)
    BY <1>3, <2>3, <2>4 DEF Owes, ReadWrite
  <2> QED
    BY <2>3, <2>4, <2>5, Zenon
<1>4. CASE p.r # p.eot
  <2> DEFINE p2 == [p EXCEPT !.r = (@ + 1) % RMod]
             n == [m EXCEPT !.p = p2]
  <2>1. x = ExecCmd([m EXCEPT !.p.r = (@ + 1) % RMod])
    BY <1>1, <1>4 DEF NextTrack, m
  <2>2. [m EXCEPT !.p.r = (@ + 1) % RMod] = n
    BY <1>1, <1>2 DEF Works
  <2>3. (p.r + 1) % RMod \in 0..RMod - 1
    BY <1>2, NextNumber
  <2>4. p2 \in Params /\ p2.len = p.len /\ p2.r = (p.r + 1) % RMod /\ p2.eot = p.eot
    BY <1>2, <2>3 DEF Params
  <2>5. ASSUME s.f.cmd \in ReadWrite
        PROVE  p2.r = 0 \/ p2.r > p2.eot \/ m.t = Asked(p2)
    <3>1. CASE p.r > p.eot
      <4> HIDE DEF p2
      <4> QED
        BY <1>2, <2>4, <3>1, NextNumber
    <3>2. CASE p.r < p.eot
      <4>1. (p.r + 1) % RMod = p.r + 1
        BY <1>2, <3>2, NextNumber
      <4>2. p2 = [p EXCEPT !.r = @ + 1]
        BY <4>1
      <4>3. p.r <= p.eot /\ m.t = Tail(Asked(p))
        BY <1>1, <1>2, <2>5, <3>2
      <4>4. Tail(Asked(p)) = Asked([p EXCEPT !.r = @ + 1])
        BY <1>2, <1>4, <4>3, AskedNext
      <4> QED
        BY <4>2, <4>3, <4>4
    <3> QED
      BY <1>2, <1>4, <3>1, <3>2
  <2> HIDE DEF p2, n, x
  <2> QED
    BY <1>3, <2>1, <2>2, <2>4, <2>5 DEF n, x
<1>5. CASE p.r = p.eot /\ OtherSide(p)
  <2> DEFINE p2 == [p EXCEPT !.hd = 1, !.h = 1, !.r = 1]
             n == [m EXCEPT !.p = p2]
  <2>1. x = ExecCmd([m EXCEPT !.p.hd = 1, !.p.h = 1, !.p.r = 1])
    BY <1>1, <1>5 DEF NextTrack, m, OtherSide
  <2>2. [m EXCEPT !.p.hd = 1, !.p.h = 1, !.p.r = 1] = n
    BY <1>1, <1>2 DEF Works
  <2>3. p2 \in Params /\ p2.len = p.len
    <3>1. 1 \in 0..RMod - 1 /\ 1 \in 0..1
      BY <1>2, NextNumber
    <3> QED
      BY <1>2, <3>1 DEF Params
  <2>4. ASSUME s.f.cmd \in ReadWrite
        PROVE  m.t = Asked(p2)
    <3>1. p.r <= p.eot
      BY <1>2, <1>5
    <3>2. m.t = Tail(Asked(p))
      BY <1>1, <2>4, <3>1
    <3> QED
      BY <1>2, <1>5, <3>1, <3>2, AskedNext, Zenon
  <2> HIDE DEF p2, n, x
  <2> QED
    BY <1>3, <2>1, <2>2, <2>3, <2>4 DEF n, x
<1>6. CASE p.r = p.eot /\ ~ OtherSide(p)
  <2>1. x = EPhaseEnd(m)
    BY <1>1, <1>6 DEF NextTrack, m, OtherSide
  <2>2. Steady(x) /\ Same(x, m) /\ x.t = m.t /\ x.f.bufnum = 0
    BY <1>1, <2>1, EPhaseEndEffect, Zenon
  <2>3. ASSUME s.f.cmd \in ReadWrite
        PROVE  m.t = <<>>
    <3>1. p.r <= p.eot
      BY <1>2, <1>6
    <3>2. m.t = Tail(Asked(p))
      BY <1>1, <2>3, <3>1
    <3> QED
      BY <1>2, <1>6, <3>1, <3>2, AskedNext, Zenon
  <2> HIDE DEF x
  <2> QED
    BY <1>1, <2>2, <2>3 DEF Same, x
<1> QED
  BY <1>4, <1>5, <1>6, Zenon

LEMMA WriteBufferEffect ==
  ASSUME NEW s, Steady(s), s.f.bufnum > 0, Owes(s.f.cmd, s.p, s.t), NEW matches \in BOOLEAN
  PROVE  LET x == WriteBuffer(s, matches)
         IN  /\ Steady(x) /\ Same(x, s)
             /\ x.f.bufnum > 0 => Owes(x.f.cmd, x.p, x.t)
             /\ x.f.bufnum = 0 /\ x.f.cmd \in ReadWrite => x.f.rsp \/ x.t = <<>>
<1> DEFINE x == WriteBuffer(s, matches)
           Goal == /\ Steady(x) /\ Same(x, s)
                   /\ x.f.bufnum > 0 => Owes(x.f.cmd, x.p, x.t)
                   /\ x.f.bufnum = 0 /\ x.f.cmd \in ReadWrite => x.f.rsp \/ x.t = <<>>
<1>1. /\ Steady(Fail(s)) /\ Same(Fail(s), s) /\ Fail(s).p = s.p /\ Fail(s).t = s.t
      /\ Fail(s).f.bufnum = s.f.bufnum
  BY ErrEffect DEF Fail
<1>2. s.p \in Params /\ s.f.bufnum \in Nat
  BY DEF Steady, Works, Controllers
<1>3. CASE s.f.cmd = "Write" /\ Sector(s) = "missing"
  <2>1. x = SetInt(Fail(s))
    BY <1>3 DEF WriteBuffer
  <2>2. Steady(x) /\ x.f = Fail(s).f /\ x.p = s.p /\ x.t = s.t
    BY <1>1, <2>1, SetIntEffect
  <2> HIDE DEF x
  <2>3. Same(x, s) /\ x.f.bufnum = s.f.bufnum /\ x.f.cmd = s.f.cmd
    BY <1>1, <2>2 DEF Same
  <2>4. Goal
    BY <1>2, <2>2, <2>3
  <2> QED
    BY <2>4 DEF x
<1>4. CASE s.f.cmd = "Write" /\ Sector(s) # "missing"
  <2>1. x = NextTrack(s)
    BY <1>4 DEF WriteBuffer
  <2>2. s.p.r # 0
    <3>1. 0 \notin DOMAIN Disk[s.p.hd]
      BY <1>2, FDCAssumption DEF FDCAssumption, Params
    <3> QED
      BY <1>4, <3>1 DEF Sector
  <2>3. Goes(s.f.cmd, s.p, s.t)
    BY <2>2 DEF Goes, Owes
  <2> QED
    BY <2>1, <2>3, NextTrackEffect, Zenon
<1>5. CASE s.f.cmd = "WriteID"
  <2> DEFINE u == IF Present(s.f.drv) /\ matches THEN s ELSE Fail(s)
  <2>1. x = EPhaseEnd(u)
    BY <1>5 DEF WriteBuffer
  <2>2. Steady(u) /\ Same(u, s)
    BY <1>1 DEF Same
  <2> HIDE DEF u, x
  <2>3. Steady(x) /\ Same(x, u) /\ x.f.bufnum = 0
    BY <2>1, <2>2, EPhaseEndEffect, Zenon
  <2>4. Same(x, s) /\ x.f.cmd = s.f.cmd
    BY <2>2, <2>3 DEF Same
  <2>5. Goal
    BY <1>5, <2>3, <2>4 DEF ReadWrite
  <2> QED
    BY <2>5 DEF x
<1>6. CASE s.f.cmd = "Scan"
  <2> DEFINE u == IF matches THEN s ELSE EPhaseEnd(Fail(s))
  <2>1. x = NextTrack(u)
    BY <1>6 DEF WriteBuffer
  <2>2. Steady(EPhaseEnd(Fail(s))) /\ Same(EPhaseEnd(Fail(s)), Fail(s))
    BY <1>1, EPhaseEndEffect, Zenon
  <2>3. Steady(u) /\ Same(u, s)
    BY <1>1, <2>2 DEF Same
  <2> HIDE DEF u, x
  <2>4. u.f.cmd = "Scan"
    BY <1>6, <2>3 DEF Same
  <2>5. Goes(u.f.cmd, u.p, u.t)
    BY <2>4 DEF Goes, ReadWrite
  <2>6. Steady(x) /\ Same(x, u) /\ (x.f.bufnum > 0 => Owes(x.f.cmd, x.p, x.t))
    BY <2>1, <2>3, <2>5, NextTrackEffect, Zenon
  <2>7. Same(x, s) /\ x.f.cmd = "Scan"
    BY <2>3, <2>4, <2>6 DEF Same
  <2>8. Goal
    BY <2>6, <2>7 DEF ReadWrite
  <2> QED
    BY <2>8 DEF x
<1>7. CASE s.f.cmd \notin {"Write", "WriteID", "Scan"}
  <2>1. x = s
    BY <1>7 DEF WriteBuffer
  <2> HIDE DEF x
  <2>2. Goal
    BY <1>2, <2>1 DEF Same
  <2> QED
    BY <2>2 DEF x
<1> QED
  BY <1>3, <1>4, <1>5, <1>6, <1>7

-----------------------------------------------------------------------------
(* The floppy controller: every step keeps the invariant.                  *)

LEMMA FDCRanges ==
  /\ \A c \in Command : CMD_TABLE[c] \in Nat /\ DAT_TABLE[c] \in Nat
  /\ NoPrm \in Params
<1>1. \A c \in Command : CMD_TABLE[c] \in Nat /\ DAT_TABLE[c] \in Nat
  BY DEF Command, CMD_TABLE, DAT_TABLE
<1>2. NoPrm \in Params
  BY FDCAssumption DEF FDCAssumption, NoPrm
<1> QED
  BY <1>1, <1>2

\* The invariant of the phases as a fact about a state that is still worked on.
Fits(s) ==
  /\ s.f.bufnum > 0 => s.f.wrptr < s.p.len /\ s.f.rdnum = DAT_TABLE[s.f.cmd]
                       /\ Owes(s.f.cmd, s.p, s.t)
  /\ s.f.bufnum = 0 /\ s.f.rdnum > 0 => s.f.rdptr + s.f.rdnum = DAT_TABLE[s.f.cmd]
  /\ s.f.bufnum = 0 /\ s.f.cmd \in ReadWrite /\ s.f.rdnum > 0 => s.f.rsp \/ s.t = <<>>

\* A state without parameters to come is one the invariant holds of.
LEMMA SteadyFits ==
  ASSUME NEW s, Steady(s), Fits(s), s.f.wrnum = 0,
         Becomes(s), UNCHANGED <<enabled, force>>, disk' \in Drives, IInv
  PROVE  IInv'
<1>1. s \in Works /\ s.f \in Controllers /\ s.p \in Params /\ s.p.len \in Nat \ {0}
      /\ s.t \in SectorSeq /\ s.q \in Controller
  BY DEF Steady, Works, Params
<1>2. fdc' = s.f /\ prm' = s.p /\ todo' = s.t /\ irqh' = s.q
  BY DEF Becomes
<1>3. LevelIsSound'
  BY <1>2 DEF Steady, LevelIsSound, IInv
<1>4. TypeOK'
  BY <1>1, <1>2 DEF IInv, TypeOK, IOCTypeOK
<1>5. todo' \in SectorSeq
  BY <1>1, <1>2
<1>6. PhasesFit'
  <2>1. s.f.bufnum \in Nat /\ s.f.rdptr \in Nat /\ s.f.rdnum \in Nat
    BY <1>1 DEF Controllers
  <2> QED
    BY <1>1, <1>2, <2>1 DEF PhasesFit, Steady, Fits
<1>7. CompleteOnSuccess'
  BY <1>2 DEF CompleteOnSuccess, Fits, ReadWrite
<1> QED
  BY <1>3, <1>4, <1>5, <1>6, <1>7 DEF IInv

LEMMA StartFits ==
  ASSUME NEW s, Steady(s), s.f.bufnum = 0
  PROVE  LET x == Start(s)
         IN  Steady(x) /\ Fits(x) /\ x.f.wrnum = s.f.wrnum
<1> DEFINE g == [s.f EXCEPT !.wrptr = 0, !.rdnum = DAT_TABLE[s.f.cmd]]
           v == [s EXCEPT !.f.wrptr = 0, !.f.rdnum = DAT_TABLE[s.f.cmd], !.t = Asked(s.p)]
           x == ExecCmd(v)
<1>1. s \in Works /\ s.f \in Controllers /\ s.f.cmd \in Command /\ s.p \in Params
      /\ s.p.len \in Nat \ {0} /\ ~ s.f.wexec /\ s.f.rdptr = 0
  BY DEF Steady, Works, Params, Controllers
<1>2. DAT_TABLE[s.f.cmd] \in Nat /\ Asked(s.p) \in SectorSeq
  BY <1>1, FDCRanges, AskedType
<1>3. /\ g \in Controllers /\ g.wrptr = 0 /\ g.rdnum = DAT_TABLE[s.f.cmd] /\ g.cmd = s.f.cmd
      /\ g.bufnum = 0 /\ ~ g.wexec /\ g.rdptr = 0 /\ g.wrnum = s.f.wrnum
  BY <1>1, <1>2 DEF Controllers
<1>4. v.f = g /\ v.p = s.p /\ v.q = s.q /\ v.t = Asked(s.p) /\ (g \in Controllers => v \in Works)
  BY <1>1, <1>2 DEF Works
<1>5. Start(s) = x
  BY Zenon DEF Start
<1> HIDE DEF g, v
<1>6. Steady(v)
  BY <1>1, <1>3, <1>4 DEF Steady
<1>7. /\ Steady(x) /\ Same(x, v) /\ x.p = v.p /\ x.t = v.t
      /\ v.f.cmd \in ReadWrite /\ x.f.bufnum = 0 => x.f.rsp
  BY <1>6, ExecCmdEffect, Zenon
<1> HIDE DEF x
<1>8. x.f.cmd = s.f.cmd /\ x.f.wrptr = 0 /\ x.f.rdnum = DAT_TABLE[s.f.cmd] /\ x.f.wrnum = s.f.wrnum
  BY <1>3, <1>4, <1>7 DEF Same
<1>9. x.f.bufnum = 0 => x.f.rdptr = 0
  BY <1>7 DEF Steady
<1>10. Fits(x)
  BY <1>1, <1>2, <1>3, <1>4, <1>7, <1>8, <1>9 DEF Fits, Owes
<1> QED
  BY <1>5, <1>7, <1>8, <1>10

\* The state an operation of the port begins with.
LEMMA StateSteady ==
  ASSUME IInv
  PROVE  /\ Steady(State) \/ fdc.bufnum = 0
         /\ State \in Works /\ Sound(irqh, Wiring)
         /\ fdc \in Controllers /\ fdc.cmd \in Command /\ prm \in Params /\ prm.len \in Nat \ {0}
         /\ State.f = fdc /\ State.p = prm /\ State.t = todo /\ State.q = irqh
<1>1. fdc \in Controllers /\ prm \in Params /\ todo \in SectorSeq /\ irqh \in Controller
  BY DEF IInv, TypeOK, IOCTypeOK
<1>2. State.f = fdc /\ State.p = prm /\ State.t = todo /\ State.q = irqh /\ State \in Works
  BY <1>1 DEF State, Works
<1>3. fdc.cmd \in Command /\ prm.len \in Nat \ {0} /\ fdc.bufnum \in Nat
  BY <1>1 DEF Controllers, Params
<1>4. Sound(irqh, Wiring)
  BY DEF IInv, LevelIsSound
<1>5. fdc.bufnum > 0 => Steady(State)
  <2> HIDE DEF State
  <2> QED
    BY <1>2, <1>3, <1>4 DEF Steady, IInv, PhasesFit
<1> QED
  BY <1>1, <1>2, <1>3, <1>4, <1>5

LEMMA WriteCommandStep ==
  ASSUME IInv, NEW c \in Command, WriteCommand(c)
  PROVE  IInv'
<1> DEFINE f == [fdc EXCEPT !.cmd = c, !.rdptr = 0, !.wrptr = 1, !.rdnum = 0,
                            !.wrnum = CMD_TABLE[c]]
           s == [State EXCEPT !.f = f, !.p = NoPrm, !.t = <<>>]
<1>1. State \in Works /\ Sound(irqh, Wiring) /\ fdc \in Controllers /\ State.q = irqh
  BY StateSteady
<1>2. fdc.bufnum = 0 /\ ~ fdc.wexec /\ CMD_TABLE[c] \in Nat /\ NoPrm \in Params
  BY FDCRanges DEF WriteCommand, IInv, PhasesFit
<1>3. /\ f \in Controllers /\ f.cmd = c /\ f.rdptr = 0 /\ f.wrptr = 1 /\ f.rdnum = 0
      /\ f.wrnum = CMD_TABLE[c] /\ f.bufnum = 0 /\ ~ f.wexec
  BY <1>1, <1>2 DEF Controllers
<1>4. s.f = f /\ s.p = NoPrm /\ s.t = <<>> /\ s.q = irqh /\ (f \in Controllers => s \in Works)
  <2>1. <<>> \in SectorSeq
    BY EmptySeq DEF SectorSeq
  <2> QED
    BY <1>1, <1>2, <2>1 DEF Works
<1>5. Becomes(IF f.wrnum = 0 THEN Start(s) ELSE s) /\ UNCHANGED <<enabled, disk, force>>
  BY Zenon DEF WriteCommand
<1> HIDE DEF f, s
<1>6. Steady(s)
  BY <1>1, <1>2, <1>3, <1>4 DEF Steady, Params
<1>7. disk' \in Drives
  BY <1>5 DEF IInv, TypeOK
<1>8. CASE f.wrnum = 0
  <2>1. Steady(Start(s)) /\ Fits(Start(s)) /\ Start(s).f.wrnum = 0
    BY <1>3, <1>4, <1>6, <1>8, StartFits
  <2>2. Becomes(Start(s))
    BY <1>5, <1>8
  <2> QED
    BY <1>5, <1>7, <2>1, <2>2, SteadyFits
<1>9. CASE f.wrnum # 0
  <2>1. fdc' = f /\ prm' = NoPrm /\ todo' = <<>> /\ irqh' = irqh /\ enabled' = enabled /\ force' = force
    BY <1>4, <1>5, <1>9 DEF Becomes
  <2>2. LevelIsSound'
    BY <2>1 DEF LevelIsSound, IInv
  <2>3. TypeOK'
    BY <1>2, <1>3, <1>7, <2>1 DEF TypeOK, IOCTypeOK, IInv
  <2>4. todo' \in SectorSeq
    BY <2>1, EmptySeq DEF SectorSeq
  <2>5. PhasesFit'
    BY <1>2, <1>3, <2>1 DEF PhasesFit
  <2>6. CompleteOnSuccess'
    BY <1>3, <2>1 DEF CompleteOnSuccess
  <2> QED
    BY <2>2, <2>3, <2>4, <2>5, <2>6 DEF IInv
<1> QED
  BY <1>8, <1>9

LEMMA WriteParameterStep ==
  ASSUME IInv, NEW p \in Prm, WriteParameter(p)
  PROVE  IInv'
<1> DEFINE f == [fdc EXCEPT !.wrptr = @ + 1, !.wrnum = @ - 1]
           s == [State EXCEPT !.f = f, !.p = p]
<1>1. State \in Works /\ Sound(irqh, Wiring) /\ fdc \in Controllers /\ State.q = irqh
      /\ State.t = todo /\ fdc.cmd \in Command
  BY StateSteady
<1>2. /\ fdc.bufnum = 0 /\ fdc.wrnum > 0 /\ ~ fdc.wexec /\ fdc.rdnum = 0 /\ fdc.rdptr = 0
      /\ fdc.wrptr + fdc.wrnum = 1 + CMD_TABLE[fdc.cmd] /\ p \in Params /\ p.len \in Nat \ {0}
      /\ CMD_TABLE[fdc.cmd] \in Nat
  BY <1>1, FDCRanges, FDCAssumption DEF WriteParameter, IInv, PhasesFit, FDCAssumption, Params
<1>3. /\ f \in Controllers /\ f.cmd = fdc.cmd /\ f.rdptr = 0 /\ f.wrptr = fdc.wrptr + 1
      /\ f.rdnum = 0 /\ f.wrnum = fdc.wrnum - 1 /\ f.bufnum = 0 /\ ~ f.wexec
      /\ f.wrnum \in Nat /\ fdc.wrptr \in Nat /\ fdc.wrnum \in Nat
  <2>1. fdc.wrptr \in Nat /\ fdc.wrnum \in Nat
    BY <1>1 DEF Controllers
  <2>2. fdc.wrptr + 1 \in Nat /\ fdc.wrnum - 1 \in Nat
    BY <1>2, <2>1
  <2>3. f = [[fdc EXCEPT !.wrptr = fdc.wrptr + 1] EXCEPT !.wrnum = fdc.wrnum - 1]
    BY <1>1 DEF Controllers
  <2> QED
    BY <1>1, <1>2, <2>1, <2>2, <2>3 DEF Controllers
<1>4. s.f = f /\ s.p = p /\ s.t = todo /\ s.q = irqh /\ (f \in Controllers => s \in Works)
  BY <1>1, <1>2 DEF Works
<1>5. Becomes(IF f.wrnum = 0 THEN Start(s) ELSE s) /\ UNCHANGED <<enabled, disk, force>>
  BY Zenon DEF WriteParameter
<1> HIDE DEF f, s
<1>6. Steady(s)
  BY <1>1, <1>2, <1>3, <1>4 DEF Steady
<1>7. disk' \in Drives
  BY <1>5 DEF IInv, TypeOK
<1>8. CASE f.wrnum = 0
  <2>1. Steady(Start(s)) /\ Fits(Start(s)) /\ Start(s).f.wrnum = 0
    BY <1>3, <1>4, <1>6, <1>8, StartFits
  <2>2. Becomes(Start(s))
    BY <1>5, <1>8
  <2> QED
    BY <1>5, <1>7, <2>1, <2>2, SteadyFits
<1>9. CASE f.wrnum # 0
  <2>1. fdc' = f /\ prm' = p /\ todo' = todo /\ irqh' = irqh /\ enabled' = enabled /\ force' = force
    BY <1>4, <1>5, <1>9 DEF Becomes
  <2>2. LevelIsSound'
    BY <2>1 DEF LevelIsSound, IInv
  <2>3. TypeOK' /\ todo' \in SectorSeq
    BY <1>2, <1>3, <1>7, <2>1 DEF TypeOK, IOCTypeOK, IInv
  <2>4. PhasesFit'
    BY <1>2, <1>3, <2>1 DEF PhasesFit
  <2>5. CompleteOnSuccess'
    BY <1>3, <2>1 DEF CompleteOnSuccess
  <2> QED
    BY <2>2, <2>3, <2>4, <2>5 DEF IInv
<1> QED
  BY <1>8, <1>9

LEMMA WriteDataStep ==
  ASSUME IInv, NEW matches \in BOOLEAN, WriteData(matches)
  PROVE  IInv'
<1> DEFINE g == [fdc EXCEPT !.wrptr = @ + 1]
           s == [State EXCEPT !.f.wrptr = @ + 1]
           b == WriteBuffer(s, matches)
           w == [b EXCEPT !.f.wrptr = 0]
<1>1. /\ State \in Works /\ Sound(irqh, Wiring) /\ fdc \in Controllers /\ State.q = irqh
      /\ State.f = fdc /\ State.p = prm /\ State.t = todo /\ fdc.cmd \in Command
      /\ prm \in Params /\ prm.len \in Nat \ {0}
  BY StateSteady
<1>2. fdc.wrptr \in Nat /\ fdc.wrnum \in Nat /\ fdc.bufnum \in Nat
  BY <1>1 DEF Controllers
<1>3. /\ fdc.bufnum > 0 /\ fdc.wexec /\ fdc.wrnum = 0 /\ fdc.bufnum = prm.len
      /\ fdc.rdptr < prm.len /\ fdc.wrptr < prm.len /\ fdc.rdnum = DAT_TABLE[fdc.cmd]
      /\ Owes(fdc.cmd, prm, todo)
  BY <1>2 DEF WriteData, IInv, PhasesFit
<1>4. /\ g \in Controllers /\ g.cmd = fdc.cmd /\ g.rdptr = fdc.rdptr /\ g.wrptr = fdc.wrptr + 1
      /\ g.rdnum = fdc.rdnum /\ g.wrnum = 0 /\ g.bufnum = fdc.bufnum /\ g.wexec = fdc.wexec
      /\ g.rsp = fdc.rsp
  <2>1. fdc.wrptr + 1 \in Nat
    BY <1>2
  <2> QED
    BY <1>1, <1>3, <2>1 DEF Controllers
<1>5. s.f = g /\ s.p = prm /\ s.t = todo /\ s.q = irqh /\ (g \in Controllers => s \in Works)
  BY <1>1 DEF Works
<1>6. Becomes(IF s.f.wrptr < fdc.bufnum THEN s ELSE w) /\ UNCHANGED <<enabled, disk, force>>
  BY Zenon DEF WriteData
<1>7. disk' \in Drives
  BY <1>6 DEF IInv, TypeOK
<1> HIDE DEF g, s
<1>8. Steady(s)
  BY <1>1, <1>3, <1>4, <1>5 DEF Steady
<1>9. CASE s.f.wrptr < fdc.bufnum
  <2>1. Becomes(s)
    BY <1>6, <1>9
  <2>2. Fits(s)
    BY <1>3, <1>4, <1>5, <1>9 DEF Fits
  <2> QED
    BY <1>4, <1>5, <1>6, <1>7, <1>8, <2>1, <2>2, SteadyFits
<1>10. CASE ~ (s.f.wrptr < fdc.bufnum)
  <2>1. /\ Steady(b) /\ Same(b, s)
        /\ b.f.bufnum > 0 => Owes(b.f.cmd, b.p, b.t)
        /\ b.f.bufnum = 0 /\ b.f.cmd \in ReadWrite => b.f.rsp \/ b.t = <<>>
    <3>1. s.f.bufnum > 0 /\ Owes(s.f.cmd, s.p, s.t)
      BY <1>3, <1>4, <1>5
    <3> QED
      BY <1>8, <3>1, WriteBufferEffect, Zenon
  <2>2. b.f.cmd = fdc.cmd /\ b.f.rdnum = DAT_TABLE[fdc.cmd] /\ b.f.wrnum = 0
    BY <1>3, <1>4, <1>5, <2>1 DEF Same
  <2> HIDE DEF b
  <2> DEFINE h == [b.f EXCEPT !.wrptr = 0]
  <2>3. b \in Works /\ b.f \in Controllers /\ b.p.len \in Nat \ {0}
    BY <2>1 DEF Steady, Works, Params
  <2>4. /\ h \in Controllers /\ h.cmd = b.f.cmd /\ h.rdptr = b.f.rdptr /\ h.wrptr = 0
        /\ h.rdnum = b.f.rdnum /\ h.wrnum = b.f.wrnum /\ h.bufnum = b.f.bufnum
        /\ h.wexec = b.f.wexec /\ h.rsp = b.f.rsp
    BY <2>3 DEF Controllers
  <2>5. w.f = h /\ w.p = b.p /\ w.t = b.t /\ w.q = b.q /\ (h \in Controllers => w \in Works)
    BY <2>3 DEF Works
  <2> HIDE DEF h, w
  <2>6. Steady(w)
    BY <2>1, <2>4, <2>5 DEF Steady
  <2>7. w.f.bufnum = 0 => w.f.rdptr = 0
    BY <2>6 DEF Steady
  <2>8. DAT_TABLE[fdc.cmd] \in Nat
    BY <1>1, FDCRanges
  <2>9. Fits(w)
    BY <2>1, <2>2, <2>3, <2>4, <2>5, <2>7, <2>8 DEF Fits
  <2>10. Becomes(w)
    BY <1>6, <1>10
  <2> QED
    BY <1>6, <1>7, <2>2, <2>4, <2>5, <2>6, <2>9, <2>10, SteadyFits
<1> QED
  BY <1>9, <1>10

LEMMA ReadDataStep ==
  ASSUME IInv, ReadData
  PROVE  IInv'
<1> DEFINE g == [fdc EXCEPT !.rdptr = @ + 1]
           s == [State EXCEPT !.f.rdptr = @ + 1]
           h == [g EXCEPT !.rdptr = 0]
           v == [s EXCEPT !.f.rdptr = 0]
           x == NextTrack(v)
<1>1. /\ State \in Works /\ Sound(irqh, Wiring) /\ fdc \in Controllers /\ State.q = irqh
      /\ State.f = fdc /\ State.p = prm /\ State.t = todo /\ fdc.cmd \in Command
      /\ prm \in Params /\ prm.len \in Nat \ {0}
  BY StateSteady
<1>2. fdc.rdptr \in Nat /\ fdc.wrnum \in Nat /\ fdc.bufnum \in Nat
  BY <1>1 DEF Controllers
<1>3. /\ fdc.bufnum > 0 /\ ~ fdc.wexec /\ fdc.wrnum = 0 /\ fdc.bufnum = prm.len
      /\ fdc.wrptr < prm.len /\ fdc.rdnum = DAT_TABLE[fdc.cmd]
      /\ Owes(fdc.cmd, prm, todo) /\ fdc.cmd # "Write"
  BY <1>2 DEF ReadData, IInv, PhasesFit
<1>4. /\ g \in Controllers /\ g.cmd = fdc.cmd /\ g.rdptr = fdc.rdptr + 1 /\ g.wrptr = fdc.wrptr
      /\ g.rdnum = fdc.rdnum /\ g.wrnum = 0 /\ g.bufnum = fdc.bufnum /\ ~ g.wexec
  <2>1. fdc.rdptr + 1 \in Nat
    BY <1>2
  <2> QED
    BY <1>1, <1>3, <2>1 DEF Controllers
<1>5. s.f = g /\ s.p = prm /\ s.t = todo /\ s.q = irqh /\ (g \in Controllers => s \in Works)
  BY <1>1 DEF Works
<1>6. Becomes(IF s.f.rdptr < fdc.bufnum THEN s ELSE x) /\ UNCHANGED <<enabled, disk, force>>
  BY Zenon DEF ReadData
<1>7. disk' \in Drives
  BY <1>6 DEF IInv, TypeOK
<1> HIDE DEF g, s
<1>8. CASE s.f.rdptr < fdc.bufnum
  <2>1. Becomes(s)
    BY <1>6, <1>8
  <2>2. Steady(s)
    BY <1>1, <1>3, <1>4, <1>5, <1>8 DEF Steady
  <2>3. Fits(s)
    BY <1>3, <1>4, <1>5 DEF Fits
  <2> QED
    BY <1>4, <1>5, <1>6, <1>7, <2>1, <2>2, <2>3, SteadyFits
<1>9. CASE ~ (s.f.rdptr < fdc.bufnum)
  <2>1. /\ h \in Controllers /\ h.cmd = fdc.cmd /\ h.rdptr = 0 /\ h.wrptr = fdc.wrptr
        /\ h.rdnum = fdc.rdnum /\ h.wrnum = 0 /\ h.bufnum = fdc.bufnum /\ ~ h.wexec
    BY <1>4 DEF Controllers
  <2>2. v.f = h /\ v.p = prm /\ v.t = todo /\ v.q = irqh /\ (h \in Controllers => v \in Works)
    BY <1>4, <1>5 DEF Works
  <2> HIDE DEF h, v
  <2>3. Steady(v)
    BY <1>1, <1>3, <2>1, <2>2 DEF Steady
  <2>4. Goes(v.f.cmd, v.p, v.t)
    BY <1>3, <2>1, <2>2 DEF Goes, Owes
  <2>5. /\ Steady(x) /\ Same(x, v)
        /\ x.f.bufnum > 0 => Owes(x.f.cmd, x.p, x.t)
        /\ x.f.bufnum = 0 /\ x.f.cmd \in ReadWrite => x.f.rsp \/ x.t = <<>>
    BY <2>3, <2>4, NextTrackEffect, Zenon
  <2> HIDE DEF x
  <2>6. /\ x.f.cmd = fdc.cmd /\ x.f.rdnum = DAT_TABLE[fdc.cmd] /\ x.f.wrnum = 0
        /\ x.f.wrptr < x.p.len
    BY <1>3, <2>1, <2>2, <2>5 DEF Same
  <2>7. x.f.bufnum = 0 => x.f.rdptr = 0
    BY <2>5 DEF Steady
  <2>8. DAT_TABLE[fdc.cmd] \in Nat
    BY <1>1, FDCRanges
  <2>9. Fits(x)
    BY <2>5, <2>6, <2>7, <2>8 DEF Fits
  <2>10. Becomes(x)
    BY <1>6, <1>9
  <2> QED
    BY <1>6, <1>7, <2>5, <2>6, <2>9, <2>10, SteadyFits
<1> QED
  BY <1>8, <1>9

LEMMA ReadResultStep ==
  ASSUME IInv, ReadResult
  PROVE  IInv'
<1>1. /\ fdc \in Controllers /\ fdc.bufnum = 0 /\ fdc.rdnum > 0 /\ fdc.wrnum = 0 /\ ~ fdc.wexec
      /\ fdc.rdptr + fdc.rdnum = DAT_TABLE[fdc.cmd]
  <2>1. fdc \in Controllers /\ fdc.wrnum \in Nat
    BY DEF IInv, TypeOK, Controllers
  <2> QED
    BY <2>1 DEF ReadResult, IInv, PhasesFit
<1>2. fdc.rdptr \in Nat /\ fdc.rdnum \in Nat
  BY <1>1 DEF Controllers
<1>3. fdc.rdptr + 1 \in Nat /\ fdc.rdnum - 1 \in Nat
  BY <1>1, <1>2
<1>4. fdc' = [[fdc EXCEPT !.rdptr = fdc.rdptr + 1] EXCEPT !.rdnum = fdc.rdnum - 1]
  BY <1>1 DEF ReadResult, Controllers
<1>5. /\ fdc' \in Controllers /\ fdc'.cmd = fdc.cmd /\ fdc'.bufnum = 0 /\ fdc'.wrnum = 0
      /\ ~ fdc'.wexec /\ fdc'.rdptr = fdc.rdptr + 1 /\ fdc'.rdnum = fdc.rdnum - 1
      /\ fdc'.rsp = fdc.rsp
  BY <1>1, <1>3, <1>4 DEF Controllers
<1>6. UNCHANGED <<irqh, enabled, prm, todo, disk, force>>
  BY DEF ReadResult
<1>7. LevelIsSound'
  BY <1>6 DEF IInv, LevelIsSound
<1>8. TypeOK' /\ todo' \in SectorSeq
  BY <1>5, <1>6 DEF IInv, TypeOK, IOCTypeOK
<1>9. PhasesFit'
  BY <1>1, <1>2, <1>5 DEF PhasesFit
<1>10. CompleteOnSuccess'
  BY <1>1, <1>5, <1>6 DEF IInv, CompleteOnSuccess
<1> QED
  BY <1>7, <1>8, <1>9, <1>10 DEF IInv

\* What does not touch the port: the drives, the interrupt.
LEMMA OtherStep ==
  ASSUME IInv, UNCHANGED <<fdc, prm, todo>>, LevelIsSound',
         disk' \in Drives, force' \in BOOLEAN
  PROVE  IInv'
<1>1. TypeOK' /\ todo' \in SectorSeq
  BY DEF IInv, TypeOK, IOCTypeOK, LevelIsSound, Sound
<1>2. PhasesFit' /\ CompleteOnSuccess'
  BY DEF IInv, PhasesFit, CompleteOnSuccess
<1> QED
  BY <1>1, <1>2 DEF IInv

LEMMA SelectDriveStep ==
  ASSUME IInv, NEW d \in Drive \cup {NoDrive}, SelectDrive(d)
  PROVE  IInv'
<1>1. fdc \in Controllers /\ fdc' = [fdc EXCEPT !.drv = d]
      /\ UNCHANGED <<irqh, enabled, prm, todo, disk, force>>
  BY DEF IInv, TypeOK, SelectDrive
<1>2. /\ fdc' \in Controllers /\ fdc'.cmd = fdc.cmd /\ fdc'.bufnum = fdc.bufnum
      /\ fdc'.wrnum = fdc.wrnum /\ fdc'.wexec = fdc.wexec /\ fdc'.rdptr = fdc.rdptr
      /\ fdc'.wrptr = fdc.wrptr /\ fdc'.rdnum = fdc.rdnum /\ fdc'.rsp = fdc.rsp
  BY <1>1 DEF Controllers
<1>3. LevelIsSound' /\ TypeOK' /\ todo' \in SectorSeq
  BY <1>1, <1>2 DEF IInv, LevelIsSound, TypeOK, IOCTypeOK
<1>4. PhasesFit'
  BY <1>1, <1>2 DEF IInv, PhasesFit
<1>5. CompleteOnSuccess'
  BY <1>1, <1>2 DEF IInv, CompleteOnSuccess
<1> QED
  BY <1>3, <1>4, <1>5 DEF IInv

\* The controller without a command.
Idle == /\ LevelIsSound /\ disk \in Drives
        /\ fdc = FDC_Init /\ prm = NoPrm /\ todo = <<>> /\ force = FALSE

LEMMA FDCIdle == Idle => IInv
<1> SUFFICES ASSUME Idle
             PROVE  IInv
  OBVIOUS
<1>0. /\ LevelIsSound /\ disk \in Drives
      /\ fdc = FDC_Init /\ prm = NoPrm /\ todo = <<>> /\ force = FALSE
  BY DEF Idle
<1>1. fdc \in Controllers /\ fdc.bufnum = 0 /\ fdc.wrnum = 0 /\ fdc.rdnum = 0 /\ ~ fdc.wexec
  BY <1>0, FDCAssumption DEF FDC_Init, Controllers, Command, CMD_TABLE, FDCAssumption
<1>2. TypeOK
  BY <1>0, <1>1, FDCRanges DEF TypeOK, IOCTypeOK, LevelIsSound, Sound
<1>3. todo \in SectorSeq
  BY <1>0, EmptySeq DEF SectorSeq
<1>4. PhasesFit /\ CompleteOnSuccess
  BY <1>1 DEF PhasesFit, CompleteOnSuccess
<1> QED
  BY <1>0, <1>2, <1>3, <1>4 DEF IInv

\* The drives ask through the I/O controller.
LEMMA DriveAsks ==
  ASSUME LevelIsSound, UNCHANGED enabled,
         irqh' = Ask(irqh, "FDD", FDD_Int) \/ irqh' = irqh
  PROVE  LevelIsSound'
<1>1. Sound(Ask(irqh, "FDD", FDD_Int), Wiring)
  BY AskEffect DEF LevelIsSound, Source, Sharers
<1> QED
  BY <1>1 DEF LevelIsSound

LEMMA IInvStep == IInv /\ [Next]_vars => IInv'
<1> SUFFICES ASSUME IInv, [Next]_vars
             PROVE  IInv'
  OBVIOUS
<1>1. disk \in Drives /\ force \in BOOLEAN /\ LevelIsSound /\ disk \in [Drive -> [in : BOOLEAN, ROnly : BOOLEAN, SetDelay : 0..3]]
  BY DEF IInv, TypeOK, Drives
<1>2. ASSUME NEW c \in Command, WriteCommand(c)
      PROVE  IInv'
  BY <1>2, WriteCommandStep
<1>3. ASSUME NEW p \in Prm, WriteParameter(p)
      PROVE  IInv'
  BY <1>3, WriteParameterStep
<1>4. CASE MoveData
  BY <1>4, ReadDataStep, WriteDataStep DEF MoveData
<1>5. CASE ReadResult
  BY <1>5, ReadResultStep
<1>6. ASSUME NEW d \in Drive \cup {NoDrive}, SelectDrive(d)
      PROVE  IInv'
  BY <1>6, SelectDriveStep
<1>7. ASSUME NEW on \in BOOLEAN, SetForceReady(on)
      PROVE  IInv'
  <2>1. UNCHANGED <<irqh, enabled, fdc, prm, todo, disk>> /\ force' \in BOOLEAN
    BY <1>7 DEF SetForceReady
  <2>2. LevelIsSound'
    BY <1>1, <2>1 DEF LevelIsSound
  <2> QED
    BY <1>1, <2>1, <2>2, OtherStep
<1>8. ASSUME NEW D \in SUBSET Drive, Eject(D)
      PROVE  IInv'
  <2>1. /\ UNCHANGED <<enabled, fdc, prm, todo, force>>
        /\ irqh' = Ask(irqh, "FDD", FDD_Int) \/ irqh' = irqh
    BY <1>8 DEF Eject, Ejected
  <2>2. \A d \in Drive : EjectFD(d) \in [in : BOOLEAN, ROnly : BOOLEAN, SetDelay : 0..3]
    BY <1>1 DEF EjectFD
  <2>3. disk' \in Drives
    BY <1>1, <1>8, <2>2 DEF Eject, Drives
  <2> QED
    BY <1>1, <2>1, <2>3, DriveAsks, OtherStep
<1>9. ASSUME NEW d \in Drive, NEW readonly \in BOOLEAN, NEW readable \in BOOLEAN,
             Insert(d, readonly, readable)
      PROVE  IInv'
  <2>1. /\ UNCHANGED <<enabled, fdc, prm, todo, force>>
        /\ irqh' = Ask(irqh, "FDD", FDD_Int) \/ irqh' = irqh
    BY <1>9 DEF Insert, Ejected
  <2>2. EjectFD(d) \in [in : BOOLEAN, ROnly : BOOLEAN, SetDelay : 0..3]
    BY <1>1 DEF EjectFD
  <2>3. Inserted(d, readonly) \in [in : BOOLEAN, ROnly : BOOLEAN, SetDelay : 0..3]
    BY DEF Inserted
  <2>4. disk' \in Drives
    BY <1>1, <1>9, <2>2, <2>3 DEF Insert, Drives
  <2> QED
    BY <1>1, <2>1, <2>4, DriveAsks, OtherStep
<1>10. CASE EndFrame
  <2>1. /\ UNCHANGED <<enabled, fdc, prm, todo, force>>
        /\ irqh' = Ask(irqh, "FDD", FDD_Int) \/ irqh' = irqh
    BY <1>10 DEF EndFrame
  <2>2. \A d \in Drive : Tick(d) \in [in : BOOLEAN, ROnly : BOOLEAN, SetDelay : 0..3]
    BY <1>1 DEF Tick
  <2>3. disk' \in Drives
    BY <1>10, <2>2 DEF EndFrame, Drives
  <2> QED
    BY <1>1, <2>1, <2>3, DriveAsks, OtherStep
<1>11. ASSUME NEW e \in EnableSets, SetEnabled(e)
       PROVE  IInv'
  <2>1. LevelIsSound'
    BY <1>1, <1>11, FDCAssumption DEF SetEnabled, IOC_Write, LevelIsSound, FDCAssumption
  <2> QED
    BY <1>1, <1>11, <2>1, OtherStep DEF SetEnabled
<1>12. CASE Acknowledge
  BY <1>1, <1>12, AnswerEffect, OtherStep DEF Acknowledge
<1>13. CASE Reset
  <2>1. LevelIsSound' /\ disk' \in Drives
    BY <1>1, <1>13, IOCResetEffect DEF Reset
  <2>2. fdc' = FDC_Init /\ prm' = NoPrm /\ todo' = <<>> /\ force' = FALSE
    BY <1>13 DEF Reset
  <2>3. Idle'
    BY <2>1, <2>2 DEF Idle
  <2> QED
    BY <2>3, FDCIdle, PTL
<1>14. CASE UNCHANGED vars
  <2>1. UNCHANGED <<irqh, enabled, fdc, prm, todo, disk, force>>
    BY <1>14 DEF vars
  <2>2. LevelIsSound'
    BY <1>1, <2>1 DEF LevelIsSound
  <2> QED
    BY <1>1, <2>1, <2>2, OtherStep
<1> QED
  BY <1>2, <1>3, <1>4, <1>5, <1>6, <1>7, <1>8, <1>9, <1>10, <1>11, <1>12, <1>13, <1>14 DEF Next

LEMMA IInvInit == Init => IInv
<1> SUFFICES ASSUME Init
             PROVE  IInv
  OBVIOUS
<1>1. LevelIsSound
  BY IOCInitSound DEF Init
<1>2. disk \in Drives
  BY DEF Init, Drives, NoDisk
<1> QED
  BY <1>1, <1>2, FDCIdle DEF Init, Idle

\* The invariant of the floppy controller holds at all times.
THEOREM Invariance == Spec => []IInv
BY IInvInit, IInvStep, PTL DEF Spec

\* The state of the floppy controller and its drives is well-typed.
THEOREM TypeCorrect == Spec => []TypeOK
<1>1. IInv => TypeOK
  BY DEF IInv
<1> QED
  BY <1>1, Invariance, PTL

\* The pointers of the one data port fit its phase, for commands, disks and
\* sector numbers of every kind and sectors of every length.
THEOREM PhasesAlwaysAgree == Spec => []PhasesAgree
<1>1. IInv => PhasesAgree
  BY DEF IInv, PhasesFit, PhasesAgree
<1> QED
  BY <1>1, Invariance, PTL

\* A read or write that reports success has moved every sector asked for, in
\* order, over as many sectors as the command names and over both sides,
\* whatever happens to the disk meanwhile.
THEOREM SuccessIsComplete == Spec => []CompleteOnSuccess
<1>1. IInv => CompleteOnSuccess
  BY DEF IInv
<1> QED
  BY <1>1, Invariance, PTL

\* The core never finds a routine at level 1 that is not one of the sharers',
\* nor a line that is not the highest level raised.
THEOREM FDCLevelIsSound == Spec => []LevelIsSound
<1>1. IInv => LevelIsSound
  BY DEF IInv
<1> QED
  BY <1>1, Invariance, PTL

\* Only the drives' own operations change a disk, and they ask when one becomes
\* ready or is not ready any more.
Announced(d) ==
  (FDD_IsReady(d) # FDD_IsReady(d)') /\ "FDD" \in enabled
    => 1 \in irqh'.IRQ /\ irqh'.CallBack[1] = FDD_Int

LEMMA AskAnnounces ==
  ASSUME LevelIsSound, irqh' = Ask(irqh, "FDD", FDD_Int), "FDD" \in enabled
  PROVE  1 \in irqh'.IRQ /\ irqh'.CallBack[1] = FDD_Int
BY AskEffect DEF LevelIsSound, Source, Sharers

LEMMA EjectAnnounces ==
  ASSUME IInv, NEW D \in SUBSET Drive, Eject(D), NEW d \in Drive
  PROVE  Announced(d)
<1>1. LevelIsSound /\ disk \in [Drive -> [in : BOOLEAN, ROnly : BOOLEAN, SetDelay : 0..3]]
  BY DEF IInv, TypeOK, Drives
<1>2. CASE \E b \in D : disk[b].in
  <2>1. irqh' = Ask(irqh, "FDD", FDD_Int)
    BY <1>2 DEF Eject, Ejected
  <2> QED
    BY <1>1, <2>1, AskAnnounces DEF Announced
<1>3. CASE ~ \E b \in D : disk[b].in
  <2>1. d \in D => ~ disk[d].in /\ ~ EjectFD(d).in
    BY <1>1, <1>3 DEF EjectFD
  <2>2. disk'[d] = IF d \in D THEN EjectFD(d) ELSE disk[d]
    BY DEF Eject
  <2>3. FDD_IsReady(d) = FDD_IsReady(d)'
    BY <2>1, <2>2 DEF FDD_IsReady, Present
  <2> QED
    BY <2>3 DEF Announced
<1> QED
  BY <1>2, <1>3

LEMMA InsertAnnounces ==
  ASSUME IInv, NEW b \in Drive, NEW readonly \in BOOLEAN, NEW readable \in BOOLEAN,
         Insert(b, readonly, readable), NEW d \in Drive
  PROVE  Announced(d)
<1>1. LevelIsSound /\ disk \in [Drive -> [in : BOOLEAN, ROnly : BOOLEAN, SetDelay : 0..3]]
  BY DEF IInv, TypeOK, Drives
<1>2. CASE disk[b].in
  <2>1. irqh' = Ask(irqh, "FDD", FDD_Int)
    BY <1>2 DEF Insert, Ejected
  <2> QED
    BY <1>1, <2>1, AskAnnounces DEF Announced
<1>3. CASE ~ disk[b].in
  <2>1. /\ disk'[d] = IF d = b THEN (IF readable THEN Inserted(d, readonly)
                                  ELSE [EjectFD(d) EXCEPT !.ROnly = readonly])
                      ELSE disk[d]
    BY <1>1 DEF Insert
  <2>2. ~ EjectFD(b).in /\ Inserted(b, readonly).SetDelay = 3
    BY <1>1, <1>3 DEF EjectFD, Inserted
  <2>3. FDD_IsReady(d) = FDD_IsReady(d)'
    BY <1>3, <2>1, <2>2 DEF FDD_IsReady, Present
  <2> QED
    BY <2>3 DEF Announced
<1> QED
  BY <1>2, <1>3

LEMMA EndFrameAnnounces ==
  ASSUME IInv, EndFrame, NEW d \in Drive
  PROVE  Announced(d)
<1>1. LevelIsSound /\ disk \in [Drive -> [in : BOOLEAN, ROnly : BOOLEAN, SetDelay : 0..3]]
  BY DEF IInv, TypeOK, Drives
<1>2. CASE \E b \in Drive : disk[b].SetDelay = 1
  <2>1. irqh' = Ask(irqh, "FDD", FDD_Int)
    BY <1>2 DEF EndFrame
  <2> QED
    BY <1>1, <2>1, AskAnnounces DEF Announced
<1>3. CASE ~ \E b \in Drive : disk[b].SetDelay = 1
  <2>1. disk'[d] = Tick(d) /\ disk[d].SetDelay \in 0..3 /\ disk[d].SetDelay # 1
    BY <1>1, <1>3 DEF EndFrame
  <2>2. Tick(d).in = disk[d].in /\ (Tick(d).SetDelay = 0 <=> disk[d].SetDelay = 0)
    BY <1>1, <2>1 DEF Tick
  <2>3. FDD_IsReady(d) = FDD_IsReady(d)'
    BY <2>1, <2>2 DEF FDD_IsReady, Present
  <2> QED
    BY <2>3 DEF Announced
<1> QED
  BY <1>2, <1>3

\* The guest is told of every drive that becomes ready or is no longer ready, if
\* it has enabled the interrupt of the drives: for any number of drives.
THEOREM ReadinessIsAnnounced == Spec => ReadinessAnnounced
<1>1. IInv /\ [Next]_vars => [\A d \in Drive : Announced(d)]_vars
  <2> SUFFICES ASSUME IInv, [Next]_vars, NEW d \in Drive
               PROVE  Announced(d) \/ UNCHANGED vars
    BY DEF Announced
  <2>1. ASSUME UNCHANGED disk
        PROVE  Announced(d)
    BY <2>1 DEF Announced, FDD_IsReady, Present
  <2>2. CASE UNCHANGED disk
    BY <2>1, <2>2
  <2>3. ASSUME NEW D \in SUBSET Drive, Eject(D)
        PROVE  Announced(d)
    BY <2>3, EjectAnnounces
  <2>4. ASSUME NEW b \in Drive, NEW readonly \in BOOLEAN, NEW readable \in BOOLEAN,
               Insert(b, readonly, readable)
        PROVE  Announced(d)
    BY <2>4, InsertAnnounces
  <2>5. CASE EndFrame
    BY <2>5, EndFrameAnnounces
  <2>6. \/ UNCHANGED vars \/ UNCHANGED disk
        \/ \E D \in SUBSET Drive : Eject(D)
        \/ \E b \in Drive, readonly, readable \in BOOLEAN : Insert(b, readonly, readable)
        \/ EndFrame
    BY DEF Next, MoveData, WriteCommand, WriteParameter, ReadData, WriteData, ReadResult,
           SelectDrive, SetForceReady, SetEnabled, Acknowledge, Reset
  <2> QED
    BY <2>2, <2>3, <2>4, <2>5, <2>6
<1>2. Spec => [][\A d \in Drive : Announced(d)]_vars
  BY <1>1, Invariance, PTL DEF Spec
<1> QED
  BY <1>2 DEF ReadinessAnnounced, Announced
-----------------------------------------------------------------------------
(* The hard disk interface: the inductive invariant.                       *)

Transfers == {"Read", "Write"}

\* A phase belongs to the command that leads to it, and has bytes to come.
PhaseFitsCommand ==
  /\ sasi.Phase = SenseData => sasi.cmd = "Sense" /\ sasi.SensePtr < SenseLen
  /\ sasi.Phase = AssignData => sasi.cmd = "Assign" /\ sasi.SensePtr < AssignLen
  /\ sasi.Phase = Data => sasi.cmd \in Transfers /\ sasi.Blocks = quota

\* No look-up has told the transfer that a block is missing.
NoneMissing == results.first = 1 /\ 0 \notin results.next

\* A transfer without an error on record has found its first block and none of
\* the others behind the end of the image; when it has ended, it has moved all.
TransferTells ==
  /\ sasi.Phase = Data /\ ~ sasi.Error => NoneMissing
  /\ sasi.Phase = Status /\ sasi.cmd \in Transfers /\ ~ sasi.Error
       => quota = 0 /\ NoneMissing

HDCIInv ==
  /\ LevelIsSound /\ HDCTypeOK /\ OneIsAnswered
  /\ PhaseFitsCommand /\ TransferTells /\ StatusTells

LEMMA HDCRanges ==
  /\ 0 \in 0..BlockLen /\ 0 \in 0..AssignLen /\ 0 \in 0..BMod - 1
  /\ 0 \in 0..CmdLen /\ CmdLen \in 0..CmdLen
BY SASIAssumption DEF SASIAssumption, AssignLen, CmdLen

LEMMA BusFree == SASI_Init \in Interfaces /\ SASI_Init.Phase = Free
BY HDCRanges DEF SASI_Init, Interfaces, HDCCommand, Free

LEMMA UntriedResults == Untried \in Results
BY DEF Untried, Results

\* A look-up has one of three results.
LEMMA SeekResults ==
  ASSUME NEW s, NEW sz
  PROVE  SeekResult(s, sz) \in {-1, 0, 1}
BY DEF SeekResult

\* Writing a block leaves the size of every image a number.
LEMMA ExtendedSizes ==
  ASSUME size \in [Attached -> Nat], NEW s \in Interfaces
  PROVE  Extended(s) \in [Attached -> Nat]
<1> DEFINE longer == IF s.Sector < size[s.unit] THEN size[s.unit] ELSE s.Sector + 1
<1>1. s.unit \in Attached => longer \in Nat
  BY DEF Interfaces
<1>2. Extended(s) = [size EXCEPT ![s.unit] = longer]
  BY Zenon DEF Extended
<1> HIDE DEF longer
<1> QED
  BY <1>1, <1>2

LEMMA HDCInvInit == HDCInit => HDCIInv
<1> SUFFICES ASSUME HDCInit
             PROVE  HDCIInv
  OBVIOUS
<1>1. LevelIsSound /\ IOCTypeOK
  BY IOCInitSound, LevelIsSoundTypes DEF HDCInit
<1>2. sasi \in Interfaces /\ sasi.Phase = Free
  BY BusFree DEF HDCInit
<1>3. HDCTypeOK
  <2>1. gone \in BOOLEAN /\ told \in BOOLEAN /\ results \in Results
    BY UntriedResults, Zenon DEF HDCInit
  <2>3. size \in [Attached -> Nat]
    BY SASIAssumption DEF SASIAssumption, HDCInit
  <2>2. quota \in 0..BMod - 1 /\ owed \subseteq Handler
    BY SASIAssumption DEF SASIAssumption, HDCInit
  <2> QED
    BY <1>1, <1>2, <2>1, <2>2, <2>3 DEF HDCTypeOK
<1>4. OneIsAnswered
  BY DEF HDCInit, IOC_Init, PowerOn, OneIsAnswered
<1> QED
  BY <1>1, <1>2, <1>3, <1>4
     DEF HDCIInv, PhaseFitsCommand, TransferTells, StatusTells, Free, SenseData, AssignData,
         Data, Status, Message

-----------------------------------------------------------------------------
(* The requests of the level and what is owed for them.                    *)

\* A request of one of the sharers, passed on or not, leaves an answer to one of
\* those that have asked.
LEMMA RequestStep ==
  ASSUME LevelIsSound, OneIsAnswered, owed \subseteq Handler,
         NEW source \in Source, NEW h \in Sharers,
         irqh' = Ask(irqh, source, h), UNCHANGED enabled,
         owed' = owed \cup IF source \in enabled THEN {h} ELSE {}
  PROVE  LevelIsSound' /\ OneIsAnswered' /\ owed' \subseteq Handler
<1>1. Sound(irqh', Wiring)
  BY AskEffect DEF LevelIsSound
<1>2. CASE source \in enabled
  <2>1. irqh'.IRQ = irqh.IRQ \cup {1} /\ irqh'.CallBack[1] = h
    BY <1>2, AskEffect DEF LevelIsSound
  <2>2. owed' = owed \cup {h} /\ h \in Handler
    BY <1>2, IOCAssumption DEF IOCAssumption, Sharers
  <2> QED
    BY <1>1, <2>1, <2>2 DEF LevelIsSound, OneIsAnswered
<1>3. CASE source \notin enabled
  <2>1. irqh' = irqh /\ owed' = owed
    BY <1>3, AskEffect DEF LevelIsSound
  <2> QED
    BY <1>1, <2>1 DEF LevelIsSound, OneIsAnswered
<1> QED
  BY <1>2, <1>3

\* So does an access to the data port, which asks when it ends in the status
\* phase.
LEMMA AccessStep ==
  ASSUME LevelIsSound, OneIsAnswered, owed \subseteq Handler, NEW s, Access(s),
         UNCHANGED enabled
  PROVE  LevelIsSound' /\ OneIsAnswered' /\ owed' \subseteq Handler
<1>1. CASE s.Phase = Status
  BY <1>1, RequestStep DEF Access, Source, Sharers
<1>2. CASE s.Phase # Status
  BY <1>2 DEF Access, LevelIsSound, OneIsAnswered
<1> QED
  BY <1>1, <1>2

\* Without a request nothing changes for those that have asked.
LEMMA NoRequestStep ==
  ASSUME LevelIsSound, OneIsAnswered, owed \subseteq Handler,
         UNCHANGED <<irqh, owed>>, enabled' \subseteq Source
  PROVE  LevelIsSound' /\ OneIsAnswered' /\ owed' \subseteq Handler
BY DEF LevelIsSound, OneIsAnswered

-----------------------------------------------------------------------------
(* The commands and the data of the hard disk interface.                   *)

LEMMA BlocksLeft ==
  ASSUME NEW n \in 0..BMod - 1
  PROVE  (n + BMod - 1) % BMod \in 0..BMod - 1
BY SASIAssumption, Z3 DEF SASIAssumption

\* What is left of the interface when a command begins: its phase fits, a
\* transfer knows its blocks, and one that cannot begin has an error on record.
LEMMA CheckCmdEffect ==
  ASSUME NEW s \in Interfaces, NEW sector \in Nat, NEW count \in 0..BMod - 1
  PROVE  /\ SASI_CheckCmd(s, sector, count) \in Interfaces
         /\ SASI_CheckCmd(s, sector, count).cmd = s.cmd
         /\ s.cmd \in Transfers =>
              LET r == SASI_CheckCmd(s, sector, count)
              IN  r.Phase = Data /\ r.Blocks = count
                  /\ (~ r.Error => SeekResult([unit |-> s.unit, Sector |-> sector], size) = 1)
         /\ s.cmd \notin Transfers =>
              LET r == SASI_CheckCmd(s, sector, count)
              IN  \/ r.Phase = Status
                  \/ r.Phase = SenseData /\ s.cmd = "Sense" /\ r.SensePtr = 0
                  \/ r.Phase = AssignData /\ s.cmd = "Assign" /\ r.SensePtr = 0
<1> DEFINE r == SASI_CheckCmd(s, sector, count)
<1>1. CASE s.cmd \in Transfers
  <2> DEFINE read == s.cmd = "Read"
             t == [s EXCEPT !.Phase = Data, !.RW = read, !.BufPtr = 0, !.Stat = FALSE,
                            !.Sector = sector, !.Blocks = count]
  <2>1. r = IF SeekResult(t, size) = 1 THEN t ELSE [t EXCEPT !.Error = TRUE]
    BY <1>1, Zenon DEF SASI_CheckCmd, Transfers, Transfer
  <2>2. read \in BOOLEAN
    BY Zenon
  <2>3. t \in Interfaces /\ t.cmd = s.cmd /\ t.Phase = Data /\ t.Blocks = count
    <3> HIDE DEF read
    <3> QED
      BY <2>2, HDCRanges DEF Interfaces, Data
  <2>6. SeekResult(t, size) = SeekResult([unit |-> s.unit, Sector |-> sector], size)
    BY DEF SeekResult, Interfaces
  <2> HIDE DEF t
  <2>4. CASE SeekResult(t, size) = 1
    BY <1>1, <2>1, <2>3, <2>4, <2>6
  <2>5. CASE SeekResult(t, size) # 1
    <3>1. r = [t EXCEPT !.Error = TRUE]
      BY <2>1, <2>5
    <3> HIDE DEF r
    <3>2. r \in Interfaces /\ r.cmd = s.cmd /\ r.Phase = Data /\ r.Blocks = count /\ r.Error
      BY <2>3, <3>1 DEF Interfaces
    <3> QED
      BY <1>1, <3>2 DEF r
  <2> QED
    BY <2>4, <2>5
<1>2. CASE s.cmd \notin Transfers
  <2>1. NeedsImage(s) \in Interfaces /\ NeedsImage(s).cmd = s.cmd
    BY DEF NeedsImage, Interfaces
  <2>2. CASE s.cmd \in {"Test", "Seek", "Recalibrate"}
    BY <2>1, <2>2 DEF SASI_CheckCmd, Interfaces, Status, Transfers
  <2>3. CASE s.cmd = "Sense"
    <3>1. r = [s EXCEPT !.Phase = SenseData, !.Error = FALSE, !.Stat = FALSE, !.SensePtr = 0]
      BY <2>3, Zenon DEF SASI_CheckCmd
    <3> HIDE DEF r
    <3> QED
      BY <2>3, <3>1, HDCRanges DEF Interfaces, SenseData, Transfers, r
  <2>4. CASE s.cmd = "Assign"
    <3>1. r = [NeedsImage(s) EXCEPT !.Phase = AssignData, !.SensePtr = 0]
      BY <2>4, Zenon DEF SASI_CheckCmd
    <3> HIDE DEF r
    <3> QED
      BY <2>1, <2>4, <3>1, HDCRanges DEF Interfaces, AssignData, Transfers, r
  <2>5. CASE s.cmd \in {"Format", "Other"}
    BY <2>5 DEF SASI_CheckCmd, Interfaces, Status, Transfers
  <2> QED
    BY <1>2, <2>2, <2>3, <2>4, <2>5 DEF Interfaces, HDCCommand, Transfers
<1> QED
  BY <1>1, <1>2

LEMMA HDCWriteCommandStep ==
  ASSUME HDCIInv, NEW c \in HDCCommand, NEW unit \in 0..1, NEW sector \in Sectors \cup {0},
         NEW count \in Counts \cup {0}, HDCWriteCommand(c, unit, sector, count)
  PROVE  HDCIInv'
<1> USE DEF HDCIInv
<1>1. sasi \in Interfaces /\ owed \subseteq Handler /\ sasi.Phase = CommandPhase
      /\ UNCHANGED <<enabled, gone, size, told>> /\ enabled' \subseteq Source
  BY DEF HDCTypeOK, HDCWriteCommand, LevelIsSound
<1>2. CASE sasi.CmdPtr + 1 < CmdLen
  <2>1. sasi' = [sasi EXCEPT !.CmdPtr = @ + 1] /\ UNCHANGED <<irqh, quota, results, owed>>
    BY <1>2 DEF HDCWriteCommand
  <2>2. sasi' \in Interfaces /\ sasi'.Phase = CommandPhase
    BY <1>1, <1>2, <2>1 DEF Interfaces, CmdLen, CommandPhase
  <2>3. LevelIsSound' /\ OneIsAnswered' /\ owed' \subseteq Handler
    BY <1>1, <2>1, NoRequestStep
  <2>4. HDCTypeOK'
    BY <1>1, <2>1, <2>2, <2>3, LevelIsSoundTypes DEF HDCTypeOK, LevelIsSound, IOCTypeOK, Sound
  <2> QED
    BY <2>2, <2>3, <2>4
       DEF PhaseFitsCommand, TransferTells, StatusTells, CommandPhase, SenseData, AssignData,
           Data, Status, Message
<1>3. CASE ~ (sasi.CmdPtr + 1 < CmdLen)
  <2> DEFINE s == [sasi EXCEPT !.CmdPtr = CmdLen, !.cmd = c, !.unit = unit]
             r == SASI_CheckCmd(s, sector, count)
  <2> DEFINE found == SeekResult([unit |-> unit, Sector |-> sector], size)
  <2>1. /\ Access(r) /\ quota' = count
        /\ results' = [Untried EXCEPT !.first = IF c \in Transfers THEN found ELSE 1]
    BY <1>3, Zenon DEF HDCWriteCommand, Transfers
  <2>2. s \in Interfaces /\ s.cmd = c /\ sector \in Nat /\ count \in 0..BMod - 1
    <3>1. s \in Interfaces /\ s.cmd = c
      BY <1>1, HDCRanges DEF Interfaces
    <3> QED
      BY <3>1, SASIAssumption, HDCRanges DEF SASIAssumption
  <2>3. sasi' = r
    BY <2>1 DEF Access
  <2>4. LevelIsSound' /\ OneIsAnswered' /\ owed' \subseteq Handler
    BY <1>1, <2>1, AccessStep
  <2>5. sasi' \in Interfaces /\ sasi'.cmd = c
    BY <2>2, <2>3, CheckCmdEffect
  <2>6. HDCTypeOK'
    <3>1. gone' \in BOOLEAN /\ told' \in BOOLEAN /\ size' \in [Attached -> Nat]
      BY <1>1, Zenon DEF HDCTypeOK
    <3>2. results' \in Results
      BY <2>1, SeekResults DEF Untried, Results
    <3> QED
      BY <3>1, <3>2, <2>1, <2>2, <2>4, <2>5 DEF HDCTypeOK, LevelIsSound, IOCTypeOK, Sound
  <2>7. CASE c \in Transfers
    <3>1. s.unit = unit
      BY <1>1 DEF Interfaces
    <3>2. r.Phase = Data /\ r.Blocks = count /\ (~ r.Error => found = 1)
      <4> HIDE DEF s
      <4> QED
        BY <2>2, <2>7, <3>1, CheckCmdEffect
    <3>3. sasi'.Phase = Data /\ sasi'.Blocks = quota' /\ (~ sasi'.Error => NoneMissing')
      <4> HIDE DEF r, found
      <4> QED
        BY <2>1, <2>3, <2>7, <3>2 DEF NoneMissing, Untried
    <3> QED
      BY <2>1, <2>4, <2>5, <2>6, <2>7, <3>3
         DEF PhaseFitsCommand, TransferTells, StatusTells, Data, SenseData, AssignData, Status,
             Message
  <2>8. CASE c \notin Transfers
    <3>1. \/ r.Phase = Status
          \/ r.Phase = SenseData /\ c = "Sense" /\ r.SensePtr = 0
          \/ r.Phase = AssignData /\ c = "Assign" /\ r.SensePtr = 0
      <4> HIDE DEF s
      <4> QED
        BY <2>2, <2>8, CheckCmdEffect
    <3> QED
      BY <2>3, <2>4, <2>5, <2>6, <2>8, <3>1
         DEF PhaseFitsCommand, TransferTells, StatusTells, Data, SenseData, AssignData, Status,
             Message, SenseLen, AssignLen
  <2> QED
    BY <2>7, <2>8
<1> QED
  BY <1>2, <1>3

LEMMA MoveDataStep ==
  ASSUME HDCIInv, NEW written \in BOOLEAN, HDCMoveData(written)
  PROVE  HDCIInv'
<1> USE DEF HDCIInv
<1>1. sasi \in Interfaces /\ owed \subseteq Handler /\ sasi.Phase = Data
      /\ sasi.cmd \in Transfers /\ sasi.Blocks = quota /\ quota \in 0..BMod - 1
  BY DEF HDCTypeOK, HDCMoveData, PhaseFitsCommand
<1>5. size' \in [Attached -> Nat]
  BY <1>1, ExtendedSizes DEF HDCMoveData, HDCTypeOK
<1>2. UNCHANGED <<enabled, gone, told>> /\ enabled' \subseteq Source
  BY DEF HDCMoveData, LevelIsSound
<1>3. CASE sasi.BufPtr + 1 < BlockLen
  <2>1. sasi' = [sasi EXCEPT !.BufPtr = @ + 1] /\ UNCHANGED <<irqh, owed, quota, results>>
    BY <1>3 DEF HDCMoveData
  <2>2. /\ sasi' \in Interfaces /\ sasi'.Phase = Data /\ sasi'.cmd = sasi.cmd
        /\ sasi'.Blocks = sasi.Blocks /\ sasi'.Error = sasi.Error
    BY <1>1, <1>3, <2>1, SASIAssumption DEF SASIAssumption, Interfaces
  <2>3. LevelIsSound' /\ OneIsAnswered' /\ owed' \subseteq Handler
    BY <1>1, <1>2, <2>1, NoRequestStep
  <2>4. HDCTypeOK'
    BY <1>2, <1>5, <2>1, <2>2, <2>3 DEF HDCTypeOK, LevelIsSound, IOCTypeOK, Sound
  <2> QED
    BY <1>1, <2>1, <2>2, <2>3, <2>4
       DEF PhaseFitsCommand, TransferTells, NoneMissing, StatusTells, SenseData, AssignData,
           Data, Status, Message
<1>4. CASE ~ (sasi.BufPtr + 1 < BlockLen)
  <2> DEFINE left == (sasi.Blocks + BMod - 1) % BMod
             t == NextBlock(sasi)
             found == SeekResult(t, size')
             r == BlockDone(sasi, size')
  <2>1. /\ Access(r) /\ quota' = left
        /\ results' = [results EXCEPT !.next = IF quota' = 0 THEN @ ELSE @ \cup {found}]
    BY <1>1, <1>4, Zenon DEF HDCMoveData
  <2>2. sasi' = r
    BY <2>1 DEF Access
  <2>3. left \in 0..BMod - 1
    BY <1>1, BlocksLeft
  <2>4. t \in Interfaces /\ t.Phase = Data /\ t.cmd = sasi.cmd /\ t.Blocks = left
        /\ t.Error = sasi.Error
    <3>1. t = [sasi EXCEPT !.Blocks = left, !.Sector = @ + 1, !.BufPtr = 0]
      BY Zenon DEF NextBlock
    <3> HIDE DEF left, t
    <3>2. sasi.Sector + 1 \in Nat
      BY <1>1 DEF Interfaces
    <3> QED
      BY <1>1, <2>3, <3>1, <3>2, HDCRanges DEF Interfaces
  <2>5. r = IF left = 0 THEN [sasi EXCEPT !.Blocks = 0, !.Phase = Status]
            ELSE IF found = 0 THEN [t EXCEPT !.Error = TRUE, !.Phase = Status]
            ELSE t
    BY <2>4, Zenon DEF BlockDone
  <2>6. LevelIsSound' /\ OneIsAnswered' /\ owed' \subseteq Handler
    BY <1>1, <1>2, <2>1, AccessStep
  <2>7. found \in {-1, 0, 1}
    BY SeekResults
  <2> HIDE DEF left, t, found, r
  <2>8. sasi' \in Interfaces /\ sasi'.cmd \in Transfers
    BY <1>1, <2>2, <2>4, <2>5, HDCRanges DEF Interfaces, Status
  <2>9. results \in Results /\ results' \in Results
    <3>1. results \in Results
      BY DEF HDCTypeOK
    <3> QED
      BY <2>1, <2>7, <3>1 DEF Results
  <2>10. /\ results'.first = results.first
         /\ results'.next = IF left = 0 THEN results.next ELSE results.next \cup {found}
    BY <2>1, <2>9 DEF Results
  <2>11. HDCTypeOK'
    <3>1. gone' \in BOOLEAN /\ told' \in BOOLEAN
      BY <1>2, Zenon DEF HDCTypeOK
    <3> QED
      BY <1>5, <2>1, <2>3, <2>6, <2>8, <2>9, <3>1 DEF HDCTypeOK, LevelIsSound, IOCTypeOK, Sound
  <2>12. CASE left = 0
    <3>1. sasi'.Phase = Status /\ sasi'.Error = sasi.Error
      BY <1>1, <2>2, <2>5, <2>12 DEF Interfaces
    <3> QED
      BY <1>1, <2>1, <2>6, <2>8, <2>10, <2>11, <2>12, <3>1
         DEF PhaseFitsCommand, TransferTells, NoneMissing, StatusTells, SenseData, AssignData,
             Data, Status, Message
  <2>13. CASE left # 0 /\ found = 0
    <3>1. sasi'.Phase = Status /\ sasi'.Error
      BY <2>2, <2>4, <2>5, <2>13 DEF Interfaces
    <3> QED
      BY <2>6, <2>8, <2>11, <3>1
         DEF PhaseFitsCommand, TransferTells, StatusTells, SenseData, AssignData, Data, Status,
             Message
  <2>14. CASE left # 0 /\ found # 0
    <3>1. sasi' = t
      BY <2>2, <2>5, <2>14
    <3> QED
      BY <1>1, <2>1, <2>4, <2>6, <2>8, <2>10, <2>11, <2>14, <3>1
         DEF PhaseFitsCommand, TransferTells, NoneMissing, StatusTells, SenseData, AssignData,
             Data, Status, Message
  <2> QED
    BY <2>12, <2>13, <2>14
<1> QED
  BY <1>3, <1>4

\* The bytes of the sense data and of the undocumented command 0xc2.
LEMMA BytesStep ==
  ASSUME HDCIInv, ReadSense \/ WriteAssign
  PROVE  HDCIInv'
<1> USE DEF HDCIInv
<1> DEFINE s == [sasi EXCEPT !.SensePtr = @ + 1]
<1>1. /\ UNCHANGED <<enabled, gone, size, told, quota, results>> /\ enabled' \subseteq Source
      /\ owed \subseteq Handler /\ sasi \in Interfaces
  BY DEF ReadSense, WriteAssign, LevelIsSound, HDCTypeOK
<1>2. \/ sasi.Phase = SenseData /\ sasi.cmd = "Sense" /\ sasi.SensePtr < SenseLen
      \/ sasi.Phase = AssignData /\ sasi.cmd = "Assign" /\ sasi.SensePtr < AssignLen
  BY DEF ReadSense, WriteAssign, PhaseFitsCommand
<1>3. s \in Interfaces /\ s.Phase = sasi.Phase /\ s.cmd = sasi.cmd
      /\ s.SensePtr = sasi.SensePtr + 1
  BY <1>1, <1>2 DEF Interfaces, SenseLen, AssignLen
<1> HIDE DEF s
<1>4. \E r : /\ Access(r) /\ r \in Interfaces /\ r.cmd = sasi.cmd
             /\ \/ r.Phase = Status
                \/ r = s /\ s.SensePtr # (IF sasi.Phase = SenseData THEN SenseLen ELSE AssignLen)
  <2>1. CASE ReadSense
    <3> DEFINE r == IF s.SensePtr = SenseLen
                      THEN [s EXCEPT !.Error = FALSE, !.Phase = Status] ELSE s
    <3>1. Access(r) /\ sasi.Phase = SenseData
      BY <2>1, Zenon DEF ReadSense, s
    <3>2. r \in Interfaces /\ r.cmd = sasi.cmd
      BY <1>3 DEF Interfaces, Status
    <3>3. r.Phase = Status \/ (r = s /\ s.SensePtr # SenseLen)
      BY <1>3 DEF Interfaces
    <3> HIDE DEF r
    <3> QED
      BY <3>1, <3>2, <3>3
  <2>2. CASE WriteAssign
    <3> DEFINE r == IF s.SensePtr = AssignLen THEN [s EXCEPT !.Phase = Status] ELSE s
    <3>1. Access(r) /\ sasi.Phase = AssignData
      BY <2>2, Zenon DEF WriteAssign, s
    <3>2. r \in Interfaces /\ r.cmd = sasi.cmd
      BY <1>3 DEF Interfaces, Status
    <3>3. r.Phase = Status \/ (r = s /\ s.SensePtr # AssignLen)
      BY <1>3 DEF Interfaces
    <3> HIDE DEF r
    <3> QED
      BY <3>1, <3>2, <3>3 DEF SenseData, AssignData
  <2> QED
    BY <2>1, <2>2
<1>5. PICK r : /\ Access(r) /\ r \in Interfaces /\ r.cmd = sasi.cmd
               /\ \/ r.Phase = Status
                  \/ r = s /\ s.SensePtr # (IF sasi.Phase = SenseData THEN SenseLen ELSE AssignLen)
  BY <1>4
<1>6. sasi' = r
  BY <1>5 DEF Access
<1>7. LevelIsSound' /\ OneIsAnswered' /\ owed' \subseteq Handler
  BY <1>1, <1>5, AccessStep
<1>8. HDCTypeOK'
  BY <1>1, <1>5, <1>6, <1>7 DEF HDCTypeOK, LevelIsSound, IOCTypeOK, Sound
<1>9. CASE r.Phase = Status
  BY <1>2, <1>5, <1>6, <1>7, <1>8, <1>9
     DEF PhaseFitsCommand, TransferTells, StatusTells, Transfers, SenseData, AssignData, Data,
         Status, Message
<1>10. CASE r = s /\ s.SensePtr # (IF sasi.Phase = SenseData THEN SenseLen ELSE AssignLen)
  <2>1. s.SensePtr < IF sasi.Phase = SenseData THEN SenseLen ELSE AssignLen
    BY <1>1, <1>2, <1>3, <1>10 DEF Interfaces, SenseLen, AssignLen, SenseData, AssignData
  <2> QED
    BY <1>2, <1>3, <1>6, <1>7, <1>8, <1>10, <2>1
       DEF PhaseFitsCommand, TransferTells, StatusTells, SenseData, AssignData, Data, Status,
           Message
<1> QED
  BY <1>5, <1>9, <1>10

\* The steps without an access to data.
LEMMA BusStep ==
  ASSUME HDCIInv,
         \/ \E answers \in BOOLEAN : Select(answers)
         \/ EndSelection \/ ReadStatus \/ ReadMessage \/ ResetBus
  PROVE  HDCIInv'
<1> USE DEF HDCIInv
<1>1. /\ UNCHANGED <<irqh, enabled, gone, size, owed>> /\ enabled' \subseteq Source
      /\ owed \subseteq Handler /\ sasi \in Interfaces /\ quota \in 0..BMod - 1
  BY DEF Select, EndSelection, ReadStatus, ReadMessage, ResetBus, LevelIsSound, HDCTypeOK
<1>2. LevelIsSound' /\ OneIsAnswered' /\ owed' \subseteq Handler
  BY <1>1, NoRequestStep
<1>3. CASE UNCHANGED sasi /\ UNCHANGED <<told, quota, results>>
  BY <1>1, <1>2, <1>3
     DEF HDCTypeOK, LevelIsSound, IOCTypeOK, Sound, PhaseFitsCommand, TransferTells, NoneMissing,
         StatusTells
<1>4. CASE /\ UNCHANGED <<told, quota, results>>
           /\ sasi' \in Interfaces /\ sasi'.Phase \in {Selection, CommandPhase}
  BY <1>1, <1>2, <1>4
     DEF HDCTypeOK, LevelIsSound, IOCTypeOK, Sound, PhaseFitsCommand, TransferTells, StatusTells,
         Selection, CommandPhase, SenseData, AssignData, Data, Status, Message
<1>5. CASE ReadStatus
  <2>1. sasi' \in Interfaces /\ sasi'.Phase = Message /\ sasi'.cmd = sasi.cmd
    BY <1>1, <1>5 DEF ReadStatus, Interfaces, Message
  <2>2. told' \in BOOLEAN /\ (told' => ~ sasi.Error) /\ UNCHANGED <<quota, results>>
    BY <1>5, Zenon DEF ReadStatus
  <2> QED
    BY <1>1, <1>2, <1>5, <2>1, <2>2
       DEF ReadStatus, HDCTypeOK, LevelIsSound, IOCTypeOK, Sound, PhaseFitsCommand, TransferTells,
           NoneMissing, StatusTells, Transfers, SenseData, AssignData, Data, Status, Message
<1>6. CASE ForgetTransfer /\ sasi' \in Interfaces /\ sasi'.Phase = Free
  <2>1. told' \in BOOLEAN /\ results' \in Results /\ gone' \in BOOLEAN
    BY <1>1, <1>6, UntriedResults, Zenon DEF ForgetTransfer, HDCTypeOK
  <2>2. HDCTypeOK'
    BY <1>1, <1>2, <1>6, <2>1, HDCRanges DEF ForgetTransfer, HDCTypeOK, LevelIsSound, IOCTypeOK, Sound
  <2> QED
    BY <1>2, <1>6, <2>2
       DEF PhaseFitsCommand, TransferTells, StatusTells, Free, SenseData, AssignData, Data, Status,
           Message
<1>7. ASSUME NEW answers \in BOOLEAN, Select(answers)
      PROVE  HDCIInv'
  <2>1. CASE answers
    <3>1. sasi' = [sasi EXCEPT !.Phase = Selection, !.CmdPtr = 0]
      BY <1>7, <2>1 DEF Select
    <3>2. sasi' \in Interfaces /\ sasi'.Phase = Selection
      BY <1>1, <3>1, HDCRanges DEF Interfaces, Selection
    <3> QED
      BY <1>4, <1>7, <3>2 DEF Select
  <2>2. CASE ~ answers
    BY <1>3, <1>7, <2>2 DEF Select
  <2> QED
    BY <2>1, <2>2
<1>8. CASE EndSelection
  <2>1. sasi' \in Interfaces /\ sasi'.Phase = CommandPhase
    BY <1>1, <1>8 DEF EndSelection, Interfaces, CommandPhase
  <2> QED
    BY <1>4, <1>8, <2>1 DEF EndSelection
<1>9. CASE ReadMessage \/ ResetBus
  <2>1. sasi' \in Interfaces /\ sasi'.Phase = Free
    <3>1. CASE ReadMessage
      BY <1>1, <3>1, BusFree DEF ReadMessage, Interfaces
    <3>2. CASE ResetBus
      BY <3>2, BusFree DEF ResetBus
    <3> QED
      BY <1>9, <3>1, <3>2
  <2> QED
    BY <1>6, <1>9, <2>1 DEF ReadMessage, ResetBus
<1> QED
  BY <1>5, <1>7, <1>8, <1>9

\* The steps of the others: the enable bits, the floppy controller and its
\* drives, the answer of the core, the host and a reset.
LEMMA OthersStep ==
  ASSUME HDCIInv,
         \/ \E e \in HDCSets : HDCSetEnabled(e)
         \/ FloppyAsks("FDC", FDC_Int) \/ FloppyAsks("FDD", FDD_Int)
         \/ HDCAcknowledge
         \/ \E away \in BOOLEAN : HostFiles(away)
         \/ HDCReset
  PROVE  HDCIInv'
<1> USE DEF HDCIInv
<1>1. owed \subseteq Handler /\ sasi \in Interfaces
  BY DEF HDCTypeOK
<1>2. ASSUME UNCHANGED <<sasi, size, told, quota, results>>, gone' \in BOOLEAN,
             LevelIsSound' /\ OneIsAnswered' /\ owed' \subseteq Handler
      PROVE  HDCIInv'
  BY <1>2
     DEF HDCTypeOK, LevelIsSound, IOCTypeOK, Sound, PhaseFitsCommand, TransferTells, NoneMissing,
         StatusTells
<1>8. gone \in BOOLEAN
  BY DEF HDCTypeOK
<1>3. ASSUME NEW e \in HDCSets, HDCSetEnabled(e)
      PROVE  HDCIInv'
  <2>1. enabled' \subseteq Source
    BY <1>3, SASIAssumption DEF SASIAssumption, HDCSetEnabled, IOC_Write
  <2> QED
    BY <1>1, <1>2, <1>3, <1>8, <2>1, NoRequestStep DEF HDCSetEnabled, IOC_Write
<1>4. ASSUME NEW source \in Source, NEW h \in Sharers, FloppyAsks(source, h)
      PROVE  HDCIInv'
  <2>1. LevelIsSound' /\ OneIsAnswered' /\ owed' \subseteq Handler
    BY <1>1, <1>4, RequestStep DEF FloppyAsks
  <2> QED
    BY <1>2, <1>4, <1>8, <2>1 DEF FloppyAsks
<1>5. CASE HDCAcknowledge
  <2>1. LevelIsSound' /\ irqh'.IRQ = irqh.IRQ \ {1} /\ owed' = {}
    BY <1>5, AnswerEffect DEF HDCAcknowledge
  <2> QED
    BY <1>2, <1>5, <1>8, <2>1 DEF HDCAcknowledge, OneIsAnswered
<1>6. ASSUME NEW away \in BOOLEAN, HostFiles(away)
      PROVE  HDCIInv'
  <2>1. LevelIsSound' /\ OneIsAnswered' /\ owed' \subseteq Handler
    BY <1>1, <1>6, NoRequestStep DEF HostFiles, LevelIsSound
  <2>2. UNCHANGED <<sasi, size, told, quota, results>> /\ gone' = away
    BY <1>6 DEF HostFiles
  <2> QED
    BY <1>2, <2>1, <2>2
<1>7. CASE HDCReset
  <2>1. LevelIsSound' /\ irqh'.IRQ = {} /\ owed' = {}
    BY <1>7, IOCResetEffect DEF HDCReset
  <2>2. sasi' \in Interfaces /\ sasi'.Phase = Free
    BY <1>7, BusFree DEF HDCReset
  <2>3. ForgetTransfer /\ UNCHANGED <<gone, size>>
    BY <1>7 DEF HDCReset
  <2>4. HDCTypeOK'
    BY <2>1, <2>2, <2>3, HDCRanges, UntriedResults
       DEF ForgetTransfer, HDCTypeOK, LevelIsSound, IOCTypeOK, Sound
  <2> QED
    BY <2>1, <2>2, <2>3, <2>4
       DEF ForgetTransfer, OneIsAnswered, PhaseFitsCommand, TransferTells, StatusTells, Free,
           SenseData, AssignData, Data, Status, Message
<1> QED
  BY <1>3, <1>4, <1>5, <1>6, <1>7 DEF Source, Sharers

LEMMA HDCInvStep == HDCIInv /\ [HDCNext]_hdcVars => HDCIInv'
<1> SUFFICES ASSUME HDCIInv, [HDCNext]_hdcVars
             PROVE  HDCIInv'
  OBVIOUS
<1>1. CASE Proceed
  BY <1>1, HDCWriteCommandStep, MoveDataStep, BytesStep, BusStep DEF Proceed
<1>2. CASE UNCHANGED hdcVars
  BY <1>2
     DEF hdcVars, HDCIInv, HDCTypeOK, LevelIsSound, OneIsAnswered, IOCTypeOK, PhaseFitsCommand,
         TransferTells, NoneMissing, StatusTells
<1> QED
  BY <1>1, <1>2, BusStep, OthersStep DEF HDCNext

\* The invariant of the hard disk interface holds at all times.
THEOREM HDCInvariance == HDCSpec => []HDCIInv
BY HDCInvInit, HDCInvStep, PTL DEF HDCSpec

\* The state of the hard disk interface is well-typed: the pointers into the
\* command, the block and the sense data stay inside them.
THEOREM HDCTypeCorrect == HDCSpec => []HDCTypeOK
<1>1. HDCIInv => HDCTypeOK
  BY DEF HDCIInv
<1> QED
  BY <1>1, HDCInvariance, PTL

\* A transfer whose status says "good" has moved as many blocks as were asked
\* for, has found its first block and has found none of the others behind the end
\* of the image: for blocks and images of every size, with writes that make an
\* image longer, and with files that go away and come back between any two bytes.
\* A later block looked up while the file was away goes unnoticed.
THEOREM StatusIsTrue == HDCSpec => []StatusTells
<1>1. HDCIInv => StatusTells
  BY DEF HDCIInv
<1> QED
  BY <1>1, HDCInvariance, PTL

\* However the hard disk, the floppy controller and its drives ask on the level
\* they share, one of those that asked is answered and no other.
THEOREM OneAnswer == HDCSpec => []OneIsAnswered
<1>1. HDCIInv => OneIsAnswered
  BY DEF HDCIInv
<1> QED
  BY <1>1, HDCInvariance, PTL

\* The core never finds a routine at level 1 that is not one of the sharers',
\* nor a line that is not the highest level raised.
THEOREM HDCLevelIsSound == HDCSpec => []LevelIsSound
<1>1. HDCIInv => LevelIsSound
  BY DEF HDCIInv
<1> QED
  BY <1>1, HDCInvariance, PTL

\* An access to the data port that ends in the status phase asks.
LEMMA AccessAnnounces ==
  ASSUME LevelIsSound, NEW s, Access(s), sasi'.Phase = Status, "HDC" \in enabled
  PROVE  1 \in irqh'.IRQ /\ irqh'.CallBack[1] = SASI_Int
<1>1. irqh' = Ask(irqh, "HDC", SASI_Int)
  BY DEF Access
<1> QED
  BY <1>1, AskEffect DEF LevelIsSound, Source, Sharers

\* Every command's arrival at its status interrupts, unless it may not.
THEOREM StatusIsAnnounced == HDCSpec => StatusAnnounced
<1>1. HDCIInv /\ [HDCNext]_hdcVars =>
        (sasi.Phase # Status /\ sasi'.Phase = Status /\ "HDC" \in enabled
           => 1 \in irqh'.IRQ /\ irqh'.CallBack[1] = SASI_Int)
  <2> SUFFICES ASSUME HDCIInv, [HDCNext]_hdcVars, sasi.Phase # Status, sasi'.Phase = Status,
                      "HDC" \in enabled
               PROVE  1 \in irqh'.IRQ /\ irqh'.CallBack[1] = SASI_Int
    OBVIOUS
  <2>1. sasi' # sasi /\ sasi \in Interfaces /\ LevelIsSound
    BY DEF HDCIInv, HDCTypeOK
  <2>2. ASSUME NEW c, NEW unit, NEW sector, NEW count, HDCWriteCommand(c, unit, sector, count)
        PROVE  1 \in irqh'.IRQ /\ irqh'.CallBack[1] = SASI_Int
    <3>1. CASE sasi.CmdPtr + 1 < CmdLen
      <4>1. sasi' = [sasi EXCEPT !.CmdPtr = @ + 1]
        BY <2>2, <3>1 DEF HDCWriteCommand
      <4> QED
        BY <2>1, <4>1 DEF Interfaces
    <3>2. CASE ~ (sasi.CmdPtr + 1 < CmdLen)
      <4>1. \E s : Access(s)
        BY <2>2, <3>2, Zenon DEF HDCWriteCommand
      <4> QED
        BY <2>1, <4>1, AccessAnnounces
    <3> QED
      BY <3>1, <3>2
  <2>3. ASSUME NEW written, HDCMoveData(written)
        PROVE  1 \in irqh'.IRQ /\ irqh'.CallBack[1] = SASI_Int
    <3>1. CASE sasi.BufPtr + 1 < BlockLen
      <4>1. sasi' = [sasi EXCEPT !.BufPtr = @ + 1]
        BY <2>3, <3>1 DEF HDCMoveData
      <4> QED
        BY <2>1, <4>1 DEF Interfaces
    <3>2. CASE ~ (sasi.BufPtr + 1 < BlockLen)
      <4>1. \E s : Access(s)
        BY <2>3, <3>2, Zenon DEF HDCMoveData
      <4> QED
        BY <2>1, <4>1, AccessAnnounces
    <3> QED
      BY <3>1, <3>2
  <2>4. CASE ReadSense \/ WriteAssign
    <3>1. \E s : Access(s)
      BY <2>4, Zenon DEF ReadSense, WriteAssign
    <3> QED
      BY <2>1, <3>1, AccessAnnounces
  <2>5. CASE EndSelection \/ ReadStatus \/ ReadMessage \/ ResetBus
             \/ \E answers \in BOOLEAN : Select(answers)
    <3>1. CASE EndSelection \/ ReadStatus
      BY <2>1, <3>1 DEF EndSelection, ReadStatus, Interfaces, CommandPhase, Message, Status
    <3>2. CASE ReadMessage \/ ResetBus
      <4>1. sasi'.Phase = Free
        BY <3>2, BusFree DEF ReadMessage, ResetBus, Interfaces
      <4> QED
        BY <4>1 DEF Free, Status
    <3>3. CASE \E answers \in BOOLEAN : Select(answers)
      BY <2>1, <3>3 DEF Select, Interfaces, Selection, Status
    <3> QED
      BY <2>5, <3>1, <3>2, <3>3
  <2>6. CASE HDCReset
    BY <2>6, BusFree DEF HDCReset, Free, Status
  <2>7. ASSUME \/ \E e \in HDCSets : HDCSetEnabled(e)
               \/ FloppyAsks("FDC", FDC_Int) \/ FloppyAsks("FDD", FDD_Int)
               \/ HDCAcknowledge
               \/ \E away \in BOOLEAN : HostFiles(away)
               \/ UNCHANGED hdcVars
        PROVE  FALSE
    BY <2>1, <2>7 DEF HDCSetEnabled, FloppyAsks, HDCAcknowledge, HostFiles, hdcVars
  <2> QED
    BY <2>2, <2>3, <2>4, <2>5, <2>6, <2>7, Zenon DEF HDCNext, Proceed
<1> QED
  BY <1>1, HDCInvariance, PTL DEF HDCSpec, StatusAnnounced
=============================================================================
