----------------------------- MODULE IRQHProofs -----------------------------
(***************************************************************************)
(* What the operations of the interrupt controller do to its state, for    *)
(* every set of levels and devices and for both CPU cores.  The proofs     *)
(* about the devices rest on these lemmas.                                 *)
(***************************************************************************)
EXTENDS IRQH, TLAPS

\* The scan from 7 down to 1 finds a raised level whenever there is one, and no
\* raised level is above it.
LEMMA HighestPendingIsMax ==
  ASSUME NEW S, S \subseteq 1..7, S # {}
  PROVE  /\ HighestPending(S) \in S
         /\ \A j \in S : j <= HighestPending(S)
<1>1. \E i \in S : \A j \in S : j <= i
  <2>1. CASE 7 \in S  BY <2>1
  <2>2. CASE 7 \notin S /\ 6 \in S  BY <2>2
  <2>3. CASE S \subseteq 1..5 /\ 5 \in S  BY <2>3
  <2>4. CASE S \subseteq 1..4 /\ 4 \in S  BY <2>4
  <2>5. CASE S \subseteq 1..3 /\ 3 \in S  BY <2>5
  <2>6. CASE S \subseteq 1..2 /\ 2 \in S  BY <2>6
  <2>7. CASE S \subseteq {1}
    <3>1. S = {1}  BY <2>7
    <3> QED  BY <3>1
  <2> QED  BY <2>1, <2>2, <2>3, <2>4, <2>5, <2>6, <2>7
<1> QED  BY <1>1 DEF HighestPending

\* Nothing raised, no line; something raised, one of the levels in use.
LEMMA HighestPendingType ==
  ASSUME NEW S \in SUBSET Level
  PROVE  /\ HighestPending(S) \in Level \cup {0}
         /\ HighestPending(S) # 0 => HighestPending(S) \in S
         /\ S = {} => HighestPending(S) = 0
<1>1. CASE S = {}  BY <1>1 DEF HighestPending
<1>2. CASE S # {}  BY <1>2, HighestPendingIsMax, LevelAssumption
<1> QED  BY <1>1, <1>2

-----------------------------------------------------------------------------
\* A controller whose line is the highest raised level and whose raised levels
\* all have the routine of a device wired to them: what every operation of
\* irqh.c establishes or preserves.
Sound(q, wiring) ==
  /\ q \in Controller
  /\ q.line = HighestPending(q.IRQ)
  /\ \A l \in q.IRQ : q.CallBack[l] \in wiring[l]

\* IRQH_Int keeps the controller sound when the routine belongs to the level.
LEMMA IntSound ==
  ASSUME NEW q, NEW wiring, Sound(q, wiring), NEW l \in Level, NEW h \in Handler, h \in wiring[l]
  PROVE  Sound(IRQH_Int(q, l, h), wiring)
<1> DEFINE r == IRQH_Int(q, l, h)
<1>1. r.IRQ \in SUBSET Level /\ r.IRQ = q.IRQ \cup {l}
  BY DEF Sound, Controller, IRQH_Int
<1>2. r.line = HighestPending(r.IRQ) /\ r.line \in Level \cup {0}
  BY <1>1, HighestPendingType DEF IRQH_Int
<1>3. r.CallBack \in [Level -> Handler \cup {NULL}]
  BY DEF Sound, Controller, IRQH_Int
<1>4. \A k \in r.IRQ : r.CallBack[k] \in wiring[k]
  BY <1>1 DEF Sound, Controller, IRQH_Int
<1>5. r \in Controller
  BY <1>1, <1>2, <1>3 DEF Controller, IRQH_Int
<1> QED  BY <1>2, <1>4, <1>5 DEF Sound

\* A withdrawal makes the line right whatever it was before: the routines run
\* after a core has dropped it.
LEMMA CallBackSound ==
  ASSUME NEW q \in Controller, NEW wiring, NEW l \in Level,
         \A k \in q.IRQ : q.CallBack[k] \in wiring[k]
  PROVE  Sound(IRQH_IRQCallBack(q, l), wiring)
<1> DEFINE r == IRQH_IRQCallBack(q, l)
<1>1. /\ r.IRQ = q.IRQ \ {l} /\ r.IRQ \in SUBSET Level
      /\ r.CallBack = q.CallBack
      /\ r.line = HighestPending(r.IRQ)
  BY DEF Controller, IRQH_IRQCallBack
<1>2. r.line \in Level \cup {0}
  BY <1>1, HighestPendingType
<1>3. r \in Controller
  BY <1>1, <1>2 DEF Controller, IRQH_IRQCallBack
<1> QED  BY <1>1, <1>3 DEF Sound

\* What my_irqh_callback does after the routine changes nothing: the routine's
\* own withdrawal has already driven the line.
LEMMA AfterVectorSound ==
  ASSUME NEW q, NEW wiring, Sound(q, wiring)
  PROVE  AfterVector(q) = q
BY DEF Sound, Controller, AfterVector

\* The core accepts only a raised level, and finds a routine wired to it.
LEMMA AcceptedIsRaised ==
  ASSUME NEW q, NEW wiring, Sound(q, wiring), NEW m \in 0..7, Accepts(q, m)
  PROVE  /\ q.line \in q.IRQ /\ q.line \in Level /\ q.line \in 1..7
         /\ q.CallBack[q.line] \in wiring[q.line]
<1>1. q.IRQ \in SUBSET Level /\ q.line = HighestPending(q.IRQ)
  BY DEF Sound, Controller
<1>2. q.line # 0
  BY DEF Accepts
<1>3. q.line \in q.IRQ
  BY <1>1, <1>2, HighestPendingType
<1>4. q.line \in Level /\ q.line \in 1..7
  BY <1>1, <1>3, LevelAssumption
<1> QED  BY <1>3, <1>4 DEF Sound

\* Dropping the line before the callback touches nothing else.
LEMMA AcceptLineKeeps ==
  ASSUME NEW q \in Controller
  PROVE  /\ AcceptLine(q) \in Controller
         /\ AcceptLine(q).IRQ = q.IRQ
         /\ AcceptLine(q).CallBack = q.CallBack
BY DEF Controller, AcceptLine

\* A machine reset leaves a sound controller.
LEMMA ResetSound ==
  ASSUME NEW q \in Controller, NEW wiring
  PROVE  Sound(IRQH_Init(q), wiring)
BY HighestPendingType DEF Sound, Controller, IRQH_Init
=============================================================================
