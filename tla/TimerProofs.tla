---------------------------- MODULE TimerProofs -----------------------------
(***************************************************************************)
(* The timers neither lose nor gain a clock or an event: for every width   *)
(* of the counter, every prescaler and slices of every length.             *)
(***************************************************************************)
EXTENDS Timer, TLAPS

USE TimerAssumption DEF TimerAssumption

\* The counter is 0 only because it has been loaded with 0, or written.
ZeroIsLoaded == DR = 0 => Reload = 0

\* The loop of MFP_Timer runs in delay mode only.
RunsInDelay == running => mode = "delay"

IInv ==
  /\ TypeOK
  /\ ZeroIsLoaded
  /\ RunsInDelay
  /\ DelayIsExact
  /\ EventsAreExact
  /\ NoCountLeft

-----------------------------------------------------------------------------
(* Counting down.                                                          *)

LEMMA DownValue ==
  ASSUME NEW d \in Data
  PROVE  /\ d = 0 => (d - 1) % Modulus = Modulus - 1
         /\ d # 0 => (d - 1) % Modulus = d - 1
BY Z3 DEF Data

\* A count takes one off the period the register stands for, unless it fires.
LEMMA OneDown ==
  ASSUME TypeOK
  PROVE  /\ Down \in Data
         /\ Down = 0 => Period(DR) = 1
         /\ Down # 0 => Period(Down) = Period(DR) - 1
<1>1. DR \in Data
  BY DEF TypeOK
<1>2. Modulus \in Nat /\ Modulus > 1
  OBVIOUS
<1> QED
  BY <1>1, <1>2, DownValue DEF Down, Data, Period

LEMMA PeriodType ==
  ASSUME NEW d \in Data
  PROVE  Period(d) \in 1..Modulus
BY DEF Data, Period

LEMMA Distribute ==
  ASSUME NEW p \in Int, NEW x \in Int
  PROVE  p * (x + 1) = p * x + p
BY Z3

LEMMA ProductType ==
  ASSUME NEW p \in Nat, NEW x \in Nat
  PROVE  p * x \in Nat
BY Z3

\* The counts that the interrupts and the counter stand for.
Counted(n, d) == n * Period(Reload) + first - Period(d)

\* One count more, whether it fires or not.
LEMMA OneCounted ==
  ASSUME TypeOK
  PROVE  /\ Counted(fired, DR) \in Int
         /\ Down = 0 => Counted(fired + 1, Reload) = Counted(fired, DR) + 1
         /\ Down # 0 => Counted(fired, Down) = Counted(fired, DR) + 1
<1> DEFINE P == Period(Reload)
<1>1. /\ P \in Nat /\ Period(DR) \in Nat /\ first \in Nat /\ fired \in Nat
  BY PeriodType DEF TypeOK
<1>2. fired * P \in Nat
  BY <1>1, ProductType
<1>3. (fired + 1) * P = fired * P + P
  BY <1>1, Z3
<1> HIDE DEF P
<1>4. Counted(fired, DR) = fired * P + first - Period(DR)
  BY DEF Counted, P
<1>5. CASE Down = 0
  <2>1. Counted(fired + 1, Reload) = (fired + 1) * P + first - P
    BY DEF Counted, P
  <2> QED
    BY <1>1, <1>2, <1>3, <1>4, <1>5, <2>1, OneDown
<1>6. CASE Down # 0
  <2>1. Counted(fired, Down) = fired * P + first - Period(Down)
    BY DEF Counted, P
  <2> QED
    BY <1>1, <1>2, <1>4, <1>6, <2>1, OneDown
<1> QED
  BY <1>5, <1>6

-----------------------------------------------------------------------------
(* The steps.                                                              *)

\* After the guest has set the timer up, nothing has been counted.
LEMMA AccountStarts ==
  ASSUME NEW d \in Data, Account(d)
  PROVE  /\ fired' = 0 /\ elapsed' = 0 /\ start' = Tick /\ first' = Period(d)
         /\ first' \in 1..Modulus
BY PeriodType DEF Account

\* The end of a count, which both modes share.
LEMMA CountOn ==
  ASSUME TypeOK, ZeroIsLoaded, UNCHANGED <<Reload, first>>,
         IF Down = 0 THEN Fire ELSE DR' = Down /\ UNCHANGED fired
  PROVE  /\ DR' \in Data /\ fired' \in Nat
         /\ (DR = 0 => Reload = 0)'
         /\ Counted(fired, DR) \in Int
         /\ Counted(fired, DR)' = Counted(fired, DR) + 1
<1>1. CASE Down = 0
  <2>1. DR' = Reload /\ fired' = fired + 1
    BY <1>1 DEF Fire
  <2>2. Counted(fired, DR)' = Counted(fired + 1, Reload)
    BY <2>1, Zenon DEF Counted, Period
  <2> QED
    BY <1>1, <2>1, <2>2, OneCounted DEF TypeOK
<1>2. CASE Down # 0
  <2>1. DR' = Down /\ fired' = fired
    BY <1>2
  <2>2. Counted(fired, DR)' = Counted(fired, Down)
    BY <2>1, Zenon DEF Counted, Period
  <2> QED
    BY <1>2, <2>1, <2>2, OneCounted, OneDown DEF TypeOK
<1> QED
  BY <1>1, <1>2

LEMMA WriteDRStep == ASSUME IInv, NEW d \in Data, WriteDR(d) PROVE IInv'
<1> USE DEF IInv
<1>1. /\ fired' = 0 /\ elapsed' = 0 /\ start' = Tick /\ first' = Period(d)
      /\ first' \in 1..Modulus
  BY AccountStarts DEF WriteDR
<1>2. /\ ~ running /\ DR' = d /\ Reload' = d
      /\ mode' = mode /\ prescale' = prescale /\ Tick' = Tick /\ running' = running
  BY DEF WriteDR
<1>3. TypeOK'
  BY <1>1, <1>2 DEF TypeOK
<1>4. ZeroIsLoaded' /\ RunsInDelay'
  BY <1>2 DEF ZeroIsLoaded, RunsInDelay
<1>5. Period(d) \in Nat /\ prescale \in Nat /\ Tick \in Nat
  BY PeriodType DEF TypeOK
<1>6. 0 * Period(d) + Period(d) - Period(d) = 0 /\ Tick + 0 = prescale * 0 + Tick
  BY <1>5
<1>7. DelayIsExact' /\ EventsAreExact'
  <2>1. Period(DR)' = Period(d) /\ Period(Reload)' = Period(d)
    BY <1>2, Zenon DEF Period
  <2> QED
    BY <1>1, <1>2, <1>6, <2>1, Zenon DEF DelayIsExact, EventsAreExact
<1>8. NoCountLeft'
  BY <1>1 DEF NoCountLeft
<1> QED
  BY <1>3, <1>4, <1>7, <1>8

LEMMA WriteCRStep ==
  ASSUME IInv, NEW m \in Modes, NEW p \in Prescale, WriteCR(m, p)
  PROVE  IInv'
<1> USE DEF IInv
<1>0. DR \in Data
  BY DEF TypeOK
<1>1. /\ fired' = 0 /\ elapsed' = 0 /\ start' = Tick /\ first' = Period(DR)
      /\ first' \in 1..Modulus
  BY <1>0, AccountStarts DEF WriteCR
<1>2. /\ ~ running /\ mode' = m /\ prescale' \in Prescale \cup {1}
      /\ DR' = DR /\ Reload' = Reload /\ Tick' = Tick /\ running' = running
  BY DEF WriteCR, TypeOK
<1>3. TypeOK'
  BY <1>1, <1>2 DEF TypeOK
<1>4. ZeroIsLoaded' /\ RunsInDelay'
  BY <1>2 DEF ZeroIsLoaded, RunsInDelay
<1>5. Period(DR) \in Nat /\ Period(Reload) \in Nat /\ Tick \in Nat
  BY PeriodType DEF TypeOK
<1>6. PICK q \in Nat : prescale' = q
  BY <1>2
<1>7. 0 * Period(Reload) + Period(DR) - Period(DR) = 0 /\ Tick + 0 = q * 0 + Tick
  BY <1>5
<1>8. DelayIsExact' /\ EventsAreExact'
  <2>1. Period(DR)' = Period(DR) /\ Period(Reload)' = Period(Reload)
    BY <1>2, Zenon DEF Period
  <2> QED
    BY <1>1, <1>2, <1>6, <1>7, <2>1, Zenon DEF DelayIsExact, EventsAreExact
<1>9. NoCountLeft'
  BY <1>1 DEF NoCountLeft
<1> QED
  BY <1>3, <1>4, <1>8, <1>9

LEMMA TimerStep ==
  ASSUME IInv, NEW clock \in 0..MaxSlice, MFP_Timer(clock)
  PROVE  IInv'
<1> USE DEF IInv
<1>1. /\ ~ running /\ running' = TRUE /\ mode = "delay"
      /\ Tick' = Tick + clock /\ elapsed' = elapsed + clock /\ clock \in Nat
      /\ UNCHANGED <<mode, prescale, Reload, start, first, DR, fired>>
  BY DEF MFP_Timer, setup
<1>2. TypeOK'
  BY <1>1 DEF TypeOK
<1>3. ZeroIsLoaded' /\ RunsInDelay' /\ NoCountLeft'
  BY <1>1 DEF ZeroIsLoaded, RunsInDelay, NoCountLeft
<1>4. Period(DR)' = Period(DR) /\ Period(Reload)' = Period(Reload)
  BY <1>1, Zenon DEF Period
<1>5. DelayIsExact'
  <2> DEFINE X == prescale * (fired * Period(Reload) + first - Period(DR))
  <2>1. X' = X
    BY <1>1, <1>4, Zenon
  <2>2. X \in Int
    <3>1. Counted(fired, DR) \in Int /\ prescale \in Nat
      BY OneCounted DEF TypeOK
    <3>2. prescale * Counted(fired, DR) \in Int
      BY <3>1, Z3
    <3> QED
      BY <3>2, Zenon DEF Counted
  <2>3. start + elapsed = X + Tick
    BY <1>1 DEF DelayIsExact
  <2> HIDE DEF X
  <2>4. start' + elapsed' = X' + Tick'
    BY <1>1, <2>1, <2>2, <2>3 DEF TypeOK
  <2> QED
    BY <2>4 DEF DelayIsExact, X
<1>6. EventsAreExact'
  BY <1>1 DEF EventsAreExact
<1> QED
  BY <1>2, <1>3, <1>5, <1>6

LEMMA CountStep == ASSUME IInv, Count PROVE IInv'
<1> USE DEF IInv
<1>1. /\ running /\ Tick >= prescale /\ Tick' = Tick - prescale /\ mode = "delay"
      /\ UNCHANGED <<mode, prescale, Reload, start, first, running, elapsed>>
  BY DEF Count, setup, RunsInDelay
<1>2. /\ DR' \in Data /\ fired' \in Nat /\ (DR = 0 => Reload = 0)'
      /\ Counted(fired, DR) \in Int
      /\ Counted(fired, DR)' = Counted(fired, DR) + 1
  BY <1>1, CountOn DEF Count
<1>3. Tick' \in Nat
  BY <1>1 DEF TypeOK
<1>4. TypeOK'
  BY <1>1, <1>2, <1>3 DEF TypeOK
<1>5. ZeroIsLoaded' /\ RunsInDelay' /\ NoCountLeft' /\ EventsAreExact'
  BY <1>1, <1>2 DEF ZeroIsLoaded, RunsInDelay, NoCountLeft, EventsAreExact
<1>6. DelayIsExact'
  <2>1. start + elapsed = prescale * Counted(fired, DR) + Tick
    BY <1>1, Zenon DEF DelayIsExact, Counted
  <2>2. prescale \in Nat /\ Tick \in Nat /\ prescale * Counted(fired, DR) \in Int
    <3>1. prescale \in Nat /\ Tick \in Nat
      BY DEF TypeOK
    <3> QED
      BY <1>2, <3>1, Z3
  <2>3. prescale * (Counted(fired, DR) + 1) = prescale * Counted(fired, DR) + prescale
    BY <1>2, <2>2, Distribute
  <2>4. start' + elapsed' = prescale' * Counted(fired, DR)' + Tick'
    BY <1>1, <1>2, <2>1, <2>2, <2>3
  <2> QED
    BY <2>4, Zenon DEF DelayIsExact, Counted
<1> QED
  BY <1>4, <1>5, <1>6

LEMMA ReturnStep == ASSUME IInv, Return PROVE IInv'
<1> USE DEF IInv
<1>1. /\ Tick < prescale /\ running' = FALSE
      /\ UNCHANGED <<mode, prescale, Reload, start, first, DR, Tick, fired, elapsed>>
  BY DEF Return, setup
<1>2. TypeOK'
  BY <1>1 DEF TypeOK
<1>3. ZeroIsLoaded' /\ RunsInDelay' /\ NoCountLeft'
  BY <1>1 DEF ZeroIsLoaded, RunsInDelay, NoCountLeft
<1>4. DelayIsExact' /\ EventsAreExact'
  BY <1>1, Zenon DEF DelayIsExact, EventsAreExact, Period
<1> QED
  BY <1>2, <1>3, <1>4

LEMMA TimerAStep ==
  ASSUME IInv, NEW event \in BOOLEAN, MFP_TimerA(event)
  PROVE  IInv'
<1> USE DEF IInv
<1>1. /\ ~ running /\ mode = "event"
      /\ UNCHANGED <<mode, prescale, Reload, start, first, Tick, running>>
  BY DEF MFP_TimerA, setup
<1>2. ZeroIsLoaded' /\ TypeOK' /\ EventsAreExact'
  <2>1. CASE event
    <3>1. /\ elapsed' = elapsed + 1
          /\ IF Down = 0 THEN Fire ELSE DR' = Down /\ UNCHANGED fired
      BY <2>1 DEF MFP_TimerA
    <3>2. /\ DR' \in Data /\ fired' \in Nat /\ (DR = 0 => Reload = 0)'
          /\ Counted(fired, DR)' = Counted(fired, DR) + 1
      BY <1>1, <3>1, CountOn
    <3>3. TypeOK'
      BY <1>1, <3>1, <3>2 DEF TypeOK
    <3>4. EventsAreExact'
      <4>1. Reload # 0 => elapsed = Counted(fired, DR)
        BY <1>1, Zenon DEF EventsAreExact, Counted
      <4>2. Reload' # 0 => elapsed' = Counted(fired, DR)'
        BY <1>1, <3>1, <3>2, <4>1
      <4> QED
        BY <4>2, Zenon DEF EventsAreExact, Counted
    <3> QED
      BY <3>2, <3>3, <3>4 DEF ZeroIsLoaded
  <2>2. CASE ~ event
    <3>1. /\ elapsed' = elapsed
          /\ IF DR = 0 THEN Fire ELSE DR' = DR /\ UNCHANGED fired
      BY <2>2 DEF MFP_TimerA, TypeOK
    <3>2. CASE DR = 0
      <4>1. DR' = Reload /\ fired' = fired + 1 /\ Reload' = 0
        BY <1>1, <3>1, <3>2 DEF Fire, ZeroIsLoaded
      <4>2. TypeOK'
        BY <1>1, <3>1, <4>1 DEF TypeOK
      <4> QED
        BY <4>1, <4>2 DEF ZeroIsLoaded, EventsAreExact
    <3>3. CASE DR # 0
      <4>1. UNCHANGED <<DR, fired, elapsed>>
        BY <3>1, <3>3
      <4>2. TypeOK'
        BY <1>1, <4>1 DEF TypeOK
      <4> QED
        BY <1>1, <4>1, <4>2, Zenon DEF ZeroIsLoaded, EventsAreExact, Period
    <3> QED
      BY <3>2, <3>3
  <2> QED
    BY <2>1, <2>2
<1>3. RunsInDelay' /\ NoCountLeft' /\ DelayIsExact'
  BY <1>1 DEF RunsInDelay, NoCountLeft, DelayIsExact
<1> QED
  BY <1>2, <1>3

LEMMA ResetStep == ASSUME IInv, Reset PROVE IInv'
<1> USE DEF IInv
<1>1. /\ mode' = "event" /\ DR' = 1 /\ Tick' = 0 /\ ~ running
      /\ fired' = 0 /\ elapsed' = 0 /\ start' = 0 /\ first' = 1
      /\ UNCHANGED <<prescale, Reload, running>>
  BY DEF Reset
<1>2. TypeOK'
  BY <1>1 DEF TypeOK, Data, Modes
<1>3. ZeroIsLoaded' /\ RunsInDelay' /\ NoCountLeft' /\ DelayIsExact'
  BY <1>1 DEF ZeroIsLoaded, RunsInDelay, NoCountLeft, DelayIsExact
<1>4. EventsAreExact'
  <2>1. Period(DR)' = 1 /\ Period(Reload)' = Period(Reload)
    BY <1>1 DEF Period
  <2>2. 0 * Period(Reload) + 1 - 1 = 0
    BY PeriodType DEF TypeOK
  <2> QED
    BY <1>1, <2>1, <2>2, Zenon DEF EventsAreExact
<1> QED
  BY <1>2, <1>3, <1>4

LEMMA Stutter == ASSUME IInv, UNCHANGED vars PROVE IInv'
<1>1. /\ mode' = mode /\ prescale' = prescale /\ DR' = DR /\ Reload' = Reload
      /\ Tick' = Tick /\ running' = running /\ fired' = fired
      /\ elapsed' = elapsed /\ start' = start /\ first' = first
  BY DEF vars
<1> QED
  BY <1>1, Zenon DEF IInv, TypeOK, ZeroIsLoaded, RunsInDelay, DelayIsExact,
     EventsAreExact, NoCountLeft, Period

-----------------------------------------------------------------------------
(* The theorems.                                                           *)

LEMMA InitIInv == Init => IInv
<1> SUFFICES ASSUME Init PROVE IInv
  OBVIOUS
<1>1. TypeOK
  <2>1. /\ mode \in Modes /\ DR \in Data /\ Reload \in Data /\ first \in 1..Modulus
        /\ Tick \in Nat /\ start \in Nat /\ fired \in Nat /\ elapsed \in Nat
        /\ prescale \in Prescale \cup {1}
    BY DEF Init, Data, Modes
  <2>2. running \in BOOLEAN
    BY Zenon DEF Init
  <2> QED
    BY <2>1, <2>2, Zenon DEF TypeOK
<1>2. mode # "delay" /\ DR # 0 /\ elapsed = 0 /\ Reload = 0
  BY DEF Init
<1>3. ~ running
  BY Zenon DEF Init
<1>4. RunsInDelay /\ DelayIsExact /\ NoCountLeft /\ ZeroIsLoaded /\ EventsAreExact
  BY <1>2, <1>3, Zenon DEF RunsInDelay, DelayIsExact, NoCountLeft, ZeroIsLoaded, EventsAreExact
<1> QED
  BY <1>1, <1>4, Zenon DEF IInv

LEMMA NextIInv == IInv /\ [Next]_vars => IInv'
<1> SUFFICES ASSUME IInv, [Next]_vars PROVE IInv'
  OBVIOUS
<1>1. ASSUME NEW d \in Data, WriteDR(d) PROVE IInv'
  BY <1>1, WriteDRStep
<1>2. ASSUME NEW m \in Modes, NEW p \in Prescale, WriteCR(m, p) PROVE IInv'
  BY <1>2, WriteCRStep
<1>3. ASSUME NEW clock \in 0..MaxSlice, MFP_Timer(clock) PROVE IInv'
  BY <1>3, TimerStep
<1>4. ASSUME NEW event \in BOOLEAN, MFP_TimerA(event) PROVE IInv'
  BY <1>4, TimerAStep
<1>5. CASE Count \/ Return \/ Reset
  BY <1>5, CountStep, ReturnStep, ResetStep
<1>6. CASE UNCHANGED vars
  BY <1>6, Stutter
<1> QED
  BY <1>1, <1>2, <1>3, <1>4, <1>5, <1>6 DEF Next

\* The inductive invariant: the accounts of both modes, with what they rest on.
THEOREM Invariance == Spec => []IInv
<1>1. Init => IInv
  BY InitIInv
<1>2. IInv /\ [Next]_vars => IInv'
  BY NextIInv
<1> QED
  BY <1>1, <1>2, PTL DEF Spec

\* The registers keep their width, and the accounts never go below 0.
THEOREM TypeCorrect == Spec => []TypeOK
<1>1. IInv => TypeOK
  BY DEF IInv
<1> QED
  BY <1>1, Invariance, PTL

\* Over any number of slices of any length no clock is lost or gained.
THEOREM ClocksAreCounted == Spec => []DelayIsExact
<1>1. IInv => DelayIsExact
  BY DEF IInv
<1> QED
  BY <1>1, Invariance, PTL

\* No event is lost or counted twice, at any reload value but 0.
THEOREM EventsAreCounted == Spec => []EventsAreExact
<1>1. IInv => EventsAreExact
  BY DEF IInv
<1> QED
  BY <1>1, Invariance, PTL

\* The loop of MFP_Timer ends only when every prescaled clock is counted.
THEOREM CountingIsComplete == Spec => []NoCountLeft
<1>1. IInv => NoCountLeft
  BY DEF IInv
<1> QED
  BY <1>1, Invariance, PTL
=============================================================================
