------------------------------- MODULE Timer --------------------------------
(***************************************************************************)
(* A timer of the MFP (x68k/mfp.c): timer A with its delay and its event   *)
(* count mode; the other three have the delay mode alone.                  *)
(*                                                                         *)
(* MFP_Timer is called after every slice of the CPU with the clocks it     *)
(* took, and counts the data register down once for every prescaled clock. *)
(* MFP_TimerA is called at the end of every line and counts the lines on   *)
(* which the vertical display period changes.  Either requests interrupt   *)
(* channel 2 when the count reaches 0.                                     *)
(***************************************************************************)
EXTENDS Integers

CONSTANTS
  Modulus,       \* the data register counts modulo 256
  Prescale,      \* the prescaler values in use, of {1, 10, 25, 40, ...}
  MaxSlice,      \* the longest slice of the CPU in clocks
  MaxFired,      \* bounds on the interrupts and on the clocks or events that the
  MaxElapsed     \* history variables count

ASSUME TimerAssumption ==
  /\ Modulus \in Nat /\ Modulus > 1
  /\ Prescale \subseteq Nat \ {0}
  /\ MaxSlice \in Nat /\ MaxFired \in Nat /\ MaxElapsed \in Nat

Data == 0..Modulus - 1
Modes == {"stop", "delay", "event"}

VARIABLES
  mode, prescale,   \* TACR
  DR,               \* TADR as a counter
  Reload,           \* Timer_Reload
  Tick,             \* Timer_Tick
  running,          \* MFP_Timer is in its loop
  fired,            \* history: the interrupts since the guest last set the timer up
  elapsed,          \* history: the clocks or events counted since then
  start, first      \* history: Timer_Tick and the count at that moment

setup == <<mode, prescale, Reload, start, first>>
vars == <<mode, prescale, DR, Reload, Tick, running, fired, elapsed, start, first>>

\* MFP_Init: TACR = 8, TADR = 1; the reload value is that of the program start.
Init ==
  /\ mode = "event" /\ prescale = 1
  /\ DR = 1 /\ Reload = 0 /\ Tick = 0
  /\ running = FALSE
  /\ fired = 0 /\ elapsed = 0 /\ start = 0 /\ first = 1

-----------------------------------------------------------------------------
\* The count a data register stands for: 0 counts the whole range.
Period(d) == IF d = 0 THEN Modulus ELSE d

\* Faulty variants of the definitions below, which the properties must refute.
CountLosingRest ==
  /\ running /\ Tick >= prescale
  /\ Tick' = 0
  /\ LET d == (DR - 1) % Modulus
     IN  IF d = 0 THEN DR' = Reload /\ fired' = fired + 1
                  ELSE DR' = d /\ UNCHANGED fired
  /\ UNCHANGED <<setup, running, elapsed>>
FireKeepingCount == DR' = 0 /\ fired' = fired + 1
FireNever == DR' = Reload /\ UNCHANGED fired

\* One count of the 8-bit register.
Down == (DR - 1) % Modulus

\* The count has reached 0: reload, MFP_Int(2).
Fire == DR' = Reload /\ fired' = fired + 1

\* The accounts start anew when the guest sets the timer up.
Account(d) == fired' = 0 /\ elapsed' = 0 /\ start' = Tick /\ first' = Period(d)

\* The guest writes TADR, which sets the counter and its reload value.
WriteDR(d) ==
  /\ ~ running
  /\ DR' = d /\ Reload' = d
  /\ Account(d)
  /\ UNCHANGED <<mode, prescale, Tick, running>>

\* The guest writes TACR: the timer goes on from where it is.
WriteCR(m, p) ==
  /\ ~ running
  /\ mode' = m
  /\ prescale' = IF m = "delay" THEN p ELSE prescale
  /\ Account(DR)
  /\ UNCHANGED <<DR, Reload, Tick, running>>

\* MFP_Timer(clock) begins.
MFP_Timer(clock) ==
  /\ ~ running /\ mode = "delay" /\ elapsed < MaxElapsed
  /\ Tick' = Tick + clock
  /\ elapsed' = elapsed + clock
  /\ running' = TRUE
  /\ UNCHANGED <<setup, DR, fired>>

\* A turn of its loop: one prescaled clock.
Count ==
  /\ running /\ Tick >= prescale
  /\ Tick' = Tick - prescale
  /\ IF Down = 0 THEN Fire ELSE DR' = Down /\ UNCHANGED fired
  /\ UNCHANGED <<setup, running, elapsed>>

Return ==
  /\ running /\ Tick < prescale
  /\ running' = FALSE
  /\ UNCHANGED <<setup, DR, Tick, fired, elapsed>>

\* MFP_TimerA at the end of a line, on which an event happens or not.
MFP_TimerA(event) ==
  /\ ~ running /\ mode = "event" /\ fired < MaxFired /\ elapsed < MaxElapsed
  /\ elapsed' = elapsed + (IF event THEN 1 ELSE 0)
  /\ LET d == IF event THEN Down ELSE DR
     IN  IF d = 0 THEN Fire ELSE DR' = d /\ UNCHANGED fired
  /\ UNCHANGED <<setup, Tick, running>>

\* A reset of the machine: MFP_Init leaves the reload value alone.
Reset ==
  /\ ~ running
  /\ mode' = "event" /\ DR' = 1 /\ Tick' = 0
  /\ fired' = 0 /\ elapsed' = 0 /\ start' = 0 /\ first' = 1
  /\ UNCHANGED <<prescale, Reload, running>>

Next ==
  \/ \E d \in Data : WriteDR(d)
  \/ \E m \in Modes, p \in Prescale : WriteCR(m, p)
  \/ \E clock \in 0..MaxSlice : MFP_Timer(clock)
  \/ Count \/ Return
  \/ \E event \in BOOLEAN : MFP_TimerA(event)
  \/ Reset

Spec == Init /\ [][Next]_vars

\* The loop of MFP_Timer runs to its end, and slices of the CPU follow.
FairSpec ==
  /\ Spec /\ WF_vars(Count) /\ WF_vars(Return)
  /\ SF_vars(\E clock \in 1..MaxSlice : MFP_Timer(clock))

-----------------------------------------------------------------------------
TypeOK ==
  /\ mode \in Modes /\ prescale \in Prescale \cup {1}
  /\ DR \in Data /\ Reload \in Data
  /\ Tick \in Nat /\ start \in Nat /\ first \in 1..Modulus
  /\ running \in BOOLEAN
  /\ fired \in Nat /\ elapsed \in Nat

\* The clocks given to a timer in delay mode are exactly those of the periods
\* it has fired for, of the counts since, and of the prescaler: over any number
\* of slices of any length the timer neither loses nor gains a clock, and data
\* 0 stands for the whole range.
DelayIsExact ==
  mode = "delay" =>
    start + elapsed = prescale * (fired * Period(Reload) + first - Period(DR)) + Tick

\* In event count mode the interrupts and the counter account for the events,
\* unless the reload value is 0: the code then finds the counter at 0 on every
\* line, and fires whether or not it has an event.
EventsAreExact ==
  mode = "event" /\ Reload # 0 =>
    elapsed = fired * Period(Reload) + first - Period(DR)

\* Outside of MFP_Timer less than a prescaled clock is left over, however long
\* the slice was: no count is put off to the next one.
NoCountLeft == mode = "delay" /\ elapsed > 0 /\ ~ running => Tick < prescale

\* A timer in delay mode fires, or the guest sets it up again.
DelayFires == mode = "delay" /\ fired = 0 ~> fired > 0 \/ elapsed = 0
=============================================================================
