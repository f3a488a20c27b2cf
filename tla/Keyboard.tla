------------------------------ MODULE Keyboard ------------------------------
(***************************************************************************)
(* The keyboard (SDL/keyboard.c): key events of the host become scan codes *)
(* in a ring buffer; the frame loop moves one at a time to the receive     *)
(* register of the MFP and requests an interrupt; the guest reads the      *)
(* register.                                                               *)
(*                                                                         *)
(* A scan code is an event: the key's code and whether the key goes up     *)
(* (bit 7).  A host key may be mapped to the other shift state of a key    *)
(* (bit 7 of the table's entry); it is then sent between two changes of    *)
(* the shift key.  Of the MFP only its receive channel is kept, as one     *)
(* enable and one pending bit; MFP.tla has the whole.  The guest may write *)
(* both bits and read the register whenever it likes.                      *)
(***************************************************************************)
EXTENDS Integers, Sequences, FiniteSetsExt

CONSTANTS
  KeyBufSize,     \* slots of the ring; one of them stays free
  Scan,           \* the host's keys
  Code,           \* the codes of the guest's keys
  SHIFT,          \* the code of the shift key (0x70)
  NC,             \* no code: a host key that is not mapped
  NoKey,          \* the contents of an unused slot and of an idle register (0)
  ScanTable       \* shift state, host key -> code and its bit 7

ASSUME KeyboardAssumption ==
  /\ KeyBufSize \in Nat /\ KeyBufSize > 1
  /\ SHIFT \in Code /\ NC \notin Code
  /\ ScanTable \in [{0, 1} -> [Scan -> [code : Code \cup {NC}, remap : BOOLEAN]]]

Event == [code : Code, up : BOOLEAN]
Slot == 0..KeyBufSize - 1

ASSUME NoKeyAssumption == NoKey \notin Event

VARIABLES
  KeyBuf, KeyBufWP, KeyBufRP,   \* the ring
  KeyIntFlag,                   \* 1: the register holds an unread event
  LastKey,                      \* the register
  shiftdown,                    \* 1: the host's shift key is down
  enabled, pending,             \* the MFP's receive channel (IERA, IPRA bit 4)
  serving,                      \* the guest is in its receive handler
  guestShift,                   \* the shift state as the guest has been told
  lost,                         \* history: an event has been lost
  missed                        \* history: the unread event came while the channel
                                \* was disabled, or the guest withdrew its request

ring == <<KeyBuf, KeyBufWP, KeyBufRP>>
guest == <<enabled, serving, guestShift>>
keyVars == <<ring, KeyIntFlag, LastKey, shiftdown, guest, pending, lost, missed>>

\* Keyboard_Init and MFP_Init after power-on; IERA is set to 0x18.
KeyInit ==
  /\ KeyBuf = [i \in Slot |-> NoKey] /\ KeyBufWP = 0 /\ KeyBufRP = 0
  /\ KeyIntFlag = 0 /\ LastKey = NoKey /\ shiftdown = 0
  /\ enabled = TRUE /\ pending = FALSE
  /\ serving = FALSE /\ guestShift = FALSE /\ lost = FALSE /\ missed = FALSE

-----------------------------------------------------------------------------
\* The events in the ring, oldest first.
Count == (KeyBufWP - KeyBufRP) % KeyBufSize
Buffered == [i \in 1..Count |-> KeyBuf[(KeyBufRP + i - 1) % KeyBufSize]]

Up(c) == [code |-> c, up |-> TRUE]
Down(c) == [code |-> c, up |-> FALSE]

\* Faulty variants of the definitions below, which the properties must refute.
SendUnwrapped(r, e) ==
  IF (r.wp + 1) % KeyBufSize = KeyBufRP THEN r
  ELSE [r EXCEPT !.buf[r.wp] = e, !.wp = IF @ = KeyBufSize THEN 0 ELSE @ + 1]
SendOverwriting(r, e) == [r EXCEPT !.buf[r.wp] = e, !.wp = (@ + 1) % KeyBufSize]

\* send_keycode on a ring r: a full ring drops the event.
send_keycode(r, e) ==
  LET newwp == (r.wp + 1) % KeyBufSize
  IN  IF e.code = NC THEN r
      ELSE IF newwp = KeyBufRP THEN [r EXCEPT !.lost = TRUE]
      ELSE [r EXCEPT !.buf[r.wp] = e, !.wp = newwp]

TheRing == [buf |-> KeyBuf, wp |-> KeyBufWP, lost |-> lost]

\* An event between two of the shift key.
SendAround(first, e, last) ==
  send_keycode(send_keycode(send_keycode(TheRing, first), e), last)

\* A faulty variant: the shift key is released in either shift state.
SentShiftKept(entry, shift, e) ==
  IF entry.remap THEN SendAround(Up(SHIFT), e, Down(SHIFT)) ELSE send_keycode(TheRing, e)

\* What a host key sends: a remapped one undoes the shift state around itself.
Sent(entry, shift, e) ==
  CASE ~ entry.remap -> send_keycode(TheRing, e)
    [] entry.remap /\ shift = 1 -> SendAround(Up(SHIFT), e, Down(SHIFT))
    [] entry.remap /\ shift = 0 -> SendAround(Down(SHIFT), e, Up(SHIFT))

\* The shift state after the key of an entry has gone down or up.
ShiftAfterKey(entry, up) ==
  IF entry = [code |-> SHIFT, remap |-> FALSE] THEN (IF up THEN 0 ELSE 1)
  ELSE shiftdown

\* Keyboard_KeyDown, Keyboard_KeyUp.  The host repeats keys and sends a release
\* for a key that went down in the menu, so either may come at any time.
HostKey(scan, up) ==
  LET entry == ScanTable[shiftdown][scan]
      shift == ShiftAfterKey(entry, up)
      r == Sent(entry, shift, [code |-> entry.code, up |-> up])
  IN  /\ shiftdown' = shift
      /\ KeyBuf' = r.buf /\ KeyBufWP' = r.wp /\ lost' = r.lost
      /\ UNCHANGED <<KeyBufRP, KeyIntFlag, LastKey, guest, pending, missed>>

Keyboard_KeyDown(scan) == HostKey(scan, FALSE)
Keyboard_KeyUp(scan) == HostKey(scan, TRUE)

\* Faulty variants of Keyboard_Int and ReadUDR.
IntIntoPending ==
  /\ KeyBufRP # KeyBufWP /\ KeyIntFlag = 0
  /\ LastKey' = KeyBuf[KeyBufRP]
  /\ KeyBufRP' = (KeyBufRP + 1) % KeyBufSize
  /\ KeyIntFlag' = 1
  /\ missed' = ~ (enabled \/ serving)
  /\ UNCHANGED <<KeyBuf, KeyBufWP, shiftdown, guest, pending, lost>>
ReadKeepingFlag ==
  /\ guestShift' = IF LastKey # NoKey /\ LastKey.code = SHIFT THEN ~ LastKey.up
                   ELSE guestShift
  /\ serving' = FALSE
  /\ UNCHANGED <<ring, KeyIntFlag, LastKey, shiftdown, enabled, pending, lost, missed>>

\* Keyboard_Int with a key in the ring and a register that has been read.
\* MFP_Int(3) makes the channel pending if it is enabled.
Keyboard_Int ==
  /\ KeyBufRP # KeyBufWP /\ KeyIntFlag = 0
  /\ LastKey' = KeyBuf[KeyBufRP]
  /\ KeyBufRP' = (KeyBufRP + 1) % KeyBufSize
  /\ KeyIntFlag' = 1
  /\ pending' = (pending \/ enabled)
  /\ missed' = ~ (enabled \/ serving)
  /\ UNCHANGED <<KeyBuf, KeyBufWP, shiftdown, guest, lost>>

\* Keyboard_Int with an empty ring.
Keyboard_Idle ==
  /\ KeyBufRP = KeyBufWP /\ KeyIntFlag = 0
  /\ LastKey' = NoKey
  /\ UNCHANGED <<ring, KeyIntFlag, shiftdown, guest, pending, lost, missed>>

\* The guest's read of the receive register (MFP_Read, register 23); it ends its
\* handler.
ReadUDR ==
  /\ KeyIntFlag' = 0
  /\ guestShift' = IF LastKey # NoKey /\ LastKey.code = SHIFT THEN ~ LastKey.up
                   ELSE guestShift
  /\ serving' = FALSE /\ missed' = FALSE
  /\ UNCHANGED <<ring, LastKey, shiftdown, enabled, pending, lost>>

\* The CPU accepts the receive interrupt.
Accept ==
  /\ pending /\ ~ serving
  /\ pending' = FALSE
  /\ serving' = TRUE
  /\ UNCHANGED <<ring, KeyIntFlag, LastKey, shiftdown, enabled, guestShift, lost, missed>>

\* What the guest does to the pending bit; a request that it takes back while
\* the event is unread, and outside its handler, is one that it has missed.
Keep(request) ==
  /\ pending' = request
  /\ missed' = (missed \/ (pending /\ ~ request /\ ~ serving /\ KeyIntFlag = 1))

\* The guest enables the channel or disables it, which withdraws the request;
\* enabling it requests nothing for an event that is in the register already.
WriteIERA(on) ==
  /\ enabled' = on
  /\ Keep(pending /\ on)
  /\ UNCHANGED <<ring, KeyIntFlag, LastKey, shiftdown, serving, guestShift, lost>>

\* The guest clears the pending bit.
WriteIPRA ==
  /\ Keep(FALSE)
  /\ UNCHANGED <<ring, KeyIntFlag, LastKey, shiftdown, guest, lost>>

ClearRing ==
  /\ KeyBuf' = [i \in Slot |-> NoKey] /\ KeyBufWP' = 0 /\ KeyBufRP' = 0
  /\ KeyIntFlag' = 0 /\ missed' = FALSE

\* Keyboard_Init from a click into the menu: the guest knows nothing of it.
Keyboard_Init ==
  /\ ClearRing
  /\ lost' = (lost \/ KeyBufRP # KeyBufWP \/ KeyIntFlag = 1)
  /\ UNCHANGED <<LastKey, shiftdown, guest, pending>>

\* A reset of the machine: MFP_Init enables the channel and drops its request,
\* the guest starts afresh, and neither LastKey nor shiftdown is touched.
KeyReset ==
  /\ ClearRing
  /\ enabled' = TRUE /\ pending' = FALSE
  /\ serving' = FALSE /\ guestShift' = FALSE
  /\ lost' = (shiftdown = 1 \/ LastKey # NoKey)
  /\ UNCHANGED <<LastKey, shiftdown>>

KeyNext ==
  \/ \E scan \in Scan : Keyboard_KeyDown(scan) \/ Keyboard_KeyUp(scan)
  \/ Keyboard_Int \/ Keyboard_Idle
  \/ ReadUDR \/ Accept
  \/ (\E on \in BOOLEAN : WriteIERA(on)) \/ WriteIPRA
  \/ Keyboard_Init \/ KeyReset

KeySpec == KeyInit /\ [][KeyNext]_keyVars

\* The guest's reads that it is bound to make: in its handler, and in the loop
\* that polls the register while the channel is disabled.
ServeOrPoll == (serving \/ ~ enabled) /\ ReadUDR

\* The frame loop calls Keyboard_Int again and again; the guest takes its
\* interrupts, leaves its handler and keeps polling while the channel is off.
KeyFairness == SF_keyVars(Keyboard_Int) /\ SF_keyVars(Accept) /\ SF_keyVars(ServeOrPoll)
KeyFairSpec == KeySpec /\ KeyFairness

-----------------------------------------------------------------------------
\* The ring's slots hold events or nothing, its pointers name slots.
KeyTypeOK ==
  /\ KeyBuf \in [Slot -> Event \cup {NoKey}]
  /\ KeyBufWP \in Slot /\ KeyBufRP \in Slot
  /\ KeyIntFlag \in {0, 1} /\ shiftdown \in {0, 1}
  /\ LastKey \in Event \cup {NoKey}
  /\ {enabled, pending, serving, guestShift, lost, missed} \subseteq BOOLEAN

\* An event in the register has been announced: the guest has the request before
\* it or is in its handler, unless the event came while the channel was disabled
\* or the guest itself withdrew the request.  An event nobody announces leaves
\* the keyboard dead, since Keyboard_Int waits for the register to be read.
Announced == KeyIntFlag = 1 => pending \/ serving \/ missed

\* What the guest has still to read, oldest first.
Waiting == (IF KeyIntFlag = 1 THEN <<LastKey>> ELSE <<>>) \o Buffered

\* The shift state a guest takes from events: that of the last of them which is
\* one of the shift key.
ShiftTold(shift, events) ==
  LET told == {i \in DOMAIN events : events[i].code = SHIFT}
  IN  IF told = {} THEN shift ELSE ~ events[Max(told)].up

\* Once the guest has read all that is waiting, it sees the shift key as the
\* host does: the detours of remapped keys leave no shift key stuck.
GuestShiftAgrees == ~ lost => ShiftTold(guestShift, Waiting) = (shiftdown = 1)

\* No key stays in the ring: the reader moves again and again, unless the ring is
\* empty again and again, or the guest has enabled the channel over an event that
\* it has neither read nor been told of.
KeysMove ==
  \/ []<>(Count = 0 \/ (missed /\ enabled))
  \/ []<><<KeyBufRP' # KeyBufRP>>_keyVars

\* The ring, its pointers and the flag are the queue and register the guest
\* is promised.
Promise == INSTANCE KeyQueue
             WITH queue <- Buffered, reg <- LastKey, full <- KeyIntFlag,
                  Capacity <- KeyBufSize - 1
ImplementsKeyQueue == Promise!Spec
=============================================================================
