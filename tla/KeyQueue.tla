------------------------------ MODULE KeyQueue ------------------------------
(***************************************************************************)
(* What the keyboard promises to the guest: a first-in first-out queue of  *)
(* key events in front of a data register that is not overwritten before   *)
(* it has been read.  What does not fit into the queue is lost from the    *)
(* end of what the host offers, never from its middle.                     *)
(***************************************************************************)
EXTENDS Naturals, Sequences

CONSTANTS
  Event,      \* the key events
  NoKey,      \* what the register holds before the first and when idle
  Capacity    \* the events the queue has room for, a natural number

VARIABLES
  queue,     \* the events the guest has not been given
  reg,       \* the data register
  full       \* 1: it holds an event the guest has not read

vars == <<queue, reg, full>>

Init == queue = <<>> /\ reg = NoKey /\ full = 0

\* The host offers the events of one key action together.
Offer(events) ==
  /\ LET all == queue \o events
     IN  queue' = SubSeq(all, 1, IF Len(all) < Capacity THEN Len(all) ELSE Capacity)
  /\ UNCHANGED <<reg, full>>

Deliver ==
  /\ queue # <<>> /\ full = 0
  /\ reg' = Head(queue)
  /\ queue' = Tail(queue)
  /\ full' = 1

Idle ==
  /\ queue = <<>> /\ full = 0
  /\ reg' = NoKey
  /\ UNCHANGED <<queue, full>>

Read == full' = 0 /\ UNCHANGED <<queue, reg>>

\* The queue is emptied; the data register stays readable.
Discard == queue' = <<>> /\ full' = 0 /\ UNCHANGED reg

Next ==
  \/ \E n \in 1..3 : \E events \in [1..n -> Event] : Offer(events)
  \/ Deliver \/ Idle \/ Read \/ Discard

Spec == Init /\ [][Next]_vars
=============================================================================
