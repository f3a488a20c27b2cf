------------------------------ MODULE MCTimer -------------------------------
(* A data register of two bits and prescalers of one and three clocks.       *)
EXTENDS Timer
=============================================================================
