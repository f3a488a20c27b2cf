-------------------------------- MODULE MCFDC -------------------------------
(* The floppy controller with one drive, for TLC.  The disk has two good      *)
(* sectors on side 0, a good and a bad one on side 1.  The guest asks for two *)
(* sectors of two bytes, for one on each side, and for three of side 1, where *)
(* a read meets the bad one and a write the missing one; and for a last       *)
(* sector that lies before the first.                                         *)
EXTENDS FDC

MCDisk == [side \in 0..1 |-> IF side = 0 THEN <<"good", "good">> ELSE <<"good", "bad">>]
P(mt, side, r, eot, len) ==
  [mt |-> mt, hd |-> side, h |-> side, r |-> r, eot |-> eot, len |-> len]
MCPrm == {P(FALSE, 0, 1, 2, 2), P(TRUE, 0, 1, 1, 1), P(FALSE, 1, 1, 3, 1),
          P(FALSE, 0, 2, 1, 1)}
MCLevel == {1}
MCEnableSets == {{}, {"FDC", "FDD"}}
=============================================================================
