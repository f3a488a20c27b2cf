-------------------------------- MODULE MCSCC -------------------------------
(* The mouse port for TLC.  The bytes select the registers 0, 1, 3, 5 and 9,   *)
(* and as values set and clear the bits that matter; 16 selects none.          *)
EXTENDS SCC

MCLevel == {5}
MCBytesA == {0, 3, 9}
MCBytesB == {0, 1, 3, 5, 9, 16}
MCMoves == {-1, 2}
MCLow == -2
=============================================================================
