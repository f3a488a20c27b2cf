------------------------------- MODULE MCDMAC -------------------------------
(* One channel in the modes that differ, or two channels in one mode.        *)
EXTENDS DMAC, TLC

\* The end of a chain; a block of two operands; one of a single operand, linked
\* to the first; and one whose table entry cannot be read.
MCTable == 0 :> [mtc |-> 0, next |-> 0, flag |-> 0]
        @@ 1 :> [mtc |-> 2, next |-> 0, flag |-> 0]
        @@ 2 :> [mtc |-> 1, next |-> 1, flag |-> 0]
        @@ 3 :> [mtc |-> 1, next |-> 0, flag |-> 1]

MCTinyTable == 0 :> [mtc |-> 0, next |-> 0, flag |-> 0]
            @@ 1 :> [mtc |-> 1, next |-> 0, flag |-> 0]

\* Requests at limited rate behave as external ones of a device always ready.
MCModes == {<<"none", "external">>, <<"none", "maximum">>,
            <<"link", "external">>, <<"array", "maximum">>}
MCSingleModes == {<<"none", "maximum">>}

\* An abort on a channel that is not started stores the other bits, as without it.
MCCCRValues == SUBSET {"STR", "CNT", "HLT", "INT"} \cup {{"SAB"}, {"SAB", "INT"}}
MCCSRValues == SUBSET {"COC", "BTC", "ERR"}
MCPairStarts == {{"STR", "CNT", "INT"}}
=============================================================================
