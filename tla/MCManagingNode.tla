--------------------------- MODULE MCManagingNode ---------------------------
(* Constants of the TLC instances of ManagingNode.                          *)
EXTENDS ManagingNode

OneCn      == {1}
TwoCns     == {1, 2}
FirstOnly  == <<1>>
BothInTurn == <<1, 2>>
SecondOnly == <<2>>
NoList     == <<>>

EveryCycle == [n \in Cns |-> 0]
\* Node 2 is polled in the first of the multiplexed cycles.
SecondMultiplexed == [n \in Cns |-> IF n = 2 THEN 1 ELSE 0]

ShortPres == [n \in Cns |-> 1]

NoFlags  == {}
NoCycles == {}
FirstCycle == {1}

\* NMT_StartUp_U32: the application completes PreOp2 and starts operation,
\* with a broadcast NMTStartNode, and the configuration of the CNs is checked.
AppConfFlags == {1, 2, 8, 11}
=============================================================================
