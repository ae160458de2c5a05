-------------------------- MODULE MCControlledNode --------------------------
(* Constants of the TLC instances of ControlledNode.                        *)
EXTENDS ControlledNode

CONSTANT n1     \* a monitored node

NoHbNodes   == {}
NoHbTimeout == [n \in NoHbNodes |-> 1]

OneHbNode    == {n1}
OneHbTimeout == [n \in OneHbNode |-> 2]

NoSoARequests == {}
\* Every service, and an ER with the StatusRequest.
AllSoARequests == (RequestedService \X {FALSE}) \cup {<<"StatusRequest", TRUE>>}

NoCommands    == {}
CycleCommands == {"StopNode", "EnterPreOperational2", "ResetNode"}
AllCommands   == NmtStateCommand
=============================================================================
