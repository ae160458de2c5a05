------------------------------- MODULE CnNmt -------------------------------
(***************************************************************************)
(* The NMT state machine of a Controlled Node                              *)
(* (nmt/cn_state_machine.rs, with the reset cascade of                     *)
(* nmt/state_machine.rs).  Pure operators: the state is a variable of the  *)
(* module that uses them.                                                  *)
(***************************************************************************)
EXTENDS NmtStates

\* Mutant: the states are compared by discriminant, so CsStopped ignores Error.
MutErrorIgnored(s, e) ==
  CASE e \in ResetEvent -> "NotActive"
    [] s = "NotActive" /\ e \in {"SocReceived", "SocSoAReceived"} -> "PreOp1"
    [] s = "NotActive" /\ e = "Timeout" -> "BasicEthernet"
    [] s = "PreOp1" /\ e = "SocReceived" -> "PreOp2"
    [] s = "PreOp2" /\ e = "CnConfigurationComplete" -> "ReadyToOp"
    [] s = "ReadyToOp" /\ e = "StartNode" -> "Operational"
    [] s \in AtLeastPreOp2 /\ e = "StopNode" -> "CsStopped"
    [] s \in {"Operational", "CsStopped"} /\ e = "EnterPreOperational2" -> "PreOp2"
    [] s \in AtLeastPreOp2 /\ e = "Error" -> "PreOp1"
    [] s = "BasicEthernet" /\ e = "PowerlinkFrameReceived" -> "PreOp1"
    [] OTHER -> s

\* Mutant: StartNode is accepted before the application confirmed.
MutStartUnconfirmed(s, e) ==
  CASE e \in ResetEvent -> "NotActive"
    [] s = "NotActive" /\ e \in {"SocReceived", "SocSoAReceived"} -> "PreOp1"
    [] s = "NotActive" /\ e = "Timeout" -> "BasicEthernet"
    [] s = "PreOp1" /\ e = "SocReceived" -> "PreOp2"
    [] s = "PreOp2" /\ e = "CnConfigurationComplete" -> "ReadyToOp"
    [] s \in {"PreOp2", "ReadyToOp"} /\ e = "StartNode" -> "Operational"
    [] s \in AtLeastPreOp2 /\ e = "StopNode" -> "CsStopped"
    [] s \in {"Operational", "CsStopped"} /\ e = "EnterPreOperational2" -> "PreOp2"
    [] s \in CyclicState /\ e = "Error" -> "PreOp1"
    [] s = "BasicEthernet" /\ e = "PowerlinkFrameReceived" -> "PreOp1"
    [] OTHER -> s

\* CnNmtStateMachine::process_event: the state after event e in state s.  An
\* event without a transition leaves the state alone (the UnexpectedEvent it
\* returns is dropped by every caller).
CnProcessEvent(s, e) ==
  CASE e \in ResetEvent -> "NotActive"
    [] s = "NotActive" /\ e \in {"SocReceived", "SocSoAReceived"} -> "PreOp1"
    [] s = "NotActive" /\ e = "Timeout" -> "BasicEthernet"
    [] s = "PreOp1" /\ e = "SocReceived" -> "PreOp2"
    [] s = "PreOp2" /\ e = "CnConfigurationComplete" -> "ReadyToOp"
    [] s = "ReadyToOp" /\ e = "StartNode" -> "Operational"
    [] s \in AtLeastPreOp2 /\ e = "StopNode" -> "CsStopped"
    [] s \in {"Operational", "CsStopped"} /\ e = "EnterPreOperational2" -> "PreOp2"
    [] s \in CyclicState /\ e = "Error" -> "PreOp1"
    [] s = "BasicEthernet" /\ e = "PowerlinkFrameReceived" -> "PreOp1"
    [] OTHER -> s

\* NmtStateMachine::reset restores the communication profile area
\* (0x1000-0x1FFF, the Error Register 0x1001 among it) for every reset but
\* ResetConfiguration.
RestoresErrorRegister(e) == e \in ResetEvent \ {"ResetConfiguration"}
=============================================================================
