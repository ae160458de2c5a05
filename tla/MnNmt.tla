------------------------------- MODULE MnNmt -------------------------------
(***************************************************************************)
(* The NMT state machine of the Managing Node (nmt/mn_state_machine.rs).   *)
(* Pure operators: the state is a variable of the module that uses them.   *)
(***************************************************************************)
EXTENDS NmtStates

\* The states an MN can be in between two calls.
MnState == NmtState \ {"CsStopped"}

\* NmtState >= PreOperational1 by discriminant: BasicEthernet (0x1E) follows
\* PreOperational1 (0x1D).
AtLeastPreOp1 == AtLeastPreOp2 \cup {"PreOp1", "BasicEthernet"}

\* MnNmtStateMachine::process_event: the state after event e in state s.
\* toBasicEthernet is bit 13 of NMT_StartUp_U32.
MnProcessEvent(s, e, toBasicEthernet) ==
  CASE e \in ResetEvent -> "NotActive"
    [] s = "NotActive" /\ e = "Timeout" ->
         IF toBasicEthernet THEN "BasicEthernet" ELSE "PreOp1"
    [] s = "PreOp1" /\ e = "AllCnsIdentified" -> "PreOp2"
    [] s = "PreOp2" /\ e = "ConfigurationCompleteCnsReady" -> "ReadyToOp"
    [] s = "ReadyToOp" /\ e = "AllMandatoryCnsOperational" -> "Operational"
    [] s = "Operational" /\ e = "Error" -> "PreOp1"
    [] s = "BasicEthernet" /\ e = "PowerlinkFrameReceived" -> "PreOp1"
    [] OTHER -> s
=============================================================================
