----------------------------- MODULE NmtStates -----------------------------
(***************************************************************************)
(* The NMT states of a POWERLINK node (nmt/states.rs).  The GS_* reset     *)
(* sub-states are passed through inside one call of reset() and are never  *)
(* visible between two calls into the node, so they are not states here.   *)
(***************************************************************************)

\* States a node can be in between two calls.  CsStopped exists on a CN only.
NmtState == { "NotActive", "PreOp1", "PreOp2", "ReadyToOp", "Operational",
              "CsStopped", "BasicEthernet" }

\* The states in which isochronous communication runs on a CN: those in which
\* DLL_CS is active.
CyclicState == { "PreOp2", "ReadyToOp", "Operational", "CsStopped" }

\* The code compares states by discriminant: NmtState >= PreOperational2 (0x5D)
\* holds for ReadyToOperate (0x6D) and Operational (0xFD), not for
\* CsStopped (0x4D).
AtLeastPreOp2 == { "PreOp2", "ReadyToOp", "Operational" }

\* NMT events that reset the node.
ResetEvent == { "SwReset", "ResetNode", "ResetCommunication",
                "ResetConfiguration" }

\* NMT state commands an MN sends to a CN (nmt/events.rs NmtStateCommand).
NmtStateCommand == ResetEvent \cup { "StartNode", "StopNode",
                                     "EnterPreOperational2",
                                     "EnableReadyToOperate" }
=============================================================================
