----------------------------- MODULE CnLifecycle -----------------------------
(***************************************************************************)
(* What a Controlled Node promises its network about its NMT state, with   *)
(* frames, counters and time left out.  The NMT state moves along the      *)
(* edges of the CN state diagram only; a cyclic state is entered and kept  *)
(* only with SoC supervision on; and the one way out of the cyclic states  *)
(* that nobody commanded raises a fault and switches supervision off.      *)
(* ControlledNode implements this specification.                           *)
(***************************************************************************)
EXTENDS NmtStates

VARIABLES state,       \* the NMT state
          supervised,  \* SoC supervision is on
          fault        \* an error is raised and its announcement pending

Init == state = "NotActive" /\ supervised = FALSE /\ fault = FALSE

\* A move to state `to`: supervision must be on in a cyclic state.
Enter(to) == /\ state' = to
             /\ to \in CyclicState => supervised'

Reset   == Enter("NotActive")
Wake    == state \in {"NotActive", "BasicEthernet"} /\ Enter("PreOp1")
GoQuiet == state = "NotActive" /\ Enter("BasicEthernet")
Begin   == state \in {"PreOp1", "BasicEthernet"} /\ Enter("PreOp2")
Confirm == state = "PreOp2" /\ Enter("ReadyToOp")
Start   == state = "ReadyToOp" /\ Enter("Operational")
Stop    == state \in AtLeastPreOp2 /\ Enter("CsStopped")
Resume  == state \in {"Operational", "CsStopped"} /\ Enter("PreOp2")
Stay    == Enter(state)

\* The node gives up the cycle by itself.
Fail == /\ state \in CyclicState
        /\ state' = "PreOp1"
        /\ supervised' = FALSE
        /\ fault' = TRUE

Free == supervised' \in BOOLEAN /\ fault' \in BOOLEAN

Next == Free /\ ( \/ Reset \/ Wake \/ GoQuiet \/ Begin \/ Confirm \/ Start
                  \/ Stop \/ Resume \/ Stay \/ Fail )

Spec == Init /\ [][Next]_<<state, supervised, fault>>
=============================================================================
