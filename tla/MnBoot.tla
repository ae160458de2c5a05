------------------------------- MODULE MnBoot -------------------------------
(***************************************************************************)
(* What a Managing Node promises about its boot-up: it takes the steps in  *)
(* order, never back, and never gets ahead of its mandatory CNs.           *)
(***************************************************************************)
EXTENDS NmtStates

CONSTANTS Mandatory, \* the CNs the MN waits for
          appStarts  \* whether the application, not the MN, starts operation

VARIABLES state,     \* NMT state of the MN
          heard,     \* CNs the MN has ever heard from
          verified   \* CNs whose isochronous communication it has checked

\* The boot steps.  One PRes may both complete PreOp2 and verify its sender.
BootSteps == { <<"NotActive", "PreOp1">>, <<"NotActive", "BasicEthernet">>,
               <<"PreOp1", "PreOp2">>, <<"PreOp2", "ReadyToOp">>,
               <<"PreOp2", "Operational">>, <<"ReadyToOp", "Operational">> }

Init == state = "NotActive" /\ heard = {} /\ verified = {}

\* An MN that runs the isochronous cycle has heard from every mandatory CN;
\* communication is verified in ReadyToOp only; operation starts when every
\* mandatory CN is verified.
Next ==
  /\ state' = state \/ <<state, state'>> \in BootSteps
  /\ heard \subseteq heard'
  /\ state' \in AtLeastPreOp2 => Mandatory \subseteq heard'
  /\ verified' \subseteq verified \/ "ReadyToOp" \in {state, state'}
       \/ <<state, state'>> = <<"PreOp2", "Operational">>
  /\ state # "Operational" /\ state' = "Operational" =>
       appStarts \/ Mandatory \subseteq verified'

Spec == Init /\ [][Next]_<<state, heard, verified>>
=============================================================================
