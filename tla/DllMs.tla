------------------------------- MODULE DllMs -------------------------------
(***************************************************************************)
(* DLL_MS, the cycle state machine of the Managing Node                    *)
(* (frame/ms_state_machine.rs).  Pure operators.  The arguments async_out  *)
(* and isochr_out of process_event never decide the next state and are     *)
(* left out.                                                               *)
(***************************************************************************)
EXTENDS NmtStates

DllMsState == { "NonCyclic", "WaitSocTrig", "WaitPres", "WaitAsnd", "WaitSoa" }
DllMsEvent == { "SocTrig", "SoaTrig", "Pres", "PresTimeout", "Asnd", "AsndTimeout" }

\* Reduced cycle (PreOp1).
MsReduced(d, e, responseExpected, asyncIn) ==
  CASE (d = "WaitSoa" /\ e = "SoaTrig")
       \/ (d = "WaitAsnd" /\ e \in {"SoaTrig", "AsndTimeout"}) ->
         IF asyncIn /\ responseExpected THEN "WaitAsnd" ELSE "WaitSoa"
    [] OTHER -> d

\* Isochronous cycle (PreOp2, ReadyToOp, Operational).  isochr: a CN is still to
\* be polled or being polled; asyncIn: a CN asked for the asynchronous slot.
MsCyclic(d, e, asyncIn, isochr) ==
  CASE (d \in {"WaitSocTrig", "WaitAsnd"} /\ e = "SocTrig")
       \/ (d = "WaitPres" /\ e \in {"Pres", "PresTimeout"}) ->
         IF isochr THEN "WaitPres" ELSE IF asyncIn THEN "WaitAsnd" ELSE "WaitSocTrig"
    [] d = "NonCyclic" /\ e = "SocTrig" -> "WaitSocTrig"
    [] OTHER -> d

\* DllMsStateMachine::process_event: the next state in NMT state n.
MsProcessEvent(d, e, n, responseExpected, asyncIn, isochr) ==
  CASE n = "PreOp1" -> MsReduced(d, e, responseExpected, asyncIn)
    [] n \in AtLeastPreOp2 -> MsCyclic(d, e, asyncIn, isochr)
    [] OTHER -> "NonCyclic"

\* Whether that step reports LossOfPres.  The other errors it can report
\* (MevAsndTimeout, UnexpectedEventInState) have no counter on the MN.
MsReportsLoss(d, e, n) ==
  n \in AtLeastPreOp2 /\ d = "WaitPres" /\ e = "PresTimeout"
=============================================================================
