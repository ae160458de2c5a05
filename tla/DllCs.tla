------------------------------- MODULE DllCs -------------------------------
(***************************************************************************)
(* DLL_CS, the cycle state machine of a Controlled Node                    *)
(* (frame/cs_state_machine.rs).  Pure operators.                           *)
(***************************************************************************)
EXTENDS NmtStates, Sequences

DllCsState == { "NonCyclic", "WaitSoc", "WaitPreq", "WaitSoa" }
DllCsEvent == { "Soc", "Preq", "Pres", "Soa", "Asnd", "SocTimeout" }

\* The state DLL_CS moves to on event e while NMT is in a cyclic state.
CsNext(d, e) ==
  CASE e = "Soc" -> "WaitPreq"
    [] d = "WaitPreq" /\ e = "Preq" -> "WaitSoa"
    [] d \in {"WaitPreq", "WaitSoa"} /\ e \in {"Soa", "SocTimeout"} -> "WaitSoc"
    [] d = "WaitSoa" /\ e = "Preq" -> "WaitSoc"
    [] OTHER -> d

\* The errors reported with it, in the order they are pushed.
\* UnexpectedEventInState (any event but SoC in NonCyclic) is left out: no
\* counter looks at it.
CsErrors(d, e) ==
  CASE d = "WaitPreq" /\ e \in {"Asnd", "Soc"} -> <<"LossOfSoa">>
    [] d = "WaitPreq" /\ e = "Soa" -> <<"LossOfPreq">>
    [] d = "WaitSoa" /\ e \in {"Asnd", "Soc"} -> <<"LossOfSoa">>
    [] d = "WaitSoa" /\ e = "Preq" -> <<"LossOfSoc", "LossOfSoa">>
    [] d \in {"WaitPreq", "WaitSoa"} /\ e = "SocTimeout" -> <<"LossOfSoc", "LossOfSoa">>
    [] d = "WaitSoc" /\ e \in {"Preq", "Pres", "Soa", "SocTimeout"} -> <<"LossOfSoc">>
    [] OTHER -> <<>>

\* DllCsStateMachine::process_event in NMT state n.  Outside the cyclic
\* states the machine falls back to NonCyclic and reports nothing.
CsProcessEvent(d, e, n) ==
  IF n \in CyclicState
    THEN [state |-> CsNext(d, e), errors |-> CsErrors(d, e)]
    ELSE [state |-> "NonCyclic", errors |-> <<>>]
=============================================================================
