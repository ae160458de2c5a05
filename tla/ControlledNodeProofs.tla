------------------------ MODULE ControlledNodeProofs ------------------------
(***************************************************************************)
(* Theorems about ControlledNode, for every value of its constants.        *)
(***************************************************************************)
EXTENDS ControlledNode, FiniteSetTheorems, TLAPS

-----------------------------------------------------------------------------
(* Operators.                                                               *)

\* The reschedule computation of process_tick lands strictly after now and at
\* most one cycle later.
LEMMA DivBounds ==
  ASSUME NEW x \in Nat, NEW c \in Nat, c > 0
  PROVE  /\ x \div c \in Nat
         /\ (x \div c + 1) * c \in Nat
         /\ (x \div c + 1) * c <= x + c
         /\ x < (x \div c + 1) * c
BY SMT

\* CnNmtStateMachine::process_event stays within the NMT states.
LEMMA NmtType ==
  ASSUME NEW s \in NmtState, NEW e
  PROVE  CnProcessEvent(s, e) \in NmtState
BY DEF CnProcessEvent, NmtState, CyclicState, AtLeastPreOp2, ResetEvent

\* Only a SoC leads into the cyclic states.
LEMMA NmtCyclicEntry ==
  ASSUME NEW s \in NmtState, NEW e, CnProcessEvent(s, e) \in CyclicState
  PROVE  s \in CyclicState \/ e = "SocReceived"
BY DEF CnProcessEvent, NmtState, CyclicState, AtLeastPreOp2, ResetEvent

\* Error leads out of the cyclic states, to PreOp1.
LEMMA NmtError ==
  ASSUME NEW s \in NmtState
  PROVE  /\ CnProcessEvent(s, "Error") \notin CyclicState
         /\ s \in CyclicState => CnProcessEvent(s, "Error") = "PreOp1"
         /\ s \notin CyclicState => CnProcessEvent(s, "Error") = s
BY DEF CnProcessEvent, NmtState, CyclicState, AtLeastPreOp2, ResetEvent

\* What DLL_CS returns: a state and at most two errors.
LEMMA CsType ==
  ASSUME NEW d \in DllCsState, NEW e, NEW n
  PROVE  /\ CsProcessEvent(d, e, n).state \in DllCsState
         /\ CsProcessEvent(d, e, n).errors \in Seq(CnError)
         /\ Len(CsProcessEvent(d, e, n).errors) \in {0, 1, 2}
         /\ n \notin CyclicState => CsProcessEvent(d, e, n).errors = <<>>
<1>1. CsNext(d, e) \in DllCsState
  BY DEF CsNext, DllCsState
<1>2. CsErrors(d, e) \in { <<>>, <<"LossOfSoa">>, <<"LossOfPreq">>,
                           <<"LossOfSoc">>, <<"LossOfSoc", "LossOfSoa">> }
  BY DEF CsErrors, DllCsState
<1>3. /\ <<>> \in Seq(CnError) /\ Len(<<>>) = 0
      /\ \A x \in CnError : <<x>> \in Seq(CnError) /\ Len(<<x>>) = 1
      /\ \A x, y \in CnError : <<x, y>> \in Seq(CnError) /\ Len(<<x, y>>) = 2
  OBVIOUS
<1>4. CsErrors(d, e) \in Seq(CnError) /\ Len(CsErrors(d, e)) \in {0, 1, 2}
  BY <1>2, <1>3 DEF CnError
<1> QED BY <1>1, <1>3, <1>4 DEF CsProcessEvent, DllCsState

\* Once DLL_CS follows the cycle it keeps doing so while NMT is cyclic, and a
\* SoC makes it follow the cycle.
LEMMA CsFollows ==
  ASSUME NEW d \in DllCsState, NEW e, NEW n \in CyclicState,
         d # "NonCyclic" \/ e = "Soc"
  PROVE  CsProcessEvent(d, e, n).state # "NonCyclic"
BY DEF CsProcessEvent, CsNext, DllCsState

\* A SoC timeout in a cycle always reports LossOfSoc, first.
LEMMA CsTimeout ==
  ASSUME NEW d \in DllCsState, NEW n \in CyclicState, d # "NonCyclic"
  PROVE  LET errs == CsProcessEvent(d, "SocTimeout", n).errors
         IN  1 \in DOMAIN errs /\ errs[1] = "LossOfSoc"
<1>1. CsErrors(d, "SocTimeout") \in { <<"LossOfSoc">>, <<"LossOfSoc", "LossOfSoa">> }
  BY DEF CsErrors, DllCsState
<1> QED BY <1>1 DEF CsProcessEvent

\* When no error reaches its threshold all of them are counted.
LEMMA NothingSignalled ==
  ASSUME NEW c \in [CnError -> Nat], NEW errs \in Seq(CnError),
         Len(errs) \in {0, 1, 2}, Signalled(c, errs) = {}
  PROVE  \A i \in DOMAIN errs : /\ ~ReachesThreshold(c, errs[i])
                                /\ i \in HandledAt(c, errs)
<1>1. DOMAIN errs \subseteq {1, 2}
  OBVIOUS
<1>2. ReachedAt(c, errs) \cap HandledAt(c, errs) = {}
  BY DEF Signalled
<1>3. 1 \notin ReachedAt(c, errs)
  BY <1>1, <1>2 DEF ReachedAt, HandledAt
<1>4. 2 \notin ReachedAt(c, errs)
  BY <1>1, <1>2, <1>3 DEF ReachedAt, HandledAt
<1> QED BY <1>1, <1>3, <1>4 DEF ReachedAt, HandledAt

\* The error loop keeps the counters natural numbers below the threshold, and
\* only ever adds to them when nothing is signalled.
LEMMA CountersAfterErrors ==
  ASSUME NEW c \in [CnError -> Nat], NEW errs \in Seq(CnError),
         Len(errs) \in {0, 1, 2}, \A e \in CnError : c[e] < Threshold
  PROVE  /\ HandleErrors(c, errs) \in [CnError -> Nat]
         /\ \A e \in CnError : HandleErrors(c, errs)[e] < Threshold
         /\ Signalled(c, errs) \subseteq CnError
         /\ Signalled(c, errs) = {} =>
              \A e \in CnError : HandleErrors(c, errs)[e] >= c[e]
<1>1. HandleErrors(c, errs) \in [CnError -> Nat]
  BY DEF HandleErrors, Penalty
<1>2. \A e \in CnError : HandleErrors(c, errs)[e] < Threshold
  BY DEF HandleErrors, Penalty, Threshold, ReachesThreshold
<1>3. Signalled(c, errs) \subseteq CnError
  BY DEF Signalled, ReachedAt
<1>4. Signalled(c, errs) = {} => \A e \in CnError : HandleErrors(c, errs)[e] >= c[e]
  <2> SUFFICES ASSUME Signalled(c, errs) = {}, NEW e \in CnError
               PROVE  HandleErrors(c, errs)[e] >= c[e]
    OBVIOUS
  <2>1. \A i \in HandledAt(c, errs) : i \in DOMAIN errs
    BY DEF HandledAt
  <2>2. (\E i \in HandledAt(c, errs) : errs[i] = e) => ~ReachesThreshold(c, e)
    BY <2>1, NothingSignalled
  <2> QED BY <2>2 DEF HandleErrors, Penalty
<1> QED BY <1>1, <1>2, <1>3, <1>4

\* An error that is first in its event and does not reach the threshold has
\* added its penalty.
LEMMA FirstErrorCounts ==
  ASSUME NEW c \in [CnError -> Nat], NEW errs \in Seq(CnError),
         Len(errs) \in {0, 1, 2}, Signalled(c, errs) = {},
         NEW e \in CnError, 1 \in DOMAIN errs, errs[1] = e
  PROVE  HandleErrors(c, errs)[e] = c[e] + Penalty /\ c[e] + Penalty < Threshold
<1>1. 1 \in HandledAt(c, errs) /\ ~ReachesThreshold(c, e)
  BY NothingSignalled
<1>2. HandleErrors(c, errs)[e] = c[e] + Penalty
  BY <1>1 DEF HandleErrors
<1> QED BY <1>1, <1>2 DEF ReachesThreshold, Penalty, Threshold

\* on_cycle_complete keeps the counters in range.
LEMMA CountersAfterCycle ==
  ASSUME NEW c \in [CnError -> Nat], \A e \in CnError : c[e] < Threshold
  PROVE  /\ OnCycleComplete(c) \in [CnError -> Nat]
         /\ \A e \in CnError : OnCycleComplete(c)[e] < Threshold
BY DEF OnCycleComplete, Threshold

-----------------------------------------------------------------------------
(* The inductive invariant.                                                 *)

\* No counter rests at or above its threshold: check_and_reset follows every
\* increment.
CountersBelowThreshold == \A e \in CnError : cnt[e] < Threshold

\* The clock is not behind the last SoC, and a pending deadline is at most
\* PollLatency old.
ClockInv == /\ lastSoc <= now
            /\ nextTick # NoTick => now <= nextTick + PollLatency

\* How far behind the last SoC the pending deadline can be: one supervised
\* cycle, or two once a SoC timeout has been counted (the LossOfSoc counter
\* stands at 8 or more only between the first and the second timeout).
DeadlineInv ==
  (CycleLen > 0 /\ nmt \in CyclicState) =>
     nextTick <= lastSoc + (CycleLen + SocTolerance)
       + (IF cnt["LossOfSoc"] >= Penalty
            THEN CycleLen + SocTolerance + PollLatency ELSE 0)

IInv == TypeOK /\ CountersBelowThreshold /\ ClockInv /\ SupervisionArmed
        /\ DeadlineInv

-----------------------------------------------------------------------------
(* Frame reception.                                                         *)

\* What the common part of process_frame establishes about the variables it
\* sets, and that it leaves the node in a cyclic state only with the
\* supervision switch and the deadlines the handler had set.
LEMMA DispatchEffect ==
  ASSUME TypeOK, NEW n \in NmtState, NEW ev,
         NEW c \in [CnError -> Nat], \A e \in CnError : c[e] < Threshold,
         NEW q \in Seq(CnError), NEW rest \in Seq(CnError),
         NEW reg \in BOOLEAN, NEW chg \in BOOLEAN, NEW flag \in BOOLEAN,
         NEW check \in BOOLEAN, NEW ans \in BOOLEAN,
         Dispatch(n, ev, c, q, rest, reg, chg, flag, check, ans)
  PROVE  /\ nmt' \in NmtState /\ dll' \in DllCsState /\ phase' \in {"idle", "tick"}
         /\ cnt' \in [CnError -> Nat] /\ CountersBelowThreshold'
         /\ errReg' \in BOOLEAN /\ errChanged' \in BOOLEAN /\ en' \in BOOLEAN
         /\ socCheck' \in BOOLEAN /\ emcy' \in Seq(CnError)
         /\ nmt' \in CyclicState =>
              /\ nmt' = n /\ socCheck' = check
              /\ dll # "NonCyclic" \/ ev = "Soc" => dll' # "NonCyclic"
              /\ \A e \in CnError : cnt'[e] >= c[e]
<1> DEFINE d == CsProcessEvent(dll, ev, n)
           s == Signalled(c, d.errors)
<1>1. /\ d.state \in DllCsState /\ d.errors \in Seq(CnError)
      /\ Len(d.errors) \in {0, 1, 2}
  BY CsType DEF TypeOK
<1>2. /\ HandleErrors(c, d.errors) \in [CnError -> Nat]
      /\ \A e \in CnError : HandleErrors(c, d.errors)[e] < Threshold
      /\ s \subseteq CnError
      /\ s = {} => \A e \in CnError : HandleErrors(c, d.errors)[e] >= c[e]
  BY <1>1, CountersAfterErrors
<1>3. dll' = d.state /\ cnt' = HandleErrors(c, d.errors)
  BY DEF Dispatch
<1>4. CountersBelowThreshold'
  BY <1>2, <1>3 DEF CountersBelowThreshold
<1> HIDE DEF d
<1>5. CASE s # {}
  <2>1. /\ nmt' = CnProcessEvent(n, "Error") /\ errReg' = TRUE
        /\ errChanged' = TRUE /\ socCheck' = FALSE /\ en' = flag /\ phase' = "tick"
        /\ emcy' = PushEmergency(q, CHOOSE e \in s : TRUE)
    BY <1>5 DEF Dispatch, GiveUpCycle, d
  <2>2. nmt' \in NmtState /\ nmt' \notin CyclicState
    BY <2>1, NmtType, NmtError
  <2>3. (CHOOSE e \in s : TRUE) \in CnError
    BY <1>2, <1>5
  <2>4. emcy' \in Seq(CnError)
    BY <2>1, <2>3 DEF PushEmergency
  <2> QED BY <1>1, <1>2, <1>3, <1>4, <2>1, <2>2, <2>4
<1>6. CASE s = {}
  <2>1. /\ nmt' = n /\ errReg' = reg /\ errChanged' = FALSE /\ emcy' = rest
        /\ en' = (flag # chg) /\ socCheck' = check
        /\ phase' = IF ans THEN "idle" ELSE "tick"
    BY <1>6 DEF Dispatch, d
  <2>2. en' \in BOOLEAN
    BY <2>1
  <2>3. n \in CyclicState => (dll # "NonCyclic" \/ ev = "Soc" => dll' # "NonCyclic")
    BY <1>3, CsFollows DEF TypeOK, d
  <2> QED BY <1>1, <1>2, <1>3, <1>4, <1>6, <2>1, <2>2, <2>3
<1> QED BY <1>5, <1>6

\* The NMT state in which a frame is handled.
LEMMA OnWireType ==
  ASSUME TypeOK
  PROVE  OnWire \in NmtState /\ (OnWire \in CyclicState => OnWire = nmt)
BY DEF OnWire, TypeOK, CnProcessEvent, NmtState, CyclicState, AtLeastPreOp2, ResetEvent

\* A frame that leaves the deadline and the supervision switch alone and does
\* not start the cycle preserves the invariant.
LEMMA DispatchKeeps ==
  ASSUME IInv, NEW n \in NmtState, n \in CyclicState => nmt \in CyclicState, NEW ev,
         NEW q \in Seq(CnError), NEW rest \in Seq(CnError),
         NEW reg \in BOOLEAN, NEW flag \in BOOLEAN, NEW ans \in BOOLEAN,
         Dispatch(n, ev, cnt, q, rest, reg, errChanged, flag, socCheck, ans),
         UNCHANGED <<now, lastSoc, nextTick>>,
         rx' \in Nat, ec' \in BOOLEAN, nmtReqs' \in Seq(NmtRequest),
         sdoReqs' \in Nat, hbSeen' \in [HbNodes -> Nat]
  PROVE  IInv'
<1>1. TypeOK /\ CountersBelowThreshold
  BY DEF IInv
<1>2. /\ cnt \in [CnError -> Nat] /\ errChanged \in BOOLEAN /\ socCheck \in BOOLEAN
      /\ \A e \in CnError : cnt[e] < Threshold
  BY <1>1 DEF TypeOK, CountersBelowThreshold
<1>3. /\ nmt' \in NmtState /\ dll' \in DllCsState /\ phase' \in {"idle", "tick"}
      /\ cnt' \in [CnError -> Nat] /\ CountersBelowThreshold'
      /\ errReg' \in BOOLEAN /\ errChanged' \in BOOLEAN /\ en' \in BOOLEAN
      /\ socCheck' \in BOOLEAN /\ emcy' \in Seq(CnError)
      /\ nmt' \in CyclicState =>
           /\ nmt' = n /\ socCheck' = socCheck
           /\ dll # "NonCyclic" \/ ev = "Soc" => dll' # "NonCyclic"
           /\ \A e \in CnError : cnt'[e] >= cnt[e]
  BY ONLY DispatchEffect, <1>1, <1>2, n \in NmtState, q \in Seq(CnError),
          rest \in Seq(CnError), reg \in BOOLEAN, flag \in BOOLEAN, ans \in BOOLEAN,
          Dispatch(n, ev, cnt, q, rest, reg, errChanged, flag, socCheck, ans)
<1>4. TypeOK'
  BY <1>1, <1>3 DEF TypeOK
<1>5. ClockInv'
  BY DEF IInv, ClockInv
<1>6. SupervisionArmed'
  BY <1>3 DEF IInv, SupervisionArmed
<1>7. DeadlineInv'
  <2>1. "LossOfSoc" \in CnError
    BY DEF CnError
  <2> SUFFICES ASSUME CycleLen > 0, nmt' \in CyclicState
               PROVE  DeadlineInv'
    BY DEF DeadlineInv
  <2>2. DeadlineInv /\ nmt \in CyclicState /\ cnt'["LossOfSoc"] >= cnt["LossOfSoc"]
    BY <1>3, <2>1 DEF IInv
  <2>3. cnt'["LossOfSoc"] \in Nat /\ cnt["LossOfSoc"] \in Nat
    BY <1>2, <1>3, <2>1
  <2>4. lastSoc \in Nat /\ nextTick \in Nat \cup {-1}
    BY <1>1 DEF TypeOK, NoTick
  <2> QED BY <2>2, <2>3, <2>4, TimingAssumption DEF DeadlineInv, Penalty
<1> QED BY <1>3, <1>4, <1>5, <1>6, <1>7 DEF IInv

\* The frames that are dispatched with nothing done before.
LEMMA PlainDispatchKeeps ==
  ASSUME IInv, NEW n \in NmtState, n \in CyclicState => nmt \in CyclicState, NEW ev,
         NEW ans \in BOOLEAN, PlainDispatch(n, ev, ans),
         UNCHANGED <<now, ec, sdoReqs, lastSoc, nextTick>>,
         rx' \in Nat, nmtReqs' \in Seq(NmtRequest), hbSeen' \in [HbNodes -> Nat]
  PROVE  IInv'
<1>1. /\ emcy \in Seq(CnError) /\ errReg \in BOOLEAN /\ en \in BOOLEAN
      /\ ec' \in BOOLEAN /\ sdoReqs' \in Nat
  BY DEF IInv, TypeOK
<1>2. Dispatch(n, ev, cnt, emcy, emcy, errReg, errChanged, en, socCheck, ans)
  BY DEF PlainDispatch
<1> QED
  BY ONLY DispatchKeeps, IInv, n \in NmtState, n \in CyclicState => nmt \in CyclicState,
          ans \in BOOLEAN, <1>1, <1>2, UNCHANGED <<now, ec, sdoReqs, lastSoc, nextTick>>,
          rx' \in Nat, nmtReqs' \in Seq(NmtRequest), hbSeen' \in [HbNodes -> Nat]

\* A received frame keeps the frame count a number.
LEMMA FrameCount ==
  ASSUME TypeOK, FrameArrives
  PROVE  rx' \in Nat
BY DEF TypeOK, FrameArrives

\* A PReq, answered or not, keeps the invariant.
LEMMA PReqStep ==
  ASSUME IInv, NEW toSelf \in BOOLEAN, ReceivePReq(toSelf)
  PROVE  IInv'
<1>1. TypeOK
  BY DEF IInv
<1>2. OnWire \in NmtState /\ (OnWire \in CyclicState => nmt \in CyclicState)
  BY <1>1, OnWireType
<1>3. /\ rx' \in Nat /\ nmtReqs' \in Seq(NmtRequest) /\ hbSeen' \in [HbNodes -> Nat]
      /\ UNCHANGED <<now, ec, sdoReqs, lastSoc, nextTick>>
  BY <1>1, FrameCount DEF ReceivePReq, TypeOK
<1>4. PlainDispatch(OnWire, "Preq", toSelf /\ OnWire \in AtLeastPreOp2)
  BY DEF ReceivePReq
<1>5. (toSelf /\ OnWire \in AtLeastPreOp2) \in BOOLEAN
  OBVIOUS
<1> QED BY ONLY PlainDispatchKeeps, IInv, <1>2, <1>3, <1>4, <1>5

\* Cross traffic keeps the invariant: it only refreshes a heartbeat.
LEMMA PResStep ==
  ASSUME IInv, NEW src, ReceivePRes(src)
  PROVE  IInv'
<1>1. TypeOK
  BY DEF IInv
<1>2. OnWire \in NmtState /\ (OnWire \in CyclicState => nmt \in CyclicState)
  BY <1>1, OnWireType
<1>3. /\ rx' \in Nat /\ nmtReqs' \in Seq(NmtRequest)
      /\ UNCHANGED <<now, ec, sdoReqs, lastSoc, nextTick>>
  BY <1>1, FrameCount DEF ReceivePRes, TypeOK
<1>4. hbSeen' \in [HbNodes -> Nat]
  BY <1>1 DEF ReceivePRes, TypeOK
<1>5. PlainDispatch(OnWire, "Pres", FALSE)
  BY DEF ReceivePRes
<1> QED BY ONLY PlainDispatchKeeps, IInv, <1>2, <1>3, <1>4, <1>5

\* A SoA for another node keeps the invariant: it may leave NotActive, not enter
\* the cycle.
LEMMA ForeignSoAStep ==
  ASSUME IInv, ReceiveForeignSoA
  PROVE  IInv'
<1> DEFINE n == CnProcessEvent(OnWire, "SocSoAReceived")
<1>1. TypeOK
  BY DEF IInv
<1>2. n \in NmtState /\ (n \in CyclicState => nmt \in CyclicState)
  BY <1>1, OnWireType, NmtType, NmtCyclicEntry
<1>3. /\ rx' \in Nat /\ nmtReqs' \in Seq(NmtRequest) /\ hbSeen' \in [HbNodes -> Nat]
      /\ UNCHANGED <<now, ec, sdoReqs, lastSoc, nextTick>>
  BY <1>1, FrameCount DEF ReceiveForeignSoA, TypeOK
<1>4. PlainDispatch(n, "Soa", FALSE)
  BY DEF ReceiveForeignSoA
<1> HIDE DEF n
<1> QED BY ONLY PlainDispatchKeeps, IInv, <1>2, <1>3, <1>4

\* An NmtNetHostNameSet keeps the invariant.
LEMMA HostNameSetStep ==
  ASSUME IInv, ReceiveHostNameSet
  PROVE  IInv'
<1>1. TypeOK
  BY DEF IInv
<1>2. OnWire \in NmtState /\ (OnWire \in CyclicState => nmt \in CyclicState)
  BY <1>1, OnWireType
<1>3. /\ rx' \in Nat /\ hbSeen' \in [HbNodes -> Nat]
      /\ UNCHANGED <<now, ec, sdoReqs, lastSoc, nextTick>>
  BY <1>1, FrameCount DEF ReceiveHostNameSet, TypeOK
<1>4. nmtReqs' \in Seq(NmtRequest)
  BY <1>1 DEF ReceiveHostNameSet, TypeOK, NmtRequest
<1>5. PlainDispatch(OnWire, "Asnd", FALSE)
  BY DEF ReceiveHostNameSet
<1> QED BY ONLY PlainDispatchKeeps, IInv, <1>2, <1>3, <1>4, <1>5

\* Any other ASnd to the node keeps the invariant.
LEMMA OtherASndStep ==
  ASSUME IInv, ReceiveOtherASnd
  PROVE  IInv'
<1>1. TypeOK
  BY DEF IInv
<1>2. OnWire \in NmtState /\ (OnWire \in CyclicState => nmt \in CyclicState)
  BY <1>1, OnWireType
<1>3. /\ rx' \in Nat /\ nmtReqs' \in Seq(NmtRequest) /\ hbSeen' \in [HbNodes -> Nat]
      /\ UNCHANGED <<now, ec, sdoReqs, lastSoc, nextTick>>
  BY <1>1, FrameCount DEF ReceiveOtherASnd, TypeOK
<1>4. PlainDispatch(OnWire, "Asnd", FALSE)
  BY DEF ReceiveOtherASnd
<1> QED BY ONLY PlainDispatchKeeps, IInv, <1>2, <1>3, <1>4

\* An NMT state command keeps the invariant: no command leads into the cycle.
LEMMA NmtCommandStep ==
  ASSUME IInv, NEW command \in Commands, ReceiveNmtCommand(command)
  PROVE  IInv'
<1> DEFINE n == CnProcessEvent(OnWire, command)
           reg == errReg /\ ~RestoresErrorRegister(command)
<1>1. TypeOK
  BY DEF IInv
<1>2. command # "SocReceived"
  BY EnvironmentAssumption DEF NmtStateCommand, ResetEvent
<1>3. n \in NmtState /\ (n \in CyclicState => nmt \in CyclicState)
  BY <1>1, <1>2, OnWireType, NmtType, NmtCyclicEntry
<1>4. /\ rx' \in Nat /\ nmtReqs' \in Seq(NmtRequest) /\ hbSeen' \in [HbNodes -> Nat]
      /\ ec' \in BOOLEAN /\ sdoReqs' \in Nat /\ UNCHANGED <<now, lastSoc, nextTick>>
  BY <1>1, FrameCount DEF ReceiveNmtCommand, TypeOK
<1>5. emcy \in Seq(CnError) /\ reg \in BOOLEAN /\ en \in BOOLEAN
  BY <1>1 DEF TypeOK
<1>6. Dispatch(n, "Asnd", cnt, emcy, emcy, reg, errChanged, en, socCheck, FALSE)
  BY DEF ReceiveNmtCommand
<1> HIDE DEF n, reg
<1> QED BY ONLY DispatchKeeps, IInv, <1>3, <1>4, <1>5, <1>6

\* Taking the oldest entries off a queue leaves a queue.
LEMMA DrainType ==
  ASSUME NEW q \in Seq(CnError)
  PROVE  DrainEmergencies(q) \in Seq(CnError)
<1>1. \A m \in Nat : SubSeq(q, 1 + m, Len(q)) \in Seq(CnError)
  OBVIOUS
<1> QED BY <1>1, QueueAssumption DEF DrainEmergencies

\* A SoA to this node keeps the invariant, whatever service it requests.
LEMMA SoAStep ==
  ASSUME IInv, NEW r \in SoARequests, ReceiveSoA(r[1], r[2])
  PROVE  IInv'
<1> DEFINE service == r[1]
           er == r[2]
           n == CnProcessEvent(OnWire, "SocSoAReceived")
           q == IF er THEN <<>> ELSE emcy
           ok == /\ Signalled(cnt, CsProcessEvent(dll, "Soa", n).errors) = {}
                 /\ SoAAnswered(n, service)
           rest == IF ok /\ service = "StatusRequest" THEN DrainEmergencies(q) ELSE q
           flag == en /\ ~er
<1>1. TypeOK
  BY DEF IInv
<1>2. n \in NmtState /\ (n \in CyclicState => nmt \in CyclicState)
  BY <1>1, OnWireType, NmtType, NmtCyclicEntry
<1>3. er \in BOOLEAN
  BY EnvironmentAssumption
<1>4. q \in Seq(CnError) /\ rest \in Seq(CnError)
  <2>1. q \in Seq(CnError)
    BY <1>1 DEF TypeOK
  <2>2. DrainEmergencies(q) \in Seq(CnError)
    BY <2>1, DrainType
  <2> QED BY <2>1, <2>2
<1>5. ok \in BOOLEAN /\ flag \in BOOLEAN /\ errReg \in BOOLEAN
  BY <1>1 DEF TypeOK
<1>6. /\ rx' \in Nat /\ hbSeen' \in [HbNodes -> Nat] /\ ec' \in BOOLEAN
      /\ UNCHANGED <<now, lastSoc, nextTick>>
  BY <1>1, <1>3, FrameCount DEF ReceiveSoA, TypeOK
<1>7. nmtReqs' \in Seq(NmtRequest) /\ sdoReqs' \in Nat
  <2>1. /\ nmtReqs' = IF ok /\ service = "NmtRequestInvite"
                         THEN SubSeq(nmtReqs, 1, Len(nmtReqs) - 1) ELSE nmtReqs
        /\ sdoReqs' = IF ok /\ service = "UnspecifiedInvite"
                         THEN sdoReqs - 1 ELSE sdoReqs
    BY DEF ReceiveSoA
  <2>2. nmtReqs \in Seq(NmtRequest) /\ sdoReqs \in Nat
    BY <1>1 DEF TypeOK
  <2>3. SubSeq(nmtReqs, 1, Len(nmtReqs) - 1) \in Seq(NmtRequest)
    BY <2>2
  <2>4. ok /\ service = "UnspecifiedInvite" => sdoReqs > 0
    BY DEF SoAAnswered
  <2> QED BY <2>1, <2>2, <2>3, <2>4
<1>8. Dispatch(n, "Soa", cnt, q, rest, errReg, errChanged, flag, socCheck, ok)
  BY DEF ReceiveSoA
<1> HIDE DEF service, er, n, q, ok, rest, flag
<1> QED BY ONLY DispatchKeeps, IInv, <1>2, <1>4, <1>5, <1>6, <1>7, <1>8

\* A frame that DLL_CS never sees keeps the invariant.
LEMMA UncountedStep ==
  ASSUME IInv, NEW answered \in BOOLEAN, ReceiveUncounted(answered)
  PROVE  IInv'
<1>1. TypeOK
  BY DEF IInv
<1>2. nmt' \in NmtState /\ (nmt' \in CyclicState => nmt' = nmt)
  BY <1>1, OnWireType DEF ReceiveUncounted
<1>3. TypeOK'
  BY <1>1, <1>2, FrameCount DEF TypeOK, ReceiveUncounted
<1> QED BY <1>2, <1>3
        DEF IInv, ReceiveUncounted, CountersBelowThreshold, ClockInv,
            SupervisionArmed, DeadlineInv

\* A SoC starts or restarts the supervision.
LEMMA SoCStep ==
  ASSUME IInv, ReceiveSoC
  PROVE  IInv'
<1> DEFINE n == CnProcessEvent(OnWire, "SocReceived")
           c == OnCycleComplete(cnt)
           reg == errReg /\ ~AllErrorsCleared(cnt)
           chg == errChanged \/ AllErrorsCleared(cnt)
           check == CycleLen > 0
           ans == FALSE
<1>1. TypeOK /\ \A e \in CnError : cnt[e] < Threshold
  BY DEF IInv, CountersBelowThreshold
<1>2. n \in NmtState
  BY <1>1, OnWireType, NmtType
<1>3. c \in [CnError -> Nat] /\ \A e \in CnError : c[e] < Threshold
  BY <1>1, CountersAfterCycle DEF TypeOK
<1>4. /\ emcy \in Seq(CnError) /\ reg \in BOOLEAN /\ chg \in BOOLEAN
      /\ en \in BOOLEAN /\ check \in BOOLEAN /\ ans \in BOOLEAN
  BY <1>1 DEF TypeOK
<1>5. Dispatch(n, "Soc", c, emcy, emcy, reg, chg, en, check, ans)
  BY DEF ReceiveSoC
<1>6. /\ nmt' \in NmtState /\ dll' \in DllCsState /\ phase' \in {"idle", "tick"}
      /\ cnt' \in [CnError -> Nat] /\ CountersBelowThreshold'
      /\ errReg' \in BOOLEAN /\ errChanged' \in BOOLEAN /\ en' \in BOOLEAN
      /\ socCheck' \in BOOLEAN /\ emcy' \in Seq(CnError)
      /\ nmt' \in CyclicState =>
           /\ nmt' = n /\ socCheck' = check
           /\ dll # "NonCyclic" \/ "Soc" = "Soc" => dll' # "NonCyclic"
           /\ \A e \in CnError : cnt'[e] >= c[e]
  <2> HIDE DEF n, c, reg, chg, check, ans
  <2> QED BY ONLY DispatchEffect, <1>1, <1>2, <1>3, <1>4, <1>5
<1>7. /\ now' = now /\ lastSoc' = now /\ ec' \in BOOLEAN /\ rx' \in Nat
      /\ nmtReqs' \in Seq(NmtRequest) /\ sdoReqs' \in Nat
      /\ hbSeen' \in [HbNodes -> Nat] /\ now \in Nat
  BY <1>1, FrameCount DEF ReceiveSoC, TypeOK
<1>8. /\ CycleLen > 0 => /\ nextTick' \in Nat
                         /\ nextTick' <= now + CycleLen + SocTolerance
                         /\ now <= nextTick' + PollLatency
      /\ ~(CycleLen > 0) => nextTick' = nextTick
  BY <1>1, TimingAssumption
     DEF ReceiveSoC, ScheduleSocCheck, IInv, ClockInv, TypeOK, NoTick
<1>9. TypeOK'
  BY <1>1, <1>6, <1>7, <1>8, TimingAssumption DEF TypeOK
<1>10. ClockInv'
  BY <1>1, <1>7, <1>8, TimingAssumption DEF IInv, ClockInv, TypeOK, NoTick
<1>11. SupervisionArmed'
  <2> SUFFICES ASSUME CycleLen > 0, nmt' \in CyclicState
               PROVE  socCheck' /\ nextTick' # NoTick /\ dll' # "NonCyclic"
    BY DEF SupervisionArmed
  <2>1. socCheck' = check /\ check
    BY <1>6
  <2>2. dll' # "NonCyclic"
    BY <1>6
  <2>3. nextTick' # NoTick
    BY <1>8 DEF NoTick
  <2> QED BY <2>1, <2>2, <2>3
<1>12. DeadlineInv'
  <2>1. now \in Nat /\ cnt'["LossOfSoc"] \in Nat
    BY <1>6, <1>7 DEF CnError
  <2> QED BY <1>7, <1>8, <2>1, TimingAssumption DEF DeadlineInv, Penalty
<1> QED BY <1>6, <1>9, <1>10, <1>11, <1>12 DEF IInv

-----------------------------------------------------------------------------
(* The tick.                                                                *)

\* The heartbeat check yields last-seen times, and counters that are in range
\* unless it is fatal; it touches no other counter.
LEMMA HeartbeatCheck ==
  ASSUME TypeOK, CountersBelowThreshold
  PROVE  /\ HbRestarted \in [HbNodes -> Nat]
         /\ ~HbFatal => /\ HbCounted \in [CnError -> Nat]
                        /\ \A e \in CnError : HbCounted[e] < Threshold
                        /\ HbCounted["LossOfSoc"] = cnt["LossOfSoc"]
<1>1. HbRestarted \in [HbNodes -> Nat]
  BY DEF TypeOK, HbRestarted
<1>2. Cardinality(TimedOut) \in Nat /\ (TimedOut = {} => Cardinality(TimedOut) = 0)
  <2>1. IsFiniteSet(TimedOut)
    BY HeartbeatAssumption, FS_Subset DEF TimedOut
  <2> QED BY <2>1, FS_CardinalityType, FS_EmptySet
<1>3. cnt["HeartbeatTimeout"] \in Nat /\ cnt["HeartbeatTimeout"] < Threshold
  BY DEF TypeOK, CountersBelowThreshold, CnError
<1>4. HbCount \in Nat
  BY <1>2, <1>3 DEF HbCount, Penalty
<1>5. ~HbFatal => HbCount < Threshold
  <2>1. CASE TimedOut = {}
    BY <1>2, <1>3, <2>1 DEF HbCount, Penalty
  <2>2. CASE TimedOut # {}
    BY <1>4, <2>2 DEF HbFatal, Threshold
  <2> QED BY <2>1, <2>2
<1> QED BY <1>1, <1>4, <1>5 DEF TypeOK, CountersBelowThreshold, HbCounted, CnError

\* A fatal heartbeat timeout keeps the invariant: the node is out of the cycle.
LEMMA TickHeartbeatErrorStep ==
  ASSUME IInv, TickHeartbeatError
  PROVE  IInv'
<1>1. TypeOK /\ CountersBelowThreshold
  BY DEF IInv
<1>2. nmt' \in NmtState /\ nmt' \notin CyclicState
  BY <1>1, NmtType, NmtError DEF TickHeartbeatError, GiveUpCycle, TypeOK
<1>3. cnt' \in [CnError -> Nat] /\ CountersBelowThreshold'
  BY <1>1 DEF TickHeartbeatError, TypeOK, CountersBelowThreshold, CnError, Threshold
<1>4. TypeOK'
  BY <1>1, <1>2, <1>3, HeartbeatCheck DEF TypeOK, TickHeartbeatError, GiveUpCycle
<1>5. ClockInv'
  BY DEF IInv, ClockInv, TickHeartbeatError
<1> QED BY <1>2, <1>3, <1>4, <1>5 DEF IInv, SupervisionArmed, DeadlineInv

\* A tick that leaves NMT, DLL_CS and the supervision switch alone outside a
\* SoC timeout.
LEMMA QuietTickKeeps ==
  ASSUME IInv, HeartbeatsChecked, cnt' = HbCounted,
         nmt' \in NmtState, socCheck' \in BOOLEAN,
         UNCHANGED <<dll, errReg, errChanged, emcy>>,
         nextTick' \in Nat \cup {NoTick},
         nextTick' # NoTick => now <= nextTick' + PollLatency,
         CycleLen > 0 /\ nmt' \in CyclicState =>
           nmt \in CyclicState /\ UNCHANGED <<socCheck, nextTick>>
  PROVE  IInv'
<1>1. TypeOK /\ CountersBelowThreshold
  BY DEF IInv
<1>2. /\ cnt' \in [CnError -> Nat] /\ CountersBelowThreshold'
      /\ cnt'["LossOfSoc"] = cnt["LossOfSoc"] /\ hbSeen' \in [HbNodes -> Nat]
  BY <1>1, HeartbeatCheck DEF HeartbeatsChecked, CountersBelowThreshold
<1>3. TypeOK'
  BY <1>1, <1>2 DEF TypeOK, HeartbeatsChecked
<1>4. ClockInv'
  BY DEF IInv, ClockInv, HeartbeatsChecked
<1>5. SupervisionArmed'
  BY DEF IInv, SupervisionArmed
<1>6. DeadlineInv'
  BY <1>2 DEF IInv, DeadlineInv, HeartbeatsChecked
<1> QED BY <1>2, <1>3, <1>4, <1>5, <1>6 DEF IInv

\* Starting the BasicEthernet timeout keeps the invariant.
LEMMA TickArmStep ==
  ASSUME IInv, TickArmBasicEthernet
  PROVE  IInv'
<1>1. /\ nextTick' \in Nat \cup {NoTick}
      /\ nextTick' # NoTick => now <= nextTick' + PollLatency
  BY TimingAssumption DEF IInv, TypeOK, TickArmBasicEthernet, NoTick
<1>2. nmt' \in NmtState /\ nmt' \notin CyclicState /\ socCheck' \in BOOLEAN
  BY DEF IInv, TypeOK, TickArmBasicEthernet, CyclicState
<1> QED BY <1>1, <1>2, QuietTickKeeps DEF TickArmBasicEthernet

\* A tick before the deadline keeps the invariant.
LEMMA TickNotDueStep ==
  ASSUME IInv, TickNotDue
  PROVE  IInv'
<1>1. /\ nextTick' \in Nat \cup {NoTick} /\ nmt' \in NmtState /\ socCheck' \in BOOLEAN
      /\ nextTick' # NoTick => now <= nextTick' + PollLatency
  BY DEF IInv, TypeOK, ClockInv, TickNotDue
<1> QED BY <1>1, QuietTickKeeps DEF TickNotDue

\* The BasicEthernet timeout keeps the invariant.
LEMMA TickBasicEthernetStep ==
  ASSUME IInv, TickBasicEthernet
  PROVE  IInv'
<1>1. nmt' \in NmtState /\ nmt' \notin CyclicState
  BY NmtType, NmtCyclicEntry
     DEF IInv, TypeOK, TickBasicEthernet, CyclicState, CnProcessEvent, NmtState,
         ResetEvent
<1>2. socCheck' \in BOOLEAN /\ nextTick' = NoTick
  BY DEF IInv, TypeOK, TickBasicEthernet
<1> QED BY <1>1, <1>2, QuietTickKeeps DEF TickBasicEthernet

\* Consuming a deadline without supervision keeps the invariant: in a supervised
\* cycle the switch is on.
LEMMA TickIdleDeadlineStep ==
  ASSUME IInv, TickIdleDeadline
  PROVE  IInv'
<1>1. CycleLen > 0 => nmt \notin CyclicState
  BY DEF IInv, SupervisionArmed, TickIdleDeadline
<1>2. nmt' = nmt /\ nmt' \in NmtState /\ socCheck' \in BOOLEAN /\ nextTick' = NoTick
  BY DEF IInv, TypeOK, TickIdleDeadline
<1> QED BY <1>1, <1>2, QuietTickKeeps DEF TickIdleDeadline

\* The SoC timeout: the second one in a row without a SoC is fatal, and the
\* first one pushes the deadline out by at most one supervised cycle and the
\* poll latency.
LEMMA TickSocTimeoutStep ==
  ASSUME IInv, TickSocTimeout
  PROVE  IInv'
<1> DEFINE d == CsProcessEvent(dll, "SocTimeout", nmt)
           s == Signalled(HbCounted, d.errors)
<1>1. TypeOK /\ CountersBelowThreshold /\ ~HbFatal
  BY DEF IInv, TickSocTimeout, HeartbeatsChecked
<1>2. /\ HbCounted \in [CnError -> Nat]
      /\ \A e \in CnError : HbCounted[e] < Threshold
      /\ HbCounted["LossOfSoc"] = cnt["LossOfSoc"]
      /\ hbSeen' \in [HbNodes -> Nat]
  BY <1>1, HeartbeatCheck DEF TickSocTimeout, HeartbeatsChecked
<1>3. /\ d.state \in DllCsState /\ d.errors \in Seq(CnError)
      /\ Len(d.errors) \in {0, 1, 2}
  BY <1>1, CsType DEF TypeOK
<1>4. /\ cnt' = HandleErrors(HbCounted, d.errors) /\ dll' = d.state
      /\ phase' = "idle" /\ UNCHANGED <<now, rx, en, ec, nmtReqs, sdoReqs, lastSoc>>
  BY DEF TickSocTimeout, HeartbeatsChecked
<1>5. /\ cnt' \in [CnError -> Nat] /\ CountersBelowThreshold'
      /\ s \subseteq CnError
  BY <1>2, <1>3, <1>4, CountersAfterErrors DEF CountersBelowThreshold
<1>6. now \in Nat /\ lastSoc \in Nat /\ lastSoc <= now
  BY <1>1 DEF IInv, TypeOK, ClockInv
<1>7. CASE s # {}
  <2>1. /\ nmt' = CnProcessEvent(nmt, "Error") /\ errReg' = TRUE /\ errChanged' = TRUE
        /\ socCheck' = FALSE /\ nextTick' = NoTick
        /\ emcy' = PushEmergency(emcy, CHOOSE e \in s : TRUE)
    BY <1>7 DEF TickSocTimeout, GiveUpCycle
  <2>2. nmt' \in NmtState /\ nmt' \notin CyclicState
    BY <1>1, <2>1, NmtType, NmtError DEF TypeOK
  <2>3. (CHOOSE e \in s : TRUE) \in CnError
    BY <1>5, <1>7
  <2>4. emcy' \in Seq(CnError)
    BY <1>1, <2>1, <2>3 DEF PushEmergency, TypeOK
  <2>5. TypeOK'
    BY <1>1, <1>2, <1>3, <1>4, <1>5, <2>1, <2>2, <2>4 DEF TypeOK
  <2>6. ClockInv'
    BY <1>4, <1>6, <2>1 DEF ClockInv
  <2> QED BY <1>5, <2>2, <2>5, <2>6 DEF IInv, SupervisionArmed, DeadlineInv
<1>8. CASE s = {}
  <2>1. /\ nextTick' = IF CycleLen > 0 THEN NextSocCheck ELSE NoTick
        /\ socCheck' = (CycleLen > 0) /\ UNCHANGED <<nmt, errReg, errChanged, emcy>>
    BY <1>8 DEF TickSocTimeout
  <2>2. CycleLen > 0 =>
          /\ NextSocCheck \in Nat /\ now <= NextSocCheck
          /\ NextSocCheck <= now + CycleLen + SocTolerance
    <3> SUFFICES ASSUME CycleLen > 0
                 PROVE  /\ NextSocCheck \in Nat /\ now <= NextSocCheck
                        /\ NextSocCheck <= now + CycleLen + SocTolerance
      OBVIOUS
    <3> DEFINE x == now - lastSoc
               m == (x \div CycleLen + 1) * CycleLen
    <3>1. x \in Nat
      BY <1>6
    <3>2. m \in Nat /\ m <= x + CycleLen /\ x < m
      BY <3>1, TimingAssumption, DivBounds
    <3>3. NextSocCheck = lastSoc + m + SocTolerance
      BY DEF NextSocCheck
    <3> HIDE DEF m
    <3> QED BY <1>6, <3>2, <3>3, TimingAssumption
  <2>3. TypeOK'
    <3>1. nextTick' \in Nat \cup {NoTick} /\ socCheck' \in BOOLEAN
      BY <2>1, <2>2
    <3> QED BY <1>1, <1>2, <1>3, <1>4, <1>5, <2>1, <3>1 DEF TypeOK
  <2>4. ClockInv'
    BY <1>4, <1>6, <2>1, <2>2, TimingAssumption DEF ClockInv, NoTick
  <2>5. SupervisionArmed' /\ DeadlineInv'
    <3> SUFFICES ASSUME CycleLen > 0, nmt \in CyclicState
                 PROVE  SupervisionArmed' /\ DeadlineInv'
      BY <2>1 DEF SupervisionArmed, DeadlineInv
    <3>1. dll # "NonCyclic" /\ nextTick # NoTick
      BY DEF IInv, SupervisionArmed
    <3>2. dll' # "NonCyclic"
      BY <1>1, <1>4, <3>1, CsFollows DEF TypeOK
    <3>3. SupervisionArmed'
      <4>1. nextTick' # NoTick
        BY <2>1, <2>2 DEF NoTick
      <4>2. socCheck' = TRUE
        BY <2>1
      <4> QED BY <3>2, <4>1, <4>2 DEF SupervisionArmed
    <3>4. 1 \in DOMAIN d.errors /\ d.errors[1] = "LossOfSoc"
      BY <1>1, <3>1, CsTimeout DEF TypeOK
    <3>5. "LossOfSoc" \in CnError
      BY DEF CnError
    <3>6. /\ cnt'["LossOfSoc"] = cnt["LossOfSoc"] + Penalty
          /\ cnt["LossOfSoc"] + Penalty < Threshold
      <4> HIDE DEF d
      <4> QED BY <1>2, <1>3, <1>4, <1>8, <3>4, <3>5, FirstErrorCounts
    <3>7. cnt["LossOfSoc"] \in Nat
      BY <1>1, <3>5 DEF TypeOK
    <3>8. nextTick <= lastSoc + (CycleLen + SocTolerance)
      <4>1. cnt["LossOfSoc"] < Penalty
        BY <3>6, <3>7 DEF Penalty, Threshold
      <4>2. DeadlineInv
        BY DEF IInv
      <4>3. ~(cnt["LossOfSoc"] >= Penalty)
        BY <4>1, <3>7 DEF Penalty
      <4>4. nextTick <= lastSoc + (CycleLen + SocTolerance) + 0
        BY <4>2, <4>3 DEF DeadlineInv
      <4> QED BY <4>4, <1>6, TimingAssumption
    <3>9. now <= nextTick + PollLatency
      BY <3>1 DEF IInv, ClockInv
    <3>10. NextSocCheck <= lastSoc + (CycleLen + SocTolerance)
                             + (CycleLen + SocTolerance + PollLatency)
      <4>1. nextTick \in Int
        BY <1>1 DEF TypeOK, NoTick
      <4> QED BY <1>6, <2>2, <3>8, <3>9, <4>1, TimingAssumption
    <3>11. DeadlineInv'
      BY <1>4, <2>1, <3>6, <3>7, <3>10 DEF DeadlineInv, Penalty
    <3> QED BY <3>3, <3>11
  <2> QED BY <1>5, <2>3, <2>4, <2>5 DEF IInv
<1> QED BY <1>7, <1>8

\* The remaining steps: a call that reaches its tick, an SDO answer in place of
\* the tick, the application's calls, and stuttering.
LEMMA QuietStep ==
  ASSUME IInv, Poll \/ TickSdoResponse \/ Application \/ UNCHANGED vars
  PROVE  IInv'
<1>1. /\ phase' \in {"idle", "tick"}
      /\ UNCHANGED <<now, rx, dll, cnt, errReg, errChanged, en, ec, emcy, hbSeen,
                     lastSoc, socCheck, nextTick>>
  BY DEF IInv, TypeOK, Poll, TickSdoResponse, Application, QueueNmtRequest,
         QueueSdoRequest, ConfirmConfiguration, vars, nodeVars
<1>2. nmtReqs' \in Seq(NmtRequest) /\ sdoReqs' \in Nat
  <2>1. nmtReqs \in Seq(NmtRequest) /\ sdoReqs \in Nat /\ "Command" \in NmtRequest
    BY DEF IInv, TypeOK, NmtRequest
  <2> QED BY <2>1 DEF Poll, TickSdoResponse, Application, QueueNmtRequest,
                      QueueSdoRequest, ConfirmConfiguration, vars, nodeVars
<1>3. nmt' \in NmtState /\ (nmt' \in CyclicState => nmt \in CyclicState)
  <2>1. nmt \in NmtState
    BY DEF IInv, TypeOK
  <2>2. nmt' = nmt \/ nmt' = CnProcessEvent(nmt, "CnConfigurationComplete")
    BY DEF Poll, TickSdoResponse, Application, QueueNmtRequest,
           QueueSdoRequest, ConfirmConfiguration, vars, nodeVars
  <2> QED BY <2>1, <2>2, NmtType, NmtCyclicEntry
<1>4. TypeOK'
  BY <1>1, <1>2, <1>3 DEF IInv, TypeOK
<1> QED BY <1>1, <1>3, <1>4
        DEF IInv, CountersBelowThreshold, ClockInv, SupervisionArmed, DeadlineInv

\* Time passes only while the pending deadline is less than PollLatency past.
LEMMA AdvanceStep ==
  ASSUME IInv, Advance
  PROVE  IInv'
<1>1. TypeOK'
  BY DEF IInv, TypeOK, Advance, nodeVars
<1>2. ClockInv'
  <2>1. now \in Nat /\ lastSoc \in Nat /\ nextTick \in Int /\ lastSoc <= now
    BY DEF IInv, TypeOK, ClockInv, NoTick
  <2>2. now' = now + 1 /\ lastSoc' = lastSoc /\ nextTick' = nextTick
        /\ (nextTick # NoTick => now < nextTick + PollLatency)
    BY DEF Advance, nodeVars
  <2> QED BY <2>1, <2>2, TimingAssumption DEF ClockInv, NoTick
<1> QED BY <1>1, <1>2
        DEF IInv, CountersBelowThreshold, SupervisionArmed, DeadlineInv, Advance,
            nodeVars

-----------------------------------------------------------------------------
(* The invariant and the theorems.                                          *)

\* The node ControlledNode::new returns satisfies the inductive invariant.
LEMMA InitIInv == Init => IInv
<1> SUFFICES ASSUME Init
             PROVE  IInv
  OBVIOUS
<1>1. cnt \in [CnError -> Nat] /\ CountersBelowThreshold
  BY DEF Init, CountersBelowThreshold, Threshold
<1>2. TypeOK
  <2>1. now \in Nat /\ rx \in Nat /\ sdoReqs \in Nat /\ lastSoc \in Nat
    BY DEF Init
  <2>2. nmt \in NmtState /\ dll \in DllCsState /\ hbSeen \in [HbNodes -> Nat]
    BY DEF Init, NmtState, DllCsState
  <2>3. emcy \in Seq(CnError) /\ nmtReqs \in Seq(NmtRequest)
    BY DEF Init
  <2> QED BY <1>1, <2>1, <2>2, <2>3 DEF Init, TypeOK
<1>3. nmt \notin CyclicState
  BY DEF Init, CyclicState
<1>4. ClockInv
  BY DEF Init, ClockInv
<1> QED BY <1>1, <1>2, <1>3, <1>4 DEF IInv, SupervisionArmed, DeadlineInv

\* Every frame, tick and application call preserves it.
LEMMA StepIInv == IInv /\ [Next]_vars => IInv'
<1> SUFFICES ASSUME IInv, [Next]_vars
             PROVE  IInv'
  OBVIOUS
<1>1. CASE ReceiveSoC
  BY <1>1, SoCStep
<1>2. ASSUME NEW toSelf \in BOOLEAN, ReceivePReq(toSelf)
      PROVE  IInv'
  BY <1>2, PReqStep
<1>3. ASSUME NEW src \in HbNodes \cup {"unmonitored"}, ReceivePRes(src)
      PROVE  IInv'
  BY <1>3, PResStep
<1>4. ASSUME NEW r \in SoARequests, ReceiveSoA(r[1], r[2])
      PROVE  IInv'
  BY <1>4, SoAStep
<1>5. CASE ReceiveForeignSoA
  BY <1>5, ForeignSoAStep
<1>6. ASSUME NEW command \in Commands, ReceiveNmtCommand(command)
      PROVE  IInv'
  BY <1>6, NmtCommandStep
<1>7. CASE ReceiveHostNameSet
  BY <1>7, HostNameSetStep
<1>8. CASE ReceiveOtherASnd
  BY <1>8, OtherASndStep
<1>9. ASSUME NEW answered \in BOOLEAN, ReceiveUncounted(answered)
      PROVE  IInv'
  BY <1>9, UncountedStep
<1>10. CASE Poll \/ TickSdoResponse \/ Application \/ UNCHANGED vars
  BY <1>10, QuietStep
<1>11. CASE TickHeartbeatError
  BY <1>11, TickHeartbeatErrorStep
<1>12. CASE TickArmBasicEthernet
  BY <1>12, TickArmStep
<1>13. CASE TickNotDue
  BY <1>13, TickNotDueStep
<1>14. CASE TickBasicEthernet
  BY <1>14, TickBasicEthernetStep
<1>15. CASE TickSocTimeout
  BY <1>15, TickSocTimeoutStep
<1>16. CASE TickIdleDeadline
  BY <1>16, TickIdleDeadlineStep
<1>17. CASE Advance
  BY <1>17, AdvanceStep
<1> QED BY <1>1, <1>2, <1>3, <1>4, <1>5, <1>6, <1>7, <1>8, <1>9, <1>10, <1>11,
           <1>12, <1>13, <1>14, <1>15, <1>16, <1>17
        DEF Next, Receive, Tick

\* The inductive invariant holds of every behaviour of the CN.
THEOREM Invariance == Spec => []IInv
<1>1. Init => IInv
  BY InitIInv
<1>2. IInv /\ [Next]_vars => IInv'
  BY StepIInv
<1> QED BY <1>1, <1>2, PTL DEF Spec

\* Type correctness: every handler of the CN keeps its state well formed; no
\* request is taken from an empty queue and the clock arithmetic stays in Nat.
THEOREM TypeCorrect == Spec => []TypeOK
<1>1. IInv => TypeOK
  BY DEF IInv
<1> QED BY <1>1, Invariance, PTL

\* A CN in a cyclic state always watches for the loss of the SoC, whatever the
\* network sends and whenever run_cycle is called.
THEOREM Supervision == Spec => []SupervisionArmed
<1>1. IInv => SupervisionArmed
  BY DEF IInv
<1> QED BY <1>1, Invariance, PTL

\* A CN whose MN fell silent leaves the cyclic states within two supervised
\* cycles, for every cycle length, tolerance and poll latency.
THEOREM Silence == Spec => []SilenceBounded
<1>1. IInv => SilenceBounded
  <2> SUFFICES ASSUME IInv, CycleLen > 0, nmt \in CyclicState
               PROVE  now <= lastSoc + 2 * (CycleLen + SocTolerance + PollLatency)
    BY DEF SilenceBounded
  <2>1. /\ now \in Nat /\ lastSoc \in Nat /\ nextTick \in Int
        /\ now <= nextTick + PollLatency
    BY DEF IInv, TypeOK, ClockInv, SupervisionArmed, NoTick
  <2>2. nextTick <= lastSoc + (CycleLen + SocTolerance)
                      + (CycleLen + SocTolerance + PollLatency)
    <3>1. CASE cnt["LossOfSoc"] >= Penalty
      BY <3>1 DEF IInv, DeadlineInv
    <3>2. CASE ~(cnt["LossOfSoc"] >= Penalty)
      <4>1. nextTick <= lastSoc + (CycleLen + SocTolerance) + 0
        BY <3>2 DEF IInv, DeadlineInv
      <4> QED BY <2>1, <4>1, TimingAssumption
    <3> QED BY <3>1, <3>2
  <2> QED BY <2>1, <2>2, TimingAssumption
<1> QED BY <1>1, Invariance, PTL
(***************************************************************************)
(* ControlledNode implements CnLifecycle, what a queued emergency means,    *)
(* and that the queue is a bounded FIFO, for every value of the constants.  *)
(***************************************************************************)


\* An edge of the CN state diagram, or no move.
Edge(s, t) ==
  \/ t = "NotActive"
  \/ s \in {"NotActive", "BasicEthernet"} /\ t = "PreOp1"
  \/ s = "NotActive" /\ t = "BasicEthernet"
  \/ s \in {"PreOp1", "BasicEthernet"} /\ t = "PreOp2"
  \/ s = "PreOp2" /\ t = "ReadyToOp"
  \/ s = "ReadyToOp" /\ t = "Operational"
  \/ s \in AtLeastPreOp2 /\ t = "CsStopped"
  \/ s \in {"Operational", "CsStopped"} /\ t = "PreOp2"
  \/ s = t

\* The CN falls out of the cycle by itself.
Fallback == /\ nmt \in CyclicState /\ nmt' = "PreOp1"
            /\ socCheck' = FALSE /\ errReg' = TRUE /\ errChanged' = TRUE

\* The emergency queue grows only together with a fall to PreOp1.
Announced == Len(emcy') > Len(emcy) => nmt' = "PreOp1" /\ errReg' /\ errChanged'

\* What every step of the node does, seen from the lifecycle.
LifeStep == (Edge(nmt, nmt') \/ Fallback) /\ Announced

-----------------------------------------------------------------------------

\* CnNmtStateMachine::process_event moves along the edges, except for Error.
LEMMA NmtEdge ==
  ASSUME NEW s \in NmtState, NEW e, e # "Error", e # "PowerlinkFrameReceived"
  PROVE  Edge(s, CnProcessEvent(s, e))
BY DEF Edge, CnProcessEvent, NmtState, CyclicState, AtLeastPreOp2, ResetEvent

\* The state in which a frame is handled, after the NMT event the frame itself
\* carries, is one edge away from the state before the frame: leaving
\* BasicEthernet and the event of the frame combine to one edge.
LEMMA FrameEdge ==
  ASSUME TypeOK
  PROVE  /\ Edge(nmt, OnWire)
         /\ \A e \in {"SocReceived", "SocSoAReceived"} \cup NmtStateCommand :
              Edge(nmt, CnProcessEvent(OnWire, e))
<1>1. nmt \in NmtState
  BY DEF TypeOK
<1>2. CASE nmt = "BasicEthernet"
  <2>1. OnWire = "PreOp1"
    BY <1>2 DEF OnWire, CnProcessEvent, CyclicState, AtLeastPreOp2, ResetEvent
  <2>2. \A e \in {"SocReceived", "SocSoAReceived"} \cup NmtStateCommand :
          CnProcessEvent("PreOp1", e) \in {"NotActive", "PreOp1", "PreOp2"}
    BY DEF CnProcessEvent, CyclicState, AtLeastPreOp2, ResetEvent, NmtStateCommand
  <2> QED BY <1>2, <2>1, <2>2 DEF Edge
<1>3. CASE nmt # "BasicEthernet"
  <2>1. OnWire = nmt
    BY <1>3 DEF OnWire
  <2>2. \A e \in {"SocReceived", "SocSoAReceived"} \cup NmtStateCommand :
          e # "Error" /\ e # "PowerlinkFrameReceived"
    BY DEF NmtStateCommand, ResetEvent
  <2> QED BY <1>1, <2>1, <2>2, NmtEdge DEF Edge
<1> QED BY <1>2, <1>3

\* Only a cyclic state reports errors to signal.
LEMMA SignalsInCycle ==
  ASSUME TypeOK, NEW n, NEW ev, NEW c,
         Signalled(c, CsProcessEvent(dll, ev, n).errors) # {}
  PROVE  n \in CyclicState
<1>1. CASE n \notin CyclicState
  <2>1. CsProcessEvent(dll, ev, n).errors = <<>>
    BY <1>1, CsType DEF TypeOK
  <2>2. DOMAIN <<>> = {}
    OBVIOUS
  <2> QED BY <2>1, <2>2 DEF Signalled, ReachedAt
<1> QED BY <1>1

\* The fallback taken from a state n one edge away.
LEMMA GiveUpEdge ==
  ASSUME TypeOK, NEW n \in CyclicState, Edge(nmt, n), GiveUpCycle(n)
  PROVE  /\ Edge(nmt, nmt') \/ Fallback
         /\ nmt' = "PreOp1" /\ errReg' = TRUE /\ errChanged' = TRUE
<1>1. nmt' = "PreOp1" /\ errReg' = TRUE /\ errChanged' = TRUE /\ socCheck' = FALSE
  BY NmtError DEF GiveUpCycle, CyclicState, NmtState
<1>2. nmt \in CyclicState \cup {"PreOp1", "BasicEthernet"}
  BY DEF Edge, CyclicState, AtLeastPreOp2, TypeOK, NmtState
<1>3. CASE nmt \in CyclicState
  BY <1>1, <1>3 DEF Fallback
<1>4. CASE nmt \in {"PreOp1", "BasicEthernet"}
  BY <1>1, <1>4 DEF Edge
<1> QED BY <1>1, <1>2, <1>3, <1>4

\* The common part of process_frame.
LEMMA DispatchLife ==
  ASSUME TypeOK, NEW n, Edge(nmt, n),
         NEW ev, NEW c, NEW q, NEW rest, NEW reg, NEW chg, NEW flag, NEW check,
         NEW ans, Len(rest) <= Len(emcy),
         Dispatch(n, ev, c, q, rest, reg, chg, flag, check, ans)
  PROVE  LifeStep
<1> DEFINE s == Signalled(c, CsProcessEvent(dll, ev, n).errors)
<1>1. CASE s # {}
  <2>1. n \in CyclicState
    BY <1>1, SignalsInCycle
  <2>2. GiveUpCycle(n)
    BY <1>1 DEF Dispatch
  <2> QED BY <2>1, <2>2, GiveUpEdge DEF LifeStep, Announced
<1>2. CASE s = {}
  <2>1. nmt' = n /\ emcy' = rest
    BY <1>2 DEF Dispatch
  <2>2. Len(emcy) \in Nat
    BY DEF TypeOK
  <2> QED BY <2>1, <2>2 DEF LifeStep, Announced
<1> QED BY <1>1, <1>2

\* Every frame handler.
LEMMA ReceiveLife ==
  ASSUME TypeOK, Receive
  PROVE  LifeStep
<1>1. Len(emcy) \in Nat /\ Len(emcy) <= Len(emcy) /\ Edge(nmt, OnWire)
  BY FrameEdge DEF TypeOK
<1>2. CASE ReceiveSoC
  <2>1. Edge(nmt, CnProcessEvent(OnWire, "SocReceived"))
    BY FrameEdge
  <2> DEFINE n == CnProcessEvent(OnWire, "SocReceived")
             c == OnCycleComplete(cnt)
             reg == errReg /\ ~AllErrorsCleared(cnt)
             chg == errChanged \/ AllErrorsCleared(cnt)
             check == CycleLen > 0
             ans == FALSE
  <2>2. Dispatch(n, "Soc", c, emcy, emcy, reg, chg, en, check, ans)
    BY <1>2 DEF ReceiveSoC
  <2> HIDE DEF n, c, reg, chg, check, ans
  <2>3. Edge(nmt, n)
    BY <2>1 DEF n
  <2> QED BY ONLY DispatchLife, TypeOK, <1>1, <2>2, <2>3
<1>3. ASSUME NEW n, Edge(nmt, n), NEW ev, NEW ans, PlainDispatch(n, ev, ans)
      PROVE  LifeStep
  <2>1. Dispatch(n, ev, cnt, emcy, emcy, errReg, errChanged, en, socCheck, ans)
    BY <1>3 DEF PlainDispatch
  <2> QED BY ONLY DispatchLife, TypeOK, <1>1, <1>3, <2>1
<1>4. ASSUME NEW toSelf \in BOOLEAN, ReceivePReq(toSelf)
      PROVE  LifeStep
  <2>1. PlainDispatch(OnWire, "Preq", toSelf /\ OnWire \in AtLeastPreOp2)
    BY <1>4 DEF ReceivePReq
  <2> QED BY ONLY <1>1, <1>3, <2>1
<1>5. ASSUME NEW src \in HbNodes \cup {"unmonitored"}, ReceivePRes(src)
      PROVE  LifeStep
  <2> DEFINE ans == FALSE
  <2>1. PlainDispatch(OnWire, "Pres", ans)
    BY <1>5 DEF ReceivePRes
  <2> HIDE DEF ans
  <2> QED BY ONLY <1>1, <1>3, <2>1
<1>6. ASSUME NEW r \in SoARequests, ReceiveSoA(r[1], r[2])
      PROVE  LifeStep
  <2> DEFINE service == r[1]
             er == r[2]
             n  == CnProcessEvent(OnWire, "SocSoAReceived")
             q  == IF er THEN <<>> ELSE emcy
             ok == /\ Signalled(cnt, CsProcessEvent(dll, "Soa", n).errors) = {}
                   /\ SoAAnswered(n, service)
             rest == IF ok /\ service = "StatusRequest" THEN DrainEmergencies(q) ELSE q
             flag == en /\ ~er
  <2>1. Dispatch(n, "Soa", cnt, q, rest, errReg, errChanged, flag, socCheck, ok)
    BY <1>6 DEF ReceiveSoA
  <2>2. Edge(nmt, n)
    BY FrameEdge
  <2>3. Len(rest) <= Len(emcy)
    <3>1. q \in Seq(CnError) /\ Len(q) <= Len(emcy) /\ Len(q) \in Nat
      BY <1>1 DEF TypeOK
    <3>2. Len(DrainEmergencies(q)) <= Len(q) /\ Len(DrainEmergencies(q)) \in Nat
      <4>1. \A m \in 0 .. Len(q) : Len(SubSeq(q, 1 + m, Len(q))) = Len(q) - m
        BY <3>1
      <4>2. (IF Len(q) < MaxEntries THEN Len(q) ELSE MaxEntries) \in 0 .. Len(q)
        BY <3>1, QueueAssumption
      <4> HIDE DEF q
      <4> QED BY <3>1, <4>1, <4>2 DEF DrainEmergencies
    <3> HIDE DEF q, ok
    <3> QED BY <1>1, <3>1, <3>2
  <2> HIDE DEF service, er, n, q, ok, rest, flag
  <2> QED BY ONLY DispatchLife, TypeOK, <2>1, <2>2, <2>3
<1>7. CASE ReceiveForeignSoA
  <2> DEFINE n == CnProcessEvent(OnWire, "SocSoAReceived")
             ans == FALSE
  <2>1. PlainDispatch(n, "Soa", ans)
    BY <1>7 DEF ReceiveForeignSoA
  <2>2. Edge(nmt, n)
    BY FrameEdge
  <2> HIDE DEF n, ans
  <2> QED BY ONLY <1>3, <2>1, <2>2
<1>8. ASSUME NEW command \in Commands, ReceiveNmtCommand(command)
      PROVE  LifeStep
  <2> DEFINE n == CnProcessEvent(OnWire, command)
             reg == errReg /\ ~RestoresErrorRegister(command)
             ans == FALSE
  <2>1. Dispatch(n, "Asnd", cnt, emcy, emcy, reg, errChanged, en, socCheck, ans)
    BY <1>8 DEF ReceiveNmtCommand
  <2>2. Edge(nmt, n)
    BY FrameEdge, EnvironmentAssumption
  <2> HIDE DEF n, reg, ans
  <2> QED BY ONLY DispatchLife, TypeOK, <1>1, <2>1, <2>2
<1>9. CASE ReceiveHostNameSet \/ ReceiveOtherASnd
  <2> DEFINE ans == FALSE
  <2>1. PlainDispatch(OnWire, "Asnd", ans)
    BY <1>9 DEF ReceiveHostNameSet, ReceiveOtherASnd
  <2> HIDE DEF ans
  <2> QED BY ONLY <1>1, <1>3, <2>1
<1>10. ASSUME NEW answered \in BOOLEAN, ReceiveUncounted(answered)
       PROVE  LifeStep
  BY <1>1, <1>10 DEF ReceiveUncounted, LifeStep, Announced
<1> QED BY <1>2, <1>4, <1>5, <1>6, <1>7, <1>8, <1>9, <1>10 DEF Receive

\* Every tick.
LEMMA TickLife ==
  ASSUME IInv, Tick
  PROVE  LifeStep
<1>1. TypeOK /\ Len(emcy) \in Nat /\ Edge(nmt, nmt)
  BY DEF IInv, TypeOK, Edge
<1>2. CASE UNCHANGED <<nmt, emcy>>
  BY <1>1, <1>2 DEF LifeStep, Announced
<1>3. CASE TickHeartbeatError
  <2>1. nmt \in CyclicState
    BY <1>3 DEF TickHeartbeatError, HbFatal, TimedOut, CyclicState, AtLeastPreOp2
  <2>2. GiveUpCycle(nmt) /\ emcy' = emcy
    BY <1>3 DEF TickHeartbeatError
  <2> QED BY <1>1, <2>1, <2>2, GiveUpEdge DEF LifeStep, Announced
<1>4. CASE TickBasicEthernet
  <2>1. Edge(nmt, CnProcessEvent(nmt, "Timeout"))
    BY <1>1, NmtEdge DEF TypeOK
  <2>2. nmt' \in {nmt, CnProcessEvent(nmt, "Timeout")} /\ emcy' = emcy
    BY <1>4 DEF TickBasicEthernet
  <2> QED BY <1>1, <2>1, <2>2 DEF LifeStep, Announced
<1>5. CASE TickSocTimeout
  <2> DEFINE s == Signalled(HbCounted, CsProcessEvent(dll, "SocTimeout", nmt).errors)
  <2>1. CASE s = {}
    <3>1. UNCHANGED <<nmt, emcy>>
      BY <1>5, <2>1 DEF TickSocTimeout
    <3> QED BY <1>2, <3>1
  <2>2. CASE s # {}
    <3>1. GiveUpCycle(nmt)
      BY <1>5, <2>2 DEF TickSocTimeout
    <3>2. nmt \in CyclicState
      BY <1>1, <2>2, SignalsInCycle
    <3> QED BY <1>1, <3>1, <3>2, GiveUpEdge DEF LifeStep, Announced
  <2> QED BY <2>1, <2>2
<1> QED BY <1>2, <1>3, <1>4, <1>5
        DEF Tick, TickSdoResponse, TickArmBasicEthernet, TickNotDue,
            TickIdleDeadline, nodeVars

\* Every step of the node.
LEMMA NextLife ==
  ASSUME IInv, [Next]_vars
  PROVE  LifeStep
<1>1. TypeOK /\ Len(emcy) \in Nat
  BY DEF IInv, TypeOK
<1>2. CASE Receive
  BY <1>1, <1>2, ReceiveLife
<1>3. CASE Tick
  BY <1>3, TickLife
<1>4. CASE ConfirmConfiguration
  <2>1. Edge(nmt, CnProcessEvent(nmt, "CnConfigurationComplete"))
    BY <1>1, NmtEdge DEF TypeOK
  <2> QED BY <1>1, <1>4, <2>1 DEF ConfirmConfiguration, LifeStep, Announced
<1>5. CASE Poll \/ QueueNmtRequest \/ QueueSdoRequest \/ Advance \/ UNCHANGED vars
  BY <1>1, <1>5 DEF Poll, QueueNmtRequest, QueueSdoRequest, Advance, vars, nodeVars,
                    LifeStep, Announced, Edge
<1> QED BY <1>2, <1>3, <1>4, <1>5 DEF Next, Application

\* A lifecycle step of the supervised node is a step of CnLifecycle.
LEMMA LifeStepRefines ==
  ASSUME CycleLen > 0, CycleLen \in Nat, TypeOK, TypeOK', SupervisionArmed', LifeStep
  PROVE  [Lifecycle!Next]_<<nmt, socCheck, errReg /\ errChanged>>
<1>1. /\ nmt' \in CyclicState => socCheck'
      /\ socCheck' \in BOOLEAN /\ (errReg /\ errChanged)' \in BOOLEAN
  BY DEF SupervisionArmed, TypeOK
<1>2. CASE Fallback
  BY <1>1, <1>2 DEF Fallback, Lifecycle!Next, Lifecycle!Free, Lifecycle!Fail,
                    Lifecycle!CyclicState, CyclicState
<1>3. CASE Edge(nmt, nmt')
  <2>1. \/ Lifecycle!Reset \/ Lifecycle!Wake \/ Lifecycle!GoQuiet \/ Lifecycle!Begin
        \/ Lifecycle!Confirm \/ Lifecycle!Start \/ Lifecycle!Stop
        \/ Lifecycle!Resume \/ Lifecycle!Stay
    BY <1>1, <1>3
       DEF Edge, Lifecycle!Reset, Lifecycle!Wake, Lifecycle!GoQuiet, Lifecycle!Begin,
           Lifecycle!Confirm, Lifecycle!Start, Lifecycle!Stop, Lifecycle!Resume,
           Lifecycle!Stay, Lifecycle!Enter, Lifecycle!CyclicState,
           Lifecycle!AtLeastPreOp2, CyclicState, AtLeastPreOp2
  <2> QED BY <1>1, <2>1 DEF Lifecycle!Next, Lifecycle!Free
<1> QED BY <1>2, <1>3 DEF LifeStep

\* The CN implements its lifecycle contract for every configuration with SoC
\* supervision (object 0x1006 set): NMT moves along the edges of the CN diagram,
\* cyclic states are supervised, and the node leaves them uncommanded only with
\* the generic error raised and its announcement pending.
THEOREM Refinement ==
  ASSUME CycleLen > 0
  PROVE  Spec => ImplementsLifecycle
<1>1. Init => Lifecycle!Init
  BY DEF Init, Lifecycle!Init
<1>2. IInv /\ IInv' /\ [Next]_vars
        => [Lifecycle!Next]_<<nmt, socCheck, errReg /\ errChanged>>
  BY NextLife, LifeStepRefines, TimingAssumption DEF IInv
<1> QED BY <1>1, <1>2, Invariance, PTL DEF Spec, ImplementsLifecycle, Lifecycle!Spec

\* An entry reaches the emergency queue only in a step that also drops the CN to
\* PreOp1 with the generic error raised and announced.
THEOREM EmergencyTheorem == Spec => EmergencyMeansFallback
<1>1. IInv /\ [Next]_vars
        => [Len(emcy') > Len(emcy) => nmt' = "PreOp1" /\ errReg' /\ errChanged']_vars
  BY NextLife DEF LifeStep, Announced
<1> QED BY <1>1, Invariance, PTL DEF Spec, EmergencyMeansFallback

-----------------------------------------------------------------------------
(* The emergency queue.                                                      *)

\* What a step does to the emergency queue: nothing, one entry more, the oldest
\* entries taken by a StatusResponse, all dropped by an ER, or both of the last
\* kinds of change in one SoA.
QueueStep ==
  \/ emcy' \in {emcy, <<>>, DrainEmergencies(emcy)}
  \/ \E e \in CnError : emcy' = PushEmergency(emcy, e)
  \/ ec' /\ \E e \in CnError : emcy' = PushEmergency(<<>>, e)

EmcyBounded == Len(emcy) <= EmcyCapacity

\* What EmergencyFifo says of one step.
FifoStep ==
  /\ Len(emcy') <= EmcyCapacity
  /\ \/ \E k \in 0 .. Len(emcy) : emcy' = SubSeq(emcy, k + 1, Len(emcy))
     \/ Len(emcy') = Len(emcy) + 1 /\ SubSeq(emcy', 1, Len(emcy)) = emcy
     \/ emcy' \in { <<e>> : e \in CnError } /\ ec'

\* Dispatch leaves the queue the handler hands it, or pushes one error on the
\* queue the handler found.
LEMMA DispatchQueue ==
  ASSUME IInv, NEW n \in NmtState, NEW ev, NEW c \in [CnError -> Nat],
         \A e \in CnError : c[e] < Threshold, NEW q, NEW rest,
         NEW reg, NEW chg, NEW flag, NEW check, NEW ans,
         Dispatch(n, ev, c, q, rest, reg, chg, flag, check, ans)
  PROVE  emcy' = rest \/ \E e \in CnError : emcy' = PushEmergency(q, e)
<1> DEFINE d == CsProcessEvent(dll, ev, n)
           s == Signalled(c, d.errors)
<1>1. dll \in DllCsState
  BY DEF IInv, TypeOK
<1>2. s \subseteq CnError
  BY <1>1, CsType, CountersAfterErrors
<1>3. emcy' = IF s # {} THEN PushEmergency(q, CHOOSE e \in s : TRUE) ELSE rest
  BY DEF Dispatch
<1> HIDE DEF s
<1>4. s # {} => (CHOOSE e \in s : TRUE) \in CnError
  BY <1>2
<1> QED BY <1>3, <1>4

\* An empty queue has no entries to drain.
LEMMA DrainNothing == DrainEmergencies(<<>>) = <<>>
BY QueueAssumption DEF DrainEmergencies

\* Every frame does to the queue what QueueStep says.
LEMMA ReceiveQueue ==
  ASSUME IInv, Receive
  PROVE  QueueStep
<1>1. /\ TypeOK /\ OnWire \in NmtState /\ cnt \in [CnError -> Nat]
      /\ \A e \in CnError : cnt[e] < Threshold
  BY OnWireType DEF IInv, TypeOK, CountersBelowThreshold
<1>2. \A e : CnProcessEvent(OnWire, e) \in NmtState
  BY <1>1, NmtType
<1>3. ASSUME NEW n \in NmtState, NEW ev, NEW ans, PlainDispatch(n, ev, ans)
      PROVE  QueueStep
  <2>1. emcy' = emcy \/ \E e \in CnError : emcy' = PushEmergency(emcy, e)
    BY <1>1, <1>3, DispatchQueue DEF PlainDispatch
  <2> QED BY <2>1 DEF QueueStep
<1>4. CASE ReceiveSoC
  <2>1. OnCycleComplete(cnt) \in [CnError -> Nat]
        /\ \A e \in CnError : OnCycleComplete(cnt)[e] < Threshold
    BY <1>1, CountersAfterCycle
  <2>2. emcy' = emcy \/ \E e \in CnError : emcy' = PushEmergency(emcy, e)
    BY <1>2, <1>4, <2>1, DispatchQueue DEF ReceiveSoC
  <2> QED BY <2>2 DEF QueueStep
<1>5. ASSUME NEW toSelf \in BOOLEAN, ReceivePReq(toSelf)
      PROVE  QueueStep
  BY <1>1, <1>3, <1>5 DEF ReceivePReq
<1>6. ASSUME NEW src, ReceivePRes(src)
      PROVE  QueueStep
  BY <1>1, <1>3, <1>6 DEF ReceivePRes
<1>7. ASSUME NEW r \in SoARequests, ReceiveSoA(r[1], r[2])
      PROVE  QueueStep
  <2> DEFINE n == CnProcessEvent(OnWire, "SocSoAReceived")
             q == IF r[2] THEN <<>> ELSE emcy
             d == CsProcessEvent(dll, "Soa", n)
             ok == Signalled(cnt, d.errors) = {} /\ SoAAnswered(n, r[1])
             rest == IF ok /\ r[1] = "StatusRequest" THEN DrainEmergencies(q) ELSE q
  <2>1. ec' = r[2] /\ Dispatch(n, "Soa", cnt, q, rest, errReg, errChanged, en /\ ~r[2], socCheck, ok)
    BY <1>7 DEF ReceiveSoA
  <2>2. n \in NmtState
    BY <1>2
  <2>3. emcy' = rest \/ \E e \in CnError : emcy' = PushEmergency(q, e)
    <3> HIDE DEF n, q, rest, ok
    <3> QED BY <1>1, <2>1, <2>2, DispatchQueue
  <2>4. CASE r[2]
    BY <2>1, <2>3, <2>4, DrainNothing DEF QueueStep
  <2>5. CASE ~r[2]
    BY <2>1, <2>3, <2>5 DEF QueueStep
  <2> QED BY <2>4, <2>5
<1>8. CASE ReceiveForeignSoA
  BY <1>2, <1>3, <1>8 DEF ReceiveForeignSoA
<1>9. ASSUME NEW command \in Commands, ReceiveNmtCommand(command)
      PROVE  QueueStep
  <2>1. emcy' = emcy \/ \E e \in CnError : emcy' = PushEmergency(emcy, e)
    BY <1>1, <1>2, <1>9, DispatchQueue DEF ReceiveNmtCommand
  <2> QED BY <2>1 DEF QueueStep
<1>10. CASE ReceiveHostNameSet \/ ReceiveOtherASnd
  BY <1>1, <1>3, <1>10 DEF ReceiveHostNameSet, ReceiveOtherASnd
<1>11. ASSUME NEW answered \in BOOLEAN, ReceiveUncounted(answered)
       PROVE  QueueStep
  BY <1>11 DEF ReceiveUncounted, QueueStep
<1> QED BY <1>4, <1>5, <1>6, <1>7, <1>8, <1>9, <1>10, <1>11 DEF Receive

\* So does every other step.
LEMMA NextQueue ==
  ASSUME IInv, [Next]_vars
  PROVE  QueueStep
<1>1. CASE TickSocTimeout
  <2> DEFINE s == Signalled(HbCounted, CsProcessEvent(dll, "SocTimeout", nmt).errors)
  <2>1. TypeOK /\ HbCounted \in [CnError -> Nat] /\ \A e \in CnError : HbCounted[e] < Threshold
    BY <1>1, HeartbeatCheck DEF IInv, TickSocTimeout, HeartbeatsChecked
  <2>2. s \subseteq CnError
    BY <2>1, CsType, CountersAfterErrors DEF TypeOK
  <2>3. emcy' = IF s # {} THEN PushEmergency(emcy, CHOOSE e \in s : TRUE) ELSE emcy
    BY <1>1 DEF TickSocTimeout
  <2> HIDE DEF s
  <2>4. s # {} => (CHOOSE e \in s : TRUE) \in CnError
    BY <2>2
  <2> QED BY <2>3, <2>4 DEF QueueStep
<1>2. CASE Receive
  BY <1>2, ReceiveQueue
<1>3. CASE UNCHANGED emcy
  BY <1>3 DEF QueueStep
<1> QED BY <1>1, <1>2, <1>3
        DEF Next, Tick, Application, Poll, Advance, TickSdoResponse, TickHeartbeatError,
            TickArmBasicEthernet, TickNotDue, TickBasicEthernet, TickIdleDeadline,
            QueueNmtRequest, QueueSdoRequest, ConfirmConfiguration, vars, nodeVars

\* Such a step keeps the order and the bound of the queue.
LEMMA QueueStepIsFifo ==
  ASSUME TypeOK, EmcyBounded, QueueStep
  PROVE  FifoStep
<1>1. emcy \in Seq(CnError) /\ Len(emcy) \in Nat /\ EmcyCapacity \in Nat /\ MaxEntries \in Nat
      /\ Len(emcy) <= EmcyCapacity
  BY QueueAssumption DEF TypeOK, EmcyBounded
<1>2. CASE emcy' = emcy
  <2>1. emcy' = SubSeq(emcy, 0 + 1, Len(emcy)) /\ 0 \in 0 .. Len(emcy)
    BY <1>1, <1>2
  <2> QED BY <1>1, <1>2, <2>1 DEF FifoStep
<1>3. CASE emcy' = <<>>
  <2>1. emcy' = SubSeq(emcy, Len(emcy) + 1, Len(emcy)) /\ Len(emcy) \in 0 .. Len(emcy)
    BY <1>1, <1>3
  <2>2. Len(emcy') = 0
    BY <1>3
  <2> QED BY <1>1, <2>1, <2>2 DEF FifoStep
<1>4. CASE emcy' = DrainEmergencies(emcy)
  <2> DEFINE k == IF Len(emcy) < MaxEntries THEN Len(emcy) ELSE MaxEntries
  <2>1. emcy' = SubSeq(emcy, 1 + k, Len(emcy))
    BY <1>4 DEF DrainEmergencies
  <2>2. k \in 0 .. Len(emcy) /\ 1 + k = k + 1
    BY <1>1
  <2> HIDE DEF k
  <2>3. Len(emcy') <= Len(emcy) /\ Len(emcy') \in Nat
    BY <1>1, <2>1, <2>2
  <2> QED BY <1>1, <2>1, <2>2, <2>3 DEF FifoStep
<1>5. ASSUME NEW e \in CnError, emcy' = Append(emcy, e), Len(emcy) < EmcyCapacity
      PROVE  FifoStep
  <2>1. Len(emcy') = Len(emcy) + 1
    BY <1>1, <1>5
  <2>2. SubSeq(emcy', 1, Len(emcy)) = emcy
    BY <1>1, <1>5
  <2> QED BY <1>1, <1>5, <2>1, <2>2 DEF FifoStep
<1>6. ASSUME NEW e \in CnError, emcy' = <<e>>, 0 < EmcyCapacity, ec'
      PROVE  FifoStep
  <2>1. Len(emcy') = 1
    BY <1>6
  <2> QED BY <1>1, <1>6, <2>1 DEF FifoStep
<1>7. ASSUME NEW e \in CnError
      PROVE  PushEmergency(<<>>, e) \in {<<>>, <<e>>}
             /\ (PushEmergency(<<>>, e) = <<e>> => 0 < EmcyCapacity)
  BY <1>1 DEF PushEmergency
<1> QED BY <1>2, <1>3, <1>4, <1>5, <1>6, <1>7 DEF QueueStep, PushEmergency

\* The emergency queue is a bounded FIFO (EmergencyQueue and its users in
\* node/cn): no step reorders it, loses a newer entry before an older one, or
\* fills it past its capacity, for every capacity and response size.
THEOREM FifoTheorem == Spec => EmergencyFifo
<1>1. Init => EmcyBounded
  BY QueueAssumption DEF Init, EmcyBounded
<1>2. IInv /\ EmcyBounded /\ [Next]_vars => FifoStep
  BY NextQueue, QueueStepIsFifo DEF IInv
<1>3. IInv /\ EmcyBounded /\ [Next]_vars => EmcyBounded'
  BY <1>2 DEF FifoStep, EmcyBounded
<1>4. IInv /\ EmcyBounded /\ [Next]_vars => [FifoStep]_vars
  BY <1>2
<1>5. [][FifoStep]_vars => EmergencyFifo
  BY PTL DEF FifoStep, EmergencyFifo
<1> QED BY <1>1, <1>3, <1>4, <1>5, Invariance, PTL DEF Spec
=============================================================================
