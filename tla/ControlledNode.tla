--------------------------- MODULE ControlledNode ---------------------------
(***************************************************************************)
(* A POWERLINK Controlled Node (node/cn/main.rs, events.rs, tick.rs,       *)
(* payload.rs, state.rs): NMT state, DLL cycle supervision, error          *)
(* counters, error signalling, heartbeat consumers and the pending         *)
(* asynchronous requests.                                                  *)
(*                                                                         *)
(* The node is single threaded and driven by Node::run_cycle(frame, now).  *)
(* One call is one or two steps here: an Ethernet frame is handled first,  *)
(* and when its handler returns NoAction the same call goes on to the      *)
(* tick.  phase = "tick" between the two; the clock stands still there.    *)
(* The network may deliver any frame at any time, so frames are lost,      *)
(* repeated and reordered freely.                                          *)
(***************************************************************************)
EXTENDS CnNmt, DllCs, CnErrorCounters, FiniteSets

CONSTANTS
  CycleLen,      \* NMT_CycleLen_U32 (0x1006), in time units; 0 disables supervision
  SocTolerance,  \* DLL_CNLossOfSocTolerance (0x1C14) / 1000
  BasicEthernetTimeout, \* NMT_CNBasicEthernetTimeout_U32 (0x1F99); 0 disables it
  EmcyCapacity,  \* capacity of emergency_queue
  MaxEntries,    \* error entries one StatusResponse can carry
  HbNodes,       \* nodes listed in NMT_ConsumerHeartbeatTime_AU32 (0x1016)
  HbTimeout,     \* their heartbeat times
  Commands,      \* NMT state commands the MN sends to this node
  SoARequests,   \* <<service, ER flag>> of the SoAs the MN addresses to this node
  PollLatency,   \* how late after next_action_time() the application calls run_cycle
  MaxTime,       \* bound: the clock stops here
  MaxRx,         \* bound: frames the link carries in one unit of time
  MaxPending     \* bound: length of the pending request queues

ASSUME TimingAssumption ==
  /\ CycleLen \in Nat /\ SocTolerance \in Nat /\ BasicEthernetTimeout \in Nat
  /\ PollLatency \in Nat /\ MaxTime \in Nat /\ MaxRx \in Nat

ASSUME QueueAssumption ==
  EmcyCapacity \in Nat /\ MaxEntries \in Nat /\ MaxPending \in Nat

ASSUME HeartbeatAssumption ==
  IsFiniteSet(HbNodes) /\ HbTimeout \in [HbNodes -> Nat \ {0}]

VARIABLES
  now,        \* current_time_us
  rx,         \* frames received since the clock last moved (MaxRx bounds it)
  phase,      \* "idle": between two calls; "tick": the call goes on to process_tick
  nmt,        \* nmt_state_machine.current_state, which OD 0x1F8C mirrors
  dll,        \* dll_state_machine.state
  cnt,        \* dll_error_manager.counters: the threshold counters
  errReg,     \* bit 0 (generic error) of the Error Register, OD 0x1001
  errChanged, \* error_status_changed
  en,         \* en_flag
  ec,         \* ec_flag
  emcy,       \* emergency_queue
  nmtReqs,    \* pending_nmt_requests
  sdoReqs,    \* length of sdo_client.pending_client_requests
  hbSeen,     \* heartbeat_consumers: last seen time, 0 for never
  lastSoc,    \* last_soc_reception_time_us
  socCheck,   \* soc_timeout_check_active
  nextTick    \* next_tick_us

nodeVars == <<nmt, dll, cnt, errReg, errChanged, en, ec, emcy, nmtReqs,
              sdoReqs, hbSeen, lastSoc, socCheck, nextTick>>
vars == <<now, rx, phase, nodeVars>>

NoTick == -1     \* next_tick_us = None

\* The services a SoA can request of the node it targets.
RequestedService == { "NoService", "IdentRequest", "StatusRequest",
                      "NmtRequestInvite", "UnspecifiedInvite" }

\* What pending_nmt_requests holds: commands the application queued and the
\* IdentRequest that follows an NmtNetHostNameSet.
NmtRequest == { "Command", "IdentRequest" }

ASSUME EnvironmentAssumption ==
  /\ Commands \subseteq NmtStateCommand
  /\ SoARequests \subseteq RequestedService \X BOOLEAN

-----------------------------------------------------------------------------
(* The node after ControlledNode::new.  The clock starts at 1: the code     *)
(* takes a last-seen time of 0 for "never".                                 *)

Init ==
  /\ now = 1 /\ rx = 0 /\ phase = "idle"
  /\ nmt = "NotActive" /\ dll = "NonCyclic"
  /\ cnt = [e \in CnError |-> 0]
  /\ errReg = FALSE /\ errChanged = FALSE
  /\ en = FALSE /\ ec = TRUE
  /\ emcy = <<>> /\ nmtReqs = <<>> /\ sdoReqs = 0
  /\ hbSeen = [n \in HbNodes |-> 0]
  /\ lastSoc = 0 /\ socCheck = FALSE /\ nextTick = NoTick

-----------------------------------------------------------------------------
(* Frame reception: process_ethernet_frame and process_frame.               *)

\* run_cycle is called with a POWERLINK frame.
FrameArrives == phase = "idle" /\ rx < MaxRx /\ rx' = rx + 1

\* process_ethernet_frame: any POWERLINK frame ends BasicEthernet, and the
\* frame is then handled in the state that follows.
OnWire == IF nmt = "BasicEthernet"
            THEN CnProcessEvent(nmt, "PowerlinkFrameReceived")
            ELSE nmt

\* Mutant: off by one in the capacity test.
MutPushEmergency(q, e) == IF Len(q) <= EmcyCapacity THEN Append(q, e) ELSE q

\* Push on the emergency queue; a full queue drops the entry.
PushEmergency(q, e) == IF Len(q) < EmcyCapacity THEN Append(q, e) ELSE q

\* Mutant: the supervision switch is not reset with the fallback.
MutGiveUpCycle(n) ==
  /\ nmt' = CnProcessEvent(n, "Error")
  /\ errReg' = TRUE /\ errChanged' = TRUE
  /\ UNCHANGED socCheck

\* An error reached its threshold in NMT state n: it is signalled in the Error
\* Register, the NMT state machine gets Error and SoC supervision ends.
GiveUpCycle(n) ==
  /\ nmt' = CnProcessEvent(n, "Error")
  /\ errReg' = TRUE /\ errChanged' = TRUE
  /\ socCheck' = FALSE

\* The middle part of process_frame: DLL_CS sees event ev in NMT state n with
\* counters c.  If an error reaches its threshold the node falls back to
\* PreOp1 and the frame is not answered; otherwise a pending change of the
\* error status toggles EN and the frame is answered when Answered holds.
\* q, reg, chg, flag and check are the queue, Error Register bit, change mark,
\* EN flag and supervision switch as the handler left them before this part,
\* and rest is the queue after the answer took its entries from it.
Dispatch(n, ev, c, q, rest, reg, chg, flag, check, Answered) ==
  LET d == CsProcessEvent(dll, ev, n)
      s == Signalled(c, d.errors)
  IN /\ dll' = d.state
     /\ cnt' = HandleErrors(c, d.errors)
     /\ IF s # {}
          THEN /\ GiveUpCycle(n)
               /\ emcy' = PushEmergency(q, CHOOSE e \in s : TRUE)
               /\ en' = flag
               /\ phase' = "tick"
          ELSE /\ nmt' = n
               /\ errReg' = reg /\ errChanged' = FALSE
               /\ emcy' = rest
               /\ en' = (flag # chg)
               /\ socCheck' = check
               /\ phase' = IF Answered THEN "idle" ELSE "tick"

\* Dispatch of a frame whose handler touched nothing before DLL_CS saw it.
PlainDispatch(n, ev, Answered) ==
  Dispatch(n, ev, cnt, emcy, emcy, errReg, errChanged, en, socCheck, Answered)

\* Mutant: the arm for a missing deadline is forgotten.
MutScheduleSocCheck(deadline) ==
  IF nextTick # NoTick /\ deadline < nextTick THEN deadline ELSE nextTick

\* The tick to expect after a SoC: its supervision deadline replaces a pending
\* one only when it is earlier.
ScheduleSocCheck(deadline) ==
  IF nextTick = NoTick \/ deadline < nextTick THEN deadline ELSE nextTick

\* Start of Cycle.
ReceiveSoC ==
  LET cleared == AllErrorsCleared(cnt)
  IN /\ FrameArrives
     /\ lastSoc' = now
     /\ nextTick' = IF CycleLen > 0
                      THEN ScheduleSocCheck(now + CycleLen + SocTolerance)
                      ELSE nextTick
     /\ Dispatch(CnProcessEvent(OnWire, "SocReceived"), "Soc",
                 OnCycleComplete(cnt), emcy, emcy,
                 errReg /\ ~cleared, errChanged \/ cleared, en,
                 CycleLen > 0, FALSE)
     /\ UNCHANGED <<now, ec, nmtReqs, sdoReqs, hbSeen>>

\* Poll Request, to this node or to another one.  Only the addressed node
\* answers, and only from PreOp2 on, outside CsStopped.
ReceivePReq(toSelf) ==
  /\ FrameArrives
  /\ PlainDispatch(OnWire, "Preq", toSelf /\ OnWire \in AtLeastPreOp2)
  /\ UNCHANGED <<now, ec, nmtReqs, sdoReqs, hbSeen, lastSoc, nextTick>>

\* Poll Response of node src (cross traffic): the heartbeat of a monitored node.
ReceivePRes(src) ==
  /\ FrameArrives
  /\ hbSeen' = [n \in HbNodes |-> IF n = src THEN now ELSE hbSeen[n]]
  /\ PlainDispatch(OnWire, "Pres", FALSE)
  /\ UNCHANGED <<now, ec, nmtReqs, sdoReqs, lastSoc, nextTick>>

\* Mutant: requests are taken from the queues without asking whether there are any.
MutSoAAnswered(n, service) ==
  n \in CyclicState \cup {"PreOp1"} /\ service # "NoService"

\* Which service requests of a SoA to this node are answered in NMT state n.
SoAAnswered(n, service) ==
  /\ n \in CyclicState \cup {"PreOp1"}
  /\ \/ service \in {"IdentRequest", "StatusRequest"}
     \/ service = "NmtRequestInvite" /\ nmtReqs # <<>>
     \/ service = "UnspecifiedInvite" /\ sdoReqs > 0

\* build_status_response takes the oldest entries off the emergency queue.
DrainEmergencies(q) ==
  SubSeq(q, 1 + (IF Len(q) < MaxEntries THEN Len(q) ELSE MaxEntries), Len(q))

\* Start of Asynchronous addressed to this node: ER resets EN and drops the
\* emergency queue, EC mirrors ER; then the requested service is performed.
ReceiveSoA(service, er) ==
  LET n  == CnProcessEvent(OnWire, "SocSoAReceived")
      q  == IF er THEN <<>> ELSE emcy
      d  == CsProcessEvent(dll, "Soa", n)
      ok == Signalled(cnt, d.errors) = {} /\ SoAAnswered(n, service)
  IN /\ FrameArrives
     /\ ec' = er
     /\ Dispatch(n, "Soa", cnt, q,
                 IF ok /\ service = "StatusRequest" THEN DrainEmergencies(q) ELSE q,
                 errReg, errChanged, en /\ ~er, socCheck, ok)
     /\ nmtReqs' = IF ok /\ service = "NmtRequestInvite"
                     THEN SubSeq(nmtReqs, 1, Len(nmtReqs) - 1) ELSE nmtReqs
     /\ sdoReqs' = IF ok /\ service = "UnspecifiedInvite"
                     THEN sdoReqs - 1 ELSE sdoReqs
     /\ UNCHANGED <<now, hbSeen, lastSoc, nextTick>>

\* Start of Asynchronous addressed to another node or to all of them.
ReceiveForeignSoA ==
  /\ FrameArrives
  /\ PlainDispatch(CnProcessEvent(OnWire, "SocSoAReceived"), "Soa", FALSE)
  /\ UNCHANGED <<now, ec, nmtReqs, sdoReqs, hbSeen, lastSoc, nextTick>>

\* ASnd with an NMT state command for this node.
ReceiveNmtCommand(command) ==
  /\ FrameArrives
  /\ Dispatch(CnProcessEvent(OnWire, command), "Asnd", cnt, emcy, emcy,
              errReg /\ ~RestoresErrorRegister(command), errChanged, en,
              socCheck, FALSE)
  /\ UNCHANGED <<now, ec, nmtReqs, sdoReqs, hbSeen, lastSoc, nextTick>>

\* ASnd with NmtNetHostNameSet and 32 octets of text for this node: the host
\* name is stored and an IdentRequest queued.
ReceiveHostNameSet ==
  /\ FrameArrives /\ Len(nmtReqs) < MaxPending
  /\ nmtReqs' = Append(nmtReqs, "IdentRequest")
  /\ PlainDispatch(OnWire, "Asnd", FALSE)
  /\ UNCHANGED <<now, ec, sdoReqs, hbSeen, lastSoc, nextTick>>

\* Any other ASnd to this node that is not SDO (NmtFlushArpEntry, unknown
\* commands, a host name that is short or no text, other services).
ReceiveOtherASnd ==
  /\ FrameArrives
  /\ PlainDispatch(OnWire, "Asnd", FALSE)
  /\ UNCHANGED <<now, ec, nmtReqs, sdoReqs, hbSeen, lastSoc, nextTick>>

\* A POWERLINK frame that never reaches DLL_CS: an SDO request to this node
\* (the SDO server answers it, or fails), an ASnd to another node, or a
\* malformed frame (InvalidFormat, which no CN counter handles).
ReceiveUncounted(answered) ==
  /\ FrameArrives
  /\ nmt' = OnWire
  /\ phase' = IF answered THEN "idle" ELSE "tick"
  /\ UNCHANGED <<now, dll, cnt, errReg, errChanged, en, ec, emcy, nmtReqs,
                 sdoReqs, hbSeen, lastSoc, socCheck, nextTick>>

\* run_cycle without a POWERLINK frame.
Poll ==
  /\ phase = "idle" /\ phase' = "tick"
  /\ UNCHANGED <<now, rx, nodeVars>>

-----------------------------------------------------------------------------
(* process_tick.                                                            *)

\* The SDO server tick produced an abort: it is sent and nothing else is done.
TickSdoResponse ==
  /\ phase = "tick" /\ phase' = "idle"
  /\ UNCHANGED <<now, rx, nodeVars>>

\* Heartbeat consumers whose time is over.
TimedOut == { n \in HbNodes : /\ nmt \in AtLeastPreOp2
                              /\ hbSeen[n] # 0
                              /\ now - hbSeen[n] > HbTimeout[n] }

\* Every timed-out node adds to one counter.  The loop stops when the
\* threshold is reached.
HbCount == cnt["HeartbeatTimeout"] + Penalty * Cardinality(TimedOut)

HbFatal == TimedOut # {} /\ HbCount >= Threshold

\* Last-seen times after the check: a node never seen starts now, and so does
\* a timed-out one.
HbRestarted == [n \in HbNodes |->
                  IF nmt \in AtLeastPreOp2 /\ (hbSeen[n] = 0 \/ n \in TimedOut)
                    THEN now ELSE hbSeen[n]]

\* A heartbeat timeout reaches the threshold.
TickHeartbeatError ==
  /\ phase = "tick" /\ phase' = "idle"
  /\ HbFatal
  /\ cnt' = [cnt EXCEPT !["HeartbeatTimeout"] = 0]
  /\ hbSeen' = HbRestarted
  /\ GiveUpCycle(nmt)
  /\ UNCHANGED <<now, rx, dll, en, ec, emcy, nmtReqs, sdoReqs, lastSoc, nextTick>>

\* What a tick that gets past the heartbeat check has done so far.
HeartbeatsChecked ==
  /\ phase = "tick" /\ phase' = "idle"
  /\ ~HbFatal
  /\ hbSeen' = HbRestarted
  /\ UNCHANGED <<now, rx, en, ec, nmtReqs, sdoReqs, lastSoc>>

HbCounted == [cnt EXCEPT !["HeartbeatTimeout"] = HbCount]

DeadlinePassed == nextTick # NoTick /\ now >= nextTick

\* NotActive without a deadline: the BasicEthernet timeout starts.
TickArmBasicEthernet ==
  /\ HeartbeatsChecked
  /\ nmt = "NotActive" /\ nextTick = NoTick
  /\ nextTick' = IF BasicEthernetTimeout > 0
                   THEN now + BasicEthernetTimeout ELSE NoTick
  /\ cnt' = HbCounted
  /\ UNCHANGED <<nmt, dll, errReg, errChanged, emcy, socCheck>>

\* No deadline has passed.
TickNotDue ==
  /\ HeartbeatsChecked
  /\ ~(nmt = "NotActive" /\ nextTick = NoTick)
  /\ ~DeadlinePassed
  /\ cnt' = HbCounted
  /\ UNCHANGED <<nmt, dll, errReg, errChanged, emcy, socCheck, nextTick>>

\* The deadline passed in NotActive.
TickBasicEthernet ==
  /\ HeartbeatsChecked
  /\ nmt = "NotActive" /\ DeadlinePassed
  /\ nextTick' = NoTick
  /\ cnt' = HbCounted
  /\ IF BasicEthernetTimeout > 0
       THEN nmt' = CnProcessEvent(nmt, "Timeout") /\ socCheck' = FALSE
       ELSE UNCHANGED <<nmt, socCheck>>
  /\ UNCHANGED <<dll, errReg, errChanged, emcy>>

\* Mutant: the missed cycle is counted twice.
MutNextSocCheck ==
  lastSoc + ((now - lastSoc) \div CycleLen + 2) * CycleLen + SocTolerance

\* The next check after a SoC timeout: one tolerance after the next multiple of
\* the cycle since the last SoC.
NextSocCheck ==
  lastSoc + ((now - lastSoc) \div CycleLen + 1) * CycleLen + SocTolerance

\* The deadline passed while SoC supervision is on: DLL_CS gets SocTimeout, and
\* unless an error reaches its threshold the next check is scheduled.
TickSocTimeout ==
  LET d == CsProcessEvent(dll, "SocTimeout", nmt)
      s == Signalled(HbCounted, d.errors)
  IN /\ HeartbeatsChecked
     /\ nmt # "NotActive" /\ DeadlinePassed /\ socCheck
     /\ dll' = d.state
     /\ cnt' = HandleErrors(HbCounted, d.errors)
     /\ IF s # {}
          THEN /\ GiveUpCycle(nmt)
               /\ emcy' = PushEmergency(emcy, CHOOSE e \in s : TRUE)
               /\ nextTick' = NoTick
          ELSE /\ nextTick' = IF CycleLen > 0 THEN NextSocCheck ELSE NoTick
               /\ socCheck' = (CycleLen > 0)
               /\ UNCHANGED <<nmt, errReg, errChanged, emcy>>

\* The deadline passed and no timeout is active: it is consumed.
TickIdleDeadline ==
  /\ HeartbeatsChecked
  /\ nmt # "NotActive" /\ DeadlinePassed /\ ~socCheck
  /\ nextTick' = NoTick
  /\ cnt' = HbCounted
  /\ UNCHANGED <<nmt, dll, errReg, errChanged, emcy, socCheck>>

Tick == \/ TickSdoResponse \/ TickHeartbeatError \/ TickArmBasicEthernet
        \/ TickNotDue \/ TickBasicEthernet \/ TickSocTimeout
        \/ TickIdleDeadline

-----------------------------------------------------------------------------
(* The application's calls, and the clock.                                  *)

\* ControlledNode::queue_nmt_request.
QueueNmtRequest ==
  /\ phase = "idle" /\ Len(nmtReqs) < MaxPending
  /\ nmtReqs' = Append(nmtReqs, "Command")
  /\ UNCHANGED <<now, rx, phase, nmt, dll, cnt, errReg, errChanged, en, ec, emcy,
                 sdoReqs, hbSeen, lastSoc, socCheck, nextTick>>

\* ControlledNode::queue_sdo_request.
QueueSdoRequest ==
  /\ phase = "idle" /\ sdoReqs < MaxPending
  /\ sdoReqs' = sdoReqs + 1
  /\ UNCHANGED <<now, rx, phase, nmt, dll, cnt, errReg, errChanged, en, ec, emcy,
                 nmtReqs, hbSeen, lastSoc, socCheck, nextTick>>

\* The application confirms its configuration to the NMT state machine.
ConfirmConfiguration ==
  /\ phase = "idle"
  /\ nmt' = CnProcessEvent(nmt, "CnConfigurationComplete")
  /\ UNCHANGED <<now, rx, phase, dll, cnt, errReg, errChanged, en, ec, emcy,
                 nmtReqs, sdoReqs, hbSeen, lastSoc, socCheck, nextTick>>

\* Time passes between two calls.  The application sleeps at most until
\* next_action_time() and calls run_cycle within PollLatency of it.
Advance ==
  /\ phase = "idle" /\ now < MaxTime
  /\ nextTick # NoTick => now < nextTick + PollLatency
  /\ now' = now + 1 /\ rx' = 0
  /\ UNCHANGED <<phase, nodeVars>>

Receive ==
  \/ ReceiveSoC
  \/ \E toSelf \in BOOLEAN : ReceivePReq(toSelf)
  \/ \E src \in HbNodes \cup {"unmonitored"} : ReceivePRes(src)
  \/ \E r \in SoARequests : ReceiveSoA(r[1], r[2])
  \/ ReceiveForeignSoA
  \/ \E command \in Commands : ReceiveNmtCommand(command)
  \/ ReceiveHostNameSet
  \/ ReceiveOtherASnd
  \/ \E answered \in BOOLEAN : ReceiveUncounted(answered)

Application == QueueNmtRequest \/ QueueSdoRequest \/ ConfirmConfiguration

Next == Receive \/ Poll \/ Tick \/ Application \/ Advance

Spec == Init /\ [][Next]_vars

-----------------------------------------------------------------------------
(* Properties.                                                              *)

\* Every variable has its type.
TypeOK ==
  /\ now \in Nat /\ rx \in Nat /\ phase \in {"idle", "tick"}
  /\ nmt \in NmtState /\ dll \in DllCsState
  /\ cnt \in [CnError -> Nat]
  /\ errReg \in BOOLEAN /\ errChanged \in BOOLEAN
  /\ en \in BOOLEAN /\ ec \in BOOLEAN
  /\ emcy \in Seq(CnError) /\ nmtReqs \in Seq(NmtRequest) /\ sdoReqs \in Nat
  /\ hbSeen \in [HbNodes -> Nat]
  /\ lastSoc \in Nat /\ socCheck \in BOOLEAN
  /\ nextTick \in Nat \cup {NoTick}

\* In a cyclic NMT state the loss of the SoC is always being watched for: the
\* supervision switch is on, a deadline is pending and DLL_CS follows the
\* cycle.  The switch, the deadline and the two state machines are changed in
\* different handlers, and a deadline is consumed before it is renewed.
SupervisionArmed ==
  (CycleLen > 0 /\ nmt \in CyclicState) =>
     socCheck /\ nextTick # NoTick /\ dll # "NonCyclic"

\* A CN whose MN fell silent leaves the cyclic states: with run_cycle called
\* within PollLatency of next_action_time(), a cyclic state is never observed
\* more than two supervised cycles after the last SoC, because the second
\* consecutive SoC timeout reaches the LossOfSoc threshold.
SilenceBounded ==
  (CycleLen > 0 /\ nmt \in CyclicState) =>
     now <= lastSoc + 2 * (CycleLen + SocTolerance + PollLatency)

\* An emergency is queued only by an error that also throws the CN back to
\* PreOp1, so an entry never describes a fault the CN carried on with.
EmergencyMeansFallback ==
  [][Len(emcy') > Len(emcy) => nmt' = "PreOp1" /\ errReg' /\ errChanged']_vars

\* The emergency queue is a bounded FIFO: a step removes oldest entries or
\* adds one newest entry, and never exceeds the capacity.
EmergencyFifo ==
  [][/\ Len(emcy') <= EmcyCapacity
     /\ \/ \E k \in 0 .. Len(emcy) : emcy' = SubSeq(emcy, k + 1, Len(emcy))
        \/ Len(emcy') = Len(emcy) + 1 /\ SubSeq(emcy', 1, Len(emcy)) = emcy
        \/ emcy' \in { <<e>> : e \in CnError } /\ ec']_vars

\* The CN implements its lifecycle contract: NMT moves along the edges of the
\* CN diagram, cyclic states are supervised, and an uncommanded fall to PreOp1
\* raises the generic error bit, marks the error status as changed and
\* switches SoC supervision off.
Lifecycle == INSTANCE CnLifecycle WITH state <- nmt, supervised <- socCheck,
                                       fault <- errReg /\ errChanged
ImplementsLifecycle == Lifecycle!Spec
=============================================================================
