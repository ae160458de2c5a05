---------------------------- MODULE ManagingNode ----------------------------
(***************************************************************************)
(* The POWERLINK Managing Node (node/mn/main.rs, tick.rs, cycle.rs,        *)
(* events.rs, scheduler.rs, validation.rs, state.rs): the cycle it drives, *)
(* the table of Controlled Nodes it keeps, their boot-up, the asynchronous *)
(* scheduler and the supervision of PRes and ASnd.                         *)
(*                                                                         *)
(* As on the CN, one call of run_cycle is a frame handler followed by the  *)
(* tick of the same call; no handler of the MN returns a frame of its own. *)
(* Time is relative: timer is what is left of next_tick_us and since is    *)
(* the age of the current cycle, up to the cycle time.  Any frame may come *)
(* at any time from any node, so loss, repetition and delay are covered.   *)
(***************************************************************************)
EXTENDS MnNmt, DllMs, Integers, Sequences, FiniteSets

CONSTANTS
  MaxNodeId,        \* the largest CN address: 239
  Cns,              \* the nodes of NMT_NodeAssignment_AU32 (0x1F81)
  Mandatory,        \* those with bit 3 set
  IsochronousNodes, \* those with bit 8 clear, in ascending order
  AsyncOnlyNodes,   \* those with bit 8 set, in ascending order
  MultiplexAssign,  \* multiplexed cycle of an isochronous node, 0 for every cycle
  MuxLen,           \* multiplex_cycle_len
  PublishCycles,    \* the cycles of NMT_PublishConfig_AU32 (0x1F9E)
  StartupFlags,     \* the bits set in NMT_StartUp_U32 (0x1F80)
  HasCfm,           \* a ConfigurationInterface was given and delivers
  CycleTime,        \* NMT_CycleLen_U32 (0x1006), in time units
  PresTimeout,      \* NMT_MNCNPResTimeout_AU32 (0x1F92)
  AsyncTimeout,     \* AsyncSlotTimeout of NMT_MNCycleTiming_REC (0x1F8A)
  WaitNotActive,    \* MNWaitNotAct of NMT_BootTime_REC (0x1F89)
  Reports,          \* NMT states the CNs report
  EnFlags,          \* values of the EN flag in their PRes
  Priorities,       \* priorities of the requests the CNs make
  Senders,          \* the nodes that send frames to the MN
  IdentResults,     \* what their IdentResponses amount to
  MaxRequests,      \* bound: pending asynchronous requests of a node
  MaxCommands,      \* bound: NMT commands pending when the application adds one
  MaxBacklog,       \* bound: NMT commands pending when a frame arrives
  MaxSdo            \* bound: frames the SDO client has to send

Nodes == 1 .. MaxNodeId

ASSUME NodeAssumption ==
  /\ MaxNodeId \in Nat /\ Cns \subseteq Nodes /\ Mandatory \subseteq Cns
  /\ IsochronousNodes \in Seq(Cns) /\ AsyncOnlyNodes \in Seq(Cns)
  /\ MultiplexAssign \in [Cns -> Nat] /\ MuxLen \in Nat \ {0}
  /\ PublishCycles \subseteq Nat \ {0}

ASSUME MnTimingAssumption ==
  /\ CycleTime \in Nat /\ PresTimeout \in [Cns -> Nat]
  /\ AsyncTimeout \in Nat /\ WaitNotActive \in Nat

\* What validate_boot_step1_checks finds in an IdentResponse.
IdentResult == { "matches", "wrongIdentity", "oldSoftware", "oldConfiguration" }

ASSUME MnEnvironmentAssumption ==
  /\ Reports \subseteq NmtState /\ IdentResults \subseteq IdentResult /\ Priorities \subseteq 0 .. 7
  /\ EnFlags \subseteq BOOLEAN
  /\ Senders \subseteq Nodes /\ HasCfm \in BOOLEAN
  /\ MaxRequests \in Nat /\ MaxCommands \in Nat /\ MaxBacklog \in Nat /\ MaxSdo \in Nat

VARIABLES
  call,       \* "idle": between two calls; "tick": the call goes on to handle_tick;
              \* "hung": the call never returns
  out,        \* the frame the last call returned
  since,      \* time since current_cycle_start_time_us, at most CycleTime
  nmt,        \* nmt_state_machine.current_state
  dll,        \* dll_state_machine.state
  phase,      \* current_phase
  polled,     \* current_polled_cn, 0 for none
  idx,        \* next_isoch_node_idx
  mux,        \* current_multiplex_cycle
  cn,         \* node_info: state
  en,         \* node_info: en_flag
  ea,         \* node_info: ea_flag
  commOk,     \* node_info: communication_ok
  arp,        \* nodes with an entry in arp_cache
  loss,       \* dll_error_manager.counters.cn_loss_of_pres
  asyncReqs,  \* async_request_queue, as a bag
  statusReqs, \* pending_status_requests
  cmds,       \* pending_nmt_commands
  sendQ,      \* length of mn_async_send_queue
  sdoReqs,    \* frames the SDO client manager has to send
  lastIdent,  \* last_ident_poll_node_id
  lastStatus, \* last_status_poll_node_id
  timer,      \* what is left until next_tick_us
  event,      \* pending_timeout_event
  opDone      \* initial_operational_actions_done

\* What the helpers shared by several handlers read and write.
ctxVars  == <<nmt, cn, commOk, cmds, asyncReqs, statusReqs, timer, event>>
slotVars == <<sendQ, sdoReqs, lastIdent, lastStatus>>
vars == <<call, out, since, dll, phase, polled, idx, mux, en, ea, arp, loss,
          ctxVars, slotVars, opDone>>

CnState == { "Unknown", "Identified", "PreOperational", "Operational",
             "Stopped", "Missing" }
CyclePhase == { "Idle", "SoCSent", "IsochronousPReq", "IsochronousDone",
                "AsynchronousSoA", "AwaitingMnAsyncSend" }
Command == { "EnableReadyToOperate", "ResetNode", "StartNode", "Application" }
AsyncRequest == Nodes \X Priorities

NoTimer == -1       \* next_tick_us = None
NoNode  == 0
NoFrame == <<"none", NoNode>>
Self == MaxNodeId + 1        \* C_ADR_MN_DEF_NODE_ID
Broadcast == MaxNodeId + 2   \* C_ADR_BROADCAST_NODE_ID

-----------------------------------------------------------------------------
(* The node after ManagingNode::new.  The age of a cycle that never started *)
(* is the value of the application's clock.                                 *)

Init ==
  /\ call = "idle" /\ out = NoFrame /\ since \in 0 .. CycleTime
  /\ nmt = "NotActive" /\ dll = "NonCyclic"
  /\ phase = "Idle" /\ polled = NoNode /\ idx = 0 /\ mux = 0
  /\ cn = [n \in Cns |-> "Unknown"]
  /\ en = [n \in Cns |-> FALSE] /\ ea = [n \in Cns |-> FALSE]
  /\ commOk = [n \in Cns |-> FALSE] /\ arp = {}
  /\ loss = [n \in 0 .. MaxNodeId |-> 0]
  /\ asyncReqs = [r \in AsyncRequest |-> 0]
  /\ statusReqs = <<>> /\ cmds = <<>> /\ sendQ = 0 /\ sdoReqs = 0
  /\ lastIdent = NoNode /\ lastStatus = NoNode
  /\ timer = NoTimer /\ event = "None" /\ opDone = FALSE

\* The context as a handler finds it, and as it leaves it.
Context == [nmt |-> nmt, cn |-> cn, commOk |-> commOk, cmds |-> cmds,
            asyncReqs |-> asyncReqs, statusReqs |-> statusReqs,
            timer |-> timer, event |-> event]

Store(c) ==
  /\ nmt' = c.nmt /\ cn' = c.cn /\ commOk' = c.commOk /\ cmds' = c.cmds
  /\ asyncReqs' = c.asyncReqs /\ statusReqs' = c.statusReqs
  /\ timer' = c.timer /\ event' = c.event

-----------------------------------------------------------------------------
(* Boot-up (scheduler.rs check_bootup_state, validation.rs).                *)

\* MnNmtStateMachine::process_event with the configured start-up flags.
Nmt(s, e) == MnProcessEvent(s, e, 13 \in StartupFlags)

\* The elements of a set of node addresses, in ascending order.
Ascending(S) ==
  CHOOSE s \in [1 .. Cardinality(S) -> S] :
    \A i, j \in 1 .. Cardinality(S) : i < j => s[i] < s[j]

\* check_all_mandatory_identified, check_all_mandatory_preop and
\* check_all_mandatory_comm_verified.
AllIdentified(cns) ==
  \A n \in Mandatory : cns[n] \in {"Identified", "PreOperational", "Operational"}
AllPreOp(cns) == \A n \in Mandatory : cns[n] \in {"PreOperational", "Operational"}
AllVerified(ok) == \A n \in Mandatory : ok[n]

\* BOOT_STEP2: NMTEnableReadyToOperate for every identified CN.
EnableCommands(cns) ==
  LET s == Ascending({ n \in Cns : cns[n] = "Identified" })
  IN [i \in DOMAIN s |-> <<"EnableReadyToOperate", s[i]>>]

\* Mutant: the communication check looks at the CN states only.
MutCheckBootupState(c) ==
  CASE c.nmt = "PreOp1" /\ AllIdentified(c.cn) ->
         [c EXCEPT !.nmt = Nmt(c.nmt, "AllCnsIdentified"),
                   !.cmds = c.cmds \o EnableCommands(c.cn)]
    [] c.nmt = "PreOp2" /\ AllPreOp(c.cn) /\ 8 \notin StartupFlags ->
         [c EXCEPT !.nmt = Nmt(c.nmt, "ConfigurationCompleteCnsReady")]
    [] c.nmt = "ReadyToOp" /\ AllPreOp(c.cn) /\ 2 \notin StartupFlags ->
         [c EXCEPT !.nmt = Nmt(c.nmt, "AllMandatoryCnsOperational")]
    [] OTHER -> c

\* check_bootup_state.  Bits 8 and 2 of NMT_StartUp_U32 leave the step to the
\* application.
CheckBootupState(c) ==
  CASE c.nmt = "PreOp1" /\ AllIdentified(c.cn) ->
         [c EXCEPT !.nmt = Nmt(c.nmt, "AllCnsIdentified"),
                   !.cmds = c.cmds \o EnableCommands(c.cn)]
    [] c.nmt = "PreOp2" /\ AllPreOp(c.cn) /\ 8 \notin StartupFlags ->
         [c EXCEPT !.nmt = Nmt(c.nmt, "ConfigurationCompleteCnsReady")]
    [] c.nmt = "ReadyToOp" /\ AllVerified(c.commOk) /\ 2 \notin StartupFlags ->
         [c EXCEPT !.nmt = Nmt(c.nmt, "AllMandatoryCnsOperational")]
    [] OTHER -> c

\* The state the MN keeps for a CN in state s that reports NMT state r.
TrackedState(s, r) ==
  CASE r = "PreOp1" -> "Identified"
    [] r \in {"PreOp2", "ReadyToOp"} -> "PreOperational"
    [] r = "Operational" -> "Operational"
    [] r = "CsStopped" -> "Stopped"
    [] OTHER -> s

\* update_cn_state for a configured node n.
UpdateCnState(c, n, r) ==
  LET s  == TrackedState(c.cn[n], r)
      ok == [c.commOk EXCEPT ![n] = @ /\ s \notin {"Unknown", "Identified"}]
  IN IF s = c.cn[n] THEN c
     ELSE CheckBootupState([c EXCEPT !.cn = [c.cn EXCEPT ![n] = s], !.commOk = ok])

-----------------------------------------------------------------------------
(* The DLL state machine and its errors (events.rs handle_dll_event).       *)

\* A node of the isochronous list that is polled in multiplexed cycle m.  The
\* CN states are compared by their order, in which Missing comes last.
Pollable(i, m, cns) ==
  LET n == IsochronousNodes[i]
  IN /\ MultiplexAssign[n] \in {0, m + 1}
     /\ cns[n] \in {"PreOperational", "Operational", "Missing"}

\* The positions after the first ix ones that are still to be polled
\* (has_more_isochronous_nodes).
ToPoll(ix, m, cns) == { i \in ix + 1 .. Len(IsochronousNodes) : Pollable(i, m, cns) }

\* DLL_MS sees event e in context c, with ix nodes of multiplexed cycle m done.
DllStep(e, c, ix, m) ==
  dll' = MsProcessEvent(dll, e, c.nmt, e \in {"Pres", "Asnd"},
                        \E r \in AsyncRequest : c.asyncReqs[r] > 0,
                        ToPoll(ix, m, c.cn) # {} \/ phase = "IsochronousPReq")

\* MnErrorCounters::handle_error for LossOfPres: 8 a time, threshold 15.
LossPenalty   == 8
LossThreshold == 15

\* The lost PRes reaches the threshold of the polled node: it is marked as
\* missing and a ResetNode is queued for it.
ResetsNode(e) == /\ MsReportsLoss(dll, e, nmt)
                 /\ loss[polled] + LossPenalty >= LossThreshold

AfterLoss(c, e) ==
  IF ResetsNode(e)
    THEN [c EXCEPT !.cn = [n \in Cns |-> IF n = polled THEN "Missing" ELSE c.cn[n]],
                   !.cmds = Append(c.cmds, <<"ResetNode", polled>>)]
    ELSE c

\* Mutant: the counter is not reset when it has reached the threshold.
MutCountLoss(e) ==
  loss' = IF MsReportsLoss(dll, e, nmt) THEN [loss EXCEPT ![polled] = @ + LossPenalty]
          ELSE loss

CountLoss(e) ==
  loss' = IF MsReportsLoss(dll, e, nmt)
            THEN [loss EXCEPT ![polled] = IF ResetsNode(e) THEN 0 ELSE @ + LossPenalty]
            ELSE loss

-----------------------------------------------------------------------------
(* The cycle (cycle.rs advance_cycle_phase, scheduler.rs).                  *)

\* Mutant: the deadline is armed only when there was an earlier one to beat.
MutSchedule(left, timeout) == IF left # NoTimer /\ timeout < left THEN timeout ELSE left

\* schedule_timeout: an earlier deadline that is already pending stays.
Schedule(left, timeout) == IF left = NoTimer \/ timeout < left THEN timeout ELSE left

\* advance_cycle_phase returned frame f.  The tick hands it to the
\* application; the PRes handler drops it and the call goes on.
Return(f, toApplication) ==
  IF toApplication THEN out' = f /\ call' = "idle"
                   ELSE out' = NoFrame /\ call' = "tick"

\* SoA that invites CN n: its ASnd is waited for.
Invite(c, n, toApplication) ==
  /\ phase' = "AsynchronousSoA"
  /\ Store([c EXCEPT !.timer = Schedule(c.timer, AsyncTimeout),
                     !.event = "AsndTimeout"])
  /\ Return(<<"SoA", n>>, toApplication)

\* SoA that invites the MN itself.
InviteSelf(c, toApplication) ==
  /\ phase' = "AwaitingMnAsyncSend"
  /\ Store(c)
  /\ Return(<<"SoA", Self>>, toApplication)

\* find_next_node_to_identify: round robin over the addresses after lastIdent.
Unidentified(cns) == { n \in Cns : cns[n] \in {"Unknown", "Missing"} }
Distance(n) == (n - lastIdent - 1) % MaxNodeId
NextToIdentify(cns) ==
  CHOOSE n \in Unidentified(cns) : \A m \in Unidentified(cns) : Distance(n) <= Distance(m)

\* Its loop stops where it started, an address it never reaches when it
\* started after the last one.
SearchLoops(cns) == Unidentified(cns) = {} /\ lastIdent = MaxNodeId

\* find_next_async_only_to_poll: the next node of the list, round robin, that
\* is not missing.
AsyncOnlyStart ==
  IF \E i \in DOMAIN AsyncOnlyNodes : AsyncOnlyNodes[i] = lastStatus
    THEN CHOOSE i \in DOMAIN AsyncOnlyNodes : AsyncOnlyNodes[i] = lastStatus
    ELSE 0
AsyncOnlyAt(d) == AsyncOnlyNodes[((AsyncOnlyStart + d) % Len(AsyncOnlyNodes)) + 1]
AsyncOnlyToPoll(cns) ==
  { d \in 0 .. Len(AsyncOnlyNodes) - 1 : cns[AsyncOnlyAt(d)] # "Missing" }
NextAsyncOnly(cns) ==
  AsyncOnlyAt(CHOOSE d \in AsyncOnlyToPoll(cns) :
                \A f \in AsyncOnlyToPoll(cns) : d <= f)

\* The requests the priority queue may hand out next.
TopRequests(reqs) ==
  { r \in AsyncRequest : /\ reqs[r] > 0
                         /\ \A q \in AsyncRequest : reqs[q] > 0 => q[2] <= r[2] }

\* Mutant: the request is taken from the SDO client and not queued.
MutQueueSdoFrame == sdoReqs' = sdoReqs - 1 /\ UNCHANGED sendQ

\* The SDO client's request becomes a frame of the MN's send queue.
QueueSdoFrame == sdoReqs' = sdoReqs - 1 /\ sendQ' = sendQ + 1

\* determine_next_async_action and what advance_cycle_phase does with its
\* answer.  pending_er_requests is left out: nothing fills it.
AsyncPhase(c, toApplication) ==
  IF c.statusReqs # <<>> THEN
    /\ Invite([c EXCEPT !.statusReqs = SubSeq(@, 1, Len(@) - 1)],
              c.statusReqs[Len(c.statusReqs)], toApplication)
    /\ UNCHANGED slotVars
  ELSE IF c.cmds # <<>> \/ sendQ > 0 THEN
    InviteSelf(c, toApplication) /\ UNCHANGED slotVars
  ELSE IF sdoReqs > 0 THEN
    /\ InviteSelf(c, toApplication)
    /\ QueueSdoFrame
    /\ UNCHANGED <<lastIdent, lastStatus>>
  ELSE IF Unidentified(c.cn) # {} THEN
    /\ Invite(c, NextToIdentify(c.cn), toApplication)
    /\ lastIdent' = NextToIdentify(c.cn)
    /\ UNCHANGED <<sendQ, sdoReqs, lastStatus>>
  ELSE IF SearchLoops(c.cn) THEN
    /\ call' = "hung" /\ phase' = "IsochronousDone"
    /\ Store(c) /\ out' = NoFrame /\ UNCHANGED slotVars
  ELSE IF AsyncOnlyToPoll(c.cn) # {} THEN
    /\ Invite(c, NextAsyncOnly(c.cn), toApplication)
    /\ lastStatus' = NextAsyncOnly(c.cn)
    /\ UNCHANGED <<sendQ, sdoReqs, lastIdent>>
  ELSE IF mux \in PublishCycles THEN
    /\ InviteSelf(c, toApplication)
    /\ sendQ' = sendQ + 1
    /\ UNCHANGED <<sdoReqs, lastIdent, lastStatus>>
  ELSE IF TopRequests(c.asyncReqs) # {} THEN
    /\ \E r \in TopRequests(c.asyncReqs) :
         Invite([c EXCEPT !.asyncReqs[r] = @ - 1], r[1], toApplication)
    /\ UNCHANGED slotVars
  ELSE
    /\ phase' = "Idle" /\ Store(c)
    /\ Return(<<"SoA", NoNode>>, toApplication)
    /\ UNCHANGED slotVars

\* build_preq_frame: without a MAC address for the node it builds a SoC.
PReqFrame(n) == IF n \in arp THEN <<"PReq", n>> ELSE <<"SoC", NoNode>>

\* advance_cycle_phase in context c.
AdvanceCyclePhase(c, toApplication) ==
  LET todo == IF c.nmt \in AtLeastPreOp2 THEN ToPoll(idx, mux, c.cn) ELSE {}
  IN IF todo # {} THEN
       \E next \in todo :
         LET node == IsochronousNodes[next]
         IN /\ \A j \in todo : next <= j
            /\ polled' = node /\ idx' = next /\ phase' = "IsochronousPReq"
            /\ Store([c EXCEPT !.timer = Schedule(c.timer, PresTimeout[node]),
                               !.event = "PresTimeout"])
            /\ Return(PReqFrame(node), toApplication)
            /\ UNCHANGED slotVars
     ELSE
       /\ polled' = NoNode
       /\ idx' = IF c.nmt \in AtLeastPreOp2 THEN Len(IsochronousNodes) ELSE idx
       /\ IF mux + 1 \in PublishCycles
            THEN /\ phase' = "Idle" /\ Store(c)
                 /\ Return(<<"Publish", NoNode>>, toApplication)
                 /\ UNCHANGED slotVars
            ELSE AsyncPhase(c, toApplication)

-----------------------------------------------------------------------------
(* Frame reception: process_ethernet_frame and process_frame.               *)

\* run_cycle is called with a POWERLINK frame.
FrameArrives == call = "idle" /\ Len(cmds) <= MaxBacklog

\* A handler that returns no frame: the call goes on to the tick.
FrameHandled == FrameArrives /\ call' = "tick" /\ out' = NoFrame

NoRequest == -1      \* RS = 0 in a PRes

\* A StatusRequest is queued for a node once.
QueueStatusRequest(q, n) ==
  IF \E i \in DOMAIN q : q[i] = n THEN q ELSE Append(q, n)

\* CHECK_COMMUNICATION of node n in ReadyToOp; fits: its payload is not larger
\* than configured.
CheckCommunication(c, n, fits) ==
  IF c.nmt = "ReadyToOp" /\ ~c.commOk[n] /\ fits
    THEN CheckBootupState([c EXCEPT !.commOk[n] = TRUE])
    ELSE c

\* Mutant: a StatusRequest is queued for an EN that is set, not for one that
\* differs from EA.
MutHandlePRes(c, src, request, flag, fits) ==
  LET asked == IF request = NoRequest THEN c
               ELSE [c EXCEPT !.asyncReqs[<<src, request>>] = @ + 1]
      noted == IF ~flag THEN asked
               ELSE [asked EXCEPT !.statusReqs = QueueStatusRequest(@, src)]
  IN IF src \in Cns THEN CheckCommunication(noted, src, fits) ELSE asked

\* handle_pres_frame: asynchronous request, EN flag, communication check.
HandlePRes(c, src, request, flag, fits) ==
  LET asked == IF request = NoRequest THEN c
               ELSE [c EXCEPT !.asyncReqs[<<src, request>>] = @ + 1]
      noted == IF flag = ea[src] THEN asked
               ELSE [asked EXCEPT !.statusReqs = QueueStatusRequest(@, src)]
  IN IF src \in Cns THEN CheckCommunication(noted, src, fits) ELSE asked

\* A PRes of node src that reports NMT state r.  The PRes of the polled node
\* cancels the timeout and moves the cycle on.
ReceivePRes(src, r, request, flag, fits) ==
  LET seen     == IF src \in Cns THEN UpdateCnState(Context, src, r) ELSE Context
      expected == phase = "IsochronousPReq" /\ polled = src
  IN /\ FrameArrives
     /\ request # NoRequest => asyncReqs[<<src, request>>] < MaxRequests
     /\ DllStep("Pres", Context, idx, mux)
     /\ en' = IF src \in Cns THEN [en EXCEPT ![src] = flag] ELSE en
     /\ IF expected
          THEN AdvanceCyclePhase(
                 HandlePRes([seen EXCEPT !.event = "None"], src, request, flag, fits),
                 FALSE)
          ELSE /\ Store(HandlePRes(seen, src, request, flag, fits))
               /\ call' = "tick" /\ out' = NoFrame
               /\ UNCHANGED <<phase, polled, idx, slotVars>>
     /\ UNCHANGED <<since, mux, ea, arp, loss, opDone>>

\* Mutant: an ASnd ends the asynchronous phase but leaves its timeout pending.
MutAsndEndsSlot(c) ==
  /\ DllStep("Asnd", Context, idx, mux)
  /\ phase' = IF phase = "AsynchronousSoA" THEN "Idle" ELSE phase
  /\ Store(c)

\* What every ASnd that is not SDO does to the cycle: the first one after an
\* invitation ends the asynchronous phase.
AsndEndsSlot(c) ==
  /\ DllStep("Asnd", Context, idx, mux)
  /\ phase' = IF phase = "AsynchronousSoA" THEN "Idle" ELSE phase
  /\ Store(IF phase = "AsynchronousSoA" THEN [c EXCEPT !.event = "None"] ELSE c)

PassesBootStep1(result) ==
  \/ result = "matches"
  \/ result = "oldSoftware" /\ 10 \notin StartupFlags
  \/ result = "oldConfiguration" /\ 11 \notin StartupFlags

\* Only a failed configuration check starts a download, through the SDO client.
StartsDownload(result) ==
  result = "oldConfiguration" /\ 11 \in StartupFlags /\ HasCfm

\* IdentResponse of node src.  It counts for a configured node that is not
\* identified yet.
ReceiveIdentResponse(src, result) ==
  LET counts == src \in Cns /\ src \in Unidentified(cn)
      passes == counts /\ PassesBootStep1(result)
      loads  == counts /\ StartsDownload(result)
  IN /\ FrameHandled
     /\ loads => sdoReqs < MaxSdo
     /\ AsndEndsSlot(IF passes
                       THEN CheckBootupState([Context EXCEPT !.cn[src] = "Identified"])
                       ELSE Context)
     /\ arp' = IF passes THEN arp \cup {src} ELSE arp
     /\ sdoReqs' = IF loads THEN sdoReqs + 1 ELSE sdoReqs
     /\ UNCHANGED <<since, polled, idx, mux, en, ea, loss, sendQ, lastIdent,
                    lastStatus, opDone>>

\* StatusResponse of node src that reports NMT state r: EA follows EN.
ReceiveStatusResponse(src, r) ==
  /\ FrameHandled
  /\ AsndEndsSlot(IF src \in Cns THEN UpdateCnState(Context, src, r) ELSE Context)
  /\ ea' = IF src \in Cns THEN [ea EXCEPT ![src] = en[src]] ELSE ea
  /\ UNCHANGED <<since, polled, idx, mux, en, arp, loss, slotVars, opDone>>

\* A StatusResponse that does not decode (FrameLink: one without error entries
\* never does) moves EA all the same.
ReceiveBadStatusResponse(src) ==
  /\ FrameHandled
  /\ AsndEndsSlot(Context)
  /\ ea' = IF src \in Cns THEN [ea EXCEPT ![src] = en[src]] ELSE ea
  /\ UNCHANGED <<since, polled, idx, mux, en, arp, loss, slotVars, opDone>>

\* Any other ASnd that is not SDO, and an IdentResponse that does not decode.
ReceiveOtherASnd ==
  /\ FrameHandled
  /\ AsndEndsSlot(Context)
  /\ UNCHANGED <<since, polled, idx, mux, en, ea, arp, loss, slotVars, opDone>>

\* SDO response to the MN: the client manager may have more to send.  The
\* cycle is not told.
ReceiveSdo(more) ==
  /\ FrameHandled
  /\ sdoReqs + more <= MaxSdo
  /\ sdoReqs' = sdoReqs + more
  /\ UNCHANGED <<since, dll, phase, polled, idx, mux, en, ea, arp, loss,
                 ctxVars, sendQ, lastIdent, lastStatus, opDone>>

\* run_cycle without a frame, or with one the MN ignores (malformed, SoC, PReq,
\* SoA).
Poll ==
  /\ call = "idle" /\ call' = "tick" /\ out' = NoFrame
  /\ UNCHANGED <<since, dll, phase, polled, idx, mux, en, ea, arp, loss, ctxVars,
                 slotVars, opDone>>

Receive ==
  \/ \E src \in Senders, r \in Reports, request \in Priorities \cup {NoRequest},
        flag \in EnFlags, fits \in BOOLEAN : ReceivePRes(src, r, request, flag, fits)
  \/ \E src \in Senders, result \in IdentResults : ReceiveIdentResponse(src, result)
  \/ \E src \in Senders, r \in Reports : ReceiveStatusResponse(src, r)
  \/ \E src \in Senders : ReceiveBadStatusResponse(src)
  \/ ReceiveOtherASnd
  \/ \E more \in {0, 1} : ReceiveSdo(more)

-----------------------------------------------------------------------------
(* tick.rs handle_tick and cycle.rs tick.                                   *)

CycleDue == since >= CycleTime /\ nmt \in AtLeastPreOp1 /\ phase = "Idle"

\* start_cycle: SoC.
TickStartCycle ==
  LET m == (mux + 1) % MuxLen
  IN /\ call = "tick" /\ call' = "idle"
     /\ CycleDue
     /\ since' = 0 /\ mux' = m /\ idx' = 0
     /\ DllStep("SocTrig", Context, 0, m)
     /\ phase' = "SoCSent" /\ out' = <<"SoC", NoNode>>
     /\ UNCHANGED <<polled, en, ea, arp, loss, ctxVars, slotVars, opDone>>

\* The SDO client has a retransmission or an abort to send now.  Its ASnd
\* cannot be built (SdoFrames: serialize_sdo_asnd_payload), the error is logged
\* and the tick goes on without it.
TickSdo ==
  /\ call = "tick"
  /\ ~CycleDue /\ sdoReqs > 0
  /\ sdoReqs' = sdoReqs - 1
  /\ UNCHANGED <<call, out, since, dll, phase, polled, idx, mux, en, ea, arp, loss, ctxVars,
                 sendQ, lastIdent, lastStatus, opDone>>

DeadlinePassed == timer = 0

\* The tick gets as far as the deadline of next_tick_us and consumes it.
TickTime == call = "tick" /\ ~CycleDue
Consumed == [Context EXCEPT !.timer = IF DeadlinePassed THEN NoTimer ELSE timer]

\* The WaitNotActive timeout: the MN takes its role.
TickNotActive ==
  /\ TickTime /\ call' = "idle"
  /\ DeadlinePassed /\ nmt = "NotActive"
  /\ Store([Consumed EXCEPT !.nmt = Nmt(nmt, "Timeout")])
  /\ out' = NoFrame
  /\ UNCHANGED <<since, dll, phase, polled, idx, mux, en, ea, arp, loss, slotVars,
                 opDone>>

\* The PRes or ASnd that is waited for did not come.
TickTimeout ==
  /\ TickTime
  /\ DeadlinePassed /\ nmt # "NotActive" /\ event # "None"
  /\ DllStep(event, Context, idx, mux)
  /\ CountLoss(event)
  /\ AdvanceCyclePhase(AfterLoss([Consumed EXCEPT !.event = "None"], event), TRUE)
  /\ UNCHANGED <<since, mux, en, ea, arp, opDone>>

\* The tick did not return at the deadline.
TickGoesOn ==
  TickTime /\ ~(DeadlinePassed /\ (nmt = "NotActive" \/ event # "None"))

\* Reduced cycle: SoA right after the SoC.
ReducedSoA == nmt = "PreOp1" /\ phase = "SoCSent"

TickReducedSoA ==
  /\ TickGoesOn /\ ReducedSoA
  /\ AdvanceCyclePhase(Consumed, TRUE)
  /\ UNCHANGED <<since, dll, mux, en, ea, arp, loss, opDone>>

\* Nothing to do in Idle.
RestsInIdle ==
  /\ ~DeadlinePassed /\ phase = "Idle"
  /\ ~(nmt = "NotActive" /\ timer = NoTimer)

TickRests ==
  /\ TickGoesOn /\ RestsInIdle
  /\ call' = "idle" /\ out' = NoFrame
  /\ UNCHANGED <<since, dll, phase, polled, idx, mux, en, ea, arp, loss, ctxVars,
                 slotVars, opDone>>

CycleTick == TickGoesOn /\ ~ReducedSoA /\ ~RestsInIdle

\* First tick in Operational: NMTStartNode is sent to all nodes (bit 1 of
\* NMT_StartUp_U32), or queued for the first mandatory one.
StartsOperation == nmt = "Operational" /\ ~opDone
BroadcastsStart == StartsOperation /\ 1 \in StartupFlags
StartNodeQueued ==
  IF StartsOperation /\ Mandatory # {}
    THEN [Consumed EXCEPT
            !.cmds = Append(@, <<"StartNode",
                                 CHOOSE n \in Mandatory : \A m \in Mandatory : n <= m>>)]
    ELSE Consumed

TickBroadcastStart ==
  /\ CycleTick /\ BroadcastsStart
  /\ call' = "idle" /\ out' = <<"ASnd", Broadcast>>
  /\ Store(Consumed) /\ opDone' = TRUE
  /\ UNCHANGED <<since, dll, phase, polled, idx, mux, en, ea, arp, loss, slotVars>>

\* What the rest of cycle::tick starts with.
CycleTickProper ==
  /\ CycleTick /\ ~BroadcastsStart
  /\ opDone' = (nmt = "Operational")
  /\ UNCHANGED <<since, dll, mux, en, ea, arp, loss>>

\* The MN uses the slot it granted itself: the newest NMT command, else a
\* queued frame.  In between an SDO request is taken from the client, and lost:
\* its ASnd cannot be built.
TickSend ==
  LET c == StartNodeQueued
  IN /\ CycleTickProper /\ phase = "AwaitingMnAsyncSend"
     /\ phase' = "Idle" /\ call' = "idle"
     /\ IF c.cmds # <<>> THEN
          /\ Store([c EXCEPT !.cmds = SubSeq(@, 1, Len(@) - 1)])
          /\ out' = <<"ASnd", c.cmds[Len(c.cmds)][2]>>
          /\ UNCHANGED <<sdoReqs, sendQ>>
        ELSE
          /\ Store(c)
          /\ sdoReqs' = IF sdoReqs > 0 THEN sdoReqs - 1 ELSE 0
          /\ sendQ' = IF sendQ > 0 THEN sendQ - 1 ELSE 0
          /\ out' = IF sendQ > 0 THEN <<"ASnd", Broadcast>> ELSE NoFrame
     /\ UNCHANGED <<polled, idx, lastIdent, lastStatus>>

\* PReq or SoA right after the SoC.
TickAfterSoC ==
  /\ CycleTickProper /\ phase = "SoCSent"
  /\ AdvanceCyclePhase(StartNodeQueued, TRUE)

\* Any other phase: in NotActive without a deadline the WaitNotActive timeout
\* starts.
TickWaits ==
  /\ CycleTickProper /\ phase \notin {"AwaitingMnAsyncSend", "SoCSent"}
  /\ call' = "idle" /\ out' = NoFrame
  /\ Store(IF nmt = "NotActive" /\ timer = NoTimer
             THEN [StartNodeQueued EXCEPT !.timer = WaitNotActive]
             ELSE StartNodeQueued)
  /\ UNCHANGED <<phase, polled, idx, slotVars>>

Tick == \/ TickStartCycle \/ TickSdo \/ TickNotActive \/ TickTimeout
        \/ TickReducedSoA \/ TickRests \/ TickBroadcastStart \/ TickSend
        \/ TickAfterSoC \/ TickWaits

-----------------------------------------------------------------------------
(* The application and the clock.                                           *)

\* queue_nmt_state_command, set_hostname, flush_arp_entry.
QueueNmtCommand(target) ==
  /\ call = "idle" /\ Len(cmds) < MaxCommands
  /\ cmds' = Append(cmds, <<"Application", target>>)
  /\ UNCHANGED <<call, out, since, dll, phase, polled, idx, mux, en, ea, arp, loss,
                 nmt, cn, commOk, asyncReqs, statusReqs, timer, event, slotVars,
                 opDone>>

\* read_object, write_object.
QueueSdoRequest ==
  /\ call = "idle" /\ sdoReqs < MaxSdo
  /\ sdoReqs' = sdoReqs + 1
  /\ UNCHANGED <<call, out, since, dll, phase, polled, idx, mux, en, ea, arp, loss,
                 ctxVars, sendQ, lastIdent, lastStatus, opDone>>

\* The boot steps that bits 8 and 2 of NMT_StartUp_U32 leave to the application.
TriggerBootStep ==
  /\ call = "idle"
  /\ \/ 8 \in StartupFlags /\ nmt' = Nmt(nmt, "ConfigurationCompleteCnsReady")
     \/ 2 \in StartupFlags /\ nmt' = Nmt(nmt, "AllMandatoryCnsOperational")
  /\ UNCHANGED <<call, out, since, dll, phase, polled, idx, mux, en, ea, arp, loss,
                 cn, commOk, cmds, asyncReqs, statusReqs, timer, event, slotVars,
                 opDone>>

Application ==
  \/ \E target \in Cns : QueueNmtCommand(target)
  \/ QueueSdoRequest
  \/ TriggerBootStep

\* Time passes between two calls; the application may be late.
Elapse ==
  /\ call = "idle"
  /\ since' = IF since < CycleTime THEN since + 1 ELSE since
  /\ timer' = IF timer > 0 THEN timer - 1 ELSE timer
  /\ UNCHANGED <<call, out, dll, phase, polled, idx, mux, en, ea, arp, loss, nmt,
                 cn, commOk, cmds, asyncReqs, statusReqs, event, slotVars, opDone>>

Next == Receive \/ Poll \/ Tick \/ Application \/ Elapse

Spec == Init /\ [][Next]_vars

\* The application keeps calling run_cycle, a call that was made ends unless it
\* hangs, and time passes.
FairSpec == Spec /\ WF_vars(Poll) /\ WF_vars(Tick) /\ SF_vars(Elapse)

-----------------------------------------------------------------------------
(* Properties.                                                              *)

\* Every variable has its type.
TypeOK ==
  /\ call \in {"idle", "tick", "hung"} /\ since \in 0 .. CycleTime
  /\ out \in {"none", "SoC", "PReq", "SoA", "ASnd", "Publish"} \X (0 .. Broadcast)
  /\ nmt \in MnState /\ dll \in DllMsState /\ phase \in CyclePhase
  /\ polled \in Cns \cup {NoNode} /\ idx \in 0 .. Len(IsochronousNodes)
  /\ mux \in 0 .. MuxLen - 1
  /\ cn \in [Cns -> CnState] /\ commOk \in [Cns -> BOOLEAN]
  /\ en \in [Cns -> BOOLEAN] /\ ea \in [Cns -> BOOLEAN] /\ arp \subseteq Cns
  /\ loss \in [0 .. MaxNodeId -> 0 .. LossThreshold - 1]
  /\ asyncReqs \in [AsyncRequest -> Nat]
  /\ statusReqs \in Seq(Cns) /\ cmds \in Seq(Command \X Nodes)
  /\ sendQ \in Nat /\ sdoReqs \in Nat
  /\ lastIdent \in Cns \cup {NoNode} /\ lastStatus \in Cns \cup {NoNode}
  /\ timer \in Nat \cup {NoTimer} /\ event \in {"None", "PresTimeout", "AsndTimeout"}
  /\ opDone \in BOOLEAN

\* The MN never waits for an answer without a timeout, and never times out what
\* it does not wait for: while a PRes (an ASnd) is awaited, its own timeout
\* event is pending with a deadline no later than the configured time, and in
\* every other phase no timeout event is pending.  Event, deadline and phase are
\* set and cleared in different handlers.
WaitArmed ==
  CASE phase = "IsochronousPReq" ->
         /\ event = "PresTimeout" /\ polled \in Cns
         /\ timer \in 0 .. PresTimeout[polled]
    [] phase = "AsynchronousSoA" ->
         event = "AsndTimeout" /\ timer \in 0 .. AsyncTimeout
    [] OTHER -> event = "None"

\* The MN invites itself only when it has something to send, and it still has
\* when it gets to use the slot in a later call ("invited ourselves but had
\* nothing to send" never happens).
SelfGrantUsed ==
  phase = "AwaitingMnAsyncSend" => cmds # <<>> \/ sendQ > 0

\* A CN whose EN flag differs from the EA it is sent is never forgotten: from
\* the PRes that brings the difference on, through further changes of EN, other
\* nodes' requests, timeouts and StatusResponses that were not asked for, a
\* StatusRequest stays pending until EA follows EN or the MN turns to that very
\* node and waits for its answer.
Pursued(n) == en[n] = ea[n] \/ \E i \in DOMAIN statusReqs : statusReqs[i] = n
TurnsTo(n) == phase = "AsynchronousSoA" /\ event = "AsndTimeout" /\ out \in {<<"SoA", n>>, NoFrame}
ErrorPursued ==
  [][\A n \in Cns : Pursued(n) => Pursued(n)' \/ TurnsTo(n)']_vars

\* The MN implements its boot-up contract: it takes the boot steps in order and
\* never gets ahead of its mandatory CNs.
Boot == INSTANCE MnBoot WITH state <- nmt,
                             heard <- { n \in Cns : cn[n] # "Unknown" },
                             verified <- { n \in Cns : commOk[n] },
                             appStarts <- 2 \in StartupFlags
ImplementsBoot == Boot!Spec

\* A CN that does not answer its PReq never blocks the isochronous phase: the
\* wait for it ends by the PRes or by the timeout.
PollEnds == \A n \in Cns : phase = "IsochronousPReq" /\ polled = n ~>
                             ~(phase = "IsochronousPReq" /\ polled = n)

\* If from some time on no invited CN lets its asynchronous slot time out, cycles
\* keep coming, whatever else arrives or is lost: no order of answers, PRes
\* timeouts and requests leaves the MN in a phase it cannot leave.
CyclesContinue ==
  (<>[]~(event = "AsndTimeout" /\ timer = 0)) => []<>(phase = "SoCSent")
=============================================================================
