------------------------- MODULE ManagingNodeProofs -------------------------
(***************************************************************************)
(* Theorems about ManagingNode, for every value of its constants: waits    *)
(* are armed, the MN implements MnBoot, every variable keeps its type, a   *)
(* slot the MN grants itself is used and a CN's error is never forgotten.  *)
(***************************************************************************)
EXTENDS ManagingNode, SequenceTheorems, FiniteSetTheorems, Induction, TLAPS

-----------------------------------------------------------------------------
(* Contexts and what the helpers do to them.                                *)

Distinct(q) == \A i, j \in DOMAIN q : q[i] = q[j] => i = j

\* A CN that is in the table of CN states and not Unknown was heard.
AllHeard(cns) == \A n \in Mandatory : cns[n] # "Unknown"

\* A record with the fields of a context.
IsRecord(c) ==
  c \in [nmt : {c.nmt}, cn : {c.cn}, commOk : {c.commOk}, cmds : {c.cmds},
         asyncReqs : {c.asyncReqs}, statusReqs : {c.statusReqs},
         timer : {c.timer}, event : {c.event}]

\* A well-formed context: its fields have their types, no CN has two pending
\* StatusRequests, and an MN that polls has heard every mandatory CN.
IsContext(c) ==
  /\ IsRecord(c)
  /\ c.nmt \in MnState
  /\ c.cn \in [Cns -> CnState] /\ c.commOk \in [Cns -> BOOLEAN]
  /\ c.statusReqs \in Seq(Cns) /\ Distinct(c.statusReqs)
  /\ c.timer \in Nat \cup {NoTimer}
  /\ c.nmt \in AtLeastPreOp2 => AllHeard(c.cn)

\* d waits for what c waits for.
SameWait(c, d) == d.timer = c.timer /\ d.event = c.event

\* No CN is forgotten from c to d.
KeepsHeard(c, d) == \A n \in Cns : c.cn[n] # "Unknown" => d.cn[n] # "Unknown"

\* No CN is verified from c to d.
VerifiesNone(c, d) == \A n \in Cns : d.commOk[n] => c.commOk[n]

\* The step of check_bootup_state from c to d, if any.
BootMove(c, d) ==
  \/ d.nmt = c.nmt
  \/ c.nmt = "PreOp1" /\ d.nmt = "PreOp2"
  \/ c.nmt = "PreOp2" /\ d.nmt = "ReadyToOp"
  \/ c.nmt = "ReadyToOp" /\ d.nmt = "Operational" /\ AllVerified(d.commOk)

\* Everything a handler may do to the boot-up.
BootStep(c, d) ==
  /\ KeepsHeard(c, d)
  /\ \/ VerifiesNone(c, d) /\ BootMove(c, d)
     \/ c.nmt \in {"PreOp2", "ReadyToOp"} /\ d.nmt = "ReadyToOp"
     \/ c.nmt \in {"PreOp2", "ReadyToOp"} /\ d.nmt = "Operational" /\ AllVerified(d.commOk)
     \/ VerifiesNone(c, d) /\ c.nmt = "NotActive" /\ d.nmt \in {"PreOp1", "BasicEthernet"}
     \/ VerifiesNone(c, d) /\ 2 \in StartupFlags /\ c.nmt = "ReadyToOp" /\ d.nmt = "Operational"

\* check_bootup_state touches the NMT state and the commands only, and takes one
\* boot step.
LEMMA CheckLemma ==
  ASSUME NEW c, IsContext(c)
  PROVE  LET d == CheckBootupState(c)
         IN  /\ IsContext(d) /\ SameWait(c, d)
             /\ d.cn = c.cn /\ d.commOk = c.commOk
             /\ BootMove(c, d)
<1>1. CASE c.nmt = "PreOp1" /\ AllIdentified(c.cn)
  <2>1. Nmt(c.nmt, "AllCnsIdentified") = "PreOp2"
    BY <1>1 DEF Nmt, MnProcessEvent, ResetEvent
  <2>2. CheckBootupState(c) = [c EXCEPT !.nmt = "PreOp2",
                                        !.cmds = c.cmds \o EnableCommands(c.cn)]
    BY <1>1, <2>1 DEF CheckBootupState
  <2>3. AllHeard(c.cn)
    BY <1>1 DEF AllIdentified, AllHeard
  <2> QED BY <1>1, <2>2, <2>3 DEF IsContext, IsRecord, SameWait, BootMove, MnState, NmtState
<1>2. CASE c.nmt = "PreOp2" /\ AllPreOp(c.cn) /\ 8 \notin StartupFlags
  <2>1. Nmt(c.nmt, "ConfigurationCompleteCnsReady") = "ReadyToOp"
    BY <1>2 DEF Nmt, MnProcessEvent, ResetEvent
  <2>2. CheckBootupState(c) = [c EXCEPT !.nmt = "ReadyToOp"]
    BY <1>2, <2>1 DEF CheckBootupState
  <2> QED BY <1>2, <2>2 DEF IsContext, IsRecord, SameWait, BootMove, MnState, NmtState, AtLeastPreOp2
<1>3. CASE c.nmt = "ReadyToOp" /\ AllVerified(c.commOk) /\ 2 \notin StartupFlags
  <2>1. Nmt(c.nmt, "AllMandatoryCnsOperational") = "Operational"
    BY <1>3 DEF Nmt, MnProcessEvent, ResetEvent
  <2>2. CheckBootupState(c) = [c EXCEPT !.nmt = "Operational"]
    BY <1>3, <2>1 DEF CheckBootupState
  <2> QED BY <1>3, <2>2 DEF IsContext, IsRecord, SameWait, BootMove, MnState, NmtState, AtLeastPreOp2
<1>4. CASE CheckBootupState(c) = c
  BY <1>4 DEF SameWait, BootMove
<1> QED BY <1>1, <1>2, <1>3, <1>4 DEF CheckBootupState

\* update_cn_state: the reporting CN is heard, no CN is verified.
LEMMA UpdateLemma ==
  ASSUME NEW c, IsContext(c), NEW n \in Cns, NEW r
  PROVE  LET d == UpdateCnState(c, n, r)
         IN  /\ IsContext(d) /\ SameWait(c, d) /\ KeepsHeard(c, d)
             /\ VerifiesNone(c, d) /\ BootMove(c, d)
<1> DEFINE s  == TrackedState(c.cn[n], r)
           ok == [c.commOk EXCEPT ![n] = @ /\ s \notin {"Unknown", "Identified"}]
           e  == [c EXCEPT !.cn = [c.cn EXCEPT ![n] = s], !.commOk = ok]
<1>1. CASE s = c.cn[n]
  BY <1>1 DEF UpdateCnState, SameWait, KeepsHeard, VerifiesNone, BootMove
<1>2. CASE s # c.cn[n]
  <2>1. s \in CnState \ {"Unknown"}
    BY <1>2 DEF TrackedState, CnState
  <2>3. ok \in [Cns -> BOOLEAN] /\ \A m \in Cns : ok[m] => c.commOk[m]
    BY DEF IsContext
  <2>5. UpdateCnState(c, n, r) = CheckBootupState(e)
    BY <1>2 DEF UpdateCnState
  <2> HIDE DEF ok
  <2>2. /\ IsRecord(e) /\ e.nmt = c.nmt /\ e.statusReqs = c.statusReqs
        /\ e.timer = c.timer /\ e.event = c.event
        /\ e.cn = [c.cn EXCEPT ![n] = s] /\ e.commOk = ok
    BY DEF IsContext, IsRecord
  <2>4. IsContext(e) /\ SameWait(c, e) /\ KeepsHeard(c, e) /\ VerifiesNone(c, e)
    <3>1. e.cn \in [Cns -> CnState] /\ KeepsHeard(c, e)
      BY <2>1, <2>2 DEF IsContext, KeepsHeard
    <3>2. e.commOk \in [Cns -> BOOLEAN] /\ VerifiesNone(c, e)
      BY <2>2, <2>3 DEF VerifiesNone
    <3>3. AllHeard(c.cn) => AllHeard(e.cn)
      BY <2>1, <2>2, NodeAssumption DEF AllHeard, IsContext
    <3> QED BY <2>2, <3>1, <3>2, <3>3 DEF IsContext, SameWait
  <2>6. e.nmt = c.nmt
    BY <2>2
  <2> HIDE DEF e, s
  <2> QED BY <2>4, <2>5, <2>6, CheckLemma DEF SameWait, KeepsHeard, VerifiesNone, BootMove
<1> QED BY <1>1, <1>2

\* A StatusRequest is added for a node that has none.
LEMMA QueueLemma ==
  ASSUME NEW q \in Seq(Cns), Distinct(q), NEW n \in Cns
  PROVE  QueueStatusRequest(q, n) \in Seq(Cns) /\ Distinct(QueueStatusRequest(q, n))
<1>1. CASE \E i \in DOMAIN q : q[i] = n
  BY <1>1 DEF QueueStatusRequest
<1>2. CASE ~\E i \in DOMAIN q : q[i] = n
  <2>1. QueueStatusRequest(q, n) = Append(q, n)
    BY <1>2 DEF QueueStatusRequest
  <2>2. /\ Append(q, n) \in Seq(Cns) /\ DOMAIN Append(q, n) = 1 .. Len(q) + 1
        /\ DOMAIN q = 1 .. Len(q) /\ Len(q) \in Nat
        /\ \A i \in 1 .. Len(q) : Append(q, n)[i] = q[i]
        /\ Append(q, n)[Len(q) + 1] = n
    OBVIOUS
  <2>3. \A i, j \in 1 .. Len(q) + 1 : Append(q, n)[i] = Append(q, n)[j] => i = j
    <3> SUFFICES ASSUME NEW i \in 1 .. Len(q) + 1, NEW j \in 1 .. Len(q) + 1,
                        Append(q, n)[i] = Append(q, n)[j]
                 PROVE  i = j
      OBVIOUS
    <3>1. i \in 1 .. Len(q) \/ i = Len(q) + 1
      BY <2>2
    <3>2. j \in 1 .. Len(q) \/ j = Len(q) + 1
      BY <2>2
    <3> QED BY <1>2, <2>2, <3>1, <3>2 DEF Distinct
  <2> QED BY <2>1, <2>2, <2>3 DEF Distinct
<1> QED BY <1>1, <1>2

\* Taking the newest StatusRequest.
LEMMA FrontLemma ==
  ASSUME NEW q \in Seq(Cns), Distinct(q), q # <<>>
  PROVE  SubSeq(q, 1, Len(q) - 1) \in Seq(Cns) /\ Distinct(SubSeq(q, 1, Len(q) - 1))
<1> DEFINE f == SubSeq(q, 1, Len(q) - 1)
<1>1. Len(q) \in Nat \ {0} /\ DOMAIN q = 1 .. Len(q) /\ \A i \in 1 .. Len(q) : q[i] \in Cns
  OBVIOUS
<1>2. /\ f \in Seq(Cns) /\ Len(f) = IF 1 <= Len(q) - 1 THEN Len(q) - 1 ELSE 0
      /\ \A i \in 1 .. Len(q) - 1 : f[i] = q[i]
  BY <1>1, SubSeqProperties
<1>3. DOMAIN f = 1 .. Len(f) /\ Len(f) = Len(q) - 1
  BY <1>1, <1>2
<1> HIDE DEF f
<1>4. Distinct(f)
  <2> SUFFICES ASSUME NEW i \in 1 .. Len(q) - 1, NEW j \in 1 .. Len(q) - 1, f[i] = f[j]
               PROVE  i = j
    BY <1>3 DEF Distinct
  <2>1. i \in DOMAIN q /\ j \in DOMAIN q
    BY <1>1
  <2>2. f[i] = q[i] /\ f[j] = q[j]
    BY <1>2, Zenon
  <2> QED BY <2>1, <2>2 DEF Distinct
<1> QED BY <1>2, <1>4 DEF f

\* What handle_pres_frame may do to the boot-up.
PresMove(c, d) ==
  /\ d.cn = c.cn
  /\ \/ d.nmt = c.nmt /\ d.commOk = c.commOk
     \/ c.nmt = "ReadyToOp" /\ d.nmt = "ReadyToOp"
     \/ c.nmt = "ReadyToOp" /\ d.nmt = "Operational" /\ AllVerified(d.commOk)

\* handle_pres_frame changes no CN state and no deadline; it verifies a CN in
\* ReadyToOp only.
LEMMA PresLemma ==
  ASSUME NEW c, IsContext(c), NEW src, NEW request, NEW flag, NEW fits
  PROVE  LET d == HandlePRes(c, src, request, flag, fits)
         IN  IsContext(d) /\ SameWait(c, d) /\ PresMove(c, d)
<1> DEFINE asked == IF request = NoRequest THEN c
                    ELSE [c EXCEPT !.asyncReqs[<<src, request>>] = @ + 1]
           noted == IF flag = ea[src] THEN asked
                    ELSE [asked EXCEPT !.statusReqs = QueueStatusRequest(@, src)]
<1>1. IsContext(asked) /\ SameWait(c, asked) /\ PresMove(c, asked)
  BY DEF IsContext, IsRecord, SameWait, PresMove
<1>2. CASE src \notin Cns
  BY <1>1, <1>2 DEF HandlePRes
<1>3. CASE src \in Cns
  <2> HIDE DEF asked
  <2>1. IsContext(noted) /\ SameWait(c, noted) /\ PresMove(c, noted)
    <3>1. /\ QueueStatusRequest(asked.statusReqs, src) \in Seq(Cns)
          /\ Distinct(QueueStatusRequest(asked.statusReqs, src))
      BY <1>1, <1>3, QueueLemma DEF IsContext
    <3> QED BY <1>1, <3>1 DEF IsContext, IsRecord, SameWait, PresMove
  <2>2. HandlePRes(c, src, request, flag, fits) = CheckCommunication(noted, src, fits)
    BY <1>3 DEF HandlePRes, asked
  <2>3. noted.nmt = c.nmt /\ noted.cn = c.cn /\ noted.commOk = c.commOk
    BY <1>1 DEF IsContext, IsRecord, asked
  <2> HIDE DEF noted
  <2>4. CASE c.nmt = "ReadyToOp" /\ ~noted.commOk[src] /\ fits
    <3> DEFINE e == [noted EXCEPT !.commOk[src] = TRUE]
    <3>1. /\ IsContext(e) /\ SameWait(noted, e) /\ e.cn = c.cn /\ e.nmt = "ReadyToOp"
      BY <2>1, <2>3, <2>4 DEF IsContext, IsRecord, SameWait
    <3>2. CheckCommunication(noted, src, fits) = CheckBootupState(e)
      BY <2>3, <2>4 DEF CheckCommunication
    <3> HIDE DEF e
    <3> DEFINE d == CheckBootupState(e)
    <3>3. /\ IsContext(d) /\ SameWait(e, d) /\ d.cn = e.cn /\ BootMove(e, d)
      BY <3>1, CheckLemma
    <3>4. HandlePRes(c, src, request, flag, fits) = d
      BY <2>2, <3>2
    <3> HIDE DEF d
    <3>5. SameWait(c, d) /\ PresMove(c, d)
      BY <2>1, <2>4, <3>1, <3>3 DEF SameWait, PresMove, BootMove
    <3> QED BY <3>3, <3>4, <3>5
  <2>5. CASE ~(c.nmt = "ReadyToOp" /\ ~noted.commOk[src] /\ fits)
    BY <2>1, <2>2, <2>3, <2>5 DEF CheckCommunication
  <2> QED BY <2>4, <2>5
<1> QED BY <1>2, <1>3

-----------------------------------------------------------------------------
(* Deadlines.                                                               *)

\* schedule_timeout arms a deadline that is never later than the timeout.
LEMMA ScheduleLemma ==
  ASSUME NEW left \in Nat \cup {NoTimer}, NEW timeout \in Nat
  PROVE  Schedule(left, timeout) \in 0 .. timeout
BY DEF Schedule, NoTimer

\* What the cycle leaves behind when it goes on from context c.
Advanced(c) ==
  /\ nmt' = c.nmt /\ cn' = c.cn /\ commOk' = c.commOk
  /\ statusReqs' \in Seq(Cns) /\ Distinct(statusReqs')
  /\ timer' \in Nat \cup {NoTimer}
  /\ WaitArmed'

\* An invitation arms the timeout of the ASnd.
LEMMA InviteLemma ==
  ASSUME NEW c, IsContext(c), NEW n, NEW b, Invite(c, n, b)
  PROVE  Advanced(c)
<1>1. Schedule(c.timer, AsyncTimeout) \in 0 .. AsyncTimeout
  BY ScheduleLemma, MnTimingAssumption DEF IsContext
<1>2. /\ nmt' = c.nmt /\ cn' = c.cn /\ commOk' = c.commOk /\ statusReqs' = c.statusReqs
      /\ timer' = Schedule(c.timer, AsyncTimeout) /\ event' = "AsndTimeout"
      /\ phase' = "AsynchronousSoA"
  BY DEF Invite, Store, IsContext, IsRecord
<1> QED BY <1>1, <1>2, MnTimingAssumption DEF Advanced, WaitArmed, IsContext

\* A phase in which nothing is waited for, entered with no event pending.
LEMMA QuietLemma ==
  ASSUME NEW c, IsContext(c), c.event = "None", Store(c),
         phase' \notin {"IsochronousPReq", "AsynchronousSoA"}
  PROVE  Advanced(c)
BY DEF Advanced, WaitArmed, Store, IsContext

LEMMA AsyncLemma ==
  ASSUME NEW c, IsContext(c), c.event = "None", NEW b, AsyncPhase(c, b)
  PROVE  Advanced(c)
<1>1. CASE c.statusReqs # <<>>
  <2> DEFINE d == [c EXCEPT !.statusReqs = SubSeq(@, 1, Len(@) - 1)]
  <2>1. IsContext(d) /\ d.nmt = c.nmt /\ d.cn = c.cn /\ d.commOk = c.commOk
    <3>1. /\ SubSeq(c.statusReqs, 1, Len(c.statusReqs) - 1) \in Seq(Cns)
          /\ Distinct(SubSeq(c.statusReqs, 1, Len(c.statusReqs) - 1))
      BY <1>1, FrontLemma DEF IsContext
    <3> QED BY <3>1 DEF IsContext, IsRecord
  <2>2. Invite(d, c.statusReqs[Len(c.statusReqs)], b)
    BY <1>1 DEF AsyncPhase
  <2> HIDE DEF d
  <2> QED BY <2>1, <2>2, InviteLemma DEF Advanced
<1>2. CASE \E n : Invite(c, n, b)
  BY <1>2, InviteLemma
<1>3. CASE Store(c) /\ phase' \notin {"IsochronousPReq", "AsynchronousSoA"}
  BY <1>3, QuietLemma
<1>4. CASE \E r \in AsyncRequest : Invite([c EXCEPT !.asyncReqs[r] = @ - 1], r[1], b)
  <2> PICK r \in AsyncRequest : Invite([c EXCEPT !.asyncReqs[r] = @ - 1], r[1], b)
    BY <1>4
  <2> DEFINE d == [c EXCEPT !.asyncReqs[r] = @ - 1]
  <2>1. IsContext(d) /\ d.nmt = c.nmt /\ d.cn = c.cn /\ d.commOk = c.commOk
    BY DEF IsContext, IsRecord
  <2>2. Invite(d, r[1], b)
    OBVIOUS
  <2> HIDE DEF d
  <2> QED BY <2>1, <2>2, InviteLemma DEF Advanced
<1>5. \/ c.statusReqs # <<>>
      \/ InviteSelf(c, b)
      \/ Invite(c, NextToIdentify(c.cn), b)
      \/ Invite(c, NextAsyncOnly(c.cn), b)
      \/ phase' = "IsochronousDone" /\ Store(c)
      \/ \E r \in TopRequests(c.asyncReqs) :
           Invite([c EXCEPT !.asyncReqs[r] = @ - 1], r[1], b)
      \/ phase' = "Idle" /\ Store(c)
  BY Zenon DEF AsyncPhase
<1> QED BY <1>1, <1>2, <1>3, <1>4, <1>5, Zenon DEF InviteSelf, TopRequests

\* advance_cycle_phase: whatever it goes on with is armed.
LEMMA AdvanceLemma ==
  ASSUME NEW c, IsContext(c), c.event = "None", NEW b, AdvanceCyclePhase(c, b),
         idx \in 0 .. Len(IsochronousNodes)
  PROVE  Advanced(c) /\ idx' \in 0 .. Len(IsochronousNodes)
<1> DEFINE todo == IF c.nmt \in AtLeastPreOp2 THEN ToPoll(idx, mux, c.cn) ELSE {}
<1>0. IsochronousNodes \in Seq(Cns) /\ Len(IsochronousNodes) \in Nat
  BY NodeAssumption
<1>1. CASE todo # {}
  <2>1. PICK next \in todo :
          /\ polled' = IsochronousNodes[next] /\ idx' = next /\ phase' = "IsochronousPReq"
          /\ Store([c EXCEPT !.timer = Schedule(c.timer, PresTimeout[IsochronousNodes[next]]),
                             !.event = "PresTimeout"])
    BY <1>1 DEF AdvanceCyclePhase
  <2> DEFINE n == IsochronousNodes[next]
             d == [c EXCEPT !.timer = Schedule(c.timer, PresTimeout[n]),
                            !.event = "PresTimeout"]
  <2>2. next \in 1 .. Len(IsochronousNodes) /\ n \in Cns
    BY <1>0 DEF ToPoll
  <2>3. PresTimeout[n] \in Nat /\ Schedule(c.timer, PresTimeout[n]) \in 0 .. PresTimeout[n]
    BY <2>2, ScheduleLemma, MnTimingAssumption DEF IsContext
  <2>4. Store(d)
    BY <2>1
  <2>5. /\ nmt' = c.nmt /\ cn' = c.cn /\ commOk' = c.commOk /\ statusReqs' = c.statusReqs
        /\ timer' = Schedule(c.timer, PresTimeout[n]) /\ event' = "PresTimeout"
    BY <2>4 DEF Store, IsContext, IsRecord
  <2> HIDE DEF d
  <2>6. WaitArmed' /\ timer' \in Nat
    BY <2>1, <2>2, <2>3, <2>5, MnTimingAssumption DEF WaitArmed
  <2> QED BY <1>0, <2>1, <2>2, <2>5, <2>6 DEF Advanced, IsContext
<1>2. CASE todo = {}
  <2>1. /\ idx' = IF c.nmt \in AtLeastPreOp2 THEN Len(IsochronousNodes) ELSE idx
        /\ \/ phase' = "Idle" /\ Store(c)
           \/ AsyncPhase(c, b)
    BY <1>2 DEF AdvanceCyclePhase
  <2>2. Advanced(c)
    BY <2>1, QuietLemma, AsyncLemma
  <2> QED BY <1>0, <2>1, <2>2
<1> QED BY <1>1, <1>2
-----------------------------------------------------------------------------
(* The inductive invariant and what a step does to it.                      *)

\* An MN in NotActive is in Idle: the deadline it consumes there is the
\* WaitNotActive timeout, never that of an answer.
MnInv ==
  /\ IsContext(Context)
  /\ WaitArmed
  /\ idx \in 0 .. Len(IsochronousNodes)
  /\ nmt = "NotActive" => phase = "Idle"

\* What every step does.
MnStep == MnInv' /\ BootStep(Context, Context')

\* A handler that verifies no CN and leaves the context in c.
Harmless(c) ==
  /\ IsContext(c) /\ KeepsHeard(Context, c) /\ VerifiesNone(Context, c)
  /\ BootMove(Context, c)

LEMMA HarmlessBoots ==
  ASSUME NEW c, Harmless(c)
  PROVE  IsContext(c) /\ BootStep(Context, c)
BY DEF Harmless, BootStep

\* The boot-up never returns to NotActive.
LEMMA NeverBack ==
  ASSUME NEW c, BootStep(Context, c), c.nmt = "NotActive"
  PROVE  nmt = "NotActive"
BY DEF BootStep, BootMove, Context

\* The cycle goes on from context c.
LEMMA AdvanceStep ==
  ASSUME MnInv, nmt # "NotActive", NEW c, IsContext(c), c.event = "None",
         BootStep(Context, c), NEW b, AdvanceCyclePhase(c, b)
  PROVE  MnStep
<1>1. Advanced(c) /\ idx' \in 0 .. Len(IsochronousNodes)
  BY AdvanceLemma DEF MnInv
<1>2. nmt' = c.nmt /\ cn' = c.cn /\ commOk' = c.commOk
  BY <1>1 DEF Advanced
<1>3. IsContext(Context)'
  BY <1>1, <1>2 DEF Advanced, IsContext, IsRecord, Context
<1>4. BootStep(Context, Context')
  BY <1>2 DEF BootStep, BootMove, KeepsHeard, VerifiesNone, Context
<1>5. c.nmt # "NotActive"
  BY NeverBack
<1> QED BY <1>1, <1>2, <1>3, <1>4, <1>5 DEF MnStep, MnInv, Advanced

\* A handler ends in context c.
LEMMA StoreStep ==
  ASSUME MnInv, NEW c, IsContext(c), BootStep(Context, c), Store(c),
         WaitArmed', idx' \in 0 .. Len(IsochronousNodes), phase' \in {phase, "Idle"}
  PROVE  MnStep
<1>1. IsContext(Context)'
  BY DEF Store, IsContext, IsRecord, Context
<1>2. BootStep(Context, Context')
  BY DEF Store, BootStep, BootMove, KeepsHeard, VerifiesNone, Context
<1>3. nmt' = "NotActive" => nmt = "NotActive"
  BY NeverBack DEF Store
<1> QED BY <1>1, <1>2, <1>3 DEF MnStep, MnInv

\* A handler that touches neither the context nor the phase.
LEMMA IdleStep ==
  ASSUME MnInv, UNCHANGED <<phase, polled, idx, ctxVars>>
  PROVE  MnStep
BY DEF MnStep, MnInv, WaitArmed, Context, ctxVars, IsContext, IsRecord, BootStep,
       BootMove, KeepsHeard, VerifiesNone

\* update_cn_state or nothing, for a frame of any node.
LEMMA SeenLemma ==
  ASSUME MnInv, NEW src, NEW r
  PROVE  LET seen == IF src \in Cns THEN UpdateCnState(Context, src, r) ELSE Context
         IN  Harmless(seen) /\ SameWait(Context, seen)
<1>1. CASE src \in Cns
  BY <1>1, UpdateLemma DEF MnInv, Harmless
<1>2. CASE src \notin Cns
  BY <1>2 DEF MnInv, Harmless, SameWait, KeepsHeard, VerifiesNone, BootMove
<1> QED BY <1>1, <1>2

-----------------------------------------------------------------------------
(* Frames.                                                                  *)

LEMMA PresStep ==
  ASSUME MnInv, NEW src, NEW r, NEW request, NEW flag, NEW fits,
         ReceivePRes(src, r, request, flag, fits)
  PROVE  MnStep
<1> DEFINE seen  == IF src \in Cns THEN UpdateCnState(Context, src, r) ELSE Context
           quiet == [seen EXCEPT !.event = "None"]
<1>1. Harmless(seen) /\ SameWait(Context, seen)
  BY SeenLemma
<1>2. CASE phase = "IsochronousPReq" /\ polled = src
  <2> DEFINE d == HandlePRes(quiet, src, request, flag, fits)
  <2>1. AdvanceCyclePhase(d, FALSE)
    BY <1>2 DEF ReceivePRes
  <2> HIDE DEF seen
  <2>2. Harmless(quiet) /\ quiet.event = "None"
    BY <1>1 DEF Harmless, IsContext, IsRecord, KeepsHeard, VerifiesNone, BootMove
  <2> HIDE DEF quiet
  <2>3. IsContext(d) /\ SameWait(quiet, d) /\ PresMove(quiet, d)
    BY <2>2, PresLemma DEF Harmless
  <2> HIDE DEF d
  <2>4. BootStep(Context, d)
    BY <2>2, <2>3 DEF Harmless, PresMove, BootStep, BootMove, KeepsHeard, VerifiesNone
  <2>5. d.event = "None"
    BY <2>2, <2>3 DEF SameWait
  <2> QED BY <1>2, <2>1, <2>3, <2>4, <2>5, AdvanceStep DEF MnInv
<1>3. CASE ~(phase = "IsochronousPReq" /\ polled = src)
  <2> DEFINE d == HandlePRes(seen, src, request, flag, fits)
  <2>1. Store(d) /\ UNCHANGED <<phase, polled, idx>>
    BY <1>3 DEF ReceivePRes
  <2> HIDE DEF seen
  <2>2. IsContext(d) /\ SameWait(seen, d) /\ PresMove(seen, d)
    BY <1>1, PresLemma DEF Harmless
  <2> HIDE DEF d
  <2>3. BootStep(Context, d)
    BY <1>1, <2>2 DEF Harmless, PresMove, BootStep, BootMove, KeepsHeard, VerifiesNone
  <2>4. timer' = timer /\ event' = event
    BY <1>1, <2>1, <2>2 DEF SameWait, Store, Context
  <2>5. WaitArmed'
    BY <2>1, <2>4 DEF MnInv, WaitArmed
  <2> QED BY <2>1, <2>2, <2>3, <2>5, StoreStep DEF MnInv
<1> QED BY <1>2, <1>3

\* An ASnd ends the asynchronous phase together with its timeout.
LEMMA AsndStep ==
  ASSUME MnInv, NEW c, Harmless(c), SameWait(Context, c), AsndEndsSlot(c),
         UNCHANGED <<polled, idx>>
  PROVE  MnStep
<1>1. CASE phase = "AsynchronousSoA"
  <2> DEFINE d == [c EXCEPT !.event = "None"]
  <2>1. Harmless(d) /\ d.event = "None"
    BY DEF Harmless, IsContext, IsRecord, KeepsHeard, VerifiesNone, BootMove
  <2>2. Store(d) /\ phase' = "Idle"
    BY <1>1 DEF AsndEndsSlot
  <2> HIDE DEF d
  <2>3. WaitArmed'
    BY <2>1, <2>2 DEF WaitArmed, Store
  <2> QED BY <2>1, <2>2, <2>3, HarmlessBoots, StoreStep DEF MnInv
<1>2. CASE phase # "AsynchronousSoA"
  <2>1. Store(c) /\ phase' = phase
    BY <1>2 DEF AsndEndsSlot
  <2>2. timer' = timer /\ event' = event
    BY <2>1 DEF SameWait, Store, Context
  <2>3. WaitArmed'
    BY <2>1, <2>2 DEF MnInv, WaitArmed
  <2> QED BY <2>1, <2>3, HarmlessBoots, StoreStep DEF MnInv
<1> QED BY <1>1, <1>2

\* Any step that receives a frame.
LEMMA ReceiveStep ==
  ASSUME MnInv, Receive
  PROVE  MnStep
<1>1. ASSUME NEW src \in Senders, NEW r \in Reports,
             NEW request \in Priorities \cup {NoRequest}, NEW flag \in EnFlags,
             NEW fits \in BOOLEAN, ReceivePRes(src, r, request, flag, fits)
      PROVE  MnStep
  BY <1>1, PresStep
<1>2. ASSUME NEW src \in Senders, NEW result \in IdentResults,
             ReceiveIdentResponse(src, result)
      PROVE  MnStep
  <2> DEFINE passes == /\ src \in Cns /\ src \in Unidentified(cn)
                       /\ PassesBootStep1(result)
             e == [Context EXCEPT !.cn[src] = "Identified"]
             c == IF passes THEN CheckBootupState(e) ELSE Context
  <2>1. AsndEndsSlot(c) /\ UNCHANGED <<polled, idx>>
    BY <1>2 DEF ReceiveIdentResponse
  <2>2. Harmless(c) /\ SameWait(Context, c)
    <3>1. CASE passes
      <4>1. Harmless(e) /\ SameWait(Context, e) /\ e.nmt = nmt
        <5>1. /\ IsRecord(e) /\ e.nmt = nmt /\ e.commOk = commOk /\ e.timer = timer
              /\ e.event = event /\ e.statusReqs = statusReqs
              /\ e.cn = [cn EXCEPT ![src] = "Identified"]
          BY DEF IsRecord, Context
        <5>2. /\ nmt \in MnState /\ cn \in [Cns -> CnState] /\ commOk \in [Cns -> BOOLEAN]
              /\ statusReqs \in Seq(Cns) /\ Distinct(statusReqs)
              /\ timer \in Nat \cup {NoTimer}
              /\ nmt \in AtLeastPreOp2 => AllHeard(cn)
          BY DEF MnInv, IsContext, Context
        <5> HIDE DEF e
        <5>3. e.cn \in [Cns -> CnState] /\ (AllHeard(cn) => AllHeard(e.cn))
          BY <5>1, <5>2, NodeAssumption DEF AllHeard, CnState
        <5>4. IsContext(e)
          BY <5>1, <5>2, <5>3 DEF IsContext
        <5>5. \A n \in Cns : cn[n] # "Unknown" => e.cn[n] # "Unknown"
          BY <5>1, <5>2
        <5> QED BY <5>1, <5>4, <5>5 DEF Harmless, SameWait, KeepsHeard, VerifiesNone,
                                        BootMove, Context
      <4> HIDE DEF e
      <4>2. /\ IsContext(CheckBootupState(e)) /\ SameWait(e, CheckBootupState(e))
            /\ CheckBootupState(e).cn = e.cn /\ CheckBootupState(e).commOk = e.commOk
            /\ BootMove(e, CheckBootupState(e))
        BY <4>1, CheckLemma DEF Harmless
      <4>3. c = CheckBootupState(e)
        BY <3>1
      <4> HIDE DEF c
      <4>4. Context.nmt = nmt
        BY DEF Context
      <4> QED BY <4>1, <4>2, <4>3, <4>4 DEF Harmless, SameWait, KeepsHeard, VerifiesNone,
                                            BootMove
    <3>2. CASE ~passes
      BY <3>2 DEF MnInv, Harmless, SameWait, KeepsHeard, VerifiesNone, BootMove
    <3> QED BY <3>1, <3>2
  <2> HIDE DEF c
  <2> QED BY <2>1, <2>2, AsndStep
<1>3. ASSUME NEW src \in Senders, NEW r \in Reports, ReceiveStatusResponse(src, r)
      PROVE  MnStep
  <2> DEFINE seen == IF src \in Cns THEN UpdateCnState(Context, src, r) ELSE Context
  <2>1. Harmless(seen) /\ SameWait(Context, seen)
    BY SeenLemma
  <2>2. AsndEndsSlot(seen) /\ UNCHANGED <<polled, idx>>
    BY <1>3 DEF ReceiveStatusResponse
  <2> HIDE DEF seen
  <2> QED BY <2>1, <2>2, AsndStep
<1>4. CASE ReceiveOtherASnd
  <2>1. AsndEndsSlot(Context) /\ UNCHANGED <<polled, idx>>
    BY <1>4 DEF ReceiveOtherASnd
  <2>2. Harmless(Context) /\ SameWait(Context, Context)
    BY DEF MnInv, Harmless, SameWait, KeepsHeard, VerifiesNone, BootMove
  <2> QED BY <2>1, <2>2, AsndStep
<1>5. ASSUME NEW more \in {0, 1}, ReceiveSdo(more)
      PROVE  MnStep
  BY <1>5, IdleStep DEF ReceiveSdo
<1>6. ASSUME NEW src \in Senders, ReceiveBadStatusResponse(src)
      PROVE  MnStep
  <2>1. AsndEndsSlot(Context) /\ UNCHANGED <<polled, idx>>
    BY <1>6 DEF ReceiveBadStatusResponse
  <2>2. Harmless(Context) /\ SameWait(Context, Context)
    BY DEF MnInv, Harmless, SameWait, KeepsHeard, VerifiesNone, BootMove
  <2> QED BY <2>1, <2>2, AsndStep
<1> QED BY <1>1, <1>2, <1>3, <1>4, <1>5, <1>6 DEF Receive
-----------------------------------------------------------------------------
(* The tick.                                                                *)

\* The context after the deadline was looked at.
LEMMA ConsumedLemma ==
  ASSUME MnInv
  PROVE  /\ Harmless(Consumed) /\ Consumed.event = event /\ Consumed.nmt = nmt
         /\ ~DeadlinePassed => Consumed.timer = timer
<1>1. /\ IsRecord(Consumed) /\ Consumed.nmt = nmt /\ Consumed.cn = cn
      /\ Consumed.commOk = commOk /\ Consumed.statusReqs = statusReqs
      /\ Consumed.event = event
      /\ Consumed.timer = IF DeadlinePassed THEN NoTimer ELSE timer
  BY DEF Consumed, Context, IsRecord
<1> QED BY <1>1 DEF MnInv, IsContext, Context, Harmless, KeepsHeard, VerifiesNone, BootMove

\* So is the context with an NMTStartNode queued.
LEMMA QueuedLemma ==
  ASSUME MnInv
  PROVE  LET c == StartNodeQueued
         IN  /\ Harmless(c) /\ c.event = event /\ c.nmt = nmt
             /\ ~DeadlinePassed => c.timer = timer
<1>1. CASE StartNodeQueued = Consumed
  BY <1>1, ConsumedLemma
<1>2. CASE StartNodeQueued # Consumed
  <2> DEFINE c == StartNodeQueued
             q == Append(Consumed.cmds,
                         <<"StartNode", CHOOSE n \in Mandatory : \A m \in Mandatory : n <= m>>)
  <2>1. c = [Consumed EXCEPT !.cmds = q]
    BY <1>2 DEF StartNodeQueued
  <2>2. IsRecord(Consumed)
    BY ConsumedLemma DEF Harmless, IsContext
  <2> HIDE DEF c, q
  <2>3. /\ IsRecord(c) /\ c.nmt = Consumed.nmt /\ c.cn = Consumed.cn
        /\ c.commOk = Consumed.commOk /\ c.statusReqs = Consumed.statusReqs
        /\ c.event = Consumed.event /\ c.timer = Consumed.timer
    BY <2>1, <2>2 DEF IsRecord
  <2>4. Harmless(c) /\ c.event = event /\ c.nmt = nmt /\ (~DeadlinePassed => c.timer = timer)
    BY <2>3, ConsumedLemma DEF Harmless, IsContext, KeepsHeard, VerifiesNone, BootMove
  <2> QED BY <2>4 DEF c
<1> QED BY <1>1, <1>2

\* A tick that ends in c: a deadline is consumed only where none is waited for.
LEMMA TickStoreStep ==
  ASSUME MnInv, NEW c, Harmless(c), c.event = event, Store(c),
         ~DeadlinePassed => c.timer = timer, event # "None" => ~DeadlinePassed,
         UNCHANGED <<phase, polled, idx>>
  PROVE  MnStep
<1>1. event' = event /\ (event # "None" => timer' = timer)
  BY DEF Store
<1>2. WaitArmed'
  BY <1>1 DEF MnInv, WaitArmed
<1> QED BY <1>2, HarmlessBoots, StoreStep DEF MnInv

\* An MN that gets as far as the cycle's tick in NotActive or past a deadline
\* waits for nothing.
LEMMA GoesOnLemma ==
  ASSUME TickGoesOn
  PROVE  event # "None" => ~DeadlinePassed
BY DEF TickGoesOn

LEMMA StartCycleStep ==
  ASSUME MnInv, TickStartCycle
  PROVE  MnStep
<1>1. /\ phase = "Idle" /\ phase' = "SoCSent" /\ idx' = 0 /\ nmt # "NotActive"
      /\ UNCHANGED ctxVars
  BY DEF TickStartCycle, CycleDue, AtLeastPreOp1, AtLeastPreOp2
<1>2. WaitArmed'
  BY <1>1 DEF MnInv, WaitArmed, ctxVars
<1>3. Len(IsochronousNodes) \in Nat
  BY NodeAssumption
<1>4. IsContext(Context)' /\ BootStep(Context, Context')
  BY <1>1 DEF MnInv, Context, ctxVars, IsContext, IsRecord, BootStep, BootMove,
              KeepsHeard, VerifiesNone
<1> QED BY <1>1, <1>2, <1>3, <1>4 DEF MnStep, MnInv, ctxVars

LEMMA NotActiveStep ==
  ASSUME MnInv, TickNotActive
  PROVE  MnStep
<1> DEFINE c == [Consumed EXCEPT !.nmt = Nmt(nmt, "Timeout")]
<1>1. Store(c) /\ nmt = "NotActive" /\ UNCHANGED <<phase, polled, idx>>
  BY DEF TickNotActive
<1>2. Nmt(nmt, "Timeout") \in {"PreOp1", "BasicEthernet"}
  BY <1>1 DEF Nmt, MnProcessEvent, ResetEvent
<1>3. IsRecord(Consumed)
  BY ConsumedLemma DEF Harmless, IsContext
<1>4. /\ IsRecord(c) /\ c.nmt = Nmt(nmt, "Timeout") /\ c.cn = Consumed.cn
      /\ c.commOk = Consumed.commOk /\ c.statusReqs = Consumed.statusReqs
      /\ c.event = Consumed.event /\ c.timer = Consumed.timer
  BY <1>3 DEF IsRecord
<1> HIDE DEF c
<1>5. IsContext(c)
  BY <1>2, <1>4, ConsumedLemma DEF Harmless, IsContext, MnState, NmtState, AtLeastPreOp2
<1>6. BootStep(Context, c)
  <2>1. Context.nmt = "NotActive"
    BY <1>1 DEF Context
  <2> QED BY <1>2, <1>4, <2>1, ConsumedLemma DEF Harmless, BootStep, KeepsHeard, VerifiesNone
<1>7. WaitArmed'
  <2>1. phase' = "Idle" /\ event = "None"
    BY <1>1 DEF MnInv, WaitArmed
  <2>2. event' = event
    BY <1>1, <1>4, ConsumedLemma DEF Store
  <2> QED BY <2>1, <2>2 DEF WaitArmed
<1> QED BY <1>1, <1>5, <1>6, <1>7, StoreStep DEF MnInv

\* The lost PRes marks a node that was heard before as missing.
LEMMA TimeoutStep ==
  ASSUME MnInv, TickTimeout
  PROVE  MnStep
<1> DEFINE c == [Consumed EXCEPT !.event = "None"]
           d == AfterLoss(c, event)
<1>1. AdvanceCyclePhase(d, TRUE) /\ nmt # "NotActive"
  BY DEF TickTimeout
<1>2. Harmless(c) /\ c.event = "None"
  BY ConsumedLemma DEF Harmless, IsContext, IsRecord, KeepsHeard, VerifiesNone, BootMove
<1> HIDE DEF c
<1>3. Harmless(d) /\ d.event = "None"
  <2>1. CASE d = c
    BY <1>2, <2>1
  <2>2. CASE d # c
    <3> DEFINE f == [n \in Cns |-> IF n = polled THEN "Missing" ELSE c.cn[n]]
               q == Append(c.cmds, <<"ResetNode", polled>>)
    <3>1. d = [c EXCEPT !.cn = f, !.cmds = q]
      BY <2>2 DEF AfterLoss
    <3>2. /\ f \in [Cns -> CnState] /\ (AllHeard(c.cn) => AllHeard(f))
          /\ \A n \in Cns : c.cn[n] # "Unknown" => f[n] # "Unknown"
      BY <1>2, NodeAssumption DEF Harmless, IsContext, CnState, AllHeard
    <3> HIDE DEF d, f, q
    <3>3. /\ IsRecord(d) /\ d.nmt = c.nmt /\ d.cn = f /\ d.commOk = c.commOk
          /\ d.statusReqs = c.statusReqs /\ d.event = c.event /\ d.timer = c.timer
      BY <1>2, <3>1 DEF Harmless, IsContext, IsRecord
    <3> QED BY <1>2, <3>2, <3>3 DEF Harmless, IsContext, KeepsHeard, VerifiesNone, BootMove
  <2> QED BY <2>1, <2>2
<1> HIDE DEF d
<1> QED BY <1>1, <1>3, HarmlessBoots, AdvanceStep

\* The MN's own slot ends in Idle.
LEMMA SendStep ==
  ASSUME MnInv, TickSend
  PROVE  MnStep
<1> DEFINE c == StartNodeQueued
           d == [c EXCEPT !.cmds = SubSeq(@, 1, Len(@) - 1)]
<1>1. /\ Store(c) \/ Store(d)
      /\ phase = "AwaitingMnAsyncSend" /\ phase' = "Idle" /\ UNCHANGED <<polled, idx>>
  BY DEF TickSend
<1>2. Harmless(c) /\ c.event = event
  BY QueuedLemma
<1> HIDE DEF c
<1>3. Harmless(d) /\ d.event = event
  BY <1>2 DEF Harmless, IsContext, IsRecord, KeepsHeard, VerifiesNone, BootMove
<1> HIDE DEF d
<1>4. event = "None"
  BY <1>1 DEF MnInv, WaitArmed
<1>5. WaitArmed'
  BY <1>1, <1>2, <1>3, <1>4 DEF WaitArmed, Store
<1> QED BY <1>1, <1>2, <1>3, <1>5, HarmlessBoots, StoreStep DEF MnInv

LEMMA WaitsStep ==
  ASSUME MnInv, TickWaits
  PROVE  MnStep
<1> DEFINE c == StartNodeQueued
           d == [c EXCEPT !.timer = WaitNotActive]
<1>1. /\ TickGoesOn /\ UNCHANGED <<phase, polled, idx>>
      /\ Store(IF nmt = "NotActive" /\ timer = NoTimer THEN d ELSE c)
  BY DEF TickWaits, CycleTickProper, CycleTick
<1>2. Harmless(c) /\ c.event = event /\ (~DeadlinePassed => c.timer = timer)
  BY QueuedLemma
<1> HIDE DEF c
<1>3. Harmless(d) /\ d.event = event
  BY <1>2, MnTimingAssumption
     DEF Harmless, IsContext, IsRecord, KeepsHeard, VerifiesNone, BootMove
<1> HIDE DEF d
<1>4. CASE nmt = "NotActive" /\ timer = NoTimer
  <2>1. phase = "Idle" /\ event = "None"
    BY <1>4 DEF MnInv, WaitArmed
  <2>2. WaitArmed'
    BY <1>1, <1>3, <1>4, <2>1 DEF WaitArmed, Store
  <2> QED BY <1>1, <1>3, <1>4, <2>2, HarmlessBoots, StoreStep DEF MnInv
<1>5. CASE ~(nmt = "NotActive" /\ timer = NoTimer)
  BY <1>1, <1>2, <1>5, GoesOnLemma, TickStoreStep
<1> QED BY <1>4, <1>5

LEMMA TickStep ==
  ASSUME MnInv, Tick
  PROVE  MnStep
<1>1. CASE TickStartCycle
  BY <1>1, StartCycleStep
<1>2. CASE TickSdo \/ TickRests
  BY <1>2, IdleStep DEF TickSdo, TickRests
<1>3. CASE TickNotActive
  BY <1>3, NotActiveStep
<1>4. CASE TickTimeout
  BY <1>4, TimeoutStep
<1>5. CASE TickReducedSoA
  <2>1. AdvanceCyclePhase(Consumed, TRUE) /\ nmt # "NotActive" /\ phase = "SoCSent"
    BY <1>5 DEF TickReducedSoA, ReducedSoA
  <2>2. Harmless(Consumed) /\ Consumed.event = "None"
    BY <2>1, ConsumedLemma DEF MnInv, WaitArmed
  <2> QED BY <2>1, <2>2, HarmlessBoots, AdvanceStep
<1>6. CASE TickBroadcastStart
  <2>1. TickGoesOn /\ Store(Consumed) /\ UNCHANGED <<phase, polled, idx>>
    BY <1>6 DEF TickBroadcastStart, CycleTick
  <2> QED BY <2>1, ConsumedLemma, GoesOnLemma, TickStoreStep
<1>7. CASE TickSend
  BY <1>7, SendStep
<1>8. CASE TickAfterSoC
  <2>1. AdvanceCyclePhase(StartNodeQueued, TRUE) /\ phase = "SoCSent"
    BY <1>8 DEF TickAfterSoC
  <2>2. nmt # "NotActive" /\ event = "None"
    BY <2>1 DEF MnInv, WaitArmed
  <2>3. Harmless(StartNodeQueued) /\ StartNodeQueued.event = "None"
    BY <2>2, QueuedLemma
  <2> QED BY <2>1, <2>2, <2>3, HarmlessBoots, AdvanceStep
<1>9. CASE TickWaits
  BY <1>9, WaitsStep
<1> QED BY <1>1, <1>2, <1>3, <1>4, <1>5, <1>6, <1>7, <1>8, <1>9 DEF Tick

-----------------------------------------------------------------------------
(* The application, the clock, and the theorems.                            *)

LEMMA ApplicationStep ==
  ASSUME MnInv, Application
  PROVE  MnStep
<1>1. ASSUME NEW target \in Cns, QueueNmtCommand(target)
      PROVE  MnStep
  BY <1>1 DEF QueueNmtCommand, MnStep, MnInv, WaitArmed, Context, IsContext, IsRecord,
              BootStep, BootMove, KeepsHeard, VerifiesNone
<1>2. CASE QueueSdoRequest
  BY <1>2, IdleStep DEF QueueSdoRequest
<1>3. CASE TriggerBootStep
  <2>1. /\ UNCHANGED <<phase, polled, idx, cn, commOk, cmds, asyncReqs, statusReqs,
                       timer, event>>
        /\ \/ nmt' = nmt
           \/ nmt = "PreOp2" /\ nmt' = "ReadyToOp"
           \/ 2 \in StartupFlags /\ nmt = "ReadyToOp" /\ nmt' = "Operational"
    BY <1>3 DEF TriggerBootStep, Nmt, MnProcessEvent, ResetEvent
  <2>2. IsContext(Context)'
    BY <2>1 DEF MnInv, Context, IsContext, IsRecord, MnState, NmtState, AtLeastPreOp2
  <2>3. BootStep(Context, Context')
    BY <2>1 DEF Context, BootStep, BootMove, KeepsHeard, VerifiesNone
  <2>4. WaitArmed'
    BY <2>1 DEF MnInv, WaitArmed
  <2> QED BY <2>1, <2>2, <2>3, <2>4 DEF MnStep, MnInv
<1> QED BY <1>1, <1>2, <1>3 DEF Application

\* Time brings a deadline nearer and never past it.
LEMMA ElapseStep ==
  ASSUME MnInv, Elapse
  PROVE  MnStep
<1>1. /\ UNCHANGED <<phase, polled, idx, nmt, cn, commOk, cmds, asyncReqs, statusReqs, event>>
      /\ timer' = IF timer > 0 THEN timer - 1 ELSE timer
  BY DEF Elapse
<1>2. timer \in Nat \cup {NoTimer}
  BY DEF MnInv, IsContext, Context
<1>3. timer' \in Nat \cup {NoTimer}
  BY <1>1, <1>2 DEF NoTimer
<1>4. IsContext(Context)'
  BY <1>1, <1>3 DEF MnInv, Context, IsContext, IsRecord
<1>5. BootStep(Context, Context')
  BY <1>1 DEF Context, BootStep, BootMove, KeepsHeard, VerifiesNone
<1>6. WaitArmed'
  <2>1. CASE phase = "IsochronousPReq"
    <3>1. PresTimeout[polled] \in Nat /\ timer \in 0 .. PresTimeout[polled]
      BY <2>1, MnTimingAssumption DEF MnInv, WaitArmed
    <3> QED BY <1>1, <2>1, <3>1 DEF MnInv, WaitArmed
  <2>2. CASE phase # "IsochronousPReq"
    BY <1>1, <2>2, MnTimingAssumption DEF MnInv, WaitArmed
  <2> QED BY <2>1, <2>2
<1> QED BY <1>1, <1>4, <1>5, <1>6 DEF MnStep, MnInv

LEMMA NextStep ==
  ASSUME MnInv, [Next]_vars
  PROVE  MnStep
<1>1. CASE Poll \/ UNCHANGED vars
  BY <1>1, IdleStep DEF Poll, vars
<1> QED BY <1>1, ReceiveStep, TickStep, ApplicationStep, ElapseStep DEF Next

LEMMA InitLemma ==
  ASSUME Init
  PROVE  MnInv
<1>1. Len(IsochronousNodes) \in Nat
  BY NodeAssumption
<1>2. IsContext(Context)
  BY DEF Init, Context, IsContext, IsRecord, MnState, NmtState, CnState, AtLeastPreOp2,
         Distinct, NoTimer
<1> QED BY <1>1, <1>2 DEF Init, MnInv, WaitArmed

\* Every reachable state satisfies the inductive invariant.
THEOREM MnInvariance == Spec => []MnInv
<1>1. Init => MnInv
  BY InitLemma
<1>2. MnInv /\ [Next]_vars => MnInv'
  BY NextStep DEF MnStep
<1> QED BY <1>1, <1>2, PTL DEF Spec

\* Whatever frames arrive, get lost or come late, an answer the MN waits for has
\* its own timeout armed within the configured time, and no timeout is pending
\* that nothing waits for (next_tick_us, pending_timeout_event, current_phase).
THEOREM WaitArmedTheorem == Spec => []WaitArmed
<1>1. MnInv => WaitArmed
  BY DEF MnInv
<1> QED BY <1>1, MnInvariance, PTL

\* The MN implements its boot-up contract for every network, every start-up
\* configuration and every order of answers.
THEOREM BootRefinement == Spec => ImplementsBoot
<1> DEFINE heard == { n \in Cns : cn[n] # "Unknown" }
           verified == { n \in Cns : commOk[n] }
<1>1. Init => Boot!Init
  BY DEF Init, Boot!Init
<1>2. MnInv /\ [Next]_vars => [Boot!Next]_<<nmt, heard, verified>>
  <2> SUFFICES ASSUME MnInv, [Next]_vars
               PROVE  Boot!Next
    OBVIOUS
  <2>1. MnInv' /\ BootStep(Context, Context')
    BY NextStep DEF MnStep
  <2>2. \A n \in Cns : cn[n] # "Unknown" => cn'[n] # "Unknown"
    BY <2>1 DEF BootStep, KeepsHeard, Context
  <2>3. nmt' \in AtLeastPreOp2 => \A n \in Mandatory : n \in Cns /\ cn'[n] # "Unknown"
    BY <2>1, NodeAssumption DEF MnInv, IsContext, Context, AllHeard
  <2>4. \/ (\A n \in Cns : commOk'[n] => commOk[n]) /\ nmt' = nmt
        \/ (\A n \in Cns : commOk'[n] => commOk[n]) /\ nmt = "PreOp1" /\ nmt' = "PreOp2"
        \/ nmt \in {"PreOp2", "ReadyToOp"} /\ nmt' = "ReadyToOp"
        \/ nmt \in {"PreOp2", "ReadyToOp"} /\ nmt' = "Operational" /\ AllVerified(commOk')
        \/ (\A n \in Cns : commOk'[n] => commOk[n]) /\ nmt = "NotActive"
           /\ nmt' \in {"PreOp1", "BasicEthernet"}
        \/ 2 \in StartupFlags /\ nmt = "ReadyToOp" /\ nmt' = "Operational"
    BY <2>1 DEF BootStep, BootMove, VerifiesNone, Context
  <2>5. AllVerified(commOk') => \A n \in Mandatory : n \in Cns /\ commOk'[n]
    BY NodeAssumption DEF AllVerified
  <2> QED BY <2>2, <2>3, <2>4, <2>5 DEF Boot!Next, Boot!BootSteps, Boot!AtLeastPreOp2,
                                       AtLeastPreOp2
<1> QED BY <1>1, <1>2, MnInvariance, PTL DEF Spec, ImplementsBoot, Boot!Spec
-----------------------------------------------------------------------------
(* The order of addresses.                                                  *)

\* s lists S in ascending order.
Lists(s, S) ==
  /\ s \in [1 .. Cardinality(S) -> S]
  /\ \A i, j \in 1 .. Cardinality(S) : i < j => s[i] < s[j]

\* A finite set that can be listed.
CanList(S) == IsFiniteSet(S) /\ \E s : Lists(s, S)

\* A larger address goes to the end of the list.
LEMMA ListMore ==
  ASSUME NEW R, R \subseteq Nat, CanList(R), NEW m \in Nat, \A n \in R : n < m
  PROVE  CanList(R \cup {m})
<1> DEFINE k == Cardinality(R)
           S == R \cup {m}
<1>1. PICK s : Lists(s, R)
  BY DEF CanList
<1> DEFINE t == [i \in 1 .. k + 1 |-> IF i = k + 1 THEN m ELSE s[i]]
<1>2. /\ k \in Nat /\ IsFiniteSet(S) /\ Cardinality(S) = k + 1
  BY FS_CardinalityType, FS_AddElement DEF CanList
<1>3. s \in [1 .. k -> R] /\ \A i, j \in 1 .. k : i < j => s[i] < s[j]
  BY <1>1 DEF Lists
<1> HIDE DEF k, S
<1>4. t \in [1 .. k + 1 -> S]
  <2> SUFFICES ASSUME NEW i \in 1 .. k + 1 PROVE (IF i = k + 1 THEN m ELSE s[i]) \in S
    OBVIOUS
  <2>1. i = k + 1 \/ i \in 1 .. k
    BY <1>2
  <2> QED BY <1>3, <2>1 DEF S
<1>5. \A i, j \in 1 .. k + 1 : i < j => t[i] < t[j]
  <2> SUFFICES ASSUME NEW i \in 1 .. k + 1, NEW j \in 1 .. k + 1, i < j PROVE t[i] < t[j]
    OBVIOUS
  <2>1. i \in 1 .. k /\ t[i] = s[i] /\ s[i] \in R
    BY <1>2, <1>3
  <2>2. CASE j = k + 1
    BY <2>1, <2>2
  <2>3. CASE j # k + 1
    BY <1>2, <1>3, <2>1, <2>3
  <2> QED BY <2>2, <2>3
<1> HIDE DEF t
<1>6. Lists(t, S)
  BY <1>2, <1>4, <1>5 DEF Lists
<1> QED BY <1>2, <1>6 DEF CanList, S

\* Every set of addresses can be listed.
LEMMA ListLemma ==
  ASSUME NEW m \in Nat, NEW S, S \subseteq 1 .. m
  PROVE  CanList(S)
<1> DEFINE T == { n \in Nat : \A R \in SUBSET (1 .. n) : CanList(R) }
<1>1. 0 \in T
  <2>1. IsFiniteSet({}) /\ Cardinality({}) = 0
    BY FS_EmptySet
  <2>2. Lists(<<>>, {})
    BY <2>1 DEF Lists
  <2>3. 1 .. 0 = {}
    OBVIOUS
  <2> QED BY <2>1, <2>2, <2>3 DEF CanList
<1>2. ASSUME NEW n \in Nat, n \in T
      PROVE  n + 1 \in T
  <2> SUFFICES ASSUME NEW R \in SUBSET (1 .. n + 1) PROVE CanList(R)
    OBVIOUS
  <2>1. R \ {n + 1} \in SUBSET (1 .. n)
    OBVIOUS
  <2>2. CanList(R \ {n + 1})
    BY <1>2, <2>1
  <2>3. CASE n + 1 \in R
    <3>1. R = (R \ {n + 1}) \cup {n + 1}
      BY <2>3
    <3>2. /\ R \ {n + 1} \subseteq Nat /\ n + 1 \in Nat
          /\ \A x \in R \ {n + 1} : x < n + 1
      BY <2>1
    <3>3. CanList((R \ {n + 1}) \cup {n + 1})
      BY <2>2, <3>2, ListMore
    <3> QED BY <3>1, <3>3
  <2>4. CASE n + 1 \notin R
    BY <2>2, <2>4
  <2> QED BY <2>3, <2>4
<1> HIDE DEF T
<1>3. Nat \subseteq T
  BY <1>1, <1>2, SetInduction
<1>4. m \in T
  BY <1>3
<1> QED BY <1>4 DEF T

LEMMA AscendingLemma ==
  ASSUME NEW S, S \subseteq Nodes
  PROVE  /\ Cardinality(S) \in Nat
         /\ Ascending(S) \in [1 .. Cardinality(S) -> S]
<1>1. IsFiniteSet(S) /\ \E s : Lists(s, S)
  BY ListLemma, NodeAssumption DEF Nodes, CanList
<1>2. Cardinality(S) \in Nat
  BY <1>1, FS_CardinalityType
<1>3. \E s \in [1 .. Cardinality(S) -> S] :
        \A i, j \in 1 .. Cardinality(S) : i < j => s[i] < s[j]
  BY <1>1 DEF Lists
<1> QED BY <1>2, <1>3 DEF Ascending

\* BOOT_STEP2 queues commands for nodes of the network.
LEMMA EnableLemma ==
  ASSUME NEW cns
  PROVE  EnableCommands(cns) \in Seq(Command \X Nodes)
<1> DEFINE S == { n \in Cns : cns[n] = "Identified" }
           s == Ascending(S)
           k == Cardinality(S)
<1>1. S \subseteq Nodes
  BY NodeAssumption
<1>2. k \in Nat /\ s \in [1 .. k -> Nodes]
  BY <1>1, AscendingLemma
<1>3. EnableCommands(cns) = [i \in DOMAIN s |-> <<"EnableReadyToOperate", s[i]>>]
  BY DEF EnableCommands
<1> HIDE DEF S, s, k
<1>4. EnableCommands(cns) \in [1 .. k -> Command \X Nodes]
  BY <1>2, <1>3 DEF Command
<1> QED BY <1>2, <1>4
-----------------------------------------------------------------------------
(* What is queued, and that it stays queued.                                *)

\* The queues of a context.
Queued(c) ==
  c.cmds \in Seq(Command \X Nodes) /\ c.asyncReqs \in [AsyncRequest -> Nat]

\* From c to d no pending command is lost.
Fuller(c, d) == Queued(d) /\ (c.cmds # <<>> => d.cmds # <<>>)

LEMMA CheckQueues ==
  ASSUME NEW c, IsContext(c), Queued(c)
  PROVE  Fuller(c, CheckBootupState(c))
<1> DEFINE d == CheckBootupState(c)
           q == c.cmds \o EnableCommands(c.cn)
<1>1. IsRecord(c)
  BY DEF IsContext
<1>2. q \in Seq(Command \X Nodes) /\ (c.cmds # <<>> => q # <<>>)
  BY EnableLemma DEF Queued
<1>3. \/ d = c
      \/ \E s : d = [c EXCEPT !.nmt = s]
      \/ \E s : d = [c EXCEPT !.nmt = s, !.cmds = q]
  BY DEF CheckBootupState
<1> HIDE DEF d, q
<1>4. d.asyncReqs = c.asyncReqs /\ (d.cmds = c.cmds \/ d.cmds = q)
  BY <1>1, <1>3 DEF IsRecord
<1> QED BY <1>2, <1>4 DEF Fuller, Queued, d

LEMMA UpdateQueues ==
  ASSUME NEW c, IsContext(c), Queued(c), NEW n \in Cns, NEW r
  PROVE  Fuller(c, UpdateCnState(c, n, r))
<1> DEFINE s  == TrackedState(c.cn[n], r)
           ok == [c.commOk EXCEPT ![n] = @ /\ s \notin {"Unknown", "Identified"}]
           e  == [c EXCEPT !.cn = [c.cn EXCEPT ![n] = s], !.commOk = ok]
<1>1. CASE s = c.cn[n]
  BY <1>1 DEF UpdateCnState, Fuller
<1>2. CASE s # c.cn[n]
  <2>1. UpdateCnState(c, n, r) = CheckBootupState(e)
    BY <1>2 DEF UpdateCnState
  <2>2. IsContext(e) /\ e.cmds = c.cmds /\ e.asyncReqs = c.asyncReqs
    <3>1. s \in CnState \ {"Unknown"}
      BY <1>2 DEF TrackedState, CnState
    <3>2. ok \in [Cns -> BOOLEAN]
      BY DEF IsContext
    <3> HIDE DEF ok
    <3>3. /\ IsRecord(e) /\ e.nmt = c.nmt /\ e.statusReqs = c.statusReqs
          /\ e.timer = c.timer /\ e.event = c.event
          /\ e.cn = [c.cn EXCEPT ![n] = s] /\ e.commOk = ok
          /\ e.cmds = c.cmds /\ e.asyncReqs = c.asyncReqs
      BY DEF IsContext, IsRecord
    <3> HIDE DEF e
    <3>4. e.cn \in [Cns -> CnState] /\ (AllHeard(c.cn) => AllHeard(e.cn))
      BY <3>1, <3>3, NodeAssumption DEF AllHeard, IsContext
    <3> QED BY <3>2, <3>3, <3>4 DEF IsContext
  <2> HIDE DEF e
  <2> QED BY <2>1, <2>2, CheckQueues DEF Fuller, Queued
<1> QED BY <1>1, <1>2

LEMMA SeenQueues ==
  ASSUME MnInv, Queued(Context), NEW src, NEW r
  PROVE  LET seen == IF src \in Cns THEN UpdateCnState(Context, src, r) ELSE Context
         IN  Fuller(Context, seen)
BY UpdateQueues DEF MnInv, Fuller

LEMMA PresQueues ==
  ASSUME NEW c, IsContext(c), Queued(c), NEW src \in Nodes,
         NEW request \in Priorities \cup {NoRequest}, NEW flag, NEW fits
  PROVE  Fuller(c, HandlePRes(c, src, request, flag, fits))
<1> DEFINE asked == IF request = NoRequest THEN c
                    ELSE [c EXCEPT !.asyncReqs[<<src, request>>] = @ + 1]
           noted == IF flag = ea[src] THEN asked
                    ELSE [asked EXCEPT !.statusReqs = QueueStatusRequest(@, src)]
<1>1. /\ IsContext(asked) /\ asked.cmds = c.cmds /\ asked.statusReqs = c.statusReqs
  BY DEF IsContext, IsRecord
<1>2. asked.asyncReqs \in [AsyncRequest -> Nat]
  <2>1. CASE request = NoRequest
    BY <2>1 DEF Queued
  <2>2. CASE request # NoRequest
    <3>1. <<src, request>> \in AsyncRequest
      BY <2>2 DEF AsyncRequest
    <3>2. asked.asyncReqs = [c.asyncReqs EXCEPT ![<<src, request>>] = @ + 1]
      BY <2>2 DEF IsContext, IsRecord
    <3> HIDE DEF asked
    <3> QED BY <3>1, <3>2 DEF Queued
  <2> QED BY <2>1, <2>2
<1>3. Fuller(c, asked)
  BY <1>1, <1>2 DEF Fuller, Queued
<1>4. CASE src \notin Cns
  BY <1>3, <1>4 DEF HandlePRes
<1>5. CASE src \in Cns
  <2>1. HandlePRes(c, src, request, flag, fits) = CheckCommunication(noted, src, fits)
    BY <1>5 DEF HandlePRes
  <2> HIDE DEF asked
  <2>2. IsContext(noted) /\ noted.cmds = asked.cmds /\ noted.asyncReqs = asked.asyncReqs
    <3>1. /\ QueueStatusRequest(asked.statusReqs, src) \in Seq(Cns)
          /\ Distinct(QueueStatusRequest(asked.statusReqs, src))
      BY <1>1, <1>5, QueueLemma DEF IsContext
    <3> QED BY <1>1, <3>1 DEF IsContext, IsRecord
  <2> HIDE DEF noted
  <2> DEFINE e == [noted EXCEPT !.commOk[src] = TRUE]
  <2>3. CASE noted.nmt = "ReadyToOp" /\ ~noted.commOk[src] /\ fits
    <3>1. IsContext(e) /\ e.cmds = noted.cmds /\ e.asyncReqs = noted.asyncReqs
      BY <1>5, <2>2 DEF IsContext, IsRecord
    <3>2. CheckCommunication(noted, src, fits) = CheckBootupState(e)
      BY <2>3 DEF CheckCommunication
    <3> HIDE DEF e
    <3> QED BY <1>3, <2>1, <2>2, <3>1, <3>2, CheckQueues DEF Fuller, Queued
  <2>4. CASE ~(noted.nmt = "ReadyToOp" /\ ~noted.commOk[src] /\ fits)
    BY <1>3, <2>1, <2>2, <2>4 DEF CheckCommunication, Fuller, Queued
  <2> QED BY <2>3, <2>4
<1> QED BY <1>4, <1>5
-----------------------------------------------------------------------------
(* The cycle: the frames, queues and polls that advance_cycle_phase leaves. *)

Frame == {"none", "SoC", "PReq", "SoA", "ASnd", "Publish"} \X (0 .. Broadcast)

\* The frames and SDO requests that wait, and the nodes polled last.
SlotTypes ==
  /\ sendQ \in Nat /\ sdoReqs \in Nat
  /\ lastIdent \in Cns \cup {NoNode} /\ lastStatus \in Cns \cup {NoNode}

\* What a step of the cycle writes.
CycleTypes ==
  /\ call \in {"idle", "tick", "hung"} /\ out \in Frame
  /\ phase \in CyclePhase /\ polled \in Cns \cup {NoNode}
  /\ Queued(Context) /\ SlotTypes /\ SelfGrantUsed

\* A frame to or for a node.
LEMMA FrameLemma ==
  /\ NoFrame \in Frame /\ <<"SoC", NoNode>> \in Frame /\ <<"Publish", NoNode>> \in Frame
  /\ <<"SoA", NoNode>> \in Frame /\ <<"SoA", Self>> \in Frame /\ <<"ASnd", Broadcast>> \in Frame
  /\ \A n \in Nodes : /\ <<"SoA", n>> \in Frame /\ <<"PReq", n>> \in Frame
                      /\ <<"ASnd", n>> \in Frame
BY NodeAssumption DEF Frame, NoFrame, NoNode, Self, Broadcast, Nodes

LEMMA ReturnLemma ==
  ASSUME NEW f \in Frame, NEW b, Return(f, b)
  PROVE  call' \in {"idle", "tick", "hung"} /\ out' \in Frame
BY FrameLemma DEF Return

\* The address that is identified next is one of those that are not.
LEMMA IdentifyLemma ==
  ASSUME NEW cns, Unidentified(cns) # {}, lastIdent \in Cns \cup {NoNode}
  PROVE  NextToIdentify(cns) \in Cns
<1> DEFINE D == { Distance(n) : n \in Unidentified(cns) }
<1>1. Unidentified(cns) \subseteq Cns
  BY DEF Unidentified
<1>2. D \subseteq Nat
  <2> SUFFICES ASSUME NEW n \in Cns PROVE Distance(n) \in Nat
    BY <1>1
  <2>1. MaxNodeId \in Nat \ {0} /\ n \in Int /\ lastIdent \in Int
    BY NodeAssumption DEF Nodes, NoNode
  <2> QED BY <2>1 DEF Distance
<1>3. \E m \in D : \A n \in D : m <= n
  <2>1. D # {}
    OBVIOUS
  <2> HIDE DEF D
  <2> QED BY <1>2, <2>1, LeastNumber
<1>4. \E n \in Unidentified(cns) : \A m \in Unidentified(cns) : Distance(n) <= Distance(m)
  BY <1>3
<1> QED BY <1>1, <1>4 DEF NextToIdentify

\* So is the async-only node that is polled next.
LEMMA AsyncOnlyLemma ==
  ASSUME NEW cns, AsyncOnlyToPoll(cns) # {}
  PROVE  NextAsyncOnly(cns) \in Cns
<1>1. AsyncOnlyToPoll(cns) \subseteq Nat /\ AsyncOnlyToPoll(cns) \subseteq 0 .. Len(AsyncOnlyNodes) - 1
  BY NodeAssumption DEF AsyncOnlyToPoll
<1>2. \E d \in AsyncOnlyToPoll(cns) : \A f \in AsyncOnlyToPoll(cns) : d <= f
  BY <1>1, LeastNumber
<1> DEFINE d == CHOOSE d \in AsyncOnlyToPoll(cns) : \A f \in AsyncOnlyToPoll(cns) : d <= f
           l == Len(AsyncOnlyNodes)
<1>3. d \in 0 .. l - 1
  BY <1>1, <1>2
<1>4. AsyncOnlyNodes \in Seq(Cns) /\ l \in Nat /\ DOMAIN AsyncOnlyNodes = 1 .. l
  BY NodeAssumption
<1>5. AsyncOnlyStart \in Nat
  <2>1. \A i \in DOMAIN AsyncOnlyNodes : i \in Nat
    BY <1>4
  <2> QED BY <2>1 DEF AsyncOnlyStart
<1>6. NextAsyncOnly(cns) = AsyncOnlyNodes[((AsyncOnlyStart + d) % l) + 1]
  BY DEF NextAsyncOnly, AsyncOnlyAt
<1> HIDE DEF d, l
<1>7. ((AsyncOnlyStart + d) % l) + 1 \in 1 .. l
  BY <1>3, <1>4, <1>5
<1> QED BY <1>4, <1>6, <1>7 DEF l

\* The parts of CycleTypes for a cycle that goes on with a context like c.
LEMMA InviteTypes ==
  ASSUME NEW c, IsContext(c), Queued(c), NEW n \in Nodes, NEW b, Invite(c, n, b)
  PROVE  /\ call' \in {"idle", "tick", "hung"} /\ out' \in Frame
         /\ phase' = "AsynchronousSoA" /\ Queued(Context)'
<1>1. call' \in {"idle", "tick", "hung"} /\ out' \in Frame
  BY ReturnLemma, FrameLemma DEF Invite
<1>2. cmds' = c.cmds /\ asyncReqs' = c.asyncReqs /\ phase' = "AsynchronousSoA"
  BY DEF Invite, Store, IsContext, IsRecord
<1> QED BY <1>1, <1>2 DEF Queued, Context

LEMMA StoreQueues ==
  ASSUME NEW c, Queued(c), Store(c)
  PROVE  Queued(Context)' /\ cmds' = c.cmds
BY DEF Store, Queued, Context

\* determine_next_async_action invites the MN itself only with something to
\* send: a command, a queued frame, or one it queues.
LEMMA AsyncTypes ==
  ASSUME NEW c, IsContext(c), Queued(c), SlotTypes, NEW b, AsyncPhase(c, b)
  PROVE  /\ call' \in {"idle", "tick", "hung"} /\ out' \in Frame /\ phase' \in CyclePhase
         /\ Queued(Context)' /\ SlotTypes' /\ SelfGrantUsed'
<1> DEFINE Goal == /\ call' \in {"idle", "tick", "hung"} /\ out' \in Frame
                   /\ phase' \in CyclePhase
                   /\ Queued(Context)' /\ SlotTypes' /\ SelfGrantUsed'
<1> SUFFICES Goal
  OBVIOUS
<1> USE DEF SlotTypes, slotVars
<1>0. \A n \in Cns : n \in Nodes
  BY NodeAssumption
<1>a. ASSUME NEW d, IsContext(d), Queued(d), NEW n \in Nodes, Invite(d, n, b), SlotTypes'
      PROVE  Goal
  BY <1>a, InviteTypes DEF CyclePhase, SelfGrantUsed
<1>b. ASSUME InviteSelf(c, b), SlotTypes', c.cmds # <<>> \/ sendQ' > 0
      PROVE  Goal
  <2>1. call' \in {"idle", "tick", "hung"} /\ out' \in Frame
    BY <1>b, ReturnLemma, FrameLemma DEF InviteSelf
  <2>2. Queued(Context)' /\ cmds' = c.cmds /\ phase' = "AwaitingMnAsyncSend"
    BY <1>b, StoreQueues DEF InviteSelf
  <2> QED BY <1>b, <2>1, <2>2 DEF CyclePhase, SelfGrantUsed
<1> HIDE DEF Goal
<1>1. CASE c.statusReqs # <<>>
  <2> DEFINE d == [c EXCEPT !.statusReqs = SubSeq(@, 1, Len(@) - 1)]
             n == c.statusReqs[Len(c.statusReqs)]
  <2>1. IsContext(d) /\ Queued(d)
    <3>1. /\ SubSeq(c.statusReqs, 1, Len(c.statusReqs) - 1) \in Seq(Cns)
          /\ Distinct(SubSeq(c.statusReqs, 1, Len(c.statusReqs) - 1))
      BY <1>1, FrontLemma DEF IsContext
    <3> QED BY <3>1 DEF IsContext, IsRecord, Queued
  <2>2. Invite(d, n, b) /\ UNCHANGED slotVars
    BY <1>1 DEF AsyncPhase
  <2>3. n \in Nodes
    BY <1>0, <1>1 DEF IsContext
  <2> HIDE DEF d, n
  <2> QED BY <1>a, <2>1, <2>2, <2>3
<1>2. CASE c.statusReqs = <<>> /\ (c.cmds # <<>> \/ sendQ > 0)
  BY <1>2, <1>b DEF AsyncPhase
<1>3. CASE /\ c.statusReqs = <<>> /\ ~(c.cmds # <<>> \/ sendQ > 0) /\ sdoReqs > 0
  <2>1. InviteSelf(c, b) /\ sdoReqs' = sdoReqs - 1 /\ sendQ' = sendQ + 1
        /\ UNCHANGED <<lastIdent, lastStatus>>
    BY <1>3 DEF AsyncPhase, QueueSdoFrame
  <2> QED BY <1>3, <1>b, <2>1
<1> DEFINE quiet == c.statusReqs = <<>> /\ ~(c.cmds # <<>> \/ sendQ > 0) /\ ~(sdoReqs > 0)
<1>4. CASE quiet /\ Unidentified(c.cn) # {}
  <2>1. /\ Invite(c, NextToIdentify(c.cn), b) /\ lastIdent' = NextToIdentify(c.cn)
        /\ UNCHANGED <<sendQ, sdoReqs, lastStatus>>
    BY <1>4 DEF AsyncPhase
  <2>2. NextToIdentify(c.cn) \in Cns
    BY <1>4, IdentifyLemma
  <2> QED BY <1>0, <1>a, <2>1, <2>2
<1>5. CASE quiet /\ Unidentified(c.cn) = {} /\ SearchLoops(c.cn)
  <2>1. /\ call' = "hung" /\ phase' = "IsochronousDone" /\ Store(c) /\ out' = NoFrame
        /\ UNCHANGED slotVars
    BY <1>5 DEF AsyncPhase
  <2> QED BY <2>1, StoreQueues, FrameLemma DEF Goal, CyclePhase, SelfGrantUsed
<1> DEFINE still == quiet /\ Unidentified(c.cn) = {} /\ ~SearchLoops(c.cn)
<1>6. CASE still /\ AsyncOnlyToPoll(c.cn) # {}
  <2>1. /\ Invite(c, NextAsyncOnly(c.cn), b) /\ lastStatus' = NextAsyncOnly(c.cn)
        /\ UNCHANGED <<sendQ, sdoReqs, lastIdent>>
    BY <1>6 DEF AsyncPhase
  <2>2. NextAsyncOnly(c.cn) \in Cns
    BY <1>6, AsyncOnlyLemma
  <2> QED BY <1>0, <1>a, <2>1, <2>2
<1>7. CASE still /\ AsyncOnlyToPoll(c.cn) = {} /\ mux \in PublishCycles
  <2>1. InviteSelf(c, b) /\ sendQ' = sendQ + 1 /\ UNCHANGED <<sdoReqs, lastIdent, lastStatus>>
    BY <1>7 DEF AsyncPhase
  <2> QED BY <1>b, <2>1
<1>8. CASE /\ still /\ AsyncOnlyToPoll(c.cn) = {} /\ mux \notin PublishCycles
           /\ TopRequests(c.asyncReqs) # {}
  <2>1. UNCHANGED slotVars
    BY <1>8 DEF AsyncPhase
  <2>2. PICK r \in TopRequests(c.asyncReqs) : Invite([c EXCEPT !.asyncReqs[r] = @ - 1], r[1], b)
    BY <1>8 DEF AsyncPhase
  <2> DEFINE d == [c EXCEPT !.asyncReqs[r] = @ - 1]
  <2>3. r \in AsyncRequest /\ c.asyncReqs[r] > 0 /\ r[1] \in Nodes
    BY DEF TopRequests, AsyncRequest
  <2>4. IsContext(d) /\ d.cmds = c.cmds /\ d.asyncReqs = [c.asyncReqs EXCEPT ![r] = @ - 1]
    BY DEF IsContext, IsRecord
  <2>5. Invite(d, r[1], b)
    BY <2>2
  <2> HIDE DEF d
  <2>6. Queued(d)
    BY <2>3, <2>4 DEF Queued
  <2> QED BY <1>a, <2>1, <2>3, <2>4, <2>5, <2>6
<1>9. CASE /\ still /\ AsyncOnlyToPoll(c.cn) = {} /\ mux \notin PublishCycles
           /\ TopRequests(c.asyncReqs) = {}
  <2>1. /\ phase' = "Idle" /\ Store(c) /\ Return(<<"SoA", NoNode>>, b) /\ UNCHANGED slotVars
    BY <1>9 DEF AsyncPhase
  <2> QED BY <2>1, StoreQueues, ReturnLemma, FrameLemma DEF Goal, CyclePhase, SelfGrantUsed
<1> QED BY <1>1, <1>2, <1>3, <1>4, <1>5, <1>6, <1>7, <1>8, <1>9

\* advance_cycle_phase.
LEMMA AdvanceTypes ==
  ASSUME NEW c, IsContext(c), Queued(c), SlotTypes, NEW b, AdvanceCyclePhase(c, b),
         idx \in 0 .. Len(IsochronousNodes)
  PROVE  CycleTypes'
<1> DEFINE todo == IF c.nmt \in AtLeastPreOp2 THEN ToPoll(idx, mux, c.cn) ELSE {}
<1>0. /\ \A n \in Cns : n \in Nodes
      /\ IsochronousNodes \in Seq(Cns) /\ Len(IsochronousNodes) \in Nat
      /\ idx \in Nat
  BY NodeAssumption
<1>1. CASE todo # {}
  <2>1. PICK next \in todo :
          /\ polled' = IsochronousNodes[next] /\ phase' = "IsochronousPReq"
          /\ Store([c EXCEPT !.timer = Schedule(c.timer, PresTimeout[IsochronousNodes[next]]),
                             !.event = "PresTimeout"])
          /\ Return(PReqFrame(IsochronousNodes[next]), b)
          /\ UNCHANGED slotVars
    BY <1>1 DEF AdvanceCyclePhase
  <2>2. IsochronousNodes[next] \in Cns
    <3>1. next \in 1 .. Len(IsochronousNodes)
      BY <1>0 DEF ToPoll
    <3> QED BY <1>0, <3>1
  <2>3. PReqFrame(IsochronousNodes[next]) \in Frame
    BY <1>0, <2>2, FrameLemma DEF PReqFrame
  <2>4. call' \in {"idle", "tick", "hung"} /\ out' \in Frame
    BY <2>1, <2>3, ReturnLemma
  <2>5. cmds' = c.cmds /\ asyncReqs' = c.asyncReqs
    BY <2>1 DEF Store, IsContext, IsRecord
  <2>6. Queued(Context)'
    BY <2>5 DEF Queued, Context
  <2> QED BY <2>1, <2>2, <2>4, <2>6 DEF CycleTypes, CyclePhase, SlotTypes, slotVars, SelfGrantUsed
<1>2. CASE todo = {}
  <2>1. /\ polled' = NoNode
        /\ \/ /\ phase' = "Idle" /\ Store(c)
              /\ Return(<<"Publish", NoNode>>, b)
              /\ UNCHANGED slotVars
           \/ AsyncPhase(c, b)
    BY <1>2 DEF AdvanceCyclePhase
  <2>2. CASE AsyncPhase(c, b)
    BY <2>1, <2>2, AsyncTypes DEF CycleTypes
  <2>3. CASE /\ phase' = "Idle" /\ Store(c)
             /\ Return(<<"Publish", NoNode>>, b)
             /\ UNCHANGED slotVars
    BY <2>1, <2>3, StoreQueues, ReturnLemma, FrameLemma
       DEF CycleTypes, CyclePhase, SlotTypes, slotVars, SelfGrantUsed
  <2> QED BY <2>1, <2>2, <2>3
<1> QED BY <1>1, <1>2

\* A handler ends in context c, with the slot still granted only where it was.
LEMMA StoreTypes ==
  ASSUME CycleTypes, NEW c, Fuller(Context, c), Store(c), out' \in Frame,
         call' \in {"idle", "tick", "hung"}, phase' \in {phase, "Idle"},
         UNCHANGED polled, SlotTypes', sendQ' = sendQ
  PROVE  CycleTypes'
<1>1. Queued(Context)' /\ cmds' = c.cmds
  BY StoreQueues DEF Fuller
<1>2. SelfGrantUsed'
  BY <1>1 DEF CycleTypes, SelfGrantUsed, Fuller, Context
<1> QED BY <1>1, <1>2 DEF CycleTypes, CyclePhase

-----------------------------------------------------------------------------
(* The other variables.                                                     *)

OtherTypes ==
  /\ since \in 0 .. CycleTime /\ dll \in DllMsState /\ mux \in 0 .. MuxLen - 1
  /\ en \in [Cns -> BOOLEAN] /\ ea \in [Cns -> BOOLEAN] /\ arp \subseteq Cns
  /\ loss \in [0 .. MaxNodeId -> 0 .. LossThreshold - 1]
  /\ opDone \in BOOLEAN

LEMMA DllLemma ==
  ASSUME dll \in DllMsState, NEW e, NEW c, NEW ix, NEW m, DllStep(e, c, ix, m)
  PROVE  dll' \in DllMsState
<1> DEFINE a == \E r \in AsyncRequest : c.asyncReqs[r] > 0
           i == ToPoll(ix, m, c.cn) # {} \/ phase = "IsochronousPReq"
           x == e \in {"Pres", "Asnd"}
<1>1. dll' = MsProcessEvent(dll, e, c.nmt, x, a, i)
  BY DEF DllStep
<1> HIDE DEF a, i, x
<1>2. MsReduced(dll, e, x, a) \in DllMsState
  BY DEF MsReduced, DllMsState
<1>3. MsCyclic(dll, e, a, i) \in DllMsState
  BY DEF MsCyclic, DllMsState
<1> QED BY <1>1, <1>2, <1>3 DEF MsProcessEvent, DllMsState

\* The counter of lost PRes is cleared before it passes the threshold.
LEMMA LossLemma ==
  ASSUME loss \in [0 .. MaxNodeId -> 0 .. LossThreshold - 1], NEW e, CountLoss(e)
  PROVE  loss' \in [0 .. MaxNodeId -> 0 .. LossThreshold - 1]
<1>1. CASE MsReportsLoss(dll, e, nmt) /\ polled \in 0 .. MaxNodeId
  <2>1. loss[polled] \in 0 .. LossThreshold - 1
    BY <1>1
  <2>2. (IF ResetsNode(e) THEN 0 ELSE loss[polled] + LossPenalty) \in 0 .. LossThreshold - 1
    BY <1>1, <2>1 DEF ResetsNode, LossPenalty, LossThreshold
  <2> QED BY <1>1, <2>2 DEF CountLoss
<1>2. CASE ~(MsReportsLoss(dll, e, nmt) /\ polled \in 0 .. MaxNodeId)
  BY <1>2 DEF CountLoss
<1> QED BY <1>1, <1>2

\* What a step leaves alone keeps its type.
LEMMA OtherLemma ==
  ASSUME OtherTypes, UNCHANGED <<since, mux, en, ea, arp, loss, opDone>>, dll' \in DllMsState
  PROVE  OtherTypes'
BY DEF OtherTypes

-----------------------------------------------------------------------------
(* Types and the self-granted slot, action by action.                       *)

MnTypes == CycleTypes /\ OtherTypes

LEMMA PresTypes ==
  ASSUME MnInv, MnTypes, NEW src \in Senders, NEW r,
         NEW request \in Priorities \cup {NoRequest}, NEW flag \in EnFlags, NEW fits,
         ReceivePRes(src, r, request, flag, fits)
  PROVE  MnTypes'
<1> DEFINE seen  == IF src \in Cns THEN UpdateCnState(Context, src, r) ELSE Context
           quiet == [seen EXCEPT !.event = "None"]
<1>0. src \in Nodes /\ flag \in BOOLEAN
  BY MnEnvironmentAssumption
<1>1. IsContext(seen) /\ Fuller(Context, seen)
  BY SeenLemma, SeenQueues DEF Harmless, MnTypes, CycleTypes
<1>2. OtherTypes'
  <2>1. dll' \in DllMsState
    BY DllLemma DEF ReceivePRes, MnTypes, OtherTypes
  <2>2. en' \in [Cns -> BOOLEAN]
    BY <1>0 DEF ReceivePRes, MnTypes, OtherTypes
  <2> QED BY <2>1, <2>2 DEF ReceivePRes, MnTypes, OtherTypes
<1>3. CASE phase = "IsochronousPReq" /\ polled = src
  <2> DEFINE d == HandlePRes(quiet, src, request, flag, fits)
  <2>1. AdvanceCyclePhase(d, FALSE)
    BY <1>3 DEF ReceivePRes
  <2> HIDE DEF seen
  <2>2. IsContext(quiet) /\ quiet.cmds = seen.cmds /\ quiet.asyncReqs = seen.asyncReqs
    BY <1>1 DEF IsContext, IsRecord
  <2> HIDE DEF quiet
  <2>3. IsContext(d) /\ Queued(d)
    BY <1>0, <1>1, <2>2, PresLemma, PresQueues DEF Fuller, Queued
  <2> HIDE DEF d
  <2> QED BY <1>2, <2>1, <2>3, AdvanceTypes DEF MnTypes, CycleTypes, MnInv
<1>4. CASE ~(phase = "IsochronousPReq" /\ polled = src)
  <2> DEFINE d == HandlePRes(seen, src, request, flag, fits)
  <2>1. /\ Store(d) /\ call' = "tick" /\ out' = NoFrame
        /\ UNCHANGED <<phase, polled, idx, slotVars>>
    BY <1>4 DEF ReceivePRes
  <2> HIDE DEF seen
  <2>2. Fuller(seen, d)
    BY <1>0, <1>1, PresQueues DEF Fuller
  <2> HIDE DEF d
  <2>3. Fuller(Context, d)
    BY <1>1, <2>2 DEF Fuller
  <2>4. SlotTypes' /\ sendQ' = sendQ
    BY <2>1 DEF slotVars, SlotTypes, MnTypes, CycleTypes
  <2> QED BY <1>2, <2>1, <2>3, <2>4, StoreTypes, FrameLemma DEF MnTypes
<1> QED BY <1>3, <1>4

LEMMA AsndTypes ==
  ASSUME CycleTypes, NEW c, IsRecord(c), Fuller(Context, c), AsndEndsSlot(c), FrameHandled,
         UNCHANGED polled, SlotTypes', sendQ' = sendQ
  PROVE  CycleTypes'
<1> DEFINE d == [c EXCEPT !.event = "None"]
<1>1. Fuller(Context, d)
  BY DEF IsRecord, Fuller, Queued
<1>2. Store(c) \/ Store(d)
  BY DEF AsndEndsSlot
<1>3. out' \in Frame /\ call' \in {"idle", "tick", "hung"} /\ phase' \in {phase, "Idle"}
  BY FrameLemma DEF FrameHandled, AsndEndsSlot
<1> HIDE DEF d
<1> QED BY <1>1, <1>2, <1>3, StoreTypes

LEMMA IdentTypes ==
  ASSUME MnInv, MnTypes, NEW src, NEW result, ReceiveIdentResponse(src, result)
  PROVE  MnTypes'
<1> DEFINE passes == /\ src \in Cns /\ src \in Unidentified(cn)
                     /\ PassesBootStep1(result)
           e == [Context EXCEPT !.cn[src] = "Identified"]
           c == IF passes THEN CheckBootupState(e) ELSE Context
<1>1. AsndEndsSlot(c) /\ FrameHandled /\ UNCHANGED <<polled, sendQ, lastIdent, lastStatus>>
      /\ sdoReqs' \in {sdoReqs, sdoReqs + 1}
  BY DEF ReceiveIdentResponse
<1>2. IsRecord(c) /\ Fuller(Context, c)
  <2>1. CASE ~passes
    BY <2>1 DEF MnInv, IsContext, Fuller, MnTypes, CycleTypes
  <2>2. CASE passes
    <3>1. /\ IsRecord(e) /\ e.nmt = nmt /\ e.commOk = commOk /\ e.timer = timer
          /\ e.event = event /\ e.statusReqs = statusReqs
          /\ e.cn = [cn EXCEPT ![src] = "Identified"]
          /\ e.cmds = cmds /\ e.asyncReqs = asyncReqs
      BY DEF IsRecord, Context
    <3>2. /\ nmt \in MnState /\ cn \in [Cns -> CnState] /\ commOk \in [Cns -> BOOLEAN]
          /\ statusReqs \in Seq(Cns) /\ Distinct(statusReqs)
          /\ timer \in Nat \cup {NoTimer}
          /\ nmt \in AtLeastPreOp2 => AllHeard(cn)
      BY DEF MnInv, IsContext, Context
    <3> HIDE DEF e
    <3>3. e.cn \in [Cns -> CnState] /\ (AllHeard(cn) => AllHeard(e.cn))
      BY <3>1, <3>2, <2>2, NodeAssumption DEF AllHeard, CnState
    <3>4. IsContext(e)
      BY <3>1, <3>2, <3>3 DEF IsContext
    <3>5. Queued(e) /\ e.cmds = Context.cmds
      BY <3>1 DEF Queued, Context, MnTypes, CycleTypes
    <3>6. c = CheckBootupState(e)
      BY <2>2
    <3> HIDE DEF c
    <3>7. Fuller(e, c) /\ IsContext(c)
      BY <3>4, <3>5, <3>6, CheckQueues, CheckLemma
    <3> QED BY <3>5, <3>7 DEF Fuller, IsContext
  <2> QED BY <2>1, <2>2
<1> HIDE DEF c
<1>3. SlotTypes'
  BY <1>1 DEF SlotTypes, MnTypes, CycleTypes
<1>4. CycleTypes'
  BY <1>1, <1>2, <1>3, AsndTypes DEF MnTypes
<1>5. dll' \in DllMsState
  BY <1>1, DllLemma DEF AsndEndsSlot, MnTypes, OtherTypes
<1>6. arp' \subseteq Cns /\ UNCHANGED <<since, mux, en, ea, loss, opDone>>
  BY DEF ReceiveIdentResponse, MnTypes, OtherTypes
<1> QED BY <1>4, <1>5, <1>6 DEF MnTypes, OtherTypes

\* A StatusResponse, decoded or not, and any other ASnd.
LEMMA OtherAsndTypes ==
  ASSUME MnInv, MnTypes, NEW c, IsContext(c), Fuller(Context, c), AsndEndsSlot(c),
         FrameHandled, NEW src, ea' = ea \/ (src \in Cns /\ ea' = [ea EXCEPT ![src] = en[src]]),
         UNCHANGED <<since, polled, idx, mux, en, arp, loss, slotVars, opDone>>
  PROVE  MnTypes'
<1>1. SlotTypes' /\ sendQ' = sendQ
  BY DEF SlotTypes, slotVars, MnTypes, CycleTypes
<1>2. CycleTypes'
  BY <1>1, AsndTypes DEF MnTypes, IsContext
<1>3. dll' \in DllMsState
  BY DllLemma DEF AsndEndsSlot, MnTypes, OtherTypes
<1>4. ea' \in [Cns -> BOOLEAN]
  BY DEF MnTypes, OtherTypes
<1> QED BY <1>2, <1>3, <1>4 DEF MnTypes, OtherTypes

LEMMA ReceiveTypes ==
  ASSUME MnInv, MnTypes, Receive
  PROVE  MnTypes'
<1>1. ASSUME NEW src \in Senders, NEW r \in Reports,
             NEW request \in Priorities \cup {NoRequest}, NEW flag \in EnFlags,
             NEW fits \in BOOLEAN, ReceivePRes(src, r, request, flag, fits)
      PROVE  MnTypes'
  BY <1>1, PresTypes
<1>2. ASSUME NEW src \in Senders, NEW result \in IdentResults,
             ReceiveIdentResponse(src, result)
      PROVE  MnTypes'
  BY <1>2, IdentTypes
<1>3. ASSUME NEW src \in Senders, NEW r \in Reports, ReceiveStatusResponse(src, r)
      PROVE  MnTypes'
  <2> DEFINE seen == IF src \in Cns THEN UpdateCnState(Context, src, r) ELSE Context
  <2>1. IsContext(seen) /\ Fuller(Context, seen)
    BY SeenLemma, SeenQueues DEF Harmless, MnTypes, CycleTypes
  <2>2. AsndEndsSlot(seen)
    BY <1>3 DEF ReceiveStatusResponse
  <2> HIDE DEF seen
  <2> QED BY <1>3, <2>1, <2>2, OtherAsndTypes DEF ReceiveStatusResponse
<1>4. IsContext(Context) /\ Fuller(Context, Context)
  BY DEF MnInv, Fuller, MnTypes, CycleTypes
<1>5. ASSUME NEW src \in Senders, ReceiveBadStatusResponse(src)
      PROVE  MnTypes'
  BY <1>4, <1>5, OtherAsndTypes DEF ReceiveBadStatusResponse
<1>6. CASE ReceiveOtherASnd
  BY <1>4, <1>6, OtherAsndTypes DEF ReceiveOtherASnd
<1>7. ASSUME NEW more \in {0, 1}, ReceiveSdo(more)
      PROVE  MnTypes'
  <2>1. sdoReqs' \in Nat
    BY <1>7 DEF ReceiveSdo, MnTypes, CycleTypes, SlotTypes
  <2> QED BY <1>7, <2>1, FrameLemma
          DEF ReceiveSdo, FrameHandled, MnTypes, CycleTypes, SlotTypes, OtherTypes, ctxVars,
              Queued, Context, SelfGrantUsed
<1> QED BY <1>1, <1>2, <1>3, <1>5, <1>6, <1>7 DEF Receive

LEMMA ConsumedQueues ==
  ASSUME MnInv, Queued(Context)
  PROVE  IsContext(Consumed) /\ Fuller(Context, Consumed)
<1>1. Consumed.cmds = cmds /\ Consumed.asyncReqs = asyncReqs
  BY DEF Consumed, Context
<1> QED BY <1>1, ConsumedLemma DEF Harmless, Fuller, Queued, Context

\* NMTStartNode is queued for a mandatory CN.
LEMMA StartQueues ==
  ASSUME MnInv, Queued(Context)
  PROVE  IsContext(StartNodeQueued) /\ Fuller(Context, StartNodeQueued)
<1> DEFINE first == CHOOSE n \in Mandatory : \A m \in Mandatory : n <= m
           q == Append(Consumed.cmds, <<"StartNode", first>>)
<1>1. IsContext(StartNodeQueued)
  BY QueuedLemma DEF Harmless
<1>2. CASE StartNodeQueued = Consumed
  BY <1>2, ConsumedQueues
<1>3. CASE StartNodeQueued # Consumed
  <2>1. Mandatory # {} /\ StartNodeQueued = [Consumed EXCEPT !.cmds = q]
    BY <1>3 DEF StartNodeQueued
  <2>2. first \in Nodes
    <3>1. Mandatory \subseteq Nat /\ Mandatory \subseteq Nodes
      BY NodeAssumption DEF Nodes
    <3>2. \E n \in Mandatory : \A m \in Mandatory : n <= m
      BY <2>1, <3>1, LeastNumber
    <3> QED BY <3>1, <3>2
  <2> HIDE DEF first
  <2>3. q \in Seq(Command \X Nodes) /\ q # <<>>
    <3>1. <<"StartNode", first>> \in Command \X Nodes
      BY <2>2 DEF Command
    <3>2. Consumed.cmds \in Seq(Command \X Nodes)
      BY ConsumedQueues DEF Fuller, Queued
    <3> QED BY <3>1, <3>2
  <2> HIDE DEF q
  <2>4. StartNodeQueued.cmds = q /\ StartNodeQueued.asyncReqs = Consumed.asyncReqs
    BY <2>1, ConsumedQueues DEF IsContext, IsRecord
  <2> QED BY <1>1, <2>3, <2>4, ConsumedQueues DEF Fuller, Queued
<1> QED BY <1>2, <1>3

\* A tick that ends in context c and touches nothing else of the cycle.
LEMMA TickTypes ==
  ASSUME MnTypes, NEW c, Fuller(Context, c), Store(c), out' \in Frame, call' = "idle",
         UNCHANGED <<phase, polled, slotVars>>
  PROVE  CycleTypes'
<1>1. SlotTypes' /\ sendQ' = sendQ
  BY DEF SlotTypes, slotVars, MnTypes, CycleTypes
<1> QED BY <1>1, StoreTypes DEF MnTypes

LEMMA StartCycleTypes ==
  ASSUME MnInv, MnTypes, TickStartCycle
  PROVE  MnTypes'
<1>1. /\ call' = "idle" /\ phase' = "SoCSent" /\ out' = <<"SoC", NoNode>>
      /\ UNCHANGED <<polled, en, ea, arp, loss, ctxVars, slotVars, opDone>>
  BY DEF TickStartCycle
<1>2. CycleTypes'
  BY <1>1, FrameLemma DEF MnTypes, CycleTypes, SlotTypes, slotVars, ctxVars, Queued, Context,
                          CyclePhase, SelfGrantUsed
<1>3. dll' \in DllMsState
  BY DllLemma DEF TickStartCycle, MnTypes, OtherTypes
<1>4. since' \in 0 .. CycleTime
  BY MnTimingAssumption DEF TickStartCycle
<1>5. mux' \in 0 .. MuxLen - 1
  <2>1. mux' = (mux + 1) % MuxLen /\ mux \in Nat /\ MuxLen \in Nat \ {0}
    BY NodeAssumption DEF TickStartCycle, MnTypes, OtherTypes
  <2> QED BY <2>1
<1> QED BY <1>1, <1>2, <1>3, <1>4, <1>5 DEF MnTypes, OtherTypes

LEMMA TimeoutTypes ==
  ASSUME MnInv, MnTypes, TickTimeout
  PROVE  MnTypes'
<1> DEFINE c == [Consumed EXCEPT !.event = "None"]
           d == AfterLoss(c, event)
<1>1. AdvanceCyclePhase(d, TRUE) /\ DllStep(event, Context, idx, mux) /\ CountLoss(event)
      /\ UNCHANGED <<since, mux, en, ea, arp, opDone>>
  BY DEF TickTimeout
<1>2. IsContext(Consumed) /\ Queued(Consumed)
  BY ConsumedQueues DEF MnTypes, CycleTypes, Fuller
<1>3. IsContext(c) /\ Queued(c)
  BY <1>2 DEF IsContext, IsRecord, Queued
<1> HIDE DEF c
<1>4. IsContext(d) /\ Queued(d)
  <2>1. CASE ~ResetsNode(event)
    BY <1>3, <2>1 DEF AfterLoss
  <2>2. CASE ResetsNode(event)
    <3> DEFINE f == [n \in Cns |-> IF n = polled THEN "Missing" ELSE c.cn[n]]
               q == Append(c.cmds, <<"ResetNode", polled>>)
    <3>1. d = [c EXCEPT !.cn = f, !.cmds = q]
      BY <2>2 DEF AfterLoss
    <3>2. f \in [Cns -> CnState] /\ (AllHeard(c.cn) => AllHeard(f))
      BY <1>3, NodeAssumption DEF IsContext, CnState, AllHeard
    <3>3. polled \in Nodes
      <4>1. event = "PresTimeout"
        BY <2>2 DEF ResetsNode, MsReportsLoss
      <4>2. phase = "IsochronousPReq"
        BY <4>1 DEF MnInv, WaitArmed
      <4> QED BY <4>2, NodeAssumption DEF MnInv, WaitArmed
    <3>4. q \in Seq(Command \X Nodes)
      BY <1>3, <3>3 DEF Queued, Command
    <3> HIDE DEF d, f, q
    <3>5. /\ IsRecord(d) /\ d.nmt = c.nmt /\ d.cn = f /\ d.commOk = c.commOk
          /\ d.statusReqs = c.statusReqs /\ d.event = c.event /\ d.timer = c.timer
          /\ d.cmds = q /\ d.asyncReqs = c.asyncReqs
      BY <1>3, <3>1 DEF IsContext, IsRecord
    <3> QED BY <1>3, <3>2, <3>4, <3>5 DEF IsContext, Queued
  <2> QED BY <2>1, <2>2
<1> HIDE DEF d
<1>5. CycleTypes'
  BY <1>1, <1>4, AdvanceTypes DEF MnInv, MnTypes, CycleTypes
<1>6. dll' \in DllMsState /\ loss' \in [0 .. MaxNodeId -> 0 .. LossThreshold - 1]
  BY <1>1, DllLemma, LossLemma DEF MnTypes, OtherTypes
<1> QED BY <1>1, <1>5, <1>6 DEF MnTypes, OtherTypes

\* What the rest of the tick leaves alone.
LEMMA ProperTypes ==
  ASSUME MnTypes, CycleTickProper
  PROVE  OtherTypes'
BY DEF CycleTickProper, MnTypes, OtherTypes

LEMMA SendTypes ==
  ASSUME MnInv, MnTypes, TickSend
  PROVE  MnTypes'
<1> DEFINE c == StartNodeQueued
           d == [c EXCEPT !.cmds = SubSeq(@, 1, Len(@) - 1)]
<1>1. /\ CycleTickProper /\ phase' = "Idle" /\ call' = "idle"
      /\ UNCHANGED <<polled, lastIdent, lastStatus>>
  BY DEF TickSend
<1>2. IsContext(c) /\ Queued(c)
  BY StartQueues DEF MnTypes, CycleTypes, Fuller
<1>3. Queued(Context)' /\ out' \in Frame /\ sendQ' \in Nat /\ sdoReqs' \in Nat
  <2>1. CASE c.cmds # <<>>
    <3>1. Store(d) /\ out' = <<"ASnd", c.cmds[Len(c.cmds)][2]>> /\ UNCHANGED <<sdoReqs, sendQ>>
      BY <2>1 DEF TickSend
    <3> HIDE DEF c
    <3>2. c.cmds \in Seq(Command \X Nodes) /\ Len(c.cmds) \in Nat /\ Len(c.cmds) # 0
      BY <1>2, <2>1 DEF Queued
    <3>3. SubSeq(c.cmds, 1, Len(c.cmds) - 1) \in Seq(Command \X Nodes)
      BY <3>2, SubSeqProperties
    <3>4. c.cmds[Len(c.cmds)] \in Command \X Nodes
      BY <3>2
    <3>5. d.asyncReqs = c.asyncReqs /\ d.cmds = SubSeq(c.cmds, 1, Len(c.cmds) - 1)
      BY <1>2 DEF IsContext, IsRecord
    <3> HIDE DEF d
    <3>6. Queued(d)
      BY <1>2, <3>3, <3>5 DEF Queued
    <3>7. out' \in Frame
      BY <3>1, <3>4, FrameLemma
    <3> QED BY <3>1, <3>6, <3>7, StoreQueues DEF MnTypes, CycleTypes, SlotTypes
  <2>2. CASE c.cmds = <<>>
    <3>1. /\ Store(c)
          /\ sdoReqs' = IF sdoReqs > 0 THEN sdoReqs - 1 ELSE 0
          /\ sendQ' = IF sendQ > 0 THEN sendQ - 1 ELSE 0
          /\ out' = IF sendQ > 0 THEN <<"ASnd", Broadcast>> ELSE NoFrame
      BY <2>2 DEF TickSend
    <3>2. out' \in Frame
      BY <3>1, FrameLemma, NodeAssumption
    <3>3. sendQ' \in Nat /\ sdoReqs' \in Nat
      BY <3>1 DEF MnTypes, CycleTypes, SlotTypes
    <3> QED BY <1>2, <3>1, <3>2, <3>3, StoreQueues
  <2> QED BY <2>1, <2>2
<1> QED BY <1>1, <1>3, ProperTypes DEF MnTypes, CycleTypes, SlotTypes, CyclePhase, SelfGrantUsed

LEMMA TickActionTypes ==
  ASSUME MnInv, MnTypes, Tick
  PROVE  MnTypes'
<1>0. Queued(Context) /\ SlotTypes /\ dll \in DllMsState
  BY DEF MnTypes, CycleTypes, OtherTypes
<1>1. CASE TickStartCycle
  BY <1>1, StartCycleTypes
<1>2. CASE TickSdo
  <2>1. sdoReqs' \in Nat
    BY <1>0, <1>2 DEF TickSdo, SlotTypes
  <2> QED BY <1>2, <2>1 DEF TickSdo, MnTypes, CycleTypes, SlotTypes, OtherTypes, ctxVars,
                            Queued, Context, SelfGrantUsed
<1>3. CASE TickRests
  BY <1>3, FrameLemma DEF TickRests, MnTypes, CycleTypes, SlotTypes, OtherTypes, ctxVars,
                          slotVars, Queued, Context, SelfGrantUsed
<1>4. CASE TickNotActive
  <2> DEFINE c == [Consumed EXCEPT !.nmt = Nmt(nmt, "Timeout")]
  <2>1. Fuller(Context, c)
    BY <1>0, ConsumedQueues DEF IsContext, IsRecord, Fuller, Queued
  <2>2. /\ Store(c) /\ out' = NoFrame /\ call' = "idle"
        /\ UNCHANGED <<since, dll, phase, polled, mux, en, ea, arp, loss, slotVars, opDone>>
    BY <1>4 DEF TickNotActive
  <2> HIDE DEF c
  <2> QED BY <1>0, <2>1, <2>2, TickTypes, OtherLemma, FrameLemma DEF MnTypes
<1>5. CASE TickTimeout
  BY <1>5, TimeoutTypes
<1>6. CASE TickReducedSoA
  <2>1. CycleTypes'
    BY <1>0, <1>6, ConsumedQueues, AdvanceTypes DEF TickReducedSoA, Fuller, MnInv
  <2> QED BY <1>0, <1>6, <2>1, OtherLemma DEF TickReducedSoA, MnTypes
<1>7. CASE TickBroadcastStart
  <2>1. CycleTypes'
    BY <1>0, <1>7, ConsumedQueues, TickTypes, FrameLemma DEF TickBroadcastStart
  <2> QED BY <1>7, <2>1 DEF TickBroadcastStart, MnTypes, OtherTypes
<1>8. CASE TickSend
  BY <1>8, SendTypes
<1>9. CASE TickAfterSoC
  <2>1. CycleTypes'
    BY <1>0, <1>9, StartQueues, AdvanceTypes DEF TickAfterSoC, Fuller, MnInv
  <2> QED BY <1>9, <2>1, ProperTypes DEF TickAfterSoC, MnTypes
<1>10. CASE TickWaits
  <2> DEFINE c == StartNodeQueued
             d == [c EXCEPT !.timer = WaitNotActive]
  <2>1. /\ Store(d) \/ Store(c)
        /\ CycleTickProper /\ call' = "idle" /\ out' = NoFrame
        /\ UNCHANGED <<phase, polled, idx, slotVars>>
    BY <1>10 DEF TickWaits
  <2>2. IsContext(c) /\ Fuller(Context, c)
    BY <1>0, StartQueues
  <2> HIDE DEF c
  <2>3. Fuller(Context, d)
    BY <2>2 DEF IsContext, IsRecord, Fuller, Queued
  <2> HIDE DEF d
  <2>4. CycleTypes'
    BY <2>1, <2>2, <2>3, TickTypes, FrameLemma
  <2> QED BY <2>1, <2>4, ProperTypes DEF MnTypes
<1> QED BY <1>1, <1>2, <1>3, <1>4, <1>5, <1>6, <1>7, <1>8, <1>9, <1>10 DEF Tick

LEMMA NextTypes ==
  ASSUME MnInv, MnTypes, [Next]_vars
  PROVE  MnTypes'
<1>1. CASE Poll \/ QueueSdoRequest \/ UNCHANGED vars
  <2>1. sdoReqs' \in Nat /\ out' \in Frame /\ call' \in {"idle", "tick", "hung"}
    BY <1>1, FrameLemma DEF Poll, QueueSdoRequest, vars, slotVars, MnTypes, CycleTypes, SlotTypes
  <2>2. UNCHANGED <<since, dll, phase, polled, idx, mux, en, ea, arp, loss, ctxVars,
                    sendQ, lastIdent, lastStatus, opDone>>
    BY <1>1 DEF Poll, QueueSdoRequest, vars, slotVars, ctxVars
  <2> QED BY <2>1, <2>2 DEF MnTypes, CycleTypes, SlotTypes, OtherTypes, ctxVars,
                            Queued, Context, SelfGrantUsed
<1>2. ASSUME NEW target \in Cns, QueueNmtCommand(target)
      PROVE  MnTypes'
  <2>1. /\ UNCHANGED <<call, out, since, dll, phase, polled, mux, en, ea, arp, loss,
                       asyncReqs, slotVars, opDone>>
        /\ cmds' = Append(cmds, <<"Application", target>>)
    BY <1>2 DEF QueueNmtCommand
  <2>2. cmds' \in Seq(Command \X Nodes) /\ cmds' # <<>>
    <3>1. cmds \in Seq(Command \X Nodes) /\ <<"Application", target>> \in Command \X Nodes
      BY NodeAssumption DEF MnTypes, CycleTypes, Queued, Context, Command
    <3> QED BY <2>1, <3>1
  <2> QED BY <2>1, <2>2 DEF MnTypes, CycleTypes, SlotTypes, slotVars, OtherTypes,
                            Queued, Context, SelfGrantUsed
<1>3. CASE TriggerBootStep
  BY <1>3 DEF TriggerBootStep, MnTypes, CycleTypes, SlotTypes, slotVars, OtherTypes,
              Queued, Context, SelfGrantUsed
<1>4. CASE Elapse
  <2>1. since' \in 0 .. CycleTime
    BY <1>4, MnTimingAssumption DEF Elapse, MnTypes, OtherTypes
  <2> QED BY <1>4, <2>1 DEF Elapse, MnTypes, CycleTypes, SlotTypes, slotVars, OtherTypes,
                            Queued, Context, SelfGrantUsed
<1> QED BY <1>1, <1>2, <1>3, <1>4, ReceiveTypes, TickActionTypes DEF Next, Application

LEMMA InitTypes ==
  ASSUME Init
  PROVE  MnTypes
<1>1. CycleTypes
  BY FrameLemma DEF Init, CycleTypes, SlotTypes, Queued, Context, CyclePhase, SelfGrantUsed
<1>2. OtherTypes
  <2>1. mux \in 0 .. MuxLen - 1 /\ since \in 0 .. CycleTime
    BY NodeAssumption DEF Init
  <2>2. loss \in [0 .. MaxNodeId -> 0 .. LossThreshold - 1]
    BY DEF Init, LossThreshold
  <2>3. en \in [Cns -> BOOLEAN] /\ ea \in [Cns -> BOOLEAN] /\ opDone \in BOOLEAN
    BY DEF Init
  <2> QED BY <2>1, <2>2, <2>3 DEF Init, OtherTypes, DllMsState
<1> QED BY <1>1, <1>2 DEF MnTypes

\* The second inductive invariant, on top of MnInv.
THEOREM MnTypesInvariance == Spec => []MnTypes
<1>1. Init => MnTypes
  BY InitTypes
<1>2. MnInv /\ MnTypes /\ [Next]_vars => MnTypes'
  BY NextTypes
<1> QED BY <1>1, <1>2, MnInvariance, PTL DEF Spec

\* Every variable of the MN keeps its type: no round robin hands out an address
\* that is not configured, no counter passes its threshold, no queue gives away
\* what it does not hold.
THEOREM MnTypeCorrect == Spec => []TypeOK
<1>1. MnInv /\ MnTypes => TypeOK
  <2> SUFFICES ASSUME MnInv, MnTypes PROVE TypeOK
    OBVIOUS
  <2>1. event \in {"None", "PresTimeout", "AsndTimeout"}
    BY DEF MnInv, WaitArmed
  <2>2. /\ nmt \in MnState /\ cn \in [Cns -> CnState] /\ commOk \in [Cns -> BOOLEAN]
        /\ statusReqs \in Seq(Cns) /\ timer \in Nat \cup {NoTimer}
        /\ idx \in 0 .. Len(IsochronousNodes)
    BY DEF MnInv, IsContext, Context
  <2>3. asyncReqs \in [AsyncRequest -> Nat] /\ cmds \in Seq(Command \X Nodes)
    BY DEF MnTypes, CycleTypes, Queued, Context
  <2> QED BY <2>1, <2>2, <2>3 DEF MnTypes, CycleTypes, SlotTypes, OtherTypes, Frame, TypeOK
<1> QED BY <1>1, MnInvariance, MnTypesInvariance, PTL

\* The MN that invited itself still has a command or a frame to send when a later
\* call uses the slot, whatever arrived in between (determine_next_async_action
\* and cycle.rs tick).
THEOREM SelfGrantTheorem == Spec => []SelfGrantUsed
<1>1. MnTypes => SelfGrantUsed
  BY DEF MnTypes, CycleTypes
<1> QED BY <1>1, MnTypesInvariance, PTL
-----------------------------------------------------------------------------
(* The pursuit of errors: no handler drops a pending StatusRequest.         *)

\* q holds a request for node n.
Holds(q, n) == \E i \in DOMAIN q : q[i] = n

\* What is needed of a context here.
IsPending(c) == IsRecord(c) /\ c.statusReqs \in Seq(Cns)

LEMMA ContextPending ==
  ASSUME NEW c, IsContext(c)
  PROVE  IsPending(c)
BY DEF IsContext, IsPending

LEMMA CheckPending ==
  ASSUME NEW c, IsPending(c)
  PROVE  IsPending(CheckBootupState(c)) /\ CheckBootupState(c).statusReqs = c.statusReqs
<1> DEFINE d == CheckBootupState(c)
           q == c.cmds \o EnableCommands(c.cn)
<1>1. \/ d = [c EXCEPT !.nmt = Nmt(c.nmt, "AllCnsIdentified"), !.cmds = q]
      \/ d = [c EXCEPT !.nmt = Nmt(c.nmt, "ConfigurationCompleteCnsReady")]
      \/ d = [c EXCEPT !.nmt = Nmt(c.nmt, "AllMandatoryCnsOperational")]
      \/ d = c
  BY DEF CheckBootupState
<1> HIDE DEF d, q
<1>2. IsPending(d) /\ d.statusReqs = c.statusReqs
  BY <1>1 DEF IsPending, IsRecord
<1> QED BY <1>2 DEF d

LEMMA UpdatePending ==
  ASSUME NEW c, IsPending(c), NEW n, NEW r
  PROVE  /\ IsPending(UpdateCnState(c, n, r))
         /\ UpdateCnState(c, n, r).statusReqs = c.statusReqs
<1> DEFINE s  == TrackedState(c.cn[n], r)
           ok == [c.commOk EXCEPT ![n] = @ /\ s \notin {"Unknown", "Identified"}]
           f  == [c.cn EXCEPT ![n] = s]
           e  == [c EXCEPT !.cn = f, !.commOk = ok]
<1>1. UpdateCnState(c, n, r) \in {c, CheckBootupState(e)}
  BY DEF UpdateCnState
<1> HIDE DEF f, ok
<1>2. IsPending(e) /\ e.statusReqs = c.statusReqs
  BY DEF IsPending, IsRecord
<1> HIDE DEF e
<1> QED BY <1>1, <1>2, CheckPending

\* What was pending stays pending, and the node is there afterwards.
LEMMA QueueHolds ==
  ASSUME NEW q \in Seq(Cns), NEW n \in Cns
  PROVE  /\ QueueStatusRequest(q, n) \in Seq(Cns) /\ Holds(QueueStatusRequest(q, n), n)
         /\ \A m : Holds(q, m) => Holds(QueueStatusRequest(q, n), m)
<1>1. CASE Holds(q, n)
  BY <1>1 DEF QueueStatusRequest, Holds
<1>2. CASE ~Holds(q, n)
  <2>1. QueueStatusRequest(q, n) = Append(q, n)
    BY <1>2 DEF QueueStatusRequest, Holds
  <2>2. /\ Append(q, n) \in Seq(Cns) /\ DOMAIN Append(q, n) = 1 .. Len(q) + 1
        /\ DOMAIN q = 1 .. Len(q) /\ Len(q) \in Nat
        /\ \A i \in 1 .. Len(q) : Append(q, n)[i] = q[i]
        /\ Append(q, n)[Len(q) + 1] = n
    OBVIOUS
  <2>3. Holds(Append(q, n), n)
    <3>1. Len(q) + 1 \in DOMAIN Append(q, n)
      BY <2>2
    <3> QED BY <2>2, <3>1 DEF Holds
  <2>4. ASSUME NEW m, Holds(q, m) PROVE Holds(Append(q, n), m)
    <3>1. PICK i \in DOMAIN q : q[i] = m
      BY <2>4 DEF Holds
    <3>2. i \in DOMAIN Append(q, n) /\ Append(q, n)[i] = m
      BY <2>2, <3>1
    <3> QED BY <3>2 DEF Holds
  <2> QED BY <2>1, <2>2, <2>3, <2>4
<1> QED BY <1>1, <1>2

\* Only the newest request leaves the queue.
LEMMA FrontHolds ==
  ASSUME NEW q \in Seq(Cns), q # <<>>, NEW m, Holds(q, m)
  PROVE  m = q[Len(q)] \/ Holds(SubSeq(q, 1, Len(q) - 1), m)
<1> DEFINE f == SubSeq(q, 1, Len(q) - 1)
<1>1. Len(q) \in Nat \ {0} /\ DOMAIN q = 1 .. Len(q)
  OBVIOUS
<1>2. /\ f \in Seq(Cns) /\ Len(f) = IF 1 <= Len(q) - 1 THEN Len(q) - 1 ELSE 0
      /\ \A i \in 1 .. Len(q) - 1 : f[i] = q[i]
  BY <1>1, SubSeqProperties
<1>3. DOMAIN f = 1 .. Len(q) - 1
  BY <1>1, <1>2
<1> HIDE DEF f
<1>4. PICK i \in DOMAIN q : q[i] = m
  BY DEF Holds
<1>5. i = Len(q) \/ i \in 1 .. Len(q) - 1
  BY <1>1, <1>4
<1>6. CASE i \in 1 .. Len(q) - 1
  BY <1>2, <1>3, <1>4, <1>6, Zenon DEF Holds, f
<1> QED BY <1>4, <1>5, <1>6

\* handle_pres_frame drops nothing, and queues the node whose EN is not its EA.
LEMMA PresPending ==
  ASSUME NEW c, IsPending(c), NEW src, NEW request, NEW flag, NEW fits
  PROVE  LET d == HandlePRes(c, src, request, flag, fits)
         IN  /\ IsPending(d)
             /\ \A m : Holds(c.statusReqs, m) => Holds(d.statusReqs, m)
             /\ src \in Cns /\ flag # ea[src] => Holds(d.statusReqs, src)
<1> DEFINE asked == IF request = NoRequest THEN c
                    ELSE [c EXCEPT !.asyncReqs[<<src, request>>] = @ + 1]
           q == QueueStatusRequest(asked.statusReqs, src)
           noted == IF flag = ea[src] THEN asked ELSE [asked EXCEPT !.statusReqs = q]
           e == [noted EXCEPT !.commOk[src] = TRUE]
           d == HandlePRes(c, src, request, flag, fits)
<1>1. IsPending(asked) /\ asked.statusReqs = c.statusReqs
  BY DEF IsPending, IsRecord
<1>2. CASE src \notin Cns
  BY <1>1, <1>2 DEF HandlePRes
<1>3. CASE src \in Cns
  <2>1. d = CheckCommunication(noted, src, fits)
    BY <1>3 DEF HandlePRes
  <2> HIDE DEF asked, d
  <2>2. /\ q \in Seq(Cns) /\ Holds(q, src)
        /\ \A m : Holds(c.statusReqs, m) => Holds(q, m)
    BY <1>1, <1>3, QueueHolds DEF IsPending
  <2> HIDE DEF q
  <2>3. /\ IsPending(noted)
        /\ noted.statusReqs = IF flag = ea[src] THEN c.statusReqs ELSE q
    BY <1>1, <2>2 DEF IsPending, IsRecord
  <2> HIDE DEF noted
  <2>4. IsPending(e) /\ e.statusReqs = noted.statusReqs
    BY <2>3 DEF IsPending, IsRecord
  <2>5. d \in {noted, CheckBootupState(e)}
    BY <2>1 DEF CheckCommunication
  <2> HIDE DEF e
  <2>6. IsPending(d) /\ d.statusReqs = noted.statusReqs
    BY <2>3, <2>4, <2>5, CheckPending
  <2>7. /\ \A m : Holds(c.statusReqs, m) => Holds(d.statusReqs, m)
        /\ flag # ea[src] => Holds(d.statusReqs, src)
    BY <2>2, <2>3, <2>6
  <2> QED BY <1>3, <2>6, <2>7 DEF d
<1> QED BY <1>2, <1>3

\* advance_cycle_phase takes one request at most, and turns to its node.
LEMMA AdvancePending ==
  ASSUME NEW c, IsPending(c), NEW b, AdvanceCyclePhase(c, b), NEW n, Holds(c.statusReqs, n)
  PROVE  Holds(statusReqs', n) \/ TurnsTo(n)'
<1> DEFINE todo == IF c.nmt \in AtLeastPreOp2 THEN ToPoll(idx, mux, c.cn) ELSE {}
<1>1. CASE todo # {}
  <2>1. PICK next \in todo :
          Store([c EXCEPT !.timer = Schedule(c.timer, PresTimeout[IsochronousNodes[next]]),
                          !.event = "PresTimeout"])
    BY <1>1 DEF AdvanceCyclePhase
  <2> DEFINE left == Schedule(c.timer, PresTimeout[IsochronousNodes[next]])
             d == [c EXCEPT !.timer = left, !.event = "PresTimeout"]
  <2>2. Store(d)
    BY <2>1
  <2> HIDE DEF left
  <2>3. d.statusReqs = c.statusReqs
    BY DEF IsPending, IsRecord
  <2> HIDE DEF d
  <2> QED BY <2>2, <2>3 DEF Store
<1>2. CASE todo = {} /\ Store(c)
  BY <1>2 DEF Store
<1>3. CASE todo = {} /\ AsyncPhase(c, b)
  <2>1. c.statusReqs # <<>>
    BY DEF Holds, IsPending
  <2> DEFINE q == SubSeq(c.statusReqs, 1, Len(c.statusReqs) - 1)
             last == c.statusReqs[Len(c.statusReqs)]
             d == [c EXCEPT !.statusReqs = q]
             left == Schedule(d.timer, AsyncTimeout)
             e == [d EXCEPT !.timer = left, !.event = "AsndTimeout"]
  <2>2. Invite(d, last, b)
    BY <1>3, <2>1 DEF AsyncPhase
  <2>3. /\ phase' = "AsynchronousSoA" /\ Store(e)
        /\ out' \in {<<"SoA", last>>, NoFrame}
    BY <2>2 DEF Invite, Return
  <2>4. n = last \/ Holds(q, n)
    BY <2>1, FrontHolds DEF IsPending
  <2> HIDE DEF q, last, left
  <2>5. e.statusReqs = q /\ e.event = "AsndTimeout"
    BY DEF IsPending, IsRecord
  <2> HIDE DEF e
  <2>6. statusReqs' = q /\ event' = "AsndTimeout"
    BY <2>3, <2>5 DEF Store
  <2>7. n = last => TurnsTo(n)'
    BY <2>3, <2>6 DEF TurnsTo
  <2> QED BY <2>4, <2>6, <2>7
<1> QED BY <1>1, <1>2, <1>3 DEF AdvanceCyclePhase

\* What the ticks start from.
LEMMA TickPending ==
  ASSUME MnInv
  PROVE  /\ IsPending(Context) /\ Context.statusReqs = statusReqs
         /\ IsPending(Consumed) /\ Consumed.statusReqs = statusReqs
         /\ IsPending(StartNodeQueued) /\ StartNodeQueued.statusReqs = statusReqs
<1>1. IsPending(Context) /\ Context.statusReqs = statusReqs
  BY ContextPending DEF MnInv, Context
<1>2. IsPending(Consumed) /\ Consumed.statusReqs = statusReqs
  BY <1>1 DEF Consumed, Context, IsPending, IsRecord
<1> DEFINE q == Append(Consumed.cmds,
                       <<"StartNode", CHOOSE n \in Mandatory : \A m \in Mandatory : n <= m>>)
<1>3. StartNodeQueued \in {Consumed, [Consumed EXCEPT !.cmds = q]}
  BY DEF StartNodeQueued
<1> HIDE DEF q
<1>4. /\ IsPending([Consumed EXCEPT !.cmds = q])
      /\ [Consumed EXCEPT !.cmds = q].statusReqs = Consumed.statusReqs
  BY <1>2 DEF IsPending, IsRecord
<1> QED BY <1>1, <1>2, <1>3, <1>4

LEMMA LossPending ==
  ASSUME MnInv, NEW e
  PROVE  LET d == AfterLoss([Consumed EXCEPT !.event = "None"], e)
         IN  IsPending(d) /\ d.statusReqs = statusReqs
<1> DEFINE c == [Consumed EXCEPT !.event = "None"]
           d == AfterLoss(c, e)
           f == [n \in Cns |-> IF n = polled THEN "Missing" ELSE c.cn[n]]
           q == Append(c.cmds, <<"ResetNode", polled>>)
<1>1. IsPending(c) /\ c.statusReqs = statusReqs
  BY TickPending DEF IsPending, IsRecord
<1> HIDE DEF c
<1>2. d \in {c, [c EXCEPT !.cn = f, !.cmds = q]}
  BY DEF AfterLoss
<1> HIDE DEF f, q, d
<1>3. IsPending(d) /\ d.statusReqs = statusReqs
  BY <1>1, <1>2 DEF IsPending, IsRecord
<1> QED BY <1>3 DEF c, d

\* What every step does to a node's request.
Keeps(n) == Holds(statusReqs, n) => Holds(statusReqs', n) \/ TurnsTo(n)'

\* The step of a handler that stores c.
LEMMA StoreKeeps ==
  ASSUME NEW c, c.statusReqs = statusReqs, Store(c), NEW n
  PROVE  Keeps(n)
BY DEF Store, Keeps

LEMMA TickKeeps ==
  ASSUME MnInv, Tick, NEW n
  PROVE  Keeps(n) /\ UNCHANGED <<en, ea>>
<1>1. CASE TickStartCycle \/ TickSdo \/ TickRests
  BY <1>1 DEF TickStartCycle, TickSdo, TickRests, ctxVars, Keeps
<1>2. CASE TickNotActive
  <2> DEFINE c == [Consumed EXCEPT !.nmt = Nmt(nmt, "Timeout")]
  <2>1. c.statusReqs = statusReqs
    BY TickPending DEF IsPending, IsRecord
  <2>2. Store(c) /\ UNCHANGED <<en, ea>>
    BY <1>2 DEF TickNotActive
  <2> HIDE DEF c
  <2> QED BY <2>1, <2>2, StoreKeeps
<1>3. CASE TickTimeout
  <2> DEFINE d == AfterLoss([Consumed EXCEPT !.event = "None"], event)
  <2>1. AdvanceCyclePhase(d, TRUE) /\ UNCHANGED <<en, ea>>
    BY <1>3 DEF TickTimeout
  <2>2. IsPending(d) /\ d.statusReqs = statusReqs
    BY LossPending
  <2> HIDE DEF d
  <2> QED BY <2>1, <2>2, AdvancePending DEF Keeps
<1>4. CASE TickReducedSoA
  BY <1>4, TickPending, AdvancePending DEF TickReducedSoA, Keeps
<1>5. CASE TickBroadcastStart
  BY <1>5, TickPending, StoreKeeps DEF TickBroadcastStart
<1>6. CASE TickSend
  <2> DEFINE c == StartNodeQueued
             q == SubSeq(c.cmds, 1, Len(c.cmds) - 1)
             d == [c EXCEPT !.cmds = q]
  <2>1. (Store(c) \/ Store(d)) /\ UNCHANGED <<en, ea>>
    BY <1>6 DEF TickSend, CycleTickProper
  <2>2. IsPending(c) /\ c.statusReqs = statusReqs
    BY TickPending
  <2> HIDE DEF c, q
  <2>3. d.statusReqs = statusReqs
    BY <2>2 DEF IsPending, IsRecord
  <2> HIDE DEF d
  <2> QED BY <2>1, <2>2, <2>3, StoreKeeps
<1>7. CASE TickAfterSoC
  BY <1>7, TickPending, AdvancePending DEF TickAfterSoC, CycleTickProper, Keeps
<1>8. CASE TickWaits
  <2> DEFINE c == StartNodeQueued
             d == [c EXCEPT !.timer = WaitNotActive]
  <2>1. (Store(c) \/ Store(d)) /\ UNCHANGED <<en, ea>>
    BY <1>8 DEF TickWaits, CycleTickProper
  <2>2. IsPending(c) /\ c.statusReqs = statusReqs
    BY TickPending
  <2> HIDE DEF c
  <2>3. d.statusReqs = statusReqs
    BY <2>2 DEF IsPending, IsRecord
  <2> HIDE DEF d
  <2> QED BY <2>1, <2>2, <2>3, StoreKeeps
<1> QED BY <1>1, <1>2, <1>3, <1>4, <1>5, <1>6, <1>7, <1>8 DEF Tick

\* An ASnd that leaves the context in c.
LEMMA AsndKeeps ==
  ASSUME NEW c, IsPending(c), c.statusReqs = statusReqs, AsndEndsSlot(c), NEW n
  PROVE  Keeps(n)
<1> DEFINE d == [c EXCEPT !.event = "None"]
<1>1. Store(c) \/ Store(d)
  BY DEF AsndEndsSlot
<1>2. d.statusReqs = statusReqs
  BY DEF IsPending, IsRecord
<1> HIDE DEF d
<1> QED BY <1>1, <1>2, StoreKeeps

\* A PRes that brings EN and EA apart leaves a request behind, or the MN has
\* turned to the node at once.
LEMMA PresKeeps ==
  ASSUME MnInv, MnTypes, NEW src, NEW r, NEW request, NEW flag \in BOOLEAN, NEW fits,
         ReceivePRes(src, r, request, flag, fits), NEW n \in Cns, Pursued(n)
  PROVE  Pursued(n)' \/ TurnsTo(n)'
<1> DEFINE seen == IF src \in Cns THEN UpdateCnState(Context, src, r) ELSE Context
           c == [seen EXCEPT !.event = "None"]
<1>0. ea' = ea /\ en' = IF src \in Cns THEN [en EXCEPT ![src] = flag] ELSE en
  BY DEF ReceivePRes
<1>1. \/ AdvanceCyclePhase(HandlePRes(c, src, request, flag, fits), FALSE)
      \/ Store(HandlePRes(seen, src, request, flag, fits))
  BY DEF ReceivePRes
<1>2. IsPending(seen) /\ seen.statusReqs = statusReqs
  BY TickPending, UpdatePending
<1> HIDE DEF seen
<1>3. IsPending(c) /\ c.statusReqs = statusReqs
  BY <1>2 DEF IsPending, IsRecord
<1> HIDE DEF c
<1>4. ASSUME NEW d, IsPending(d), d.statusReqs = statusReqs,
             \/ AdvanceCyclePhase(HandlePRes(d, src, request, flag, fits), FALSE)
             \/ Store(HandlePRes(d, src, request, flag, fits))
      PROVE  Pursued(n)' \/ TurnsTo(n)'
  <2> DEFINE h == HandlePRes(d, src, request, flag, fits)
  <2>1. /\ IsPending(h)
        /\ \A m : Holds(statusReqs, m) => Holds(h.statusReqs, m)
        /\ src \in Cns /\ flag # ea[src] => Holds(h.statusReqs, src)
    BY <1>4, PresPending
  <2>2. AdvanceCyclePhase(h, FALSE) \/ Store(h)
    BY <1>4
  <2> HIDE DEF h
  <2>3. ASSUME Holds(h.statusReqs, n) PROVE Pursued(n)' \/ TurnsTo(n)'
    BY <2>1, <2>2, <2>3, AdvancePending DEF Store, Pursued, Holds
  <2>4. CASE Holds(statusReqs, n)
    BY <2>1, <2>3, <2>4
  <2>5. CASE en[n] = ea[n] /\ src # n
    BY <1>0, <2>5 DEF Pursued
  <2>6. CASE src = n /\ flag # ea[n]
    BY <2>1, <2>3, <2>6
  <2>7. CASE src = n /\ flag = ea[n]
    <3>1. en \in [Cns -> BOOLEAN]
      BY DEF MnTypes, OtherTypes
    <3> QED BY <1>0, <2>7, <3>1 DEF Pursued
  <2> QED BY <2>4, <2>5, <2>6, <2>7 DEF Pursued, Holds
<1> QED BY <1>1, <1>2, <1>3, <1>4

\* EA follows EN where a StatusResponse moves it.
LEMMA FollowLemma ==
  ASSUME MnTypes, NEW src, NEW n \in Cns, Keeps(n), Pursued(n), UNCHANGED en,
         ea' = IF src \in Cns THEN [ea EXCEPT ![src] = en[src]] ELSE ea
  PROVE  Pursued(n)' \/ TurnsTo(n)'
<1>1. ea \in [Cns -> BOOLEAN]
  BY DEF MnTypes, OtherTypes
<1>2. CASE Holds(statusReqs, n)
  BY <1>2 DEF Keeps, Pursued, Holds
<1>3. CASE en[n] = ea[n]
  BY <1>1, <1>3 DEF Pursued
<1> QED BY <1>2, <1>3 DEF Pursued, Holds

LEMMA SameFlags ==
  ASSUME NEW n, Keeps(n), Pursued(n), UNCHANGED <<en, ea>>
  PROVE  Pursued(n)' \/ TurnsTo(n)'
BY DEF Keeps, Pursued, Holds

LEMMA ReceivePursues ==
  ASSUME MnInv, MnTypes, Receive, NEW n \in Cns, Pursued(n)
  PROVE  Pursued(n)' \/ TurnsTo(n)'
<1>1. ASSUME NEW src \in Senders, NEW r \in Reports,
             NEW request \in Priorities \cup {NoRequest}, NEW flag \in EnFlags,
             NEW fits \in BOOLEAN, ReceivePRes(src, r, request, flag, fits)
      PROVE  Pursued(n)' \/ TurnsTo(n)'
  BY <1>1, PresKeeps, MnEnvironmentAssumption
<1>2. ASSUME NEW src \in Senders, NEW result \in IdentResults,
             ReceiveIdentResponse(src, result)
      PROVE  Pursued(n)' \/ TurnsTo(n)'
  <2> DEFINE passes == /\ src \in Cns /\ src \in Unidentified(cn)
                       /\ PassesBootStep1(result)
             e == [Context EXCEPT !.cn[src] = "Identified"]
             c == IF passes THEN CheckBootupState(e) ELSE Context
  <2>1. AsndEndsSlot(c) /\ UNCHANGED <<en, ea>>
    BY <1>2 DEF ReceiveIdentResponse
  <2>2. IsPending(e) /\ e.statusReqs = statusReqs
    BY TickPending DEF IsPending, IsRecord
  <2> HIDE DEF e, passes
  <2>3. IsPending(c) /\ c.statusReqs = statusReqs
    BY <2>2, TickPending, CheckPending
  <2> HIDE DEF c
  <2> QED BY <2>1, <2>3, AsndKeeps, SameFlags
<1>3. ASSUME NEW src \in Senders, NEW r \in Reports, ReceiveStatusResponse(src, r)
      PROVE  Pursued(n)' \/ TurnsTo(n)'
  <2> DEFINE seen == IF src \in Cns THEN UpdateCnState(Context, src, r) ELSE Context
  <2>1. IsPending(seen) /\ seen.statusReqs = statusReqs
    BY TickPending, UpdatePending
  <2>2. /\ AsndEndsSlot(seen) /\ UNCHANGED en
        /\ ea' = IF src \in Cns THEN [ea EXCEPT ![src] = en[src]] ELSE ea
    BY <1>3 DEF ReceiveStatusResponse
  <2> HIDE DEF seen
  <2> QED BY <2>1, <2>2, AsndKeeps, FollowLemma
<1>4. ASSUME NEW src \in Senders, ReceiveBadStatusResponse(src)
      PROVE  Pursued(n)' \/ TurnsTo(n)'
  BY <1>4, TickPending, AsndKeeps, FollowLemma DEF ReceiveBadStatusResponse
<1>5. CASE ReceiveOtherASnd
  BY <1>5, TickPending, AsndKeeps, SameFlags DEF ReceiveOtherASnd
<1>6. ASSUME NEW more \in {0, 1}, ReceiveSdo(more)
      PROVE  Pursued(n)' \/ TurnsTo(n)'
  BY <1>6 DEF ReceiveSdo, ctxVars, Pursued
<1> QED BY <1>1, <1>2, <1>3, <1>4, <1>5, <1>6 DEF Receive

\* No handler, in any order, forgets a CN whose error flag the MN has seen
\* change: its StatusRequest stays pending until EA follows EN or the MN turns
\* to the node (pending_status_requests, en_flag and ea_flag are written by
\* handle_pres_frame, determine_next_async_action and the ASnd handler).
THEOREM ErrorPursuedTheorem == Spec => ErrorPursued
<1>1. MnInv /\ MnTypes /\ [Next]_vars =>
        \A n \in Cns : Pursued(n) => Pursued(n)' \/ TurnsTo(n)'
  <2> SUFFICES ASSUME MnInv, MnTypes, [Next]_vars, NEW n \in Cns, Pursued(n)
               PROVE  Pursued(n)' \/ TurnsTo(n)'
    OBVIOUS
  <2>1. CASE Poll \/ UNCHANGED vars
    BY <2>1 DEF Poll, vars, ctxVars, Pursued
  <2>2. CASE Application \/ Elapse
    BY <2>2 DEF Application, QueueNmtCommand, QueueSdoRequest, TriggerBootStep, Elapse,
                ctxVars, Pursued
  <2>3. CASE Tick
    BY <2>3, TickKeeps, SameFlags
  <2> QED BY <2>1, <2>2, <2>3, ReceivePursues DEF Next
<1> QED BY <1>1, MnInvariance, MnTypesInvariance, PTL DEF Spec, ErrorPursued
=============================================================================
