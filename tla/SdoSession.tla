----------------------------- MODULE SdoSession -----------------------------
(* The SDO client manager of the managing node and the servers it talks to, *)
(* over channels that keep the order and may lose anything: the server of   *)
(* this repository (SdoServer) or one of another make that keeps the        *)
(* sequence layer's rules.  Timeouts may come early, so a retransmission    *)
(* can cross a late answer.                                                 *)
EXTENDS SdoClient

CONSTANTS Targets,      \* the nodes; numbers, the order of the manager's map
          Makes,        \* the makes the servers may have: "own" or "other", one each
          Dictionary,   \* the object dictionary of the managing node and of a server
          MaxJobs,      \* bound: jobs started
          MaxInFlight   \* bound: frames on their way in one direction
CONSTANT Jobs(_)        \* what the application and the CFM may ask of a target
ASSUME SessionAssumption == /\ Targets \subseteq Nat /\ Makes \subseteq [Targets -> {"own", "other"}]
                            /\ MaxJobs \in Nat /\ MaxInFlight \in Nat \ {0} /\ IsDictionary(Dictionary)
Entries == UNSIGNED16 \X UNSIGNED8 \X Seq(UNSIGNED8)
ASSUME JobsAssumption ==
  \A n \in Targets : \A j \in Jobs(n) :
    \/ j.kind \in {"read", "short"}
    \/ j.kind = "write" /\ <<j.index, j.sub, j.data>> \in Entries
    \/ j.kind = "dcf" /\ j.n \in Nat /\ j.entries \in Seq(Entries)

VARIABLES ks,       \* SdoClientManager.connections, the ones in use
          tid,      \* next_transaction_id
          make,     \* of each server
          srv,      \* the connections of an own server: at most the client's
          ods,      \* its dictionary
          oth,      \* the connection of a server of another make
          up, down, \* the requests and the responses on their way
          plan,     \* the writes the jobs consist of, with their transactions
          did       \* the writes a server of another make has completed
client == <<ks, tid>>
server == <<make, srv, ods, oth>>
vars == <<client, server, up, down, plan, did>>

MN == 240
Fit(ch, m) == IF Len(ch) < MaxInFlight THEN Append(ch, m) ELSE ch
Send(ch, out) == [n \in Targets |-> IF \E o \in out : o[1] = n
                                    THEN Fit(ch[n], (CHOOSE o \in out : o[1] = n)[2]) ELSE ch[n]]

NoPeer == [open |-> FALSE, lrs |-> 0, ssn |-> 0, part |-> <<>>, rest |-> 0, reply |-> <<>>]

Init == /\ ks = <<>> /\ tid = 0
        /\ make \in Makes
        /\ srv  = [n \in Targets |-> <<>>]
        /\ ods  = [n \in Targets |-> Dictionary]
        /\ oth  = [n \in Targets |-> NoPeer]
        /\ up   = [n \in Targets |-> <<>>]
        /\ down = [n \in Targets |-> <<>>]
        /\ plan = [n \in Targets |-> <<>>]
        /\ did  = [n \in Targets |-> <<>>]

--------------------------------------------------------------------------
(* The managing node.                                                       *)

\* read_object, write_object, start_configuration_download: every call takes
\* a transaction number; a busy connection refuses the job, and a Concise DCF
\* too short for its number of entries ("short") is refused by an idle one.
\* The frames of an earlier job do not outlive its timeouts (45 s).
EntryBytes(e) == AddressPayload(e[1], e[2]) \o e[3]
Later(t, i) == (((t + i) - 1) % 255) + 1   \* the number i transactions after t
Writes(j, t) ==
  CASE j.kind = "write" -> <<<<t, EntryBytes(<<j.index, j.sub, j.data>>)>>>>
    [] j.kind = "dcf"   -> [i \in 1..Least(j.n, Len(j.entries)) |-> <<Later(t, i), EntryBytes(j.entries[i])>>]
    [] OTHER            -> <<>>
Accepts(k, j) == is_idle(k) /\ j.kind # "short"
Start(n, j) ==
  LET k == ConnOf(ks, n)
      t == NextTid(tid)
      started == CASE j.kind = "read"  -> start_read_job(k, j.index, j.sub, t, Dictionary)
                   [] j.kind = "write" -> start_write_job(k, j.index, j.sub, j.data, t, Dictionary)
                   [] j.kind = "dcf"   -> start_concise_dcf_job(k, j.entries, j.n, t, Dictionary)
  IN /\ tid < MaxJobs
     /\ Accepts(k, j) => up[n] = <<>> /\ down[n] = <<>>
     /\ tid' = t
     /\ ks'  = IF Accepts(k, j) THEN With(ks, n, started) ELSE ks
     /\ plan' = [plan EXCEPT ![n] = IF Accepts(k, j) THEN @ \o Writes(j, t) ELSE @]
     /\ UNCHANGED <<server, up, down, did>>

\* The async slot of the cycle: get_pending_request.
Poll == \E r \in {manager_get_pending_request(ks, Dictionary)} :
          /\ r.ks # ks
          /\ ks'  = r.ks
          /\ up'  = Send(up, r.out)
          /\ UNCHANGED <<tid, server, down, plan, did>>

\* A tick that finds the deadlines of S passed.
ClientTick(S) == /\ S # {}
                 /\ S \subseteq {n \in DOMAIN ks : ks[n].armed}
                 /\ \E r \in {manager_tick(ks, S)} :
                      /\ ks' = r.ks
                      /\ up' = Send(up, r.out)
                 /\ UNCHANGED <<tid, server, down, plan, did>>

\* A response arrives (process_asnd_frame).
Receive(n) == /\ down[n] # <<>>
              /\ ks'   = manager_handle_response(ks, n, Head(down[n]))
              /\ down' = [down EXCEPT ![n] = Tail(@)]
              /\ UNCHANGED <<tid, server, up, plan, did>>

--------------------------------------------------------------------------
(* The servers and the network.                                             *)

OwnReceive(n) ==
  /\ make[n] = "own"
  /\ up[n] # <<>>
  /\ up' = [up EXCEPT ![n] = Tail(@)]
  /\ \E s \in {server_handle_request(srv[n], MN, Head(up[n]), ods[n])} :
       /\ srv'  = [srv EXCEPT ![n] = s.conns]
       /\ ods'  = [ods EXCEPT ![n] = s.r.od]
       /\ down' = [down EXCEPT ![n] = IF s.r.ok THEN Fit(@, Packet(s.r.seq, s.r.cmd)) ELSE @]
  /\ UNCHANGED <<client, make, oth, plan, did>>

\* The tick of an own server whose deadline has passed.
OwnTick(n) ==
  LET s == server_tick(srv[n], MN, ods[n])
  IN /\ Armed(srv[n]) # {}
     /\ srv'  = [srv EXCEPT ![n] = s.conns]
     /\ down' = [down EXCEPT ![n] = IF s.r.ok THEN Fit(@, Packet(s.r.seq, s.r.cmd)) ELSE @]
     /\ UNCHANGED <<client, make, ods, oth, up, plan, did>>

\* A server of another make: it opens, takes a request with the next number,
\* repeats its answer to the last one, and is silent otherwise.  A read is
\* answered in one frame or in three.
Answered(f, q, cmd, part, rest) ==
  LET g == [f EXCEPT !.lrs = q.ssn, !.ssn = Succ(@), !.part = part, !.rest = rest]
  IN [g EXCEPT !.reply = Some(Packet(Header(q.ssn, "ConnectionValid", g.ssn, "ConnectionValid"), cmd))]
OtherAnswer(f, m, big) ==
  LET q == m.seq
      c == m.cmd
      Data(seg, size) == Command(c.tid, TRUE, FALSE, seg, "ReadByIndex", size, <<1>>)
  IN CASE c.abrt -> NoPeer
       [] ~c.abrt /\ q.scon = "Initialization" ->
            [NoPeer EXCEPT !.open = TRUE, !.lrs = q.ssn,
               !.reply = Some(Packet(Header(q.ssn, "Initialization", 0, "Initialization"),
                                     Reply(c.tid, <<>>)))]
       [] ~c.abrt /\ q.scon # "Initialization" /\ c.id = "WriteByIndex" ->
            Answered(f, q, Reply(c.tid, <<>>),
                     IF c.size # None THEN c.payload ELSE f.part \o c.payload, 0)
       [] OTHER ->
            CASE c.seg = "Expedited" /\ ~big -> Answered(f, q, Reply(c.tid, <<1>>), <<>>, 0)
              [] c.seg = "Expedited" /\ big  -> Answered(f, q, Data("Initiate", Some(3)), <<>>, 2)
              [] c.seg = "Segment" /\ f.rest > 1 -> Answered(f, q, Data("Segment", None), <<>>, f.rest - 1)
              [] OTHER -> Answered(f, q, Data("Complete", None), <<>>, 0)
Fresh(f, m) == m.cmd.abrt \/ m.seq.scon = "Initialization" \/ (f.open /\ m.seq.ssn = Succ(f.lrs))

OtherReceive(n, big) ==
  LET m     == Head(up[n])
      f     == oth[n]
      fresh == Fresh(f, m)
      g     == IF fresh THEN OtherAnswer(f, m, big) ELSE f
      again == f.open /\ m.seq.ssn = f.lrs
  IN /\ make[n] = "other"
     /\ up[n] # <<>>
     /\ up'   = [up EXCEPT ![n] = Tail(@)]
     /\ oth'  = [oth EXCEPT ![n] = g]
     /\ down' = [down EXCEPT ![n] = IF (fresh \/ again) /\ g.reply # <<>> THEN Fit(@, g.reply[1]) ELSE @]
     /\ did'  = [did EXCEPT ![n] =
                   IF fresh /\ m.cmd.id = "WriteByIndex" /\ m.cmd.seg \in {"Expedited", "Complete"}
                   THEN Append(@, <<m.cmd.tid, g.part>>) ELSE @]
     /\ UNCHANGED <<client, make, srv, ods, plan>>

LoseRequest(n)  == /\ up[n] # <<>>
                   /\ up' = [up EXCEPT ![n] = Tail(@)]
                   /\ UNCHANGED <<client, server, down, plan, did>>
LoseResponse(n) == /\ down[n] # <<>>
                   /\ down' = [down EXCEPT ![n] = Tail(@)]
                   /\ UNCHANGED <<client, server, up, plan, did>>

Next == \/ \E n \in Targets : \E j \in Jobs(n) : Start(n, j)
        \/ Poll
        \/ \E S \in SUBSET Targets : ClientTick(S)
        \/ \E n \in Targets : \/ Receive(n)
                              \/ OwnReceive(n)
                              \/ OwnTick(n)
                              \/ \E big \in BOOLEAN : OtherReceive(n, big)
                              \/ LoseRequest(n)
                              \/ LoseResponse(n)

Spec == Init /\ [][Next]_vars
\* The cycle grants the manager its slots and ticks, and time passes for some
\* connection that waits; the servers and the network owe nothing.
FairSpec == /\ Spec
            /\ WF_vars(Poll)
            /\ WF_vars(\E S \in SUBSET Targets : ClientTick(S))

--------------------------------------------------------------------------
(* Properties.                                                              *)

\* Every job ends: whatever the network loses or delays, and whenever a server
\* of either make falls silent, the retries of 1302h run out (tick) and the
\* connection is closed and removed.  It takes a server that numbers its
\* answers: one that acknowledges a read and repeats its last number stops the
\* deadline (handle_response), and get_pending_request has nothing to send.
JobEnds == \A n \in Targets : n \in DOMAIN ks ~> n \notin DOMAIN ks

\* s is t with some of its elements left out.
Within(s, t) == \E f \in [DOMAIN s -> DOMAIN t] :
                  /\ \A i \in DOMAIN s : s[i] = t[f[i]]
                  /\ \A i, j \in DOMAIN s : i < j => f[i] < f[j]
\* A server that keeps the sequence layer's rules executes the writes of the
\* jobs in order and none of them twice, whatever is lost and sent again.
AtMostOnce == \A n \in Targets : Within(did[n], plan[n])

\* A write is reported complete only when such a server has all of it; a
\* late answer to an earlier request is not taken for one to this request.
Reports(n) == /\ n \in DOMAIN ks
              /\ down[n] # <<>>
              /\ handle_response(ks[n], Head(down[n])).done
WriteDelivered == \A n \in Targets :
  make[n] = "other" /\ Reports(n) =>
    /\ did[n] # <<>>
    /\ did[n][Len(did[n])] = <<ks[n].tid, ks[n].buf>>
=============================================================================
