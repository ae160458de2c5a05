------------------------------ MODULE SdoClient ------------------------------
(* The stateful SDO client of the managing node (sdo/client_connection.rs,  *)
(* client_manager.rs): operators on one connection and on the map of the    *)
(* connections.  A Concise DCF is the sequence of its entries <<index, sub, *)
(* data>> and the number of entries it announces.  The map holds the        *)
(* connections in use: an idle one, which a refused start may leave in the  *)
(* code's map, sends, takes and times out nothing and starts the next job   *)
(* as a new one does.                                                       *)
EXTENDS SdoServer

\* SdoClientConnection.
NewConnection ==
  [st |-> "Idle", tid |-> 0, ssn |-> 0, lrs |-> SnModulus - 1, buf |-> <<>>, off |-> 0,
   total |-> 0, armed |-> FALSE, left |-> 0, last |-> None, job |-> None, pend |-> None]
is_idle(k) == k.st \in {"Idle", "Closed"}

Packet(seq, cmd) == [seq |-> seq, body |-> "command", cmd |-> cmd]
ClientRequest(tid, seg, id, size, payload) == Command(tid, FALSE, FALSE, seg, id, size, payload)
NextTid(t) == IF t = 255 THEN 1 ELSE t + 1

client_abort(k, code) ==
  [k   |-> [k EXCEPT !.st = "Closed", !.last = None, !.armed = FALSE, !.job = None],
   out |-> Some(Packet(Header(k.lrs, "ConnectionValid", k.ssn, "NoConnection"),
                       Command(k.tid, FALSE, TRUE, "Expedited", "Nil", None, Le(code, 4))))]

\* The next write of a Concise DCF goes to the buffer; a job that is done, or
\* whose data ends early, is dropped.
prepare_next_job_command(k) ==
  LET j     == k.job[1]
      ready == k.job # None /\ j.n > 0 /\ j.entries # <<>>
      e     == Head(j.entries)
      full  == AddressPayload(e[1], e[2]) \o e[3]
  IN [ready |-> ready,
      k |-> IF ready
            THEN [k EXCEPT !.buf = full, !.total = Len(full), !.off = 0, !.tid = NextTid(@),
                           !.job = Some([entries |-> Tail(j.entries), n |-> j.n - 1])]
            ELSE [k EXCEPT !.job = None]]

\* Mutant: the sequence numbers of a response are not looked at.
MutAnyResponse(k, m) ==
  LET a == [k EXCEPT !.last = None, !.armed = FALSE, !.left = 0, !.lrs = m.seq.ssn]
      p == prepare_next_job_command(a)
      done == k.st = "DownloadInProgress" /\ k.off >= k.total
  IN IF k.last = None THEN [k |-> k, done |-> FALSE]
     ELSE IF k.st = "Opening" THEN [k |-> [a EXCEPT !.st = "Established"], done |-> FALSE]
     ELSE IF done THEN [k |-> [p.k EXCEPT !.st = IF p.ready THEN "Established" ELSE "Closed"], done |-> TRUE]
     ELSE [k |-> IF k.st = "DownloadInProgress" THEN a ELSE [a EXCEPT !.st = "Closed"], done |-> FALSE]

\* A response counts if it acknowledges the request that waits; its own
\* number must follow.  done: a write is reported complete.  An abort has the
\* four octets of its code; the code panics on a shorter one.
handle_response(k, m) ==
  LET q == m.seq
      c == m.cmd
      a == [k EXCEPT !.last = None, !.armed = FALSE, !.left = 0]
      b == [a EXCEPT !.lrs = q.ssn]
      p == prepare_next_job_command(b)
      to(kk, st)  == [k |-> [kk EXCEPT !.st = st], done |-> FALSE]
  IN CASE k.last = None \/ q.rsn # k.last[1].seq.ssn -> to(k, k.st)
       [] OTHER ->
     CASE q.ssn = k.lrs -> to(a, k.st)
       [] q.ssn \notin {k.lrs, Succ(k.lrs)} -> to(a, "Closed")
       [] q.ssn = Succ(k.lrs) /\ c.abrt -> to([b EXCEPT !.job = None], "Closed")
       [] OTHER ->
     CASE k.st = "Opening" ->
            to(b, IF q.rcon = "Initialization" /\ q.scon = "Initialization"
                  THEN "Established" ELSE "Closed")
       [] k.st = "DownloadInProgress" ->
            IF k.off < k.total THEN to(b, k.st)
            ELSE [to(p.k, IF p.ready THEN "Established" ELSE "Closed") EXCEPT !.done = TRUE]
       [] k.st = "UploadInit" ->
            CASE c.seg = "Expedited" -> to([b EXCEPT !.buf = c.payload], "Closed")
              [] c.seg = "Initiate"  ->
                   to([b EXCEPT !.buf = <<>>, !.total = IF c.size = None THEN @ ELSE c.size[1]],
                      "UploadInProgress")
              [] OTHER               -> to(b, "Closed")
       [] k.st = "UploadInProgress" /\ c.seg \in {"Segment", "Complete"} ->
            to([b EXCEPT !.buf = @ \o c.payload],
               IF c.seg = "Complete" THEN "Closed" ELSE k.st)
       [] OTHER -> to(b, "Closed")

\* Mutant: the client never gives up.
MutNeverGivesUp(k) == [k |-> k, out |-> k.last]

\* Mutant: a retransmission takes a new sequence number.
MutNewNumber(k) ==
  IF k.left = 0 THEN client_abort(k, SdoTimedOut)
  ELSE IF k.last = None THEN [k |-> [k EXCEPT !.left = @ - 1], out |-> None]
  ELSE LET m == [k.last[1] EXCEPT !.seq.ssn = k.ssn]
       IN [k |-> [k EXCEPT !.left = @ - 1, !.ssn = Succ(@), !.last = Some(m)], out |-> Some(m)]

\* The deadline has passed: the request again, or the end of the job.
client_tick(k) ==
  IF k.left > 0 THEN [k |-> [k EXCEPT !.left = @ - 1], out |-> k.last]
  ELSE client_abort(k, SdoTimedOut)

\* A write in one frame, or its first, a middle or its last segment.
get_next_download_segment(k) ==
  LET rest  == k.total - k.off
      first == k.off = 0
      end   == k.off + Least(SegBytes, rest)
      seg   == IF first THEN IF k.total <= SegBytes + 4 THEN "Expedited" ELSE "Initiate"
               ELSE IF rest <= SegBytes THEN "Complete" ELSE "Segment"
  IN [k   |-> [k EXCEPT !.off = end],
      cmd |-> ClientRequest(k.tid, seg, "WriteByIndex", IF first THEN Some(k.total - 4) ELSE None,
                       SubSeq(k.buf, k.off + 1, end))]

\* The request that goes out waits for its response with a deadline.
Sent(k, scon, rcon, cmd, od) ==
  LET m == Packet(Header(k.lrs, rcon, k.ssn, scon), cmd)
  IN [k   |-> [k EXCEPT !.armed = TRUE, !.left = Retries(od), !.last = Some(m), !.ssn = Succ(@)],
      out |-> Some(m)]

get_pending_request(k, od) ==
  LET none == [k |-> k, out |-> None]
      p    == prepare_next_job_command(k)
      ask(kk, cmd) == Sent(kk, "ConnectionValidAckRequest", "ConnectionValid", cmd, od)
      segment(kk)  == LET s == get_next_download_segment(kk)
                      IN ask([s.k EXCEPT !.st = "DownloadInProgress"], s.cmd)
  IN CASE k.last # None -> none
       [] k.last = None /\ k.st = "Opening" ->
            Sent(k, "Initialization", "NoConnection",
                 ClientRequest(k.tid, "Expedited", "Nil", None, <<>>), od)
       [] k.last = None /\ k.st = "Established" ->
            CASE k.buf # <<>> -> segment(k)
              [] k.buf = <<>> /\ k.pend # None ->
                   ask([k EXCEPT !.st = "UploadInit", !.pend = None], k.pend[1])
              [] OTHER -> IF p.ready THEN segment(p.k)
                          ELSE [k |-> [p.k EXCEPT !.st = "Closed"], out |-> None]
       [] k.last = None /\ k.st = "DownloadInProgress" -> segment(k)
       [] k.last = None /\ k.st = "UploadInProgress" ->
            ask(k, ClientRequest(k.tid, "Segment", "ReadByIndex", None, <<>>))
       [] OTHER -> none

\* The start of a job: a fresh handshake, with its deadline.
Opening(k, tid, od) ==
  [k EXCEPT !.st = "Opening", !.tid = tid, !.ssn = 0, !.lrs = SnModulus - 1, !.buf = <<>>,
            !.armed = TRUE, !.left = Retries(od)]
\* Data without its four octets for n is refused and changes nothing.
start_concise_dcf_job(k, entries, n, tid, od) ==
  prepare_next_job_command([Opening(k, tid, od) EXCEPT !.job = Some([entries |-> entries, n |-> n])]).k
start_read_job(k, i, s, tid, od) ==
  [Opening(k, tid, od) EXCEPT
     !.pend = Some(ClientRequest(tid, "Expedited", "ReadByIndex", None, AddressPayload(i, s)))]
start_write_job(k, i, s, data, tid, od) ==
  LET full == AddressPayload(i, s) \o data
  IN [Opening(k, tid, od) EXCEPT !.buf = full, !.total = Len(full), !.off = 0]

--------------------------------------------------------------------------
(* SdoClientManager: a connection for each target that has a job.           *)

ConnOf(ks, n) == IF n \in DOMAIN ks THEN ks[n] ELSE NewConnection

manager_handle_response(ks, n, m) ==
  IF n \in DOMAIN ks
  THEN LET k == handle_response(ks[n], m).k
       IN IF k.st = "Closed" THEN Without(ks, {n}) ELSE With(ks, n, k)
  ELSE ks

\* The connections in order, up to the first that has something to send; an
\* established one before it that has nothing is closed and removed.
Sends(k) == /\ k.last = None
            /\ \/ k.st \in {"Opening", "DownloadInProgress", "UploadInProgress"}
               \/ k.st = "Established" /\ (k.buf # <<>> \/ k.pend # None
                                           \/ prepare_next_job_command(k).ready)
First(S, n) == \A m \in S : n <= m
manager_get_pending_request(ks, od) ==
  LET senders == {n \in DOMAIN ks : Sends(ks[n])}
      spent   == {n \in DOMAIN ks \ senders : First(senders, n) /\ ks[n].last = None
                                             /\ ks[n].st = "Established"}
  IN IF senders = {} THEN [ks |-> Without(ks, spent), out |-> {}]
     ELSE LET n == CHOOSE m \in senders : First(senders, m)
              r == get_pending_request(ks[n], od)
          IN [ks |-> With(Without(ks, spent), n, r.k), out |-> {<<n, r.out[1]>>}]

\* The deadlines that have passed, in order, up to the first connection that
\* has something to send; the others wait for the next tick.
manager_tick(ks, due) ==
  LET senders == {n \in due : ks[n].last # None \/ ks[n].left = 0}
      mute    == {n \in due \ senders : First(senders, n)}
      quiet   == [n \in DOMAIN ks |-> IF n \in mute THEN client_tick(ks[n]).k ELSE ks[n]]
  IN IF senders = {} THEN [ks |-> quiet, out |-> {}]
     ELSE LET n == CHOOSE m \in senders : First(senders, m)
              r == client_tick(ks[n])
          IN [ks |-> IF r.k.st = "Closed" THEN Without(quiet, {n}) ELSE With(quiet, n, r.k),
              out |-> {<<n, r.out[1]>>}]
=============================================================================
