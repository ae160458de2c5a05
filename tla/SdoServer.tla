------------------------------ MODULE SdoServer ------------------------------
(* The SDO server (sdo/server.rs, sequence_handler.rs, state.rs,            *)
(* handlers.rs): operators on the handler of one connection and on the map  *)
(* of the connections.  A deadline is armed or not; when an armed one       *)
(* passes is the environment's choice.  A request is a sequence header and  *)
(* a body: nothing, bytes that are no command, or a command.                *)
EXTENDS SdoFrames
SE == INSTANCE SequencesExt

CONSTANTS SegBytes,     \* MAX_EXPEDITED_PAYLOAD, 1452 in the code
          SnModulus     \* the sequence numbers, 64 in the code
ASSUME SdoAssumption == SegBytes \in Nat \ {0} /\ SnModulus \in Nat \ {0, 1}

Succ(n) == (n + 1) % SnModulus
Command(tid, resp, abrt, seg, id, size, payload) ==
  [tid |-> tid, resp |-> resp, abrt |-> abrt, seg |-> seg, id |-> id,
   segSize |-> Len(payload), size |-> size, payload |-> payload]
Header(rsn, rcon, ssn, scon) == [rsn |-> rsn, rcon |-> rcon, ssn |-> ssn, scon |-> scon]

NilCommand      == Command(0, FALSE, FALSE, "Expedited", "Nil", None, <<>>)
Reply(tid, p)   == Command(tid, TRUE, FALSE, "Expedited", "Nil", None, p)
AbortReply(tid, code) == Command(tid, TRUE, TRUE, "Expedited", "Nil", None, Le(code, 4))
\* The answer to an abort: the flag makes the caller close the connection.
AbortedReply    == Command(0, FALSE, TRUE, "Expedited", "Nil", None, <<>>)

\* SdoTransferState and SdoSequenceHandler.
NoTransfer == <<>>
Transfer(tid, total, buf, off, index, sub, armed) ==
  [tid |-> tid, total |-> total, buf |-> buf, off |-> off, index |-> index, sub |-> sub,
   armed |-> armed, left |-> 0, last |-> None]
NewHandler == [st |-> "Closed", ssn |-> 0, lrs |-> SnModulus - 1, x |-> NoTransfer]
To(h, st)  == [h EXCEPT !.st = st, !.x = NoTransfer]
Done(h, od, cmd)  == [h |-> h, od |-> od, cmd |-> cmd]
abort(od, tid, code) == Done(NewHandler, od, AbortReply(tid, code))

Retries(od) == read_or("U32", od, \h1302, 0, 2)

\* Mutant: every segment is cut from the value the object has now.
MutLiveSegment(x, od) ==
  LET n    == Least(SegBytes, x.total - x.off)
      off  == x.off + n
      last == off >= x.total
      now  == read(od, x.index, x.sub)
      buf  == IF now # None /\ Len(now[1].d) = x.total THEN now[1].d ELSE x.buf
      seg  == IF last THEN "Complete" ELSE IF x.off = 0 THEN "Initiate" ELSE "Segment"
      cmd  == Command(x.tid, TRUE, FALSE, seg, "ReadByIndex",
                      IF x.off = 0 THEN Some(x.total) ELSE None, SubSeq(buf, x.off + 1, off))
  IN [x |-> [x EXCEPT !.off = off, !.armed = ~last, !.left = IF last THEN @ ELSE Retries(od),
                      !.last = IF last THEN None ELSE Some(cmd)],
      cmd |-> cmd, last |-> last]

\* The next segment of an upload.  All but the last are kept for a
\* retransmission, with a deadline.
get_next_upload_segment(x, od) ==
  LET n    == Least(SegBytes, x.total - x.off)
      off  == x.off + n
      last == off >= x.total
      seg  == IF last THEN "Complete" ELSE IF x.off = 0 THEN "Initiate" ELSE "Segment"
      cmd  == Command(x.tid, TRUE, FALSE, seg, "ReadByIndex",
                      IF x.off = 0 THEN Some(x.total) ELSE None, SubSeq(x.buf, x.off + 1, off))
  IN [x    |-> [x EXCEPT !.off = off, !.armed = ~last, !.left = IF last THEN @ ELSE Retries(od),
                         !.last = IF last THEN None ELSE Some(cmd)],
      cmd  |-> cmd, last |-> last]

\* A segment of a download: Ok with the transfer so far, or complete with the
\* dictionary written, or the code of an abort.
process_download_segment(x, c, od) ==
  LET off == x.off + Len(c.payload)
      buf == x.buf \o c.payload
      w   == write_bytes(od, NoStorage, x.index, x.sub, buf, TRUE)
      res(code, done, o) == [code |-> code, done |-> done, od |-> o,
                             x |-> [x EXCEPT !.buf = buf, !.off = off, !.armed = TRUE]]
  IN CASE off > x.total -> res(LengthMismatch, FALSE, od)
       [] off <= x.total /\ c.seg # "Complete" -> res(0, FALSE, od)
       [] OTHER -> IF off < x.total THEN res(LengthTooLow, FALSE, od) ELSE res(w.err, TRUE, w.od)

--------------------------------------------------------------------------
(* The commands (handlers.rs).                                              *)

\* A result in one frame, or the start of an upload.
Upload(h, c, od, payload, index, sub) ==
  IF Len(payload) <= SegBytes THEN Done(h, od, Reply(c.tid, payload))
  ELSE LET s == get_next_upload_segment(
                  Transfer(c.tid, Len(payload), payload, 0, index, sub, FALSE), od)
       IN Done([h EXCEPT !.st = "SegmentedUpload", !.x = s.x], od, s.cmd)

handle_read_by_index(h, c, od) ==
  LET a == address_from_payload(c.payload)
      v == read(od, a.val.index, a.val.sub)
  IN IF a.err # "Ok" THEN abort(od, c.tid, InvalidCommand)
     ELSE IF v = None THEN abort(od, c.tid, NotFound(od, a.val.index))
     ELSE Upload(h, c, od, serialize(v[1]), a.val.index, a.val.sub)

handle_write_by_index(h, c, od) ==
  LET a  == write_from_payload(c.payload)
      ack(hh, o) == Done(hh, o, Reply(c.tid, <<>>))
      written(e)  == IF e.err = 0 THEN ack(h, e.od) ELSE abort(od, c.tid, e.err)
      received(d) == IF d.code # 0 THEN abort(d.od, c.tid, d.code)
                     ELSE ack(IF d.done THEN To(h, "Established") ELSE [h EXCEPT !.x = d.x], d.od)
      whole == c.seg \in {"Expedited", "Initiate"}
  IN CASE whole /\ a.err # "Ok" -> abort(od, c.tid, InvalidCommand)
       [] c.seg = "Expedited" /\ a.err = "Ok" ->
            written(write_bytes(od, NoStorage, a.val.index, a.val.sub, a.val.data, TRUE))
       [] c.seg = "Initiate" /\ a.err = "Ok" ->
            IF c.size \in {None, Some(0)} THEN abort(od, c.tid, LengthMismatch)
            ELSE ack([h EXCEPT !.st = "SegmentedDownload",
                               !.x  = Transfer(c.tid, c.size[1], a.val.data, Len(a.val.data),
                                               a.val.index, a.val.sub, TRUE)], od)
       [] ~whole /\ h.st # "SegmentedDownload" -> abort(od, c.tid, InvalidSequence)
       [] OTHER ->
            IF h.x.tid # c.tid THEN abort(od, c.tid, GeneralError)
            ELSE received(process_download_segment(h.x, c, od))

handle_read_by_name(h, c, od) ==
  LET n == name_from_payload(c.payload)
      a == find_by_name(od, n.val)
  IN IF n.err # "Ok" THEN abort(od, c.tid, InvalidCommand)
     ELSE IF a = None THEN abort(od, c.tid, ResourceUnavailable)
     ELSE handle_read_by_index(h, [c EXCEPT !.payload = AddressPayload(a[1][1], a[1][2])], od)

handle_write_by_name(h, c, od) ==
  LET n == write_name_from_payload(c.payload)
      a == find_by_name(od, n.val.name)
  IN IF n.err # "Ok" THEN abort(od, c.tid, InvalidCommand)
     ELSE IF a = None THEN abort(od, c.tid, ResourceUnavailable)
     ELSE handle_write_by_index(
            h, [c EXCEPT !.payload = AddressPayload(a[1][1], a[1][2]) \o n.val.data], od)

handle_read_all_by_index(h, c, od) ==
  LET i   == Num(SubSeq(c.payload, 1, 2))
      obj == read_object(od, i)
  IN CASE Len(c.payload) < 2 -> abort(od, c.tid, InvalidCommand)
       [] Len(c.payload) >= 2 /\ obj = None -> abort(od, c.tid, NoSuchObject)
       [] Len(c.payload) >= 2 /\ obj = Some("Variable") -> abort(od, c.tid, ValueRangeExceeded)
       [] OTHER -> Upload(h, c, od, SE!FlattenSeq([k \in DOMAIN od[i].vals |-> serialize(od[i].vals[k])]),
                          i, 0)

\* Every value with its length, padded to four octets, after their number.
Aligned(d) == LET e == <<0, 0>> \o Le(Len(d), 2) \o d
              IN e \o Zeros((4 - (Len(e) % 4)) % 4)
handle_read_multiple_params(h, c, od) ==
  LET r == multiple_from_payload(c.payload)
      at(k) == read(od, r.val[k].index, r.val[k].sub)
      bad == {k \in DOMAIN r.val : at(k) = None}
      first == CHOOSE k \in bad : \A j \in bad : k <= j
  IN IF r.err # "Ok" THEN abort(od, c.tid, InvalidCommand)
     ELSE IF bad # {} THEN abort(od, c.tid, NotFound(od, r.val[first].index))
     ELSE Upload(h, c, od, Le(Len(r.val), 4)
                           \o SE!FlattenSeq([k \in DOMAIN r.val |-> Aligned(serialize(at(k)[1]))]), 0, 0)

handle_max_segment_size(h, c, od) ==
  LET n == IF Len(c.payload) >= 2 THEN Num(SubSeq(c.payload, 1, 2)) ELSE 0
  IN Done(h, od, Reply(c.tid, Le(n, 2) \o Le(SegBytes, 2)))

\* DefaultSdoHandler: the commands left to the application are refused; the
\* handler's state is not touched.
unsupported(h, c, od) == Done(h, od, AbortReply(c.tid, UnsupportedAccess))

--------------------------------------------------------------------------
(* The connection (sequence_handler.rs).                                    *)

\* A command in an upload is an acknowledgement of the same transaction, an
\* abort, or an error.
UploadCommand(h, c, od) ==
  LET s == get_next_upload_segment(h.x, od)
  IN CASE c.abrt -> Done(To(h, "Established"), od, AbortedReply)
       [] ~c.abrt /\ c.tid # h.x.tid -> abort(od, c.tid, GeneralError)
       [] ~c.abrt /\ c.tid = h.x.tid /\ (c.id = "Nil" \/ c.resp) ->
            Done(IF s.last THEN To(h, "Established") ELSE [h EXCEPT !.x = s.x], od, s.cmd)
       [] OTHER -> abort(od, c.tid, InvalidSequence)

process_command_layer(h, c, od) ==
  CASE h.st = "SegmentedUpload" -> UploadCommand(h, c, od)
    [] h.st # "SegmentedUpload" /\ c.abrt -> Done(To(h, "Established"), od, AbortedReply)
    [] OTHER ->
         CASE c.id = "ReadByIndex"              -> handle_read_by_index(h, c, od)
           [] c.id = "WriteByIndex"             -> handle_write_by_index(h, c, od)
           [] c.id = "ReadByName"               -> handle_read_by_name(h, c, od)
           [] c.id = "WriteByName"              -> handle_write_by_name(h, c, od)
           [] c.id = "ReadAllByIndex"           -> handle_read_all_by_index(h, c, od)
           [] c.id = "ReadMultipleParamByIndex" -> handle_read_multiple_params(h, c, od)
           [] c.id = "MaxSegmentSize"           -> handle_max_segment_size(h, c, od)
           [] c.id = "Nil"                      -> Done(h, od, Reply(c.tid, <<>>))
           [] c.id = "Abort"                    -> abort(od, c.tid, InvalidCommand)
           [] OTHER                             -> unsupported(h, c, od)

\* Mutant: an acknowledgement forgets the stored segment and not its deadline.
MutKeepsDeadline(h, q) ==
  LET ok(hh, rcon, scon) ==
        [ok |-> TRUE, h |-> hh, seq |-> Header(q.ssn, rcon, hh.ssn, scon)]
      next == [h EXCEPT !.lrs = q.ssn, !.ssn = Succ(@),
                        !.x = IF h.st = "SegmentedUpload" /\ q.rsn = h.ssn
                              THEN [@ EXCEPT !.last = None] ELSE @]
  IN IF h.st = "Closed" /\ q.scon = "Initialization"
     THEN ok([h EXCEPT !.st = "Opening", !.ssn = 0, !.lrs = q.ssn], "Initialization", "Initialization")
     ELSE IF h.st = "Opening" /\ q.scon = "ConnectionValid" /\ q.rsn = h.ssn
     THEN ok([h EXCEPT !.st = "Established", !.ssn = Succ(@), !.lrs = q.ssn],
             "ConnectionValid", "ConnectionValid")
     ELSE IF h.st \notin {"Closed", "Opening"} /\ q.ssn = Succ(h.lrs)
     THEN ok(next, "ConnectionValid", "ConnectionValid")
     ELSE [ok |-> FALSE, h |-> h, seq |-> Header(0, "NoConnection", 0, "NoConnection")]

\* The sequence numbers.  A duplicate is answered with the old number and
\* still reaches the command layer; so does a request on a closed connection.
process_sequence_layer(h, q) ==
  LET ok(hh, rcon, scon) ==
        [ok |-> TRUE, h |-> hh, seq |-> Header(q.ssn, rcon, hh.ssn, scon)]
      refused(hh) == [ok |-> FALSE, h |-> hh, seq |-> Header(0, "NoConnection", 0, "NoConnection")]
      upload == h.st = "SegmentedUpload"
      acked  == IF upload /\ q.rsn = h.ssn
                THEN [h.x EXCEPT !.armed = FALSE, !.last = None, !.left = 0] ELSE h.x
  IN CASE h.st = "Closed" ->
            IF q.scon = "Initialization"
            THEN ok([h EXCEPT !.st = "Opening", !.ssn = 0, !.lrs = q.ssn],
                    "Initialization", "Initialization")
            ELSE ok(h, "NoConnection", "NoConnection")
       [] h.st = "Opening" ->
            IF q.scon = "ConnectionValid" /\ q.rsn = h.ssn
            THEN ok([h EXCEPT !.st = "Established", !.ssn = Succ(@), !.lrs = q.ssn],
                    "ConnectionValid", "ConnectionValid")
            ELSE refused(To(h, "Closed"))
       [] OTHER ->
            IF q.ssn = h.lrs THEN ok(h, "ConnectionValid", "ConnectionValid")
            ELSE IF q.ssn # Succ(h.lrs) THEN refused(h)
            ELSE ok([h EXCEPT !.lrs = q.ssn, !.ssn = Succ(@), !.x = acked], "ConnectionValid",
                    IF upload /\ h.x.off = 0 THEN "ConnectionValidAckRequest" ELSE "ConnectionValid")

Answer(h, od, seq, cmd) == [ok |-> TRUE, h |-> h, od |-> od, seq |-> seq, cmd |-> cmd]
Silence(h, od) == [ok |-> FALSE, h |-> h, od |-> od, cmd |-> NilCommand,
                   seq |-> Header(0, "NoConnection", 0, "NoConnection")]

\* The client asks for the last segment again.
AskedAgain(h, m, od) ==
  LET s == process_sequence_layer(h, m.seq)
  IN IF h.st = "SegmentedUpload" /\ h.x.last # None
     THEN Answer(h, od, Header(m.seq.ssn, "ConnectionValid", h.ssn, "ConnectionValidAckRequest"),
                 h.x.last[1])
     ELSE IF s.ok THEN Answer(s.h, od, s.seq, NilCommand) ELSE Silence(s.h, od)

\* A header without a command: the handshake, or an acknowledgement.
EmptyBody(h, m, od, seq) ==
  LET g     == get_next_upload_segment(h.x, od)
      reply == [seq EXCEPT !.rsn = h.lrs]
  IN CASE h.st # "Opening" /\ m.seq.scon # "ConnectionValid" -> Silence(h, od)
       [] h.st = "SegmentedUpload" /\ m.seq.scon = "ConnectionValid" ->
            Answer(IF g.last THEN To(h, "Closed") ELSE [h EXCEPT !.x = g.x], od, reply, g.cmd)
       [] OTHER -> Answer(IF h.st = "Established" THEN To(h, "Closed") ELSE h, od, reply,
                          Reply(0, <<>>))

\* A command: a result in one frame, a last segment and an abort close.
CommandBody(h, m, od, seq) ==
  LET ends(r)   == r.h.st # "Opening" /\ (r.cmd.seg \in {"Expedited", "Complete"} \/ r.cmd.abrt)
      answer(r) == Answer(IF ends(r) THEN To(r.h, "Closed") ELSE r.h, r.od,
                          [seq EXCEPT !.rsn = r.h.lrs,
                                      !.scon = IF r.cmd.abrt THEN "NoConnection" ELSE @], r.cmd)
  IN answer(process_command_layer(h, m.cmd, od))

handle_request(h, m, od) ==
  LET s == process_sequence_layer(h, m.seq)
  IN CASE m.seq.rcon = "ErrorResponse" -> AskedAgain(h, m, od)
       [] m.seq.rcon # "ErrorResponse" /\ ~s.ok -> Silence(s.h, od)
       [] OTHER ->
            CASE m.body = "none" -> EmptyBody(s.h, m, od, s.seq)
              [] m.body = "bad"  ->
                   Answer(NewHandler, od, [s.seq EXCEPT !.rsn = NewHandler.lrs, !.scon = "NoConnection"],
                          AbortReply(0, InvalidCommand))
              [] OTHER           -> CommandBody(s.h, m, od, s.seq)

\* Mutant: a timeout spends no retry.
MutEndless(h, od) ==
  IF h.st = "SegmentedUpload" /\ h.x.last # None
  THEN Answer(h, od, Header(h.lrs, "ConnectionValid", h.ssn, "ConnectionValidAckRequest"), h.x.last[1])
  ELSE Silence(h, od)

\* A deadline has passed: the segment again, or the end of the connection.
tick(h, od) ==
  LET left == [h EXCEPT !.x.left = @ - 1]
  IN IF h.st = "SegmentedUpload" /\ h.x.left > 0
     THEN IF h.x.last = None THEN Silence(left, od)
          ELSE Answer(left, od, Header(h.lrs, "ConnectionValid", h.ssn, "ConnectionValidAckRequest"),
                      h.x.last[1])
     ELSE Answer(NewHandler, od,
                 Header(NewHandler.lrs, "ConnectionValid", NewHandler.ssn, "NoConnection"),
                 AbortReply(h.x.tid, SdoTimedOut))

--------------------------------------------------------------------------
(* The server: a handler for each client that has one (server.rs).          *)

With(conns, c, h)   == [d \in DOMAIN conns \cup {c} |-> IF d = c THEN h ELSE conns[d]]
Without(conns, cs)  == [c \in DOMAIN conns \ cs |-> conns[c]]
HandlerOf(conns, c) == IF c \in DOMAIN conns THEN conns[c] ELSE NewHandler
ClosedOnes(conns)   == {c \in DOMAIN conns : conns[c].st = "Closed"}
Armed(conns)        == {c \in DOMAIN conns : conns[c].x # NoTransfer /\ conns[c].x.armed}

\* A handler is removed when it is closed, unless the request was refused.
server_handle_request(conns, c, m, od) ==
  LET kept(r) == [r |-> r, conns |-> IF r.ok /\ r.h.st = "Closed" THEN Without(conns, {c})
                                     ELSE With(conns, c, r.h)]
  IN kept(handle_request(HandlerOf(conns, c), m, od))

\* The first client, in their order, whose deadline has passed is served;
\* then every closed handler is removed, unless there was an error.
server_tick(conns, c, od) ==
  LET r == tick(conns[c], od)
      k == With(conns, c, r.h)
  IN [r |-> r, conns |-> IF r.ok THEN Without(k, ClosedOnes(k)) ELSE k]
=============================================================================
