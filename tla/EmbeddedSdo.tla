---------------------------- MODULE EmbeddedSdo ----------------------------
(* SDO in PDO (sdo/embedded_server.rs, embedded_client.rs): a channel is a   *)
(* container of a fixed length in a PDO.  The operators take and return the  *)
(* maps from channels to connections that the two sides keep; a channel that *)
(* is not in the map has the default connection.                             *)
EXTENDS SdoFrames

CONSTANT EmbSeqs            \* the sequence numbers, 64 in the code
ASSUME EmbSeqsAssumption == EmbSeqs \in 2..64

IsServerChannel(i) == i \in \h1200..\h127F
IsClientChannel(i) == i \in \h1280..\h12FF

ServerConn == [last |-> 0, pend |-> None]
ClientConn == [last |-> 0, next |-> 0, queue |-> <<>>]
Channel(conns, ch, default) == IF ch \in DOMAIN conns THEN conns[ch] ELSE default
SetChannel(conns, ch, k) ==
  [c \in DOMAIN conns \cup {ch} |-> IF c = ch THEN k ELSE conns[c]]

PdoCommand(seq, con, resp, abrt, id, index, sub, data) ==
  [seq |-> seq, con |-> con, tid |-> 1, resp |-> resp, abrt |-> abrt, seg |-> "Expedited",
   id |-> id, index |-> index, sub |-> sub, data |-> data]

\* A container is filled up with zeros.
Filled(p, len) == p \o Zeros(len - Len(p))

--------------------------------------------------------------------------
(* The server.                                                              *)

\* A read or a write by index; every other command is refused.
process_command(c, od, seq) ==
  LET v == read(od, c.index, c.sub)
      respond(abrt, data, o) ==
        [od |-> o, bytes |-> serialize_pdo_sdo(
           [PdoCommand(seq, IF abrt THEN 3 ELSE 2, TRUE, abrt, IF abrt THEN "Nil" ELSE c.id,
                       c.index, c.sub, data) EXCEPT !.tid = c.tid])]
      refuse(n)  == respond(TRUE, Le(n, 4), od)
      written(w) == IF w.err = "Ok" THEN respond(FALSE, <<>>, w.od) ELSE refuse(AbortCode(w.err))
      store(d)   == IF d.err # "Ok" THEN refuse(LengthMismatch)
                    ELSE written(write(od, NoStorage, c.index, c.sub, d.val, TRUE))
  IN CASE c.id \notin {"ReadByIndex", "WriteByIndex"} -> refuse(InvalidCommand)
       [] c.id \in {"ReadByIndex", "WriteByIndex"} /\ v = None -> refuse(NotFound(od, c.index))
       [] OTHER -> IF c.id = "ReadByIndex" THEN respond(FALSE, serialize(v[1]), od)
                   ELSE store(deserialize(c.data, v[1]))

\* Only the request with the next number is executed; ran is that request.
\* The number of a connection starts at 0, so a first request with 0 is taken
\* for a repetition.
emb_handle_request(es, ch, p, od) ==
  LET k == Channel(es, ch, ServerConn)
      d == deserialize_pdo_sdo(p)
      run(r) == [es |-> SetChannel(es, ch, [last |-> d.val.seq, pend |-> Some(r.bytes)]),
                 od |-> r.od, ran |-> Some(d.val)]
  IN IF d.err # "Ok" \/ d.val.seq # (k.last + 1) % EmbSeqs
     THEN [es |-> SetChannel(es, ch, k), od |-> od, ran |-> None]
     ELSE run(process_command(d.val, od, d.val.seq))

\* The response goes out once, cut to the container; zeros when there is none.
get_pending_response(es, ch, len) ==
  LET k == Channel(es, ch, ServerConn)
      p == IF k.pend = None THEN <<>> ELSE k.pend[1]
  IN [es   |-> SetChannel(es, ch, [k EXCEPT !.pend = None]),
      data |-> IF Len(p) > len THEN SubSeq(p, 1, len) ELSE Filled(p, len)]

--------------------------------------------------------------------------
(* The client.                                                              *)

\* queue_read, queue_write: a request of the application waits for its PDO.
queue_request(ec, ch, id, index, sub, data) ==
  IF ~IsClientChannel(ch) THEN ec
  ELSE LET k == Channel(ec, ch, ClientConn)
       IN SetChannel(ec, ch, [k EXCEPT !.queue = Append(@, [id |-> id, index |-> index,
                                                            sub |-> sub, data |-> data])])

\* Mutant: the number of a response is not looked at.
MutAnyAnswer(ec, ch, p) ==
  LET d == deserialize_pdo_sdo(p)
  IN IF ch \notin DOMAIN ec \/ d.err # "Ok" THEN [ec |-> ec, got |-> None]
     ELSE [ec |-> [ec EXCEPT ![ch].last = d.val.seq], got |-> Some(d.val)]

\* A container counts if it has the number of the last request, whether it is a
\* response or not; got is what it says.  The code of an abort is then read from
\* its first four octets, and the node panics if they are not there
\* (AnswerMatches: they are).
emb_handle_response(ec, ch, p) ==
  LET d == deserialize_pdo_sdo(p)
  IN IF \/ ch \notin DOMAIN ec
        \/ d.err # "Ok"
        \/ d.val.seq # (ec[ch].next - 1) % EmbSeqs
     THEN [ec |-> ec, got |-> None]
     ELSE [ec |-> [ec EXCEPT ![ch].last = d.val.seq], got |-> Some(d.val)]

\* Mutant: a request stays in the queue until another one follows.
MutPeek(ec, ch, len) ==
  LET k == Channel(ec, ch, ClientConn)
      r == Head(k.queue)
      b == serialize_pdo_sdo(PdoCommand(k.next, 2, FALSE, FALSE, r.id, r.index, r.sub, r.data))
  IN IF k.queue = <<>> THEN [ec |-> SetChannel(ec, ch, k), data |-> Zeros(len)]
     ELSE [ec   |-> SetChannel(ec, ch, [k EXCEPT !.queue = IF Len(@) > 1 THEN Tail(@) ELSE @,
                                                 !.next = (@ + 1) % EmbSeqs]),
           data |-> IF Len(b) > len THEN Zeros(len) ELSE Filled(b, len)]

\* The next request of the queue takes the next number; one too long for its
\* container is dropped and its number is used up.
emb_get_pending_request(ec, ch, len) ==
  LET k == Channel(ec, ch, ClientConn)
      r == Head(k.queue)
      b == serialize_pdo_sdo(PdoCommand(k.next, 2, FALSE, FALSE, r.id, r.index, r.sub, r.data))
  IN IF k.queue = <<>> THEN [ec |-> SetChannel(ec, ch, k), data |-> Zeros(len)]
     ELSE [ec   |-> SetChannel(ec, ch, [k EXCEPT !.queue = Tail(@), !.next = (@ + 1) % EmbSeqs]),
           data |-> IF Len(b) > len THEN Zeros(len) ELSE Filled(b, len)]
=============================================================================
