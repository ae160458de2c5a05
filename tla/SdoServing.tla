----------------------------- MODULE SdoServing -----------------------------
(* The SDO server of a node and its clients: any client may send any of     *)
(* Requests(c) at any time, in any order, repeated or not, or fall silent.  *)
EXTENDS SdoServer

CONSTANTS Clients,          \* numbers: the order of the map of connections
          Dictionary        \* the object dictionary at the start
CONSTANT Requests(_)        \* what a client may send
ASSUME ServingAssumption ==
  /\ Clients \subseteq Nat
  /\ IsDictionary(Dictionary)
  /\ \A c \in Clients : \A m \in Requests(c) :
       LET k == m.cmd
       IN /\ k = Command(k.tid, k.resp, k.abrt, k.seg, k.id, k.size, k.payload)
          /\ k.abrt \in BOOLEAN
          /\ k.payload \in Seq(UNSIGNED8)

VARIABLES conns,      \* SdoServer.connections
          od,         \* the object dictionary
          due,        \* the connections whose deadline has passed
          sent,       \* the bytes of the upload each client was sent so far
          snapshot,   \* what the object held when the upload began
          timeouts,   \* retransmissions of the segment that is on its way
          allowed,    \* and how many 1302h granted it when it was sent
          stalled     \* the uploads whose last acknowledgement was refused
vars == <<conns, od, due, sent, snapshot, timeouts, allowed, stalled>>

Uploading(c) == c \in DOMAIN conns /\ conns[c].st = "SegmentedUpload"

Init == /\ conns    = <<>>
        /\ od       = Dictionary
        /\ due      = {}
        /\ sent     = [c \in Clients |-> <<>>]
        /\ snapshot = [c \in Clients |-> <<>>]
        /\ timeouts = [c \in Clients |-> 0]
        /\ allowed  = [c \in Clients |-> 0]
        /\ stalled  = {}

\* What a read command asks for, from dictionary o.
Content(o, c) ==
  CASE c.id = "ReadByIndex" ->
         LET a == address_from_payload(c.payload).val IN serialize(read(o, a.index, a.sub)[1])
    [] c.id = "ReadByName"  ->
         serialize(read(o, find_by_name(o, name_from_payload(c.payload).val)[1][1], 0)[1])
    [] c.id = "ReadAllByIndex" ->
         LET v == o[Num(SubSeq(c.payload, 1, 2))].vals
         IN SE!FlattenSeq([k \in DOMAIN v |-> serialize(v[k])])
    [] OTHER ->
         LET a == multiple_from_payload(c.payload).val
         IN Le(Len(a), 4) \o SE!FlattenSeq([k \in DOMAIN a |->
                                 Aligned(serialize(read(o, a[k].index, a[k].sub)[1]))])

\* An acknowledgement of the segment on its way that has no command and does
\* not say ConnectionValid: the sequence layer takes it, and with it the
\* deadline and the stored segment, and handle_request then refuses it.
TakenAndRefused(c, m) ==
  /\ Uploading(c) /\ m.body = "none"
  /\ m.seq.rcon # "ErrorResponse" /\ m.seq.scon # "ConnectionValid"
  /\ m.seq.ssn = Succ(conns[c].lrs) /\ m.seq.rsn = conns[c].ssn

\* A request of client c, through process_frame (ASnd) or
\* process_udp_datagram: the handler, its connection and the dictionary.
Request(c, m) ==
  \E s \in {server_handle_request(conns, c, m, od)} :
  LET cmd == s.r.cmd
      new == s.r.ok /\ cmd.seg # "Expedited" /\ m.seq.rcon # "ErrorResponse"
      up  == HandlerOf(s.conns, c).st = "SegmentedUpload"
      got == IF ~new THEN sent[c] ELSE IF cmd.size # None THEN cmd.payload
             ELSE sent[c] \o cmd.payload
      kept == up \/ (new /\ cmd.seg = "Complete")
  IN /\ conns' = s.conns
     /\ od'    = s.r.od
     /\ due'   = IF HandlerOf(s.conns, c).x = HandlerOf(conns, c).x THEN due ELSE due \ {c}
     /\ sent'     = [sent EXCEPT ![c] = IF kept THEN got ELSE <<>>]
     /\ snapshot' = [snapshot EXCEPT ![c] = IF ~kept THEN <<>>
                       ELSE IF new /\ cmd.size # None THEN Content(od, m.cmd) ELSE @]
     /\ timeouts' = [timeouts EXCEPT ![c] = IF new \/ ~up THEN 0 ELSE @]
     /\ allowed'  = [allowed  EXCEPT ![c] = IF ~up THEN 0 ELSE IF new THEN Retries(od) ELSE @]
     /\ stalled'  = IF TakenAndRefused(c, m) THEN stalled \cup {c}
                    ELSE IF new \/ ~up THEN stalled \ {c} ELSE stalled

\* Deadlines pass.  The node ticks more often than a timeout (15 s) is long,
\* so none passes again before the tick has served those that did.
Elapse(S) == /\ due = {}
             /\ S # {}
             /\ S \subseteq Armed(conns)
             /\ due' = S
             /\ UNCHANGED <<conns, od, sent, snapshot, timeouts, allowed, stalled>>

\* Mutant: only the first connection of the map is looked at.
MutTick == \E c \in due :
          \E s \in {server_tick(conns, c, od)} :
          LET closed == c \notin DOMAIN s.conns
          IN /\ \A d \in DOMAIN conns : c <= d
             /\ conns' = s.conns
             /\ due'   = (due \ {c}) \cap Armed(s.conns)
             /\ sent'     = [sent EXCEPT ![c] = IF closed THEN <<>> ELSE @]
             /\ snapshot' = [snapshot EXCEPT ![c] = IF closed THEN <<>> ELSE @]
             /\ timeouts' = [timeouts EXCEPT ![c] = IF closed THEN 0 ELSE @ + 1]
             /\ allowed'  = [allowed  EXCEPT ![c] = IF closed THEN 0 ELSE @]
             /\ UNCHANGED <<od, stalled>>

Tick == \E c \in due :
          \E s \in {server_tick(conns, c, od)} :
          LET closed == c \notin DOMAIN s.conns
          IN /\ \A d \in due : c <= d
             /\ conns' = s.conns
             /\ due'   = (due \ {c}) \cap Armed(s.conns)
             /\ sent'     = [sent EXCEPT ![c] = IF closed THEN <<>> ELSE @]
             /\ snapshot' = [snapshot EXCEPT ![c] = IF closed THEN <<>> ELSE @]
             /\ timeouts' = [timeouts EXCEPT ![c] = IF closed THEN 0 ELSE @ + 1]
             /\ allowed'  = [allowed  EXCEPT ![c] = IF closed THEN 0 ELSE @]
             /\ UNCHANGED <<od, stalled>>

\* A tick with no deadline passed removes what refused requests left closed.
IdleTick == /\ due = {}
            /\ ClosedOnes(conns) # {}
            /\ conns' = Without(conns, ClosedOnes(conns))
            /\ UNCHANGED <<od, due, sent, snapshot, timeouts, allowed, stalled>>

Next == \/ \E c \in Clients : \E m \in Requests(c) : Request(c, m)
        \/ \E S \in SUBSET Clients : Elapse(S)
        \/ Tick
        \/ IdleTick

Passes(c) == \E S \in SUBSET Clients : c \in S /\ Elapse(S)
Spec == Init /\ [][Next]_vars
\* The node ticks for ever, and time passes for every armed deadline.
FairSpec == Spec /\ WF_vars(Tick) /\ \A c \in Clients : SF_vars(Passes(c))

--------------------------------------------------------------------------
(* Properties.                                                              *)

\* One client's upload is the value its object had when the upload began, in
\* order and without a gap, whatever the other clients write in the meantime
\* (get_next_upload_segment cuts the segments from a copy).
UploadUntorn ==
  \A c \in Clients :
    IF Uploading(c) THEN LET x == conns[c].x
                         IN /\ x.total = Len(snapshot[c])
                            /\ sent[c] = SubSeq(snapshot[c], 1, x.off)
    ELSE sent[c] = snapshot[c]

\* A deadline never runs without the segment to send again, and that is the
\* segment the client misses: tick's "Missing last sent segment" is dead.
ResendReady ==
  \A c \in Armed(conns) :
    /\ conns[c].x.last # None
    /\ LET p == conns[c].x.last[1].payload
       IN p = SubSeq(sent[c], Len(sent[c]) - Len(p) + 1, Len(sent[c]))

\* A segment is sent again on timeouts at most as often as 1302h allowed when
\* it was sent, whatever is written to 1302h while it waits.
RetriesBounded == \A c \in Clients : timeouts[c] <= allowed[c]

\* A client that stops answering does not keep its upload: every upload is
\* finished, aborted or given up, unless its client acknowledged a segment
\* with an empty command that asks for an acknowledgement itself.  Such a
\* frame is refused after it stopped the deadline (handle_request,
\* process_sequence_layer), and tick never looks at that connection again.
UploadEnds == \A c \in Clients : Uploading(c) ~> (~Uploading(c) \/ c \in stalled)

\* "Ignoring non-init request on closed SDO connection.": such a request
\* changes no object.
ClosedIgnores ==
  [][\A c \in Clients : \A m \in Requests(c) :
       Request(c, m) /\ HandlerOf(conns, c).st = "Closed" /\ m.seq.scon # "Initialization"
       => od' = od]_vars
=============================================================================
