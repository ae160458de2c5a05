------------------------------ MODULE FrameLink ------------------------------
(* One message on its way: encoded by the sender, carried by Ethernet, UDP   *)
(* or a PDO container, perhaps cut short, and decoded by the receiver as far *)
(* as the handlers of the receiving node decode it.                          *)
EXTENDS ServicePayloads, SdoFrames

CONSTANTS
  Messages,           \* [carrier, kind, body] to send
  Eth                 \* the MAC addresses of the Ethernet header

VARIABLES
  phase,    \* "idle", "wire", "got", or "refused" by the encoder
  msg,      \* the message
  wire,     \* its bytes
  cut,      \* bytes were lost at the end
  got       \* what the receiver decoded

vars == <<phase, msg, wire, cut, got>>

Service(m) == CASE m.kind = "HostName"   -> ServiceId.NmtCommand
                [] m.kind = "Command"    -> ServiceId.NmtCommand
                [] m.kind = "FlushArp"   -> ServiceId.NmtCommand
                [] m.kind = "Ident"      -> ServiceId.IdentResponse
                [] m.kind = "Status"     -> ServiceId.StatusResponse
                [] m.kind = "NodeList"   -> ServiceId.NMTPublishActiveNodes
                [] m.kind = "Sdo"        -> ServiceId.Sdo

\* The payload of an ASnd message: of build_ident_response and
\* build_status_response (the entries are already off the queue), of
\* build_nmt_command_frame and build_node_list_payload, or an SDO frame.
AsndPayload(m) ==
  CASE m.kind \in {"HostName", "Command", "FlushArp"} -> Good(nmt_command_payload(m.body))
    [] m.kind = "Ident"    -> Good(serialize_ident(m.body))
    [] m.kind = "Status"   -> Good(serialize_status(m.body))
    [] m.kind = "NodeList" -> Good(node_list_payload(m.body))
    [] m.kind = "Sdo"      -> serialize_sdo_asnd_payload(m.body.seq, m.body.cmd)

Encode(m) ==
  CASE m.carrier = "frame" -> serialize_frame_action(Eth, m.body, m.kind = "cn")
    [] m.carrier = "asnd"  ->
         LET p == AsndPayload(m)
         IN IF p.err # "Ok" THEN p
            ELSE serialize_frame_action(Eth, [type |-> "ASnd", dest |-> 1, src |-> 240,
                                              service |-> Service(m), payload |-> p.val], FALSE)
    [] m.carrier = "udp" -> serialize_sdo_udp_payload(m.body.seq, m.body.cmd, 1500)
    \* The rest of a container is zero (get_pending_request).
    [] m.carrier = "container" -> Good(serialize_pdo_sdo(m.body) \o Zeros(4))

\* What a CN takes from an NMT command (cn/events.rs).
received_command(p) ==
  IF p = <<>> THEN Bad("ignored") ELSE Good([data |-> "None", command |-> p[1]])
received_host_name(p) ==
  IF Len(p) < 34 \/ ~IsText(Name(SubSeq(p, 3, 34))) THEN Bad("ignored")
  ELSE Good([data |-> "HostName", command |-> p[1], name |-> Name(SubSeq(p, 3, 34))])
received_flush_arp(p) ==
  IF Len(p) < 3 THEN Bad("ignored") ELSE Good([data |-> "FlushArp", command |-> p[1], node |-> p[3]])

\* The payload decoded by the handler of its service.  A node list is read
\* as a set; nothing in the library reads one.
DecodeService(kind, p) ==
  CASE kind = "Command"  -> received_command(p)
    [] kind = "HostName" -> received_host_name(p)
    [] kind = "FlushArp" -> received_flush_arp(p)
    [] kind = "Ident"    -> deserialize_ident(p)
    [] kind = "Status"   -> deserialize_status(p)
    [] kind = "NodeList" -> Good({n \in 1..(8 * Len(p)) : (n - 1) % 8 \in Bits(p[((n - 1) \div 8) + 1])})
    [] kind = "Sdo"      -> deserialize_sdo_asnd_payload(p)

Decode(m, b) ==
  CASE m.carrier = "frame" -> deserialize_frame(b)
    [] m.carrier = "asnd"  -> LET f == deserialize_frame(b)
                              IN IF f.err # "Ok" THEN f ELSE DecodeService(m.kind, f.val.payload)
    [] m.carrier = "udp"       -> deserialize_sdo_udp_payload(b)
    [] m.carrier = "container" -> deserialize_pdo_sdo(b)

Init == phase = "idle" /\ msg = <<>> /\ wire = <<>> /\ cut = FALSE /\ got = <<>>

Send(m) ==
  /\ phase = "idle"
  /\ LET b == Encode(m)
     IN /\ phase' = IF b.err = "Ok" THEN "wire" ELSE "refused"
        /\ wire' = b.val
  /\ msg' = m
  /\ UNCHANGED <<cut, got>>

\* The tail of a frame or datagram is missing; a container is a fixed part
\* of a PDO and arrives as a whole.
LoseTail(n) ==
  /\ phase = "wire" /\ ~cut /\ msg.carrier # "container"
  /\ wire' = SubSeq(wire, 1, n) /\ cut' = TRUE
  /\ UNCHANGED <<phase, msg, got>>

Receive ==
  /\ phase = "wire" /\ wire # <<>>
  /\ got' = Decode(msg, wire) /\ phase' = "got"
  /\ UNCHANGED <<msg, wire, cut>>

\* The next message; also after an encoder that refused, a frame that is not
\* for this node to send, and a frame of which nothing is left.
Forget ==
  /\ phase \in {"got", "refused"} \/ (phase = "wire" /\ wire = <<>>)
  /\ phase' = "idle" /\ msg' = <<>> /\ wire' = <<>> /\ cut' = FALSE /\ got' = <<>>

Next == \/ \E m \in Messages : Send(m)
        \/ \E n \in 0..(Len(wire) - 1) : LoseTail(n)
        \/ Receive
        \/ Forget

Spec == Init /\ [][Next]_vars

--------------------------------------------------------------------------
\* The characters of a text that fit into n octets, and the sign for the one
\* that does not fit as a whole.
Fitting(s, n) ==
  LET whole == CHOOSE k \in 0..Least(n, Len(s)) :
                 /\ IsText(SubSeq(s, 1, k))
                 /\ \A j \in (k + 1)..Least(n, Len(s)) : ~IsText(SubSeq(s, 1, j))
  IN SubSeq(s, 1, whole) \o IF whole < Least(n, Len(s)) THEN Replacement ELSE <<>>
\* What the receiver should find: the message, its entries up to the
\* terminator, its names up to their first zero and as much of a node's own
\* name as fits.  A name to set that is no text is ignored; set_hostname sends
\* none, and none longer than its field.
Expected(m) ==
  CASE m.kind = "Ident"    -> [m.body EXCEPT !.hostName = Fitting(Name(@), 32)]
    [] m.kind = "HostName" -> [m.body EXCEPT !.name = Name(@)]
    [] OTHER               -> m.body
Outcome(m) == IF m.kind = "HostName" /\ ~IsText(Name(m.body.name)) THEN Bad("ignored") ELSE Good(Expected(m))

\* The heuristic of ASndFrame::deserialize is safe for this message.
KeepsItsZeros(m) ==
  m.carrier = "asnd" => LET p == AsndPayload(m).val IN Len(p) > MinPayload - 4 \/ p[Len(p)] # 0

\* A message that was not cut arrives as it was sent, through both codecs,
\* the padding of short frames and the zero fill of a container, unless it
\* is a short ASnd payload that ends in zero.  A host name of 1F9Ah arrives as
\* far as its characters fit into the 32 octets of an IdentResponse; one that
\* is to be set is taken only if it is text (process_frame).
IntactArrives ==
  phase = "got" /\ ~cut /\ KeepsItsZeros(msg) => got = Outcome(msg)

\* A message that lost its end is refused or read as what was sent; a
\* receiver never acts on a PDO, an identity or an SDO command that is made
\* of part of the bytes.  StatusResponse has no length: it may lose its last
\* entries, and a node list its last nodes, but nothing else changes.
CutNotMisread ==
  phase = "got" /\ cut /\ got.err = "Ok" =>
    LET want == Expected(msg)
    IN CASE msg.kind = "Status" ->
              /\ [got.val EXCEPT !.entries = <<>>] = [want EXCEPT !.entries = <<>>]
              /\ got.val.entries = UpTo(want.entries, Len(got.val.entries))
         [] msg.kind = "NodeList" -> got.val \subseteq want
         [] OTHER -> got.val = want

\* frame/control/asnd.rs on the trailing zeros of a short frame: "This assumes
\* padding is always zero and the actual payload doesn't end in zero."  If
\* that is so, every service payload a node hands to ASnd arrives.
AsndCarriesServices ==
  phase = "got" /\ ~cut /\ msg.carrier = "asnd" => got = Outcome(msg)
=============================================================================
