----------------------------- MODULE PdoHandler -----------------------------
(* Process data (node/pdo_handler.rs and the two builders of TPDOs): how a   *)
(* node takes a received payload apart and puts its own together, following  *)
(* the mapping in its dictionary.  A node is a record: the dictionary od,    *)
(* the embedded SDO server es and client ec; errs, ran and got are what the  *)
(* frame at hand made it do: the errors given to the error manager, the      *)
(* embedded requests executed and the embedded responses accepted.           *)
EXTENDS EmbeddedSdo

MaxIsochronous == 1490
MN == 240

Node(od) == [od |-> od, es |-> <<>>, ec |-> <<>>, errs |-> {}, ran |-> <<>>, got |-> <<>>]
AtRest(nd) == [nd EXCEPT !.errs = {}, !.ran = <<>>, !.got = <<>>]

\* byte_offset and byte_length: only whole octets are supported.
ByteAligned(e) == e.offset % 8 = 0 /\ e.length % 8 = 0
OffsetOf(e) == e.offset \div 8
LengthOf(e) == e.length \div 8
EndOf(e)    == OffsetOf(e) + LengthOf(e)

\* The entries of a mapping object, as many as its sub-index 0 says; one that
\* is missing or no UNSIGNED64 is no mapping.
EntryCount(od, i) == read_or("U8", od, i, 0, 0)
IsMapping(r)      == r # None /\ r[1].t = "U64"

--------------------------------------------------------------------------
(* Reception.                                                               *)

\* The bit of a node in 1C80h or 1C81h; the managing node has none.
update_pdo_error_object(od, obj, src) ==
  LET v  == read(od, obj, 0)
      at == ((src - 1) \div 8) + 1
  IN IF src = 0 \/ src >= MN \/ v = None \/ v[1].t # "OctetString" \/ at > Len(v[1].d) THEN od
     ELSE write_internal(od, obj, 0,
            [v[1] EXCEPT !.d[at] = Byte(Bits(@) \cup {(src - 1) % 8})], FALSE).od

Fault(nd, err, obj, src) ==
  [nd EXCEPT !.errs = @ \cup {err},
             !.od = IF obj = None THEN @ ELSE update_pdo_error_object(@, obj[1], src)]

\* One entry: a container goes to the embedded SDO, an object is written
\* whatever its access right.  stop: the rest of the payload is left.
apply_rpdo_mapping_entry(nd, e, payload, src) ==
  LET data == SubSeq(payload, OffsetOf(e) + 1, EndOf(e))
      v    == read(nd.od, e.index, e.sub)
      on(n)      == [nd |-> n, stop |-> FALSE]
      stop(n)    == [nd |-> n, stop |-> TRUE]
      served(r)  == on([nd EXCEPT !.es = r.es, !.od = r.od, !.ran = @ \o r.ran])
      answer(r)  == on([nd EXCEPT !.ec = r.ec, !.got = @ \o r.got])
      decoded(d) == IF d.err # "Ok" THEN stop(Fault(nd, "PdoPayloadShort", None, src))
                    ELSE on([nd EXCEPT !.od = write_internal(@, e.index, e.sub, d.val, FALSE).od])
  IN CASE ~ByteAligned(e) -> on(nd)
       [] ByteAligned(e) /\ Len(payload) < EndOf(e) ->
            stop(Fault(nd, "PdoPayloadShort", Some(\h1C81), src))
       [] OTHER ->
            CASE IsServerChannel(e.index) -> served(emb_handle_request(nd.es, e.index, data, nd.od))
              [] IsClientChannel(e.index) -> answer(emb_handle_response(nd.ec, e.index, data))
              [] OTHER -> IF v = None THEN on(nd) ELSE decoded(deserialize(data, v[1]))

\* The first RPDO channel of the source; the managing node is node 0 there.
RpdoOf(od, src) ==
  {i \in DOMAIN od : /\ i \in \h1400..\h14FF
                     /\ LET id == read_as("U8", od, i, 1)
                        IN id # None /\ \/ src = MN /\ id[1] = 0
                                        \/ src # 0 /\ id[1] = src}
Lowest(S) == CHOOSE i \in S : \A j \in S : i <= j

\* Mutant: the sub-version alone is compared.
MutSubVersion(expected, received) == received % 16 >= expected % 16

\* The same main version, and a sub-version that has at least what is expected.
VersionOk(expected, received) ==
  \/ expected = 0 /\ received = 0
  \/ expected > 0 /\ expected \div 16 = received \div 16 /\ received % 16 >= expected % 16

\* The k-th entry of a mapping, read before any of them is applied.
rpdo_step(a, r, payload, src) ==
  IF a.stop \/ ~IsMapping(r) THEN a
  ELSE apply_rpdo_mapping_entry(a.nd, from_u64(r[1]), payload, src)

\* What the first k entries of mapping i make of the node.
rpdo_pass(nd, i, payload, src) ==
  LET at[k \in 0..EntryCount(nd.od, i)] ==
        IF k = 0 THEN [nd |-> nd, stop |-> FALSE]
        ELSE rpdo_step(at[k - 1], read(nd.od, i, k), payload, src)
  IN at

consume_pdo_payload(nd, src, payload, version, rd) ==
  LET chans == RpdoOf(nd.od, src)
      chan  == Lowest(chans)
      map   == chan + \h200
  IN CASE ~rd \/ chans = {} -> nd
       [] rd /\ chans # {} /\ ~VersionOk(read_or("U8", nd.od, chan, 2, 0), version) ->
            Fault(nd, "PdoMapVersion", Some(\h1C80), src)
       [] OTHER -> rpdo_pass(nd, map, payload, src)[EntryCount(nd.od, map)].nd

--------------------------------------------------------------------------
(* Transmission.                                                            *)

Put(p, off, data) ==
  [k \in DOMAIN p |-> IF k \in (off + 1)..(off + Len(data)) THEN data[k - off] ELSE p[k]]

\* A container takes the response or the request that waits, or zeros.
IsContainer(i) == IsServerChannel(i) \/ IsClientChannel(i)
Container(b, e) ==
  LET server(r) == [b EXCEPT !.nd.es = r.es, !.p = Put(@, OffsetOf(e), r.data)]
      client(r) == [b EXCEPT !.nd.ec = r.ec, !.p = Put(@, OffsetOf(e), r.data)]
  IN IF IsServerChannel(e.index) THEN server(get_pending_response(b.nd.es, e.index, LengthOf(e)))
     ELSE client(emb_get_pending_request(b.nd.ec, e.index, LengthOf(e)))

Building(nd, limit) == [nd |-> nd, err |-> "Ok", p |-> Zeros(Least(limit, MaxIsochronous))]

\* An entry of a CN's TPDO; a value of another length than mapped is an error.
apply_tpdo_mapping_entry(b, e) ==
  LET v == read(b.nd.od, e.index, e.sub)
  IN CASE b.err # "Ok" \/ ~ByteAligned(e) -> b
       [] b.err = "Ok" /\ ByteAligned(e) /\ Len(b.p) < EndOf(e) -> [b EXCEPT !.err = "PayloadTooSmall"]
       [] OTHER ->
            IF IsContainer(e.index) THEN Container(b, e)
            ELSE IF v = None THEN b
            ELSE IF Len(serialize(v[1])) # LengthOf(e) THEN [b EXCEPT !.err = "TypeMismatch"]
            ELSE [b EXCEPT !.p = Put(@, OffsetOf(e), serialize(v[1]))]

\* The TPDO of a CN's PRes; an entry that is no mapping counts as one of zeros.
PresLimit(od) == read_or("U16", od, \h1F98, 5, 36)
tpdo_entry(r) == from_u64(IF IsMapping(r) THEN r[1] ELSE [t |-> "U64", d |-> Zeros(8)])
tpdo_pass(nd) ==
  LET at[k \in 0..EntryCount(nd.od, \h1A00)] ==
        IF k = 0 THEN Building(nd, PresLimit(nd.od))
        ELSE apply_tpdo_mapping_entry(at[k - 1], tpdo_entry(read(nd.od, \h1A00, k)))
  IN at
cn_build_tpdo_payload(nd) == tpdo_pass(nd)[EntryCount(nd.od, \h1A00)]

\* The process data of a PRes of node 1: zeros and RD = 0 after an error.
build_pres_response(nd, operational) ==
  LET pres(b) == [nd |-> b.nd, src |-> 1, rd |-> operational /\ b.err = "Ok",
                  version |-> IF b.err = "Ok" THEN read_or("U8", nd.od, \h1800, 2, 0) ELSE 0,
                  p |-> IF b.err = "Ok" THEN b.p ELSE Zeros(PresLimit(nd.od))]
  IN pres(cn_build_tpdo_payload(nd))

\* An entry of the MN's TPDO; of a value of another length what fits is sent.
preq_mapping_entry(b, e) ==
  LET v == read(b.nd.od, e.index, e.sub)
      d == serialize(v[1])
  IN CASE b.err # "Ok" \/ ~ByteAligned(e) -> b
       [] b.err = "Ok" /\ ByteAligned(e) /\ EndOf(e) > Len(b.p) -> [b EXCEPT !.err = "PdoMapOverrun"]
       [] OTHER ->
            IF IsContainer(e.index) THEN Container(b, e)
            ELSE IF v = None THEN b
            ELSE [b EXCEPT !.p = Put(@, OffsetOf(e), SubSeq(d, 1, Least(Len(d), LengthOf(e))))]

preq_step(b, r) == IF IsMapping(r) THEN preq_mapping_entry(b, from_u64(r[1])) ELSE b

\* The limit for the target of the channel, 36 if there is none.
PReqLimit(od, chan) == read_or("U16", od, \h1F8B, read_or("U8", od, chan, 1, 0), 36)
preq_pass(nd, chan) ==
  LET at[k \in 0..EntryCount(nd.od, chan + \h200)] ==
        IF k = 0 THEN Building(nd, PReqLimit(nd.od, chan))
        ELSE preq_step(at[k - 1], read(nd.od, chan + \h200, k))
  IN at
mn_build_tpdo_payload(nd, chan) == preq_pass(nd, chan)[EntryCount(nd.od, chan + \h200)]

\* The process data of a PReq: of the first TPDO channel of the target, none
\* without a channel; after an error no PReq is sent.
build_preq_frame(nd, target, operational) ==
  LET chans == {i \in DOMAIN nd.od : i \in \h1800..\h18FF /\ read_as("U8", nd.od, i, 1) = Some(target)}
      chan  == Lowest(chans)
      preq(p, version) == [src |-> MN, rd |-> operational, version |-> version, p |-> p]
      sent(b) == [nd |-> b.nd, frame |-> IF b.err = "Ok"
                                         THEN Some(preq(b.p, read_or("U8", nd.od, chan, 2, 0)))
                                         ELSE None]
  IN IF chans = {} THEN [nd |-> nd, frame |-> Some(preq(<<>>, 0))]
     ELSE sent(mn_build_tpdo_payload(nd, chan))
=============================================================================
