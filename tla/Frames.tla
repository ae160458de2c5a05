------------------------------- MODULE Frames -------------------------------
(* The POWERLINK frames and the service payloads that ASnd carries, as the  *)
(* bytes the codecs write and read (frame/).  A number of several bytes is  *)
(* the sequence of its little-endian bytes, a flag byte the set of its      *)
(* bits.  A decoder returns [err, val]: "Ok" and the value, or the error.   *)
EXTENDS Integers, Sequences, FiniteSets, ObjectDictionary

Byte(bits) == LET bit(i) == IF i \in bits THEN 2^i ELSE 0
              IN bit(0) + bit(1) + bit(2) + bit(3) + bit(4) + bit(5) + bit(6) + bit(7)
Bits(n)    == {i \in 0..7 : (n \div 2^i) % 2 = 1}
Zeros(n)   == [k \in 1..n |-> 0]
Least(a, b) == IF a < b THEN a ELSE b

\* UTF-8, which String::from_utf8 asks for: the octets of a character by its
\* first one, what may follow that one, and the octets from k on that are a
\* character or the longest beginning of one.
CharOctets(o) == CASE o < \h80 -> 1 [] o \in \hC2..\hDF -> 2 [] o \in \hE0..\hEF -> 3
                   [] o \in \hF0..\hF4 -> 4 [] OTHER -> 0
SecondOctets(o) == CASE o = \hE0 -> \hA0..\hBF [] o = \hED -> \h80..\h9F
                     [] o = \hF0 -> \h90..\hBF [] o = \hF4 -> \h80..\h8F
                     [] OTHER   -> \h80..\hBF
ContinuesAt(s, k, i) == /\ i < CharOctets(s[k]) /\ k + i <= Len(s)
                        /\ s[k + i] \in IF i = 1 THEN SecondOctets(s[k]) ELSE \h80..\hBF
PartAt(s, k) == CHOOSE n \in 1..4 : /\ \A i \in 1..(n - 1) : ContinuesAt(s, k, i)
                                    /\ ~ContinuesAt(s, k, n)
InCharacter(s, k) == \E j \in 1..3 : j < k /\ PartAt(s, k - j) > j
IsText(s) == \A k \in DOMAIN s : InCharacter(s, k) \/ PartAt(s, k) = CharOctets(s[k])

Good(v) == [err |-> "Ok", val |-> v]
Bad(e)  == [err |-> e, val |-> <<>>]

\* The POWERLINK section of the shortest Ethernet frame, and of the buffer
\* serialize_frame_action provides.
MinPayload == 46
Room       == 1518 - 14

MessageType == [SoC |-> 1, PReq |-> 3, PRes |-> 4, SoA |-> 5, ASnd |-> 6]

\* The codes NmtState::try_from knows.
NmtStateCodes == {0, \h19, \h29, \h39, \h79, \h1C, \h1D, \h5D, \h6D, \hFD, \h4D, \h1E}

ServiceId == [IdentResponse |-> 1, StatusResponse |-> 2, NmtRequest |-> 3, NmtCommand |-> 4,
              Sdo |-> 5, NMTPublishTime |-> 11, NMTPublishNMTState |-> 13,
              NMTPublishNodeState |-> 14, NMTPublishNodeList |-> 15, NMTPublishEmergNew |-> 16,
              NMTPublishHeartbeat |-> 17, NMTPublishActiveNodes |-> 18]
ServiceCodes == {ServiceId[s] : s \in DOMAIN ServiceId}
RequestedServiceCodes == {0, 1, 2, 3, 255}

\* PR in bits 3 to 5, RS in bits 0 to 2; RSFlag::new keeps 7 at most.
PrRs(pr, rs) == pr * 8 + Least(rs, 7)
Pr(b) == (b \div 8) % 8
Rs(b) == b % 8

--------------------------------------------------------------------------
(* Ethernet and POWERLINK headers.                                          *)

EtherType == <<\h88, \hAB>>         \* big-endian, unlike the rest
serialize_eth_header(h) == h.dstMac \o h.srcMac \o EtherType
deserialize_eth_header(b) ==
  IF Len(b) < 14 THEN Bad("BufferTooShort")
  ELSE Good([dstMac |-> SubSeq(b, 1, 6), srcMac |-> SubSeq(b, 7, 12), type |-> SubSeq(b, 13, 14)])
is_powerlink(h) == h.type = EtherType

serialize_pl_header(f) == <<MessageType[f.type], f.dest, f.src>>
deserialize_pl_header(b) ==
  LET known == {t \in DOMAIN MessageType : MessageType[t] = b[1] % 128}
  IN IF Len(b) < 3 THEN Bad("BufferTooShort")
     ELSE IF known = {} THEN Bad("InvalidMessageType")
     ELSE Good([type |-> CHOOSE t \in known : TRUE, dest |-> b[2], src |-> b[3]])

\* The header of the decoded frame with its own fields; the decoders check
\* their length before and the message type here.
WithHeader(type, b, fields) ==
  LET h == deserialize_pl_header(b)
  IN IF h.err # "Ok" THEN h
     ELSE IF h.val.type # type THEN Bad("InvalidPlFrame")
     ELSE Good(h.val @@ fields)

\* Zero padding up to the shortest frame.
Padded(b) ==
  LET full == b \o Zeros(MinPayload - Least(Len(b), MinPayload))
  IN IF Len(full) > Room THEN Bad("BufferTooShort") ELSE Good(full)

--------------------------------------------------------------------------
(* The five frames.                                                         *)

serialize_soc(f) ==
  Padded(serialize_pl_header(f) \o <<0, Byte(f.flags), 0>> \o f.netTime \o f.relativeTime)
deserialize_soc(b) ==
  IF Len(b) < 22 THEN Bad("BufferTooShort")
  ELSE WithHeader("SoC", b, [flags |-> Bits(b[5]) \cap {6, 7},
                             netTime |-> SubSeq(b, 7, 14), relativeTime |-> SubSeq(b, 15, 22)])

serialize_soa(f) ==
  Padded(serialize_pl_header(f)
         \o <<f.nmtState, Byte(f.flags), 0, f.service, f.target, f.eplVersion>>)
deserialize_soa(b) ==
  IF Len(b) < 9 THEN Bad("BufferTooShort")
  ELSE LET r == WithHeader("SoA", b, [nmtState |-> b[4], flags |-> Bits(b[5]) \cap {1, 2},
                                      service |-> b[7], target |-> b[8], eplVersion |-> b[9]])
       IN IF r.err # "Ok" THEN r
          ELSE IF b[4] \notin NmtStateCodes THEN Bad("InvalidNmtState")
          ELSE IF b[7] \notin RequestedServiceCodes THEN Bad("InvalidServiceId") ELSE r

\* The payload of a PReq or PRes is what its size field says; less is an
\* error, the rest is padding.
Sized(b) == Num(SubSeq(b, 9, 10))
\* Mutant: the padding is taken for payload.
MutPayload(b) == Good(SubSeq(b, 11, Len(b)))
\* Mutant: a payload that is shorter than announced is taken as it is.
MutShortPayload(b) == Good(SubSeq(b, 11, Least(10 + Sized(b), Len(b))))
PollPayload(b) == IF Len(b) < 10 + Sized(b) THEN Bad("BufferTooShort")
                  ELSE Good(SubSeq(b, 11, 10 + Sized(b)))

serialize_preq(f) ==
  Padded(serialize_pl_header(f) \o <<0, Byte(f.flags), 0, f.pdoVersion, 0>>
         \o Le(Len(f.payload), 2) \o f.payload)
deserialize_preq(b) ==
  IF Len(b) < 10 THEN Bad("BufferTooShort")
  ELSE LET p == PollPayload(b)
           r == WithHeader("PReq", b, [flags |-> Bits(b[5]) \cap {0, 2, 5},
                                       pdoVersion |-> b[7], payload |-> p.val])
       IN IF r.err # "Ok" THEN r ELSE IF p.err # "Ok" THEN p ELSE r

serialize_pres(f) ==
  Padded(serialize_pl_header(f)
         \o <<f.nmtState, Byte(f.flags), PrRs(f.pr, f.rs), f.pdoVersion, 0>>
         \o Le(Len(f.payload), 2) \o f.payload)
deserialize_pres(b) ==
  IF Len(b) < 10 THEN Bad("BufferTooShort")
  ELSE LET p == PollPayload(b)
           r == WithHeader("PRes", b, [nmtState |-> b[4], flags |-> Bits(b[5]) \cap {0, 4, 5},
                                       pr |-> Pr(b[6]), rs |-> Rs(b[6]),
                                       pdoVersion |-> b[7], payload |-> p.val])
       IN IF r.err # "Ok" THEN r
          ELSE IF b[2] # 255 THEN Bad("InvalidPlFrame")
          ELSE IF b[4] \notin NmtStateCodes THEN Bad("InvalidNmtState")
          ELSE IF p.err # "Ok" THEN p ELSE r

\* ASnd has no length.  In a frame of the minimum size the trailing zeros
\* are taken for padding.
Trimmed(s) == SubSeq(s, 1, CHOOSE n \in 0..Len(s) :
                             /\ n > 0 => s[n] # 0
                             /\ \A k \in (n + 1)..Len(s) : s[k] = 0)
serialize_asnd(f) == Padded(serialize_pl_header(f) \o <<f.service>> \o f.payload)
deserialize_asnd(b) ==
  IF Len(b) < 4 THEN Bad("BufferTooShort")
  ELSE LET rest == SubSeq(b, 5, Len(b))
           r == WithHeader("ASnd", b,
                  [service |-> b[4],
                   payload |-> IF Len(b) = MinPayload THEN Trimmed(rest) ELSE rest])
       IN IF r.err # "Ok" \/ b[4] \in ServiceCodes THEN r ELSE Bad("InvalidServiceId")

serialize_frame(f) ==
  CASE f.type = "SoC"  -> serialize_soc(f)
    [] f.type = "PReq" -> serialize_preq(f)
    [] f.type = "PRes" -> serialize_pres(f)
    [] f.type = "SoA"  -> serialize_soa(f)
    [] f.type = "ASnd" -> serialize_asnd(f)

\* A node sends the frames of its role only; nothing leaves otherwise.
serialize_frame_action(eth, f, is_cn) ==
  LET s == serialize_frame(f)
  IN IF (is_cn /\ f.type \notin {"PRes", "ASnd"}) \/ (~is_cn /\ f.type = "PRes")
     THEN Good(<<>>)
     ELSE IF s.err # "Ok" THEN s ELSE Good(serialize_eth_header(eth) \o s.val)

deserialize_frame(b) ==
  LET eth == deserialize_eth_header(b)
      pl  == SubSeq(b, 15, Len(b))
      known == {t \in DOMAIN MessageType : MessageType[t] = pl[1] % 128}
      type  == CHOOSE t \in known : TRUE
  IN IF eth.err # "Ok" THEN eth
     ELSE IF ~is_powerlink(eth.val) THEN Bad("InvalidEthernetFrame")
     ELSE IF pl = <<>> THEN Bad("InvalidPlFrame")
     ELSE IF known = {} THEN Bad("InvalidMessageType")
     ELSE CASE type = "SoC"  -> deserialize_soc(pl)
            [] type = "PReq" -> deserialize_preq(pl)
            [] type = "PRes" -> deserialize_pres(pl)
            [] type = "SoA"  -> deserialize_soa(pl)
            [] type = "ASnd" -> deserialize_asnd(pl)
=============================================================================
