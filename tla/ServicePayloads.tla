--------------------------- MODULE ServicePayloads ---------------------------
(* What the nodes put into an ASnd frame: IdentResponse and StatusResponse,  *)
(* NMT commands and requests, and the published node lists.                  *)
EXTENDS Frames
SE == INSTANCE SequencesExt

\* IdentResponse: each field at its octet with its width; the octets between
\* them are reserved and zero.
IdentFields ==
  [prRs |-> <<1, 1>>, nmtState |-> <<2, 1>>, eplVersion |-> <<4, 1>>, featureFlags |-> <<6, 4>>,
   mtu |-> <<10, 2>>, pollInSize |-> <<12, 2>>, pollOutSize |-> <<14, 2>>,
   responseTime |-> <<16, 4>>, deviceType |-> <<22, 4>>, vendorId |-> <<26, 4>>,
   productCode |-> <<30, 4>>, revisionNumber |-> <<34, 4>>, serialNumber |-> <<38, 4>>,
   verifyConfDate |-> <<50, 4>>, verifyConfTime |-> <<54, 4>>, appSwDate |-> <<58, 4>>,
   appSwTime |-> <<62, 4>>, ipAddress |-> <<66, 4>>, subnetMask |-> <<70, 4>>,
   defaultGateway |-> <<74, 4>>, hostName |-> <<78, 32>>]
IdentSize == 158

\* The object behind each field that IdentResponsePayload::new reads.
IdentObjects ==
  [nmtState |-> <<\h1F8C, 0>>, eplVersion |-> <<\h1F83, 0>>, featureFlags |-> <<\h1F82, 0>>,
   mtu |-> <<\h1F98, 8>>, pollInSize |-> <<\h1F98, 4>>, pollOutSize |-> <<\h1F98, 5>>,
   responseTime |-> <<\h1F98, 3>>, deviceType |-> <<\h1000, 0>>, vendorId |-> <<\h1018, 1>>,
   productCode |-> <<\h1018, 2>>, revisionNumber |-> <<\h1018, 3>>, serialNumber |-> <<\h1018, 4>>,
   verifyConfDate |-> <<\h1020, 1>>, verifyConfTime |-> <<\h1020, 2>>, appSwDate |-> <<\h1F52, 1>>,
   appSwTime |-> <<\h1F52, 2>>, ipAddress |-> <<\h1E40, 2>>, subnetMask |-> <<\h1E40, 3>>,
   defaultGateway |-> <<\h1E40, 5>>]

UpTo(s, n) == SubSeq(s, 1, Least(n, Len(s)))
\* A name ends at its first zero.
Name(s) == UpTo(s, CHOOSE n \in 0..Len(s) : /\ \A k \in 1..n : s[k] # 0
                                            /\ n < Len(s) => s[n + 1] = 0)

\* String::from_utf8_lossy: octets that are no character, and a beginning of
\* one that is cut off, give U+FFFD.
Replacement == <<\hEF, \hBF, \hBD>>
from_utf8_lossy(s) ==
  SE!FlattenSeq([k \in DOMAIN s |->
    IF InCharacter(s, k) THEN <<>>
    ELSE IF PartAt(s, k) = CharOctets(s[k]) THEN SubSeq(s, k, k + PartAt(s, k) - 1)
    ELSE Replacement])

\* The dictionary's values; zero where an object is missing or of another
\* type.  A state the node cannot name is NotActive.
new_ident_response(od, prRs) ==
  LET OfWidth(f) == IdentFields[f][2]
      Read(f) == LET a == IdentObjects[f]
                     r == read(od, a[1], a[2])
                     t == [w \in {1, 2, 4} |-> IF w = 1 THEN "U8" ELSE IF w = 2 THEN "U16" ELSE "U32"]
                 IN IF r # None /\ r[1].t = t[OfWidth(f)] THEN r[1].d ELSE Zeros(OfWidth(f))
      name == read(od, \h1F9A, 0)
      all  == [f \in DOMAIN IdentObjects |-> Read(f)]
  IN [all EXCEPT !.nmtState = IF read_as("U8", od, \h1F8C, 0) # None /\ @[1] \in NmtStateCodes
                              THEN @ ELSE <<\h1C>>]
     @@ [prRs |-> <<prRs>>,
         hostName |-> IF name # None /\ name[1].t = "VisibleString" THEN name[1].d ELSE <<>>]

serialize_ident(p) ==
  [k \in 1..IdentSize |->
     LET holders == {f \in DOMAIN IdentFields :
                       k - IdentFields[f][1] \in 1..Least(Len(p[f]), IdentFields[f][2])}
     IN IF holders = {} THEN 0
        ELSE LET f == CHOOSE g \in holders : TRUE IN p[f][k - IdentFields[f][1]]]

deserialize_ident(b) ==
  LET raw == [f \in DOMAIN IdentFields |->
                SubSeq(b, IdentFields[f][1] + 1, IdentFields[f][1] + IdentFields[f][2])]
  IN IF Len(b) < IdentSize THEN Bad("BufferTooShort")
     ELSE IF b[3] \notin NmtStateCodes THEN Bad("InvalidNmtState")
     ELSE Good([raw EXCEPT !.hostName = from_utf8_lossy(Name(@)), !.prRs = <<@[1] % 64>>])

--------------------------------------------------------------------------
(* StatusResponse.                                                          *)

\* An entry's type: mode in bits 12 and 13, queue and status flags above,
\* the profile below.  Mode 0 ends the list.
Terminator == 0
ModeOf(e) == (e.entryType \div 4096) % 4
serialize_entry(e) == Le(e.entryType, 2) \o Le(e.code, 2) \o e.timestamp \o e.info
deserialize_entry(b) == [entryType |-> Num(SubSeq(b, 1, 2)), code |-> Num(SubSeq(b, 3, 4)),
                         timestamp |-> SubSeq(b, 5, 12), info |-> SubSeq(b, 13, 20)]

\* The error register (1001h) and seven bytes nothing fills.
new_static_errors(od) == <<read_or("U8", od, \h1001, 0, 0)>> \o Zeros(7)

serialize_status(p) ==
  LET Entry(k) == serialize_entry(p.entries[((k - 1) \div 20) + 1])[((k - 1) % 20) + 1]
  IN <<Byte(p.flags), PrRs(p.pr, p.rs), p.nmtState, 0, 0, 0>> \o p.errors
     \o [k \in 1..(20 * Len(p.entries)) |-> Entry(k)] \o Zeros(20)

\* The entries up to the terminator or to the end of the buffer.
EntriesIn(b) ==
  LET all == [k \in 1..((Len(b) - 14) \div 20) |->
                deserialize_entry(SubSeq(b, 20 * k - 5, 20 * k + 14))]
  IN SubSeq(all, 1, CHOOSE n \in 0..Len(all) :
                      /\ \A k \in 1..n : ModeOf(all[k]) # Terminator
                      /\ n < Len(all) => ModeOf(all[n + 1]) = Terminator)

deserialize_status(b) ==
  IF Len(b) < 14 THEN Bad("BufferTooShort")
  ELSE IF b[3] \notin NmtStateCodes THEN Bad("InvalidNmtState")
  ELSE Good([flags |-> Bits(b[1]) \cap {4, 5}, pr |-> Pr(b[2]), rs |-> Rs(b[2]),
             nmtState |-> b[3], errors |-> SubSeq(b, 7, 14), entries |-> EntriesIn(b)])

--------------------------------------------------------------------------
(* NMT services.                                                            *)

\* Plain command, NMTNetHostNameSet with its 32 octets, NMTFlushArpEntry.
nmt_command_payload(c) ==
  CASE c.data = "None"     -> <<c.command, 0>>
    [] c.data = "HostName" -> <<c.command, 0>> \o UpTo(c.name \o Zeros(32), 32)
    [] c.data = "FlushArp" -> <<c.command, 0, c.node>>

nmt_request_payload(command, target) == <<command, target>>

\* One bit per node, 32 octets.
node_list_payload(nodes) ==
  [k \in 1..32 |-> Byte({i \in 0..7 : 8 * (k - 1) + i + 1 \in nodes /\ 8 * (k - 1) + i + 1 <= 254})]
=============================================================================
