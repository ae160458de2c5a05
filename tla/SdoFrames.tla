------------------------------ MODULE SdoFrames ------------------------------
(* The SDO layers as bytes: sequence layer header, command, the payloads of  *)
(* the requests, the UDP and ASnd envelopes, and the command of an SDO in a  *)
(* PDO container.  Sequence numbers have six bits.                           *)
EXTENDS Frames

CommandId == [Nil |-> 0, WriteByIndex |-> 1, ReadByIndex |-> 2, WriteAllByIndex |-> 3,
              ReadAllByIndex |-> 4, WriteByName |-> 5, ReadByName |-> 6, FileWrite |-> \h20,
              FileRead |-> \h21, WriteMultipleParamByIndex |-> \h31,
              ReadMultipleParamByIndex |-> \h32, Abort |-> \h40, MaxSegmentSize |-> \h70]
Segmentation     == <<"Expedited", "Initiate", "Segment", "Complete">>
ReceiveConnState == <<"NoConnection", "Initialization", "ConnectionValid", "ErrorResponse">>
SendConnState    == <<"NoConnection", "Initialization", "ConnectionValid",
                      "ConnectionValidAckRequest">>
CodeOf(enum, name) == (CHOOSE k \in DOMAIN enum : enum[k] = name) - 1

\* SequenceLayerHeader: receive half, send half, two reserved octets.
serialize_sequence(h) == <<4 * (h.rsn % 64) + CodeOf(ReceiveConnState, h.rcon),
                           4 * (h.ssn % 64) + CodeOf(SendConnState, h.scon), 0, 0>>
deserialize_sequence(b) ==
  IF Len(b) < 4 THEN Bad("BufferTooShort")
  ELSE Good([rsn |-> b[1] \div 4, rcon |-> ReceiveConnState[(b[1] % 4) + 1],
             ssn |-> b[2] \div 4, scon |-> SendConnState[(b[2] % 4) + 1]])

\* A command: transaction, response and abort flags, segmentation, command,
\* the announced segment size and, in an Initiate, the size of the transfer.
FlagsOf(c) == (IF c.resp THEN 16 ELSE 0) + (IF c.abrt THEN 32 ELSE 0)
              + 64 * CodeOf(Segmentation, c.seg)
CommandWithCode(n) == {c \in DOMAIN CommandId : CommandId[c] = n}

CommandPayload(b, from, n) ==
  IF Len(b) < from + n - 1 THEN Bad("BufferTooShort") ELSE Good(SubSeq(b, from, from + n - 1))

serialize_command(c, room) ==
  LET size  == IF c.seg = "Initiate" THEN Le(IF c.size = None THEN 0 ELSE c.size[1], 4) ELSE <<>>
      bytes == <<0, c.tid, FlagsOf(c), CommandId[c.id]>> \o Le(c.segSize, 2) \o <<0, 0>>
               \o size \o c.payload
  IN IF room < Len(bytes) THEN Bad("BufferTooShort") ELSE Good(bytes)

deserialize_command(b) ==
  LET seg  == Segmentation[(b[3] \div 64) + 1]
      from == IF seg = "Initiate" THEN 13 ELSE 9
      n    == Num(SubSeq(b, 5, 6))
      p    == CommandPayload(b, from, n)
  IN IF Len(b) < 8 THEN Bad("BufferTooShort")
     ELSE IF CommandWithCode(b[4]) = {} THEN Bad("InvalidEnumValue")
     ELSE IF Len(b) < from - 1 THEN Bad("BufferTooShort")
     ELSE IF p.err # "Ok" THEN p
     ELSE Good([tid |-> b[2], resp |-> 4 \in Bits(b[3]), abrt |-> 5 \in Bits(b[3]), seg |-> seg,
                id |-> CHOOSE c \in CommandWithCode(b[4]) : TRUE, segSize |-> n,
                size |-> IF seg = "Initiate" THEN Some(Num(SubSeq(b, 9, 12))) ELSE None,
                payload |-> p.val])

--------------------------------------------------------------------------
(* The payloads of the requests; the fourth octet of an address is          *)
(* reserved.  Names are zero-terminated text.                               *)

AddressPayload(i, s) == Le(i, 2) \o <<s, 0>>
address_from_payload(p) ==
  IF Len(p) < 4 THEN Bad("SdoInvalidCommandPayload")
  ELSE Good([index |-> Num(SubSeq(p, 1, 2)), sub |-> p[3]])
write_from_payload(p) ==
  IF Len(p) < 4 THEN Bad("SdoInvalidCommandPayload")
  ELSE Good([index |-> Num(SubSeq(p, 1, 2)), sub |-> p[3], data |-> SubSeq(p, 5, Len(p))])

NameEnd(p) == CHOOSE n \in 0..Len(p) : /\ \A k \in 1..n : p[k] # 0
                                       /\ n < Len(p) => p[n + 1] = 0
name_from_payload(p) ==
  IF IsText(SubSeq(p, 1, NameEnd(p))) THEN Good(SubSeq(p, 1, NameEnd(p)))
  ELSE Bad("SdoInvalidCommandPayload")
\* A name that is empty or not terminated is refused.
write_name_from_payload(p) ==
  IF NameEnd(p) \in {0, Len(p)} \/ ~IsText(SubSeq(p, 1, NameEnd(p)))
  THEN Bad("SdoInvalidCommandPayload")
  ELSE Good([name |-> SubSeq(p, 1, NameEnd(p)), data |-> SubSeq(p, NameEnd(p) + 2, Len(p))])

multiple_from_payload(p) ==
  IF Len(p) % 4 # 0 THEN Bad("SdoInvalidCommandPayload")
  ELSE Good([k \in 1..(Len(p) \div 4) |->
               [index |-> Num(SubSeq(p, 4 * k - 3, 4 * k - 2)), sub |-> p[4 * k - 1]]])

--------------------------------------------------------------------------
(* The envelopes.                                                           *)

UdpPrefix == <<MessageType.ASnd, 0, 0, ServiceId.Sdo>>
serialize_sdo_udp_payload(h, c, room) ==
  LET cmd == serialize_command(c, room - 8)
  IN IF room < 8 THEN Bad("BufferTooShort")
     ELSE IF cmd.err # "Ok" THEN cmd
     ELSE Good(UdpPrefix \o serialize_sequence(h) \o cmd.val)
deserialize_sdo_udp_payload(b) ==
  IF Len(b) < 8 THEN Bad("BufferTooShort")
  ELSE IF b[1] # MessageType.ASnd THEN Bad("InvalidPlFrame")
  ELSE IF b[4] # ServiceId.Sdo THEN Bad("InvalidServiceId")
  ELSE LET h == deserialize_sequence(SubSeq(b, 5, Len(b)))
           c == deserialize_command(SubSeq(b, 9, Len(b)))
       IN IF c.err # "Ok" THEN c ELSE Good([seq |-> h.val, cmd |-> c.val])

\* The buffer for the command is estimated with four octets for its header.
serialize_sdo_asnd_payload(h, c) ==
  LET room == 4 + (IF c.size # None THEN 4 ELSE 0) + Len(c.payload)
      cmd  == serialize_command(c, room)
  IN IF cmd.err # "Ok" THEN cmd ELSE Good(serialize_sequence(h) \o cmd.val)

\* What the receivers of an ASnd SDO make of its payload.
deserialize_sdo_asnd_payload(p) ==
  LET h == deserialize_sequence(p)
      c == deserialize_command(SubSeq(p, 5, Len(p)))
  IN IF h.err # "Ok" THEN h ELSE IF c.err # "Ok" THEN c ELSE Good([seq |-> h.val, cmd |-> c.val])

--------------------------------------------------------------------------
(* An SDO command in a PDO container; the length octet wraps.               *)

serialize_pdo_sdo(c) ==
  <<4 * (c.seq % 64) + c.con, c.tid, FlagsOf(c), Len(c.data) % 256, CommandId[c.id]>>
  \o Le(c.index, 2) \o <<c.sub>> \o c.data
deserialize_pdo_sdo(b) ==
  LET d == CommandPayload(b, 9, b[4])
  IN IF Len(b) < 8 THEN Bad("BufferTooShort")
     ELSE IF CommandWithCode(b[5]) = {} THEN Bad("InvalidEnumValue")
     ELSE IF d.err # "Ok" THEN d
     ELSE Good([seq |-> b[1] \div 4, con |-> b[1] % 4, tid |-> b[2],
                resp |-> 4 \in Bits(b[3]), abrt |-> 5 \in Bits(b[3]),
                seg |-> Segmentation[(b[3] \div 64) + 1],
                id |-> CHOOSE c \in CommandWithCode(b[5]) : TRUE,
                index |-> Num(SubSeq(b, 6, 7)), sub |-> b[8], data |-> d.val])
=============================================================================
