---------------------------- MODULE MCSdoServing ----------------------------
(* Client 1 sends any header with any body that matters; client 2 reads and *)
(* writes in between.  Segments of four octets, three sequence numbers.      *)
EXTENDS SdoServing

ValueA == OctetString(<<1, 2, 3, 4, 5, 6, 7, 8, 9, 10>>)
ValueB == OctetString(<<11, 12, 13, 14, 15, 16, 17, 18, 19, 20>>)
Objects == \h1302 :> ObjectEntry("Variable", <<U32(1)>>, "ReadWriteStore", None)
        @@ \h2001 :> ObjectEntry("Variable", <<ValueA>>, "ReadWrite", None)
        @@ \h2102 :> ObjectEntry("Record", <<U32(1), U16(2)>>, "ReadOnly", None)

Cmd(tid, seg, id, payload) == Command(tid, FALSE, FALSE, seg, id, None, payload)
Long    == AddressPayload(\h2001, 0)
Reads   == {Cmd(1, "Expedited", "ReadByIndex", Long),
            Cmd(1, "Expedited", "ReadByIndex", AddressPayload(\h2102, 2)),
            Cmd(1, "Expedited", "ReadByIndex", AddressPayload(\h2102, 9)),
            Cmd(1, "Expedited", "ReadByIndex", <<1>>),
            Cmd(1, "Expedited", "ReadByName", NameOf(\h2001)),
            Cmd(1, "Expedited", "ReadByName", <<65>>),
            Cmd(1, "Expedited", "ReadAllByIndex", AddressPayload(\h2102, 0)),
            Cmd(1, "Expedited", "ReadAllByIndex", Long),
            Cmd(1, "Expedited", "ReadMultipleParamByIndex", AddressPayload(\h2102, 2)),
            Cmd(1, "Expedited", "ReadMultipleParamByIndex", AddressPayload(\h2200, 2)),
            Cmd(1, "Expedited", "MaxSegmentSize", <<8, 0>>)}
Writes(v) == {Cmd(2, "Expedited", "WriteByIndex", Long \o v.d)}
Others  == {Cmd(2, "Expedited", "WriteByIndex", AddressPayload(\h2102, 2) \o <<7, 7>>),
            Cmd(2, "Expedited", "WriteByName", NameOf(\h2001) \o <<0>> \o ValueA.d),
            Cmd(2, "Expedited", "WriteAllByIndex", <<>>),
            Cmd(2, "Complete", "WriteByIndex", <<7>>),
            Cmd(2, "Expedited", "Abort", <<>>),
            [Cmd(2, "Initiate", "WriteByIndex", Long \o <<7>>) EXCEPT !.size = Some(10)],
            [Cmd(1, "Expedited", "Nil", Le(0, 4)) EXCEPT !.abrt = TRUE]}
Ack     == Cmd(1, "Expedited", "Nil", <<>>)

Msg(seq, c)    == [seq |-> seq, body |-> "command", cmd |-> c]
NoCmd(seq, b)  == [seq |-> seq, body |-> b, cmd |-> NilCommand]
Sns            == 0..(SnModulus - 1)
Valid(r, s)    == Header(r, "ConnectionValid", s, "ConnectionValid")
Ask(r, s)      == Header(r, "ConnectionValid", s, "ConnectionValidAckRequest")
Hello(s)       == Header(0, "NoConnection", s, "Initialization")

AnyRequest ==
  {NoCmd(h, "none") : h \in {Valid(r, s) : r \in Sns, s \in Sns} \cup {Hello(0), Ask(1, 1), Ask(1, 2)}}
  \cup {Msg(Hello(0), Ack)}
  \cup {Msg(Ask(r, s), Ack) : r \in Sns, s \in Sns}
  \cup {Msg(Valid(0, 1), c) : c \in Reads \cup Others \cup Writes(ValueB)}
  \cup {Msg(Valid(0, 2), c) : c \in Writes(ValueB) \cup {Cmd(1, "Expedited", "ReadByIndex", Long)}}
  \cup {NoCmd(Valid(0, 1), "bad")}
  \cup {NoCmd(Header(0, "ErrorResponse", s, "ConnectionValid"), "none") : s \in Sns}
Writer == {Msg(Hello(0), Ack)} \cup {Msg(Valid(0, 1), c) :
             c \in Writes(ValueA) \cup Writes(ValueB)
                   \cup {Cmd(1, "Expedited", "ReadByIndex", Long),
                         Cmd(1, "Expedited", "WriteByIndex", AddressPayload(\h1302, 0) \o Le(0, 4))}}

MCRequests(c) == IF c = 1 THEN AnyRequest ELSE Writer
OneWrite(c) == {Msg(Hello(0), Ack)} \cup {Msg(Valid(0, 1), w) : w \in Writes(ValueB)}
=============================================================================
