----------------------------- MODULE MCFrameLink -----------------------------
(* Messages of every kind for TLC: empty, short and long payloads, bytes at  *)
(* the ends of their range, names that fill their field and names that do    *)
(* not.                                                                      *)
EXTENDS FrameLink

TestEth == [dstMac |-> <<1, 17, 30, 0, 0, 1>>, srcMac |-> <<2, 0, 0, 0, 0, 255>>]
Bytes(n) == [k \in 1..n |-> (37 * k) % 256]
Letters(n) == [k \in 1..n |-> 96 + (k % 26)]
Umlaut  == <<\hC3, \hBC>>              \* characters of two and of three octets
Euro    == <<\hE2, \h82, \hAC>>
Time == <<1, 2, 3, 255, 0, 0, 0, 128>>

Payloads == {<<>>, <<0>>, Bytes(3) \o <<0>>, Bytes(36), Bytes(40)}

Frame(is, f) == [carrier |-> "frame", kind |-> is, body |-> f]
FrameMessages ==
  {Frame("mn", [type |-> "SoC", dest |-> 255, src |-> 240, flags |-> fl, netTime |-> Time,
                relativeTime |-> Zeros(8)]) : fl \in SUBSET {6, 7}}
  \cup {Frame("mn", [type |-> "SoA", dest |-> 255, src |-> 240, nmtState |-> st, flags |-> fl,
                     service |-> sv, target |-> 1, eplVersion |-> 32]) :
          fl \in SUBSET {1, 2}, st \in {\hFD, \h1D}, sv \in {0, 1, 255}}
  \cup {Frame("mn", [type |-> "PReq", dest |-> 1, src |-> 240, flags |-> fl, pdoVersion |-> 16,
                     payload |-> p]) : fl \in {{}, {0}, {2, 5}}, p \in Payloads}
  \cup {Frame("cn", [type |-> "PRes", dest |-> 255, src |-> 1, nmtState |-> \hFD, flags |-> fl,
                     pr |-> pr, rs |-> 7, pdoVersion |-> 255, payload |-> p]) :
          fl \in {{}, {0, 4}, {5}}, pr \in {0, 3, 7}, p \in Payloads}
  \cup {Frame("cn", [type |-> "SoC", dest |-> 255, src |-> 240, flags |-> {}, netTime |-> Time,
                     relativeTime |-> Time])}

Asnd(k, b) == [carrier |-> "asnd", kind |-> k, body |-> b]
\* A dictionary with what identifies a node, and one without.
IdentOd(name) ==
  LET Var(v) == ObjectEntry("Variable", <<v>>, "ReadOnly", None)
      Rec(vs) == ObjectEntry("Record", vs, "ReadOnly", None)
  IN   \h1F8C :> Var(U8(\hFD)) @@ \h1F82 :> Var(U32(69)) @@ \h1000 :> Var(U32(401))
    @@ \h1018 :> Rec(<<U32(1), U32(2), U32(3), U32(4)>>)
    @@ \h1F9A :> Var(VisibleString(name))
Entry(mode) == [entryType |-> 4096 * mode + 2, code |-> \h8245, timestamp |-> Time, info |-> Bytes(8)]
StatusWith(entries, errors) ==
  [flags |-> {5}, pr |-> 3, rs |-> 0, nmtState |-> \hFD, errors |-> errors, entries |-> entries]
ServiceMessages ==
  {Asnd("Ident", new_ident_response(IdentOd(n), 63)) : n \in
     {<<>>, Letters(3) \o Euro, Letters(2) \o <<0>> \o Letters(3), Letters(30) \o Umlaut, Letters(31) \o Umlaut, Letters(29) \o Umlaut \o Euro}}
  \cup {Asnd("Ident", new_ident_response(<<>>, 0))}
  \cup {Asnd("Status", StatusWith(e, s)) :
          e \in {<<>>, <<Entry(1)>>, <<Entry(3), Entry(1)>>},
          s \in {Zeros(8), new_static_errors(\h1001 :> ObjectEntry("Variable", <<U8(129)>>, "ReadOnly", None))}}
  \cup {Asnd("Command", [data |-> "None", command |-> \h21])}
  \cup {Asnd("FlushArp", [data |-> "FlushArp", command |-> \h63, node |-> n]) : n \in {1, 239}}
  \cup {Asnd("HostName", [data |-> "HostName", command |-> \h62, name |-> n]) : n \in
          {Letters(2) \o Umlaut, Letters(32), Letters(5) \o <<0>> \o Letters(26), Letters(29) \o Euro, <<\hC3>> \o Letters(31), Letters(31) \o <<\hC3>>,
           Letters(29) \o <<\hED, \hA0, \h80>>}}
  \cup {Asnd("NodeList", n) : n \in {{}, {1}, {8, 240, 254}}}

Cmd(id, seg, p) == [tid |-> 15, resp |-> id = "Nil", abrt |-> id = "Abort", seg |-> seg, id |-> id,
                    segSize |-> Len(p), size |-> IF seg = "Initiate" THEN Some(300) ELSE None,
                    payload |-> p]
SdoBodies == {[seq |-> [rsn |-> r, rcon |-> "ConnectionValid", ssn |-> 63, scon |-> "Initialization"],
               cmd |-> Cmd(id, seg, p)] :
                r \in {0, 63}, id \in {"Nil", "ReadByIndex", "Abort", "MaxSegmentSize"},
                seg \in {"Expedited", "Initiate", "Complete"},
                p \in {<<>>, AddressPayload(\h1F82, 0), Bytes(9)}}
SdoMessages ==
  {[carrier |-> c, kind |-> "Sdo", body |-> b] : c \in {"udp", "asnd"}, b \in SdoBodies}
  \cup {[carrier |-> "container", kind |-> "Sdo",
         body |-> [seq |-> s, con |-> 2, tid |-> 0, resp |-> FALSE, abrt |-> FALSE, seg |-> "Expedited",
                   id |-> i, index |-> \h2000, sub |-> 1, data |-> d]] :
           s \in {0, 63}, i \in {"Nil", "WriteByIndex"}, d \in {<<>>, Bytes(4)}}

AllMessages == FrameMessages \cup ServiceMessages \cup SdoMessages
\* What a CN answers to the requests of the MN.
CnResponses == {m \in ServiceMessages : m.kind \in {"Ident", "Status"}}
=============================================================================
