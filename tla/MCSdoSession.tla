---------------------------- MODULE MCSdoSession ----------------------------
(* Segments of six octets: a write of one octet fits one frame, a write of  *)
(* eight needs two.                                                         *)
EXTENDS SdoSession

Objects == \h1302 :> ObjectEntry("Variable", <<U32(1)>>, "ReadWriteStore", None)
        @@ \h2001 :> ObjectEntry("Variable", <<U8(1)>>, "ReadWrite", None)
        @@ \h2002 :> ObjectEntry("Variable", <<OctetString(<<1, 2, 3, 4, 5, 6, 7, 8>>)>>,
                                 "ReadWrite", None)
Read(i)     == [kind |-> "read", index |-> i, sub |-> 0]
Write(i, d) == [kind |-> "write", index |-> i, sub |-> 0, data |-> d]
Long        == <<8, 7, 6, 5, 4, 3, 2, 1>>
Dcf(n, e)   == [kind |-> "dcf", n |-> n, entries |-> e]
Entry(d)    == <<\h2001, 0, <<d>>>>
\* Target 1 is a node of this repository.  The configuration of target 2 has
\* fewer entries than it announces.
MCJobs(n)   == IF n = 1 THEN {Read(\h2002), [kind |-> "short"]}
               ELSE {Read(\h2002), Write(\h2002, Long), Dcf(3, <<Entry(5), Entry(6)>>)}
MCMakes     == {<<"own", "other">>}
=============================================================================
