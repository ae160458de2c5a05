-------------------------- MODULE SdoServingProofs --------------------------
(* The SDO server, for every dictionary, every set of clients and everything *)
(* they may send.                                                            *)
EXTENDS SdoServing, ObjectDictionaryProofs, Induction

(***************************************************************************)
(* Bytes.                                                                  *)
(***************************************************************************)

\* Flattening sequences over S gives a sequence over S.
LEMMA Flattened ==
  ASSUME NEW S, NEW ss \in Seq(Seq(S))
  PROVE  SE!FlattenSeq(ss) \in Seq(S)
<1> DEFINE Body(f, n) == [i \in 1..n |-> IF i = 1 THEN ss[i] ELSE f[i-1] \o ss[i]]
           T == {n \in Nat : \E f : f = Body(f, n)}
<1>1. 0 \in T
  <2>1. <<>> = Body(<<>>, 0)
    OBVIOUS
  <2> QED BY <2>1
<1>2. ASSUME NEW n \in Nat, n \in T PROVE n + 1 \in T
  <2>1. PICK f : f = Body(f, n)
    BY <1>2
  <2> DEFINE g == [i \in 1..(n + 1) |->
                     IF i = n + 1 THEN (IF i = 1 THEN ss[i] ELSE f[n] \o ss[i]) ELSE f[i]]
  <2>2. ASSUME NEW i \in 1..(n + 1) PROVE g[i] = IF i = 1 THEN ss[i] ELSE g[i-1] \o ss[i]
    <3>1. CASE i = n + 1
      BY <3>1
    <3>2. CASE i # n + 1
      <4>1. i \in 1..n /\ g[i] = f[i]
        BY <3>2
      <4>2. i # 1 => i - 1 \in 1..n /\ g[i-1] = f[i-1]
        BY <4>1
      <4>3. f[i] = IF i = 1 THEN ss[i] ELSE f[i-1] \o ss[i]
        BY <2>1, <4>1
      <4> QED BY <4>1, <4>2, <4>3
    <3> QED BY <3>1, <3>2
  <2>3. g = Body(g, n + 1)
    BY <2>2
  <2>4. \E h : h = Body(h, n + 1)
    <3> HIDE DEF g, Body
    <3> QED BY <2>3
  <2> HIDE DEF Body
  <2> QED BY <2>4
<1>3. Nat \subseteq T
  <2> HIDE DEF T
  <2> QED BY <1>1, <1>2, SetInduction
<1>4. CASE Len(ss) = 0
  BY <1>4 DEF SE!FlattenSeq
<1>5. CASE Len(ss) # 0
  <2> DEFINE f == CHOOSE h : h = Body(h, Len(ss))
  <2>1. Len(ss) \in T
    <3> HIDE DEF T
    <3> QED BY <1>3
  <2>2. f = Body(f, Len(ss))
    BY <2>1
  <2>3. SE!FlattenSeq(ss) = f[Len(ss)]
    BY <1>5 DEF SE!FlattenSeq
  <2> HIDE DEF f
  <2>4. \A i \in 1..Len(ss) : f[i] = IF i = 1 THEN ss[i] ELSE f[i-1] \o ss[i]
    BY <2>2
  <2> DEFINE U == {n \in Nat : n \in 1..Len(ss) => f[n] \in Seq(S)}
  <2>5. 0 \in U
    OBVIOUS
  <2>6. ASSUME NEW n \in Nat, n \in U PROVE n + 1 \in U
    <3>1. SUFFICES ASSUME n + 1 \in 1..Len(ss) PROVE f[n+1] \in Seq(S)
      OBVIOUS
    <3>2. ss[n+1] \in Seq(S)
      BY <3>1
    <3>3. CASE n = 0
      BY <2>4, <3>1, <3>2, <3>3
    <3>4. CASE n # 0
      <4>1. f[n] \in Seq(S)
        BY <2>6, <3>1, <3>4
      <4>2. f[n+1] = f[n] \o ss[n+1]
        <5>1. f[n+1] = f[(n+1)-1] \o ss[n+1]
          <6>1. n + 1 # 1
            BY <3>4
          <6> QED BY <2>4, <3>1, <6>1, Zenon
        <5>2. (n+1)-1 = n
          OBVIOUS
        <5> QED BY <5>1, <5>2
      <4> QED BY <3>2, <4>1, <4>2
    <3> QED BY <3>3, <3>4
  <2>7. Nat \subseteq U
    <3> HIDE DEF U
    <3> QED BY <2>5, <2>6, SetInduction
  <2> QED BY <1>5, <2>3, <2>7
<1> QED BY <1>4, <1>5

LEMMA Pair == \A j \in Nat : j <= 65535 => (j % 256) + ((j \div 256) % 256) * 256 = j
BY SMT

LEMMA Joined ==
  ASSUME NEW S, NEW a \in Seq(S), NEW b \in Seq(S)
  PROVE  /\ a \o b \in Seq(S) /\ Len(a \o b) = Len(a) + Len(b)
         /\ \A k \in 1..Len(a) : (a \o b)[k] = a[k]
         /\ \A k \in 1..Len(b) : (a \o b)[Len(a) + k] = b[k]
OBVIOUS

\* An address arrives as it was written.
LEMMA AddressArrives ==
  ASSUME NEW i \in UNSIGNED16, NEW s \in UNSIGNED8
  PROVE  /\ AddressPayload(i, s) \in Seq(UNSIGNED8) /\ Len(AddressPayload(i, s)) = 4
         /\ Num(SubSeq(AddressPayload(i, s), 1, 2)) = i
         /\ AddressPayload(i, s)[3] = s
<1>0. i \in Nat /\ 0 \in UNSIGNED8
  BY WordRange, ByteRange, SMT
<1>9. i <= 65535
  BY WordRange, SMT
<1>1. Le(i, 2) \in Seq(UNSIGNED8) /\ Len(Le(i, 2)) = 2
  BY <1>0, LeBytes, 2 \in Nat
<1>2. Le(i, 2)[1] = (i \div 1) % 256 /\ Le(i, 2)[2] = (i \div 256) % 256
  BY <1>0, SMT DEF Le, Weight
<1>3. i \div 1 = i
  BY <1>0
<1> DEFINE p == AddressPayload(i, s)
<1>4. p \in Seq(UNSIGNED8) /\ Len(p) = 4 /\ p[1] = Le(i, 2)[1] /\ p[2] = Le(i, 2)[2] /\ p[3] = s
  <2>1. <<s, 0>> \in Seq(UNSIGNED8) /\ Len(<<s, 0>>) = 2 /\ <<s, 0>>[1] = s
    BY <1>0
  <2> DEFINE a == Le(i, 2)
             b == <<s, 0>>
  <2>2. p = a \o b
    BY DEF AddressPayload
  <2>3. Len(a) = 2 /\ Len(b) = 2 /\ b[1] = s
    BY <1>1, <2>1
  <2>5. a \in Seq(UNSIGNED8) /\ b \in Seq(UNSIGNED8)
    BY <1>1, <2>1
  <2> HIDE DEF a, b, p
  <2>4. p \in Seq(UNSIGNED8) /\ Len(p) = 4 /\ p[1] = a[1] /\ p[2] = a[2] /\ p[3] = b[1]
    <3> DEFINE u == Len(a)
               v == Len(b)
    <3>1. /\ p \in Seq(UNSIGNED8) /\ Len(p) = u + v
          /\ \A k \in 1..u : p[k] = a[k]
          /\ \A k \in 1..v : p[u + k] = b[k]
      BY <2>2, <2>5, Joined
    <3>2. u = 2 /\ v = 2
      BY <2>3
    <3> HIDE DEF u, v
    <3>3. p[2 + 1] = b[1]
      BY <3>1, <3>2
    <3> QED BY <3>1, <3>2, <3>3
  <2> QED BY <2>3, <2>4 DEF a
<1> HIDE DEF p
<1> DEFINE q == SubSeq(p, 1, 2)
<1>5. Len(q) = 2 /\ q[1] = p[1] /\ q[2] = p[2]
  BY <1>4
<1> HIDE DEF q
<1>6. Num(q) = q[1] * 1 + q[2] * 256
  <2>1. Weight[1] = 1 /\ Weight[2] = 256
    BY SMT DEF Weight
  <2>2. q[1] \in Int /\ q[2] \in Int
    <3>1. p[1] \in UNSIGNED8 /\ p[2] \in UNSIGNED8
      BY <1>4
    <3> QED BY <1>5, <3>1, ByteRange
  <2> QED BY <1>5, <2>1, <2>2, SMT DEF Num
<1>7. Num(q) = (i % 256) + ((i \div 256) % 256) * 256
  BY <1>2, <1>3, <1>4, <1>5, <1>6, <1>0, SMT
<1>8. Num(q) = i
  BY <1>0, <1>7, <1>9, Pair, SMT
<1> QED BY <1>4, <1>8 DEF p, q

LEMMA RetriesNat == ASSUME NEW o, IsDictionary(o) PROVE Retries(o) \in Nat
<1>1. 0 \in UNSIGNED8
  BY ByteRange
<1> QED BY <1>1, ReadNumber DEF Retries

LEMMA AlignedBytes == ASSUME NEW d \in Seq(UNSIGNED8) PROVE Aligned(d) \in Seq(UNSIGNED8)
<1> DEFINE e == <<0, 0>> \o Le(Len(d), 2) \o d
           n == (4 - (Len(e) % 4)) % 4
<1>0. 0 \in UNSIGNED8
  BY ByteRange
<1>1. Le(Len(d), 2) \in Seq(UNSIGNED8)
  BY LeBytes
<1>2. e \in Seq(UNSIGNED8)
  <2>1. <<0, 0>> \in Seq(UNSIGNED8)
    BY <1>0
  <2> HIDE DEF Le
  <2> QED BY <1>1, <2>1
<1> HIDE DEF e
<1>3. n \in Nat
  BY <1>2
<1> HIDE DEF n
<1>4. Zeros(n) \in Seq(UNSIGNED8)
  BY <1>0, <1>3 DEF Zeros
<1>5. Aligned(d) = e \o Zeros(n)
  BY DEF Aligned, e, n
<1> QED BY <1>2, <1>4, <1>5

\* Two adjacent parts of a sequence make up one.
LEMMA Adjacent ==
  ASSUME NEW S, NEW s \in Seq(S), NEW i \in Nat, NEW j \in Nat, i <= j, j <= Len(s)
  PROVE  SubSeq(s, 1, i) \o SubSeq(s, i + 1, j) = SubSeq(s, 1, j)
OBVIOUS

LEMMA Part ==
  ASSUME NEW S, NEW s \in Seq(S), NEW i \in Nat, NEW j \in Nat, i <= j, j <= Len(s)
  PROVE  /\ SubSeq(s, i + 1, j) \in Seq(S) /\ Len(SubSeq(s, i + 1, j)) = j - i
         /\ SubSeq(SubSeq(s, 1, j), i + 1, j) = SubSeq(s, i + 1, j)
OBVIOUS

(***************************************************************************)
(* Transfers and handlers.                                                 *)
(***************************************************************************)

\* An upload before its last segment: the position is inside the copy, and
\* what is kept for a retransmission ends at the position.
Last(x) == x.last = None \/ \E i \in 0..x.off : x.last[1].payload = SubSeq(x.buf, i + 1, x.off)
Running(x) ==
  /\ x = [tid |-> x.tid, total |-> x.total, buf |-> x.buf, off |-> x.off, index |-> x.index,
          sub |-> x.sub, armed |-> x.armed, left |-> x.left, last |-> x.last]
  /\ x.buf \in Seq(UNSIGNED8)
  /\ x.total = Len(x.buf)
  /\ x.off \in Nat /\ x.off < x.total
  /\ x.left \in Nat
  /\ x.armed \in BOOLEAN
  /\ x.armed => x.last # None
  /\ Last(x)

\* What a segment s of upload x carries and leaves.
IsSegment(x, s, retries) ==
  /\ s.last \in BOOLEAN
  /\ s.cmd.seg \in {"Complete", "Initiate", "Segment"}
  /\ s.cmd.seg = "Complete" <=> s.last
  /\ s.cmd.abrt = FALSE
  /\ s.cmd.size # None <=> x.off = 0
  /\ s.last => s.cmd.payload = SubSeq(x.buf, x.off + 1, Len(x.buf))
  /\ ~s.last => /\ Running(s.x)
                /\ s.x.off > x.off
                /\ s.x.buf = x.buf
                /\ s.x.left = retries
                /\ s.cmd.payload = SubSeq(x.buf, x.off + 1, s.x.off)

LEMMA SegmentLemma ==
  ASSUME NEW o, IsDictionary(o), NEW x, Running(x)
  PROVE  IsSegment(x, get_next_upload_segment(x, o), Retries(o))
<1> DEFINE off == x.off + Least(SegBytes, x.total - x.off)
           last == off >= x.total
           seg  == IF last THEN "Complete" ELSE IF x.off = 0 THEN "Initiate" ELSE "Segment"
           cmd  == Command(x.tid, TRUE, FALSE, seg, "ReadByIndex",
                           IF x.off = 0 THEN Some(x.total) ELSE None, SubSeq(x.buf, x.off + 1, off))
           nx == [x EXCEPT !.off = off, !.armed = ~last, !.left = IF last THEN @ ELSE Retries(o),
                           !.last = IF last THEN None ELSE Some(cmd)]
           s == get_next_upload_segment(x, o)
<1>1. s.x = nx /\ s.cmd = cmd /\ s.last = last
  BY DEF get_next_upload_segment
<1>2. /\ cmd.seg = seg /\ cmd.abrt = FALSE /\ cmd.payload = SubSeq(x.buf, x.off + 1, off)
      /\ cmd.size = IF x.off = 0 THEN Some(x.total) ELSE None
  BY DEF Command
<1>3. /\ off \in Nat /\ x.off < off /\ off <= x.total
      /\ x.off \in Nat /\ x.total \in Nat
  BY SdoAssumption DEF Running, Least
<1>4. Retries(o) \in Nat
  BY RetriesNat
<1> HIDE DEF off, cmd
<1>5. ASSUME ~last
      PROVE  /\ Running(nx) /\ nx.off = off /\ nx.buf = x.buf /\ nx.left = Retries(o)
  <2>1. /\ nx.buf = x.buf /\ nx.off = off /\ nx.total = x.total /\ nx.left = Retries(o)
        /\ nx.last = Some(cmd) /\ nx.armed = TRUE
        /\ nx = [tid |-> nx.tid, total |-> nx.total, buf |-> nx.buf, off |-> nx.off, index |-> nx.index,
                 sub |-> nx.sub, armed |-> nx.armed, left |-> nx.left, last |-> nx.last]
    <3>1. (~last) = TRUE /\ (IF last THEN x.left ELSE Retries(o)) = Retries(o)
          /\ (IF last THEN None ELSE Some(cmd)) = Some(cmd)
      BY <1>5
    <3>2. nx = [x EXCEPT !.off = off, !.armed = TRUE, !.left = Retries(o), !.last = Some(cmd)]
      BY <3>1, Zenon
    <3> HIDE DEF nx
    <3> QED BY <3>2 DEF Running
  <2>2. off < x.total
    BY <1>3, <1>5
  <2> HIDE DEF nx
  <2>3. nx.last # None /\ nx.last[1] = cmd
    BY <2>1 DEF Some, None
  <2>4. Last(nx)
    <3>1. x.off \in 0..nx.off
      BY <1>3, <2>1
    <3> QED BY <1>2, <2>1, <2>3, <3>1 DEF Last
  <2> QED BY <1>3, <1>4, <2>1, <2>2, <2>3, <2>4 DEF Running
<1> SUFFICES IsSegment(x, s, Retries(o))
  OBVIOUS
<1> HIDE DEF nx, s
<1>6. last => off = Len(x.buf)
  BY <1>3 DEF Running
<1>7. x.off = 0 <=> cmd.size # None
  BY <1>2 DEF Some, None
<1>8. last \in BOOLEAN
  OBVIOUS
<1>9. (cmd.seg = "Complete" <=> last) /\ cmd.seg \in {"Complete", "Initiate", "Segment"}
  BY <1>2
<1> HIDE DEF last, seg
<1> QED BY <1>1, <1>2, <1>3, <1>5, <1>6, <1>7, <1>8, <1>9 DEF IsSegment

IsHandler(h) == h = [st |-> h.st, ssn |-> h.ssn, lrs |-> h.lrs, x |-> h.x]
Idle(h) == IsHandler(h) /\ h.st \in {"Closed", "Opening", "Established"} /\ h.x = NoTransfer
Busy(h) == IsHandler(h) /\ h.st = "SegmentedUpload" /\ Running(h.x) /\ h.x.off > 0

\* The answers of the server: one frame, the first segment of an upload of p,
\* the next one of upload x, its last one.
Short(h, cmd) == cmd.seg = "Expedited" /\ (h.st = "Opening" => h.x = NoTransfer)
Starts(p, retries, h, cmd) ==
  /\ Busy(h) /\ h.x.buf = p /\ h.x.left = retries
  /\ cmd.seg \in {"Initiate", "Segment"} /\ cmd.abrt = FALSE /\ cmd.size # None
  /\ cmd.payload = SubSeq(p, 1, h.x.off)
Continues(x, retries, h, cmd) ==
  /\ Busy(h) /\ h.x.buf = x.buf /\ h.x.left = retries /\ h.x.off > x.off
  /\ cmd.seg \in {"Initiate", "Segment"} /\ cmd.abrt = FALSE /\ cmd.size = None
  /\ cmd.payload = SubSeq(x.buf, x.off + 1, h.x.off)
Finishes(x, cmd) ==
  /\ cmd.seg = "Complete" /\ cmd.size = None
  /\ cmd.payload = SubSeq(x.buf, x.off + 1, Len(x.buf))

\* What a command leaves of a handler without an upload, when p is what the
\* command asks for.
Served(p, o, r) ==
  /\ IsDictionary(r.od) /\ IsHandler(r.h)
  /\ Short(r.h, r.cmd) \/ Starts(p, Retries(o), r.h, r.cmd)

IsCommand(c) == /\ c = Command(c.tid, c.resp, c.abrt, c.seg, c.id, c.size, c.payload)
                /\ c.abrt \in BOOLEAN
                /\ c.payload \in Seq(UNSIGNED8)

LEMMA NewIsIdle == Idle(NewHandler) /\ NewHandler.st = "Closed"
BY DEF Idle, IsHandler, NewHandler

LEMMA Fields ==
  ASSUME NEW h, IsHandler(h)
  PROVE  \E a, b, c, d : h = [st |-> a, ssn |-> b, lrs |-> c, x |-> d]
BY Zenon DEF IsHandler

LEMMA ShapeOf ==
  ASSUME NEW g, NEW a, NEW b, NEW c, NEW d, g = [st |-> a, ssn |-> b, lrs |-> c, x |-> d]
  PROVE  IsHandler(g) /\ g.st = a /\ g.ssn = b /\ g.lrs = c /\ g.x = d
BY DEF IsHandler

LEMMA ToShape ==
  ASSUME NEW h, IsHandler(h), NEW st
  PROVE  IsHandler(To(h, st)) /\ To(h, st).st = st /\ To(h, st).x = NoTransfer
<1> DEFINE g == To(h, st)
<1>1. g = [h EXCEPT !.st = st, !.x = NoTransfer]
  BY Zenon DEF To
<1>2. PICK a, b, c, d : h = [st |-> a, ssn |-> b, lrs |-> c, x |-> d]
  BY Fields
<1> HIDE DEF g
<1>3. g = [st |-> st, ssn |-> b, lrs |-> c, x |-> NoTransfer]
  BY <1>1, <1>2
<1> QED BY <1>3, ShapeOf DEF g

LEMMA AbortServed ==
  ASSUME NEW o, IsDictionary(o), NEW tid, NEW code, NEW p
  PROVE  Served(p, o, abort(o, tid, code))
<1> DEFINE r == abort(o, tid, code)
<1>1. r.h = NewHandler /\ r.od = o /\ r.cmd.seg = "Expedited"
  BY DEF abort, Done, AbortReply, Command
<1> SUFFICES Served(p, o, r)
  OBVIOUS
<1> HIDE DEF r
<1> QED BY <1>1, NewIsIdle DEF Served, Short, Idle

LEMMA ReplyServed ==
  ASSUME NEW o, IsDictionary(o), NEW w, IsDictionary(w), NEW tid, NEW d, NEW p, NEW h,
         IsHandler(h), h.st = "Opening" => h.x = NoTransfer
  PROVE  Served(p, o, Done(h, w, Reply(tid, d)))
BY DEF Served, Short, Done, Reply, Command

LEMMA UploadServed ==
  ASSUME NEW o, IsDictionary(o), NEW h, Idle(h), NEW c, NEW p \in Seq(UNSIGNED8), NEW i, NEW s
  PROVE  Served(p, o, Upload(h, c, o, p, i, s))
<1>1. CASE Len(p) <= SegBytes
  BY <1>1, ReplyServed DEF Upload, Idle
<1>2. CASE ~(Len(p) <= SegBytes)
  <2> DEFINE x == Transfer(c.tid, Len(p), p, 0, i, s, FALSE)
             g == get_next_upload_segment(x, o)
             hh == [h EXCEPT !.st = "SegmentedUpload", !.x = g.x]
  <2>1. /\ x.buf = p /\ x.off = 0 /\ x.total = Len(p) /\ x.left = 0 /\ x.armed = FALSE /\ x.last = None
        /\ x = [tid |-> x.tid, total |-> x.total, buf |-> x.buf, off |-> x.off, index |-> x.index,
                sub |-> x.sub, armed |-> x.armed, left |-> x.left, last |-> x.last]
    BY DEF Transfer
  <2>2. 0 < Len(p)
    BY <1>2, SdoAssumption
  <2> HIDE DEF x
  <2>3. Running(x)
    <3>1. Last(x) /\ x.armed \in BOOLEAN /\ (x.armed => x.last # None)
      BY <2>1, Zenon DEF Last
    <3>2. x.buf \in Seq(UNSIGNED8) /\ x.total = Len(x.buf) /\ x.off \in Nat /\ x.off < x.total
          /\ x.left \in Nat
      BY <2>1, <2>2
    <3> QED BY <2>1, <3>1, <3>2, Zenon DEF Running
  <2>4. IsSegment(x, g, Retries(o))
    BY <2>3, SegmentLemma
  <2>5. ~g.last
    <3>1. x.off + Least(SegBytes, x.total - x.off) < x.total
      BY <1>2, <2>1, SdoAssumption DEF Least
    <3>2. g.last = (x.off + Least(SegBytes, x.total - x.off) >= x.total)
      BY DEF get_next_upload_segment
    <3>3. x.off + Least(SegBytes, x.total - x.off) \in Int /\ x.total \in Int
      BY <2>1, SdoAssumption DEF Least
    <3>4. ~(x.off + Least(SegBytes, x.total - x.off) >= x.total)
      BY <3>1, <3>3
    <3> QED BY <3>2, <3>4, Zenon
  <2>6. Upload(h, c, o, p, i, s) = Done(hh, o, g.cmd)
    BY <1>2 DEF Upload, x
  <2> HIDE DEF g
  <2>7. IsHandler(hh) /\ hh.st = "SegmentedUpload" /\ hh.x = g.x
    <3>1. hh = [h EXCEPT !.st = "SegmentedUpload", !.x = g.x] /\ IsHandler(h)
      BY DEF Idle
    <3>2. PICK a, b, e, d : h = [st |-> a, ssn |-> b, lrs |-> e, x |-> d]
      BY <3>1, Fields
    <3> HIDE DEF hh
    <3>3. hh = [st |-> "SegmentedUpload", ssn |-> b, lrs |-> e, x |-> g.x]
      BY <3>1, <3>2
    <3> QED BY <3>3, ShapeOf
  <2> HIDE DEF hh
  <2>8. Starts(p, Retries(o), hh, g.cmd)
    BY <2>1, <2>4, <2>5, <2>7 DEF Starts, Busy, IsSegment
  <2> DEFINE r == Done(hh, o, g.cmd)
  <2>9. r.h = hh /\ r.od = o /\ r.cmd = g.cmd
    BY DEF Done
  <2>10. Served(p, o, r)
    <3> HIDE DEF r
    <3> QED BY <2>7, <2>8, <2>9 DEF Served
  <2> QED BY <2>6, <2>10
<1> QED BY <1>1, <1>2

(***************************************************************************)
(* The commands.                                                           *)
(***************************************************************************)

LEMMA ReadByIndexServed ==
  ASSUME NEW o, IsDictionary(o), NEW h, Idle(h), NEW c, c.payload \in Seq(UNSIGNED8)
  PROVE  LET a == address_from_payload(c.payload).val
         IN Served(serialize(read(o, a.index, a.sub)[1]), o, handle_read_by_index(h, c, o))
<1> DEFINE a == address_from_payload(c.payload)
           v == read(o, a.val.index, a.val.sub)
           p == serialize(v[1])
           r == handle_read_by_index(h, c, o)
<1>1. CASE a.err # "Ok"
  <2>1. r = abort(o, c.tid, InvalidCommand)
    BY <1>1 DEF handle_read_by_index
  <2> HIDE DEF p
  <2> QED BY <2>1, AbortServed DEF p
<1>2. CASE a.err = "Ok" /\ v = None
  <2>1. r = abort(o, c.tid, NotFound(o, a.val.index))
    BY <1>2 DEF handle_read_by_index
  <2> HIDE DEF p
  <2> QED BY <2>1, AbortServed DEF p
<1>3. CASE a.err = "Ok" /\ v # None
  <2>1. Len(c.payload) >= 4 /\ a.val.sub = c.payload[3]
    BY <1>3 DEF address_from_payload, Good, Bad
  <2>2. a.val.sub \in UNSIGNED8
    BY <2>1
  <2>3. p \in Seq(UNSIGNED8)
    <3> HIDE DEF a
    <3> QED BY <1>3, <2>2, ReadBytes
  <2>4. r = Upload(h, c, o, p, a.val.index, a.val.sub)
    BY <1>3 DEF handle_read_by_index
  <2> HIDE DEF p
  <2> QED BY <2>3, <2>4, UploadServed DEF p
<1> QED BY <1>1, <1>2, <1>3

LEMMA FoundByName ==
  ASSUME NEW o, IsDictionary(o), NEW n, find_by_name(o, n) # None
  PROVE  find_by_name(o, n)[1][1] \in UNSIGNED16 /\ find_by_name(o, n)[1][2] = 0
<1> DEFINE found == {i \in DOMAIN o : NameOf(i) = n}
           i == CHOOSE j \in found : TRUE
<1>1. found # {} /\ find_by_name(o, n) = Some(<<i, 0>>)
  BY DEF find_by_name
<1>2. i \in found
  BY <1>1
<1>3. i \in UNSIGNED16
  BY <1>2 DEF IsDictionary
<1> HIDE DEF i
<1> QED BY <1>1, <1>3 DEF Some

LEMMA ReadByNameServed ==
  ASSUME NEW o, IsDictionary(o), NEW h, Idle(h), NEW c, IsCommand(c)
  PROVE  Served(serialize(read(o, find_by_name(o, name_from_payload(c.payload).val)[1][1], 0)[1]),
                o, handle_read_by_name(h, c, o))
<1> DEFINE n == name_from_payload(c.payload)
           a == find_by_name(o, n.val)
           p == serialize(read(o, a[1][1], 0)[1])
           r == handle_read_by_name(h, c, o)
<1>1. CASE n.err # "Ok"
  <2>1. r = abort(o, c.tid, InvalidCommand)
    BY <1>1 DEF handle_read_by_name
  <2> HIDE DEF p
  <2> QED BY <2>1, AbortServed DEF p
<1>2. CASE n.err = "Ok" /\ a = None
  <2>1. r = abort(o, c.tid, ResourceUnavailable)
    BY <1>2 DEF handle_read_by_name
  <2> HIDE DEF p
  <2> QED BY <2>1, AbortServed DEF p
<1>3. CASE n.err = "Ok" /\ a # None
  <2> DEFINE q == AddressPayload(a[1][1], a[1][2])
             d == [c EXCEPT !.payload = q]
  <2>1. r = handle_read_by_index(h, d, o)
    BY <1>3 DEF handle_read_by_name
  <2>2. a[1][1] \in UNSIGNED16 /\ a[1][2] = 0
    BY <1>3, FoundByName
  <2>3. 0 \in UNSIGNED8
    BY ByteRange
  <2>4. q \in Seq(UNSIGNED8) /\ Len(q) = 4 /\ Num(SubSeq(q, 1, 2)) = a[1][1] /\ q[3] = 0
    <3> HIDE DEF a
    <3> QED BY <2>2, <2>3, AddressArrives
  <2>5. d.payload = q
    <3>1. "payload" \in DOMAIN c
      BY DEF IsCommand, Command
    <3> HIDE DEF q, p, r, a
    <3> QED BY <3>1
  <2> HIDE DEF d, q
  <2> DEFINE b == address_from_payload(q).val
  <2>6. b.index = a[1][1] /\ b.sub = 0
    BY <2>4 DEF address_from_payload, Good
  <2>7. Served(serialize(read(o, b.index, b.sub)[1]), o, handle_read_by_index(h, d, o))
    BY <2>4, <2>5, ReadByIndexServed
  <2>8. serialize(read(o, b.index, b.sub)[1]) = p
    <3> HIDE DEF a, b
    <3> QED BY <2>6, Zenon
  <2> SUFFICES Served(p, o, r)
    OBVIOUS
  <2> HIDE DEF p, r, b
  <2> QED BY <2>1, <2>7, <2>8, Zenon
<1> QED BY <1>1, <1>2, <1>3

LEMMA WriteByIndexServed ==
  ASSUME NEW o, IsDictionary(o), NEW h, Idle(h), NEW c, c.payload \in Seq(UNSIGNED8), NEW p
  PROVE  Served(p, o, handle_write_by_index(h, c, o))
<1> DEFINE a == write_from_payload(c.payload)
           w == write_bytes(o, NoStorage, a.val.index, a.val.sub, a.val.data, TRUE)
           r == handle_write_by_index(h, c, o)
           whole == c.seg \in {"Expedited", "Initiate"}
<1>1. CASE whole /\ a.err # "Ok"
  <2>1. r = abort(o, c.tid, InvalidCommand)
    BY <1>1 DEF handle_write_by_index
  <2> QED BY <2>1, AbortServed
<1>2. CASE c.seg = "Expedited" /\ a.err = "Ok"
  <2>1. /\ Len(c.payload) >= 4 /\ a.val.sub = c.payload[3]
        /\ a.val.data = SubSeq(c.payload, 5, Len(c.payload))
    BY <1>2 DEF write_from_payload, Good, Bad
  <2>2. a.val.sub \in UNSIGNED8 /\ a.val.data \in Seq(UNSIGNED8)
    BY <2>1
  <2>3. IsDictionary(w.od)
    <3> HIDE DEF a
    <3>1. ASSUME NEW ok \in BOOLEAN
          PROVE  Keeps(o, write_bytes(o, NoStorage, a.val.index, a.val.sub, a.val.data, ok).od)
      BY <2>2, WriteBytesEffect
    <3> QED BY <3>1, Zenon DEF Keeps
  <2>4. r = IF w.err = 0 THEN Done(h, w.od, Reply(c.tid, <<>>)) ELSE abort(o, c.tid, w.err)
    BY <1>2 DEF handle_write_by_index
  <2> HIDE DEF w, r
  <2>5. CASE w.err = 0
    BY <2>3, <2>4, <2>5, ReplyServed DEF Idle, r
  <2>6. CASE w.err # 0
    BY <2>4, <2>6, AbortServed DEF r
  <2> QED BY <2>5, <2>6
<1>3. CASE c.seg = "Initiate" /\ a.err = "Ok"
  <2> DEFINE x == Transfer(c.tid, c.size[1], a.val.data, Len(a.val.data), a.val.index, a.val.sub, TRUE)
             hh == [h EXCEPT !.st = "SegmentedDownload", !.x = x]
  <2>1. CASE c.size \in {None, Some(0)}
    <3>1. r = abort(o, c.tid, LengthMismatch)
      BY <1>3, <2>1 DEF handle_write_by_index
    <3> QED BY <3>1, AbortServed
  <2>2. CASE c.size \notin {None, Some(0)}
    <3>1. r = Done(hh, o, Reply(c.tid, <<>>))
      BY <1>3, <2>2 DEF handle_write_by_index
    <3> HIDE DEF x
    <3>2. hh = [h EXCEPT !.st = "SegmentedDownload", !.x = x]
      OBVIOUS
    <3>3. PICK f, b, e, d : h = [st |-> f, ssn |-> b, lrs |-> e, x |-> d]
      BY Fields DEF Idle
    <3> HIDE DEF hh, r
    <3>4. hh = [st |-> "SegmentedDownload", ssn |-> b, lrs |-> e, x |-> x]
      BY <3>2, <3>3
    <3>5. IsHandler(hh) /\ hh.st = "SegmentedDownload"
      BY <3>4, ShapeOf
    <3> QED BY <3>1, <3>5, ReplyServed DEF r
  <2> QED BY <2>1, <2>2
<1>4. CASE ~whole
  <2>1. h.st # "SegmentedDownload"
    BY DEF Idle
  <2>2. r = abort(o, c.tid, InvalidSequence)
    BY <1>4, <2>1 DEF handle_write_by_index
  <2> QED BY <2>2, AbortServed
<1> QED BY <1>1, <1>2, <1>3, <1>4

LEMMA NameBytes ==
  ASSUME NEW p \in Seq(UNSIGNED8), NEW d, d = write_name_from_payload(p), d.err = "Ok"
  PROVE  d.val.data \in Seq(UNSIGNED8)
<1> DEFINE n == NameEnd(p)
<1>1. n \in 0..Len(p)
  <2> DEFINE P(m) == (\A k \in 1..m : p[k] # 0) /\ (m < Len(p) => p[m + 1] = 0)
             T == {m \in Nat : m <= Len(p) => (\A k \in 1..m : p[k] # 0) \/ \E j \in 0..Len(p) : P(j)}
  <2>1. 0 \in T
    OBVIOUS
  <2>2. ASSUME NEW m \in Nat, m \in T PROVE m + 1 \in T
    <3>1. SUFFICES ASSUME m + 1 <= Len(p), ~ \E j \in 0..Len(p) : P(j)
                   PROVE  \A k \in 1..(m + 1) : p[k] # 0
      OBVIOUS
    <3>2. \A k \in 1..m : p[k] # 0
      BY <2>2, <3>1
    <3>3. m \in 0..Len(p) /\ m < Len(p)
      BY <3>1
    <3>4. p[m + 1] # 0
      BY <3>1, <3>2, <3>3
    <3> QED BY <3>2, <3>4
  <2>3. Nat \subseteq T
    <3> HIDE DEF T
    <3> QED BY <2>1, <2>2, SetInduction
  <2>4. Len(p) \in T
    <3> HIDE DEF T
    <3> QED BY <2>3
  <2>5. \E j \in 0..Len(p) : P(j)
    <3>1. CASE \A k \in 1..Len(p) : p[k] # 0
      <4>1. Len(p) \in 0..Len(p) /\ P(Len(p))
        BY <3>1
      <4> QED BY <4>1
    <3> QED BY <2>4, <3>1
  <2> QED BY <2>5 DEF NameEnd
<1>2. d.val.data = SubSeq(p, n + 2, Len(p)) /\ n # Len(p)
  BY DEF write_name_from_payload, Good, Bad
<1> HIDE DEF n
<1> QED BY <1>1, <1>2

LEMMA WriteByNameServed ==
  ASSUME NEW o, IsDictionary(o), NEW h, Idle(h), NEW c, IsCommand(c), NEW p
  PROVE  Served(p, o, handle_write_by_name(h, c, o))
<1> DEFINE n == write_name_from_payload(c.payload)
           a == find_by_name(o, n.val.name)
           r == handle_write_by_name(h, c, o)
<1>1. CASE n.err # "Ok"
  <2>1. r = abort(o, c.tid, InvalidCommand)
    BY <1>1 DEF handle_write_by_name
  <2> QED BY <2>1, AbortServed
<1>2. CASE n.err = "Ok" /\ a = None
  <2>1. r = abort(o, c.tid, ResourceUnavailable)
    BY <1>2 DEF handle_write_by_name
  <2> QED BY <2>1, AbortServed
<1>3. CASE n.err = "Ok" /\ a # None
  <2> DEFINE q == AddressPayload(a[1][1], a[1][2]) \o n.val.data
             d == [c EXCEPT !.payload = q]
  <2>1. r = handle_write_by_index(h, d, o)
    BY <1>3 DEF handle_write_by_name
  <2>2. a[1][1] \in UNSIGNED16 /\ a[1][2] = 0
    BY <1>3, FoundByName
  <2>3. 0 \in UNSIGNED8
    BY ByteRange
  <2>4. AddressPayload(a[1][1], a[1][2]) \in Seq(UNSIGNED8)
    <3> HIDE DEF a
    <3> QED BY <2>2, <2>3, AddressArrives
  <2>5. n.val.data \in Seq(UNSIGNED8)
    <3>1. c.payload \in Seq(UNSIGNED8)
      BY DEF IsCommand
    <3> QED BY <1>3, <3>1, NameBytes
  <2>6. q \in Seq(UNSIGNED8)
    <3> HIDE DEF a, n
    <3> QED BY <2>4, <2>5
  <2>7. d.payload = q
    <3>1. "payload" \in DOMAIN c
      BY DEF IsCommand, Command
    <3> HIDE DEF q
    <3> QED BY <3>1
  <2> HIDE DEF d, q
  <2> QED BY <2>1, <2>6, <2>7, WriteByIndexServed
<1> QED BY <1>1, <1>2, <1>3

LEMMA ReadAllServed ==
  ASSUME NEW o, IsDictionary(o), NEW h, Idle(h), NEW c, c.payload \in Seq(UNSIGNED8)
  PROVE  LET v == o[Num(SubSeq(c.payload, 1, 2))].vals
         IN Served(SE!FlattenSeq([k \in DOMAIN v |-> serialize(v[k])]), o, handle_read_all_by_index(h, c, o))
<1> DEFINE i == Num(SubSeq(c.payload, 1, 2))
           obj == read_object(o, i)
           v == o[i].vals
           vs == [k \in DOMAIN v |-> serialize(v[k])]
           p == SE!FlattenSeq(vs)
           r == handle_read_all_by_index(h, c, o)
<1> SUFFICES Served(p, o, r)
  OBVIOUS
<1>0. Len(c.payload) \in Nat
  OBVIOUS
<1> HIDE DEF i
<1>1. CASE Len(c.payload) < 2
  <2>1. r = abort(o, c.tid, InvalidCommand)
    BY <1>0, <1>1 DEF handle_read_all_by_index
  <2> HIDE DEF p, r
  <2> QED BY <2>1, AbortServed
<1>2. CASE Len(c.payload) >= 2 /\ obj = None
  <2>1. r = abort(o, c.tid, NoSuchObject)
    <3>1. None # Some("Variable")
      BY DEF None, Some
    <3> QED BY <1>0, <1>2, <3>1 DEF handle_read_all_by_index, i
  <2> HIDE DEF p, r
  <2> QED BY <2>1, AbortServed
<1>3. CASE Len(c.payload) >= 2 /\ obj = Some("Variable")
  <2>1. r = abort(o, c.tid, ValueRangeExceeded)
    BY <1>0, <1>3 DEF handle_read_all_by_index, i, None, Some
  <2> HIDE DEF p, r
  <2> QED BY <2>1, AbortServed
<1>4. CASE Len(c.payload) >= 2 /\ obj # None /\ obj # Some("Variable")
  <2>1. r = Upload(h, c, o, p, i, 0)
    BY <1>0, <1>4 DEF handle_read_all_by_index, i
  <2>2. i \in DOMAIN o
    BY <1>4 DEF read_object
  <2>3. v \in Seq(ObjectValue)
    BY <2>2 DEF IsDictionary, ObjectEntries
  <2> HIDE DEF v
  <2>4. vs \in Seq(Seq(UNSIGNED8))
    <3>1. \A k \in DOMAIN v : serialize(v[k]) \in Seq(UNSIGNED8)
      BY <2>3 DEF serialize, ObjectValue
    <3> QED BY <2>3, <3>1
  <2> HIDE DEF vs
  <2>5. p \in Seq(UNSIGNED8)
    BY <2>4, Flattened
  <2> HIDE DEF p, r
  <2> QED BY <2>1, <2>5, UploadServed
<1> QED BY <1>0, <1>1, <1>2, <1>3, <1>4

LEMMA ReadMultipleServed ==
  ASSUME NEW o, IsDictionary(o), NEW h, Idle(h), NEW c, c.payload \in Seq(UNSIGNED8)
  PROVE  LET a == multiple_from_payload(c.payload).val
         IN Served(Le(Len(a), 4) \o SE!FlattenSeq([k \in DOMAIN a |->
                                         Aligned(serialize(read(o, a[k].index, a[k].sub)[1]))]),
                   o, handle_read_multiple_params(h, c, o))
<1> DEFINE m == multiple_from_payload(c.payload)
           a == m.val
           at(k) == read(o, a[k].index, a[k].sub)
           bad == {k \in DOMAIN a : at(k) = None}
           first == CHOOSE k \in bad : \A j \in bad : k <= j
           vs == [k \in DOMAIN a |-> Aligned(serialize(at(k)[1]))]
           p == Le(Len(a), 4) \o SE!FlattenSeq(vs)
           r == handle_read_multiple_params(h, c, o)
<1> SUFFICES Served(p, o, r)
  OBVIOUS
<1>1. CASE m.err # "Ok"
  <2>1. r = abort(o, c.tid, InvalidCommand)
    BY <1>1 DEF handle_read_multiple_params
  <2> HIDE DEF p, r
  <2> QED BY <2>1, AbortServed
<1>2. CASE m.err = "Ok" /\ bad # {}
  <2>1. r = abort(o, c.tid, NotFound(o, a[first].index))
    BY <1>2 DEF handle_read_multiple_params
  <2> HIDE DEF p, r
  <2> QED BY <2>1, AbortServed
<1>3. CASE m.err = "Ok" /\ bad = {}
  <2>1. r = Upload(h, c, o, p, 0, 0)
    BY <1>3 DEF handle_read_multiple_params
  <2> DEFINE n == Len(c.payload) \div 4
  <2>2. /\ Len(c.payload) % 4 = 0
        /\ a = [k \in 1..n |-> [index |-> Num(SubSeq(c.payload, 4 * k - 3, 4 * k - 2)),
                                sub |-> c.payload[4 * k - 1]]]
    BY <1>3 DEF multiple_from_payload, Good, Bad
  <2>3. n \in Nat /\ \A k \in 1..n : 4 * k - 1 \in 1..Len(c.payload)
    <3> DEFINE l == Len(c.payload)
    <3>1. l \in Nat
      OBVIOUS
    <3> HIDE DEF l
    <3>2. l \div 4 \in Nat /\ \A k \in 1..(l \div 4) : 4 * k - 1 \in 1..l
      BY <3>1
    <3> QED BY <3>2 DEF l
  <2> HIDE DEF n, m
  <2>4. DOMAIN a = 1..n /\ \A k \in 1..n : a[k].sub \in UNSIGNED8
    <3>1. ASSUME NEW k \in 1..n PROVE a[k].sub = c.payload[4 * k - 1]
      BY <2>2
    <3> QED BY <2>2, <2>3, <3>1
  <2> HIDE DEF a
  <2>5. ASSUME NEW k \in 1..n PROVE Aligned(serialize(at(k)[1])) \in Seq(UNSIGNED8)
    <3>1. at(k) # None
      BY <1>3, <2>4
    <3>2. serialize(at(k)[1]) \in Seq(UNSIGNED8)
      BY <2>4, <3>1, ReadBytes
    <3> QED BY <3>2, AlignedBytes
  <2> DEFINE e(k) == Aligned(serialize(at(k)[1]))
  <2>6. vs = [k \in 1..n |-> e(k)]
    BY <2>4, Zenon
  <2>7. \A k \in 1..n : e(k) \in Seq(UNSIGNED8)
    BY <2>5, Zenon
  <2> HIDE DEF vs, e
  <2>8. vs \in Seq(Seq(UNSIGNED8))
    BY <2>3, <2>6, <2>7
  <2>9. SE!FlattenSeq(vs) \in Seq(UNSIGNED8)
    BY <2>8, Flattened
  <2>10. Le(Len(a), 4) \in Seq(UNSIGNED8)
    <3>1. Len(a) \in Nat
      <4>1. a = [k \in 1..n |-> a[k]]
        BY <2>2, Zenon DEF a
      <4> QED BY <2>3, <4>1
    <3> QED BY <3>1, LeBytes, 4 \in Nat
  <2>11. p \in Seq(UNSIGNED8)
    BY <2>9, <2>10, Joined
  <2> HIDE DEF p, r
  <2> QED BY <2>1, <2>11, UploadServed
<1> QED BY <1>1, <1>2, <1>3

\* The command layer without an upload.
LEMMA CommandServed ==
  ASSUME NEW o, IsDictionary(o), NEW h, Idle(h), NEW c, IsCommand(c)
  PROVE  Served(Content(o, c), o, process_command_layer(h, c, o))
<1> DEFINE p == Content(o, c)
           r == process_command_layer(h, c, o)
<1>0. c.payload \in Seq(UNSIGNED8) /\ h.st # "SegmentedUpload" /\ IsHandler(h) /\ h.x = NoTransfer
  BY DEF IsCommand, Idle
<1> SUFFICES Served(p, o, r)
  OBVIOUS
<1>1. CASE c.abrt
  <2>1. r = Done(To(h, "Established"), o, AbortedReply)
    BY <1>0, <1>1 DEF process_command_layer
  <2>2. IsHandler(To(h, "Established")) /\ To(h, "Established").st = "Established"
    BY <1>0, ToShape
  <2>3. r.h = To(h, "Established") /\ r.od = o /\ r.cmd.seg = "Expedited"
    BY <2>1 DEF Done, AbortedReply, Command
  <2> HIDE DEF r, p
  <2> QED BY <2>2, <2>3 DEF Served, Short
<1>2. CASE ~c.abrt
  <2>1. CASE c.id = "ReadByIndex"
    <3> DEFINE a == address_from_payload(c.payload).val
    <3>1. r = handle_read_by_index(h, c, o) /\ p = serialize(read(o, a.index, a.sub)[1])
      BY <1>0, <1>2, <2>1 DEF process_command_layer, Content
    <3>2. Served(serialize(read(o, a.index, a.sub)[1]), o, handle_read_by_index(h, c, o))
      BY <1>0, ReadByIndexServed
    <3> HIDE DEF r, p, a
    <3> QED BY <3>1, <3>2
  <2>2. CASE c.id = "WriteByIndex"
    <3>1. r = handle_write_by_index(h, c, o)
      BY <1>0, <1>2, <2>2 DEF process_command_layer
    <3> HIDE DEF r, p
    <3> QED BY <1>0, <3>1, WriteByIndexServed
  <2>3. CASE c.id = "ReadByName"
    <3> DEFINE q == serialize(read(o, find_by_name(o, name_from_payload(c.payload).val)[1][1], 0)[1])
    <3>1. r = handle_read_by_name(h, c, o) /\ p = q
      BY <1>0, <1>2, <2>3 DEF process_command_layer, Content
    <3>2. Served(q, o, handle_read_by_name(h, c, o))
      BY ReadByNameServed
    <3> HIDE DEF r, p, q
    <3> QED BY <3>1, <3>2
  <2>4. CASE c.id = "WriteByName"
    <3>1. r = handle_write_by_name(h, c, o)
      BY <1>0, <1>2, <2>4 DEF process_command_layer
    <3> HIDE DEF r, p
    <3> QED BY <3>1, WriteByNameServed
  <2>5. CASE c.id = "ReadAllByIndex"
    <3> DEFINE v == o[Num(SubSeq(c.payload, 1, 2))].vals
               q == SE!FlattenSeq([k \in DOMAIN v |-> serialize(v[k])])
    <3>1. r = handle_read_all_by_index(h, c, o) /\ p = q
      BY <1>0, <1>2, <2>5 DEF process_command_layer, Content
    <3>2. Served(q, o, handle_read_all_by_index(h, c, o))
      BY <1>0, ReadAllServed
    <3> HIDE DEF r, p, q
    <3> QED BY <3>1, <3>2
  <2>6. CASE c.id = "ReadMultipleParamByIndex"
    <3> DEFINE a == multiple_from_payload(c.payload).val
               q == Le(Len(a), 4) \o SE!FlattenSeq([k \in DOMAIN a |->
                                         Aligned(serialize(read(o, a[k].index, a[k].sub)[1]))])
    <3>1. r = handle_read_multiple_params(h, c, o) /\ p = q
      BY <1>0, <1>2, <2>6 DEF process_command_layer, Content
    <3>2. Served(q, o, handle_read_multiple_params(h, c, o))
      BY <1>0, ReadMultipleServed
    <3> HIDE DEF r, p, q
    <3> QED BY <3>1, <3>2
  <2>7. CASE c.id = "MaxSegmentSize"
    <3>1. PICK d : r = Done(h, o, Reply(c.tid, d))
      BY <1>0, <1>2, <2>7 DEF process_command_layer, handle_max_segment_size
    <3> HIDE DEF r, p
    <3> QED BY <1>0, <3>1, ReplyServed
  <2>8. CASE c.id = "Nil"
    <3>1. r = Done(h, o, Reply(c.tid, <<>>))
      BY <1>0, <1>2, <2>8 DEF process_command_layer
    <3> HIDE DEF r, p
    <3> QED BY <1>0, <3>1, ReplyServed
  <2>9. CASE c.id = "Abort"
    <3>1. r = abort(o, c.tid, InvalidCommand)
      BY <1>0, <1>2, <2>9 DEF process_command_layer
    <3> HIDE DEF r, p
    <3> QED BY <3>1, AbortServed
  <2>10. CASE c.id \notin {"ReadByIndex", "WriteByIndex", "ReadByName", "WriteByName", "ReadAllByIndex",
                           "ReadMultipleParamByIndex", "MaxSegmentSize", "Nil", "Abort"}
    <3>1. r = unsupported(h, c, o)
      BY <1>0, <1>2, <2>10 DEF process_command_layer
    <3>2. r.h = h /\ r.od = o /\ r.cmd.seg = "Expedited"
      BY <3>1 DEF unsupported, Done, AbortReply, Command
    <3> HIDE DEF r, p
    <3> QED BY <1>0, <3>2 DEF Served, Short
  <2> HIDE DEF r, p
  <2> QED BY <2>1, <2>2, <2>3, <2>4, <2>5, <2>6, <2>7, <2>8, <2>9, <2>10
<1> QED BY <1>1, <1>2

(***************************************************************************)
(* A connection with an upload.                                            *)
(***************************************************************************)

\* What a command leaves of the upload x of a handler.
Pursued(x, o, r) ==
  /\ IsDictionary(r.od) /\ IsHandler(r.h)
  /\ \/ Short(r.h, r.cmd)
     \/ Continues(x, Retries(o), r.h, r.cmd)
     \/ r.h.st # "Opening" /\ Finishes(x, r.cmd)

\* The next segment, whoever asks for it: the handler g goes on or is left in st.
LEMMA NextSegment ==
  ASSUME NEW o, IsDictionary(o), NEW h, Busy(h), NEW st, st \in {"Closed", "Established"}, NEW s,
         s = get_next_upload_segment(h.x, o), NEW g,
         g = IF s.last THEN To(h, st) ELSE [h EXCEPT !.x = s.x]
  PROVE  /\ IsHandler(g)
         /\ \/ Continues(h.x, Retries(o), g, s.cmd)
            \/ g.st = st /\ g.x = NoTransfer /\ Finishes(h.x, s.cmd)
<1>1. IsSegment(h.x, s, Retries(o)) /\ h.x.off > 0 /\ IsHandler(h) /\ h.st = "SegmentedUpload"
  BY SegmentLemma DEF Busy
<1>2. s.cmd.size = None /\ h.x.off \in Nat
  BY <1>1 DEF IsSegment, Busy, Running
<1>3. CASE s.last
  <2>1. g = To(h, st)
    BY <1>3
  <2>2. IsHandler(g) /\ g.st = st /\ g.x = NoTransfer
    BY ONLY <1>1, <2>1, ToShape
  <2>3. Finishes(h.x, s.cmd)
    BY <1>1, <1>2, <1>3 DEF IsSegment, Finishes
  <2> QED BY <2>2, <2>3
<1>4. CASE ~s.last
  <2>1. PICK a, b, e, d : h = [st |-> a, ssn |-> b, lrs |-> e, x |-> d]
    BY <1>1, Fields
  <2>2. g = [h EXCEPT !.x = s.x]
    BY <1>4
  <2>3. g = [st |-> a, ssn |-> b, lrs |-> e, x |-> s.x]
    BY ONLY <2>1, <2>2
  <2>4. IsHandler(g) /\ g.st = "SegmentedUpload" /\ g.x = s.x
    <3>1. h.st = a
      BY ONLY <2>1
    <3>2. IsHandler(g) /\ g.st = a /\ g.x = s.x
      BY <2>3, ShapeOf
    <3> QED BY <1>1, <3>1, <3>2
  <2>5. /\ Running(s.x) /\ s.x.off > h.x.off /\ s.x.buf = h.x.buf /\ s.x.left = Retries(o)
        /\ s.cmd.payload = SubSeq(h.x.buf, h.x.off + 1, s.x.off)
        /\ s.cmd.seg \in {"Initiate", "Segment"} /\ s.cmd.abrt = FALSE
    BY <1>1, <1>4 DEF IsSegment
  <2>6. s.x.off > 0
    <3>1. s.x.off \in Nat
      BY <2>5 DEF Running
    <3> QED BY <1>2, <2>5, <3>1
  <2> QED BY ONLY <1>2, <2>4, <2>5, <2>6 DEF Continues, Busy
<1>5. s.last \in BOOLEAN
  BY <1>1 DEF IsSegment
<1> QED BY ONLY <1>3, <1>4, <1>5

LEMMA UploadPursued ==
  ASSUME NEW o, IsDictionary(o), NEW h, Busy(h), NEW c, IsCommand(c)
  PROVE  Pursued(h.x, o, process_command_layer(h, c, o))
<1> DEFINE r == process_command_layer(h, c, o)
           s == get_next_upload_segment(h.x, o)
           g == IF s.last THEN To(h, "Established") ELSE [h EXCEPT !.x = s.x]
<1>0. r = UploadCommand(h, c, o) /\ IsHandler(h)
  BY DEF process_command_layer, Busy
<1> SUFFICES Pursued(h.x, o, r)
  OBVIOUS
<1> DEFINE quits == r.od = o /\ IsHandler(r.h) /\ r.h.st # "Opening" /\ r.cmd.seg = "Expedited"
<1>1. ASSUME NEW code, r = abort(o, c.tid, code) PROVE quits
  <2>1. r.h = NewHandler /\ r.od = o /\ r.cmd.seg = "Expedited"
    BY <1>1 DEF abort, Done, AbortReply, Command
  <2> HIDE DEF r
  <2> QED BY <2>1, NewIsIdle DEF Idle
<1>2. CASE c.abrt
  <2>1. r = Done(To(h, "Established"), o, AbortedReply)
    BY <1>0, <1>2 DEF UploadCommand
  <2>2. IsHandler(To(h, "Established")) /\ To(h, "Established").st = "Established"
    BY <1>0, ToShape
  <2>3. r.h = To(h, "Established") /\ r.od = o /\ r.cmd.seg = "Expedited"
    BY <2>1 DEF Done, AbortedReply, Command
  <2> HIDE DEF r
  <2> QED BY <2>2, <2>3 DEF Pursued, Short
<1>3. CASE ~c.abrt /\ c.tid # h.x.tid
  <2>1. r = abort(o, c.tid, GeneralError)
    BY <1>0, <1>3 DEF UploadCommand
  <2> HIDE DEF r
  <2> QED BY <1>1, <2>1 DEF Pursued, Short
<1>4. CASE ~c.abrt /\ c.tid = h.x.tid /\ (c.id = "Nil" \/ c.resp)
  <2>1. r = Done(g, o, s.cmd)
    BY <1>0, <1>4 DEF UploadCommand
  <2>2. r.h = g /\ r.od = o /\ r.cmd = s.cmd
    BY <2>1 DEF Done
  <2> HIDE DEF s
  <2>3. /\ IsHandler(g)
        /\ \/ Continues(h.x, Retries(o), g, s.cmd)
           \/ g.st = "Established" /\ g.x = NoTransfer /\ Finishes(h.x, s.cmd)
    BY NextSegment DEF s
  <2> HIDE DEF r, g
  <2> QED BY <2>2, <2>3 DEF Pursued
<1>5. CASE ~c.abrt /\ c.tid = h.x.tid /\ ~(c.id = "Nil" \/ c.resp)
  <2>1. r = abort(o, c.tid, InvalidSequence)
    BY <1>0, <1>5 DEF UploadCommand
  <2> HIDE DEF r
  <2> QED BY <1>1, <2>1 DEF Pursued, Short
<1> HIDE DEF r
<1> QED BY <1>2, <1>3, <1>4, <1>5

(***************************************************************************)
(* The sequence layer and the requests.                                    *)
(***************************************************************************)

\* An upload that is not moved: as it was, or acknowledged.
Held(x, y) == \/ y = x
              \/ y.buf = x.buf /\ y.off = x.off /\ y.left = 0 /\ y.armed = FALSE
Quiet(h, g) == \/ Idle(g)
               \/ Busy(h) /\ Busy(g) /\ Held(h.x, g.x)

LEMMA AckedRuns ==
  ASSUME NEW x, Running(x), NEW y, y = [x EXCEPT !.armed = FALSE, !.last = None, !.left = 0]
  PROVE  Running(y) /\ Held(x, y) /\ y.off = x.off
<1>1. PICK a, b, c, d, e, f, g, i, j :
        x = [tid |-> a, total |-> b, buf |-> c, off |-> d, index |-> e, sub |-> f, armed |-> g,
             left |-> i, last |-> j]
  BY Zenon DEF Running
<1>2. x.total = b /\ x.buf = c /\ x.off = d
  BY ONLY <1>1
<1>3. c \in Seq(UNSIGNED8) /\ b = Len(c) /\ d \in Nat /\ d < b
  BY <1>2 DEF Running
<1>4. y = [tid |-> a, total |-> b, buf |-> c, off |-> d, index |-> e, sub |-> f, armed |-> FALSE,
           left |-> 0, last |-> None]
  BY ONLY <1>1, y = [x EXCEPT !.armed = FALSE, !.last = None, !.left = 0]
<1>5. /\ y.buf = c /\ y.off = d /\ y.total = b /\ y.left = 0 /\ y.armed = FALSE /\ y.last = None
      /\ y = [tid |-> y.tid, total |-> y.total, buf |-> y.buf, off |-> y.off, index |-> y.index,
              sub |-> y.sub, armed |-> y.armed, left |-> y.left, last |-> y.last]
  BY ONLY <1>4
<1>6. Last(y) /\ y.armed \in BOOLEAN /\ (y.armed => y.last # None)
  BY ONLY <1>5, Zenon DEF Last
<1>7. y.buf \in Seq(UNSIGNED8) /\ y.total = Len(y.buf) /\ y.off \in Nat /\ y.off < y.total /\ y.left \in Nat
  BY ONLY <1>3, <1>5
<1>8. Running(y)
  BY ONLY <1>5, <1>6, <1>7, Zenon DEF Running
<1> QED BY ONLY <1>2, <1>5, <1>8 DEF Held

LEMMA SequenceOutcome ==
  ASSUME NEW h, Idle(h) \/ Busy(h), NEW q, NEW s, s = process_sequence_layer(h, q)
  PROVE  /\ s.ok \in BOOLEAN
         /\ (Idle(h) /\ Idle(s.h)) \/ (Busy(h) /\ Busy(s.h) /\ Held(h.x, s.h.x))
<1> DEFINE g == s.h
<1>1. PICK a, b, e, d : h = [st |-> a, ssn |-> b, lrs |-> e, x |-> d]
  BY Fields DEF Idle, Busy
<1>2. h.st = a /\ h.ssn = b /\ h.lrs = e /\ h.x = d
  BY ONLY <1>1
<1>3. CASE h.st = "Closed"
  <2>1. CASE q.scon = "Initialization"
    <3>1. s.ok = TRUE /\ g = [h EXCEPT !.st = "Opening", !.ssn = 0, !.lrs = q.ssn]
      BY <1>3, <2>1 DEF process_sequence_layer
    <3> HIDE DEF g
    <3>2. g = [st |-> "Opening", ssn |-> 0, lrs |-> q.ssn, x |-> d]
      BY ONLY <1>1, <3>1
    <3>3. IsHandler(g) /\ g.st = "Opening" /\ g.x = d
      BY ONLY <3>2, ShapeOf
    <3> QED BY <1>2, <1>3, <3>1, <3>3 DEF Idle, Busy, g
  <2>2. CASE q.scon # "Initialization"
    <3>1. s.ok = TRUE /\ g = h
      BY <1>3, <2>2 DEF process_sequence_layer
    <3> QED BY <1>3, <3>1 DEF Idle, Busy
  <2> QED BY <2>1, <2>2
<1>4. CASE h.st = "Opening"
  <2>0. Idle(h)
    BY <1>4 DEF Busy
  <2>1. CASE q.scon = "ConnectionValid" /\ q.rsn = h.ssn
    <3>1. s.ok = TRUE /\ g = [h EXCEPT !.st = "Established", !.ssn = Succ(@), !.lrs = q.ssn]
      BY <1>4, <2>1 DEF process_sequence_layer
    <3> HIDE DEF g
    <3>2. g = [st |-> "Established", ssn |-> Succ(b), lrs |-> q.ssn, x |-> d]
      BY ONLY <1>1, <3>1
    <3>3. IsHandler(g) /\ g.st = "Established" /\ g.x = d
      BY ONLY <3>2, ShapeOf
    <3> QED BY <1>2, <2>0, <3>1, <3>3 DEF Idle, g
  <2>2. CASE ~(q.scon = "ConnectionValid" /\ q.rsn = h.ssn)
    <3>1. s.ok = FALSE /\ g = To(h, "Closed")
      BY <1>4, <2>2 DEF process_sequence_layer
    <3> HIDE DEF g
    <3>2. IsHandler(g) /\ g.st = "Closed" /\ g.x = NoTransfer
      BY ONLY <2>0, <3>1, ToShape DEF Idle
    <3> QED BY <2>0, <3>1, <3>2 DEF Idle, g
  <2> QED BY <2>1, <2>2
<1>5. CASE h.st \notin {"Closed", "Opening"}
  <2>1. CASE q.ssn = h.lrs
    <3>1. s.ok = TRUE /\ g = h
      BY <1>5, <2>1 DEF process_sequence_layer
    <3> QED BY <3>1 DEF Held
  <2>2. CASE q.ssn # h.lrs /\ q.ssn # Succ(h.lrs)
    <3>1. s.ok = FALSE /\ g = h
      BY <1>5, <2>2 DEF process_sequence_layer
    <3> QED BY <3>1 DEF Held
  <2>3. CASE q.ssn # h.lrs /\ q.ssn = Succ(h.lrs)
    <3> DEFINE upload == h.st = "SegmentedUpload"
               acked == IF upload /\ q.rsn = h.ssn
                        THEN [h.x EXCEPT !.armed = FALSE, !.last = None, !.left = 0] ELSE h.x
    <3>1. s.ok = TRUE /\ g = [h EXCEPT !.lrs = q.ssn, !.ssn = Succ(@), !.x = acked]
      BY <1>5, <2>3 DEF process_sequence_layer
    <3>4. \/ Idle(h) /\ acked = NoTransfer
          \/ Busy(h) /\ Running(acked) /\ Held(h.x, acked) /\ acked.off = h.x.off
      <4>1. CASE Idle(h)
        BY <4>1 DEF Idle
      <4>2. CASE Busy(h)
        <5>1. CASE acked = h.x
          BY ONLY <4>2, <5>1 DEF Busy, Held
        <5>2. CASE acked = [h.x EXCEPT !.armed = FALSE, !.last = None, !.left = 0]
          <6>1. Running(h.x)
            BY ONLY <4>2 DEF Busy
          <6> HIDE DEF acked
          <6> QED BY ONLY <4>2, <5>2, <6>1, AckedRuns
        <5>3. acked = h.x \/ acked = [h.x EXCEPT !.armed = FALSE, !.last = None, !.left = 0]
          BY Zenon
        <5> QED BY ONLY <5>1, <5>2, <5>3
      <4> QED BY <4>1, <4>2
    <3> HIDE DEF g, acked
    <3>2. g = [st |-> a, ssn |-> Succ(b), lrs |-> q.ssn, x |-> acked]
      BY ONLY <1>1, <3>1
    <3>3. IsHandler(g) /\ g.st = a /\ g.x = acked
      BY ONLY <3>2, ShapeOf
    <3>5. (Idle(h) /\ Idle(g)) \/ (Busy(h) /\ Busy(g) /\ Held(h.x, g.x))
      BY ONLY <1>2, <3>3, <3>4 DEF Idle, Busy
    <3> QED BY ONLY <3>1, <3>5 DEF g
  <2> QED BY <2>1, <2>2, <2>3
<1> QED BY <1>3, <1>4, <1>5

\* What a request leaves of the handler h of its client: nothing moves or the
\* connection is without a transfer, an upload of p starts, the upload goes
\* on, or it ends with its last segment.
Outcome(h, p, o, r) ==
  /\ r.ok \in BOOLEAN /\ IsDictionary(r.od)
  /\ \/ r.cmd.seg = "Expedited" /\ Quiet(h, r.h)
     \/ r.ok /\ Starts(p, Retries(o), r.h, r.cmd)
     \/ r.ok /\ Busy(h) /\ Continues(h.x, Retries(o), r.h, r.cmd)
     \/ r.ok /\ Busy(h) /\ Idle(r.h) /\ Finishes(h.x, r.cmd)

LEMMA QuietSelf == ASSUME NEW h, Idle(h) \/ Busy(h) PROVE Quiet(h, h)
BY DEF Quiet, Held

LEMMA SilenceOutcome ==
  ASSUME NEW o, IsDictionary(o), NEW h, NEW g, Quiet(h, g), NEW p
  PROVE  Outcome(h, p, o, Silence(g, o)) /\ Silence(g, o).ok = FALSE
<1> DEFINE r == Silence(g, o)
<1>1. r.ok = FALSE /\ r.h = g /\ r.od = o /\ r.cmd.seg = "Expedited"
  BY DEF Silence, NilCommand, Command
<1> SUFFICES Outcome(h, p, o, r) /\ r.ok = FALSE
  OBVIOUS
<1> HIDE DEF r
<1>2. r.ok \in BOOLEAN
  BY <1>1
<1> QED BY <1>1, <1>2 DEF Outcome

LEMMA EmptyOutcome ==
  ASSUME NEW o, IsDictionary(o), NEW h, Idle(h) \/ Busy(h), NEW m, NEW q, NEW p
  PROVE  Outcome(h, p, o, EmptyBody(h, m, o, q))
<1> DEFINE s == get_next_upload_segment(h.x, o)
           g == IF s.last THEN To(h, "Closed") ELSE [h EXCEPT !.x = s.x]
           f == IF h.st = "Established" THEN To(h, "Closed") ELSE h
           reply == [q EXCEPT !.rsn = h.lrs]
           r == EmptyBody(h, m, o, q)
<1> SUFFICES Outcome(h, p, o, r)
  OBVIOUS
<1>1. CASE h.st # "Opening" /\ m.seq.scon # "ConnectionValid"
  <2>1. r = Silence(h, o)
    BY <1>1 DEF EmptyBody
  <2> HIDE DEF r
  <2> QED BY <2>1, QuietSelf, SilenceOutcome
<1>2. CASE h.st = "SegmentedUpload" /\ m.seq.scon = "ConnectionValid"
  <2>0. Busy(h)
    BY <1>2 DEF Idle
  <2>1. r = Answer(g, o, reply, s.cmd)
    BY <1>2 DEF EmptyBody
  <2> HIDE DEF s
  <2>2. /\ IsHandler(g)
        /\ \/ Continues(h.x, Retries(o), g, s.cmd)
           \/ g.st = "Closed" /\ g.x = NoTransfer /\ Finishes(h.x, s.cmd)
    BY <2>0, NextSegment DEF s
  <2> HIDE DEF r, g, reply
  <2>3. r.ok = TRUE /\ r.h = g /\ r.od = o /\ r.cmd = s.cmd
    BY ONLY <2>1 DEF Answer
  <2> QED BY <2>0, <2>2, <2>3 DEF Outcome, Idle
<1>3. CASE ~(h.st # "Opening" /\ m.seq.scon # "ConnectionValid")
           /\ ~(h.st = "SegmentedUpload" /\ m.seq.scon = "ConnectionValid")
  <2>0. Idle(h)
    BY <1>3 DEF Busy
  <2>1. r = Answer(f, o, reply, Reply(0, <<>>))
    BY <1>3 DEF EmptyBody
  <2>2. Idle(f)
    <3>1. CASE h.st = "Established"
      <4>1. f = To(h, "Closed")
        BY <3>1
      <4> HIDE DEF f
      <4> QED BY ONLY <2>0, <4>1, ToShape DEF Idle
    <3>2. CASE h.st # "Established"
      BY <2>0, <3>2
    <3> QED BY <3>1, <3>2
  <2>4. Reply(0, <<>>).seg = "Expedited"
    BY DEF Reply, Command
  <2> HIDE DEF r, f, reply
  <2>3. r.ok = TRUE /\ r.h = f /\ r.od = o /\ r.cmd = Reply(0, <<>>)
    BY ONLY <2>1 DEF Answer
  <2> QED BY <2>2, <2>3, <2>4 DEF Outcome, Quiet
<1> HIDE DEF r
<1> QED BY <1>1, <1>2, <1>3

LEMMA CommandOutcome ==
  ASSUME NEW o, IsDictionary(o), NEW h, Idle(h) \/ Busy(h), NEW m, IsCommand(m.cmd), NEW q
  PROVE  Outcome(h, Content(o, m.cmd), o, CommandBody(h, m, o, q))
<1> DEFINE p == Content(o, m.cmd)
           d == process_command_layer(h, m.cmd, o)
           ends == d.h.st # "Opening" /\ (d.cmd.seg \in {"Expedited", "Complete"} \/ d.cmd.abrt)
           g == IF ends THEN To(d.h, "Closed") ELSE d.h
           seq == [q EXCEPT !.rsn = d.h.lrs, !.scon = IF d.cmd.abrt THEN "NoConnection" ELSE @]
           r == CommandBody(h, m, o, q)
<1>1. r = Answer(g, d.od, seq, d.cmd)
  BY DEF CommandBody
<1>2. \/ Idle(h) /\ Served(p, o, d)
      \/ Busy(h) /\ Pursued(h.x, o, d)
  <2> HIDE DEF p, d
  <2> QED BY CommandServed, UploadPursued DEF p, d
<1> SUFFICES Outcome(h, p, o, r)
  OBVIOUS
<1> HIDE DEF r, d, p, seq
<1>3. r.ok = TRUE /\ r.h = g /\ r.od = d.od /\ r.cmd = d.cmd
  <2> HIDE DEF g
  <2> QED BY ONLY <1>1 DEF Answer
<1>4. IsHandler(d.h) /\ IsDictionary(d.od)
  BY <1>2 DEF Served, Pursued
<1>5. ends => Idle(g)
  <2> SUFFICES ASSUME ends PROVE Idle(g)
    OBVIOUS
  <2>1. g = To(d.h, "Closed")
    OBVIOUS
  <2> HIDE DEF g
  <2> QED BY ONLY <1>4, <2>1, ToShape DEF Idle
<1>6. CASE Short(d.h, d.cmd)
  <2>1. CASE d.h.st = "Opening"
    <3>1. g = d.h /\ d.h.x = NoTransfer
      BY <1>6, <2>1 DEF Short
    <3>2. Idle(g)
      BY <1>4, <2>1, <3>1 DEF Idle
    <3> HIDE DEF g
    <3> QED BY <1>3, <1>4, <1>6, <3>2 DEF Outcome, Quiet, Short
  <2>2. CASE d.h.st # "Opening"
    <3>1. Idle(g)
      BY <1>5, <1>6, <2>2 DEF Short
    <3> HIDE DEF g
    <3> QED BY <1>3, <1>4, <1>6, <3>1 DEF Outcome, Quiet, Short
  <2> QED BY <2>1, <2>2
<1>7. CASE Starts(p, Retries(o), d.h, d.cmd)
  <2>1. g = d.h
    BY <1>7 DEF Starts
  <2> HIDE DEF g
  <2> QED BY <1>3, <1>4, <1>7, <2>1 DEF Outcome
<1>8. CASE Busy(h) /\ Continues(h.x, Retries(o), d.h, d.cmd)
  <2>1. g = d.h
    BY <1>8 DEF Continues
  <2> HIDE DEF g
  <2> QED BY <1>3, <1>4, <1>8, <2>1 DEF Outcome
<1>9. CASE Busy(h) /\ d.h.st # "Opening" /\ Finishes(h.x, d.cmd)
  <2>1. Idle(g)
    BY <1>5, <1>9 DEF Finishes
  <2> HIDE DEF g
  <2> QED BY <1>3, <1>4, <1>9, <2>1 DEF Outcome
<1> QED BY <1>2, <1>6, <1>7, <1>8, <1>9 DEF Served, Pursued

\* What the sequence layer did to the handler before the body was looked at.
LEMMA OutcomeBefore ==
  ASSUME NEW o, NEW h, NEW g, NEW p, NEW r, Outcome(g, p, o, r),
         (Idle(h) /\ Idle(g)) \/ (Busy(h) /\ Busy(g) /\ Held(h.x, g.x))
  PROVE  Outcome(h, p, o, r)
<1>1. CASE Idle(h) /\ Idle(g)
  <2>1. ~Busy(g)
    BY ONLY <1>1 DEF Idle, Busy
  <2> QED BY <2>1 DEF Outcome, Quiet
<1>2. CASE Busy(h) /\ Busy(g) /\ Held(h.x, g.x)
  <2>1. g.x.buf = h.x.buf /\ g.x.off = h.x.off
    BY ONLY <1>2 DEF Held
  <2>2. Held(g.x, r.h.x) => Held(h.x, r.h.x)
    BY ONLY <1>2 DEF Held
  <2>3. Quiet(g, r.h) => Quiet(h, r.h)
    BY ONLY <1>2, <2>2 DEF Quiet
  <2>4. /\ Continues(g.x, Retries(o), r.h, r.cmd) => Continues(h.x, Retries(o), r.h, r.cmd)
        /\ Finishes(g.x, r.cmd) => Finishes(h.x, r.cmd)
    BY ONLY <2>1 DEF Continues, Finishes
  <2> QED BY <1>2, <2>3, <2>4 DEF Outcome
<1> QED BY <1>1, <1>2

LEMMA AskedOutcome ==
  ASSUME NEW o, IsDictionary(o), NEW h, Idle(h) \/ Busy(h), NEW m, NEW r, r = AskedAgain(h, m, o)
  PROVE  r.ok \in BOOLEAN /\ IsDictionary(r.od) /\ Quiet(h, r.h)
<1> DEFINE s == process_sequence_layer(h, m.seq)
<1>1. /\ s.ok \in BOOLEAN
      /\ (Idle(h) /\ Idle(s.h)) \/ (Busy(h) /\ Busy(s.h) /\ Held(h.x, s.h.x))
  BY SequenceOutcome
<1>2. Quiet(h, s.h) /\ Quiet(h, h)
  BY ONLY <1>1 DEF Quiet, Held
<1>3. CASE h.st = "SegmentedUpload" /\ h.x.last # None
  <2>1. r.ok = TRUE /\ r.h = h /\ r.od = o
    BY <1>3 DEF AskedAgain, Answer
  <2> QED BY <1>2, <2>1
<1>4. CASE ~(h.st = "SegmentedUpload" /\ h.x.last # None)
  <2>1. r = IF s.ok THEN Answer(s.h, o, s.seq, NilCommand) ELSE Silence(s.h, o)
    BY <1>4 DEF AskedAgain
  <2> HIDE DEF s
  <2>2. r.ok = s.ok /\ r.h = s.h /\ r.od = o
    <3>1. CASE s.ok = TRUE
      BY ONLY <2>1, <3>1 DEF Answer
    <3>2. CASE s.ok = FALSE
      BY ONLY <2>1, <3>2 DEF Silence
    <3> QED BY ONLY <1>1, <3>1, <3>2
  <2> QED BY <1>1, <1>2, <2>2
<1> QED BY <1>3, <1>4

LEMMA RequestOutcome ==
  ASSUME NEW o, IsDictionary(o), NEW h, Idle(h) \/ Busy(h), NEW m, IsCommand(m.cmd), NEW r,
         r = handle_request(h, m, o)
  PROVE  \/ m.seq.rcon = "ErrorResponse" /\ r.ok \in BOOLEAN /\ IsDictionary(r.od) /\ Quiet(h, r.h)
         \/ m.seq.rcon # "ErrorResponse" /\ Outcome(h, Content(o, m.cmd), o, r)
<1> DEFINE s == process_sequence_layer(h, m.seq)
           p == Content(o, m.cmd)
<1>1. /\ s.ok \in BOOLEAN
      /\ (Idle(h) /\ Idle(s.h)) \/ (Busy(h) /\ Busy(s.h) /\ Held(h.x, s.h.x))
  BY SequenceOutcome
<1>2. CASE m.seq.rcon = "ErrorResponse"
  <2>1. r = AskedAgain(h, m, o)
    BY <1>2 DEF handle_request
  <2> QED BY <1>2, <2>1, AskedOutcome
<1> SUFFICES ASSUME m.seq.rcon # "ErrorResponse" PROVE Outcome(h, p, o, r)
  BY <1>2
<1>3. CASE ~s.ok
  <2>1. r = Silence(s.h, o)
    BY <1>3 DEF handle_request
  <2> HIDE DEF s, p
  <2>2. Quiet(h, s.h)
    BY <1>1 DEF Quiet
  <2> QED BY <2>1, <2>2, SilenceOutcome
<1>4. CASE s.ok /\ m.body = "none"
  <2>1. r = EmptyBody(s.h, m, o, s.seq)
    BY <1>4 DEF handle_request
  <2> HIDE DEF s, p
  <2>2. Outcome(s.h, p, o, r)
    BY <1>1, <2>1, EmptyOutcome
  <2> QED BY <1>1, <2>2, OutcomeBefore
<1>5. CASE s.ok /\ m.body = "bad"
  <2>1. r.ok = TRUE /\ r.h = NewHandler /\ r.od = o /\ r.cmd = AbortReply(0, InvalidCommand)
    BY <1>5 DEF handle_request, Answer
  <2>2. r.cmd.seg = "Expedited"
    BY <2>1 DEF AbortReply, Command
  <2> HIDE DEF p
  <2> QED BY <2>1, <2>2, NewIsIdle DEF Outcome, Quiet
<1>6. CASE s.ok /\ m.body \notin {"none", "bad"}
  <2>1. r = CommandBody(s.h, m, o, s.seq)
    BY <1>6 DEF handle_request
  <2> HIDE DEF s
  <2>2. Outcome(s.h, p, o, r)
    BY <1>1, <2>1, CommandOutcome
  <2> HIDE DEF p
  <2> QED BY <1>1, <2>2, OutcomeBefore
<1> QED BY <1>1, <1>3, <1>4, <1>5, <1>6

\* A deadline that passes takes one retry of the upload, or ends it.
Ticked(h, r) ==
  /\ r.ok = TRUE
  /\ \/ r.h = NewHandler
     \/ /\ Busy(r.h) /\ h.x.left > 0 /\ r.h.x.left = h.x.left - 1
        /\ r.h.x.buf = h.x.buf /\ r.h.x.off = h.x.off

LEMMA TickOutcome ==
  ASSUME NEW o, NEW h, Busy(h), h.x.last # None
  PROVE  Ticked(h, tick(h, o))
<1> DEFINE r == tick(h, o)
           g == [h EXCEPT !.x.left = @ - 1]
           y == [h.x EXCEPT !.left = @ - 1]
<1>1. CASE h.x.left > 0
  <2> SUFFICES Ticked(h, r)
    OBVIOUS
  <2>1. r.ok = TRUE /\ r.h = g
    BY <1>1 DEF tick, Busy, Answer
  <2>2. PICK a, b, e, d : h = [st |-> a, ssn |-> b, lrs |-> e, x |-> d]
    BY Fields DEF Busy
  <2>3. h.st = a /\ h.x = d
    BY ONLY <2>2
  <2>4. g = [h EXCEPT !.x.left = @ - 1] /\ y = [h.x EXCEPT !.left = @ - 1]
    OBVIOUS
  <2>5. Running(h.x) /\ h.st = "SegmentedUpload" /\ h.x.off > 0
    BY DEF Busy
  <2>6. PICK a1, a2, a3, a4, a5, a6, a7, a8, a9 :
          h.x = [tid |-> a1, total |-> a2, buf |-> a3, off |-> a4, index |-> a5, sub |-> a6,
                 armed |-> a7, left |-> a8, last |-> a9]
    BY <2>5, Zenon DEF Running
  <2>7. /\ h.x.total = a2 /\ h.x.buf = a3 /\ h.x.off = a4 /\ h.x.armed = a7 /\ h.x.left = a8
        /\ h.x.last = a9
    BY ONLY <2>6
  <2> HIDE DEF g, y, r
  <2>8. y = [tid |-> a1, total |-> a2, buf |-> a3, off |-> a4, index |-> a5, sub |-> a6,
             armed |-> a7, left |-> a8 - 1, last |-> a9]
    BY ONLY <2>4, <2>6
  <2>9. g = [st |-> a, ssn |-> b, lrs |-> e, x |-> y]
    <3>1. g = [st |-> a, ssn |-> b, lrs |-> e, x |-> [d EXCEPT !.left = @ - 1]]
      BY ONLY <2>2, <2>4
    <3> QED BY ONLY <2>3, <2>4, <3>1
  <2>10. IsHandler(g) /\ g.st = a /\ g.x = y
    BY ONLY <2>9, ShapeOf
  <2>11. /\ y.buf = h.x.buf /\ y.off = h.x.off /\ y.total = h.x.total /\ y.left = h.x.left - 1
         /\ y.armed = h.x.armed /\ y.last = h.x.last
         /\ y = [tid |-> y.tid, total |-> y.total, buf |-> y.buf, off |-> y.off, index |-> y.index,
                 sub |-> y.sub, armed |-> y.armed, left |-> y.left, last |-> y.last]
    BY ONLY <2>7, <2>8
  <2>12. Last(h.x) => Last(y)
    BY ONLY <2>11 DEF Last
  <2>13. y.left \in Nat
    BY ONLY <1>1, <2>5, <2>11 DEF Running
  <2>14. Running(y)
    BY ONLY <2>5, <2>11, <2>12, <2>13 DEF Running
  <2> QED BY ONLY <1>1, <2>1, <2>3, <2>5, <2>10, <2>11, <2>14 DEF Busy, Ticked
<1>2. CASE ~(h.x.left > 0)
  BY <1>2 DEF tick, Busy, Answer, Ticked
<1> QED BY <1>1, <1>2

(***************************************************************************)
(* The inductive invariant.                                                *)
(***************************************************************************)

\* What a client was sent, s, of the value v, the timeouts t of the segment
\* on its way and the retries a it was granted, against its handler h.
Accounted(h, s, v, t, a) ==
  /\ s \in Seq(UNSIGNED8) /\ v \in Seq(UNSIGNED8) /\ t \in Nat /\ a \in Nat
  /\ \/ Idle(h) /\ s = v /\ t = 0
     \/ Busy(h) /\ h.x.buf = v /\ s = SubSeq(v, 1, h.x.off) /\ t + h.x.left <= a

IsMap(f) == f = [d \in DOMAIN f |-> f[d]]

ServerInv ==
  /\ IsDictionary(od)
  /\ IsMap(conns) /\ DOMAIN conns \subseteq Clients
  /\ due \subseteq Armed(conns)
  /\ sent \in [Clients -> Seq(UNSIGNED8)] /\ snapshot \in [Clients -> Seq(UNSIGNED8)]
  /\ timeouts \in [Clients -> Nat] /\ allowed \in [Clients -> Nat]
  /\ \A c \in Clients : Accounted(HandlerOf(conns, c), sent[c], snapshot[c], timeouts[c], allowed[c])

LEMMA Exclusive == ASSUME NEW h PROVE ~(Idle(h) /\ Busy(h))
BY DEF Idle, Busy

\* The books of one client over one request.
LEMMA RequestAccount ==
  ASSUME NEW o, IsDictionary(o), NEW h, NEW s, NEW v, NEW t, NEW a, Accounted(h, s, v, t, a),
         NEW m, IsCommand(m.cmd), NEW r, r = handle_request(h, m, o),
         NEW g, Idle(r.h) => Idle(g), Busy(r.h) => g = r.h
  PROVE  LET new  == r.ok /\ r.cmd.seg # "Expedited" /\ m.seq.rcon # "ErrorResponse"
             up   == g.st = "SegmentedUpload"
             got  == IF ~new THEN s ELSE IF r.cmd.size # None THEN r.cmd.payload
                     ELSE s \o r.cmd.payload
             kept == up \/ (new /\ r.cmd.seg = "Complete")
         IN Accounted(g, IF kept THEN got ELSE <<>>,
                      IF ~kept THEN <<>> ELSE IF new /\ r.cmd.size # None THEN Content(o, m.cmd) ELSE v,
                      IF new \/ ~up THEN 0 ELSE t,
                      IF ~up THEN 0 ELSE IF new THEN Retries(o) ELSE a)
<1> DEFINE new  == r.ok /\ r.cmd.seg # "Expedited" /\ m.seq.rcon # "ErrorResponse"
           up   == g.st = "SegmentedUpload"
           got  == IF ~new THEN s ELSE IF r.cmd.size # None THEN r.cmd.payload ELSE s \o r.cmd.payload
           kept == up \/ (new /\ r.cmd.seg = "Complete")
           p  == Content(o, m.cmd)
           s1 == IF kept THEN got ELSE <<>>
           v1 == IF ~kept THEN <<>> ELSE IF new /\ r.cmd.size # None THEN p ELSE v
           t1 == IF new \/ ~up THEN 0 ELSE t
           a1 == IF ~up THEN 0 ELSE IF new THEN Retries(o) ELSE a
<1> SUFFICES Accounted(g, s1, v1, t1, a1)
  BY Zenon
<1>0. <<>> \in Seq(UNSIGNED8) /\ 0 \in Nat
  OBVIOUS
<1>1. s \in Seq(UNSIGNED8) /\ v \in Seq(UNSIGNED8) /\ t \in Nat /\ a \in Nat
  BY DEF Accounted
<1>2. Busy(h) => h.x.buf = v /\ s = SubSeq(v, 1, h.x.off) /\ t + h.x.left <= a
  BY Exclusive DEF Accounted
<1>3. \/ m.seq.rcon = "ErrorResponse" /\ r.ok \in BOOLEAN /\ IsDictionary(r.od) /\ Quiet(h, r.h)
      \/ m.seq.rcon # "ErrorResponse" /\ Outcome(h, p, o, r)
  <2>1. Idle(h) \/ Busy(h)
    BY DEF Accounted
  <2> QED BY <2>1, RequestOutcome
<1> HIDE DEF p
<1>4. Retries(o) \in Nat
  BY RetriesNat
<1>5. CASE ~new /\ Quiet(h, r.h)
  <2>1. CASE Idle(r.h)
    <3>1. Idle(g) /\ ~up /\ ~kept
      BY <1>5, <2>1 DEF Idle
    <3>2. s1 = <<>> /\ v1 = <<>> /\ t1 = 0 /\ a1 = 0
      BY <3>1, Zenon
    <3> HIDE DEF s1, v1, t1, a1
    <3> QED BY <1>0, <3>1, <3>2 DEF Accounted
  <2>2. CASE Busy(h) /\ Busy(r.h) /\ Held(h.x, r.h.x)
    <3>1. g = r.h /\ up /\ kept
      BY <2>2 DEF Busy
    <3>2. s1 = s /\ v1 = v /\ t1 = t /\ a1 = a
      BY <1>5, <3>1, Zenon
    <3>3. g.x.buf = h.x.buf /\ g.x.off = h.x.off /\ g.x.left \in Nat /\ h.x.left \in Nat
          /\ (g.x.left = h.x.left \/ g.x.left = 0)
      BY <2>2, <3>1 DEF Held, Busy, Running
    <3>4. t + g.x.left <= a
      BY ONLY <1>1, <1>2, <2>2, <3>3
    <3> HIDE DEF s1, v1, t1, a1
    <3> QED BY ONLY <1>1, <1>2, <2>2, <3>1, <3>2, <3>3, <3>4 DEF Accounted
  <2> QED BY <1>5, <2>1, <2>2 DEF Quiet
<1>6. CASE m.seq.rcon # "ErrorResponse" /\ r.ok /\ Starts(p, Retries(o), r.h, r.cmd)
  <2>1. Busy(r.h) /\ r.h.x.buf = p /\ r.h.x.left = Retries(o) /\ r.cmd.size # None
        /\ r.cmd.payload = SubSeq(p, 1, r.h.x.off) /\ r.cmd.seg # "Expedited"
    BY <1>6 DEF Starts
  <2>2. g = r.h /\ up /\ new /\ kept
    BY <1>6, <2>1 DEF Busy
  <2>3. s1 = SubSeq(p, 1, r.h.x.off) /\ v1 = p /\ t1 = 0 /\ a1 = Retries(o)
    BY <2>1, <2>2, Zenon
  <2>4. p \in Seq(UNSIGNED8) /\ r.h.x.off \in Nat /\ r.h.x.off <= Len(p)
    BY <2>1 DEF Busy, Running
  <2>5. SubSeq(p, 1, r.h.x.off) \in Seq(UNSIGNED8)
    BY <2>4
  <2>6. 0 + Retries(o) <= Retries(o)
    BY <1>4
  <2> HIDE DEF s1, v1, t1, a1
  <2> QED BY ONLY <1>0, <1>4, <2>1, <2>2, <2>3, <2>4, <2>5, <2>6 DEF Accounted
<1>7. CASE m.seq.rcon # "ErrorResponse" /\ r.ok /\ Busy(h) /\ Continues(h.x, Retries(o), r.h, r.cmd)
  <2>1. Busy(r.h) /\ r.h.x.buf = h.x.buf /\ r.h.x.left = Retries(o) /\ r.cmd.size = None
        /\ r.h.x.off > h.x.off
        /\ r.cmd.payload = SubSeq(h.x.buf, h.x.off + 1, r.h.x.off) /\ r.cmd.seg # "Expedited"
    BY <1>7 DEF Continues
  <2>2. g = r.h /\ up /\ new /\ kept
    BY <1>7, <2>1 DEF Busy
  <2>3. s1 = s \o r.cmd.payload /\ v1 = v /\ t1 = 0 /\ a1 = Retries(o)
    BY <2>1, <2>2, Zenon
  <2>4. r.h.x.off \in Nat /\ r.h.x.off <= Len(v) /\ h.x.off \in Nat
    BY <1>2, <1>7, <2>1 DEF Busy, Running
  <2>5. s \o r.cmd.payload = SubSeq(v, 1, r.h.x.off)
    <3>1. h.x.off <= r.h.x.off
      BY <2>1, <2>4
    <3>2. SubSeq(v, 1, h.x.off) \o SubSeq(v, h.x.off + 1, r.h.x.off) = SubSeq(v, 1, r.h.x.off)
      BY ONLY <1>1, <2>4, <3>1, Adjacent
    <3> QED BY ONLY <1>2, <1>7, <2>1, <3>2
  <2>6. SubSeq(v, 1, r.h.x.off) \in Seq(UNSIGNED8)
    BY ONLY <1>1, <2>4
  <2>7. 0 + Retries(o) <= Retries(o)
    BY <1>4
  <2> HIDE DEF s1, v1, t1, a1
  <2> QED BY ONLY <1>0, <1>1, <1>2, <1>4, <1>7, <2>1, <2>2, <2>3, <2>5, <2>6, <2>7 DEF Accounted
<1>8. CASE m.seq.rcon # "ErrorResponse" /\ r.ok /\ Busy(h) /\ Idle(r.h) /\ Finishes(h.x, r.cmd)
  <2>1. r.cmd.seg = "Complete" /\ r.cmd.size = None
        /\ r.cmd.payload = SubSeq(h.x.buf, h.x.off + 1, Len(h.x.buf))
    BY <1>8 DEF Finishes
  <2>2. Idle(g) /\ ~up /\ new /\ kept
    BY <1>8, <2>1 DEF Idle
  <2>3. s1 = s \o r.cmd.payload /\ v1 = v /\ t1 = 0 /\ a1 = 0
    BY <2>1, <2>2, Zenon
  <2>4. h.x.off \in Nat /\ h.x.off <= Len(v) /\ Len(v) \in Nat
    BY <1>1, <1>2, <1>8 DEF Busy, Running
  <2>5. s \o r.cmd.payload = v
    <3>1. SubSeq(v, 1, h.x.off) \o SubSeq(v, h.x.off + 1, Len(v)) = SubSeq(v, 1, Len(v))
      <4> DEFINE i == h.x.off
                 n == Len(v)
      <4>1. i \in Nat /\ n \in Nat /\ i <= n /\ n <= Len(v)
        BY <2>4
      <4> HIDE DEF i, n
      <4>2. SubSeq(v, 1, i) \o SubSeq(v, i + 1, n) = SubSeq(v, 1, n)
        BY ONLY <1>1, <4>1, Adjacent
      <4> QED BY <4>2 DEF i, n
    <3>2. SubSeq(v, 1, Len(v)) = v
      BY ONLY <1>1
    <3>3. h.x.buf = v /\ s = SubSeq(v, 1, h.x.off)
      BY ONLY <1>2, <1>8
    <3>4. s \o r.cmd.payload = SubSeq(v, 1, h.x.off) \o SubSeq(v, h.x.off + 1, Len(v))
      BY ONLY <2>1, <3>3, Zenon
    <3> QED BY ONLY <3>1, <3>2, <3>4, Zenon
  <2> HIDE DEF s1, v1, t1, a1
  <2> QED BY ONLY <1>0, <1>1, <2>2, <2>3, <2>5 DEF Accounted
<1> HIDE DEF s1, v1, t1, a1
<1> QED BY <1>3, <1>5, <1>6, <1>7, <1>8 DEF Outcome

LEMMA ServerInit == Init => ServerInv
<1> SUFFICES ASSUME Init PROVE ServerInv
  OBVIOUS
<1>1. IsDictionary(od)
  BY ServingAssumption DEF Init
<1>2. conns = <<>> /\ due = {}
  BY DEF Init
<1>3. IsMap(conns) /\ DOMAIN conns = {}
  BY <1>2 DEF IsMap
<1>4. /\ sent \in [Clients -> Seq(UNSIGNED8)] /\ snapshot \in [Clients -> Seq(UNSIGNED8)]
      /\ timeouts \in [Clients -> Nat] /\ allowed \in [Clients -> Nat]
  BY DEF Init
<1>5. ASSUME NEW c \in Clients
      PROVE  Accounted(HandlerOf(conns, c), sent[c], snapshot[c], timeouts[c], allowed[c])
  <2>1. HandlerOf(conns, c) = NewHandler
    BY <1>3 DEF HandlerOf
  <2>2. sent[c] = <<>> /\ snapshot[c] = <<>> /\ timeouts[c] = 0 /\ allowed[c] = 0
    BY DEF Init
  <2> QED BY <2>1, <2>2, NewIsIdle DEF Accounted
<1> QED BY <1>1, <1>2, <1>3, <1>4, <1>5 DEF ServerInv

LEMMA ArmedBusy ==
  ASSUME ServerInv, NEW c \in Armed(conns)
  PROVE  c \in Clients /\ c \in DOMAIN conns /\ Busy(conns[c]) /\ conns[c].x.last # None
<1>1. c \in DOMAIN conns /\ c \in Clients /\ conns[c].x # NoTransfer /\ conns[c].x.armed
  BY DEF Armed, ServerInv
<1>2. Idle(conns[c]) \/ Busy(conns[c])
  BY <1>1 DEF ServerInv, Accounted, HandlerOf
<1>3. Busy(conns[c])
  BY <1>1, <1>2 DEF Idle
<1> QED BY <1>1, <1>3 DEF Busy, Running

LEMMA CommandShape ==
  ASSUME NEW c \in Clients, NEW m \in Requests(c) PROVE IsCommand(m.cmd)
BY ServingAssumption, Zenon DEF IsCommand

\* The map of the connections after a request.
Kept(cs, c, r) == IF r.ok /\ r.h.st = "Closed" THEN Without(cs, {c}) ELSE With(cs, c, r.h)
IsKept(cs, c, r, k) ==
  /\ IsMap(k) /\ DOMAIN k \subseteq DOMAIN cs \cup {c}
  /\ \A d : d # c => (d \in DOMAIN k <=> d \in DOMAIN cs) /\ HandlerOf(k, d) = HandlerOf(cs, d)
  /\ Idle(r.h) => Idle(HandlerOf(k, c))
  /\ Busy(r.h) => HandlerOf(k, c) = r.h

LEMMA KeptConns ==
  ASSUME NEW cs, IsMap(cs), NEW c, NEW r, Idle(r.h) \/ Busy(r.h)
  PROVE  IsKept(cs, c, r, Kept(cs, c, r))
<1> DEFINE k == Kept(cs, c, r)
<1>1. CASE r.ok /\ r.h.st = "Closed"
  <2>1. k = [d \in DOMAIN cs \ {c} |-> cs[d]]
    BY <1>1 DEF Without, Kept
  <2> HIDE DEF k
  <2>2. ~Busy(r.h)
    BY <1>1 DEF Busy
  <2>3. HandlerOf(k, c) = NewHandler
    BY ONLY <2>1 DEF HandlerOf
  <2>4. \A d : d # c => (d \in DOMAIN k <=> d \in DOMAIN cs) /\ HandlerOf(k, d) = HandlerOf(cs, d)
    BY ONLY <2>1 DEF HandlerOf
  <2>5. IsMap(k) /\ DOMAIN k \subseteq DOMAIN cs \cup {c}
    BY ONLY <2>1 DEF IsMap
  <2> QED BY ONLY <2>2, <2>3, <2>4, <2>5, NewIsIdle DEF IsKept, k
<1>2. CASE ~(r.ok /\ r.h.st = "Closed")
  <2> DEFINE g == r.h
  <2>1. k = [d \in DOMAIN cs \cup {c} |-> IF d = c THEN g ELSE cs[d]]
    BY <1>2 DEF With, Kept
  <2> HIDE DEF g, k
  <2>3. HandlerOf(k, c) = g
    BY ONLY <2>1 DEF HandlerOf
  <2>4. \A d : d # c => (d \in DOMAIN k <=> d \in DOMAIN cs) /\ HandlerOf(k, d) = HandlerOf(cs, d)
    BY ONLY <2>1 DEF HandlerOf
  <2>5. IsMap(k) /\ DOMAIN k \subseteq DOMAIN cs \cup {c}
    BY ONLY <2>1 DEF IsMap
  <2> QED BY ONLY <2>3, <2>4, <2>5 DEF g, IsKept, k
<1> QED BY <1>1, <1>2

LEMMA RequestKeeps ==
  ASSUME ServerInv, NEW c \in Clients, NEW m \in Requests(c), Request(c, m)
  PROVE  ServerInv'
<1> DEFINE h == HandlerOf(conns, c)
           r == handle_request(h, m, od)
           k == Kept(conns, c, r)
           g == HandlerOf(k, c)
           new  == r.ok /\ r.cmd.seg # "Expedited" /\ m.seq.rcon # "ErrorResponse"
           up   == g.st = "SegmentedUpload"
           got  == IF ~new THEN sent[c] ELSE IF r.cmd.size # None THEN r.cmd.payload
                   ELSE sent[c] \o r.cmd.payload
           kept == up \/ (new /\ r.cmd.seg = "Complete")
           s1 == IF kept THEN got ELSE <<>>
           v1 == IF ~kept THEN <<>> ELSE IF new /\ r.cmd.size # None THEN Content(od, m.cmd)
                 ELSE snapshot[c]
           t1 == IF new \/ ~up THEN 0 ELSE timeouts[c]
           a1 == IF ~up THEN 0 ELSE IF new THEN Retries(od) ELSE allowed[c]
<1>1. /\ conns' = k /\ od' = r.od
      /\ due' = IF g.x = h.x THEN due ELSE due \ {c}
      /\ sent' = [sent EXCEPT ![c] = s1] /\ snapshot' = [snapshot EXCEPT ![c] = v1]
      /\ timeouts' = [timeouts EXCEPT ![c] = t1] /\ allowed' = [allowed EXCEPT ![c] = a1]
  <2> DEFINE z == server_handle_request(conns, c, m, od)
  <2>1. z.r = r /\ z.conns = k
    BY DEF server_handle_request, Kept
  <2> DEFINE gg == HandlerOf(z.conns, c)
             new1 == z.r.ok /\ z.r.cmd.seg # "Expedited" /\ m.seq.rcon # "ErrorResponse"
             up1  == gg.st = "SegmentedUpload"
             got1 == IF ~new1 THEN sent[c] ELSE IF z.r.cmd.size # None THEN z.r.cmd.payload
                     ELSE sent[c] \o z.r.cmd.payload
             kept1 == up1 \/ (new1 /\ z.r.cmd.seg = "Complete")
  <2>2. /\ conns' = z.conns /\ od' = z.r.od
        /\ due' = IF gg.x = h.x THEN due ELSE due \ {c}
        /\ sent' = [sent EXCEPT ![c] = IF kept1 THEN got1 ELSE <<>>]
        /\ snapshot' = [snapshot EXCEPT ![c] = IF ~kept1 THEN <<>> ELSE
                           IF new1 /\ z.r.cmd.size # None THEN Content(od, m.cmd) ELSE @]
        /\ timeouts' = [timeouts EXCEPT ![c] = IF new1 \/ ~up1 THEN 0 ELSE @]
        /\ allowed' = [allowed EXCEPT ![c] = IF ~up1 THEN 0 ELSE IF new1 THEN Retries(od) ELSE @]
    BY Zenon DEF Request
  <2> HIDE DEF z, r, k, h
  <2> QED BY ONLY <2>1, <2>2, Zenon
<1>2. IsCommand(m.cmd)
  BY CommandShape
<1>3. /\ IsDictionary(od) /\ IsMap(conns) /\ DOMAIN conns \subseteq Clients
      /\ due \subseteq Armed(conns)
      /\ sent \in [Clients -> Seq(UNSIGNED8)] /\ snapshot \in [Clients -> Seq(UNSIGNED8)]
      /\ timeouts \in [Clients -> Nat] /\ allowed \in [Clients -> Nat]
      /\ \A d \in Clients : Accounted(HandlerOf(conns, d), sent[d], snapshot[d], timeouts[d], allowed[d])
  BY DEF ServerInv
<1>4. Accounted(h, sent[c], snapshot[c], timeouts[c], allowed[c])
  BY <1>3
<1>5. Idle(h) \/ Busy(h)
  BY <1>4 DEF Accounted
<1> HIDE DEF h
<1>6. (Idle(r.h) \/ Busy(r.h)) /\ IsDictionary(r.od)
  <2>1. \/ m.seq.rcon = "ErrorResponse" /\ r.ok \in BOOLEAN /\ IsDictionary(r.od) /\ Quiet(h, r.h)
        \/ m.seq.rcon # "ErrorResponse" /\ Outcome(h, Content(od, m.cmd), od, r)
    BY <1>2, <1>3, <1>5, RequestOutcome
  <2> HIDE DEF r
  <2> QED BY <2>1 DEF Outcome, Quiet, Starts, Continues
<1>7. r = handle_request(h, m, od)
  OBVIOUS
<1>8. /\ IsMap(k) /\ DOMAIN k \subseteq DOMAIN conns \cup {c}
      /\ \A d : d # c => (d \in DOMAIN k <=> d \in DOMAIN conns) /\ HandlerOf(k, d) = HandlerOf(conns, d)
      /\ Idle(r.h) => Idle(g)
      /\ Busy(r.h) => g = r.h
  <2>1. IsMap(conns)
    BY <1>3
  <2>2. IsKept(conns, c, r, k)
    <3> HIDE DEF r
    <3> QED BY <1>6, <2>1, KeptConns
  <2> HIDE DEF r, k
  <2> QED BY ONLY <2>2 DEF IsKept
<1>9. Accounted(g, s1, v1, t1, a1)
  <2>1. IsDictionary(od)
    BY <1>3
  <2> HIDE DEF r, k, g
  <2> QED BY ONLY <1>2, <1>4, <1>7, <1>8, <2>1, RequestAccount
<1> HIDE DEF s1, v1, t1, a1
<1>10. s1 \in Seq(UNSIGNED8) /\ v1 \in Seq(UNSIGNED8) /\ t1 \in Nat /\ a1 \in Nat
  BY <1>9 DEF Accounted
<1> HIDE DEF r, k
<1>11. /\ sent' \in [Clients -> Seq(UNSIGNED8)] /\ snapshot' \in [Clients -> Seq(UNSIGNED8)]
       /\ timeouts' \in [Clients -> Nat] /\ allowed' \in [Clients -> Nat]
       /\ sent'[c] = s1 /\ snapshot'[c] = v1 /\ timeouts'[c] = t1 /\ allowed'[c] = a1
       /\ \A d \in Clients : d # c => /\ sent'[d] = sent[d] /\ snapshot'[d] = snapshot[d]
                                      /\ timeouts'[d] = timeouts[d] /\ allowed'[d] = allowed[d]
  BY ONLY <1>1, <1>3, <1>10
<1>12. ASSUME NEW d \in Clients
       PROVE  Accounted(HandlerOf(k, d), sent'[d], snapshot'[d], timeouts'[d], allowed'[d])
  <2>1. CASE d = c
    BY <1>9, <1>11, <2>1
  <2>2. CASE d # c
    BY <1>3, <1>8, <1>11, <2>2
  <2> QED BY <2>1, <2>2
<1>13. due' \subseteq Armed(k)
  <2> SUFFICES ASSUME NEW d \in due' PROVE d \in Armed(k)
    OBVIOUS
  <2>1. d \in due /\ d \in DOMAIN conns /\ conns[d].x # NoTransfer /\ conns[d].x.armed
    BY <1>1, <1>3 DEF Armed
  <2>2. HandlerOf(conns, d) = conns[d]
    BY <2>1 DEF HandlerOf
  <2>3. CASE d # c
    <3>1. d \in DOMAIN k /\ k[d] = conns[d]
      BY <1>8, <2>1, <2>2, <2>3 DEF HandlerOf
    <3> QED BY <2>1, <3>1 DEF Armed
  <2>4. CASE d = c
    <3>1. g.x = conns[d].x
      BY <1>1, <2>2, <2>4 DEF h
    <3>2. d \in DOMAIN k /\ g = k[d]
      <4>1. g # NewHandler
        BY <2>1, <3>1, NewIsIdle DEF Idle
      <4> QED BY <2>4, <4>1 DEF HandlerOf
    <3> QED BY <2>1, <3>1, <3>2 DEF Armed
  <2> QED BY <2>3, <2>4
<1>14. DOMAIN k \subseteq Clients
  BY <1>3, <1>8
<1> QED BY ONLY <1>1, <1>6, <1>8, <1>11, <1>12, <1>13, <1>14 DEF ServerInv

\* Removing the closed handlers leaves every other one, and to a client whose
\* handler goes a new one is worth the same.
LEMMA ClosedRemoved ==
  ASSUME NEW cs, NEW k, k = Without(cs, ClosedOnes(cs))
  PROVE  /\ IsMap(k) /\ DOMAIN k \subseteq DOMAIN cs
         /\ \A d : IF d \in DOMAIN cs /\ cs[d].st # "Closed" THEN d \in DOMAIN k /\ k[d] = cs[d]
                   ELSE d \notin DOMAIN k
<1>1. k = [d \in DOMAIN cs \ {e \in DOMAIN cs : cs[e].st = "Closed"} |-> cs[d]]
  BY DEF Without, ClosedOnes
<1> QED BY ONLY <1>1 DEF IsMap

LEMMA ClosedAccount ==
  ASSUME NEW h, h.st = "Closed", NEW s, NEW v, NEW t, NEW a, Accounted(h, s, v, t, a)
  PROVE  Accounted(NewHandler, s, v, t, a)
BY NewIsIdle DEF Accounted, Busy

LEMMA TickKeeps ==
  ASSUME ServerInv, Tick
  PROVE  ServerInv'
<1>1. PICK c \in due :
        \E z \in {server_tick(conns, c, od)} :
          LET closed == c \notin DOMAIN z.conns
          IN /\ \A d \in due : c <= d
             /\ conns' = z.conns
             /\ due'   = (due \ {c}) \cap Armed(z.conns)
             /\ sent'     = [sent EXCEPT ![c] = IF closed THEN <<>> ELSE @]
             /\ snapshot' = [snapshot EXCEPT ![c] = IF closed THEN <<>> ELSE @]
             /\ timeouts' = [timeouts EXCEPT ![c] = IF closed THEN 0 ELSE @ + 1]
             /\ allowed'  = [allowed  EXCEPT ![c] = IF closed THEN 0 ELSE @]
             /\ UNCHANGED <<od, stalled>>
  BY Zenon DEF Tick
<1> DEFINE h == conns[c]
           r == tick(h, od)
           w == With(conns, c, r.h)
           k == Without(w, ClosedOnes(w))
           closed == c \notin DOMAIN k
           s1 == IF closed THEN <<>> ELSE sent[c]
           v1 == IF closed THEN <<>> ELSE snapshot[c]
           t1 == IF closed THEN 0 ELSE timeouts[c] + 1
           a1 == IF closed THEN 0 ELSE allowed[c]
<1>2. /\ IsDictionary(od) /\ IsMap(conns) /\ DOMAIN conns \subseteq Clients
      /\ due \subseteq Armed(conns)
      /\ sent \in [Clients -> Seq(UNSIGNED8)] /\ snapshot \in [Clients -> Seq(UNSIGNED8)]
      /\ timeouts \in [Clients -> Nat] /\ allowed \in [Clients -> Nat]
      /\ \A d \in Clients : Accounted(HandlerOf(conns, d), sent[d], snapshot[d], timeouts[d], allowed[d])
  BY DEF ServerInv
<1>3. c \in Clients /\ c \in DOMAIN conns /\ Busy(h) /\ h.x.last # None
  <2>1. c \in Armed(conns)
    BY <1>2
  <2> QED BY <2>1, ArmedBusy
<1>4. /\ r.ok = TRUE
      /\ \/ r.h = NewHandler
         \/ /\ Busy(r.h) /\ h.x.left > 0 /\ r.h.x.left = h.x.left - 1
            /\ r.h.x.buf = h.x.buf /\ r.h.x.off = h.x.off
  <2>1. Ticked(h, r)
    <3> HIDE DEF h
    <3> QED BY <1>3, TickOutcome
  <2> HIDE DEF r, h
  <2> QED BY ONLY <2>1 DEF Ticked
<1>5. /\ conns' = k /\ due' = (due \ {c}) \cap Armed(k) /\ od' = od
      /\ sent' = [sent EXCEPT ![c] = s1] /\ snapshot' = [snapshot EXCEPT ![c] = v1]
      /\ timeouts' = [timeouts EXCEPT ![c] = t1] /\ allowed' = [allowed EXCEPT ![c] = a1]
  <2> DEFINE z == server_tick(conns, c, od)
  <2>1. z.conns = k
    <3>1. z.conns = IF r.ok THEN k ELSE w
      BY DEF server_tick
    <3> HIDE DEF r, w, k, z
    <3> QED BY <1>4, <3>1
  <2>2. /\ conns' = z.conns /\ due' = (due \ {c}) \cap Armed(z.conns) /\ od' = od
        /\ sent'     = [sent EXCEPT ![c] = IF c \notin DOMAIN z.conns THEN <<>> ELSE @]
        /\ snapshot' = [snapshot EXCEPT ![c] = IF c \notin DOMAIN z.conns THEN <<>> ELSE @]
        /\ timeouts' = [timeouts EXCEPT ![c] = IF c \notin DOMAIN z.conns THEN 0 ELSE @ + 1]
        /\ allowed'  = [allowed  EXCEPT ![c] = IF c \notin DOMAIN z.conns THEN 0 ELSE @]
    BY <1>1, Zenon
  <2> HIDE DEF z, k
  <2> QED BY ONLY <2>1, <2>2, Zenon
<1> HIDE DEF r, h
<1>6. /\ w = [d \in DOMAIN conns \cup {c} |-> IF d = c THEN r.h ELSE conns[d]]
      /\ DOMAIN w = DOMAIN conns /\ w[c] = r.h
      /\ \A d \in DOMAIN conns : d # c => w[d] = conns[d]
  <2> DEFINE g == r.h
  <2>1. w = [d \in DOMAIN conns \cup {c} |-> IF d = c THEN g ELSE conns[d]]
    BY DEF With
  <2> HIDE DEF g, w
  <2>2. /\ DOMAIN w = DOMAIN conns /\ w[c] = g
        /\ \A d \in DOMAIN conns : d # c => w[d] = conns[d]
    BY ONLY <1>3, <2>1
  <2> QED BY ONLY <2>1, <2>2 DEF g
<1> HIDE DEF w
<1>7. /\ IsMap(k) /\ DOMAIN k \subseteq DOMAIN w
      /\ \A d : IF d \in DOMAIN w /\ w[d].st # "Closed" THEN d \in DOMAIN k /\ k[d] = w[d]
                ELSE d \notin DOMAIN k
  BY ClosedRemoved
<1> HIDE DEF k
<1>8. Accounted(h, sent[c], snapshot[c], timeouts[c], allowed[c])
  <2>1. HandlerOf(conns, c) = h
    BY <1>3 DEF HandlerOf, h
  <2> QED BY <1>2, <1>3, <2>1
<1>9. Accounted(HandlerOf(k, c), s1, v1, t1, a1)
  <2>1. CASE r.h = NewHandler
    <3>1. c \notin DOMAIN k
      BY <1>6, <1>7, <2>1, NewIsIdle
    <3>2. HandlerOf(k, c) = NewHandler /\ s1 = <<>> /\ v1 = <<>> /\ t1 = 0 /\ a1 = 0
      BY <3>1 DEF HandlerOf
    <3> HIDE DEF s1, v1, t1, a1
    <3> QED BY <3>2, NewIsIdle DEF Accounted
  <2>2. CASE /\ Busy(r.h) /\ h.x.left > 0 /\ r.h.x.left = h.x.left - 1
             /\ r.h.x.buf = h.x.buf /\ r.h.x.off = h.x.off
    <3>1. c \in DOMAIN k /\ k[c] = r.h
      <4>1. r.h.st # "Closed"
        BY <2>2 DEF Busy
      <4> QED BY <1>3, <1>6, <1>7, <4>1
    <3>2. HandlerOf(k, c) = r.h /\ s1 = sent[c] /\ v1 = snapshot[c] /\ t1 = timeouts[c] + 1
          /\ a1 = allowed[c]
      BY <3>1 DEF HandlerOf
    <3>3. /\ sent[c] \in Seq(UNSIGNED8) /\ snapshot[c] \in Seq(UNSIGNED8)
          /\ timeouts[c] \in Nat /\ allowed[c] \in Nat
          /\ h.x.buf = snapshot[c] /\ sent[c] = SubSeq(snapshot[c], 1, h.x.off)
          /\ timeouts[c] + h.x.left <= allowed[c]
      BY <1>3, <1>8, Exclusive DEF Accounted
    <3>4. h.x.left \in Nat
      BY <1>3 DEF Busy, Running
    <3>5. timeouts[c] + 1 \in Nat /\ timeouts[c] + 1 + r.h.x.left <= allowed[c]
      BY ONLY <2>2, <3>3, <3>4
    <3> HIDE DEF s1, v1, t1, a1
    <3> QED BY ONLY <2>2, <3>2, <3>3, <3>5 DEF Accounted
  <2> HIDE DEF s1, v1, t1, a1
  <2> QED BY <1>4, <2>1, <2>2
<1> HIDE DEF s1, v1, t1, a1
<1>10. s1 \in Seq(UNSIGNED8) /\ v1 \in Seq(UNSIGNED8) /\ t1 \in Nat /\ a1 \in Nat
  BY <1>9 DEF Accounted
<1>11. /\ sent' \in [Clients -> Seq(UNSIGNED8)] /\ snapshot' \in [Clients -> Seq(UNSIGNED8)]
       /\ timeouts' \in [Clients -> Nat] /\ allowed' \in [Clients -> Nat]
       /\ sent'[c] = s1 /\ snapshot'[c] = v1 /\ timeouts'[c] = t1 /\ allowed'[c] = a1
       /\ \A d \in Clients : d # c => /\ sent'[d] = sent[d] /\ snapshot'[d] = snapshot[d]
                                      /\ timeouts'[d] = timeouts[d] /\ allowed'[d] = allowed[d]
  BY ONLY <1>2, <1>3, <1>5, <1>10
<1>12. ASSUME NEW d \in Clients
       PROVE  Accounted(HandlerOf(k, d), sent'[d], snapshot'[d], timeouts'[d], allowed'[d])
  <2>1. CASE d = c
    BY <1>9, <1>11, <2>1
  <2>2. CASE d # c
    <3>1. Accounted(HandlerOf(conns, d), sent'[d], snapshot'[d], timeouts'[d], allowed'[d])
      BY <1>2, <1>11, <2>2
    <3>2. CASE d \in DOMAIN conns /\ conns[d].st = "Closed"
      <4>1. HandlerOf(conns, d) = conns[d] /\ HandlerOf(k, d) = NewHandler
        BY <1>6, <1>7, <2>2, <3>2 DEF HandlerOf
      <4> QED BY ONLY <3>1, <3>2, <4>1, ClosedAccount
    <3>3. CASE ~(d \in DOMAIN conns /\ conns[d].st = "Closed")
      <4>1. HandlerOf(k, d) = HandlerOf(conns, d)
        BY <1>6, <1>7, <2>2, <3>3 DEF HandlerOf
      <4> QED BY ONLY <3>1, <4>1
    <3> QED BY <3>2, <3>3
  <2> QED BY <2>1, <2>2
<1>13. DOMAIN k \subseteq Clients /\ due' \subseteq Armed(k)
  BY <1>2, <1>5, <1>6, <1>7
<1> QED BY ONLY <1>2, <1>5, <1>7, <1>11, <1>12, <1>13 DEF ServerInv

LEMMA IdleTickKeeps ==
  ASSUME ServerInv, IdleTick
  PROVE  ServerInv'
<1> DEFINE k == Without(conns, ClosedOnes(conns))
<1>1. conns' = k /\ due = {} /\ UNCHANGED <<od, due, sent, snapshot, timeouts, allowed, stalled>>
  BY DEF IdleTick
<1>2. /\ IsMap(k) /\ DOMAIN k \subseteq DOMAIN conns
      /\ \A d : IF d \in DOMAIN conns /\ conns[d].st # "Closed" THEN d \in DOMAIN k /\ k[d] = conns[d]
                ELSE d \notin DOMAIN k
  BY ClosedRemoved
<1> HIDE DEF k
<1>3. ASSUME NEW d \in Clients
      PROVE  Accounted(HandlerOf(k, d), sent[d], snapshot[d], timeouts[d], allowed[d])
  <2>1. Accounted(HandlerOf(conns, d), sent[d], snapshot[d], timeouts[d], allowed[d])
    BY DEF ServerInv
  <2>2. CASE d \in DOMAIN conns /\ conns[d].st = "Closed"
    <3>1. HandlerOf(conns, d) = conns[d] /\ HandlerOf(k, d) = NewHandler
      BY <1>2, <2>2 DEF HandlerOf
    <3> QED BY ONLY <2>1, <2>2, <3>1, ClosedAccount
  <2>3. CASE ~(d \in DOMAIN conns /\ conns[d].st = "Closed")
    <3>1. HandlerOf(k, d) = HandlerOf(conns, d)
      BY <1>2, <2>3 DEF HandlerOf
    <3> QED BY ONLY <2>1, <3>1
  <2> QED BY <2>2, <2>3
<1> QED BY <1>1, <1>2, <1>3 DEF ServerInv

\* Every step of the server and its clients keeps the books: a request by the
\* outcome of handle_request, a tick by that of SdoSequenceHandler::tick.
THEOREM ServerInvariant == Spec => []ServerInv
<1>1. Init => ServerInv
  BY ServerInit
<1>2. ServerInv /\ [Next]_vars => ServerInv'
  <2> SUFFICES ASSUME ServerInv, [Next]_vars PROVE ServerInv'
    OBVIOUS
  <2>1. ASSUME NEW c \in Clients, NEW m \in Requests(c), Request(c, m) PROVE ServerInv'
    BY <2>1, RequestKeeps
  <2>2. ASSUME NEW S \in SUBSET Clients, Elapse(S) PROVE ServerInv'
    BY <2>2 DEF Elapse, ServerInv
  <2>3. CASE Tick
    BY <2>3, TickKeeps
  <2>4. CASE IdleTick
    BY <2>4, IdleTickKeeps
  <2>5. CASE UNCHANGED vars
    BY <2>5 DEF vars, ServerInv
  <2> QED BY <2>1, <2>2, <2>3, <2>4, <2>5 DEF Next
<1> QED BY <1>1, <1>2, PTL DEF Spec

\* get_next_upload_segment cuts the segments of an upload from a copy of the
\* object: a client receives the value the object had when the upload began,
\* whatever else the clients send and write.
THEOREM UploadsAreUntorn == Spec => []UploadUntorn
<1>1. ServerInv => UploadUntorn
  <2> SUFFICES ASSUME ServerInv, NEW c \in Clients
               PROVE  IF Uploading(c) THEN LET x == conns[c].x
                                           IN /\ x.total = Len(snapshot[c])
                                              /\ sent[c] = SubSeq(snapshot[c], 1, x.off)
                      ELSE sent[c] = snapshot[c]
    BY DEF UploadUntorn
  <2>1. Accounted(HandlerOf(conns, c), sent[c], snapshot[c], timeouts[c], allowed[c])
    BY DEF ServerInv
  <2>2. CASE Uploading(c)
    <3>1. HandlerOf(conns, c) = conns[c] /\ conns[c].st = "SegmentedUpload"
      BY <2>2 DEF Uploading, HandlerOf
    <3>2. Busy(conns[c]) /\ conns[c].x.buf = snapshot[c]
          /\ sent[c] = SubSeq(snapshot[c], 1, conns[c].x.off)
      BY <2>1, <3>1 DEF Accounted, Idle
    <3>3. conns[c].x.total = Len(snapshot[c])
      BY <3>2 DEF Busy, Running
    <3> QED BY <2>2, <3>2, <3>3
  <2>3. CASE ~Uploading(c)
    <3>1. Idle(HandlerOf(conns, c))
      <4>1. HandlerOf(conns, c) # NewHandler => c \in DOMAIN conns /\ HandlerOf(conns, c) = conns[c]
        BY DEF HandlerOf
      <4>2. HandlerOf(conns, c).st # "SegmentedUpload"
        BY <2>3, <4>1, NewIsIdle DEF Uploading
      <4> QED BY <2>1, <4>2 DEF Accounted, Busy
    <3> QED BY <2>1, <2>3, <3>1, Exclusive DEF Accounted
  <2> QED BY <2>2, <2>3
<1> QED BY <1>1, ServerInvariant, PTL

\* The branch of tick that finds no "last sent segment" is dead, and what it
\* sends again is the end of what the client was sent.
THEOREM ResendIsReady == Spec => []ResendReady
<1>1. ServerInv => ResendReady
  <2> SUFFICES ASSUME ServerInv, NEW c \in Armed(conns)
               PROVE  /\ conns[c].x.last # None
                      /\ LET p == conns[c].x.last[1].payload
                         IN p = SubSeq(sent[c], Len(sent[c]) - Len(p) + 1, Len(sent[c]))
    BY DEF ResendReady
  <2> DEFINE x == conns[c].x
             p == x.last[1].payload
  <2>1. c \in Clients /\ c \in DOMAIN conns /\ Busy(conns[c]) /\ x.last # None
    BY ArmedBusy
  <2>2. HandlerOf(conns, c) = conns[c]
    BY <2>1 DEF HandlerOf
  <2>3. Accounted(conns[c], sent[c], snapshot[c], timeouts[c], allowed[c])
    BY <2>1, <2>2 DEF ServerInv
  <2>4. x.buf = snapshot[c] /\ sent[c] = SubSeq(snapshot[c], 1, x.off)
    BY <2>1, <2>3, Exclusive DEF Accounted
  <2>5. Running(x)
    BY <2>1 DEF Busy
  <2> HIDE DEF x
  <2>6. PICK i \in 0..x.off : p = SubSeq(x.buf, i + 1, x.off)
    BY <2>1, <2>5 DEF Running, Last
  <2> DEFINE b == x.buf
             n == x.off
             s == sent[c]
  <2>7. b \in Seq(UNSIGNED8) /\ n \in Nat /\ n <= Len(b)
    BY <2>5 DEF Running
  <2>8. s = SubSeq(b, 1, n) /\ p = SubSeq(b, i + 1, n)
    BY <2>4, <2>6
  <2>11. i \in Nat /\ i <= n
    BY <2>7
  <2> HIDE DEF b, n, s, p
  <2>9. Len(s) = n /\ Len(p) = n - i /\ SubSeq(s, i + 1, n) = p
    <3>1. /\ Len(SubSeq(b, i + 1, n)) = n - i
          /\ SubSeq(SubSeq(b, 1, n), i + 1, n) = SubSeq(b, i + 1, n)
      BY ONLY <2>7, <2>11, Part
    <3>2. Len(SubSeq(b, 1, n)) = n
      BY ONLY <2>7
    <3> QED BY ONLY <2>8, <3>1, <3>2
  <2>10. Len(s) - Len(p) + 1 = i + 1
    BY ONLY <2>7, <2>9, <2>11
  <2>12. p = SubSeq(s, Len(s) - Len(p) + 1, Len(s))
    BY ONLY <2>9, <2>10
  <2> QED BY <2>1, <2>12 DEF p, s, x
<1> QED BY <1>1, ServerInvariant, PTL

\* Each deadline takes one of the retries read from 1302h with the segment, so
\* a write to 1302h never prolongs the wait for a segment on its way.
THEOREM RetriesAreBounded == Spec => []RetriesBounded
<1>1. ServerInv => RetriesBounded
  <2> SUFFICES ASSUME ServerInv, NEW c \in Clients PROVE timeouts[c] <= allowed[c]
    BY DEF RetriesBounded
  <2> DEFINE h == HandlerOf(conns, c)
  <2>1. Accounted(h, sent[c], snapshot[c], timeouts[c], allowed[c])
    BY DEF ServerInv
  <2> HIDE DEF h
  <2>2. CASE timeouts[c] = 0
    BY <2>1, <2>2 DEF Accounted
  <2>3. CASE Busy(h) /\ timeouts[c] + h.x.left <= allowed[c]
    <3>1. timeouts[c] \in Nat /\ allowed[c] \in Nat /\ h.x.left \in Nat
      BY <2>1, <2>3 DEF Accounted, Busy, Running
    <3> QED BY ONLY <2>3, <3>1
  <2> QED BY <2>1, <2>2, <2>3 DEF Accounted
<1> QED BY <1>1, ServerInvariant, PTL
=============================================================================
