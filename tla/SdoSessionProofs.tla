-------------------------- MODULE SdoSessionProofs --------------------------
(* The SDO client against a server of another make over channels that lose   *)
(* and repeat frames: for any numbers of targets, jobs and frames in flight, *)
(* any sequence number modulus and any segment size.                         *)
EXTENDS SdoSession, ObjectDictionaryProofs, SequenceTheorems, Induction

-----------------------------------------------------------------------------
(* What the server makes of the requests on their way.                      *)

\* The state after an Initialization.
Opened(m) ==
  [NoPeer EXCEPT !.open = TRUE, !.lrs = m.seq.ssn,
     !.reply = Some(Packet(Header(m.seq.ssn, "Initialization", 0, "Initialization"),
                           Reply(m.cmd.tid, <<>>)))]

\* The server f has executed m and only answers it again.
Repeated(f, m) ==
  /\ ~m.cmd.abrt /\ f.open /\ f.reply # <<>>
  /\ IF m.seq.scon = "Initialization" THEN m.cmd.id = "Nil" /\ f = Opened(m)
     ELSE m.seq.ssn = f.lrs

\* The server f executes c when it arrives.
Expected(f, c) ==
  /\ ~c.cmd.abrt /\ c.seq.ssn \in 0..SnModulus - 1
  /\ IF c.seq.scon = "Initialization" THEN c.cmd.id = "Nil"
     ELSE f.open /\ f.reply # <<>> /\ c.seq.ssn = Succ(f.lrs)

\* An abort that is the last frame of the channel u.
LastAbort(u, i) == u[i].cmd.abrt /\ u[i].cmd.id = "Nil" /\ i = Len(u)

\* Nothing in u is new to the server.
Quiet(f, u) == \A i \in DOMAIN u : Repeated(f, u[i]) \/ LastAbort(u, i)

\* c is what the server waits for, and the only request in u that is new to it.
Waiting(f, u, c) ==
  /\ Expected(f, c)
  /\ \A i \in DOMAIN u : u[i] = c \/ Repeated(f, u[i]) \/ LastAbort(u, i)
  /\ \A i, j \in DOMAIN u : i < j /\ u[i] = c => u[j] = c \/ LastAbort(u, j)

NoAbort(u) == \A i \in DOMAIN u : ~u[i].cmd.abrt

-----------------------------------------------------------------------------
(* What the writes of the jobs have come to.                                *)

\* The writes s are some of the first p of t, in order.
Embeds(s, t, p) ==
  /\ p \in 0..Len(t)
  /\ \E g \in [DOMAIN s -> 1..p] : /\ \A i \in DOMAIN s : s[i] = t[g[i]]
                                   /\ \A i, j \in DOMAIN s : i < j => g[i] < g[j]

\* c completes a write.
Final(c) == c.cmd.seg \in {"Expedited", "Complete"}
\* c carries the segment of the write w that begins at o.
End(b, o) == o + Least(SegBytes, Len(b) - o)
Carries(c, w, o) ==
  /\ c.cmd.id = "WriteByIndex" /\ c.cmd.tid = w[1]
  /\ o \in 0..Len(w[2]) /\ o < Len(w[2])
  /\ c.cmd.payload = SubSeq(w[2], o + 1, End(w[2], o))
  /\ c.cmd.size = None <=> o > 0
  /\ Final(c) <=> End(w[2], o) = Len(w[2])

\* The server has the octets of the write w before o.
Holds(f, w, o) == o > 0 => f.part = SubSeq(w[2], 1, o)

\* If c is part of a write, the server is ready for it and has executed
\* earlier writes only.
Owed(f, c, pl, dd) ==
  c.cmd.id = "WriteByIndex" =>
    \E p \in DOMAIN pl : \E o \in 0..Len(pl[p][2]) :
      Carries(c, pl[p], o) /\ Holds(f, pl[p], o) /\ Embeds(dd, pl, p - 1)

\* No request of a write is cut: get_next_download_segment sends a write of
\* up to four octets more than a segment as if it were complete.
Fits(n) == n <= SegBytes \/ n > SegBytes + 4
NoneCut == \A n \in Targets : \A j \in Jobs(n) : \A i \in DOMAIN Writes(j, 1) :
             Fits(Len(Writes(j, 1)[i][2]))

\* The job of k has the writes of the plan behind p left.
Queued(k, pl, p) ==
  k.job # None =>
    LET j == k.job[1]
    IN /\ j.n \in Nat /\ j.entries \in Seq(Entries)
       /\ \A i \in 1..Least(j.n, Len(j.entries)) :
            /\ p + i \in DOMAIN pl
            /\ pl[p + i] = <<Later(k.tid, i), EntryBytes(j.entries[i])>>
            /\ Fits(Len(pl[p + i][2]))
\* The connection k works on write p of the plan, and its job holds the next.
Loaded(k, pl, p) ==
  /\ p \in DOMAIN pl /\ pl[p] = <<k.tid, k.buf>>
  /\ k.buf \in Seq(UNSIGNED8) /\ k.buf # <<>> /\ k.total = Len(k.buf) /\ Fits(k.total)
  /\ k.off \in 0..k.total
  /\ k.tid \in 1..255
  /\ Queued(k, pl, p)

\* k has a write it has not begun, or none but maybe a read.
Ready(k, pl, dd) ==
  \/ /\ k.buf = <<>> /\ k.job = None
     /\ k.pend # None => k.pend[1].id = "ReadByIndex" /\ ~k.pend[1].abrt
  \/ \E p \in DOMAIN pl : Loaded(k, pl, p) /\ k.off = 0 /\ Embeds(dd, pl, p - 1)

-----------------------------------------------------------------------------
(* The states of a connection k with the server f, the requests u and the   *)
(* responses d on their way.                                                *)

\* The job has begun and sent nothing.
Begun(k, u, d, pl, dd) ==
  /\ k.st = "Opening" /\ k.last = None
  /\ u = <<>> /\ d = <<>>
  /\ k.ssn = 0 /\ k.lrs = SnModulus - 1
  /\ Ready(k, pl, dd)

\* The server has not seen the request k waits for.
Asking(k, f, u, d, pl, dd) ==
  k.last # None /\ \E c \in {k.last[1]} :
    /\ k.last = Some(c)
    /\ NoAbort(u) /\ Waiting(f, u, c)
    /\ k.ssn = Succ(c.seq.ssn)
    /\ \/ /\ k.st = "Opening" /\ c.seq.scon = "Initialization" /\ c.seq.ssn = 0
          /\ k.lrs = SnModulus - 1 /\ d = <<>> /\ \A i \in DOMAIN u : u[i] = c
          /\ Ready(k, pl, dd)
       \/ /\ k.st \in {"DownloadInProgress", "UploadInit", "UploadInProgress"}
          /\ c.seq.scon # "Initialization" /\ k.lrs = f.ssn /\ f.reply[1].seq.rsn = f.lrs
          /\ \A i \in DOMAIN d : d[i].seq.rsn # c.seq.ssn
          /\ IF k.st = "DownloadInProgress"
             THEN \E p \in DOMAIN pl : \E o \in 0..k.total :
                    /\ Loaded(k, pl, p) /\ Carries(c, pl[p], o) /\ k.off = End(k.buf, o)
                    /\ Holds(f, pl[p], o) /\ Embeds(dd, pl, p - 1)
             ELSE c.cmd.id # "WriteByIndex"

\* The server stands where the numbers of its last answer say.
Standing(f, u) ==
  /\ NoAbort(u) /\ Quiet(f, u)
  /\ f.open
  /\ f.reply = Some(f.reply[1]) /\ ~f.reply[1].cmd.abrt
  /\ f.reply[1].seq.rsn = f.lrs /\ f.reply[1].seq.ssn = f.ssn

\* The server has executed the request k waits for.
Replied(k, f, u, d, pl, dd) ==
  /\ Standing(f, u)
  /\ k.last # None /\ \E c \in {k.last[1]} : k.last = Some(c) /\ Repeated(f, c) /\ c.seq.ssn = f.lrs
  /\ k.ssn = Succ(f.lrs) /\ k.lrs \in 0..SnModulus - 1 /\ f.ssn = Succ(k.lrs)
  /\ \A i \in DOMAIN d : d[i].seq.rsn # f.lrs \/ d[i] = f.reply[1]
  /\ \A i, j \in DOMAIN d : i < j /\ d[i] = f.reply[1] => d[j] = f.reply[1]
  /\ \/ k.st = "Opening" /\ Ready(k, pl, dd)
     \/ k.st = "DownloadInProgress" /\ \E p \in DOMAIN pl :
          /\ Loaded(k, pl, p) /\ k.off > 0 /\ Holds(f, pl[p], k.off)
          /\ IF k.off < k.total THEN Embeds(dd, pl, p - 1)
             ELSE dd # <<>> /\ dd[Len(dd)] = pl[p] /\ Embeds(dd, pl, p)
     \/ k.st \in {"UploadInit", "UploadInProgress"}

\* k has taken the answer and has not asked again.
Released(k, f, u, d, pl, dd) ==
  /\ Standing(f, u)
  /\ k.last = None /\ k.ssn = Succ(f.lrs) /\ k.lrs = f.ssn
  /\ \A i \in DOMAIN d : d[i] = f.reply[1]
  /\ \/ k.st = "Established" /\ Ready(k, pl, dd)
     \/ k.st = "DownloadInProgress" /\ \E p \in DOMAIN pl :
          /\ Loaded(k, pl, p) /\ k.off > 0 /\ k.off < k.total
          /\ Holds(f, pl[p], k.off) /\ Embeds(dd, pl, p - 1)
     \/ k.st = "UploadInProgress"

\* The client has given up or is done; requests may still arrive.
Ended(f, u, pl, dd) ==
  Quiet(f, u) \/ \E i \in DOMAIN u : Waiting(f, u, u[i]) /\ Owed(f, u[i], pl, dd)

IsMap(f) == f = [d \in DOMAIN f |-> f[d]]
IsSeq(s) == s \in Seq({s[i] : i \in DOMAIN s})
IsPlan(pl) ==
  /\ IsSeq(pl)
  /\ \A p \in DOMAIN pl : pl[p] = <<pl[p][1], pl[p][2]>> /\ pl[p][2] \in Seq(UNSIGNED8)
IsConnection(k) ==
  /\ k \in [st : {k.st}, tid : {k.tid}, ssn : {k.ssn}, lrs : {k.lrs}, buf : {k.buf}, off : {k.off},
            total : {k.total}, armed : {k.armed}, left : {k.left}, last : {k.last}, job : {k.job},
            pend : {k.pend}]
  /\ k.left \in Nat
IsPeer(f) ==
  /\ f \in [open : {f.open}, lrs : {f.lrs}, ssn : {f.ssn}, part : {f.part}, rest : {f.rest},
            reply : {f.reply}]
  /\ f.open \in BOOLEAN /\ f.lrs \in 0..SnModulus - 1 /\ f.ssn \in 0..SnModulus - 1

Session(open, k, f, u, d, pl, dd) ==
  /\ IsPeer(f) /\ IsSeq(u) /\ IsSeq(d) /\ IsPlan(pl) /\ IsSeq(dd)
  /\ Embeds(dd, pl, Len(pl))
  /\ IF open THEN /\ IsConnection(k)
                  /\ \/ Begun(k, u, d, pl, dd)
                     \/ Asking(k, f, u, d, pl, dd)
                     \/ Replied(k, f, u, d, pl, dd)
                     \/ Released(k, f, u, d, pl, dd)
     ELSE Ended(f, u, pl, dd)

Shape ==
  /\ IsMap(ks) /\ DOMAIN ks \subseteq Targets
  /\ tid \in 0..255
  /\ make \in [Targets -> {"own", "other"}]
  /\ IsMap(up) /\ IsMap(down) /\ IsMap(oth) /\ IsMap(plan) /\ IsMap(did)
  /\ DOMAIN up = Targets /\ DOMAIN down = Targets /\ DOMAIN oth = Targets
  /\ DOMAIN plan = Targets /\ DOMAIN did = Targets
  /\ IsMap(srv) /\ DOMAIN srv = Targets
NodeInv(n) ==
  IF make[n] = "own" THEN did[n] = <<>>
  ELSE /\ srv[n] = <<>>
       /\ IF n \in DOMAIN ks
          THEN Session(TRUE, ks[n], oth[n], up[n], down[n], plan[n], did[n])
          ELSE Session(FALSE, NewConnection, oth[n], up[n], down[n], plan[n], did[n])
SessionInv == Shape /\ \A n \in Targets : NodeInv(n)

-----------------------------------------------------------------------------
(* Sequence numbers and channels.                                           *)

LEMMA SuccLemma ==
  ASSUME NEW x \in 0..SnModulus - 1
  PROVE  Succ(x) \in 0..SnModulus - 1 /\ Succ(x) # x
<1>1. SnModulus \in Nat /\ SnModulus > 1
  BY SdoAssumption
<1>2. Succ(x) = IF x = SnModulus - 1 THEN 0 ELSE x + 1
  BY <1>1 DEF Succ
<1> QED BY <1>1, <1>2

LEMMA SuccEnds ==
  Succ(SnModulus - 1) = 0 /\ 0 \in 0..SnModulus - 1 /\ SnModulus - 1 \in 0..SnModulus - 1
<1>1. SnModulus \in Nat /\ SnModulus > 1
  BY SdoAssumption
<1> QED BY <1>1 DEF Succ

LEMMA TailLemma ==
  ASSUME NEW u, IsSeq(u), u # <<>>
  PROVE  /\ IsSeq(Tail(u)) /\ Head(u) = u[1] /\ Len(u) \in Nat /\ Len(u) > 0
         /\ DOMAIN u = 1..Len(u)
         /\ Len(Tail(u)) = Len(u) - 1 /\ DOMAIN Tail(u) = 1..Len(u) - 1
         /\ \A i \in DOMAIN Tail(u) : i + 1 \in DOMAIN u /\ Tail(u)[i] = u[i + 1]
<1> DEFINE S == {u[i] : i \in DOMAIN u}
           v == Tail(u)
<1>1. u \in Seq(S)
  BY DEF IsSeq
<1> HIDE DEF S
<1>2. /\ v \in Seq(S) /\ Head(u) = u[1] /\ Len(u) \in Nat /\ Len(u) > 0 /\ DOMAIN u = 1..Len(u)
      /\ Len(v) = Len(u) - 1 /\ \A i \in 1..Len(v) : v[i] = u[i + 1]
  BY <1>1
<1> HIDE DEF v
<1>3. DOMAIN v = 1..Len(v) /\ Len(v) \in Nat
  BY <1>2
<1>4. v \in Seq({v[i] : i \in DOMAIN v})
  BY <1>2, <1>3
<1>5. IsSeq(v)
  BY <1>4 DEF IsSeq
<1> QED BY <1>2, <1>3, <1>5 DEF v

LEMMA AppendLemma ==
  ASSUME NEW u, IsSeq(u), NEW m
  PROVE  /\ IsSeq(Append(u, m)) /\ Len(u) \in Nat /\ DOMAIN u = 1..Len(u)
         /\ Len(Append(u, m)) = Len(u) + 1 /\ DOMAIN Append(u, m) = 1..Len(u) + 1
         /\ \A i \in DOMAIN u : Append(u, m)[i] = u[i]
         /\ Append(u, m)[Len(u) + 1] = m
         /\ Append(u, m) # <<>>
<1> DEFINE S == {u[i] : i \in DOMAIN u} \cup {m}
           v == Append(u, m)
<1>1. u \in Seq(S) /\ m \in S
  <2>1. u \in Seq({u[i] : i \in DOMAIN u})
    BY DEF IsSeq
  <2> QED BY <2>1
<1> HIDE DEF S
<1>2. /\ v \in Seq(S) /\ Len(u) \in Nat /\ DOMAIN u = 1..Len(u) /\ Len(v) = Len(u) + 1
      /\ v[Len(u) + 1] = m /\ \A i \in 1..Len(u) : v[i] = u[i]
  BY <1>1
<1> HIDE DEF v
<1>3. DOMAIN v = 1..Len(v) /\ Len(v) \in Nat
  BY <1>2
<1>4. v \in Seq({v[i] : i \in DOMAIN v})
  BY <1>2, <1>3
<1>5. IsSeq(v) /\ v # <<>>
  BY <1>2, <1>4 DEF IsSeq
<1> QED BY <1>2, <1>3, <1>5 DEF v
-----------------------------------------------------------------------------
(* The requests on their way.                                               *)

LEMMA QuietTail ==
  ASSUME NEW f, NEW u, IsSeq(u), u # <<>>, Quiet(f, u)
  PROVE  Quiet(f, Tail(u))
<1> DEFINE v == Tail(u)
<1>1. /\ Len(u) \in Nat /\ Len(v) = Len(u) - 1 /\ DOMAIN v = 1..Len(u) - 1
      /\ \A i \in DOMAIN v : i + 1 \in DOMAIN u /\ v[i] = u[i + 1]
  BY TailLemma
<1> HIDE DEF v
<1>2. Quiet(f, v)
  BY <1>1 DEF Quiet, LastAbort
<1> QED BY <1>2 DEF v

LEMMA WaitingTail ==
  ASSUME NEW f, NEW u, IsSeq(u), u # <<>>, NEW c, Waiting(f, u, c)
  PROVE  Waiting(f, Tail(u), c)
<1> DEFINE v == Tail(u)
<1>1. /\ Len(u) \in Nat /\ Len(v) = Len(u) - 1 /\ DOMAIN v = 1..Len(u) - 1
      /\ \A i \in DOMAIN v : i + 1 \in DOMAIN u /\ v[i] = u[i + 1]
  BY TailLemma
<1> HIDE DEF v
<1>2. \A i \in DOMAIN v : v[i] = c \/ Repeated(f, v[i]) \/ LastAbort(v, i)
  BY <1>1 DEF Waiting, LastAbort
<1>3. ASSUME NEW i \in DOMAIN v, NEW j \in DOMAIN v, i < j, v[i] = c
      PROVE  v[j] = c \/ LastAbort(v, j)
  <2>1. i + 1 \in DOMAIN u /\ j + 1 \in DOMAIN u /\ i + 1 < j + 1 /\ u[i + 1] = c
    BY <1>1, <1>3
  <2>2. u[j + 1] = c \/ LastAbort(u, j + 1)
    BY <2>1 DEF Waiting
  <2> QED BY <1>1, <2>1, <2>2 DEF LastAbort
<1>4. Waiting(f, v, c)
  BY <1>2, <1>3 DEF Waiting
<1> QED BY <1>4 DEF v

LEMMA NoAbortTail ==
  ASSUME NEW u, IsSeq(u), u # <<>>, NoAbort(u)
  PROVE  NoAbort(Tail(u))
BY TailLemma DEF NoAbort

\* A frame behind the others, or lost because the channel is full.
LEMMA FitLemma ==
  ASSUME NEW u, IsSeq(u), NEW m
  PROVE  IsSeq(Fit(u, m)) /\ (Fit(u, m) = u \/ Fit(u, m) = Append(u, m))
BY AppendLemma DEF Fit

LEMMA QuietSend ==
  ASSUME NEW f, NEW u, IsSeq(u), Quiet(f, u), NoAbort(u), NEW m, Repeated(f, m)
  PROVE  Quiet(f, Fit(u, m)) /\ NoAbort(Fit(u, m))
<1> DEFINE v == Append(u, m)
<1>1. /\ Len(u) \in Nat /\ DOMAIN u = 1..Len(u) /\ DOMAIN v = 1..Len(u) + 1
      /\ (\A i \in DOMAIN u : v[i] = u[i]) /\ v[Len(u) + 1] = m
  BY AppendLemma
<1> HIDE DEF v
<1>2. ASSUME NEW i \in DOMAIN v PROVE Repeated(f, v[i]) /\ ~v[i].cmd.abrt
  <2>1. CASE i = Len(u) + 1
    BY <1>1, <2>1 DEF Repeated
  <2>2. CASE i # Len(u) + 1
    BY <1>1, <2>2 DEF Quiet, NoAbort, LastAbort
  <2> QED BY <2>1, <2>2
<1>3. Quiet(f, v) /\ NoAbort(v)
  BY <1>2 DEF Quiet, NoAbort
<1> QED BY <1>3, FitLemma DEF v

LEMMA QuietAbort ==
  ASSUME NEW f, NEW u, IsSeq(u), Quiet(f, u), NoAbort(u), NEW m, m.cmd.abrt, m.cmd.id = "Nil"
  PROVE  Quiet(f, Fit(u, m))
<1> DEFINE v == Append(u, m)
<1>1. /\ Len(u) \in Nat /\ DOMAIN u = 1..Len(u) /\ DOMAIN v = 1..Len(u) + 1 /\ Len(v) = Len(u) + 1
      /\ (\A i \in DOMAIN u : v[i] = u[i]) /\ v[Len(u) + 1] = m
  BY AppendLemma
<1> HIDE DEF v
<1>2. ASSUME NEW i \in DOMAIN v PROVE Repeated(f, v[i]) \/ LastAbort(v, i)
  <2>1. CASE i = Len(u) + 1
    BY <1>1, <2>1 DEF LastAbort
  <2>2. CASE i # Len(u) + 1
    BY <1>1, <2>2 DEF Quiet, NoAbort, LastAbort
  <2> QED BY <2>1, <2>2
<1>3. Quiet(f, v)
  BY <1>2 DEF Quiet
<1> QED BY <1>3, FitLemma DEF v

LEMMA WaitingSend ==
  ASSUME NEW f, NEW u, IsSeq(u), NEW c, Waiting(f, u, c), NoAbort(u)
  PROVE  Waiting(f, Fit(u, c), c) /\ NoAbort(Fit(u, c))
<1> DEFINE v == Append(u, c)
<1>1. /\ Len(u) \in Nat /\ DOMAIN u = 1..Len(u) /\ DOMAIN v = 1..Len(u) + 1
      /\ (\A i \in DOMAIN u : v[i] = u[i]) /\ v[Len(u) + 1] = c
  BY AppendLemma
<1> HIDE DEF v
<1>2. ASSUME NEW i \in DOMAIN v PROVE (v[i] = c \/ Repeated(f, v[i])) /\ ~v[i].cmd.abrt
  <2>1. CASE i = Len(u) + 1
    BY <1>1, <2>1 DEF Waiting, Expected
  <2>2. CASE i # Len(u) + 1
    BY <1>1, <2>2 DEF Waiting, NoAbort, LastAbort
  <2> QED BY <2>1, <2>2
<1>3. ASSUME NEW i \in DOMAIN v, NEW j \in DOMAIN v, i < j, v[i] = c PROVE v[j] = c
  <2>1. CASE j = Len(u) + 1
    BY <1>1, <2>1
  <2>2. CASE j # Len(u) + 1
    <3>1. i \in DOMAIN u /\ j \in DOMAIN u
      BY <1>1, <1>3, <2>2
    <3>2. u[i] = c /\ u[j] = v[j]
      BY <1>1, <1>3, <3>1
    <3> QED BY <1>3, <3>1, <3>2 DEF Waiting, NoAbort, LastAbort
  <2> QED BY <2>1, <2>2
<1>4. Waiting(f, v, c) /\ NoAbort(v)
  BY <1>2, <1>3 DEF Waiting, NoAbort
<1> QED BY <1>4, FitLemma DEF v

LEMMA WaitingAbort ==
  ASSUME NEW f, NEW u, IsSeq(u), NEW c, Waiting(f, u, c), NoAbort(u),
         NEW m, m.cmd.abrt, m.cmd.id = "Nil"
  PROVE  Waiting(f, Fit(u, m), c)
<1> DEFINE v == Append(u, m)
<1>1. /\ Len(u) \in Nat /\ DOMAIN u = 1..Len(u) /\ DOMAIN v = 1..Len(u) + 1 /\ Len(v) = Len(u) + 1
      /\ (\A i \in DOMAIN u : v[i] = u[i]) /\ v[Len(u) + 1] = m
  BY AppendLemma
<1> HIDE DEF v
<1>2. ASSUME NEW i \in DOMAIN v PROVE v[i] = c \/ Repeated(f, v[i]) \/ LastAbort(v, i)
  <2>1. CASE i = Len(u) + 1
    BY <1>1, <2>1 DEF LastAbort
  <2>2. CASE i # Len(u) + 1
    BY <1>1, <2>2 DEF Waiting, NoAbort, LastAbort
  <2> QED BY <2>1, <2>2
<1>3. ASSUME NEW i \in DOMAIN v, NEW j \in DOMAIN v, i < j, v[i] = c
      PROVE  v[j] = c \/ LastAbort(v, j)
  <2>1. CASE j = Len(u) + 1
    BY <1>1, <2>1 DEF LastAbort
  <2>2. CASE j # Len(u) + 1
    <3>1. i \in DOMAIN u /\ j \in DOMAIN u
      BY <1>1, <1>3, <2>2
    <3>2. u[i] = c /\ u[j] = v[j]
      BY <1>1, <1>3, <3>1
    <3> QED BY <1>3, <3>1, <3>2 DEF Waiting, NoAbort, LastAbort
  <2> QED BY <2>1, <2>2
<1>4. Waiting(f, v, c)
  BY <1>2, <1>3 DEF Waiting
<1> QED BY <1>4, FitLemma DEF v

\* A new request behind ones the server knows.
LEMMA WaitingNew ==
  ASSUME NEW f, NEW u, IsSeq(u), Quiet(f, u), NoAbort(u), NEW c, Expected(f, c),
         ~Repeated(f, c)
  PROVE  Waiting(f, Fit(u, c), c) /\ NoAbort(Fit(u, c))
<1>1. Waiting(f, u, c)
  BY DEF Waiting, Quiet, NoAbort, LastAbort
<1> QED BY <1>1, WaitingSend

\* Once the server has executed c, nothing behind it is new.
LEMMA WaitingTaken ==
  ASSUME NEW f, NEW g, NEW u, IsSeq(u), u # <<>>, NEW c, Waiting(f, u, c), Head(u) = c,
         Repeated(g, c)
  PROVE  Quiet(g, Tail(u))
<1> DEFINE v == Tail(u)
<1>1. /\ Len(u) \in Nat /\ Len(v) = Len(u) - 1 /\ DOMAIN v = 1..Len(u) - 1 /\ u[1] = c
      /\ DOMAIN u = 1..Len(u) /\ Len(u) > 0
      /\ \A i \in DOMAIN v : i + 1 \in DOMAIN u /\ v[i] = u[i + 1]
  BY TailLemma
<1> HIDE DEF v
<1>2. ASSUME NEW i \in DOMAIN v PROVE Repeated(g, v[i]) \/ LastAbort(v, i)
  <2>1. 1 \in DOMAIN u /\ i + 1 \in DOMAIN u /\ 1 < i + 1
    BY <1>1
  <2>2. u[i + 1] = c \/ LastAbort(u, i + 1)
    BY <1>1, <2>1 DEF Waiting
  <2> QED BY <1>1, <2>2 DEF LastAbort
<1>3. Quiet(g, v)
  BY <1>2 DEF Quiet
<1> QED BY <1>3 DEF v

-----------------------------------------------------------------------------
(* The writes that were executed.                                           *)

LEMMA EmbedsMore ==
  ASSUME NEW s, NEW t, IsSeq(t), NEW p, NEW q \in 0..Len(t), Embeds(s, t, p), p <= q
  PROVE  Embeds(s, t, q)
<1>1. Len(t) \in Nat
  BY AppendLemma
<1>2. p \in Nat /\ q \in Nat /\ 1..p \subseteq 1..q
  BY <1>1 DEF Embeds
<1>3. PICK g \in [DOMAIN s -> 1..p] : /\ \A i \in DOMAIN s : s[i] = t[g[i]]
                                      /\ \A i, j \in DOMAIN s : i < j => g[i] < g[j]
  BY DEF Embeds
<1>4. g \in [DOMAIN s -> 1..q]
  BY <1>2, <1>3
<1> QED BY <1>3, <1>4 DEF Embeds

LEMMA EmbedsNext ==
  ASSUME NEW s, IsSeq(s), NEW t, IsSeq(t), NEW p \in DOMAIN t, Embeds(s, t, p - 1)
  PROVE  Embeds(Append(s, t[p]), t, p)
<1> DEFINE v == Append(s, t[p])
<1>1. /\ Len(s) \in Nat /\ DOMAIN s = 1..Len(s) /\ DOMAIN v = 1..Len(s) + 1
      /\ (\A i \in DOMAIN s : v[i] = s[i]) /\ v[Len(s) + 1] = t[p]
  BY AppendLemma
<1>2. Len(t) \in Nat /\ DOMAIN t = 1..Len(t) /\ p \in Nat /\ p > 0 /\ p <= Len(t)
  BY AppendLemma
<1> HIDE DEF v
<1>3. PICK g \in [DOMAIN s -> 1..p - 1] : /\ \A i \in DOMAIN s : s[i] = t[g[i]]
                                          /\ \A i, j \in DOMAIN s : i < j => g[i] < g[j]
  BY DEF Embeds
<1> DEFINE h == [i \in 1..Len(s) + 1 |-> IF i = Len(s) + 1 THEN p ELSE g[i]]
<1>4. h \in [DOMAIN v -> 1..p]
  BY <1>1, <1>2, <1>3
<1>5. ASSUME NEW i \in DOMAIN v PROVE v[i] = t[h[i]]
  BY <1>1, <1>3
<1>6. ASSUME NEW i \in DOMAIN v, NEW j \in DOMAIN v, i < j PROVE h[i] < h[j]
  <2>1. i \in DOMAIN s /\ h[i] = g[i] /\ g[i] \in 1..p - 1
    BY <1>1, <1>3, <1>6
  <2>2. CASE j = Len(s) + 1
    BY <1>1, <1>2, <2>1, <2>2
  <2>3. CASE j # Len(s) + 1
    BY <1>1, <1>3, <1>6, <2>1, <2>3
  <2> QED BY <2>2, <2>3
<1> HIDE DEF h
<1>7. Embeds(v, t, p)
  BY <1>2, <1>4, <1>5, <1>6 DEF Embeds
<1> QED BY <1>7 DEF v

LEMMA JoinLemma ==
  ASSUME NEW t, IsSeq(t), NEW w, IsSeq(w)
  PROVE  /\ IsSeq(t \o w) /\ Len(t) \in Nat /\ Len(w) \in Nat /\ Len(t \o w) = Len(t) + Len(w)
         /\ DOMAIN t = 1..Len(t) /\ DOMAIN w = 1..Len(w) /\ DOMAIN (t \o w) = 1..Len(t) + Len(w)
         /\ \A i \in 1..Len(t) : (t \o w)[i] = t[i]
         /\ \A i \in 1..Len(w) : (t \o w)[Len(t) + i] = w[i]
<1> DEFINE S == {t[i] : i \in DOMAIN t} \cup {w[i] : i \in DOMAIN w}
           v == t \o w
<1>1. t \in Seq(S) /\ w \in Seq(S)
  <2>1. t \in Seq({t[i] : i \in DOMAIN t}) /\ w \in Seq({w[i] : i \in DOMAIN w})
    BY DEF IsSeq
  <2> QED BY <2>1
<1> HIDE DEF S
<1>2. /\ v \in Seq(S) /\ Len(t) \in Nat /\ Len(w) \in Nat /\ Len(v) = Len(t) + Len(w)
      /\ DOMAIN t = 1..Len(t) /\ DOMAIN w = 1..Len(w)
      /\ \A i \in 1..Len(t) : v[i] = t[i]
      /\ \A i \in 1..Len(w) : v[Len(t) + i] = w[i]
  BY <1>1
<1> HIDE DEF v
<1>3. DOMAIN v = 1..Len(v) /\ Len(v) \in Nat
  BY <1>2
<1>4. v \in Seq({v[i] : i \in DOMAIN v})
  BY <1>2, <1>3
<1>5. IsSeq(v)
  BY <1>4 DEF IsSeq
<1> QED BY <1>2, <1>3, <1>5 DEF v

LEMMA EmbedsPlan ==
  ASSUME NEW s, NEW t, IsSeq(t), NEW w, IsSeq(w), NEW p, Embeds(s, t, p)
  PROVE  Embeds(s, t \o w, p)
<1> DEFINE v == t \o w
<1>1. /\ Len(t) \in Nat /\ Len(w) \in Nat /\ Len(v) = Len(t) + Len(w)
      /\ \A i \in 1..Len(t) : v[i] = t[i]
  BY JoinLemma
<1> HIDE DEF v
<1>2. PICK g \in [DOMAIN s -> 1..p] : /\ \A i \in DOMAIN s : s[i] = t[g[i]]
                                      /\ \A i, j \in DOMAIN s : i < j => g[i] < g[j]
  BY DEF Embeds
<1>3. p \in 0..Len(t) /\ p \in 0..Len(v) /\ \A i \in 1..p : i \in 1..Len(t)
  BY <1>1 DEF Embeds
<1>4. \A i \in DOMAIN s : s[i] = v[g[i]]
  BY <1>1, <1>2, <1>3
<1>5. Embeds(s, v, p)
  BY <1>2, <1>3, <1>4 DEF Embeds
<1> QED BY <1>5 DEF v

LEMMA EmbedsWithin ==
  ASSUME NEW s, NEW t, IsSeq(t), Embeds(s, t, Len(t))
  PROVE  Within(s, t)
<1>1. DOMAIN t = 1..Len(t)
  BY AppendLemma
<1> QED BY <1>1 DEF Embeds, Within

-----------------------------------------------------------------------------
(* The server of another make.                                              *)

LEMMA ServeRepeated ==
  ASSUME NEW f, IsPeer(f), NEW m, Repeated(f, m), NEW big
  PROVE  /\ Fresh(f, m) => OtherAnswer(f, m, big) = f /\ m.cmd.id # "WriteByIndex"
         /\ Fresh(f, m) \/ (f.open /\ m.seq.ssn = f.lrs)
<1>1. CASE m.seq.scon = "Initialization"
  <2>1. OtherAnswer(f, m, big) = Opened(m)
    BY <1>1 DEF OtherAnswer, Opened, Repeated
  <2> QED BY <1>1, <2>1 DEF Repeated, Fresh
<1>2. CASE m.seq.scon # "Initialization"
  <2>1. m.seq.ssn = f.lrs /\ Succ(f.lrs) # f.lrs
    BY <1>2, SuccLemma DEF Repeated, IsPeer
  <2> QED BY <1>2, <2>1 DEF Repeated, Fresh
<1> QED BY <1>1, <1>2

LEMMA NoPeerLemma == IsPeer(NoPeer)
<1>1. 0 \in 0..SnModulus - 1
  BY SuccEnds
<1>2. NoPeer.open \in BOOLEAN /\ NoPeer.lrs = 0 /\ NoPeer.ssn = 0
  BY DEF NoPeer
<1>3. NoPeer \in [open : {NoPeer.open}, lrs : {NoPeer.lrs}, ssn : {NoPeer.ssn},
                  part : {NoPeer.part}, rest : {NoPeer.rest}, reply : {NoPeer.reply}]
  BY DEF NoPeer
<1> QED BY <1>1, <1>2, <1>3 DEF IsPeer

LEMMA ServeAbort ==
  ASSUME NEW f, NEW m, m.cmd.abrt, NEW big
  PROVE  Fresh(f, m) /\ OtherAnswer(f, m, big) = NoPeer
BY DEF Fresh, OtherAnswer

\* The server's connection after it answered q with the command a.
LEMMA AnsweredLemma ==
  ASSUME NEW f, IsPeer(f), f.open, NEW q, q.ssn \in 0..SnModulus - 1, NEW a, ~a.abrt,
         NEW part, NEW rest
  PROVE  \E g \in {Answered(f, q, a, part, rest)} :
           /\ IsPeer(g) /\ g.open /\ g.lrs = q.ssn /\ g.ssn = Succ(f.ssn) /\ g.part = part
           /\ g.reply # <<>> /\ g.reply = Some(g.reply[1]) /\ ~g.reply[1].cmd.abrt
           /\ g.reply[1].seq.rsn = q.ssn /\ g.reply[1].seq.ssn = g.ssn
<1> DEFINE n == Succ(f.ssn)
           r == Packet(Header(q.ssn, "ConnectionValid", n, "ConnectionValid"), a)
           g == Answered(f, q, a, part, rest)
<1>1. n \in 0..SnModulus - 1
  BY SuccLemma DEF IsPeer
<1>2. r.seq.rsn = q.ssn /\ r.seq.ssn = n /\ r.cmd = a
  BY DEF Packet, Header
<1>3. g \in [open : {f.open}, lrs : {q.ssn}, ssn : {n}, part : {part}, rest : {rest},
             reply : {<<r>>}]
  <2> DEFINE h == [f EXCEPT !.lrs = q.ssn, !.ssn = Succ(@), !.part = part, !.rest = rest]
  <2>1. h \in [open : {f.open}, lrs : {q.ssn}, ssn : {n}, part : {part}, rest : {rest},
               reply : {f.reply}]
    BY DEF IsPeer
  <2>2. g = [h EXCEPT !.reply = Some(Packet(Header(q.ssn, "ConnectionValid", h.ssn, "ConnectionValid"), a))]
    BY DEF Answered
  <2> HIDE DEF h, g
  <2>3. h.ssn = n
    BY <2>1
  <2>4. g = [h EXCEPT !.reply = Some(r)]
    BY <2>2, <2>3
  <2> HIDE DEF r, n
  <2> QED BY <2>1, <2>4 DEF Some
<1> HIDE DEF n, r, g
<1>8. g.open = f.open
  BY <1>3
<1>4. g.reply[1] = r
  BY <1>3
<1>5. IsPeer(g)
  BY <1>1, <1>3, <1>8 DEF IsPeer
<1>6. n = Succ(f.ssn)
  BY DEF n
<1>7. /\ g.open /\ g.lrs = q.ssn /\ g.ssn = Succ(f.ssn) /\ g.part = part
      /\ g.reply # <<>> /\ g.reply = Some(g.reply[1])
  BY <1>3, <1>6, <1>8 DEF Some
<1> QED BY <1>2, <1>3, <1>4, <1>5, <1>7 DEF g

LEMMA ServeNew ==
  ASSUME NEW f, IsPeer(f), NEW c, Expected(f, c), NEW big
  PROVE  /\ Fresh(f, c)
         /\ \E g \in {OtherAnswer(f, c, big)} :
              /\ IsPeer(g) /\ g.open /\ g.lrs = c.seq.ssn
              /\ g.ssn = IF c.seq.scon = "Initialization" THEN 0 ELSE Succ(f.ssn)
              /\ g.reply # <<>> /\ g.reply = Some(g.reply[1]) /\ ~g.reply[1].cmd.abrt
              /\ g.reply[1].seq.rsn = g.lrs /\ g.reply[1].seq.ssn = g.ssn
              /\ Repeated(g, c)
              /\ c.cmd.id = "WriteByIndex" =>
                   g.part = IF c.cmd.size # None THEN c.cmd.payload ELSE f.part \o c.cmd.payload
<1> DEFINE g == OtherAnswer(f, c, big)
<1>1. Fresh(f, c) /\ ~c.cmd.abrt /\ c.seq.ssn \in 0..SnModulus - 1
  BY DEF Expected, Fresh
<1>2. CASE c.seq.scon = "Initialization"
  <2> DEFINE r == Packet(Header(c.seq.ssn, "Initialization", 0, "Initialization"), Reply(c.cmd.tid, <<>>))
  <2>1. g = Opened(c)
    BY <1>1, <1>2 DEF OtherAnswer, Opened
  <2>2. r.seq.rsn = c.seq.ssn /\ r.seq.ssn = 0 /\ ~r.cmd.abrt
    BY DEF Packet, Header, Reply, Command
  <2>3. g = [open |-> TRUE, lrs |-> c.seq.ssn, ssn |-> 0, part |-> <<>>, rest |-> 0, reply |-> <<r>>]
    BY <2>1 DEF Opened, NoPeer, Some
  <2> HIDE DEF r, g
  <2>4. g.reply[1] = r
    BY <2>3
  <2>5. IsPeer(g)
    BY <1>1, <2>3, SuccEnds DEF IsPeer
  <2>6. c.cmd.id # "WriteByIndex"
    BY <1>2 DEF Expected
  <2>7. Repeated(g, c)
    BY <1>1, <1>2, <2>1, <2>3 DEF Repeated, Expected
  <2>8. /\ g.open /\ g.lrs = c.seq.ssn /\ g.ssn = 0 /\ g.reply # <<>> /\ g.reply = Some(g.reply[1])
    BY <2>3 DEF Some
  <2> QED BY <1>1, <1>2, <2>2, <2>4, <2>5, <2>6, <2>7, <2>8 DEF g
<1>3. CASE c.seq.scon # "Initialization"
  <2>1. f.open
    BY <1>3 DEF Expected
  <2>2. PICK a, part, rest :
          /\ g = Answered(f, c.seq, a, part, rest) /\ ~a.abrt
          /\ c.cmd.id = "WriteByIndex" =>
               part = IF c.cmd.size # None THEN c.cmd.payload ELSE f.part \o c.cmd.payload
    <3>1. \A t, p : ~Reply(t, p).abrt
      BY DEF Reply, Command
    <3>2. \A t, seg, size : ~Command(t, TRUE, FALSE, seg, "ReadByIndex", size, <<1>>).abrt
      BY DEF Command
    <3>3. CASE c.cmd.id = "WriteByIndex"
      <4>1. g = Answered(f, c.seq, Reply(c.cmd.tid, <<>>),
                         IF c.cmd.size # None THEN c.cmd.payload ELSE f.part \o c.cmd.payload, 0)
        BY <1>1, <1>3, <3>3 DEF OtherAnswer
      <4> QED BY <3>1, <4>1
    <3>4. CASE c.cmd.id # "WriteByIndex"
      <4> DEFINE D(seg, size) == Command(c.cmd.tid, TRUE, FALSE, seg, "ReadByIndex", size, <<1>>)
      <4>1. \/ g = Answered(f, c.seq, Reply(c.cmd.tid, <<1>>), <<>>, 0)
            \/ g = Answered(f, c.seq, D("Initiate", Some(3)), <<>>, 2)
            \/ g = Answered(f, c.seq, D("Segment", None), <<>>, f.rest - 1)
            \/ g = Answered(f, c.seq, D("Complete", None), <<>>, 0)
        BY <1>1, <1>3, <3>4 DEF OtherAnswer
      <4>2. \A seg, size : ~D(seg, size).abrt
        BY <3>2
      <4> HIDE DEF D, g
      <4> QED BY <3>1, <3>4, <4>1, <4>2
    <3> QED BY <3>3, <3>4
  <2> HIDE DEF g
  <2>3. /\ IsPeer(g) /\ g.open /\ g.lrs = c.seq.ssn /\ g.ssn = Succ(f.ssn) /\ g.part = part
        /\ g.reply # <<>> /\ g.reply = Some(g.reply[1]) /\ ~g.reply[1].cmd.abrt
        /\ g.reply[1].seq.rsn = c.seq.ssn /\ g.reply[1].seq.ssn = g.ssn
    BY <1>1, <2>1, <2>2, AnsweredLemma
  <2>4. Repeated(g, c)
    BY <1>1, <1>3, <2>3 DEF Repeated
  <2> QED BY <1>1, <1>3, <2>2, <2>3, <2>4 DEF g
<1> QED BY <1>2, <1>3

\* The server g holds what f held with the octets of c.
Joins(f, g, c) ==
  g.part = IF c.cmd.size # None THEN c.cmd.payload ELSE f.part \o c.cmd.payload

\* What the server holds of a write after a segment of it.
LEMMA SegmentHeld ==
  ASSUME NEW f, NEW w, w[2] \in Seq(UNSIGNED8), NEW c, NEW o, Carries(c, w, o), Holds(f, w, o),
         NEW g, Joins(f, g, c)
  PROVE  /\ End(w[2], o) \in 0..Len(w[2]) /\ End(w[2], o) > o
         /\ g.part = SubSeq(w[2], 1, End(w[2], o))
         /\ (Final(c) <=> g.part = w[2])
<1> DEFINE b == w[2]
           e == End(b, o)
<1>0. SegBytes \in Nat /\ SegBytes > 0
  BY SdoAssumption
<1>1. b \in Seq(UNSIGNED8) /\ Len(b) \in Nat /\ o \in 0..Len(b) /\ o < Len(b)
  BY DEF Carries
<1>2. e \in 0..Len(b) /\ e > o
  BY <1>0, <1>1 DEF End, Least
<1>3. /\ c.cmd.payload = SubSeq(b, o + 1, e) /\ (c.cmd.size = None <=> o > 0)
      /\ (Final(c) <=> e = Len(b)) /\ (o > 0 => f.part = SubSeq(b, 1, o))
  BY DEF Carries, Holds
<1> HIDE DEF b, e
<1>4. g.part = SubSeq(b, 1, e)
  <2>1. CASE o = 0
    <3>1. c.cmd.size # None /\ o + 1 = 1
      BY <1>3, <2>1
    <3> QED BY <1>3, <3>1 DEF Joins
  <2>2. CASE o > 0
    <3>1. g.part = SubSeq(b, 1, o) \o SubSeq(b, o + 1, e)
      BY <1>3, <2>2 DEF Joins
    <3>2. SubSeq(b, 1, o) \o SubSeq(b, o + 1, e) = SubSeq(b, 1, e)
      BY <1>1, <1>2, <2>2
    <3> QED BY <3>1, <3>2
  <2>3. o = 0 \/ o > 0
    BY ONLY <1>1
  <2> QED BY <2>1, <2>2, <2>3
<1>5. e = Len(b) <=> SubSeq(b, 1, e) = b
  BY <1>1, <1>2
<1> QED BY <1>2, <1>3, <1>4, <1>5 DEF b, e

-----------------------------------------------------------------------------
(* Steps that change the channels only.                                     *)

\* The two connections differ in their deadline at most.
Alike(k, h) ==
  /\ h.st = k.st /\ h.tid = k.tid /\ h.ssn = k.ssn /\ h.lrs = k.lrs /\ h.buf = k.buf
  /\ h.off = k.off /\ h.total = k.total /\ h.last = k.last /\ h.job = k.job /\ h.pend = k.pend

LEMMA LoadedAlike ==
  ASSUME NEW k, NEW h, NEW pl, NEW p, Loaded(k, pl, p),
         h.tid = k.tid, h.buf = k.buf, h.off = k.off, h.total = k.total, h.job = k.job
  PROVE  Loaded(h, pl, p)
BY DEF Loaded, Queued

LEMMA ReadyAlike ==
  ASSUME NEW k, NEW h, NEW pl, NEW dd, Ready(k, pl, dd),
         h.tid = k.tid, h.buf = k.buf, h.off = k.off, h.total = k.total, h.job = k.job,
         h.pend = k.pend
  PROVE  Ready(h, pl, dd)
<1>1. CASE k.buf = <<>> /\ k.job = None /\ (k.pend # None => k.pend[1].id = "ReadByIndex" /\ ~k.pend[1].abrt)
  BY <1>1 DEF Ready
<1>2. CASE \E p \in DOMAIN pl : Loaded(k, pl, p) /\ k.off = 0 /\ Embeds(dd, pl, p - 1)
  <2>1. PICK p \in DOMAIN pl : Loaded(k, pl, p) /\ k.off = 0 /\ Embeds(dd, pl, p - 1)
    BY <1>2
  <2>2. Loaded(h, pl, p)
    BY <2>1, LoadedAlike
  <2> QED BY <2>1, <2>2 DEF Ready
<1> QED BY <1>1, <1>2 DEF Ready

LEMMA AskingFrames ==
  ASSUME NEW k, NEW f, NEW u, NEW d, NEW pl, NEW dd, Asking(k, f, u, d, pl, dd),
         NEW h, Alike(k, h), NEW v, NoAbort(v), Waiting(f, v, k.last[1]),
         (\A i \in DOMAIN u : u[i] = k.last[1]) => \A i \in DOMAIN v : v[i] = k.last[1],
         NEW e, d = <<>> => e = <<>>,
         k.st # "Opening" /\ (\A i \in DOMAIN d : d[i].seq.rsn # k.last[1].seq.ssn)
           => \A i \in DOMAIN e : e[i].seq.rsn # k.last[1].seq.ssn
  PROVE  Asking(h, f, v, e, pl, dd)
<1> DEFINE c == k.last[1]
<1>1. /\ k.last # None /\ k.last = Some(c) /\ k.ssn = Succ(c.seq.ssn)
      /\ h.last = k.last /\ h.ssn = k.ssn /\ h.st = k.st /\ h.lrs = k.lrs
      /\ h.buf = k.buf /\ h.off = k.off /\ h.total = k.total
  BY DEF Asking, Alike
<1>2. CASE /\ k.st = "Opening" /\ c.seq.scon = "Initialization" /\ c.seq.ssn = 0
           /\ k.lrs = SnModulus - 1 /\ d = <<>> /\ \A i \in DOMAIN u : u[i] = c
           /\ Ready(k, pl, dd)
  <2>1. Ready(h, pl, dd)
    BY <1>2, ReadyAlike DEF Alike
  <2> QED BY <1>1, <1>2, <2>1 DEF Asking
<1>3. CASE /\ k.st \in {"DownloadInProgress", "UploadInit", "UploadInProgress"}
           /\ c.seq.scon # "Initialization" /\ k.lrs = f.ssn /\ f.reply[1].seq.rsn = f.lrs
           /\ \A i \in DOMAIN d : d[i].seq.rsn # c.seq.ssn
           /\ IF k.st = "DownloadInProgress"
              THEN \E p \in DOMAIN pl : \E o \in 0..k.total :
                     /\ Loaded(k, pl, p) /\ Carries(c, pl[p], o) /\ k.off = End(k.buf, o)
                     /\ Holds(f, pl[p], o) /\ Embeds(dd, pl, p - 1)
              ELSE c.cmd.id # "WriteByIndex"
  <2>1. \A i \in DOMAIN e : e[i].seq.rsn # c.seq.ssn
    BY <1>3
  <2>2. CASE k.st = "DownloadInProgress"
    <3>1. PICK p \in DOMAIN pl, o \in 0..k.total :
            /\ Loaded(k, pl, p) /\ Carries(c, pl[p], o) /\ k.off = End(k.buf, o)
            /\ Holds(f, pl[p], o) /\ Embeds(dd, pl, p - 1)
      BY <1>3, <2>2
    <3>2. Loaded(h, pl, p)
      BY <3>1, LoadedAlike DEF Alike
    <3> HIDE DEF c
    <3>3. \E q \in DOMAIN pl : \E o1 \in 0..h.total :
            /\ Loaded(h, pl, q) /\ Carries(c, pl[q], o1) /\ h.off = End(h.buf, o1)
            /\ Holds(f, pl[q], o1) /\ Embeds(dd, pl, q - 1)
      BY <1>1, <3>1, <3>2
    <3>4. h.last[1] = c /\ NoAbort(v) /\ Waiting(f, v, c)
      BY <1>1 DEF c
    <3> QED BY <1>1, <1>3, <2>1, <2>2, <3>3, <3>4 DEF Asking
  <2>3. CASE k.st # "DownloadInProgress"
    BY <1>1, <1>3, <2>1, <2>3 DEF Asking
  <2> QED BY <2>2, <2>3
<1> QED BY <1>2, <1>3 DEF Asking

LEMMA RepliedFrames ==
  ASSUME NEW k, NEW f, NEW u, NEW d, NEW pl, NEW dd, Replied(k, f, u, d, pl, dd),
         NEW h, Alike(k, h), NEW v, NoAbort(v), Quiet(f, v),
         NEW e, \A i \in DOMAIN e : e[i].seq.rsn # f.lrs \/ e[i] = f.reply[1],
         \A i, j \in DOMAIN e : i < j /\ e[i] = f.reply[1] => e[j] = f.reply[1]
  PROVE  Replied(h, f, v, e, pl, dd)
<1> DEFINE c == k.last[1]
<1>1. /\ h.last = k.last /\ h.ssn = k.ssn /\ h.st = k.st /\ h.lrs = k.lrs
      /\ h.buf = k.buf /\ h.off = k.off /\ h.total = k.total
  BY DEF Alike
<1>2. /\ Standing(f, v) /\ h.last # None /\ h.last = Some(h.last[1]) /\ Repeated(f, h.last[1])
      /\ h.last[1].seq.ssn = f.lrs
      /\ h.ssn = Succ(f.lrs) /\ h.lrs \in 0..SnModulus - 1 /\ f.ssn = Succ(h.lrs)
  BY <1>1 DEF Replied, Standing
<1>3. CASE k.st = "Opening" /\ Ready(k, pl, dd)
  <2>1. Ready(h, pl, dd)
    BY <1>3, ReadyAlike DEF Alike
  <2> QED BY <1>1, <1>2, <1>3, <2>1 DEF Replied
<1>4. CASE k.st = "DownloadInProgress" /\ \E p \in DOMAIN pl :
             /\ Loaded(k, pl, p) /\ k.off > 0 /\ Holds(f, pl[p], k.off)
             /\ IF k.off < k.total THEN Embeds(dd, pl, p - 1)
                ELSE dd # <<>> /\ dd[Len(dd)] = pl[p] /\ Embeds(dd, pl, p)
  <2>1. PICK p \in DOMAIN pl :
             /\ Loaded(k, pl, p) /\ k.off > 0 /\ Holds(f, pl[p], k.off)
             /\ IF k.off < k.total THEN Embeds(dd, pl, p - 1)
                ELSE dd # <<>> /\ dd[Len(dd)] = pl[p] /\ Embeds(dd, pl, p)
    BY <1>4
  <2>2. Loaded(h, pl, p)
    BY <2>1, LoadedAlike DEF Alike
  <2> QED BY <1>1, <1>2, <1>4, <2>1, <2>2 DEF Replied
<1>5. CASE k.st \in {"UploadInit", "UploadInProgress"}
  BY <1>1, <1>2, <1>5 DEF Replied
<1> QED BY <1>3, <1>4, <1>5 DEF Replied

LEMMA ReleasedFrames ==
  ASSUME NEW k, NEW f, NEW u, NEW d, NEW pl, NEW dd, Released(k, f, u, d, pl, dd),
         NEW h, Alike(k, h), NEW v, NoAbort(v), Quiet(f, v),
         NEW e, \A i \in DOMAIN e : e[i] = f.reply[1]
  PROVE  Released(h, f, v, e, pl, dd)
<1>1. /\ h.last = k.last /\ h.ssn = k.ssn /\ h.st = k.st /\ h.lrs = k.lrs
      /\ h.buf = k.buf /\ h.off = k.off /\ h.total = k.total
  BY DEF Alike
<1>2. /\ Standing(f, v) /\ h.last = None /\ h.ssn = Succ(f.lrs) /\ h.lrs = f.ssn
  BY <1>1 DEF Released, Standing
<1>3. CASE k.st = "Established" /\ Ready(k, pl, dd)
  <2>1. Ready(h, pl, dd)
    BY <1>3, ReadyAlike DEF Alike
  <2> QED BY <1>1, <1>2, <1>3, <2>1 DEF Released
<1>4. CASE k.st = "DownloadInProgress" /\ \E p \in DOMAIN pl :
             /\ Loaded(k, pl, p) /\ k.off > 0 /\ k.off < k.total
             /\ Holds(f, pl[p], k.off) /\ Embeds(dd, pl, p - 1)
  <2>1. PICK p \in DOMAIN pl :
             /\ Loaded(k, pl, p) /\ k.off > 0 /\ k.off < k.total
             /\ Holds(f, pl[p], k.off) /\ Embeds(dd, pl, p - 1)
    BY <1>4
  <2>2. Loaded(h, pl, p)
    BY <2>1, LoadedAlike DEF Alike
  <2> QED BY <1>1, <1>2, <1>4, <2>1, <2>2 DEF Released
<1>5. CASE k.st = "UploadInProgress"
  BY <1>1, <1>2, <1>5 DEF Released
<1> QED BY <1>3, <1>4, <1>5 DEF Released

LEMMA BegunAlike ==
  ASSUME NEW k, NEW u, NEW d, NEW pl, NEW dd, Begun(k, u, d, pl, dd), NEW h, Alike(k, h)
  PROVE  Begun(h, u, d, pl, dd)
<1>1. Ready(h, pl, dd)
  BY ReadyAlike DEF Begun, Alike
<1> QED BY <1>1 DEF Begun, Alike

\* A request the server has not seen, or nothing new.
LEMMA EndedFrom ==
  ASSUME NEW f, NEW u, NEW c, NEW pl, NEW dd, Waiting(f, u, c), Owed(f, c, pl, dd)
  PROVE  Ended(f, u, pl, dd)
<1>1. CASE \E i \in DOMAIN u : u[i] = c
  BY <1>1 DEF Ended
<1>2. CASE ~\E i \in DOMAIN u : u[i] = c
  <2>1. Quiet(f, u)
    BY <1>2 DEF Quiet, Waiting
  <2> QED BY <2>1 DEF Ended
<1> QED BY <1>1, <1>2

LEMMA AskingOwed ==
  ASSUME NEW k, NEW f, NEW u, NEW d, NEW pl, NEW dd, Asking(k, f, u, d, pl, dd)
  PROVE  Owed(f, k.last[1], pl, dd)
<1> DEFINE c == k.last[1]
<1>1. CASE c.cmd.id # "WriteByIndex"
  BY <1>1 DEF Owed
<1>2. CASE c.cmd.id = "WriteByIndex"
  <2>1. c.seq.scon # "Initialization"
    BY <1>2 DEF Asking, Waiting, Expected
  <2>2. PICK p \in DOMAIN pl, o \in 0..k.total :
          /\ Loaded(k, pl, p) /\ Carries(c, pl[p], o) /\ k.off = End(k.buf, o)
          /\ Holds(f, pl[p], o) /\ Embeds(dd, pl, p - 1)
    BY <1>2, <2>1 DEF Asking
  <2>3. k.total = Len(pl[p][2])
    BY <2>2 DEF Loaded
  <2> HIDE DEF c
  <2>4. Owed(f, c, pl, dd)
    BY <2>2, <2>3 DEF Owed
  <2> QED BY <2>4 DEF c
<1> QED BY <1>1, <1>2

LEMMA AlikeSelf == \A k : Alike(k, k)
BY DEF Alike

\* The request that is lost may be the one the server waits for.
LEMMA LostRequest ==
  ASSUME NEW open, NEW k, NEW f, NEW u, NEW d, NEW pl, NEW dd,
         Session(open, k, f, u, d, pl, dd), u # <<>>
  PROVE  Session(open, k, f, Tail(u), d, pl, dd)
<1> DEFINE v == Tail(u)
<1>1. IsSeq(u) /\ IsSeq(v)
  BY TailLemma DEF Session
<1>2. \A i \in DOMAIN v : i + 1 \in DOMAIN u /\ v[i] = u[i + 1]
  BY <1>1, TailLemma
<1>3. Quiet(f, u) => Quiet(f, v)
  BY <1>1, QuietTail
<1>4. NoAbort(u) => NoAbort(v)
  BY <1>1, NoAbortTail
<1>5. \A c : Waiting(f, u, c) => Waiting(f, v, c)
  BY <1>1, WaitingTail
<1> HIDE DEF v
<1>6. CASE open
  <2>1. ~Begun(k, u, d, pl, dd)
    BY DEF Begun
  <2>2. CASE Asking(k, f, u, d, pl, dd)
    <3>1. NoAbort(v) /\ Waiting(f, v, k.last[1])
      BY <1>4, <1>5, <2>2 DEF Asking
    <3>2. (\A i \in DOMAIN u : u[i] = k.last[1]) => \A i \in DOMAIN v : v[i] = k.last[1]
      BY <1>2
    <3>3. Asking(k, f, v, d, pl, dd)
      BY <2>2, <3>1, <3>2, AskingFrames, AlikeSelf
    <3> QED BY <1>1, <1>6, <3>3 DEF Session, v
  <2>3. CASE Replied(k, f, u, d, pl, dd)
    <3>1. /\ NoAbort(v) /\ Quiet(f, v)
          /\ \A i \in DOMAIN d : d[i].seq.rsn # f.lrs \/ d[i] = f.reply[1]
          /\ \A i, j \in DOMAIN d : i < j /\ d[i] = f.reply[1] => d[j] = f.reply[1]
      BY <1>3, <1>4, <2>3 DEF Replied, Standing
    <3>2. Replied(k, f, v, d, pl, dd)
      BY <2>3, <3>1, RepliedFrames, AlikeSelf
    <3> QED BY <1>1, <1>6, <3>2 DEF Session, v
  <2>4. CASE Released(k, f, u, d, pl, dd)
    <3>1. NoAbort(v) /\ Quiet(f, v) /\ \A i \in DOMAIN d : d[i] = f.reply[1]
      BY <1>3, <1>4, <2>4 DEF Released, Standing
    <3>2. Released(k, f, v, d, pl, dd)
      BY <2>4, <3>1, ReleasedFrames, AlikeSelf
    <3> QED BY <1>1, <1>6, <3>2 DEF Session, v
  <2> QED BY <1>6, <2>1, <2>2, <2>3, <2>4 DEF Session
<1>7. CASE ~open
  <2>1. Ended(f, v, pl, dd)
    <3>1. CASE Quiet(f, u)
      BY <1>3, <3>1 DEF Ended
    <3>2. CASE \E i \in DOMAIN u : Waiting(f, u, u[i]) /\ Owed(f, u[i], pl, dd)
      BY <1>5, <3>2, EndedFrom
    <3> QED BY <1>7, <3>1, <3>2 DEF Session, Ended
  <2> QED BY <1>1, <1>7, <2>1 DEF Session, v
<1> QED BY <1>6, <1>7

LEMMA LostResponse ==
  ASSUME NEW open, NEW k, NEW f, NEW u, NEW d, NEW pl, NEW dd,
         Session(open, k, f, u, d, pl, dd), d # <<>>
  PROVE  Session(open, k, f, u, Tail(d), pl, dd)
<1> DEFINE e == Tail(d)
<1>1. IsSeq(d) /\ IsSeq(e)
  BY TailLemma DEF Session
<1>2. \A i \in DOMAIN e : i \in Int /\ i + 1 \in DOMAIN d /\ e[i] = d[i + 1]
  BY <1>1, TailLemma
<1> HIDE DEF e
<1>6. CASE open
  <2>1. ~Begun(k, u, d, pl, dd)
    BY DEF Begun
  <2>2. CASE Asking(k, f, u, d, pl, dd)
    <3>1. NoAbort(u) /\ Waiting(f, u, k.last[1])
      BY <2>2 DEF Asking
    <3>2. (\A i \in DOMAIN d : d[i].seq.rsn # k.last[1].seq.ssn)
            => \A i \in DOMAIN e : e[i].seq.rsn # k.last[1].seq.ssn
      BY <1>2
    <3>3. Asking(k, f, u, e, pl, dd)
      BY <2>2, <3>1, <3>2, AskingFrames, AlikeSelf
    <3> QED BY <1>1, <1>6, <3>3 DEF Session, e
  <2>3. CASE Replied(k, f, u, d, pl, dd)
    <3>1. \A i \in DOMAIN e : e[i].seq.rsn # f.lrs \/ e[i] = f.reply[1]
      BY <1>2, <2>3 DEF Replied
    <3>2. ASSUME NEW i \in DOMAIN e, NEW j \in DOMAIN e, i < j, e[i] = f.reply[1]
          PROVE  e[j] = f.reply[1]
      <4>1. i + 1 < j + 1 /\ i + 1 \in DOMAIN d /\ j + 1 \in DOMAIN d
        BY <1>2, <3>2
      <4> QED BY <1>2, <2>3, <3>2, <4>1 DEF Replied
    <3>3. NoAbort(u) /\ Quiet(f, u)
      BY <2>3 DEF Replied, Standing
    <3>4. Replied(k, f, u, e, pl, dd)
      BY <2>3, <3>1, <3>2, <3>3, RepliedFrames, AlikeSelf
    <3> QED BY <1>1, <1>6, <3>4 DEF Session, e
  <2>4. CASE Released(k, f, u, d, pl, dd)
    <3>1. NoAbort(u) /\ Quiet(f, u) /\ \A i \in DOMAIN e : e[i] = f.reply[1]
      BY <1>2, <2>4 DEF Released, Standing
    <3>2. Released(k, f, u, e, pl, dd)
      BY <2>4, <3>1, ReleasedFrames, AlikeSelf
    <3> QED BY <1>1, <1>6, <3>2 DEF Session, e
  <2> QED BY <1>6, <2>1, <2>2, <2>3, <2>4 DEF Session
<1>7. CASE ~open
  BY <1>1, <1>7 DEF Session, e
<1> QED BY <1>6, <1>7

\* The client is done with its job.
LEMMA Closed ==
  ASSUME NEW k, NEW f, NEW u, NEW d, NEW pl, NEW dd, Session(TRUE, k, f, u, d, pl, dd), NEW h
  PROVE  Session(FALSE, h, f, u, d, pl, dd)
<1>1. Ended(f, u, pl, dd)
  <2>1. CASE Begun(k, u, d, pl, dd)
    <3>1. Quiet(f, u)
      BY <2>1 DEF Begun, Quiet
    <3> QED BY <3>1 DEF Ended
  <2>2. CASE Asking(k, f, u, d, pl, dd)
    <3>1. Waiting(f, u, k.last[1])
      BY <2>2 DEF Asking
    <3> QED BY <2>2, <3>1, AskingOwed, EndedFrom
  <2>3. CASE Replied(k, f, u, d, pl, dd) \/ Released(k, f, u, d, pl, dd)
    BY <2>3 DEF Ended, Replied, Released, Standing
  <2> QED BY <2>1, <2>2, <2>3 DEF Session
<1> QED BY <1>1 DEF Session

\* The client gives up and says so.
LEMMA Aborted ==
  ASSUME NEW k, NEW f, NEW u, NEW d, NEW pl, NEW dd, Session(TRUE, k, f, u, d, pl, dd), NEW h,
         NEW m, m.cmd.abrt, m.cmd.id = "Nil"
  PROVE  Session(FALSE, h, f, Fit(u, m), d, pl, dd)
<1>0. IsSeq(u) /\ IsSeq(Fit(u, m))
  BY FitLemma DEF Session
<1>1. Ended(f, Fit(u, m), pl, dd)
  <2>1. CASE Begun(k, u, d, pl, dd)
    <3>1. Quiet(f, u) /\ NoAbort(u)
      BY <2>1 DEF Begun, Quiet, NoAbort
    <3> QED BY <1>0, <3>1, QuietAbort DEF Ended
  <2>2. CASE Asking(k, f, u, d, pl, dd)
    <3>1. Waiting(f, u, k.last[1]) /\ NoAbort(u)
      BY <2>2 DEF Asking
    <3>2. Waiting(f, Fit(u, m), k.last[1])
      BY <1>0, <3>1, WaitingAbort
    <3> QED BY <2>2, <3>2, AskingOwed, EndedFrom
  <2>3. CASE Replied(k, f, u, d, pl, dd) \/ Released(k, f, u, d, pl, dd)
    <3>1. Quiet(f, u) /\ NoAbort(u)
      BY <2>3 DEF Replied, Released, Standing
    <3> QED BY <1>0, <3>1, QuietAbort DEF Ended
  <2> QED BY <2>1, <2>2, <2>3 DEF Session
<1> QED BY <1>0, <1>1 DEF Session

\* A deadline passes that has nothing to repeat.
LEMMA Muted ==
  ASSUME NEW k, NEW f, NEW u, NEW d, NEW pl, NEW dd, Session(TRUE, k, f, u, d, pl, dd),
         NEW h, IsConnection(h), Alike(k, h)
  PROVE  Session(TRUE, h, f, u, d, pl, dd)
<1>1. CASE Begun(k, u, d, pl, dd)
  <2>1. Begun(h, u, d, pl, dd)
    BY <1>1, BegunAlike
  <2> QED BY <2>1 DEF Session
<1>2. CASE Asking(k, f, u, d, pl, dd)
  <2>1. NoAbort(u) /\ Waiting(f, u, k.last[1])
    BY <1>2 DEF Asking
  <2>2. Asking(h, f, u, d, pl, dd)
    BY <1>2, <2>1, AskingFrames
  <2> QED BY <2>2 DEF Session
<1>3. CASE Replied(k, f, u, d, pl, dd)
  <2>1. /\ NoAbort(u) /\ Quiet(f, u)
        /\ \A i \in DOMAIN d : d[i].seq.rsn # f.lrs \/ d[i] = f.reply[1]
        /\ \A i, j \in DOMAIN d : i < j /\ d[i] = f.reply[1] => d[j] = f.reply[1]
    BY <1>3 DEF Replied, Standing
  <2>2. Replied(h, f, u, d, pl, dd)
    BY <1>3, <2>1, RepliedFrames
  <2> QED BY <2>2 DEF Session
<1>4. CASE Released(k, f, u, d, pl, dd)
  <2>1. NoAbort(u) /\ Quiet(f, u) /\ \A i \in DOMAIN d : d[i] = f.reply[1]
    BY <1>4 DEF Released, Standing
  <2>2. Released(h, f, u, d, pl, dd)
    BY <1>4, <2>1, ReleasedFrames
  <2> QED BY <2>2 DEF Session
<1> QED BY <1>1, <1>2, <1>3, <1>4 DEF Session

\* The request that waits is sent again.
LEMMA Resent ==
  ASSUME NEW k, NEW f, NEW u, NEW d, NEW pl, NEW dd, Session(TRUE, k, f, u, d, pl, dd),
         k.last # None, NEW h, IsConnection(h), Alike(k, h)
  PROVE  Session(TRUE, h, f, Fit(u, k.last[1]), d, pl, dd)
<1> DEFINE v == Fit(u, k.last[1])
<1>0. IsSeq(u) /\ IsSeq(v)
  BY FitLemma DEF Session
<1>1. ~Begun(k, u, d, pl, dd) /\ ~Released(k, f, u, d, pl, dd)
  BY DEF Begun, Released
<1>2. CASE Asking(k, f, u, d, pl, dd)
  <2>1. NoAbort(v) /\ Waiting(f, v, k.last[1])
    BY <1>0, <1>2, WaitingSend DEF Asking
  <2>2. ASSUME \A i \in DOMAIN u : u[i] = k.last[1] PROVE \A i \in DOMAIN v : v[i] = k.last[1]
    <3> DEFINE w == Append(u, k.last[1])
    <3>1. /\ DOMAIN u = 1..Len(u) /\ DOMAIN w = 1..Len(u) + 1 /\ Len(u) \in Nat
          /\ (\A i \in DOMAIN u : w[i] = u[i]) /\ w[Len(u) + 1] = k.last[1]
      BY <1>0, AppendLemma
    <3>2. v = u \/ v = w
      BY <1>0, FitLemma
    <3> HIDE DEF w, v
    <3>3. \A i \in DOMAIN w : i \in DOMAIN u \/ i = Len(u) + 1
      BY <3>1
    <3> QED BY <2>2, <3>1, <3>2, <3>3
  <2> HIDE DEF v
  <2>3. Asking(h, f, v, d, pl, dd)
    BY <1>2, <2>1, <2>2, AskingFrames
  <2> QED BY <1>0, <2>3 DEF Session, v
<1>3. CASE Replied(k, f, u, d, pl, dd)
  <2>1. NoAbort(v) /\ Quiet(f, v)
    BY <1>0, <1>3, QuietSend DEF Replied, Standing
  <2> HIDE DEF v
  <2>2. /\ \A i \in DOMAIN d : d[i].seq.rsn # f.lrs \/ d[i] = f.reply[1]
        /\ \A i, j \in DOMAIN d : i < j /\ d[i] = f.reply[1] => d[j] = f.reply[1]
    BY <1>3 DEF Replied
  <2>3. Replied(h, f, v, d, pl, dd)
    BY <1>3, <2>1, <2>2, RepliedFrames
  <2> QED BY <1>0, <2>3 DEF Session, v
<1> QED BY <1>1, <1>2, <1>3 DEF Session

-----------------------------------------------------------------------------
(* A request reaches the server.                                            *)

\* The responses and the completed writes after m took the server from f to g.
Responses(f, g, m, d) ==
  IF (Fresh(f, m) \/ (f.open /\ m.seq.ssn = f.lrs)) /\ g.reply # <<>>
  THEN Fit(d, g.reply[1]) ELSE d
Completed(f, g, m, dd) ==
  IF Fresh(f, m) /\ m.cmd.id = "WriteByIndex" /\ Final(m)
  THEN Append(dd, <<m.cmd.tid, g.part>>) ELSE dd

LEMMA FitElements ==
  ASSUME NEW d, IsSeq(d), NEW r
  PROVE  /\ Len(d) \in Nat /\ DOMAIN d = 1..Len(d)
         /\ \A i \in DOMAIN Fit(d, r) :
              \/ i \in DOMAIN d /\ Fit(d, r)[i] = d[i]
              \/ i = Len(d) + 1 /\ Fit(d, r)[i] = r
<1> DEFINE w == Append(d, r)
           v == Fit(d, r)
<1>1. /\ DOMAIN d = 1..Len(d) /\ DOMAIN w = 1..Len(d) + 1 /\ Len(d) \in Nat
      /\ (\A i \in DOMAIN d : w[i] = d[i]) /\ w[Len(d) + 1] = r
  BY AppendLemma
<1>2. v = d \/ v = w
  BY FitLemma
<1> HIDE DEF w, v
<1>3. \A i \in DOMAIN w : i \in DOMAIN d \/ i = Len(d) + 1
  BY <1>1
<1>4. \A i \in DOMAIN v : \/ i \in DOMAIN d /\ v[i] = d[i]
                          \/ i = Len(d) + 1 /\ v[i] = r
  BY <1>1, <1>2, <1>3
<1> QED BY <1>1, <1>4 DEF v

\* The completed writes dd become de when c has taken the server to g.
Adds(dd, de, c, g) == de = IF Final(c) THEN Append(dd, <<c.cmd.tid, g.part>>) ELSE dd

LEMMA Executed ==
  ASSUME NEW pl, IsPlan(pl), NEW p \in DOMAIN pl, NEW f, NEW c, NEW o,
         Carries(c, pl[p], o), Holds(f, pl[p], o), NEW dd, IsSeq(dd), Embeds(dd, pl, p - 1),
         NEW g, Joins(f, g, c), NEW de, Adds(dd, de, c, g)
  PROVE  /\ End(pl[p][2], o) > 0 /\ g.part = SubSeq(pl[p][2], 1, End(pl[p][2], o))
         /\ IsSeq(de) /\ Embeds(de, pl, Len(pl))
         /\ IF End(pl[p][2], o) < Len(pl[p][2]) THEN Embeds(de, pl, p - 1)
            ELSE de # <<>> /\ de[Len(de)] = pl[p] /\ Embeds(de, pl, p)
<1> DEFINE w == pl[p]
           e == End(w[2], o)
<1>1. w = <<w[1], w[2]>> /\ w[2] \in Seq(UNSIGNED8) /\ IsSeq(pl)
  BY DEF IsPlan
<1>0. w[2] \in Seq(UNSIGNED8) /\ Carries(c, w, o) /\ Holds(f, w, o) /\ Joins(f, g, c)
  BY <1>1
<1> HIDE DEF w
<1>2. e \in 0..Len(w[2]) /\ e > o /\ g.part = SubSeq(w[2], 1, e)
  BY ONLY <1>0, SegmentHeld
<1>3. Final(c) <=> g.part = w[2]
  BY ONLY <1>0, SegmentHeld
<1> USE DEF w
<1>4. (Final(c) <=> e = Len(w[2])) /\ o \in 0..Len(w[2]) /\ c.cmd.tid = w[1]
  BY DEF Carries
<1>5. Len(w[2]) \in Nat /\ e > 0 /\ (e < Len(w[2]) <=> e # Len(w[2]))
  <2>1. Len(w[2]) \in Nat
    BY <1>1
  <2> HIDE DEF w, e
  <2> QED BY <2>1, <1>2, <1>4
<1>6. Len(pl) \in Nat /\ DOMAIN pl = 1..Len(pl)
  BY <1>1, AppendLemma
<1>7. p \in 0..Len(pl) /\ p - 1 <= Len(pl) /\ p <= Len(pl) /\ Len(pl) \in 0..Len(pl)
  BY <1>6
<1> HIDE DEF e
<1>8. CASE e < Len(w[2])
  <2>1. de = dd
    BY <1>4, <1>5, <1>8 DEF Adds
  <2>2. Embeds(de, pl, p - 1)
    BY <2>1
  <2>3. Embeds(de, pl, Len(pl))
    BY <1>1, <1>7, <2>2, EmbedsMore
  <2> QED BY <1>2, <1>5, <1>8, <2>1, <2>2, <2>3 DEF e
<1>9. CASE ~(e < Len(w[2]))
  <2>1. de = Append(dd, <<w[1], w[2]>>)
    BY <1>3, <1>4, <1>5, <1>9 DEF Adds
  <2>2. de = Append(dd, pl[p])
    BY <1>1, <2>1
  <2>3. IsSeq(de) /\ de # <<>> /\ de[Len(de)] = pl[p]
    <3> DEFINE z == pl[p]
    <3>1. de = Append(dd, z)
      BY <2>2
    <3> HIDE DEF z
    <3>2. /\ IsSeq(Append(dd, z)) /\ Append(dd, z) # <<>> /\ Len(Append(dd, z)) = Len(dd) + 1
          /\ Append(dd, z)[Len(dd) + 1] = z
      BY AppendLemma
    <3>3. IsSeq(de) /\ de # <<>> /\ de[Len(de)] = z
      BY <3>1, <3>2
    <3> QED BY <3>3 DEF z
  <2>4. Embeds(de, pl, p)
    BY <1>1, <2>2, EmbedsNext
  <2>5. Embeds(de, pl, Len(pl))
    BY <1>1, <1>7, <2>4, EmbedsMore
  <2> QED BY <1>2, <1>5, <1>9, <2>3, <2>4, <2>5 DEF e
<1> QED BY <1>8, <1>9

\* A request the server knows is answered again and changes nothing.
LEMMA ServedAgain ==
  ASSUME NEW open, NEW k, NEW f, NEW u, NEW d, NEW pl, NEW dd,
         Session(open, k, f, u, d, pl, dd), u # <<>>, Repeated(f, Head(u)),
         open => ~Asking(k, f, u, d, pl, dd) \/ Head(u) # k.last[1]
  PROVE  Session(open, k, f, Tail(u), Fit(d, f.reply[1]), pl, dd)
<1> DEFINE v == Tail(u)
           e == Fit(d, f.reply[1])
<1>1. Session(open, k, f, v, d, pl, dd)
  BY LostRequest
<1>2. IsSeq(d) /\ IsSeq(e) /\ IsSeq(u)
  BY FitLemma DEF Session
<1>3. /\ Len(d) \in Nat /\ DOMAIN d = 1..Len(d)
      /\ \A i \in DOMAIN e : \/ i \in DOMAIN d /\ e[i] = d[i]
                             \/ i = Len(d) + 1 /\ e[i] = f.reply[1]
  BY <1>2, FitElements
<1>9. Head(u) = u[1] /\ 1 \in DOMAIN u
  BY <1>2, TailLemma
<1> SUFFICES Session(open, k, f, v, e, pl, dd)
  OBVIOUS
<1> HIDE DEF v, e
<1>4. CASE ~open
  BY <1>1, <1>2, <1>4 DEF Session
<1>5. CASE open /\ Begun(k, u, d, pl, dd)
  BY <1>5 DEF Begun
<1>6. CASE open /\ Asking(k, f, u, d, pl, dd)
  <2> DEFINE c == k.last[1]
  <2>1. u[1] # c
    BY <1>6, <1>9
  <2>2. ~\A i \in DOMAIN u : u[i] = c
    BY <1>9, <2>1
  <2>3. k.st # "Opening" /\ f.reply[1].seq.rsn = f.lrs /\ c.seq.ssn = Succ(f.lrs)
    BY <1>6, <2>2 DEF Asking, Waiting, Expected
  <2>4. f.reply[1].seq.rsn # c.seq.ssn
    BY <2>3, SuccLemma DEF Session, IsPeer
  <2>5. \A i \in DOMAIN d : d[i].seq.rsn # c.seq.ssn
    BY <1>6, <2>3 DEF Asking
  <2> HIDE DEF c
  <2>6. \A i \in DOMAIN e : e[i].seq.rsn # c.seq.ssn
    BY <1>3, <2>4, <2>5
  <2>7. NoAbort(v) /\ Waiting(f, v, c)
    BY <1>2, <1>6, NoAbortTail, WaitingTail DEF Asking, v, c
  <2>8. Asking(k, f, v, d, pl, dd)
    <3>1. (\A i \in DOMAIN u : u[i] = k.last[1]) => \A i \in DOMAIN v : v[i] = k.last[1]
      BY <2>2 DEF c
    <3>2. Waiting(f, v, k.last[1]) /\ NoAbort(v)
      BY <2>7 DEF c
    <3>3. Asking(k, f, u, d, pl, dd) /\ Alike(k, k)
      BY <1>6, AlikeSelf
    <3> QED BY ONLY <3>1, <3>2, <3>3, AskingFrames
  <2>9. Asking(k, f, v, e, pl, dd)
    <3>1. Waiting(f, v, k.last[1]) /\ NoAbort(v)
      BY <2>7 DEF c
    <3>2. \A i \in DOMAIN e : e[i].seq.rsn # k.last[1].seq.ssn
      BY <2>6 DEF c
    <3>4. k.st \in {"DownloadInProgress", "UploadInit", "UploadInProgress"}
      BY <1>6, <2>3 DEF Asking
    <3> QED BY <2>8, <3>1, <3>2, <3>4 DEF Asking
  <2> QED BY <1>1, <1>2, <1>6, <2>9 DEF Session
<1>7. CASE open /\ Replied(k, f, u, d, pl, dd)
  <2>1. NoAbort(v) /\ Quiet(f, v)
    BY <1>2, <1>7, NoAbortTail, QuietTail DEF Replied, Standing, v
  <2>2. /\ \A i \in DOMAIN d : d[i].seq.rsn # f.lrs \/ d[i] = f.reply[1]
        /\ \A i, j \in DOMAIN d : i < j /\ d[i] = f.reply[1] => d[j] = f.reply[1]
    BY <1>7 DEF Replied
  <2>3. \A i \in DOMAIN e : e[i].seq.rsn # f.lrs \/ e[i] = f.reply[1]
    BY <1>3, <2>2
  <2>4. ASSUME NEW i \in DOMAIN e, NEW j \in DOMAIN e, i < j, e[i] = f.reply[1]
        PROVE  e[j] = f.reply[1]
    <3>1. CASE j = Len(d) + 1
      BY <1>3, <3>1
    <3>2. CASE j # Len(d) + 1
      <4>1. j \in DOMAIN d /\ e[j] = d[j]
        BY <1>3, <3>2
      <4>2. i \in DOMAIN d
        BY <1>3, <2>4, <4>1
      <4>3. e[i] = d[i]
        BY <1>3, <4>2
      <4> QED BY <2>2, <2>4, <4>1, <4>2, <4>3
    <3> QED BY <3>1, <3>2
  <2>5. Replied(k, f, v, e, pl, dd)
    BY <1>7, <2>1, <2>3, <2>4, RepliedFrames, AlikeSelf
  <2> QED BY <1>1, <1>2, <1>7, <2>5 DEF Session
<1>8. CASE open /\ Released(k, f, u, d, pl, dd)
  <2>1. NoAbort(v) /\ Quiet(f, v)
    BY <1>2, <1>8, NoAbortTail, QuietTail DEF Released, Standing, v
  <2>2. \A i \in DOMAIN e : e[i] = f.reply[1]
    BY <1>3, <1>8 DEF Released
  <2>3. Released(k, f, v, e, pl, dd)
    BY <1>8, <2>1, <2>2, ReleasedFrames, AlikeSelf
  <2> QED BY <1>1, <1>2, <1>8, <2>3 DEF Session
<1> QED BY <1>4, <1>5, <1>6, <1>7, <1>8 DEF Session

\* What a new request does, seen from the write it belongs to.
LEMMA ServedOwed ==
  ASSUME NEW f, IsPeer(f), NEW c, Expected(f, c), NEW big, NEW pl, IsPlan(pl), NEW dd, IsSeq(dd),
         Embeds(dd, pl, Len(pl)), Owed(f, c, pl, dd),
         NEW g, g = OtherAnswer(f, c, big)
  PROVE  /\ IsSeq(Completed(f, g, c, dd))
         /\ Embeds(Completed(f, g, c, dd), pl, Len(pl))
<1> DEFINE de == Completed(f, g, c, dd)
<1>1. Fresh(f, c) /\ (c.cmd.id = "WriteByIndex" => Joins(f, g, c))
  BY ServeNew DEF Joins
<1>2. CASE c.cmd.id # "WriteByIndex"
  BY <1>2 DEF Completed
<1>3. CASE c.cmd.id = "WriteByIndex"
  <2>5. PICK p \in DOMAIN pl : \E o \in 0..Len(pl[p][2]) :
          Carries(c, pl[p], o) /\ Holds(f, pl[p], o) /\ Embeds(dd, pl, p - 1)
    BY <1>3 DEF Owed
  <2>1. PICK o \in 0..Len(pl[p][2]) :
          Carries(c, pl[p], o) /\ Holds(f, pl[p], o) /\ Embeds(dd, pl, p - 1)
    BY <2>5
  <2>2. Adds(dd, de, c, g)
    BY <1>1, <1>3 DEF Completed, Adds
  <2>3. Joins(f, g, c)
    BY <1>1, <1>3
  <2> HIDE DEF de
  <2>6. Carries(c, pl[p], o) /\ Holds(f, pl[p], o) /\ Embeds(dd, pl, p - 1) /\ p \in DOMAIN pl
    BY <2>1
  <2>7. IsPlan(pl) /\ IsSeq(dd)
    OBVIOUS
  <2>4. IsSeq(de) /\ Embeds(de, pl, Len(pl))
    BY ONLY <2>2, <2>3, <2>6, <2>7, Executed
  <2> QED BY <2>4 DEF de
<1> QED BY <1>2, <1>3

\* The server executes the request the client waits for.
LEMMA ServedAsked ==
  ASSUME NEW k, NEW f, NEW u, NEW d, NEW pl, NEW dd, Session(TRUE, k, f, u, d, pl, dd),
         Asking(k, f, u, d, pl, dd), u # <<>>, Head(u) = k.last[1], NEW big,
         NEW g, g = OtherAnswer(f, Head(u), big)
  PROVE  Session(TRUE, k, g, Tail(u), Fit(d, g.reply[1]), pl, Completed(f, g, Head(u), dd))
<1> DEFINE c == k.last[1]
           v == Tail(u)
           e == Fit(d, g.reply[1])
           de == Completed(f, g, c, dd)
<1>1. IsPeer(f) /\ IsSeq(u) /\ IsSeq(d) /\ IsPlan(pl) /\ IsSeq(dd) /\ Embeds(dd, pl, Len(pl))
      /\ IsConnection(k)
  BY DEF Session
<1>2. /\ k.last # None /\ k.last = Some(c) /\ NoAbort(u) /\ Waiting(f, u, c) /\ k.ssn = Succ(c.seq.ssn)
      /\ Expected(f, c)
  BY DEF Asking, Waiting
<1>3. /\ Fresh(f, c) /\ IsPeer(g) /\ g.open /\ g.lrs = c.seq.ssn
      /\ g.ssn = (IF c.seq.scon = "Initialization" THEN 0 ELSE Succ(f.ssn))
      /\ g.reply # <<>> /\ g.reply = Some(g.reply[1]) /\ ~g.reply[1].cmd.abrt
      /\ g.reply[1].seq.rsn = g.lrs /\ g.reply[1].seq.ssn = g.ssn
      /\ Repeated(g, c)
  BY <1>1, <1>2, ServeNew
<1>4. c.cmd.id = "WriteByIndex" => Joins(f, g, c)
  BY <1>1, <1>2, ServeNew DEF Joins
<1>5. IsSeq(v) /\ NoAbort(v) /\ Quiet(g, v)
  BY <1>1, <1>2, <1>3, TailLemma, NoAbortTail, WaitingTaken
<1>6. IsSeq(de) /\ Embeds(de, pl, Len(pl))
  BY <1>1, <1>2, AskingOwed, ServedOwed
<1>7. /\ IsSeq(e) /\ Len(d) \in Nat /\ DOMAIN d = 1..Len(d)
      /\ \A i \in DOMAIN e : \/ i \in DOMAIN d /\ e[i] = d[i]
                             \/ i = Len(d) + 1 /\ e[i] = g.reply[1]
  BY <1>1, FitLemma, FitElements
<1>8. \A i \in DOMAIN d : d[i].seq.rsn # c.seq.ssn
  BY DEF Asking
<1> SUFFICES Session(TRUE, k, g, v, e, pl, de)
  OBVIOUS
<1> HIDE DEF v, e, de
<1>9. Standing(g, v)
  BY <1>3, <1>5 DEF Standing
<1>10. \A i \in DOMAIN e : e[i].seq.rsn # g.lrs \/ e[i] = g.reply[1]
  BY <1>3, <1>7, <1>8
<1>11. ASSUME NEW i \in DOMAIN e, NEW j \in DOMAIN e, i < j, e[i] = g.reply[1]
       PROVE  e[j] = g.reply[1]
  <2>1. ~(i \in DOMAIN d /\ e[i] = d[i])
    BY <1>3, <1>8, <1>11
  <2>2. i = Len(d) + 1
    BY <1>7, <2>1
  <2>3. j \notin DOMAIN d
    BY <1>7, <1>11, <2>2
  <2> QED BY <1>7, <2>3
<1>12. k.lrs \in 0..SnModulus - 1 /\ g.ssn = Succ(k.lrs)
  <2>1. CASE c.seq.scon = "Initialization"
    BY <1>3, <2>1, SuccEnds DEF Asking
  <2>2. CASE c.seq.scon # "Initialization"
    <3>1. k.lrs = f.ssn /\ f.ssn \in 0..SnModulus - 1
      BY <1>1, <2>2 DEF Asking, IsPeer
    <3> QED BY <1>3, <2>2, <3>1
  <2> QED BY <2>1, <2>2
<1>13. \/ k.st = "Opening" /\ Ready(k, pl, de)
       \/ k.st = "DownloadInProgress" /\ \E p \in DOMAIN pl :
            /\ Loaded(k, pl, p) /\ k.off > 0 /\ Holds(g, pl[p], k.off)
            /\ IF k.off < k.total THEN Embeds(de, pl, p - 1)
               ELSE de # <<>> /\ de[Len(de)] = pl[p] /\ Embeds(de, pl, p)
       \/ k.st \in {"UploadInit", "UploadInProgress"}
  <2>1. CASE k.st = "Opening"
    <3>1. Ready(k, pl, dd) /\ c.seq.scon = "Initialization"
      BY <2>1 DEF Asking
    <3>2. de = dd
      BY <1>2, <3>1 DEF de, Completed, Expected
    <3> QED BY <2>1, <3>1, <3>2
  <2>2. CASE k.st = "DownloadInProgress"
    <3>1. PICK p \in DOMAIN pl, o \in 0..k.total :
            /\ Loaded(k, pl, p) /\ Carries(c, pl[p], o) /\ k.off = End(k.buf, o)
            /\ Holds(f, pl[p], o) /\ Embeds(dd, pl, p - 1)
      BY <2>2 DEF Asking
    <3>2. c.cmd.id = "WriteByIndex"
      BY <3>1 DEF Carries
    <3>3. Adds(dd, de, c, g)
      BY <1>3, <3>2 DEF de, Completed, Adds
    <3>4. Joins(f, g, c)
      BY <1>4, <3>2
    <3>5. pl[p][2] = k.buf /\ k.total = Len(k.buf)
      BY <3>1 DEF Loaded
    <3>6. /\ End(pl[p][2], o) > 0 /\ g.part = SubSeq(pl[p][2], 1, End(pl[p][2], o))
          /\ IF End(pl[p][2], o) < Len(pl[p][2]) THEN Embeds(de, pl, p - 1)
             ELSE de # <<>> /\ de[Len(de)] = pl[p] /\ Embeds(de, pl, p)
      <4>1. Carries(c, pl[p], o) /\ Holds(f, pl[p], o) /\ Embeds(dd, pl, p - 1) /\ p \in DOMAIN pl
        BY <3>1
      <4>2. IsPlan(pl) /\ IsSeq(dd)
        BY <1>1
      <4> HIDE DEF c
      <4> QED BY ONLY <3>3, <3>4, <4>1, <4>2, Executed
    <3>7. End(pl[p][2], o) = k.off /\ Len(pl[p][2]) = k.total
      BY <3>1, <3>5
    <3>8. k.off > 0 /\ Holds(g, pl[p], k.off)
      BY <3>6, <3>7 DEF Holds
    <3>9. IF k.off < k.total THEN Embeds(de, pl, p - 1)
          ELSE de # <<>> /\ de[Len(de)] = pl[p] /\ Embeds(de, pl, p)
      BY <3>6, <3>7
    <3> QED BY <2>2, <3>1, <3>8, <3>9
  <2> QED BY <2>1, <2>2 DEF Asking
<1>14. Replied(k, g, v, e, pl, de)
  <2>1. k.ssn = Succ(g.lrs) /\ c.seq.ssn = g.lrs
    BY <1>2, <1>3
  <2> QED BY <1>2, <1>3, <1>9, <1>10, <1>11, <1>12, <1>13, <2>1 DEF Replied
<1> QED BY <1>1, <1>3, <1>5, <1>6, <1>7, <1>14 DEF Session

\* The server after m, with the answer it may choose for a read.
After(f, m, big) == IF Fresh(f, m) THEN OtherAnswer(f, m, big) ELSE f

LEMMA Served ==
  ASSUME NEW open, NEW k, NEW f, NEW u, NEW d, NEW pl, NEW dd,
         Session(open, k, f, u, d, pl, dd), u # <<>>, NEW big,
         NEW g, g = After(f, Head(u), big)
  PROVE  Session(open, k, g, Tail(u), Responses(f, g, Head(u), d), pl,
                 Completed(f, g, Head(u), dd))
<1> DEFINE m == Head(u)
           now == open /\ Asking(k, f, u, d, pl, dd) /\ m = k.last[1]
<1>1. IsPeer(f) /\ IsSeq(u) /\ IsSeq(d) /\ IsPlan(pl) /\ IsSeq(dd) /\ Embeds(dd, pl, Len(pl))
  BY DEF Session
<1>2. m = u[1] /\ 1 \in DOMAIN u /\ IsSeq(Tail(u))
  BY <1>1, TailLemma
<1>3. CASE now
  <2>1. Expected(f, m)
    BY <1>3 DEF Asking, Waiting
  <2>2. Fresh(f, m)
    BY <1>1, <2>1, ServeNew
  <2>3. g = OtherAnswer(f, m, big)
    BY <2>2 DEF After
  <2>4. g.reply # <<>>
    BY <1>1, <2>1, <2>3, ServeNew
  <2>5. Session(TRUE, k, g, Tail(u), Fit(d, g.reply[1]), pl, Completed(f, g, m, dd))
    BY <1>3, <2>3, ServedAsked DEF Session
  <2>6. Responses(f, g, m, d) = Fit(d, g.reply[1])
    BY <2>2, <2>4 DEF Responses
  <2> QED BY <1>3, <2>5, <2>6 DEF Session
<1>4. CASE ~now /\ Repeated(f, m)
  <2>1. /\ Fresh(f, m) => OtherAnswer(f, m, big) = f /\ m.cmd.id # "WriteByIndex"
        /\ Fresh(f, m) \/ (f.open /\ m.seq.ssn = f.lrs)
    BY <1>1, <1>4, ServeRepeated
  <2>2. g = f /\ f.reply # <<>>
    BY <1>4, <2>1 DEF After, Repeated
  <2>3. Responses(f, g, m, d) = Fit(d, f.reply[1]) /\ Completed(f, g, m, dd) = dd
    BY <2>1, <2>2 DEF Responses, Completed
  <2>4. open => ~Asking(k, f, u, d, pl, dd) \/ Head(u) # k.last[1]
    BY <1>4
  <2>5. Session(open, k, f, Tail(u), Fit(d, f.reply[1]), pl, dd)
    BY <1>4, <2>4, ServedAgain
  <2> QED BY <2>2, <2>3, <2>5
<1>5. CASE ~now /\ ~Repeated(f, m)
  <2>1. ASSUME open PROVE FALSE
    <3>1. ~Begun(k, u, d, pl, dd)
      BY DEF Begun
    <3>2. NoAbort(u) => ~LastAbort(u, 1)
      BY <1>2 DEF NoAbort, LastAbort
    <3>3. ~Asking(k, f, u, d, pl, dd)
      BY <1>2, <1>5, <2>1, <3>2 DEF Asking, Waiting
    <3>4. ~Standing(f, u)
      BY <1>2, <1>5, <3>2 DEF Standing, Quiet
    <3> QED BY <2>1, <3>1, <3>3, <3>4 DEF Session, Replied, Released
  <2>2. Ended(f, u, pl, dd) /\ ~open
    BY <2>1 DEF Session
  <2>3. CASE m.cmd.abrt
    <3>1. ~Repeated(f, u[1]) /\ u[1].cmd.abrt
      BY <1>2, <1>5, <2>3
    <3>2. \A c : Expected(f, c) => c # u[1]
      BY <3>1 DEF Expected
    <3>3. LastAbort(u, 1)
      BY <1>2, <2>2, <3>1, <3>2 DEF Ended, Quiet, Waiting
    <3>4. Fresh(f, m) /\ OtherAnswer(f, m, big) = NoPeer
      BY <2>3, ServeAbort
    <3>5. g = NoPeer /\ m.cmd.id = "Nil"
      BY <1>2, <3>3, <3>4 DEF After, LastAbort
    <3>6. Responses(f, g, m, d) = d /\ Completed(f, g, m, dd) = dd
      BY <3>5 DEF Responses, Completed, NoPeer
    <3>7. \A i : i \notin DOMAIN Tail(u)
      <4>1. Len(u) = 1 /\ DOMAIN Tail(u) = 1..Len(u) - 1
        BY <1>1, <3>3, TailLemma DEF LastAbort
      <4> QED BY <4>1
    <3>8. Ended(g, Tail(u), pl, dd)
      BY <3>7 DEF Ended, Quiet
    <3>9. IsPeer(g)
      BY <3>5, NoPeerLemma
    <3> QED BY <1>1, <1>2, <2>2, <3>6, <3>8, <3>9 DEF Session
  <2>4. CASE ~m.cmd.abrt
    <3>1. ~LastAbort(u, 1)
      BY <1>2, <2>4 DEF LastAbort
    <3>2. Waiting(f, u, m) /\ Owed(f, m, pl, dd)
      <4>1. ~Quiet(f, u)
        BY <1>2, <1>5, <3>1 DEF Quiet
      <4>2. PICK i \in DOMAIN u : Waiting(f, u, u[i]) /\ Owed(f, u[i], pl, dd)
        BY <2>2, <4>1 DEF Ended
      <4>3. u[1] = u[i]
        BY <1>2, <1>5, <3>1, <4>2 DEF Waiting
      <4> QED BY <1>2, <4>2, <4>3
    <3>3. Expected(f, m)
      BY <3>2 DEF Waiting
    <3>4. Fresh(f, m)
      BY <1>1, <3>3, ServeNew
    <3>5. g = OtherAnswer(f, m, big)
      BY <3>4 DEF After
    <3>6. IsPeer(g) /\ Repeated(g, m)
      BY <1>1, <3>3, <3>5, ServeNew
    <3>7. Quiet(g, Tail(u))
      BY <1>1, <3>2, <3>6, WaitingTaken
    <3>8. IsSeq(Completed(f, g, m, dd)) /\ Embeds(Completed(f, g, m, dd), pl, Len(pl))
      BY <1>1, <3>2, <3>3, <3>5, ServedOwed
    <3>9. IsSeq(Responses(f, g, m, d))
      BY <1>1, FitLemma DEF Responses
    <3> QED BY <1>1, <1>2, <2>2, <3>6, <3>7, <3>8, <3>9 DEF Session, Ended
  <2> QED BY <2>3, <2>4
<1> QED BY <1>3, <1>4, <1>5

-----------------------------------------------------------------------------
(* Transactions and the octets of a write.                                  *)

LEMMA LaterLemma ==
  ASSUME NEW t \in 1..255
  PROVE  /\ NextTid(t) \in 1..255 /\ Later(t, 1) = NextTid(t)
         /\ \A i \in Nat : Later(NextTid(t), i) = Later(t, i + 1)
<1>1. CASE t = 255
  BY <1>1 DEF NextTid, Later
<1>2. CASE t # 255
  BY <1>2 DEF NextTid, Later
<1> QED BY <1>1, <1>2

LEMMA EntryLemma ==
  ASSUME NEW i \in UNSIGNED16, NEW s \in UNSIGNED8, NEW data \in Seq(UNSIGNED8)
  PROVE  /\ AddressPayload(i, s) \o data \in Seq(UNSIGNED8)
         /\ AddressPayload(i, s) \o data # <<>>
<1> DEFINE a == Le(i, 2)
           b == <<s, 0>>
<1>1. i \in Nat /\ 0 \in UNSIGNED8
  BY WordRange, ByteRange
<1>2. a \in Seq(UNSIGNED8)
  BY <1>1, LeBytes, 2 \in Nat
<1>3. b \in Seq(UNSIGNED8) /\ Len(b) > 0
  BY <1>1
<1>4. AddressPayload(i, s) \o data = (a \o b) \o data
  BY DEF AddressPayload
<1> HIDE DEF a, b
<1>5. /\ (a \o b) \o data \in Seq(UNSIGNED8)
      /\ Len((a \o b) \o data) = Len(a) + Len(b) + Len(data) /\ Len(a) \in Nat /\ Len(data) \in Nat
  BY <1>2, <1>3
<1>6. (a \o b) \o data # <<>>
  <2>1. Len((a \o b) \o data) > 0
    BY <1>2, <1>3, <1>5
  <2> QED BY <1>5, <2>1
<1> QED BY <1>4, <1>5, <1>6

LEMMA EntryBytesLemma ==
  ASSUME NEW e \in Entries PROVE EntryBytes(e) \in Seq(UNSIGNED8) /\ EntryBytes(e) # <<>>
<1>1. e[1] \in UNSIGNED16 /\ e[2] \in UNSIGNED8 /\ e[3] \in Seq(UNSIGNED8)
  BY DEF Entries
<1> QED BY <1>1, EntryLemma DEF EntryBytes

LEMMA RetriesNat == Retries(Dictionary) \in Nat
<1>1. 0 \in UNSIGNED8
  BY ByteRange
<1> QED BY <1>1, SessionAssumption, ReadNumber DEF Retries

-----------------------------------------------------------------------------
(* A connection and its job.                                                *)

\* h is k with another write, transaction and job.
Follows(k, h) ==
  /\ h.st = k.st /\ h.ssn = k.ssn /\ h.lrs = k.lrs /\ h.last = k.last /\ h.pend = k.pend

LEMMA Prepared ==
  ASSUME NEW k, IsConnection(k), k.tid \in 1..255, NEW pl, NEW q \in Nat, Queued(k, pl, q),
         NEW h, h = prepare_next_job_command(k).k
  PROVE  /\ IsConnection(h) /\ Follows(k, h)
         /\ prepare_next_job_command(k).ready => Loaded(h, pl, q + 1) /\ h.off = 0
         /\ ~prepare_next_job_command(k).ready => h.job = None /\ h.buf = k.buf
<1> DEFINE j == k.job[1]
           ready == k.job # None /\ j.n > 0 /\ j.entries # <<>>
           e == Head(j.entries)
           full == EntryBytes(e)
           t == NextTid(k.tid)
           es == Tail(j.entries)
           rest == [entries |-> es, n |-> j.n - 1]
<1>1. prepare_next_job_command(k).ready <=> ready
  BY DEF prepare_next_job_command
<1>2. k \in [st : {k.st}, tid : {k.tid}, ssn : {k.ssn}, lrs : {k.lrs}, buf : {k.buf}, off : {k.off},
             total : {k.total}, armed : {k.armed}, left : {k.left}, last : {k.last}, job : {k.job},
             pend : {k.pend}] /\ k.left \in Nat
  BY DEF IsConnection
<1>3. CASE ~ready
  <2>1. h = [k EXCEPT !.job = None]
    BY <1>3 DEF prepare_next_job_command
  <2>2. h \in [st : {k.st}, tid : {k.tid}, ssn : {k.ssn}, lrs : {k.lrs}, buf : {k.buf}, off : {k.off},
             total : {k.total}, armed : {k.armed}, left : {k.left}, last : {k.last}, job : {None},
             pend : {k.pend}]
    BY <1>2, <2>1
  <2> HIDE DEF ready
  <2> QED BY <1>1, <1>2, <1>3, <2>2 DEF IsConnection, Follows
<1>4. CASE ready
  <2>1. h = [k EXCEPT !.buf = full, !.total = Len(full), !.off = 0, !.tid = NextTid(@), !.job = Some(rest)]
    BY <1>4 DEF prepare_next_job_command, EntryBytes
  <2>2. /\ j.n \in Nat /\ j.n > 0 /\ j.entries \in Seq(Entries) /\ j.entries # <<>>
        /\ \A i \in 1..Least(j.n, Len(j.entries)) :
             /\ q + i \in DOMAIN pl
             /\ pl[q + i] = <<Later(k.tid, i), EntryBytes(j.entries[i])>>
             /\ Fits(Len(pl[q + i][2]))
    BY <1>4 DEF Queued
  <2>3. e \in Entries /\ es \in Seq(Entries) /\ Len(es) = Len(j.entries) - 1 /\ e = j.entries[1]
        /\ Len(j.entries) \in Nat /\ Len(j.entries) > 0
        /\ \A i \in 1..Len(es) : es[i] = j.entries[i + 1]
    BY <2>2
  <2>4. full \in Seq(UNSIGNED8) /\ full # <<>>
    BY <2>3, EntryBytesLemma
  <2>5. t \in 1..255 /\ Later(k.tid, 1) = t /\ \A i \in Nat : Later(t, i) = Later(k.tid, i + 1)
    BY LaterLemma
  <2>6. rest.entries = es /\ rest.n = j.n - 1
    OBVIOUS
  <2>7. full = EntryBytes(j.entries[1])
    BY <2>3
  <2>8. h \in [st : {k.st}, tid : {t}, ssn : {k.ssn}, lrs : {k.lrs}, buf : {full}, off : {0},
             total : {Len(full)}, armed : {k.armed}, left : {k.left}, last : {k.last}, job : {Some(rest)},
             pend : {k.pend}]
    <3> HIDE DEF j, full, rest, ready
    <3>1. h = [k EXCEPT !.buf = full, !.total = Len(full), !.off = 0, !.tid = t, !.job = Some(rest)]
      BY <1>2, <2>1
    <3> DEFINE sr == Some(rest)
               lf == Len(full)
    <3>2. h = [k EXCEPT !.buf = full, !.total = lf, !.off = 0, !.tid = t, !.job = sr]
      BY <3>1
    <3> HIDE DEF t, sr, lf
    <3>3. h \in [st : {k.st}, tid : {t}, ssn : {k.ssn}, lrs : {k.lrs}, buf : {full}, off : {0},
             total : {lf}, armed : {k.armed}, left : {k.left}, last : {k.last}, job : {sr},
             pend : {k.pend}]
      BY ONLY <1>2, <3>2
    <3> QED BY <3>3 DEF sr, lf
  <2> DEFINE es0 == j.entries
             n0 == j.n
  <2>9. /\ n0 \in Nat /\ n0 > 0 /\ es0 \in Seq(Entries) /\ Len(es0) \in Nat /\ Len(es0) > 0
        /\ Len(es) = Len(es0) - 1 /\ rest.n = n0 - 1 /\ rest.entries = es
        /\ \A i \in 1..Len(es) : es[i] = es0[i + 1]
        /\ \A i \in 1..Least(n0, Len(es0)) :
             /\ q + i \in DOMAIN pl
             /\ pl[q + i] = <<Later(k.tid, i), EntryBytes(es0[i])>>
             /\ Fits(Len(pl[q + i][2]))
        /\ full = EntryBytes(es0[1]) /\ es \in Seq(Entries)
    BY <2>2, <2>3, <2>6, <2>7
  <2> HIDE DEF full, rest, es, e, j, es0, n0, ready
  <2>10. IsConnection(h) /\ Follows(k, h)
    BY <1>2, <2>8 DEF IsConnection, Follows
  <2>11. h.tid = t /\ h.buf = full /\ h.off = 0 /\ h.total = Len(full) /\ h.job = Some(rest)
    BY <2>8
  <2>12. h.job # None /\ h.job[1] = rest
    BY <2>11 DEF Some, None
  <2>13. 1 \in 1..Least(n0, Len(es0))
    BY <2>9 DEF Least
  <2>14. q + 1 \in DOMAIN pl /\ pl[q + 1] = <<t, full>> /\ Fits(Len(pl[q + 1][2]))
    <3>1. q + 1 \in DOMAIN pl /\ pl[q + 1] = <<Later(k.tid, 1), EntryBytes(es0[1])>> /\ Fits(Len(pl[q + 1][2]))
      BY <2>9, <2>13
    <3> QED BY <2>5, <2>9, <3>1
  <2>15. Queued(h, pl, q + 1)
    <3>1. ASSUME NEW i \in 1..Least(rest.n, Len(rest.entries))
          PROVE  /\ q + 1 + i \in DOMAIN pl
                 /\ pl[q + 1 + i] = <<Later(h.tid, i), EntryBytes(rest.entries[i])>>
                 /\ Fits(Len(pl[q + 1 + i][2]))
      <4>1. i \in Nat /\ i + 1 \in 1..Least(n0, Len(es0)) /\ i \in 1..Len(es) /\ q + (i + 1) = q + 1 + i
        BY <2>9 DEF Least
      <4>2. /\ q + (i + 1) \in DOMAIN pl /\ Fits(Len(pl[q + (i + 1)][2]))
            /\ pl[q + (i + 1)] = <<Later(k.tid, i + 1), EntryBytes(es0[i + 1])>>
        BY <2>9, <4>1
      <4>3. Later(h.tid, i) = Later(k.tid, i + 1) /\ rest.entries[i] = es0[i + 1]
        BY <2>5, <2>9, <2>11, <4>1
      <4>4. pl[q + (i + 1)] = <<Later(h.tid, i), EntryBytes(rest.entries[i])>>
        BY <4>2, <4>3
      <4> QED BY <4>1, <4>2, <4>4
    <3>2. rest.n \in Nat /\ rest.entries \in Seq(Entries)
      BY <2>9
    <3> QED BY <2>12, <3>1, <3>2 DEF Queued
  <2>16. Loaded(h, pl, q + 1)
    <3>1. h.buf \in Seq(UNSIGNED8) /\ h.buf # <<>> /\ h.total = Len(h.buf) /\ h.off \in 0..h.total
      BY <2>4, <2>11
    <3>2. Fits(h.total) /\ pl[q + 1] = <<h.tid, h.buf>> /\ h.tid \in 1..255
      BY <2>5, <2>11, <2>14
    <3> QED BY <2>14, <2>15, <3>1, <3>2 DEF Loaded
  <2> QED BY <1>1, <1>4, <2>10, <2>11, <2>16
<1> QED BY <1>3, <1>4

-----------------------------------------------------------------------------
(* The client sends.                                                        *)

LEMMA SentLemma ==
  ASSUME NEW k, IsConnection(k), NEW scon, NEW rcon, NEW cmd,
         NEW r, r = Sent(k, scon, rcon, cmd, Dictionary)
  PROVE  \E c \in {r.out[1]} :
           /\ r.out = Some(c) /\ c.cmd = cmd /\ c.seq.scon = scon /\ c.seq.ssn = k.ssn
           /\ IsConnection(r.k) /\ r.k.last = Some(c) /\ r.k.ssn = Succ(k.ssn)
           /\ r.k.st = k.st /\ r.k.tid = k.tid /\ r.k.lrs = k.lrs /\ r.k.buf = k.buf
           /\ r.k.off = k.off /\ r.k.total = k.total /\ r.k.job = k.job /\ r.k.pend = k.pend
<1> DEFINE c == Packet(Header(k.lrs, rcon, k.ssn, scon), cmd)
           h == r.k
           sc == Some(c)
           n == Succ(k.ssn)
           l == Retries(Dictionary)
<1>1. c.cmd = cmd /\ c.seq.scon = scon /\ c.seq.ssn = k.ssn
  BY DEF Packet, Header
<1>2. r.out = sc /\ h = [k EXCEPT !.armed = TRUE, !.left = l, !.last = sc, !.ssn = n]
  <2> HIDE DEF c, l
  <2>1. r = [k |-> [k EXCEPT !.armed = TRUE, !.left = l, !.last = sc, !.ssn = Succ(@)], out |-> sc]
    BY DEF Sent, c, l
  <2>2. [k EXCEPT !.armed = TRUE, !.left = l, !.last = sc, !.ssn = Succ(@)]
          = [k EXCEPT !.armed = TRUE, !.left = l, !.last = sc, !.ssn = n]
    BY DEF IsConnection
  <2> QED BY <2>1, <2>2
<1>3. l \in Nat
  BY RetriesNat
<1>4. k \in [st : {k.st}, tid : {k.tid}, ssn : {k.ssn}, lrs : {k.lrs}, buf : {k.buf}, off : {k.off},
             total : {k.total}, armed : {k.armed}, left : {k.left}, last : {k.last}, job : {k.job},
             pend : {k.pend}]
  BY DEF IsConnection
<1>5. r.out[1] = c
  BY <1>2 DEF Some
<1> HIDE DEF c, h, sc, n, l
<1>6. h \in [st : {k.st}, tid : {k.tid}, ssn : {n}, lrs : {k.lrs}, buf : {k.buf}, off : {k.off},
             total : {k.total}, armed : {TRUE}, left : {l}, last : {sc}, job : {k.job},
             pend : {k.pend}]
  BY ONLY <1>2, <1>4
<1>7. IsConnection(h)
  BY ONLY <1>3, <1>6 DEF IsConnection
<1>8. /\ h.last = sc /\ h.ssn = n
      /\ h.st = k.st /\ h.tid = k.tid /\ h.lrs = k.lrs /\ h.buf = k.buf
      /\ h.off = k.off /\ h.total = k.total /\ h.job = k.job /\ h.pend = k.pend
  BY ONLY <1>6
<1> QED BY <1>1, <1>2, <1>5, <1>7, <1>8 DEF sc, n, h

\* A write goes on with its next segment.
LEMMA SegmentSent ==
  ASSUME NEW k, IsConnection(k), NEW pl, NEW p, Loaded(k, pl, p), k.off < k.total
  PROVE  \E s \in {get_next_download_segment(k)} :
           /\ s.k = [k EXCEPT !.off = End(k.buf, k.off)] /\ ~s.cmd.abrt
           /\ End(k.buf, k.off) \in 0..k.total /\ End(k.buf, k.off) > 0
           /\ \A c : c.cmd = s.cmd => Carries(c, pl[p], k.off)
<1> DEFINE s == get_next_download_segment(k)
           b == k.buf
           o == k.off
           e == End(b, o)
           seg == IF o = 0 THEN IF k.total <= SegBytes + 4 THEN "Expedited" ELSE "Initiate"
                  ELSE IF k.total - o <= SegBytes THEN "Complete" ELSE "Segment"
           size == IF o = 0 THEN Some(k.total - 4) ELSE None
           pay == SubSeq(b, o + 1, e)
<1>1. /\ SegBytes \in Nat /\ SegBytes > 0 /\ b \in Seq(UNSIGNED8) /\ k.total = Len(b) /\ Fits(Len(b))
      /\ Len(b) \in Nat /\ o \in 0..Len(b) /\ o < Len(b) /\ pl[p][1] = k.tid /\ pl[p][2] = b
  BY SdoAssumption DEF Loaded
<1>2. s = [k |-> [k EXCEPT !.off = e], cmd |-> ClientRequest(k.tid, seg, "WriteByIndex", size, pay)]
  BY <1>1 DEF get_next_download_segment, End
<1>3. /\ s.k = [k EXCEPT !.off = e] /\ ~s.cmd.abrt /\ s.cmd.tid = k.tid /\ s.cmd.seg = seg
      /\ s.cmd.id = "WriteByIndex" /\ s.cmd.size = size /\ s.cmd.payload = pay
  <2> HIDE DEF seg, size, pay, e
  <2> QED BY <1>2 DEF ClientRequest, Command
<1>4. e \in 0..Len(b) /\ e > 0
  BY <1>1 DEF End, Least
<1>5. size = None <=> o > 0
  BY <1>1 DEF Some, None
<1>6. seg \in {"Expedited", "Complete"} <=> e = Len(b)
  BY <1>1 DEF End, Least, Fits
<1> HIDE DEF s, b, o, e, seg, size, pay
<1>7. ASSUME NEW c, c.cmd = s.cmd PROVE Carries(c, pl[p], o)
  <2>1. /\ c.cmd.id = "WriteByIndex" /\ c.cmd.tid = pl[p][1]
        /\ o \in 0..Len(pl[p][2]) /\ o < Len(pl[p][2])
        /\ c.cmd.payload = SubSeq(pl[p][2], o + 1, End(pl[p][2], o))
    BY <1>1, <1>3, <1>7 DEF pay, e
  <2>2. c.cmd.size = None <=> o > 0
    BY <1>3, <1>5, <1>7
  <2>3. Final(c) <=> End(pl[p][2], o) = Len(pl[p][2])
    BY <1>1, <1>3, <1>6, <1>7 DEF Final, e
  <2> QED BY <2>1, <2>2, <2>3 DEF Carries
<1> QED BY <1>1, <1>3, <1>4, <1>7 DEF s, b, o, e

\* The request with the command cmd suits what k works on.
Suits(k, f, cmd, pl, dd) ==
  \/ k.st \in {"UploadInit", "UploadInProgress"} /\ cmd.id # "WriteByIndex"
  \/ /\ k.st = "DownloadInProgress"
     /\ \E p \in DOMAIN pl : \E o \in 0..k.total :
          /\ Loaded(k, pl, p) /\ (\A c : c.cmd = cmd => Carries(c, pl[p], o))
          /\ k.off = End(k.buf, o) /\ Holds(f, pl[p], o) /\ Embeds(dd, pl, p - 1)

LEMMA Asked ==
  ASSUME NEW k, NEW f, NEW u, NEW d, NEW pl, NEW dd, Session(TRUE, k, f, u, d, pl, dd),
         Released(k, f, u, d, pl, dd),
         NEW kk, IsConnection(kk), kk.ssn = k.ssn, kk.lrs = k.lrs,
         NEW cmd, ~cmd.abrt, Suits(kk, f, cmd, pl, dd),
         NEW r, r = Sent(kk, "ConnectionValidAckRequest", "ConnectionValid", cmd, Dictionary)
  PROVE  Session(TRUE, r.k, f, Fit(u, r.out[1]), d, pl, dd)
<1> DEFINE h == r.k
           c == r.out[1]
           v == Fit(u, c)
<1>1. /\ c.cmd = cmd /\ c.seq.scon = "ConnectionValidAckRequest" /\ c.seq.ssn = kk.ssn
      /\ IsConnection(h) /\ h.last = Some(c) /\ h.ssn = Succ(kk.ssn)
      /\ h.st = kk.st /\ h.tid = kk.tid /\ h.lrs = kk.lrs /\ h.buf = kk.buf
      /\ h.off = kk.off /\ h.total = kk.total /\ h.job = kk.job /\ h.pend = kk.pend
  BY SentLemma
<1>2. /\ Standing(f, u) /\ k.ssn = Succ(f.lrs) /\ k.lrs = f.ssn
      /\ \A i \in DOMAIN d : d[i] = f.reply[1]
  BY DEF Released
<1>3. IsPeer(f) /\ IsSeq(u)
  BY DEF Session
<1>4. Succ(f.lrs) \in 0..SnModulus - 1 /\ Succ(f.lrs) # f.lrs
  BY <1>3, SuccLemma DEF IsPeer
<1>5. NoAbort(u) /\ Quiet(f, u) /\ f.open /\ f.reply # <<>> /\ f.reply[1].seq.rsn = f.lrs
  BY <1>2 DEF Standing, Some
<1> HIDE DEF h, c, v
<1>6. Expected(f, c) /\ ~Repeated(f, c)
  BY <1>1, <1>2, <1>4, <1>5 DEF Expected, Repeated
<1>7. Waiting(f, v, c) /\ NoAbort(v) /\ IsSeq(v)
  BY <1>3, <1>5, <1>6, WaitingNew, FitLemma DEF v
<1>8. h.last # None /\ h.last[1] = c
  BY <1>1 DEF Some, None
<1>9. \A i \in DOMAIN d : d[i].seq.rsn # c.seq.ssn
  BY <1>1, <1>2, <1>4, <1>5
<1>10. h.ssn = Succ(c.seq.ssn) /\ h.lrs = f.ssn /\ c.seq.scon # "Initialization"
  BY <1>1, <1>2
<1>11. Asking(h, f, v, d, pl, dd)
  <2>1. CASE kk.st \in {"UploadInit", "UploadInProgress"} /\ cmd.id # "WriteByIndex"
    BY <1>1, <1>5, <1>7, <1>8, <1>9, <1>10, <2>1 DEF Asking
  <2>2. CASE kk.st = "DownloadInProgress" /\ \E p \in DOMAIN pl : \E o \in 0..kk.total :
               /\ Loaded(kk, pl, p) /\ (\A x : x.cmd = cmd => Carries(x, pl[p], o))
               /\ kk.off = End(kk.buf, o) /\ Holds(f, pl[p], o) /\ Embeds(dd, pl, p - 1)
    <3>1. PICK p \in DOMAIN pl : \E o \in 0..kk.total :
               /\ Loaded(kk, pl, p) /\ (\A x : x.cmd = cmd => Carries(x, pl[p], o))
               /\ kk.off = End(kk.buf, o) /\ Holds(f, pl[p], o) /\ Embeds(dd, pl, p - 1)
      BY <2>2
    <3>2. PICK o \in 0..kk.total :
               /\ Loaded(kk, pl, p) /\ (\A x : x.cmd = cmd => Carries(x, pl[p], o))
               /\ kk.off = End(kk.buf, o) /\ Holds(f, pl[p], o) /\ Embeds(dd, pl, p - 1)
      BY <3>1
    <3>3. Loaded(h, pl, p)
      BY <1>1, <3>2, LoadedAlike
    <3>4. Carries(c, pl[p], o)
      BY <1>1, <3>2
    <3>5. \E q \in DOMAIN pl : \E o1 \in 0..h.total :
            /\ Loaded(h, pl, q) /\ Carries(c, pl[q], o1) /\ h.off = End(h.buf, o1)
            /\ Holds(f, pl[q], o1) /\ Embeds(dd, pl, q - 1)
      BY <1>1, <3>2, <3>3, <3>4
    <3>6. h.st = "DownloadInProgress"
      BY <1>1, <2>2
    <3> QED BY <1>1, <1>5, <1>7, <1>8, <1>9, <1>10, <3>5, <3>6 DEF Asking
  <2> QED BY <2>1, <2>2 DEF Suits
<1> QED BY <1>1, <1>7, <1>11 DEF Session, h, v, c

LEMMA Opens ==
  ASSUME NEW k, NEW f, NEW u, NEW d, NEW pl, NEW dd, Session(TRUE, k, f, u, d, pl, dd),
         Begun(k, u, d, pl, dd), NEW cmd, ~cmd.abrt, cmd.id = "Nil",
         NEW r, r = Sent(k, "Initialization", "NoConnection", cmd, Dictionary)
  PROVE  Session(TRUE, r.k, f, Fit(u, r.out[1]), d, pl, dd)
<1> DEFINE h == r.k
           c == r.out[1]
           v == Fit(u, c)
<1>0. IsConnection(k)
  BY DEF Session
<1>1. /\ c.cmd = cmd /\ c.seq.scon = "Initialization" /\ c.seq.ssn = k.ssn
      /\ IsConnection(h) /\ h.last = Some(c) /\ h.ssn = Succ(k.ssn)
      /\ h.st = k.st /\ h.tid = k.tid /\ h.lrs = k.lrs /\ h.buf = k.buf
      /\ h.off = k.off /\ h.total = k.total /\ h.job = k.job /\ h.pend = k.pend
  BY <1>0, SentLemma
<1>2. /\ k.st = "Opening" /\ u = <<>> /\ d = <<>> /\ k.ssn = 0 /\ k.lrs = SnModulus - 1
      /\ Ready(k, pl, dd)
  BY DEF Begun
<1>3. IsSeq(u)
  BY DEF Session
<1> HIDE DEF h, c, v
<1>4. Expected(f, c)
  BY <1>1, <1>2, SuccEnds DEF Expected
<1>5. Waiting(f, u, c) /\ NoAbort(u)
  BY <1>2, <1>4 DEF Waiting, NoAbort
<1>6. Waiting(f, v, c) /\ NoAbort(v) /\ IsSeq(v)
  BY <1>3, <1>5, WaitingSend, FitLemma DEF v
<1>7. \A i \in DOMAIN v : v[i] = c
  <2>1. \A i \in DOMAIN v : i \in DOMAIN u \/ v[i] = c
    BY <1>3, FitElements DEF v
  <2> QED BY <1>2, <2>1
<1>8. h.last # None /\ h.last[1] = c
  BY <1>1 DEF Some, None
<1>9. Ready(h, pl, dd)
  BY <1>1, <1>2, ReadyAlike
<1>10. h.ssn = Succ(c.seq.ssn) /\ c.seq.ssn = 0
  BY <1>1, <1>2
<1>11. Asking(h, f, v, d, pl, dd)
  BY <1>1, <1>2, <1>6, <1>7, <1>8, <1>9, <1>10 DEF Asking
<1> QED BY <1>1, <1>6, <1>11 DEF Session, h, v, c

LEMMA SegmentAsked ==
  ASSUME NEW k, NEW f, NEW u, NEW d, NEW pl, NEW dd, Session(TRUE, k, f, u, d, pl, dd),
         Released(k, f, u, d, pl, dd),
         NEW p \in DOMAIN pl, Loaded(k, pl, p), k.off < k.total, Holds(f, pl[p], k.off),
         Embeds(dd, pl, p - 1),
         NEW s, s = get_next_download_segment(k),
         NEW r, r = Sent([s.k EXCEPT !.st = "DownloadInProgress"], "ConnectionValidAckRequest",
                         "ConnectionValid", s.cmd, Dictionary)
  PROVE  Session(TRUE, r.k, f, Fit(u, r.out[1]), d, pl, dd)
<1> DEFINE e == End(k.buf, k.off)
           kk == [s.k EXCEPT !.st = "DownloadInProgress"]
<1>1. IsConnection(k)
  BY DEF Session
<1>2. /\ s.k = [k EXCEPT !.off = e] /\ ~s.cmd.abrt /\ e \in 0..k.total /\ e > 0
      /\ \A c : c.cmd = s.cmd => Carries(c, pl[p], k.off)
  BY <1>1, SegmentSent
<1>3. k \in [st : {k.st}, tid : {k.tid}, ssn : {k.ssn}, lrs : {k.lrs}, buf : {k.buf}, off : {k.off},
             total : {k.total}, armed : {k.armed}, left : {k.left}, last : {k.last}, job : {k.job},
             pend : {k.pend}] /\ k.left \in Nat
  BY <1>1 DEF IsConnection
<1> HIDE DEF e
<1>4. kk \in [st : {"DownloadInProgress"}, tid : {k.tid}, ssn : {k.ssn}, lrs : {k.lrs}, buf : {k.buf},
              off : {e}, total : {k.total}, armed : {k.armed}, left : {k.left}, last : {k.last},
              job : {k.job}, pend : {k.pend}]
  <2>1. s.k \in [st : {k.st}, tid : {k.tid}, ssn : {k.ssn}, lrs : {k.lrs}, buf : {k.buf},
              off : {e}, total : {k.total}, armed : {k.armed}, left : {k.left}, last : {k.last},
              job : {k.job}, pend : {k.pend}]
    BY ONLY <1>2, <1>3
  <2> QED BY ONLY <2>1
<1>5. r = Sent(kk, "ConnectionValidAckRequest", "ConnectionValid", s.cmd, Dictionary)
  OBVIOUS
<1> HIDE DEF kk
<1>6. /\ kk.st = "DownloadInProgress" /\ kk.tid = k.tid /\ kk.ssn = k.ssn /\ kk.lrs = k.lrs
      /\ kk.buf = k.buf /\ kk.off = e /\ kk.total = k.total /\ kk.job = k.job
  BY ONLY <1>4
<1>7. IsConnection(kk)
  BY ONLY <1>3, <1>4 DEF IsConnection
<1>8. Loaded(kk, pl, p)
  BY <1>2, <1>6 DEF Loaded, Queued
<1>9. Suits(kk, f, s.cmd, pl, dd)
  <2>1. k.off \in 0..kk.total /\ kk.off = End(kk.buf, k.off)
    BY <1>6 DEF Loaded, e
  <2> QED BY <1>2, <1>6, <1>8, <2>1 DEF Suits
<1> DEFINE cmd == s.cmd
<1>10. ~cmd.abrt /\ Suits(kk, f, cmd, pl, dd)
       /\ r = Sent(kk, "ConnectionValidAckRequest", "ConnectionValid", cmd, Dictionary)
       /\ kk.ssn = k.ssn /\ kk.lrs = k.lrs
  BY <1>2, <1>5, <1>6, <1>9
<1>11. Session(TRUE, k, f, u, d, pl, dd) /\ Released(k, f, u, d, pl, dd)
  OBVIOUS
<1> HIDE DEF cmd
<1> QED BY ONLY <1>7, <1>10, <1>11, Asked

\* get_pending_request of a connection that has something to send.
LEMMA Requested ==
  ASSUME NEW k, NEW f, NEW u, NEW d, NEW pl, NEW dd, Session(TRUE, k, f, u, d, pl, dd), Sends(k),
         NEW r, r = get_pending_request(k, Dictionary)
  PROVE  Session(TRUE, r.k, f, Fit(u, r.out[1]), d, pl, dd)
<1>1. k.last = None /\ IsConnection(k)
  BY DEF Sends, Session
<1>2. ~Asking(k, f, u, d, pl, dd) /\ ~Replied(k, f, u, d, pl, dd)
  BY <1>1 DEF Asking, Replied
<1>3. CASE Begun(k, u, d, pl, dd)
  <2> DEFINE cmd == ClientRequest(k.tid, "Expedited", "Nil", None, <<>>)
  <2>1. k.st = "Opening"
    BY <1>3 DEF Begun
  <2>2. r = Sent(k, "Initialization", "NoConnection", cmd, Dictionary)
    BY <1>1, <2>1 DEF get_pending_request
  <2>3. ~cmd.abrt /\ cmd.id = "Nil"
    BY DEF ClientRequest, Command
  <2> HIDE DEF cmd
  <2> QED BY <1>3, <2>2, <2>3, Opens
<1>4. CASE Released(k, f, u, d, pl, dd)
  <2> DEFINE s == get_next_download_segment(k)
  <2>1. CASE k.st = "Established" /\ Ready(k, pl, dd)
    <3>1. CASE /\ k.buf = <<>> /\ k.job = None
               /\ k.pend # None => k.pend[1].id = "ReadByIndex" /\ ~k.pend[1].abrt
      <4>1. ~prepare_next_job_command(k).ready
        BY <3>1 DEF prepare_next_job_command
      <4>2. k.pend # None
        BY <2>1, <3>1, <4>1 DEF Sends
      <4> DEFINE kk == [k EXCEPT !.st = "UploadInit", !.pend = None]
                 cmd == k.pend[1]
      <4>3. r = Sent(kk, "ConnectionValidAckRequest", "ConnectionValid", cmd, Dictionary)
        BY <1>1, <2>1, <3>1, <4>2 DEF get_pending_request
      <4>4. k \in [st : {k.st}, tid : {k.tid}, ssn : {k.ssn}, lrs : {k.lrs}, buf : {k.buf}, off : {k.off},
                   total : {k.total}, armed : {k.armed}, left : {k.left}, last : {k.last}, job : {k.job},
                   pend : {k.pend}] /\ k.left \in Nat
        BY <1>1 DEF IsConnection
      <4>5. kk \in [st : {"UploadInit"}, tid : {k.tid}, ssn : {k.ssn}, lrs : {k.lrs}, buf : {k.buf},
                    off : {k.off}, total : {k.total}, armed : {k.armed}, left : {k.left},
                    last : {k.last}, job : {k.job}, pend : {None}]
        BY ONLY <4>4
      <4> HIDE DEF kk
      <4>6. IsConnection(kk)
        BY ONLY <4>4, <4>5 DEF IsConnection
      <4>7. kk.st = "UploadInit" /\ kk.ssn = k.ssn /\ kk.lrs = k.lrs
        BY ONLY <4>5
      <4>8. ~cmd.abrt /\ Suits(kk, f, cmd, pl, dd)
        BY <3>1, <4>2, <4>7 DEF Suits
      <4>9. Session(TRUE, k, f, u, d, pl, dd)
        OBVIOUS
      <4> HIDE DEF cmd
      <4> QED BY ONLY <1>4, <4>3, <4>6, <4>7, <4>8, <4>9, Asked
    <3>2. CASE \E p \in DOMAIN pl : Loaded(k, pl, p) /\ k.off = 0 /\ Embeds(dd, pl, p - 1)
      <4>1. PICK p \in DOMAIN pl : Loaded(k, pl, p) /\ k.off = 0 /\ Embeds(dd, pl, p - 1)
        BY <3>2
      <4>2. k.buf # <<>> /\ k.off < k.total
        BY <4>1 DEF Loaded
      <4>3. r = Sent([s.k EXCEPT !.st = "DownloadInProgress"], "ConnectionValidAckRequest",
                     "ConnectionValid", s.cmd, Dictionary)
        BY <1>1, <2>1, <4>2 DEF get_pending_request
      <4>4. Holds(f, pl[p], k.off)
        BY <4>1 DEF Holds
      <4>5. s = get_next_download_segment(k) /\ Session(TRUE, k, f, u, d, pl, dd)
        OBVIOUS
      <4> HIDE DEF s
      <4> QED BY ONLY <1>4, <4>1, <4>2, <4>3, <4>4, <4>5, SegmentAsked
    <3> QED BY <2>1, <3>1, <3>2 DEF Ready
  <2>2. CASE k.st = "DownloadInProgress" /\ \E p \in DOMAIN pl :
               /\ Loaded(k, pl, p) /\ k.off > 0 /\ k.off < k.total
               /\ Holds(f, pl[p], k.off) /\ Embeds(dd, pl, p - 1)
    <3>1. PICK p \in DOMAIN pl :
               /\ Loaded(k, pl, p) /\ k.off > 0 /\ k.off < k.total
               /\ Holds(f, pl[p], k.off) /\ Embeds(dd, pl, p - 1)
      BY <2>2
    <3>2. r = Sent([s.k EXCEPT !.st = "DownloadInProgress"], "ConnectionValidAckRequest",
                   "ConnectionValid", s.cmd, Dictionary)
      BY <1>1, <2>2 DEF get_pending_request
    <3>3. s = get_next_download_segment(k) /\ Session(TRUE, k, f, u, d, pl, dd)
      OBVIOUS
    <3> HIDE DEF s
    <3> QED BY ONLY <1>4, <3>1, <3>2, <3>3, SegmentAsked
  <2>3. CASE k.st = "UploadInProgress"
    <3> DEFINE cmd == ClientRequest(k.tid, "Segment", "ReadByIndex", None, <<>>)
    <3>1. r = Sent(k, "ConnectionValidAckRequest", "ConnectionValid", cmd, Dictionary)
      BY <1>1, <2>3 DEF get_pending_request
    <3>2. ~cmd.abrt /\ cmd.id # "WriteByIndex"
      BY DEF ClientRequest, Command
    <3> HIDE DEF cmd
    <3>3. Suits(k, f, cmd, pl, dd)
      BY <2>3, <3>2 DEF Suits
    <3> QED BY <1>1, <1>4, <3>1, <3>2, <3>3, Asked
  <2> QED BY <1>4, <2>1, <2>2, <2>3 DEF Released
<1> QED BY <1>2, <1>3, <1>4 DEF Session

-----------------------------------------------------------------------------
(* A deadline of the client passes, or a response arrives.                  *)

LEMMA StaysOpen ==
  ASSUME NEW k, NEW f, NEW u, NEW d, NEW pl, NEW dd, Session(TRUE, k, f, u, d, pl, dd)
  PROVE  k.st # "Closed" /\ k.st # "Idle" /\ IsConnection(k)
BY DEF Session, Begun, Asking, Replied, Released

LEMMA GaveUp ==
  ASSUME NEW k, IsConnection(k), k.left = 0
  PROVE  \E r \in {client_tick(k)} :
           r.k.st = "Closed" /\ r.out[1].cmd.abrt /\ r.out[1].cmd.id = "Nil"
<1> DEFINE m == Packet(Header(k.lrs, "ConnectionValid", k.ssn, "NoConnection"),
                       Command(k.tid, FALSE, TRUE, "Expedited", "Nil", None, Le(SdoTimedOut, 4)))
           h == [k EXCEPT !.st = "Closed", !.last = None, !.armed = FALSE, !.job = None]
<1>1. client_tick(k) = client_abort(k, SdoTimedOut)
  BY DEF client_tick, IsConnection
<1>2. client_abort(k, SdoTimedOut) = [k |-> h, out |-> Some(m)]
  BY DEF client_abort
<1>3. h.st = "Closed"
  BY DEF IsConnection
<1>4. m.cmd.abrt /\ m.cmd.id = "Nil"
  BY DEF Packet, Command
<1> HIDE DEF m, h
<1>5. client_tick(k).k = h /\ client_tick(k).out = <<m>>
  BY <1>1, <1>2 DEF Some
<1> QED BY <1>3, <1>4, <1>5

LEMMA Retried ==
  ASSUME NEW k, IsConnection(k), k.left # 0
  PROVE  \E r \in {client_tick(k)} : r.out = k.last /\ IsConnection(r.k) /\ Alike(k, r.k)
<1> DEFINE h == [k EXCEPT !.left = @ - 1]
           l == k.left - 1
<1>1. k \in [st : {k.st}, tid : {k.tid}, ssn : {k.ssn}, lrs : {k.lrs}, buf : {k.buf}, off : {k.off},
             total : {k.total}, armed : {k.armed}, left : {k.left}, last : {k.last}, job : {k.job},
             pend : {k.pend}] /\ k.left \in Nat
  BY DEF IsConnection
<1>2. client_tick(k) = [k |-> h, out |-> k.last]
  BY <1>1 DEF client_tick
<1>3. h = [k EXCEPT !.left = l] /\ l \in Nat
  BY <1>1
<1> HIDE DEF h, l
<1>4. h \in [st : {k.st}, tid : {k.tid}, ssn : {k.ssn}, lrs : {k.lrs}, buf : {k.buf}, off : {k.off},
             total : {k.total}, armed : {k.armed}, left : {l}, last : {k.last}, job : {k.job},
             pend : {k.pend}]
  BY ONLY <1>1, <1>3
<1>5. IsConnection(h) /\ Alike(k, h)
  BY ONLY <1>3, <1>4 DEF IsConnection, Alike
<1> QED BY <1>2, <1>5

\* tick of a connection that repeats its request or gives up.
LEMMA TickSends ==
  ASSUME NEW k, NEW f, NEW u, NEW d, NEW pl, NEW dd, Session(TRUE, k, f, u, d, pl, dd),
         k.last # None \/ k.left = 0, NEW r, r = client_tick(k)
  PROVE  Session(r.k.st # "Closed", r.k, f, Fit(u, r.out[1]), d, pl, dd)
<1>1. IsConnection(k) /\ k.st # "Closed"
  BY StaysOpen
<1>2. CASE k.left = 0
  <2> DEFINE m == r.out[1]
             h == r.k
  <2>1. h.st = "Closed" /\ m.cmd.abrt /\ m.cmd.id = "Nil"
    BY <1>1, <1>2, GaveUp
  <2>2. Session(TRUE, k, f, u, d, pl, dd)
    OBVIOUS
  <2> HIDE DEF m, h
  <2>3. Session(FALSE, h, f, Fit(u, m), d, pl, dd)
    BY ONLY <2>1, <2>2, Aborted
  <2> QED BY <2>1, <2>3 DEF m, h
<1>3. CASE k.left # 0
  <2> DEFINE h == r.k
  <2>1. r.out = k.last /\ IsConnection(h) /\ Alike(k, h) /\ k.last # None
    BY <1>1, <1>3, Retried
  <2>2. Session(TRUE, k, f, u, d, pl, dd)
    OBVIOUS
  <2> HIDE DEF h
  <2>3. Session(TRUE, h, f, Fit(u, k.last[1]), d, pl, dd)
    BY ONLY <2>1, <2>2, Resent
  <2>4. h.st # "Closed"
    BY <1>1, <2>1 DEF Alike
  <2> QED BY <2>1, <2>3, <2>4 DEF h
<1> QED BY <1>2, <1>3

LEMMA TickMute ==
  ASSUME NEW k, NEW f, NEW u, NEW d, NEW pl, NEW dd, Session(TRUE, k, f, u, d, pl, dd),
         k.left # 0
  PROVE  Session(TRUE, client_tick(k).k, f, u, d, pl, dd)
<1>1. IsConnection(k)
  BY StaysOpen
<1>2. IsConnection(client_tick(k).k) /\ Alike(k, client_tick(k).k)
  BY <1>1, Retried
<1> QED BY <1>2, Muted

\* What a connection makes of the answer to its request: done, or what it
\* waits for next.
Matched(k, m) == k.last # None /\ m.seq.rsn = k.last[1].seq.ssn
Acked(k, m) == [k EXCEPT !.last = None, !.armed = FALSE, !.left = 0, !.lrs = m.seq.ssn]

LEMMA AckedLemma ==
  ASSUME NEW k, IsConnection(k), NEW m
  PROVE  \E b \in {Acked(k, m)} :
           /\ IsConnection(b) /\ b.st = k.st /\ b.tid = k.tid /\ b.ssn = k.ssn /\ b.lrs = m.seq.ssn
           /\ b.buf = k.buf /\ b.off = k.off /\ b.total = k.total /\ b.last = None /\ b.job = k.job
           /\ b.pend = k.pend
<1> DEFINE b == Acked(k, m)
           x == m.seq.ssn
<1>1. k \in [st : {k.st}, tid : {k.tid}, ssn : {k.ssn}, lrs : {k.lrs}, buf : {k.buf}, off : {k.off},
             total : {k.total}, armed : {k.armed}, left : {k.left}, last : {k.last}, job : {k.job},
             pend : {k.pend}]
  BY DEF IsConnection
<1>2. b = [k EXCEPT !.last = None, !.armed = FALSE, !.left = 0, !.lrs = x]
  BY DEF Acked
<1> HIDE DEF b, x
<1>3. b \in [st : {k.st}, tid : {k.tid}, ssn : {k.ssn}, lrs : {x}, buf : {k.buf}, off : {k.off},
             total : {k.total}, armed : {FALSE}, left : {0}, last : {None}, job : {k.job},
             pend : {k.pend}]
  BY ONLY <1>1, <1>2
<1>4. IsConnection(b)
  BY ONLY <1>3 DEF IsConnection
<1>5. /\ b.st = k.st /\ b.tid = k.tid /\ b.ssn = k.ssn /\ b.lrs = x
      /\ b.buf = k.buf /\ b.off = k.off /\ b.total = k.total /\ b.last = None /\ b.job = k.job
      /\ b.pend = k.pend
  BY ONLY <1>3
<1> QED BY <1>4, <1>5 DEF b, x

\* h is k in the state st.
Turned(k, h, st) ==
  /\ h.st = st /\ h.tid = k.tid /\ h.ssn = k.ssn /\ h.lrs = k.lrs /\ h.buf = k.buf
  /\ h.off = k.off /\ h.total = k.total /\ h.last = k.last /\ h.job = k.job /\ h.pend = k.pend

LEMMA TurnedLemma ==
  ASSUME NEW k, IsConnection(k), NEW st
  PROVE  IsConnection([k EXCEPT !.st = st]) /\ Turned(k, [k EXCEPT !.st = st], st)
<1> DEFINE h == [k EXCEPT !.st = st]
<1>1. k \in [st : {k.st}, tid : {k.tid}, ssn : {k.ssn}, lrs : {k.lrs}, buf : {k.buf}, off : {k.off},
             total : {k.total}, armed : {k.armed}, left : {k.left}, last : {k.last}, job : {k.job},
             pend : {k.pend}] /\ k.left \in Nat
  BY DEF IsConnection
<1>2. h \in [st : {st}, tid : {k.tid}, ssn : {k.ssn}, lrs : {k.lrs}, buf : {k.buf}, off : {k.off},
             total : {k.total}, armed : {k.armed}, left : {k.left}, last : {k.last}, job : {k.job},
             pend : {k.pend}]
  BY ONLY <1>1
<1> HIDE DEF h
<1>3. IsConnection(h) /\ Turned(k, h, st)
  BY ONLY <1>1, <1>2 DEF IsConnection, Turned
<1> QED BY <1>3 DEF h

\* b with the octets v of n in the state st.
Filled(b, v, n, st) == [[b EXCEPT !.buf = v, !.total = n] EXCEPT !.st = st]

LEMMA FilledLemma ==
  ASSUME NEW k, IsConnection(k), NEW v, NEW n, NEW st, NEW h, h = Filled(k, v, n, st)
  PROVE  IsConnection(h) /\ h.st = st /\ h.ssn = k.ssn /\ h.lrs = k.lrs /\ h.last = k.last
<1>1. k \in [st : {k.st}, tid : {k.tid}, ssn : {k.ssn}, lrs : {k.lrs}, buf : {k.buf}, off : {k.off},
             total : {k.total}, armed : {k.armed}, left : {k.left}, last : {k.last}, job : {k.job},
             pend : {k.pend}] /\ k.left \in Nat
  BY DEF IsConnection
<1>2. h = [[k EXCEPT !.buf = v, !.total = n] EXCEPT !.st = st]
  BY DEF Filled
<1>3. h \in [st : {st}, tid : {k.tid}, ssn : {k.ssn}, lrs : {k.lrs}, buf : {v}, off : {k.off},
             total : {n}, armed : {k.armed}, left : {k.left}, last : {k.last}, job : {k.job},
             pend : {k.pend}]
  BY ONLY <1>1, <1>2
<1> QED BY ONLY <1>1, <1>3 DEF IsConnection

\* Octets alone leave the number of them as it was.
Stocked(b, v, st) == [[b EXCEPT !.buf = v] EXCEPT !.st = st]
LEMMA FilledSame ==
  ASSUME NEW k, IsConnection(k), NEW v, NEW st
  PROVE  Stocked(k, v, st) = Filled(k, v, k.total, st)
<1>1. k \in [st : {k.st}, tid : {k.tid}, ssn : {k.ssn}, lrs : {k.lrs}, buf : {k.buf}, off : {k.off},
             total : {k.total}, armed : {k.armed}, left : {k.left}, last : {k.last}, job : {k.job},
             pend : {k.pend}]
  BY DEF IsConnection
<1>2. [k EXCEPT !.buf = v] = [k EXCEPT !.buf = v, !.total = k.total]
  BY ONLY <1>1
<1> QED BY <1>2 DEF Filled, Stocked

\* handle_response on the answer to the request that waits.
LEMMA Handled ==
  ASSUME NEW k, IsConnection(k), NEW m, Matched(k, m), k.lrs \in 0..SnModulus - 1,
         m.seq.ssn = Succ(k.lrs), ~m.cmd.abrt,
         NEW b, b = Acked(k, m), NEW r, r = handle_response(k, m)
  PROVE  /\ k.st = "Opening" =>
              /\ ~r.done
              /\ r.k = [b EXCEPT !.st = "Established"] \/ r.k = [b EXCEPT !.st = "Closed"]
         /\ k.st = "DownloadInProgress" /\ k.off < k.total =>
              ~r.done /\ r.k = [b EXCEPT !.st = k.st]
         /\ k.st = "DownloadInProgress" /\ ~(k.off < k.total) =>
              \E p \in {prepare_next_job_command(b)} :
                r.k = [p.k EXCEPT !.st = IF p.ready THEN "Established" ELSE "Closed"]
         /\ k.st \in {"UploadInit", "UploadInProgress"} =>
              /\ ~r.done
              /\ \/ r.k = [b EXCEPT !.st = "Closed"]
                 \/ \E v, n : r.k = Filled(b, v, n, "Closed") \/ r.k = Filled(b, v, n, "UploadInProgress")
<1> DEFINE q == m.seq
           c == m.cmd
           a == [k EXCEPT !.last = None, !.armed = FALSE, !.left = 0]
           p == prepare_next_job_command(b)
           to(kk, st) == [k |-> [kk EXCEPT !.st = st], done |-> FALSE]
<1>1. ~(k.last = None \/ q.rsn # k.last[1].seq.ssn)
  BY DEF Matched
<1>2. q.ssn # k.lrs /\ q.ssn = Succ(k.lrs) /\ ~c.abrt
  BY SuccLemma
<1>3. b = [a EXCEPT !.lrs = q.ssn]
  BY DEF Acked, IsConnection
<1> HIDE DEF a
<1>4. r =
     CASE k.st = "Opening" ->
            to(b, IF q.rcon = "Initialization" /\ q.scon = "Initialization"
                  THEN "Established" ELSE "Closed")
       [] k.st = "DownloadInProgress" ->
            IF k.off < k.total THEN to(b, k.st)
            ELSE [to(p.k, IF p.ready THEN "Established" ELSE "Closed") EXCEPT !.done = TRUE]
       [] k.st = "UploadInit" ->
            CASE c.seg = "Expedited" -> to([b EXCEPT !.buf = c.payload], "Closed")
              [] c.seg = "Initiate"  ->
                   to([b EXCEPT !.buf = <<>>, !.total = IF c.size = None THEN @ ELSE c.size[1]],
                      "UploadInProgress")
              [] OTHER               -> to(b, "Closed")
       [] k.st = "UploadInProgress" /\ c.seg \in {"Segment", "Complete"} ->
            to([b EXCEPT !.buf = @ \o c.payload],
               IF c.seg = "Complete" THEN "Closed" ELSE k.st)
       [] OTHER -> to(b, "Closed")
  <2> HIDE DEF to, p
  <2> QED BY <1>1, <1>2, <1>3 DEF handle_response, a, to, p
<1> HIDE DEF p, q, c
<1>5. CASE k.st = "Opening"
  BY <1>4, <1>5
<1>6. CASE k.st = "DownloadInProgress" /\ k.off < k.total
  BY <1>4, <1>6
<1>7. CASE k.st = "DownloadInProgress" /\ ~(k.off < k.total)
  <2>1. r = [to(p.k, IF p.ready THEN "Established" ELSE "Closed") EXCEPT !.done = TRUE]
    BY <1>4, <1>7
  <2>2. r.k = [p.k EXCEPT !.st = IF p.ready THEN "Established" ELSE "Closed"]
    BY <2>1
  <2> QED BY <1>7, <2>2 DEF p
<1>11. IsConnection(b)
  BY AckedLemma
<1>8. CASE k.st = "UploadInit"
  <2>1. CASE c.seg = "Expedited"
    <3> DEFINE w == Filled(b, c.payload, b.total, "Closed")
    <3>1. r = to([b EXCEPT !.buf = c.payload], "Closed")
      BY <1>4, <1>8, <2>1
    <3>5. Stocked(b, c.payload, "Closed") = w
      BY <1>11, FilledSame
    <3>2. [[b EXCEPT !.buf = c.payload] EXCEPT !.st = "Closed"] = w
      BY <3>5 DEF Stocked
    <3> HIDE DEF w
    <3>3. r = [k |-> w, done |-> FALSE]
      BY ONLY <3>1, <3>2
    <3>4. ~r.done /\ r.k = w
      BY ONLY <3>3
    <3> QED BY <1>8, <3>4 DEF w
  <2>2. CASE c.seg = "Initiate"
    <3> DEFINE n == IF c.size = None THEN b.total ELSE c.size[1]
               w == Filled(b, <<>>, n, "UploadInProgress")
    <3>1. r = to([b EXCEPT !.buf = <<>>, !.total = IF c.size = None THEN @ ELSE c.size[1]],
                 "UploadInProgress")
      BY <1>4, <1>8, <2>2
    <3>3. [b EXCEPT !.buf = <<>>, !.total = IF c.size = None THEN @ ELSE c.size[1]]
            = [b EXCEPT !.buf = <<>>, !.total = n]
      BY <1>11 DEF IsConnection
    <3> HIDE DEF n
    <3>4. [[b EXCEPT !.buf = <<>>, !.total = IF c.size = None THEN @ ELSE c.size[1]]
             EXCEPT !.st = "UploadInProgress"] = w
      BY <3>3 DEF Filled
    <3> HIDE DEF w
    <3>5. r = [k |-> w, done |-> FALSE]
      BY ONLY <3>1, <3>4
    <3>6. ~r.done /\ r.k = w
      BY ONLY <3>5
    <3> QED BY <1>8, <3>6 DEF w
  <2>3. CASE c.seg # "Expedited" /\ c.seg # "Initiate"
    <3>1. r = to(b, "Closed")
      BY <1>4, <1>8, <2>3
    <3> QED BY <1>8, <3>1
  <2> QED BY <2>1, <2>2, <2>3
<1>9. CASE k.st = "UploadInProgress"
  <2>1. CASE c.seg \in {"Segment", "Complete"}
    <3> DEFINE v == b.buf \o c.payload
               st == IF c.seg = "Complete" THEN "Closed" ELSE "UploadInProgress"
               w == Filled(b, v, b.total, st)
    <3>1. r = to([b EXCEPT !.buf = v], st)
      BY <1>4, <1>9, <2>1
    <3> HIDE DEF v
    <3>0. st \in {"Closed", "UploadInProgress"}
      OBVIOUS
    <3> HIDE DEF st
    <3>5. Stocked(b, v, st) = w
      BY <1>11, FilledSame
    <3>2. [[b EXCEPT !.buf = v] EXCEPT !.st = st] = w
      BY <3>5 DEF Stocked
    <3> HIDE DEF w
    <3>3. r = [k |-> w, done |-> FALSE]
      BY ONLY <3>1, <3>2
    <3>4. ~r.done /\ r.k = w
      BY ONLY <3>3
    <3> QED BY <1>9, <3>0, <3>4 DEF w
  <2>2. CASE c.seg \notin {"Segment", "Complete"}
    <3>1. r = to(b, "Closed")
      BY <1>4, <1>9, <2>2
    <3> QED BY <1>9, <3>1
  <2> QED BY <2>1, <2>2
<1>10. CASE k.st \notin {"Opening", "DownloadInProgress", "UploadInit", "UploadInProgress"}
  BY <1>10
<1> QED BY <1>5, <1>6, <1>7, <1>8, <1>9, <1>10

\* A response that answers nothing changes nothing.
LEMMA Ignored ==
  ASSUME NEW k, IsConnection(k), NEW m, ~Matched(k, m), NEW r, r = handle_response(k, m)
  PROVE  ~r.done /\ IsConnection(r.k) /\ Alike(k, r.k)
<1> DEFINE h == [k EXCEPT !.st = k.st]
<1>1. r = [k |-> h, done |-> FALSE]
  BY DEF handle_response, Matched
<1>2. IsConnection(h) /\ Turned(k, h, k.st)
  BY TurnedLemma
<1> HIDE DEF h
<1>3. ~r.done /\ r.k = h
  BY ONLY <1>1
<1> QED BY <1>2, <1>3 DEF Turned, Alike

\* Only the answer of a server that has executed the request answers it.
LEMMA OnlyReplied ==
  ASSUME NEW k, NEW f, NEW u, NEW d, NEW pl, NEW dd, Session(TRUE, k, f, u, d, pl, dd), d # <<>>,
         Matched(k, Head(d))
  PROVE  /\ Replied(k, f, u, d, pl, dd) /\ Head(d) = f.reply[1]
         /\ \A i \in DOMAIN Tail(d) : Tail(d)[i] = f.reply[1]
         /\ Head(d).seq.ssn = f.ssn /\ f.ssn = Succ(k.lrs) /\ ~Head(d).cmd.abrt
<1>1. IsSeq(d)
  BY DEF Session
<1>2. /\ Head(d) = d[1] /\ 1 \in DOMAIN d /\ DOMAIN d = 1..Len(d) /\ Len(d) \in Nat
      /\ \A i \in DOMAIN Tail(d) : i + 1 \in DOMAIN d /\ Tail(d)[i] = d[i + 1]
      /\ DOMAIN Tail(d) = 1..Len(d) - 1
  BY <1>1, TailLemma
<1>3. k.last # None /\ d[1].seq.rsn = k.last[1].seq.ssn
  BY <1>2 DEF Matched
<1>4. ~Begun(k, u, d, pl, dd) /\ ~Released(k, f, u, d, pl, dd)
  BY <1>3 DEF Begun, Released
<1>5. ~Asking(k, f, u, d, pl, dd)
  BY <1>2, <1>3 DEF Asking
<1>6. Replied(k, f, u, d, pl, dd)
  BY <1>4, <1>5 DEF Session
<1>7. d[1] = f.reply[1]
  BY <1>2, <1>3, <1>6 DEF Replied
<1>8. ASSUME NEW i \in DOMAIN Tail(d) PROVE Tail(d)[i] = f.reply[1]
  <2>1. i + 1 \in DOMAIN d /\ 1 < i + 1 /\ Tail(d)[i] = d[i + 1]
    BY <1>2
  <2> QED BY <1>2, <1>6, <1>7, <2>1 DEF Replied
<1>9. f.reply[1].seq.ssn = f.ssn /\ ~f.reply[1].cmd.abrt /\ f.ssn = Succ(k.lrs)
  BY <1>6 DEF Replied, Standing
<1> QED BY <1>2, <1>6, <1>7, <1>8, <1>9

\* The last write the server has executed is the one of k.
Delivered(k, dd) == dd # <<>> /\ dd[Len(dd)] = <<k.tid, k.buf>>

\* The client takes the answer.
LEMMA Answers ==
  ASSUME NEW k, NEW f, NEW u, NEW d, NEW pl, NEW dd, Session(TRUE, k, f, u, d, pl, dd), d # <<>>,
         NEW r, r = handle_response(k, Head(d))
  PROVE  /\ Session(r.k.st # "Closed", r.k, f, u, Tail(d), pl, dd)
         /\ r.done => Delivered(k, dd)
<1> DEFINE m == Head(d)
           e == Tail(d)
           h == r.k
<1>1. IsConnection(k) /\ k.st # "Closed"
  BY StaysOpen
<1>2. Session(TRUE, k, f, u, e, pl, dd) /\ IsSeq(e)
  BY LostResponse DEF Session
<1>3. \A x : Session(FALSE, x, f, u, e, pl, dd)
  BY <1>2, Closed
<1>4. CASE ~Matched(k, m)
  <2>1. ~r.done /\ IsConnection(h) /\ Alike(k, h)
    BY <1>1, <1>4, Ignored
  <2> HIDE DEF h, e
  <2>2. Session(TRUE, h, f, u, e, pl, dd)
    BY <1>2, <2>1, Muted
  <2>3. h.st # "Closed"
    BY <1>1, <2>1 DEF Alike
  <2> QED BY <2>1, <2>2, <2>3 DEF h, e
<1>5. CASE Matched(k, m)
  <2> DEFINE b == Acked(k, m)
  <2>1. /\ Replied(k, f, u, d, pl, dd)
        /\ \A i \in DOMAIN e : e[i] = f.reply[1]
        /\ m.seq.ssn = f.ssn /\ f.ssn = Succ(k.lrs) /\ ~m.cmd.abrt
    BY <1>5, OnlyReplied
  <2>2. /\ IsConnection(b) /\ b.st = k.st /\ b.tid = k.tid /\ b.ssn = k.ssn /\ b.lrs = f.ssn
        /\ b.buf = k.buf /\ b.off = k.off /\ b.total = k.total /\ b.last = None /\ b.job = k.job
        /\ b.pend = k.pend
    <3> HIDE DEF m
    <3>1. \E x \in {Acked(k, m)} :
           /\ IsConnection(x) /\ x.st = k.st /\ x.tid = k.tid /\ x.ssn = k.ssn /\ x.lrs = m.seq.ssn
           /\ x.buf = k.buf /\ x.off = k.off /\ x.total = k.total /\ x.last = None /\ x.job = k.job
           /\ x.pend = k.pend
      BY ONLY <1>1, AckedLemma
    <3> QED BY ONLY <2>1, <3>1
  <2>3. Standing(f, u) /\ k.ssn = Succ(f.lrs) /\ k.lrs \in 0..SnModulus - 1
    BY <2>1 DEF Replied
  <2>4. /\ k.st = "Opening" =>
             /\ ~r.done
             /\ r.k = [b EXCEPT !.st = "Established"] \/ r.k = [b EXCEPT !.st = "Closed"]
        /\ k.st = "DownloadInProgress" /\ k.off < k.total =>
             ~r.done /\ r.k = [b EXCEPT !.st = k.st]
        /\ k.st = "DownloadInProgress" /\ ~(k.off < k.total) =>
             \E p \in {prepare_next_job_command(b)} :
               r.k = [p.k EXCEPT !.st = IF p.ready THEN "Established" ELSE "Closed"]
        /\ k.st \in {"UploadInit", "UploadInProgress"} =>
             /\ ~r.done
             /\ \/ r.k = [b EXCEPT !.st = "Closed"]
                \/ \E v, n : r.k = Filled(b, v, n, "Closed") \/ r.k = Filled(b, v, n, "UploadInProgress")
    <3>1. m.seq.ssn = Succ(k.lrs) /\ b = Acked(k, m) /\ r = handle_response(k, m) /\ ~m.cmd.abrt
      BY <2>1
    <3> HIDE DEF b, m
    <3> QED BY ONLY <1>1, <1>5, <2>3, <3>1, Handled
  <2>5. \A st : IsConnection([b EXCEPT !.st = st]) /\ Turned(b, [b EXCEPT !.st = st], st)
    BY <2>2, TurnedLemma
  <2> SUFFICES /\ Session(h.st # "Closed", h, f, u, e, pl, dd)
               /\ r.done => Delivered(k, dd)
    OBVIOUS
  <2>6. ASSUME IsConnection(h), Released(h, f, u, e, pl, dd), h.st # "Closed"
        PROVE  Session(h.st # "Closed", h, f, u, e, pl, dd)
    BY <1>2, <2>6 DEF Session
  <2>7. ASSUME h.st = "Closed" PROVE Session(h.st # "Closed", h, f, u, e, pl, dd)
    BY <1>3, <2>7
  <2>8. ASSUME IsConnection(h), h.last = None, h.ssn = k.ssn, h.lrs = f.ssn, h.st = "UploadInProgress"
        PROVE  Session(h.st # "Closed", h, f, u, e, pl, dd)
    <3>1. Released(h, f, u, e, pl, dd)
      BY <2>1, <2>3, <2>8 DEF Released
    <3> QED BY <2>6, <2>8, <3>1
  <2> HIDE DEF h, e, b, m
  <2>9. CASE k.st = "Opening" /\ Ready(k, pl, dd)
    <3>1. CASE h = [b EXCEPT !.st = "Closed"]
      <4>1. h.st = "Closed"
        BY <2>5, <3>1 DEF Turned
      <4> QED BY <2>4, <2>7, <2>9, <4>1
    <3>2. CASE h = [b EXCEPT !.st = "Established"]
      <4>1. IsConnection(h) /\ Turned(b, h, "Established")
        BY <2>5, <3>2
      <4>2. Ready(h, pl, dd)
        BY <2>2, <2>9, <4>1, ReadyAlike DEF Turned
      <4>3. Released(h, f, u, e, pl, dd)
        BY <2>1, <2>2, <2>3, <4>1, <4>2 DEF Released, Turned
      <4> QED BY <2>4, <2>6, <2>9, <4>1, <4>3 DEF Turned
    <3> QED BY <2>4, <2>9, <3>1, <3>2 DEF h
  <2>10. CASE k.st = "DownloadInProgress" /\ \E p \in DOMAIN pl :
            /\ Loaded(k, pl, p) /\ k.off > 0 /\ Holds(f, pl[p], k.off)
            /\ IF k.off < k.total THEN Embeds(dd, pl, p - 1)
               ELSE dd # <<>> /\ dd[Len(dd)] = pl[p] /\ Embeds(dd, pl, p)
    <3>1. PICK p \in DOMAIN pl :
            /\ Loaded(k, pl, p) /\ k.off > 0 /\ Holds(f, pl[p], k.off)
            /\ IF k.off < k.total THEN Embeds(dd, pl, p - 1)
               ELSE dd # <<>> /\ dd[Len(dd)] = pl[p] /\ Embeds(dd, pl, p)
      BY <2>10
    <3>2. CASE k.off < k.total
      <4>1. ~r.done /\ h = [b EXCEPT !.st = k.st]
        BY <2>4, <2>10, <3>2 DEF h
      <4>2. IsConnection(h) /\ Turned(b, h, k.st)
        BY <2>5, <4>1
      <4>3. Loaded(h, pl, p)
        BY <2>2, <3>1, <4>2, LoadedAlike DEF Turned
      <4>4. h.st = "DownloadInProgress" /\ h.off = k.off /\ h.total = k.total
        BY <2>2, <2>10, <4>2 DEF Turned
      <4>5. Released(h, f, u, e, pl, dd)
        BY <2>1, <2>2, <2>3, <3>1, <3>2, <4>2, <4>3, <4>4 DEF Released, Turned
      <4> QED BY <2>6, <4>1, <4>2, <4>4, <4>5
    <3>3. CASE ~(k.off < k.total)
      <4> DEFINE g == prepare_next_job_command(b).k
                 ready == prepare_next_job_command(b).ready
                 st == IF ready THEN "Established" ELSE "Closed"
      <4>1. h = [g EXCEPT !.st = st]
        BY <2>4, <2>10, <3>3 DEF h
      <4>2. k.tid \in 1..255 /\ Queued(k, pl, p) /\ p \in Nat /\ pl[p] = <<k.tid, k.buf>>
        <5>1. DOMAIN pl = 1..Len(pl) /\ Len(pl) \in Nat
          BY AppendLemma DEF Session, IsPlan
        <5> QED BY <3>1, <5>1 DEF Loaded
      <4>3. b.tid \in 1..255 /\ Queued(b, pl, p)
        BY <2>2, <4>2 DEF Queued
      <4>4. IsConnection(g) /\ Follows(b, g) /\ (ready => Loaded(g, pl, p + 1) /\ g.off = 0)
        BY <2>2, <4>2, <4>3, Prepared
      <4> HIDE DEF g, ready
      <4>5. IsConnection(h) /\ Turned(g, h, st)
        BY <4>1, <4>4, TurnedLemma
      <4>6. Delivered(k, dd) /\ Embeds(dd, pl, p)
        BY <3>1, <3>3, <4>2 DEF Delivered
      <4>7. CASE ready
        <5>1. Loaded(h, pl, p + 1) /\ h.off = 0
          BY <4>4, <4>5, <4>7, LoadedAlike DEF Turned
        <5>2. p + 1 \in DOMAIN pl /\ (p + 1) - 1 = p
          BY <4>2, <5>1 DEF Loaded
        <5>3. Ready(h, pl, dd)
          BY <4>6, <5>1, <5>2 DEF Ready
        <5>4. h.st = "Established"
          BY <4>5, <4>7 DEF Turned
        <5>5. h.last = None /\ h.ssn = k.ssn /\ h.lrs = f.ssn
          BY <2>2, <4>4, <4>5 DEF Turned, Follows
        <5>6. Released(h, f, u, e, pl, dd)
          BY <2>1, <2>3, <5>3, <5>4, <5>5 DEF Released
        <5> QED BY <2>6, <4>5, <4>6, <5>4, <5>6
      <4>8. CASE ~ready
        <5>1. h.st = "Closed"
          BY <4>5, <4>8 DEF Turned
        <5> QED BY <2>7, <4>6, <5>1
      <4> QED BY <4>7, <4>8
    <3> QED BY <3>2, <3>3
  <2>11. CASE k.st \in {"UploadInit", "UploadInProgress"}
    <3>1. ~r.done
      BY <2>4, <2>11
    <3>2. CASE h = [b EXCEPT !.st = "Closed"]
      <4>1. h.st = "Closed"
        BY <2>5, <3>2 DEF Turned
      <4> QED BY <2>7, <3>1, <4>1
    <3>3. CASE \E v, n : h = Filled(b, v, n, "Closed") \/ h = Filled(b, v, n, "UploadInProgress")
      <4>1. PICK v, n : h = Filled(b, v, n, "Closed") \/ h = Filled(b, v, n, "UploadInProgress")
        BY <3>3
      <4>2. /\ IsConnection(h) /\ h.st \in {"Closed", "UploadInProgress"}
            /\ h.ssn = b.ssn /\ h.lrs = b.lrs /\ h.last = b.last
        BY <2>2, <4>1, FilledLemma
      <4>3. h.ssn = k.ssn /\ h.lrs = f.ssn /\ h.last = None
        BY <2>2, <4>2
      <4> QED BY <2>7, <2>8, <3>1, <4>2, <4>3
    <3> QED BY <2>4, <2>11, <3>2, <3>3 DEF h
  <2> QED BY <2>1, <2>9, <2>10, <2>11 DEF Replied
<1> QED BY <1>4, <1>5

-----------------------------------------------------------------------------
(* A job starts.                                                            *)

LEMMA PlanJoin ==
  ASSUME NEW pl, IsPlan(pl), NEW w, IsPlan(w)
  PROVE  /\ IsPlan(pl \o w) /\ Len(pl) \in Nat /\ Len(w) \in Nat /\ DOMAIN w = 1..Len(w)
         /\ \A i \in DOMAIN w : Len(pl) + i \in DOMAIN (pl \o w) /\ (pl \o w)[Len(pl) + i] = w[i]
<1> DEFINE x == pl \o w
<1>1. /\ IsSeq(x) /\ Len(pl) \in Nat /\ Len(w) \in Nat /\ Len(x) = Len(pl) + Len(w)
      /\ DOMAIN pl = 1..Len(pl) /\ DOMAIN w = 1..Len(w) /\ DOMAIN x = 1..Len(pl) + Len(w)
      /\ \A i \in 1..Len(pl) : x[i] = pl[i]
      /\ \A i \in 1..Len(w) : x[Len(pl) + i] = w[i]
  BY JoinLemma DEF IsPlan
<1> HIDE DEF x
<1>2. ASSUME NEW p \in DOMAIN x PROVE x[p] = <<x[p][1], x[p][2]>> /\ x[p][2] \in Seq(UNSIGNED8)
  <2>1. CASE p \in DOMAIN pl
    <3>1. x[p] = pl[p]
      BY <1>1, <2>1
    <3> QED BY <2>1, <3>1 DEF IsPlan
  <2>2. CASE p \notin DOMAIN pl
    <3>1. p - Len(pl) \in DOMAIN w /\ Len(pl) + (p - Len(pl)) = p
      BY <1>1, <2>2
    <3>2. x[p] = w[p - Len(pl)]
      BY <1>1, <3>1
    <3> QED BY <3>1, <3>2 DEF IsPlan
  <2> QED BY <2>1, <2>2
<1>3. IsPlan(x)
  BY <1>1, <1>2 DEF IsPlan
<1>4. \A i \in DOMAIN w : Len(pl) + i \in DOMAIN x /\ x[Len(pl) + i] = w[i]
  BY <1>1
<1> QED BY <1>1, <1>3, <1>4 DEF x

LEMMA TableLemma ==
  ASSUME NEW L \in Nat, NEW w, w = [i \in 1..L |-> w[i]]
  PROVE  IsSeq(w) /\ Len(w) = L /\ DOMAIN w = 1..L
<1>1. w \in [1..L -> {w[i] : i \in 1..L}] /\ DOMAIN w = 1..L
  BY Zenon
<1>2. w \in Seq({w[i] : i \in DOMAIN w})
  BY <1>1
<1> QED BY <1>1, <1>2 DEF IsSeq

LEMMA NoWrites == IsPlan(<<>>) /\ \A pl : IsSeq(pl) => pl \o <<>> = pl
<1>1. IsSeq(<<>>) /\ \A p : p \notin DOMAIN <<>>
  BY DEF IsSeq
<1>2. ASSUME NEW pl, IsSeq(pl) PROVE pl \o <<>> = pl
  BY <1>2 DEF IsSeq
<1> QED BY <1>1, <1>2 DEF IsPlan

LEMMA OneWrite ==
  ASSUME NEW t, NEW b \in Seq(UNSIGNED8)
  PROVE  \E w \in {<<<<t, b>>>>} : IsPlan(w) /\ DOMAIN w = {1} /\ w[1][1] = t /\ w[1][2] = b
<1> DEFINE x == <<t, b>>
           w == <<x>>
<1>1. x = <<x[1], x[2]>> /\ x[2] = b /\ x[1] = t
  OBVIOUS
<1> HIDE DEF x
<1>2. DOMAIN w = {1} /\ w[1] = x /\ w \in Seq({w[i] : i \in DOMAIN w})
  OBVIOUS
<1> HIDE DEF w
<1>3. IsPlan(w)
  BY <1>1, <1>2 DEF IsPlan, IsSeq
<1> QED BY <1>1, <1>2, <1>3 DEF w, x

\* The connection of a job that starts.
Starting(k, j, t) ==
  CASE j.kind = "read"  -> start_read_job(k, j.index, j.sub, t, Dictionary)
    [] j.kind = "write" -> start_write_job(k, j.index, j.sub, j.data, t, Dictionary)
    [] j.kind = "dcf"   -> start_concise_dcf_job(k, j.entries, j.n, t, Dictionary)

LEMMA OpeningLemma ==
  ASSUME NEW t
  PROVE  Opening(NewConnection, t, Dictionary) \in
           [st : {"Opening"}, tid : {t}, ssn : {0}, lrs : {SnModulus - 1}, buf : {<<>>}, off : {0},
            total : {0}, armed : {TRUE}, left : {Retries(Dictionary)}, last : {None},
            job : {None}, pend : {None}]
<1> DEFINE l == Retries(Dictionary)
           z == SnModulus - 1
<1>1. Opening(NewConnection, t, Dictionary) =
        [NewConnection EXCEPT !.st = "Opening", !.tid = t, !.ssn = 0, !.lrs = z, !.buf = <<>>,
                              !.armed = TRUE, !.left = l]
  BY DEF Opening
<1> HIDE DEF l
<1>2. NewConnection = [st |-> "Idle", tid |-> 0, ssn |-> 0, lrs |-> z, buf |-> <<>>, off |-> 0,
         total |-> 0, armed |-> FALSE, left |-> 0, last |-> None, job |-> None, pend |-> None]
  BY DEF NewConnection
<1> HIDE DEF z
<1>3. Opening(NewConnection, t, Dictionary) \in
           [st : {"Opening"}, tid : {t}, ssn : {0}, lrs : {z}, buf : {<<>>}, off : {0},
            total : {0}, armed : {TRUE}, left : {l}, last : {None},
            job : {None}, pend : {None}]
  BY ONLY <1>1, <1>2
<1> QED BY <1>3 DEF z, l

\* What every job begins with.
LEMMA BegunFrom ==
  ASSUME NEW f, NEW pl, NEW dd, NEW h, Session(FALSE, h, f, <<>>, <<>>, pl, dd),
         NEW w, IsPlan(w), NEW k, IsConnection(k), k.st = "Opening", k.last = None, k.ssn = 0,
         k.lrs = SnModulus - 1, Ready(k, pl \o w, dd)
  PROVE  Session(TRUE, k, f, <<>>, <<>>, pl \o w, dd)
<1> DEFINE x == pl \o w
<1>1. IsPeer(f) /\ IsSeq(<<>>) /\ IsPlan(pl) /\ IsSeq(dd) /\ Embeds(dd, pl, Len(pl))
  BY DEF Session
<1>2. IsPlan(x) /\ IsSeq(x) /\ IsSeq(pl) /\ IsSeq(w)
  BY <1>1, PlanJoin DEF IsPlan
<1>3. Embeds(dd, x, Len(pl))
  BY <1>1, <1>2, EmbedsPlan
<1>4. Len(pl) \in Nat /\ Len(w) \in Nat /\ Len(x) = Len(pl) + Len(w)
  BY <1>2, JoinLemma
<1> HIDE DEF x
<1>5. Len(x) \in 0..Len(x) /\ Len(pl) <= Len(x)
  BY <1>4
<1>6. Embeds(dd, x, Len(x))
  BY <1>2, <1>3, <1>5, EmbedsMore
<1>7. Begun(k, <<>>, <<>>, x, dd)
  BY DEF Begun, x
<1> QED BY <1>1, <1>2, <1>6, <1>7 DEF Session, x

LEMMA ReadStarts ==
  ASSUME NEW f, NEW pl, NEW dd, NEW h, Session(FALSE, h, f, <<>>, <<>>, pl, dd), NEW t \in 1..255,
         NEW i, NEW s, NEW k, k = start_read_job(NewConnection, i, s, t, Dictionary)
  PROVE  Session(TRUE, k, f, <<>>, <<>>, pl \o <<>>, dd)
<1> DEFINE op == Opening(NewConnection, t, Dictionary)
           c == ClientRequest(t, "Expedited", "ReadByIndex", None, AddressPayload(i, s))
           sc == Some(c)
           z == SnModulus - 1
           l == Retries(Dictionary)
<1>1. k = [op EXCEPT !.pend = sc]
  BY DEF start_read_job
<1>2. c.id = "ReadByIndex" /\ ~c.abrt
  BY DEF ClientRequest, Command
<1>3. op \in [st : {"Opening"}, tid : {t}, ssn : {0}, lrs : {z}, buf : {<<>>}, off : {0},
              total : {0}, armed : {TRUE}, left : {l}, last : {None}, job : {None}, pend : {None}]
  BY OpeningLemma
<1>4. l \in Nat
  BY RetriesNat
<1>5. sc # None /\ sc[1] = c
  BY DEF Some, None
<1> HIDE DEF op, c, sc, z, l
<1>6. k \in [st : {"Opening"}, tid : {t}, ssn : {0}, lrs : {z}, buf : {<<>>}, off : {0},
             total : {0}, armed : {TRUE}, left : {l}, last : {None}, job : {None}, pend : {sc}]
  BY ONLY <1>1, <1>3
<1>7. IsConnection(k)
  BY ONLY <1>4, <1>6 DEF IsConnection
<1>8. /\ k.st = "Opening" /\ k.last = None /\ k.ssn = 0 /\ k.lrs = z /\ k.buf = <<>> /\ k.job = None
      /\ k.pend = sc
  BY ONLY <1>6
<1>9. Ready(k, pl \o <<>>, dd)
  BY <1>2, <1>5, <1>8 DEF Ready
<1> QED BY <1>7, <1>8, <1>9, BegunFrom, NoWrites DEF z

LEMMA WriteStarts ==
  ASSUME NEW f, NEW pl, NEW dd, NEW h, Session(FALSE, h, f, <<>>, <<>>, pl, dd), NEW t \in 1..255,
         NEW i \in UNSIGNED16, NEW s \in UNSIGNED8, NEW data \in Seq(UNSIGNED8),
         Fits(Len(AddressPayload(i, s) \o data)),
         NEW k, k = start_write_job(NewConnection, i, s, data, t, Dictionary)
  PROVE  Session(TRUE, k, f, <<>>, <<>>, pl \o <<<<t, AddressPayload(i, s) \o data>>>>, dd)
<1> DEFINE op == Opening(NewConnection, t, Dictionary)
           b == AddressPayload(i, s) \o data
           n == Len(b)
           z == SnModulus - 1
           l == Retries(Dictionary)
           w == <<<<t, b>>>>
           x == pl \o w
           p == Len(pl) + 1
<1>1. k = [op EXCEPT !.buf = b, !.total = n, !.off = 0]
  BY DEF start_write_job
<1>2. b \in Seq(UNSIGNED8) /\ b # <<>> /\ Fits(n) /\ n \in Nat
  <2>1. b \in Seq(UNSIGNED8) /\ b # <<>> /\ Fits(n)
    BY EntryLemma
  <2> HIDE DEF b
  <2> QED BY <2>1
<1>3. op \in [st : {"Opening"}, tid : {t}, ssn : {0}, lrs : {z}, buf : {<<>>}, off : {0},
              total : {0}, armed : {TRUE}, left : {l}, last : {None}, job : {None}, pend : {None}]
  BY OpeningLemma
<1>4. l \in Nat
  BY RetriesNat
<1> HIDE DEF op, b, z, l
<1>5. IsPlan(w) /\ 1 \in DOMAIN w /\ w[1] = <<t, b>>
  <2>1. IsPlan(w) /\ DOMAIN w = {1} /\ w[1] = <<t, b>>
    BY <1>2, OneWrite
  <2> QED BY <2>1
<1>0. n = Len(b)
  OBVIOUS
<1> HIDE DEF n, w
<1>6. k \in [st : {"Opening"}, tid : {t}, ssn : {0}, lrs : {z}, buf : {b}, off : {0},
             total : {n}, armed : {TRUE}, left : {l}, last : {None}, job : {None}, pend : {None}]
  BY ONLY <1>1, <1>3
<1>7. IsConnection(k)
  BY ONLY <1>4, <1>6 DEF IsConnection
<1>8. /\ k.st = "Opening" /\ k.last = None /\ k.ssn = 0 /\ k.lrs = z /\ k.buf = b /\ k.job = None
      /\ k.tid = t /\ k.off = 0 /\ k.total = n
  BY ONLY <1>6
<1>9. IsPlan(pl) /\ IsSeq(pl) /\ Embeds(dd, pl, Len(pl))
  BY DEF Session, IsPlan
<1>10. Len(pl) \in Nat /\ p \in DOMAIN x /\ x[p] = <<t, b>>
  <2>1. /\ Len(pl) \in Nat
        /\ \A j \in DOMAIN w : Len(pl) + j \in DOMAIN (pl \o w) /\ (pl \o w)[Len(pl) + j] = w[j]
    BY ONLY <1>5, <1>9, PlanJoin
  <2> QED BY ONLY <1>5, <2>1
<1>11. Embeds(dd, x, p - 1)
  <2>1. Embeds(dd, x, Len(pl))
    BY <1>5, <1>9, EmbedsPlan DEF IsPlan
  <2>2. p - 1 = Len(pl)
    BY <1>10
  <2> QED BY <2>1, <2>2
<1> HIDE DEF x, p
<1>12. Loaded(k, x, p)
  BY <1>0, <1>2, <1>8, <1>10 DEF Loaded, Queued
<1>13. Ready(k, x, dd)
  BY <1>8, <1>10, <1>11, <1>12 DEF Ready
<1>14. Session(TRUE, k, f, <<>>, <<>>, pl \o w, dd)
  BY <1>5, <1>7, <1>8, <1>13, BegunFrom DEF x, z
<1> QED BY <1>14 DEF w, b

\* The writes of a Concise DCF.
DcfWrites(entries, n, t) ==
  [i \in 1..Least(n, Len(entries)) |-> <<Later(t, i), EntryBytes(entries[i])>>]

LEMMA DcfWritesLemma ==
  ASSUME NEW entries \in Seq(Entries), NEW n \in Nat, NEW t,
         NEW w, w = DcfWrites(entries, n, t), NEW L, L = Least(n, Len(entries))
  PROVE  /\ L \in Nat /\ IsPlan(w) /\ Len(w) = L /\ DOMAIN w = 1..L
         /\ \A i \in 1..L : i \in DOMAIN entries /\ w[i] = <<Later(t, i), EntryBytes(entries[i])>>
<1>1. L \in Nat /\ L <= Len(entries) /\ Len(entries) \in Nat /\ DOMAIN entries = 1..Len(entries)
  BY DEF Least
<1>2. w = [i \in 1..L |-> <<Later(t, i), EntryBytes(entries[i])>>]
  BY DEF DcfWrites
<1>3. \A i \in 1..L : w[i] = <<Later(t, i), EntryBytes(entries[i])>>
  BY <1>2
<1>4. w = [i \in 1..L |-> w[i]]
  BY <1>2, <1>3
<1>5. IsSeq(w) /\ Len(w) = L /\ DOMAIN w = 1..L
  BY <1>1, <1>4, TableLemma
<1>6. \A i \in 1..L : i \in DOMAIN entries /\ entries[i] \in Entries
  BY <1>1
<1>7. ASSUME NEW p \in DOMAIN w PROVE w[p] = <<w[p][1], w[p][2]>> /\ w[p][2] \in Seq(UNSIGNED8)
  <2> DEFINE a == Later(t, p)
             b == EntryBytes(entries[p])
  <2>1. w[p] = <<a, b>>
    BY <1>3, <1>5
  <2>2. b \in Seq(UNSIGNED8)
    BY <1>5, <1>6, EntryBytesLemma
  <2> HIDE DEF a, b
  <2> QED BY ONLY <2>1, <2>2
<1>8. IsPlan(w)
  BY <1>5, <1>7 DEF IsPlan
<1> QED BY <1>1, <1>3, <1>5, <1>6, <1>8

LEMMA DcfStarts ==
  ASSUME NEW f, NEW pl, NEW dd, NEW h, Session(FALSE, h, f, <<>>, <<>>, pl, dd), NEW t \in 1..255,
         NEW entries \in Seq(Entries), NEW n \in Nat,
         NEW w, w = DcfWrites(entries, n, t),
         \A i \in DOMAIN w : Fits(Len(w[i][2])),
         NEW k, k = start_concise_dcf_job(NewConnection, entries, n, t, Dictionary)
  PROVE  Session(TRUE, k, f, <<>>, <<>>, pl \o w, dd)
<1> DEFINE L == Least(n, Len(entries))
           op == Opening(NewConnection, t, Dictionary)
           job == [entries |-> entries, n |-> n]
           sj == Some(job)
           a == [op EXCEPT !.job = sj]
           z == SnModulus - 1
           l == Retries(Dictionary)
           x == pl \o w
           q == Len(pl)
<1>1. k = prepare_next_job_command(a).k
  BY DEF start_concise_dcf_job
<1>2. op \in [st : {"Opening"}, tid : {t}, ssn : {0}, lrs : {z}, buf : {<<>>}, off : {0},
              total : {0}, armed : {TRUE}, left : {l}, last : {None}, job : {None}, pend : {None}]
  BY OpeningLemma
<1>3. l \in Nat
  BY RetriesNat
<1>4. sj # None /\ sj[1] = job /\ job.entries = entries /\ job.n = n
  BY DEF Some, None
<1>5. /\ L \in Nat /\ IsPlan(w) /\ DOMAIN w = 1..L
      /\ \A i \in 1..L : i \in DOMAIN entries /\ w[i] = <<Later(t, i), EntryBytes(entries[i])>>
  BY DcfWritesLemma
<1> HIDE DEF op, sj, job, z, l
<1>6. a \in [st : {"Opening"}, tid : {t}, ssn : {0}, lrs : {z}, buf : {<<>>}, off : {0},
             total : {0}, armed : {TRUE}, left : {l}, last : {None}, job : {sj}, pend : {None}]
  BY ONLY <1>2
<1> HIDE DEF a
<1>7. IsConnection(a)
  BY ONLY <1>3, <1>6 DEF IsConnection
<1>8. /\ a.st = "Opening" /\ a.last = None /\ a.ssn = 0 /\ a.lrs = z /\ a.buf = <<>> /\ a.job = sj
      /\ a.tid = t /\ a.pend = None
  BY ONLY <1>6
<1>9. IsPlan(pl) /\ IsSeq(pl) /\ Embeds(dd, pl, q)
  BY DEF Session, IsPlan
<1>10. q \in Nat /\ \A j \in DOMAIN w : q + j \in DOMAIN x /\ x[q + j] = w[j]
  BY ONLY <1>5, <1>9, PlanJoin
<1>11. Embeds(dd, x, q)
  BY <1>5, <1>9, EmbedsPlan DEF IsPlan
<1> HIDE DEF x, q
<1>12. Queued(a, x, q)
  <2>1. a.job[1].entries = entries /\ a.job[1].n = n /\ a.job # None
    BY <1>4, <1>8
  <2>2. ASSUME NEW i \in 1..L
        PROVE  q + i \in DOMAIN x /\ x[q + i] = <<Later(a.tid, i), EntryBytes(entries[i])>>
               /\ Fits(Len(x[q + i][2]))
    <3>1. i \in DOMAIN w /\ w[i] = <<Later(t, i), EntryBytes(entries[i])>> /\ Fits(Len(w[i][2]))
      BY <1>5
    <3>2. q + i \in DOMAIN x /\ x[q + i] = w[i]
      BY <1>10, <3>1
    <3> QED BY <1>8, <3>1, <3>2
  <2>3. L = Least(a.job[1].n, Len(a.job[1].entries))
    BY <2>1
  <2> HIDE DEF L
  <2> QED BY <2>1, <2>2, <2>3 DEF Queued
<1> DEFINE ready == prepare_next_job_command(a).ready
<1>13. /\ IsConnection(k) /\ Follows(a, k)
       /\ ready => Loaded(k, x, q + 1) /\ k.off = 0
       /\ ~ready => k.job = None /\ k.buf = a.buf
  BY <1>1, <1>7, <1>8, <1>10, <1>12, Prepared
<1> HIDE DEF ready
<1>14. /\ k.st = "Opening" /\ k.last = None /\ k.ssn = 0 /\ k.lrs = z /\ k.pend = None
  BY <1>8, <1>13 DEF Follows
<1>15. Ready(k, x, dd)
  <2>1. CASE ready
    <3>1. q + 1 \in DOMAIN x /\ (q + 1) - 1 = q
      BY <1>10, <1>13, <2>1 DEF Loaded
    <3> QED BY <1>11, <1>13, <2>1, <3>1 DEF Ready
  <2>2. CASE ~ready
    BY <1>8, <1>13, <1>14, <2>2 DEF Ready
  <2> QED BY <2>1, <2>2
<1> QED BY <1>5, <1>13, <1>14, <1>15, BegunFrom DEF x, z

\* read_object, write_object, start_configuration_download on a new connection.
LEMMA Started ==
  ASSUME NoneCut, NEW n \in Targets, NEW j \in Jobs(n), NEW t \in 1..255,
         j.kind # "short",
         NEW f, NEW pl, NEW dd, NEW h, Session(FALSE, h, f, <<>>, <<>>, pl, dd)
  PROVE  Session(TRUE, Starting(NewConnection, j, t), f, <<>>, <<>>, pl \o Writes(j, t), dd)
<1> DEFINE k == Starting(NewConnection, j, t)
<1>1. \A i \in DOMAIN Writes(j, 1) : Fits(Len(Writes(j, 1)[i][2]))
  BY DEF NoneCut
<1>2. CASE j.kind = "read"
  <2>1. k = start_read_job(NewConnection, j.index, j.sub, t, Dictionary) /\ Writes(j, t) = <<>>
    BY <1>2 DEF Starting, Writes
  <2> HIDE DEF k
  <2>2. Session(TRUE, k, f, <<>>, <<>>, pl \o <<>>, dd)
    BY <2>1, ReadStarts
  <2> QED BY <2>1, <2>2 DEF k
<1>3. CASE j.kind = "write" /\ <<j.index, j.sub, j.data>> \in Entries
  <2> DEFINE i == j.index
             s == j.sub
             data == j.data
             b == AddressPayload(i, s) \o data
  <2>1. k = start_write_job(NewConnection, i, s, data, t, Dictionary)
    BY <1>3 DEF Starting
  <2>2. EntryBytes(<<i, s, data>>) = b
    BY DEF EntryBytes
  <2>3. \A y : Writes(j, y) = <<<<y, b>>>>
    BY <1>3, <2>2 DEF Writes
  <2>4. i \in UNSIGNED16 /\ s \in UNSIGNED8 /\ data \in Seq(UNSIGNED8)
    BY <1>3 DEF Entries
  <2>5. Fits(Len(b))
    <3> HIDE DEF b
    <3> DEFINE w == Writes(j, 1)
    <3>1. w = <<<<1, b>>>>
      BY <2>3
    <3>2. 1 \in DOMAIN w /\ w[1][2] = b
      BY <3>1
    <3> HIDE DEF w
    <3>3. \A e \in DOMAIN w : Fits(Len(w[e][2]))
      BY <1>1 DEF w
    <3> QED BY <3>2, <3>3
  <2> HIDE DEF i, s, data, k
  <2>6. Session(TRUE, k, f, <<>>, <<>>, pl \o <<<<t, b>>>>, dd)
    BY <2>1, <2>4, <2>5, WriteStarts
  <2> HIDE DEF b
  <2> QED BY <2>3, <2>6 DEF k
<1>4. CASE j.kind = "dcf" /\ j.n \in Nat /\ j.entries \in Seq(Entries)
  <2> DEFINE es == j.entries
             m == j.n
             L == Least(m, Len(es))
             w == Writes(j, t)
             v == Writes(j, 1)
  <2>1. k = start_concise_dcf_job(NewConnection, es, m, t, Dictionary)
    BY <1>4 DEF Starting
  <2>2. w = DcfWrites(es, m, t) /\ v = DcfWrites(es, m, 1)
    BY <1>4 DEF Writes, DcfWrites
  <2>3. es \in Seq(Entries) /\ m \in Nat
    BY <1>4
  <2> HIDE DEF es, m, w, v, k
  <2>4. DOMAIN w = 1..L /\ \A i \in 1..L : w[i] = <<Later(t, i), EntryBytes(es[i])>>
    BY <2>2, <2>3, DcfWritesLemma
  <2>5. DOMAIN v = 1..L /\ \A i \in 1..L : v[i] = <<Later(1, i), EntryBytes(es[i])>>
    BY <2>2, <2>3, DcfWritesLemma
  <2>6. ASSUME NEW i \in DOMAIN w PROVE Fits(Len(w[i][2]))
    <3> DEFINE c == EntryBytes(es[i])
    <3>1. w[i] = <<Later(t, i), c>> /\ v[i] = <<Later(1, i), c>> /\ i \in DOMAIN v
      BY <2>4, <2>5
    <3> HIDE DEF c
    <3>2. w[i][2] = v[i][2]
      BY ONLY <3>1
    <3>3. Fits(Len(v[i][2]))
      BY <1>1, <3>1 DEF v
    <3> QED BY <3>2, <3>3
  <2>7. Session(TRUE, k, f, <<>>, <<>>, pl \o w, dd)
    BY <2>1, <2>2, <2>3, <2>6, DcfStarts
  <2> QED BY <2>7 DEF k, w
<1> QED BY <1>2, <1>3, <1>4, JobsAssumption

-----------------------------------------------------------------------------
(* The manager's map and the channels.                                      *)

LEMMA ExceptLemma ==
  ASSUME NEW g, IsMap(g), NEW n \in DOMAIN g, NEW v, NEW h, h = [g EXCEPT ![n] = v]
  PROVE  /\ IsMap(h) /\ DOMAIN h = DOMAIN g /\ h[n] = v
         /\ \A m \in DOMAIN g : m # n => h[m] = g[m]
<1>1. /\ h = [m \in DOMAIN g |-> IF m = n THEN v ELSE g[m]]
  BY DEF IsMap
<1>2. DOMAIN h = DOMAIN g /\ h[n] = v /\ \A m \in DOMAIN g : m # n => h[m] = g[m]
  BY <1>1
<1>3. h = [m \in DOMAIN h |-> h[m]]
  BY <1>1, <1>2
<1> QED BY <1>2, <1>3 DEF IsMap

One(n, x) == {<<n, x>>}
LEMMA SendOne ==
  ASSUME NEW ch, NEW n \in Targets, NEW x, NEW h, h = Send(ch, One(n, x))
  PROVE  /\ IsMap(h) /\ DOMAIN h = Targets /\ h[n] = Fit(ch[n], x)
         /\ \A m \in Targets : m # n => h[m] = ch[m]
<1> DEFINE out == {<<n, x>>}
           first(m) == (CHOOSE o \in out : o[1] = m)[2]
<1>1. \A m : (\E o \in out : o[1] = m) <=> m = n
  OBVIOUS
<1>2. (CHOOSE o \in out : o[1] = n) = <<n, x>>
  OBVIOUS
<1>3. first(n) = x
  BY <1>2
<1>4. h = [m \in Targets |-> IF \E o \in out : o[1] = m THEN Fit(ch[m], first(m)) ELSE ch[m]]
  BY DEF Send, One
<1> HIDE DEF out, first
<1>5. h[n] = Fit(ch[n], x) /\ DOMAIN h = Targets /\ \A m \in Targets : m # n => h[m] = ch[m]
  BY <1>1, <1>3, <1>4
<1>6. IsMap(h)
  BY <1>4 DEF IsMap
<1> QED BY <1>5, <1>6

LEMMA SendNone ==
  ASSUME NEW ch, NEW h, h = Send(ch, {})
  PROVE  IsMap(h) /\ DOMAIN h = Targets /\ \A m \in Targets : h[m] = ch[m]
<1>1. h = [m \in Targets |-> ch[m]]
  BY DEF Send
<1> QED BY <1>1 DEF IsMap

LEMMA FirstLemma ==
  ASSUME NEW S \in SUBSET Targets, S # {}
  PROVE  (CHOOSE m \in S : First(S, m)) \in S
<1>1. S \in SUBSET Nat
  BY SessionAssumption
<1>2. \E m \in S : \A n \in S : m <= n
  BY <1>1, LeastNumber
<1>3. \E m \in S : First(S, m)
  BY <1>2 DEF First
<1> QED BY <1>3

\* Nothing changes for target m.
Same(m) ==
  /\ make' = make /\ (m \in DOMAIN ks' <=> m \in DOMAIN ks)
  /\ m \in DOMAIN ks => ks'[m] = ks[m]
  /\ oth'[m] = oth[m] /\ up'[m] = up[m] /\ down'[m] = down[m] /\ plan'[m] = plan[m]
  /\ did'[m] = did[m] /\ srv'[m] = srv[m]

LEMMA SameLemma ==
  ASSUME NEW m \in Targets, NodeInv(m), Same(m)
  PROVE  NodeInv(m)'
<1>1. CASE make[m] = "own"
  BY <1>1 DEF NodeInv, Same
<1>2. CASE make[m] # "own" /\ m \in DOMAIN ks
  BY <1>2 DEF NodeInv, Same
<1>3. CASE make[m] # "own" /\ m \notin DOMAIN ks
  BY <1>3 DEF NodeInv, Same
<1> QED BY <1>1, <1>2, <1>3

-----------------------------------------------------------------------------
(* The steps of the servers and of the network.                             *)

LEMMA LoseRequestStep ==
  ASSUME SessionInv, NEW n \in Targets, LoseRequest(n)
  PROVE  SessionInv'
<1>1. /\ up[n] # <<>> /\ up' = [up EXCEPT ![n] = Tail(up[n])]
      /\ ks' = ks /\ tid' = tid /\ make' = make /\ oth' = oth /\ down' = down /\ plan' = plan /\ did' = did
      /\ srv' = srv
  BY DEF LoseRequest, client, server
<1>2. Shape /\ \A m \in Targets : NodeInv(m)
  BY DEF SessionInv
<1>3. IsMap(up) /\ DOMAIN up = Targets
  BY <1>2 DEF Shape
<1>4. IsMap(up') /\ DOMAIN up' = Targets /\ up'[n] = Tail(up[n]) /\ \A m \in Targets : m # n => up'[m] = up[m]
  BY <1>1, <1>3, ExceptLemma
<1>5. Shape'
  BY <1>1, <1>2, <1>4 DEF Shape
<1>6. NodeInv(n)'
  <2>1. CASE make[n] = "own"
    BY <1>1, <1>2, <2>1 DEF NodeInv
  <2>2. CASE make[n] # "own" /\ n \in DOMAIN ks
    <3>1. Session(TRUE, ks[n], oth[n], up[n], down[n], plan[n], did[n])
      BY <1>2, <2>2 DEF NodeInv
    <3>2. Session(TRUE, ks[n], oth[n], Tail(up[n]), down[n], plan[n], did[n])
      BY <1>1, <3>1, LostRequest
    <3>3. srv[n] = <<>>
      BY <1>2, <2>2 DEF NodeInv
    <3> QED BY <1>1, <1>4, <2>2, <3>2, <3>3 DEF NodeInv
  <2>3. CASE make[n] # "own" /\ n \notin DOMAIN ks
    <3>1. Session(FALSE, NewConnection, oth[n], up[n], down[n], plan[n], did[n])
      BY <1>2, <2>3 DEF NodeInv
    <3>2. Session(FALSE, NewConnection, oth[n], Tail(up[n]), down[n], plan[n], did[n])
      BY <1>1, <3>1, LostRequest
    <3>3. srv[n] = <<>>
      BY <1>2, <2>3 DEF NodeInv
    <3> QED BY <1>1, <1>4, <2>3, <3>2, <3>3 DEF NodeInv
  <2> QED BY <2>1, <2>2, <2>3
<1>7. ASSUME NEW m \in Targets, m # n PROVE NodeInv(m)'
  <2>1. Same(m)
    BY <1>1, <1>4, <1>7 DEF Same
  <2> QED BY <1>2, <2>1, SameLemma
<1> QED BY <1>5, <1>6, <1>7 DEF SessionInv

LEMMA LoseResponseStep ==
  ASSUME SessionInv, NEW n \in Targets, LoseResponse(n)
  PROVE  SessionInv'
<1>1. /\ down[n] # <<>> /\ down' = [down EXCEPT ![n] = Tail(down[n])]
      /\ ks' = ks /\ tid' = tid /\ make' = make /\ oth' = oth /\ up' = up /\ plan' = plan /\ did' = did
      /\ srv' = srv
  BY DEF LoseResponse, client, server
<1>2. Shape /\ \A m \in Targets : NodeInv(m)
  BY DEF SessionInv
<1>3. IsMap(down) /\ DOMAIN down = Targets
  BY <1>2 DEF Shape
<1>4. /\ IsMap(down') /\ DOMAIN down' = Targets /\ down'[n] = Tail(down[n])
      /\ \A m \in Targets : m # n => down'[m] = down[m]
  BY <1>1, <1>3, ExceptLemma
<1>5. Shape'
  BY <1>1, <1>2, <1>4 DEF Shape
<1>6. NodeInv(n)'
  <2>1. CASE make[n] = "own"
    BY <1>1, <1>2, <2>1 DEF NodeInv
  <2>2. CASE make[n] # "own" /\ n \in DOMAIN ks
    <3>1. Session(TRUE, ks[n], oth[n], up[n], down[n], plan[n], did[n])
      BY <1>2, <2>2 DEF NodeInv
    <3>2. Session(TRUE, ks[n], oth[n], up[n], Tail(down[n]), plan[n], did[n])
      BY <1>1, <3>1, LostResponse
    <3>3. srv[n] = <<>>
      BY <1>2, <2>2 DEF NodeInv
    <3> QED BY <1>1, <1>4, <2>2, <3>2, <3>3 DEF NodeInv
  <2>3. CASE make[n] # "own" /\ n \notin DOMAIN ks
    <3>1. Session(FALSE, NewConnection, oth[n], up[n], down[n], plan[n], did[n])
      BY <1>2, <2>3 DEF NodeInv
    <3>2. Session(FALSE, NewConnection, oth[n], up[n], Tail(down[n]), plan[n], did[n])
      BY <1>1, <3>1, LostResponse
    <3>3. srv[n] = <<>>
      BY <1>2, <2>3 DEF NodeInv
    <3> QED BY <1>1, <1>4, <2>3, <3>2, <3>3 DEF NodeInv
  <2> QED BY <2>1, <2>2, <2>3
<1>7. ASSUME NEW m \in Targets, m # n PROVE NodeInv(m)'
  <2>1. Same(m)
    BY <1>1, <1>4, <1>7 DEF Same
  <2> QED BY <1>2, <2>1, SameLemma
<1> QED BY <1>5, <1>6, <1>7 DEF SessionInv

LEMMA OwnReceiveStep ==
  ASSUME SessionInv, NEW n \in Targets, OwnReceive(n)
  PROVE  SessionInv'
<1> DEFINE s == server_handle_request(srv[n], MN, Head(up[n]), ods[n])
           d == IF s.r.ok THEN Fit(down[n], Packet(s.r.seq, s.r.cmd)) ELSE down[n]
           c == s.conns
<1>1. /\ make[n] = "own" /\ up' = [up EXCEPT ![n] = Tail(up[n])] /\ down' = [down EXCEPT ![n] = d]
      /\ srv' = [srv EXCEPT ![n] = c]
      /\ ks' = ks /\ tid' = tid /\ make' = make /\ oth' = oth /\ plan' = plan /\ did' = did
  BY DEF OwnReceive, client
<1> HIDE DEF d, c
<1>2. Shape /\ \A m \in Targets : NodeInv(m)
  BY DEF SessionInv
<1>3. IsMap(down) /\ DOMAIN down = Targets /\ IsMap(up) /\ DOMAIN up = Targets
      /\ IsMap(srv) /\ DOMAIN srv = Targets
  BY <1>2 DEF Shape
<1>4. IsMap(down') /\ DOMAIN down' = Targets /\ \A m \in Targets : m # n => down'[m] = down[m]
  BY <1>1, <1>3, ExceptLemma
<1>5. IsMap(up') /\ DOMAIN up' = Targets /\ \A m \in Targets : m # n => up'[m] = up[m]
  BY <1>1, <1>3, ExceptLemma
<1>9. IsMap(srv') /\ DOMAIN srv' = Targets /\ \A m \in Targets : m # n => srv'[m] = srv[m]
  BY <1>1, <1>3, ExceptLemma
<1>6. Shape'
  BY <1>1, <1>2, <1>4, <1>5, <1>9 DEF Shape
<1>7. NodeInv(n)'
  BY <1>1, <1>2 DEF NodeInv
<1>8. ASSUME NEW m \in Targets, m # n PROVE NodeInv(m)'
  <2>1. Same(m)
    BY <1>1, <1>4, <1>5, <1>8, <1>9 DEF Same
  <2> QED BY <1>2, <2>1, SameLemma
<1> QED BY <1>6, <1>7, <1>8 DEF SessionInv

LEMMA OwnTickStep ==
  ASSUME SessionInv, NEW n \in Targets, OwnTick(n)
  PROVE  SessionInv'
<1> DEFINE s == server_tick(srv[n], MN, ods[n])
           d == IF s.r.ok THEN Fit(down[n], Packet(s.r.seq, s.r.cmd)) ELSE down[n]
           c == s.conns
<1>1. /\ Armed(srv[n]) # {} /\ down' = [down EXCEPT ![n] = d] /\ srv' = [srv EXCEPT ![n] = c]
      /\ ks' = ks /\ tid' = tid /\ make' = make /\ oth' = oth /\ up' = up /\ plan' = plan /\ did' = did
  BY DEF OwnTick, client
<1> HIDE DEF d, c
<1>2. Shape /\ \A m \in Targets : NodeInv(m)
  BY DEF SessionInv
<1>3. IsMap(down) /\ DOMAIN down = Targets /\ IsMap(srv) /\ DOMAIN srv = Targets
  BY <1>2 DEF Shape
<1>4. IsMap(down') /\ DOMAIN down' = Targets /\ \A m \in Targets : m # n => down'[m] = down[m]
  BY <1>1, <1>3, ExceptLemma
<1>5. IsMap(srv') /\ DOMAIN srv' = Targets /\ \A m \in Targets : m # n => srv'[m] = srv[m]
  BY <1>1, <1>3, ExceptLemma
<1>6. Shape'
  BY <1>1, <1>2, <1>4, <1>5 DEF Shape
<1>7. make[n] = "own"
  <2>1. Armed(<<>>) = {}
    BY DEF Armed
  <2> QED BY <1>1, <1>2, <2>1 DEF NodeInv
<1>8. NodeInv(n)'
  BY <1>1, <1>2, <1>7 DEF NodeInv
<1>9. ASSUME NEW m \in Targets, m # n PROVE NodeInv(m)'
  <2>1. Same(m)
    BY <1>1, <1>4, <1>5, <1>9 DEF Same
  <2> QED BY <1>2, <2>1, SameLemma
<1> QED BY <1>6, <1>8, <1>9 DEF SessionInv

LEMMA OtherReceiveStep ==
  ASSUME SessionInv, NEW n \in Targets, NEW big \in BOOLEAN, OtherReceive(n, big)
  PROVE  SessionInv'
<1> DEFINE m == Head(up[n])
           f == oth[n]
           g == After(f, m, big)
           d == Responses(f, g, m, down[n])
           dd == Completed(f, g, m, did[n])
<1>1. /\ make[n] = "other" /\ up[n] # <<>> /\ up' = [up EXCEPT ![n] = Tail(up[n])]
      /\ oth' = [oth EXCEPT ![n] = g] /\ down' = [down EXCEPT ![n] = d] /\ did' = [did EXCEPT ![n] = dd]
      /\ ks' = ks /\ tid' = tid /\ make' = make /\ srv' = srv /\ plan' = plan
  BY DEF OtherReceive, client, After, Responses, Completed, Final
<1>0. g = After(oth[n], Head(up[n]), big)
  OBVIOUS
<1> HIDE DEF g
<1>2. Shape /\ \A x \in Targets : NodeInv(x)
  BY DEF SessionInv
<1>3. /\ IsMap(down) /\ DOMAIN down = Targets /\ IsMap(up) /\ DOMAIN up = Targets
      /\ IsMap(oth) /\ DOMAIN oth = Targets /\ IsMap(did) /\ DOMAIN did = Targets
  BY <1>2 DEF Shape
<1>4. /\ up[n] # <<>> /\ (n \in DOMAIN ks =>
           Session(TRUE, ks[n], oth[n], up[n], down[n], plan[n], did[n]))
      /\ (n \notin DOMAIN ks =>
           Session(FALSE, NewConnection, oth[n], up[n], down[n], plan[n], did[n]))
      /\ srv[n] = <<>>
  BY <1>1, <1>2 DEF NodeInv
<1>5. /\ (n \in DOMAIN ks => Session(TRUE, ks[n], g, Tail(up[n]), d, plan[n], dd))
      /\ (n \notin DOMAIN ks => Session(FALSE, NewConnection, g, Tail(up[n]), d, plan[n], dd))
  BY <1>0, <1>4, Served
<1> HIDE DEF d, dd
<1>6. /\ IsMap(down') /\ DOMAIN down' = Targets /\ down'[n] = d
      /\ \A x \in Targets : x # n => down'[x] = down[x]
  BY <1>1, <1>3, ExceptLemma
<1>7. /\ IsMap(up') /\ DOMAIN up' = Targets /\ up'[n] = Tail(up[n])
      /\ \A x \in Targets : x # n => up'[x] = up[x]
  BY <1>1, <1>3, ExceptLemma
<1>8. /\ IsMap(oth') /\ DOMAIN oth' = Targets /\ oth'[n] = g
      /\ \A x \in Targets : x # n => oth'[x] = oth[x]
  BY <1>1, <1>3, ExceptLemma
<1>9. /\ IsMap(did') /\ DOMAIN did' = Targets /\ did'[n] = dd
      /\ \A x \in Targets : x # n => did'[x] = did[x]
  BY <1>1, <1>3, ExceptLemma
<1>10. Shape'
  BY <1>1, <1>2, <1>6, <1>7, <1>8, <1>9 DEF Shape
<1>11. NodeInv(n)'
  <2>1. CASE n \in DOMAIN ks
    BY <1>1, <1>4, <1>5, <1>6, <1>7, <1>8, <1>9, <2>1 DEF NodeInv
  <2>2. CASE n \notin DOMAIN ks
    BY <1>1, <1>4, <1>5, <1>6, <1>7, <1>8, <1>9, <2>2 DEF NodeInv
  <2> QED BY <2>1, <2>2
<1>12. ASSUME NEW x \in Targets, x # n PROVE NodeInv(x)'
  <2>1. Same(x)
    BY <1>1, <1>6, <1>7, <1>8, <1>9, <1>12 DEF Same
  <2> QED BY <1>2, <2>1, SameLemma
<1> QED BY <1>10, <1>11, <1>12 DEF SessionInv

-----------------------------------------------------------------------------
(* The steps of the client.                                                 *)

\* What the next state says of a target of another make.
Goes(m) ==
  IF m \in DOMAIN ks' THEN Session(TRUE, ks'[m], oth[m], up'[m], down'[m], plan[m], did[m])
  ELSE Session(FALSE, NewConnection, oth[m], up'[m], down'[m], plan[m], did[m])

\* A step of the client that starts no job.
LEMMA ClientStep ==
  ASSUME SessionInv,
         tid' = tid, make' = make, srv' = srv, oth' = oth, plan' = plan, did' = did,
         IsMap(ks'), DOMAIN ks' \subseteq Targets,
         IsMap(up'), DOMAIN up' = Targets, IsMap(down'), DOMAIN down' = Targets,
         \A m \in Targets : make[m] # "own" => Goes(m)
  PROVE  SessionInv'
<1>1. Shape /\ \A m \in Targets : NodeInv(m)
  BY DEF SessionInv
<1>2. Shape'
  BY <1>1 DEF Shape
<1>3. ASSUME NEW m \in Targets PROVE NodeInv(m)'
  <2>1. NodeInv(m)
    BY <1>1
  <2>2. CASE make[m] = "own"
    BY <2>1, <2>2 DEF NodeInv
  <2>3. CASE make[m] # "own"
    <3>1. Goes(m) /\ srv[m] = <<>>
      BY <2>1, <2>3 DEF NodeInv
    <3>2. CASE m \in DOMAIN ks'
      BY <2>3, <3>1, <3>2 DEF NodeInv, Goes
    <3>3. CASE m \notin DOMAIN ks'
      BY <2>3, <3>1, <3>3 DEF NodeInv, Goes
    <3> QED BY <3>2, <3>3
  <2> QED BY <2>2, <2>3
<1> QED BY <1>2, <1>3 DEF SessionInv

\* The sessions of the targets as they stand.
LEMMA Stands ==
  ASSUME SessionInv, NEW m \in Targets, make[m] # "own"
  PROVE  /\ m \in DOMAIN ks => Session(TRUE, ks[m], oth[m], up[m], down[m], plan[m], did[m])
         /\ m \notin DOMAIN ks => Session(FALSE, NewConnection, oth[m], up[m], down[m], plan[m], did[m])
<1>1. NodeInv(m)
  BY DEF SessionInv
<1> QED BY <1>1 DEF NodeInv

LEMMA OutOfUse ==
  ASSUME NEW k, NEW h, NEW f, NEW u, NEW d, NEW pl, NEW dd, Session(FALSE, k, f, u, d, pl, dd)
  PROVE  Session(FALSE, h, f, u, d, pl, dd)
BY DEF Session

LEMMA ReceiveStep ==
  ASSUME SessionInv, NEW n \in Targets, Receive(n)
  PROVE  SessionInv'
<1> DEFINE r == handle_response(ks[n], Head(down[n]))
           k == r.k
<1>1. /\ down[n] # <<>> /\ down' = [down EXCEPT ![n] = Tail(down[n])]
      /\ ks' = manager_handle_response(ks, n, Head(down[n]))
      /\ tid' = tid /\ make' = make /\ srv' = srv /\ oth' = oth /\ up' = up /\ plan' = plan /\ did' = did
  BY DEF Receive, server
<1>2. ks' = IF n \in DOMAIN ks THEN IF k.st = "Closed" THEN Without(ks, {n}) ELSE With(ks, n, k) ELSE ks
  BY <1>1 DEF manager_handle_response
<1>3. /\ IsMap(ks) /\ DOMAIN ks \subseteq Targets /\ IsMap(down) /\ DOMAIN down = Targets
      /\ IsMap(up) /\ DOMAIN up = Targets
  BY DEF SessionInv, Shape
<1>4. /\ IsMap(down') /\ DOMAIN down' = Targets /\ down'[n] = Tail(down[n])
      /\ \A m \in Targets : m # n => down'[m] = down[m]
  BY <1>1, <1>3, ExceptLemma
<1>5. ASSUME make[n] # "own", n \in DOMAIN ks
      PROVE  Session(k.st # "Closed", k, oth[n], up[n], Tail(down[n]), plan[n], did[n])
  <2>1. Session(TRUE, ks[n], oth[n], up[n], down[n], plan[n], did[n])
    BY <1>5, Stands
  <2> HIDE DEF r
  <2>2. r = handle_response(ks[n], Head(down[n]))
    BY DEF r
  <2> QED BY ONLY <1>1, <2>1, <2>2, Answers
<1> HIDE DEF r, k
<1>6. /\ IsMap(ks') /\ DOMAIN ks' \subseteq Targets
      /\ \A m \in Targets : m # n => (m \in DOMAIN ks' <=> m \in DOMAIN ks)
      /\ \A m \in DOMAIN ks' : m # n => ks'[m] = ks[m]
      /\ n \notin DOMAIN ks => n \notin DOMAIN ks'
      /\ n \in DOMAIN ks /\ k.st = "Closed" => n \notin DOMAIN ks'
      /\ n \in DOMAIN ks /\ k.st # "Closed" => n \in DOMAIN ks' /\ ks'[n] = k
  <2>1. CASE n \notin DOMAIN ks
    BY <1>2, <1>3, <2>1
  <2>2. CASE n \in DOMAIN ks /\ k.st = "Closed"
    <3>0. ks' = Without(ks, {n})
      BY <1>2, <2>2
    <3>1. IsMap(ks') /\ DOMAIN ks' = DOMAIN ks \ {n} /\ \A m \in DOMAIN ks' : ks'[m] = ks[m]
      BY <3>0 DEF Without, IsMap
    <3> QED BY <1>3, <2>2, <3>1
  <2>3. CASE n \in DOMAIN ks /\ k.st # "Closed"
    <3>0. ks' = With(ks, n, k)
      BY <1>2, <2>3
    <3>1. /\ IsMap(ks') /\ DOMAIN ks' = DOMAIN ks \cup {n} /\ ks'[n] = k
          /\ \A m \in DOMAIN ks : m # n => ks'[m] = ks[m]
      BY <3>0 DEF With, IsMap
    <3> QED BY <1>3, <2>3, <3>1
  <2> QED BY <2>1, <2>2, <2>3
<1>7. ASSUME NEW m \in Targets, make[m] # "own" PROVE Goes(m)
  <2>1. /\ m \in DOMAIN ks => Session(TRUE, ks[m], oth[m], up[m], down[m], plan[m], did[m])
        /\ m \notin DOMAIN ks => Session(FALSE, NewConnection, oth[m], up[m], down[m], plan[m], did[m])
    BY <1>7, Stands
  <2>2. CASE m # n
    BY <1>1, <1>4, <1>6, <2>1, <2>2 DEF Goes
  <2>3. CASE m = n /\ n \notin DOMAIN ks
    <3>1. Session(FALSE, NewConnection, oth[n], up[n], Tail(down[n]), plan[n], did[n])
      BY <1>1, <2>1, <2>3, LostResponse
    <3> QED BY <1>1, <1>4, <1>6, <2>3, <3>1 DEF Goes
  <2>4. CASE m = n /\ n \in DOMAIN ks /\ k.st = "Closed"
    <3>1. Session(FALSE, k, oth[n], up[n], Tail(down[n]), plan[n], did[n])
      <4>1. k.st # "Closed" <=> FALSE
        BY <2>4
      <4> QED BY <1>5, <1>7, <2>4, <4>1 DEF Session
    <3>2. Session(FALSE, NewConnection, oth[n], up[n], Tail(down[n]), plan[n], did[n])
      BY <3>1, OutOfUse
    <3> QED BY <1>1, <1>4, <1>6, <2>4, <3>2 DEF Goes
  <2>5. CASE m = n /\ n \in DOMAIN ks /\ k.st # "Closed"
    <3>1. Session(TRUE, k, oth[n], up[n], Tail(down[n]), plan[n], did[n])
      BY <1>5, <1>7, <2>5 DEF Session
    <3> QED BY <1>1, <1>4, <1>6, <2>5, <3>1 DEF Goes
  <2> QED BY <2>2, <2>3, <2>4, <2>5
<1> QED BY <1>1, <1>3, <1>4, <1>6, <1>7, ClientStep

LEMMA StartStep ==
  ASSUME NoneCut, SessionInv, NEW n \in Targets, NEW j \in Jobs(n), Start(n, j)
  PROVE  SessionInv'
<1> DEFINE k == ConnOf(ks, n)
           t == NextTid(tid)
           h == Starting(k, j, t)
           acc == Accepts(k, j)
           w == IF acc THEN plan[n] \o Writes(j, t) ELSE plan[n]
<1>1. /\ acc => up[n] = <<>> /\ down[n] = <<>>
      /\ tid' = t
      /\ ks'  = IF acc THEN With(ks, n, h) ELSE ks
      /\ plan' = [plan EXCEPT ![n] = w]
      /\ make' = make /\ srv' = srv /\ oth' = oth /\ up' = up /\ down' = down /\ did' = did
  BY DEF Start, server, Starting
<1>2. Shape /\ \A m \in Targets : NodeInv(m)
  BY DEF SessionInv
<1>3. IsMap(ks) /\ DOMAIN ks \subseteq Targets /\ IsMap(plan) /\ DOMAIN plan = Targets /\ tid \in 0..255
  BY <1>2 DEF Shape
<1>4. t \in 1..255
  BY <1>3 DEF NextTid
<1>5. n \in DOMAIN ks => k = ks[n]
  BY DEF ConnOf
<1>6. n \notin DOMAIN ks => k = NewConnection
  BY DEF ConnOf
<1>7. acc => is_idle(k) /\ j.kind # "short"
  BY DEF Accepts
<1>8. w = IF acc THEN plan[n] \o Writes(j, t) ELSE plan[n]
  OBVIOUS
<1>9. h = Starting(k, j, t)
  OBVIOUS
<1> HIDE DEF k, t, h, w, acc
<1>10. /\ IsMap(plan') /\ DOMAIN plan' = Targets /\ plan'[n] = w
       /\ \A m \in Targets : m # n => plan'[m] = plan[m]
  BY <1>1, <1>3, ExceptLemma
<1>11. /\ IsMap(ks') /\ DOMAIN ks' \subseteq Targets
       /\ \A m \in Targets : m # n => (m \in DOMAIN ks' <=> m \in DOMAIN ks)
       /\ \A m \in DOMAIN ks : m # n => ks'[m] = ks[m]
       /\ acc => n \in DOMAIN ks' /\ ks'[n] = h
       /\ ~acc => ks' = ks
  <2>1. CASE acc
    <3>1. ks' = With(ks, n, h)
      BY <1>1, <2>1
    <3>2. /\ IsMap(ks') /\ DOMAIN ks' = DOMAIN ks \cup {n} /\ ks'[n] = h
          /\ \A m \in DOMAIN ks : m # n => ks'[m] = ks[m]
      BY <3>1 DEF With, IsMap
    <3> QED BY <1>3, <2>1, <3>2
  <2>2. CASE ~acc
    BY <1>1, <1>3, <2>2
  <2> QED BY <2>1, <2>2
<1>12. Shape'
  <2>1. tid' \in 0..255
    BY <1>1, <1>4
  <2> QED BY <1>1, <1>2, <1>10, <1>11, <2>1 DEF Shape
<1>13. NodeInv(n)'
  <2>1. CASE make[n] = "own"
    BY <1>1, <1>2, <2>1 DEF NodeInv
  <2>2. CASE make[n] # "own" /\ n \in DOMAIN ks
    <3>1. Session(TRUE, ks[n], oth[n], up[n], down[n], plan[n], did[n]) /\ srv[n] = <<>>
      BY <1>2, <2>2 DEF NodeInv
    <3>2. ~acc
      BY <1>5, <1>7, <2>2, <3>1, StaysOpen DEF is_idle
    <3>3. ks' = ks /\ plan'[n] = plan[n]
      BY <1>8, <1>10, <1>11, <3>2
    <3> QED BY <1>1, <2>2, <3>1, <3>3 DEF NodeInv
  <2>3. CASE make[n] # "own" /\ n \notin DOMAIN ks /\ ~acc
    <3>1. ks' = ks /\ plan'[n] = plan[n]
      BY <1>8, <1>10, <1>11, <2>3
    <3> QED BY <1>1, <1>2, <2>3, <3>1 DEF NodeInv
  <2>4. CASE make[n] # "own" /\ n \notin DOMAIN ks /\ acc
    <3>1. Session(FALSE, NewConnection, oth[n], up[n], down[n], plan[n], did[n]) /\ srv[n] = <<>>
      BY <1>2, <2>4 DEF NodeInv
    <3>2. acc /\ j.kind # "short"
      BY <1>7, <2>4
    <3>3. up[n] = <<>> /\ down[n] = <<>> /\ ks'[n] = h /\ n \in DOMAIN ks' /\ plan'[n] = plan[n] \o Writes(j, t)
      BY <1>1, <1>8, <1>10, <1>11, <3>2
    <3>4. Session(FALSE, NewConnection, oth[n], <<>>, <<>>, plan[n], did[n])
      BY <3>1, <3>3
    <3>5. h = Starting(NewConnection, j, t)
      BY <1>6, <1>9, <2>4
    <3>6. Session(TRUE, Starting(NewConnection, j, t), oth[n], <<>>, <<>>, plan[n] \o Writes(j, t), did[n])
      BY <1>4, <3>2, <3>4, Started
    <3>7. Session(TRUE, ks'[n], oth[n], up[n], down[n], plan'[n], did[n])
      BY <3>3, <3>5, <3>6
    <3> QED BY <1>1, <2>4, <3>1, <3>3, <3>7 DEF NodeInv
  <2> QED BY <2>1, <2>2, <2>3, <2>4
<1>14. ASSUME NEW m \in Targets, m # n PROVE NodeInv(m)'
  <2>1. Same(m)
    BY <1>1, <1>10, <1>11, <1>14 DEF Same
  <2> QED BY <1>2, <2>1, SameLemma
<1> QED BY <1>12, <1>13, <1>14 DEF SessionInv

LEMMA PollStep ==
  ASSUME SessionInv, Poll
  PROVE  SessionInv'
<1> DEFINE senders == {m \in DOMAIN ks : Sends(ks[m])}
           spent   == {m \in DOMAIN ks \ senders : First(senders, m) /\ ks[m].last = None
                                                   /\ ks[m].st = "Established"}
           n == CHOOSE m \in senders : First(senders, m)
           r == get_pending_request(ks[n], Dictionary)
           k == r.k
           c == r.out[1]
           a == manager_get_pending_request(ks, Dictionary)
<1>1. /\ ks' = a.ks /\ up' = Send(up, a.out)
      /\ tid' = tid /\ make' = make /\ srv' = srv /\ oth' = oth /\ down' = down /\ plan' = plan /\ did' = did
  BY DEF Poll, server
<1>2. /\ senders = {} => a = [ks |-> Without(ks, spent), out |-> {}]
      /\ senders # {} => a = [ks |-> With(Without(ks, spent), n, k), out |-> {<<n, c>>}]
  BY DEF manager_get_pending_request
<1>3. /\ IsMap(ks) /\ DOMAIN ks \subseteq Targets /\ IsMap(down) /\ DOMAIN down = Targets
      /\ IsMap(up) /\ DOMAIN up = Targets
  BY DEF SessionInv, Shape
<1>4. senders \subseteq DOMAIN ks /\ spent \subseteq DOMAIN ks /\ senders \cap spent = {}
  OBVIOUS
<1>5. senders # {} => n \in senders
  <2>1. senders \in SUBSET Targets
    BY <1>3, <1>4
  <2> HIDE DEF senders
  <2> QED BY <2>1, FirstLemma
<1>6. \A m \in senders : Sends(ks[m])
  OBVIOUS
<1>7. r = get_pending_request(ks[n], Dictionary) /\ k = r.k /\ c = r.out[1]
  OBVIOUS
<1> HIDE DEF senders, spent, n, r, k, c, a
<1>8. ASSUME NEW m \in Targets, m \in DOMAIN ks, make[m] # "own"
      PROVE  Session(FALSE, NewConnection, oth[m], up[m], down[m], plan[m], did[m])
  BY <1>8, Stands, Closed
<1>9. CASE senders = {}
  <2>1. ks' = Without(ks, spent) /\ up' = Send(up, {})
    BY <1>1, <1>2, <1>9
  <2>2. IsMap(ks') /\ DOMAIN ks' = DOMAIN ks \ spent /\ \A m \in DOMAIN ks' : ks'[m] = ks[m]
    BY <2>1 DEF Without, IsMap
  <2>3. IsMap(up') /\ DOMAIN up' = Targets /\ \A m \in Targets : up'[m] = up[m]
    BY <2>1, SendNone
  <2>4. ASSUME NEW m \in Targets, make[m] # "own" PROVE Goes(m)
    <3>1. CASE m \in spent
      BY <1>1, <1>4, <1>8, <2>2, <2>3, <2>4, <3>1 DEF Goes
    <3>2. CASE m \notin spent
      BY <1>1, <2>2, <2>3, <2>4, <3>2, Stands DEF Goes
    <3> QED BY <3>1, <3>2
  <2> QED BY <1>1, <1>3, <2>2, <2>3, <2>4, ClientStep
<1>10. CASE senders # {}
  <2>1. ks' = With(Without(ks, spent), n, k) /\ up' = Send(up, One(n, c)) /\ n \in Targets /\ n \in DOMAIN ks
        /\ n \notin spent
    BY <1>1, <1>2, <1>3, <1>4, <1>5, <1>10 DEF One
  <2>2. /\ IsMap(ks') /\ DOMAIN ks' = (DOMAIN ks \ spent) \cup {n} /\ ks'[n] = k
        /\ \A m \in DOMAIN ks' : m # n => ks'[m] = ks[m]
    BY <2>1 DEF Without, With, IsMap
  <2>3. /\ IsMap(up') /\ DOMAIN up' = Targets /\ up'[n] = Fit(up[n], c)
        /\ \A m \in Targets : m # n => up'[m] = up[m]
    <3>1. up' = Send(up, One(n, c)) /\ n \in Targets
      BY <2>1
    <3> QED BY ONLY <3>1, SendOne
  <2>4. ASSUME NEW m \in Targets, make[m] # "own" PROVE Goes(m)
    <3>1. CASE m \in spent
      BY <1>1, <1>4, <1>8, <2>1, <2>2, <2>3, <2>4, <3>1 DEF Goes
    <3>2. CASE m \notin spent /\ m # n
      BY <1>1, <2>2, <2>3, <2>4, <3>2, Stands DEF Goes
    <3>3. CASE m = n
      <4>1. Session(TRUE, ks[n], oth[n], up[n], down[n], plan[n], did[n]) /\ Sends(ks[n])
        BY <1>5, <1>6, <1>10, <2>1, <2>4, <3>3, Stands
      <4>2. Session(TRUE, k, oth[n], Fit(up[n], c), down[n], plan[n], did[n])
        BY <1>7, <4>1, Requested
      <4> QED BY <1>1, <2>2, <2>3, <3>3, <4>2 DEF Goes
    <3> QED BY <3>1, <3>2, <3>3
  <2> QED BY <1>1, <1>3, <2>1, <2>2, <2>3, <2>4, ClientStep
<1> QED BY <1>9, <1>10

LEMMA ClientTickStep ==
  ASSUME SessionInv, NEW S \in SUBSET Targets, ClientTick(S)
  PROVE  SessionInv'
<1> DEFINE senders == {m \in S : ks[m].last # None \/ ks[m].left = 0}
           mute    == {m \in S \ senders : First(senders, m)}
           quiet   == [m \in DOMAIN ks |-> IF m \in mute THEN client_tick(ks[m]).k ELSE ks[m]]
           n == CHOOSE m \in senders : First(senders, m)
           r == client_tick(ks[n])
           k == r.k
           c == r.out[1]
           a == manager_tick(ks, S)
<1>1. /\ ks' = a.ks /\ up' = Send(up, a.out) /\ S \subseteq DOMAIN ks
      /\ tid' = tid /\ make' = make /\ srv' = srv /\ oth' = oth /\ down' = down /\ plan' = plan /\ did' = did
  BY DEF ClientTick, server
<1>2. /\ senders = {} => a = [ks |-> quiet, out |-> {}]
      /\ senders # {} => a = [ks |-> IF k.st = "Closed" THEN Without(quiet, {n}) ELSE With(quiet, n, k),
                              out |-> {<<n, c>>}]
  BY DEF manager_tick
<1>3. /\ IsMap(ks) /\ DOMAIN ks \subseteq Targets /\ IsMap(down) /\ DOMAIN down = Targets
      /\ IsMap(up) /\ DOMAIN up = Targets
  BY DEF SessionInv, Shape
<1>4. senders \subseteq DOMAIN ks /\ mute \subseteq DOMAIN ks /\ senders \cap mute = {}
  BY <1>1
<1>5. senders # {} => n \in senders
  <2>1. senders \in SUBSET Targets
    BY <1>3, <1>4
  <2> HIDE DEF senders
  <2> QED BY <2>1, FirstLemma
<1>6. /\ \A m \in senders : ks[m].last # None \/ ks[m].left = 0
      /\ \A m \in mute : ks[m].left # 0
  OBVIOUS
<1>7. r = client_tick(ks[n]) /\ k = r.k /\ c = r.out[1]
  OBVIOUS
<1>8. /\ IsMap(quiet) /\ DOMAIN quiet = DOMAIN ks
      /\ \A m \in mute : quiet[m] = client_tick(ks[m]).k
      /\ \A m \in DOMAIN ks : m \notin mute => quiet[m] = ks[m]
  BY <1>4 DEF IsMap
<1> HIDE DEF senders, mute, quiet, n, r, k, c, a
<1>9. ASSUME NEW m \in Targets, m \in DOMAIN ks, make[m] # "own"
      PROVE  Session(TRUE, quiet[m], oth[m], up[m], down[m], plan[m], did[m])
  <2>1. Session(TRUE, ks[m], oth[m], up[m], down[m], plan[m], did[m])
    BY <1>9, Stands
  <2>2. CASE m \in mute
    <3>1. ks[m].left # 0
      BY <1>6, <2>2
    <3>2. Session(TRUE, client_tick(ks[m]).k, oth[m], up[m], down[m], plan[m], did[m])
      BY <2>1, <3>1, TickMute
    <3> QED BY <1>8, <2>2, <3>2
  <2>3. CASE m \notin mute
    BY <1>8, <1>9, <2>1, <2>3
  <2> QED BY <2>2, <2>3
<1>10. CASE senders = {}
  <2>1. ks' = quiet /\ up' = Send(up, {})
    BY <1>1, <1>2, <1>10
  <2>2. IsMap(up') /\ DOMAIN up' = Targets /\ \A m \in Targets : up'[m] = up[m]
    BY <2>1, SendNone
  <2>3. ASSUME NEW m \in Targets, make[m] # "own" PROVE Goes(m)
    <3>1. CASE m \in DOMAIN ks
      BY <1>1, <1>8, <1>9, <2>1, <2>2, <2>3, <3>1 DEF Goes
    <3>2. CASE m \notin DOMAIN ks
      BY <1>1, <1>8, <2>1, <2>2, <2>3, <3>2, Stands DEF Goes
    <3> QED BY <3>1, <3>2
  <2> QED BY <1>1, <1>3, <1>8, <2>1, <2>2, <2>3, ClientStep
<1>11. CASE senders # {}
  <2>1. /\ ks' = IF k.st = "Closed" THEN Without(quiet, {n}) ELSE With(quiet, n, k)
        /\ up' = Send(up, One(n, c)) /\ n \in Targets /\ n \in DOMAIN ks
    BY <1>1, <1>2, <1>3, <1>4, <1>5, <1>11 DEF One
  <2>2. /\ IsMap(ks') /\ DOMAIN ks' = IF k.st = "Closed" THEN DOMAIN ks \ {n} ELSE DOMAIN ks
        /\ k.st # "Closed" => ks'[n] = k
        /\ \A m \in DOMAIN ks : m # n => ks'[m] = quiet[m]
    <3>1. CASE k.st = "Closed"
      <4>1. ks' = Without(quiet, {n})
        BY <2>1, <3>1
      <4>2. IsMap(ks') /\ DOMAIN ks' = DOMAIN quiet \ {n} /\ \A m \in DOMAIN ks' : ks'[m] = quiet[m]
        BY <4>1 DEF Without, IsMap
      <4> QED BY <1>8, <3>1, <4>2
    <3>2. CASE k.st # "Closed"
      <4>1. ks' = With(quiet, n, k)
        BY <2>1, <3>2
      <4>2. /\ IsMap(ks') /\ DOMAIN ks' = DOMAIN quiet \cup {n} /\ ks'[n] = k
            /\ \A m \in DOMAIN quiet : m # n => ks'[m] = quiet[m]
        BY <4>1 DEF With, IsMap
      <4> QED BY <1>8, <2>1, <3>2, <4>2
    <3> QED BY <3>1, <3>2
  <2>3. /\ IsMap(up') /\ DOMAIN up' = Targets /\ up'[n] = Fit(up[n], c)
        /\ \A m \in Targets : m # n => up'[m] = up[m]
    BY <2>1, SendOne
  <2>4. ASSUME NEW m \in Targets, make[m] # "own" PROVE Goes(m)
    <3>1. CASE m # n /\ m \in DOMAIN ks
      BY <1>1, <1>9, <2>2, <2>3, <2>4, <3>1 DEF Goes
    <3>2. CASE m # n /\ m \notin DOMAIN ks
      BY <1>1, <2>2, <2>3, <2>4, <3>2, Stands DEF Goes
    <3>3. CASE m = n
      <4>1. /\ Session(TRUE, ks[n], oth[n], up[n], down[n], plan[n], did[n])
            /\ ks[n].last # None \/ ks[n].left = 0
        BY <1>5, <1>6, <1>11, <2>1, <2>4, <3>3, Stands
      <4>2. Session(k.st # "Closed", k, oth[n], Fit(up[n], c), down[n], plan[n], did[n])
        BY <1>7, <4>1, TickSends
      <4>3. CASE k.st = "Closed"
        <5>1. Session(FALSE, k, oth[n], Fit(up[n], c), down[n], plan[n], did[n])
          BY <4>2, <4>3 DEF Session
        <5>2. Session(FALSE, NewConnection, oth[n], Fit(up[n], c), down[n], plan[n], did[n])
          BY <5>1, OutOfUse
        <5> QED BY <1>1, <2>2, <2>3, <3>3, <4>3, <5>2 DEF Goes
      <4>4. CASE k.st # "Closed"
        <5>1. Session(TRUE, k, oth[n], Fit(up[n], c), down[n], plan[n], did[n])
          BY <4>2, <4>4 DEF Session
        <5> QED BY <1>1, <2>1, <2>2, <2>3, <3>3, <4>4, <5>1 DEF Goes
      <4> QED BY <4>3, <4>4
    <3> QED BY <3>1, <3>2, <3>3
  <2>5. DOMAIN ks' \subseteq Targets
    BY <1>3, <2>2
  <2> QED BY <1>1, <1>3, <2>2, <2>3, <2>4, <2>5, ClientStep
<1> QED BY <1>10, <1>11

-----------------------------------------------------------------------------
(* The theorems.                                                            *)

LEMMA NothingEmbeds ==
  ASSUME NEW s, DOMAIN s = {}, NEW t, NEW T
  PROVE  \E g \in [DOMAIN s -> T] : /\ \A i \in DOMAIN s : s[i] = t[g[i]]
                                    /\ \A i, j \in DOMAIN s : i < j => g[i] < g[j]
<1> DEFINE g == [i \in DOMAIN s |-> i]
<1>1. g \in [DOMAIN s -> T]
  OBVIOUS
<1> QED BY <1>1

LEMMA InitSession == Init => SessionInv
<1> SUFFICES ASSUME Init PROVE SessionInv
  OBVIOUS
<1>1. /\ ks = <<>> /\ tid = 0 /\ make \in [Targets -> {"own", "other"}]
      /\ srv  = [n \in Targets |-> <<>>]
      /\ oth  = [n \in Targets |-> NoPeer]
      /\ up   = [n \in Targets |-> <<>>] /\ down = [n \in Targets |-> <<>>]
      /\ plan = [n \in Targets |-> <<>>] /\ did  = [n \in Targets |-> <<>>]
  BY SessionAssumption DEF Init
<1>2. DOMAIN ks = {} /\ IsMap(ks)
  BY <1>1 DEF IsMap
<1>3. IsMap(srv) /\ IsMap(oth) /\ IsMap(up) /\ IsMap(down) /\ IsMap(plan) /\ IsMap(did)
  BY <1>1 DEF IsMap
<1>4. Shape
  BY <1>1, <1>2, <1>3 DEF Shape
<1>5. Session(FALSE, NewConnection, NoPeer, <<>>, <<>>, <<>>, <<>>)
  <2>1. IsPeer(NoPeer)
    BY SuccEnds DEF IsPeer, NoPeer
  <2>2. IsSeq(<<>>) /\ IsPlan(<<>>)
    BY NoWrites DEF IsPlan
  <2>3. Embeds(<<>>, <<>>, Len(<<>>))
    <3>1. Len(<<>>) = 0 /\ DOMAIN <<>> = {}
      OBVIOUS
    <3> QED BY <3>1, NothingEmbeds DEF Embeds
  <2>4. Quiet(NoPeer, <<>>)
    BY DEF Quiet
  <2> QED BY <2>1, <2>2, <2>3, <2>4 DEF Session, Ended
<1>6. ASSUME NEW n \in Targets PROVE NodeInv(n)
  BY <1>1, <1>2, <1>5 DEF NodeInv
<1> QED BY <1>4, <1>6 DEF SessionInv

LEMMA NextSession ==
  ASSUME NoneCut, SessionInv, [Next]_vars
  PROVE  SessionInv'
<1>1. CASE UNCHANGED vars
  <2>1. /\ ks' = ks /\ tid' = tid /\ make' = make /\ srv' = srv /\ oth' = oth /\ up' = up /\ down' = down
        /\ plan' = plan /\ did' = did
    BY <1>1 DEF vars, client, server
  <2>2. Shape /\ \A m \in Targets : NodeInv(m)
    BY DEF SessionInv
  <2>3. Shape'
    BY <2>1, <2>2 DEF Shape
  <2>4. ASSUME NEW m \in Targets PROVE NodeInv(m)'
    <3>1. Same(m)
      BY <2>1 DEF Same
    <3> QED BY <2>2, <3>1, SameLemma
  <2> QED BY <2>3, <2>4 DEF SessionInv
<1>2. ASSUME NEW n \in Targets, NEW j \in Jobs(n), Start(n, j) PROVE SessionInv'
  BY <1>2, StartStep
<1>3. CASE Poll
  BY <1>3, PollStep
<1>4. ASSUME NEW S \in SUBSET Targets, ClientTick(S) PROVE SessionInv'
  BY <1>4, ClientTickStep
<1>5. ASSUME NEW n \in Targets, Receive(n) PROVE SessionInv'
  BY <1>5, ReceiveStep
<1>6. ASSUME NEW n \in Targets, OwnReceive(n) PROVE SessionInv'
  BY <1>6, OwnReceiveStep
<1>7. ASSUME NEW n \in Targets, OwnTick(n) PROVE SessionInv'
  BY <1>7, OwnTickStep
<1>8. ASSUME NEW n \in Targets, NEW big \in BOOLEAN, OtherReceive(n, big) PROVE SessionInv'
  BY <1>8, OtherReceiveStep
<1>9. ASSUME NEW n \in Targets, LoseRequest(n) PROVE SessionInv'
  BY <1>9, LoseRequestStep
<1>10. ASSUME NEW n \in Targets, LoseResponse(n) PROVE SessionInv'
  BY <1>10, LoseResponseStep
<1> QED BY <1>1, <1>2, <1>3, <1>4, <1>5, <1>6, <1>7, <1>8, <1>9, <1>10 DEF Next

\* The stop-and-wait discipline of the sequence layer: whatever the channels
\* lose and the client repeats, the two ends of a session are always in one of
\* the states of Session (SdoClientConnection::handle_response and
\* get_pending_request, client_connection.rs).
THEOREM SessionTheorem ==
  ASSUME NoneCut
  PROVE  Spec => []SessionInv
<1>1. Init => SessionInv
  BY InitSession
<1>2. SessionInv /\ [Next]_vars => SessionInv'
  BY NextSession
<1> QED BY <1>1, <1>2, PTL DEF Spec

\* A server that keeps the sequence layer's rules executes the writes of
\* write_object and start_configuration_download in order and none of them
\* twice, although tick sends a request again when its answer is late: for any
\* number of targets, jobs and frames in flight and any modulus, if no write
\* has a length that get_next_download_segment cuts.
THEOREM AtMostOnceTheorem ==
  ASSUME NoneCut
  PROVE  Spec => []AtMostOnce
<1>1. SessionInv => AtMostOnce
  <2> SUFFICES ASSUME SessionInv, NEW n \in Targets PROVE Within(did[n], plan[n])
    BY DEF AtMostOnce
  <2>1. NodeInv(n)
    BY DEF SessionInv
  <2>2. CASE make[n] = "own"
    <3>1. DOMAIN did[n] = {}
      BY <2>1, <2>2 DEF NodeInv
    <3> QED BY <3>1, NothingEmbeds DEF Within
  <2>3. CASE make[n] # "own"
    <3>1. IsSeq(plan[n]) /\ Embeds(did[n], plan[n], Len(plan[n]))
      BY <2>1, <2>3 DEF NodeInv, Session, IsPlan
    <3> QED BY <3>1, EmbedsWithin
  <2> QED BY <2>2, <2>3
<1> QED BY <1>1, SessionTheorem, PTL

\* handle_response reports a write complete only when such a server has
\* executed that very write with all of its octets: a late or repeated answer
\* to an earlier segment or job is never taken for the answer to the last one.
THEOREM WriteDeliveredTheorem ==
  ASSUME NoneCut
  PROVE  Spec => []WriteDelivered
<1>1. SessionInv => WriteDelivered
  <2> SUFFICES ASSUME SessionInv, NEW n \in Targets, make[n] = "other", Reports(n)
               PROVE  did[n] # <<>> /\ did[n][Len(did[n])] = <<ks[n].tid, ks[n].buf>>
    BY DEF WriteDelivered
  <2> DEFINE k == ks[n]
             d == down[n]
             dd == did[n]
             r == handle_response(k, Head(d))
  <2>1. n \in DOMAIN ks /\ d # <<>> /\ r.done
    BY DEF Reports
  <2>2. Session(TRUE, k, oth[n], up[n], d, plan[n], dd)
    BY <2>1, Stands
  <2>3. r = handle_response(k, Head(d))
    OBVIOUS
  <2> HIDE DEF k, d, dd, r
  <2>4. /\ Session(r.k.st # "Closed", r.k, oth[n], up[n], Tail(d), plan[n], dd)
        /\ r.done => Delivered(k, dd)
    <3>1. d # <<>>
      BY <2>1
    <3> QED BY ONLY <2>2, <2>3, <3>1, Answers
  <2> QED BY <2>1, <2>4 DEF k, dd, Delivered
<1> QED BY <1>1, SessionTheorem, PTL

=============================================================================
