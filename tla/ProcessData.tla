----------------------------- MODULE ProcessData -----------------------------
(* The isochronous exchange of a managing node and controlled node 1: the    *)
(* PReq carries the outputs, the PRes the inputs, and both the containers of *)
(* an embedded SDO channel.  Frames get lost, a PRes may come after its      *)
(* timeout, the applications change their process image and their mappings   *)
(* between two frames, and either node enters and leaves Operational.        *)
EXTENDS PdoHandler

CONSTANTS MnDictionary, CnDictionary,
          Outputs, Inputs,  \* the two mapped objects of each direction
          OutBox, InBox,    \* where the PReq and the PRes have the container
          MnLayouts,        \* the mappings the MN sends with or expects
          CnLayouts,        \* and those of the CN
          MaxPicture,       \* bound: values of a process image
          MaxChanges,       \* bound: what the applications change
          MaxRequests       \* bound: embedded SDO requests
ASSUME ProcessDataAssumption == /\ Outputs \in Seq(UNSIGNED16) /\ Len(Outputs) = 2
                                /\ Inputs \in Seq(UNSIGNED16) /\ Len(Inputs) = 2
                                /\ MaxPicture \in 1..255
                                /\ MaxChanges \in Nat /\ MaxRequests \in UNSIGNED8

(* The configuration.  Nothing in a node compares the places of the two      *)
(* ends, so the mappings of a direction must agree on the container's.       *)
Box    == \h1280            \* the channel of the MN
Server == \h1200            \* and that of the CN

\* A mapping has the container of its node at the place of its direction or
\* not at all, sends nothing else there, and receives no parameter of the
\* communication.
Sendable(v, ch, box) ==
  LET e == from_u64(v)
  IN v.t = "U64" /\ ByteAligned(e) =>
       IF IsContainer(e.index) THEN e.index = ch /\ OffsetOf(e) = box.at /\ LengthOf(e) = box.len
       ELSE EndOf(e) <= box.at \/ box.at + box.len <= OffsetOf(e)
Receivable(v, ch, box) ==
  LET e == from_u64(v)
  IN v.t = "U64" /\ ByteAligned(e) =>
       IF IsContainer(e.index) THEN e.index = ch /\ OffsetOf(e) = box.at /\ LengthOf(e) = box.len
       ELSE e.index \notin \h1000..\h1FFF
Placed(vals, send, ch, out, in) ==
  \A k \in DOMAIN vals : IF send THEN Sendable(vals[k], ch, out) ELSE Receivable(vals[k], ch, in)
Configured(od, ch, out, in) ==
  /\ IsDictionary(od)
  /\ \A i \in DOMAIN od :
       /\ IsTpdoMapping(i) => od[i].obj # "Variable" /\ Placed(od[i].vals, TRUE, ch, out, in)
       /\ IsRpdoMapping(i) => od[i].obj # "Variable" /\ Placed(od[i].vals, FALSE, ch, out, in)
LayoutOk(l, ch, out, in) ==
  /\ l.send \in BOOLEAN /\ l.version \in UNSIGNED8 /\ l.limit \in UNSIGNED16
  /\ l.entries \in Seq(ObjectValue) /\ Len(l.entries) <= 255
  /\ Placed(l.entries, l.send, ch, out, in)
\* The objects of an image are variables of the application.
Paintable(od, objs) == \A k \in DOMAIN objs : /\ objs[k] \in DOMAIN od \ \h1000..\h1FFF
                                            /\ od[objs[k]].obj = "Variable"
ASSUME LayoutAssumption ==
  /\ OutBox \in [at : Nat, len : Nat] /\ InBox \in [at : Nat, len : Nat]
  /\ Configured(MnDictionary, Box, OutBox, InBox)
  /\ Configured(CnDictionary, Server, InBox, OutBox)
  /\ \A l \in MnLayouts : LayoutOk(l, Box, OutBox, InBox)
  /\ \A l \in CnLayouts : LayoutOk(l, Server, InBox, OutBox)
  /\ Paintable(MnDictionary, Outputs) /\ Paintable(CnDictionary, Inputs)

VARIABLES mn, cn,       \* the nodes
          mnOp, cnOp,   \* NmtOperational
          waiting,      \* the MN waits for the PRes (IsochronousPReq)
          preq, pres,   \* the frames on their way
          changes,      \* of images, mappings and states so far
          asked,        \* how many embedded requests were queued
          posed,        \* the last one that was sent
          did,          \* those the CN has executed
          told          \* nodes whose last change of the image was reported
vars == <<mn, cn, mnOp, cnOp, waiting, preq, pres, changes, asked, posed, did, told>>

Value(nd, i) == Num(nd.od[i].vals[1].d)
Image(nd, objs) == <<Value(nd, objs[1]), Value(nd, objs[2])>>

Init == /\ mn = Node(MnDictionary) /\ cn = Node(CnDictionary)
        /\ mnOp = TRUE /\ cnOp = TRUE
        /\ waiting = FALSE
        /\ preq = None /\ pres = <<>>
        /\ changes = 0
        /\ asked = 0 /\ posed = None /\ did = <<>>
        /\ told = {}

\* The image of a node changed without an error: it is whole again.
Told(who, old, new, objs) ==
  IF new.errs # {} THEN told \cup {who}
  ELSE IF Image(old, objs) # Image(new, objs) THEN told \ {who} ELSE told

--------------------------------------------------------------------------
(* The cycle.                                                               *)

\* The last request that left the queue, if one did.
LastSent(old, new) ==
  LET n == Len(old[Box].queue) - Len(new[Box].queue)
  IN IF Box \in DOMAIN old /\ n > 0 THEN Some(old[Box].queue[n]) ELSE posed

\* The MN polls the CN; a PReq that cannot be built is not sent.
Poll == /\ preq = None
        /\ ~waiting
        /\ \E r \in {build_preq_frame(AtRest(mn), 1, mnOp)} :
             /\ mn'   = r.nd
             /\ preq' = r.frame
             /\ posed' = LastSent(mn.ec, r.nd.ec)
        /\ waiting' = TRUE
        /\ UNCHANGED <<cn, mnOp, cnOp, pres, changes, asked, did, told>>

\* The CN takes the outputs and answers with its inputs.
CnReceive == /\ preq # None
             /\ Len(pres) < 2
             /\ preq' = None
             /\ LET f == preq[1]
                IN \E n \in {consume_pdo_payload(AtRest(cn), f.src, f.p, f.version, f.rd)} :
                   \E r \in {build_pres_response(n, cnOp)} :
                     /\ cn'   = r.nd
                     /\ pres' = Append(pres, [src |-> r.src, p |-> r.p, version |-> r.version, rd |-> r.rd])
                     /\ did'  = did \o n.ran
                     /\ told' = Told("cn", cn, n, Outputs)
             /\ UNCHANGED <<mn, mnOp, cnOp, waiting, changes, asked, posed>>

\* The MN takes the inputs of the PRes it waits for; any other is ignored.
MnReceive == /\ pres # <<>>
             /\ pres' = Tail(pres)
             /\ LET f == Head(pres)
                IN \E n \in {IF waiting THEN consume_pdo_payload(AtRest(mn), f.src, f.p, f.version, f.rd)
                             ELSE AtRest(mn)} :
                     /\ mn'   = n
                     /\ told' = Told("mn", mn, n, Inputs)
             /\ waiting' = FALSE
             /\ UNCHANGED <<cn, mnOp, cnOp, preq, changes, asked, posed, did>>

Timeout == /\ waiting
           /\ preq = None
           /\ waiting' = FALSE
           /\ UNCHANGED <<mn, cn, mnOp, cnOp, preq, pres, changes, asked, posed, did, told>>

LosePReq == /\ preq # None
            /\ preq' = None
            /\ UNCHANGED <<mn, cn, mnOp, cnOp, waiting, pres, changes, asked, posed, did, told>>
LosePRes == /\ pres # <<>>
            /\ pres' = Tail(pres)
            /\ UNCHANGED <<mn, cn, mnOp, cnOp, waiting, preq, changes, asked, posed, did, told>>

--------------------------------------------------------------------------
(* The applications.                                                        *)

Change == changes < MaxChanges /\ changes' = changes + 1

\* A new picture: both objects of the image.
PaintedOne(nd, i, k) == [nd EXCEPT !.od[i].vals[1].d = Le(k, Len(@))]
Painted(nd, objs, k) == PaintedOne(PaintedOne(nd, objs[1], k), objs[2], k)
MnPaint(k) == /\ Change
              /\ mn' = Painted(mn, Outputs, k)
              /\ UNCHANGED <<cn, mnOp, cnOp, waiting, preq, pres, asked, posed, did, told>>
CnPaint(k) == /\ Change
              /\ cn' = Painted(cn, Inputs, k)
              /\ UNCHANGED <<mn, mnOp, cnOp, waiting, preq, pres, asked, posed, did, told>>

\* A mapping, its version and, of what is sent, the length of the payload.
Stored(nd, i, k, v) == [nd EXCEPT !.od[i].vals[k] = v]
Mapped(nd, i, vals) == [nd EXCEPT !.od[i].vals = vals]
Remapped(nd, comm, l) == Mapped(Stored(nd, comm, 2, U8(l.version)), comm + \h200, l.entries)
MnRemap(l) ==
  /\ Change
  /\ mn' = IF l.send THEN Stored(Remapped(mn, \h1800, l), \h1F8B, 1, U16(l.limit))
           ELSE Remapped(mn, \h1400, l)
  /\ UNCHANGED <<cn, mnOp, cnOp, waiting, preq, pres, asked, posed, did, told>>
CnRemap(l) ==
  /\ Change
  /\ cn' = IF l.send THEN Stored(Remapped(cn, \h1800, l), \h1F98, 5, U16(l.limit))
           ELSE Remapped(cn, \h1400, l)
  /\ UNCHANGED <<mn, mnOp, cnOp, waiting, preq, pres, asked, posed, did, told>>

\* The n-th embedded request reads or writes sub-index n of 2001h.
Request(n) == [id    |-> IF n % 2 = 0 THEN "WriteByIndex" ELSE "ReadByIndex",
               index |-> \h2001, sub |-> n, data |-> IF n % 2 = 0 THEN <<n>> ELSE <<>>]
Ask == LET q == Request(asked + 1)
       IN /\ asked < MaxRequests
          /\ mn' = [mn EXCEPT !.ec = queue_request(@, Box, q.id, q.index, q.sub, q.data)]
          /\ asked' = asked + 1
          /\ UNCHANGED <<cn, mnOp, cnOp, waiting, preq, pres, changes, posed, did, told>>

SwitchMn == /\ Change
            /\ mnOp' = ~mnOp
            /\ UNCHANGED <<mn, cn, cnOp, waiting, preq, pres, asked, posed, did, told>>
SwitchCn == /\ Change
            /\ cnOp' = ~cnOp
            /\ UNCHANGED <<mn, cn, mnOp, waiting, preq, pres, asked, posed, did, told>>

Next == \/ Poll
        \/ CnReceive
        \/ MnReceive
        \/ Timeout
        \/ LosePReq
        \/ LosePRes
        \/ \E k \in 1..MaxPicture : MnPaint(k) \/ CnPaint(k)
        \/ \E l \in MnLayouts : MnRemap(l)
        \/ \E l \in CnLayouts : CnRemap(l)
        \/ Ask
        \/ SwitchMn
        \/ SwitchCn

Spec == Init /\ [][Next]_vars

--------------------------------------------------------------------------
(* Properties.                                                              *)

Pictures == {<<k, k>> : k \in 1..MaxPicture}

\* A received process image is one picture the other application painted,
\* whichever of their layouts the two sides have at the moment and whatever was
\* lost; if it is not, the error manager was told (E_PDO_SHORT_RX).  In
\* particular zeros sent after a failed build are never taken for inputs.  The
\* layouts map objects that exist: for one that does not a CN sends zeros with
\* RD set.
PictureWhole == /\ "cn" \in told \/ Image(cn, Outputs) \in Pictures
                /\ "mn" \in told \/ Image(mn, Inputs) \in Pictures

\* A container the client accepts answers a command the CN has executed: the
\* last request that was sent.  The answer to an earlier request that comes
\* late is taken for it only when the numbers have gone round since, and that
\* of an empty container, which the server executes as a command when it
\* expects number 0, only as an abort.  The client does not ask whether a
\* container is a response: an idle one is taken for a success, but only while
\* it waits for the answer to a request with number 0.  An abort that is
\* accepted has the four octets of its code.
Answered(g, c) == g.index = c.index /\ g.sub = c.sub /\ (g.abrt \/ g.id = c.id)
AnswersRequest(g) ==
  \E j \in DOMAIN did :
    /\ Answered(g, did[j])
    /\ \/ did[j].id = "Nil" /\ g.abrt
       \/ posed # None /\ \/ did[j].sub = posed[1].sub /\ did[j].id = posed[1].id
                          \/ did[j].sub + EmbSeqs <= posed[1].sub
IdleTaken(g) == /\ ~g.resp /\ ~g.abrt
                /\ posed # None /\ (posed[1].sub - 1) % EmbSeqs = 0
AnswerMatches ==
  \A k \in DOMAIN mn.got :
    /\ AnswersRequest(mn.got[k]) \/ IdleTaken(mn.got[k])
    /\ mn.got[k].abrt => Len(mn.got[k].data) >= 4

\* The CN executes embedded requests in the order in which they were queued,
\* and none of them twice.
ExecutedInOrder ==
  \A i, j \in DOMAIN did :
    i < j /\ did[i].id # "Nil" /\ did[j].id # "Nil" => did[i].sub < did[j].sub
=============================================================================
