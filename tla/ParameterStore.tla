--------------------------- MODULE ParameterStore ---------------------------
(* The life of a node's parameters: firmware defaults, the overlay of the   *)
(* stored values at a boot, writes by the application and over SDO, the     *)
(* save and restore commands, the NMT resets, and a storage medium whose    *)
(* calls may fail at any point, with the power lost between any two steps.  *)
EXTENDS ObjectDictionary

CONSTANTS Firmware,     \* [mn, entries]: a node's kind and the dictionary
                        \* its application builds
          LocalWrites,  \* <<index, sub-index, value>> the application writes
          SdoWrites,    \* <<index, sub-index, bytes>> that arrive over SDO
          Errors,       \* the error entries a node may log
          MaxLogged     \* bound of this model: entries logged in one life
ASSUME FirmwareAssumption ==
  /\ Firmware # {}
  /\ \A f \in Firmware : f.mn \in BOOLEAN /\ IsDictionary(f.entries)
ASSUME WritesAssumption ==
  /\ \A w \in LocalWrites : w[1] \in UNSIGNED16 /\ w[2] \in UNSIGNED8 /\ w[3] \in ObjectValue
  /\ \A w \in SdoWrites : w[1] \in UNSIGNED16 /\ w[2] \in UNSIGNED8 /\ w[3] \in Seq(UNSIGNED8)
ASSUME ErrorsAssumption == \A e \in Errors : e \in ObjectValue

VARIABLES fw,       \* the firmware's dictionary (the "Base Layer")
          od,       \* the running node's dictionary, empty when it is down
          nv,       \* the storage backend
          up,       \* the node was built and runs
          saved,    \* what the last successful save command was given
          asked     \* a restore was asked for and no boot has completed since

vars == <<fw, od, nv, up, saved, asked>>

Down == <<>>

Init == /\ fw \in Firmware
        /\ od = Down
        /\ nv \in {[present |-> p, params |-> NoParams, restore |-> FALSE] : p \in BOOLEAN}
        /\ up = FALSE
        /\ saved = NoParams
        /\ asked = FALSE

\* The areas whose PowerOn values a reset brings back, each with a load of
\* its own from the storage.
Areas == {"manufacturer", "device", "communication"}
RangeOf(area) == CASE area = "manufacturer"  -> \h2000..\h5FFF
                   [] area = "device"        -> \h6000..\h9FFF
                   [] area = "communication" -> \h1000..\h1FFF
InArea(i, area) == i \in RangeOf(area)

ResetEvents == {"Reset", "SwReset", "ResetNode", "ResetCommunication", "ResetConfiguration"}
AreasOf(event) == CASE event \in {"Reset", "SwReset", "ResetNode"} -> Areas
                    [] event = "ResetCommunication"                -> {"communication"}
                    [] event = "ResetConfiguration"                -> {}
NotActive   == U8(\h1C)

\* Mutant: a ResetNode starts one stage too late and leaves the application's
\* areas alone.
MutReset(o, n, event, loads) ==
  LET back(d, lo, hi, area) == restore_power_on_values(d, n, lo, hi, area \in loads)
      app(d)  == back(back(d, \h2000, \h5FFF, "manufacturer"), \h6000, \h9FFF, "device")
      com(d)  == back(d, \h1000, \h1FFF, "communication")
      done(d) == write_internal(d, IDX_NMT_CURR_NMT_STATE_U8, 0, NotActive, FALSE).od
  IN CASE event \in {"Reset", "SwReset"}                     -> done(com(app(o)))
       [] event \in {"ResetNode", "ResetCommunication"}      -> done(com(o))
       [] event = "ResetConfiguration"                       -> done(o)

\* NmtStateMachine::reset: the areas' PowerOn values, then the state NotActive
\* in 1F8Ch.  loads: the areas whose load works; a failing load is only
\* logged, and the area gets its defaults.
reset(o, n, event, loads) ==
  LET back(d, lo, hi, area) == restore_power_on_values(d, n, lo, hi, area \in loads)
      app(d)  == back(back(d, \h2000, \h5FFF, "manufacturer"), \h6000, \h9FFF, "device")
      com(d)  == back(d, \h1000, \h1FFF, "communication")
      done(d) == write_internal(d, IDX_NMT_CURR_NMT_STATE_U8, 0, NotActive, FALSE).od
  IN CASE event \in {"Reset", "SwReset", "ResetNode"} -> done(com(app(o)))
       [] event = "ResetCommunication"                -> done(com(o))
       [] event = "ResetConfiguration"                -> done(o)

\* What the two constructors read from the dictionary once it is initialised;
\* an object that is missing or of another type refuses the node.
from_od(o, is_mn) ==
  LET Has(t, i, s) == LET v == read(o, i, s) IN v # None /\ v[1].t = t
  IN /\ Has("U32", \h1F82, 0)
     /\ is_mn  => /\ Has("U32", \h1F89, 1) /\ Has("U32", \h1F80, 0) /\ Has("U32", \h1006, 0)
                  /\ read_object(o, \h1F81) = Some("Array")
     /\ ~is_mn => /\ read_or("U8", o, \h1F93, 1, 0) \in (1..240) \cup (253..255)
                  /\ Has("U32", \h1F99, 0)

\* ControlledNode::new and ManagingNode::new: the dictionary is initialised
\* and checked, and the node runs after the SwReset of its first internal
\* initialisation; or the error is returned and there is no node.  fault: the
\* call of the storage that fails in init; loads: the ones that work in reset.
Boot(fault, loads) ==
  LET r == init(fw.entries, nv, fault)
  IN /\ ~up
     /\ nv' = r.nv
     /\ up' = (r.err = "Ok" /\ validate_mandatory_objects(r.od, fw.mn) /\ from_od(r.od, fw.mn))
     /\ od' = IF up' THEN reset(r.od, r.nv, "SwReset", loads) ELSE Down
     /\ saved' = IF r.err = "Ok" /\ nv.restore THEN NoParams ELSE saved
     /\ asked' = (asked /\ r.err # "Ok")
     /\ UNCHANGED fw

PowerLoss == /\ up
             /\ up' = FALSE
             /\ od' = Down
             /\ UNCHANGED <<fw, nv, saved, asked>>

\* The next boot runs other firmware; the medium keeps what was stored.
UpdateFirmware == /\ ~up
                  /\ fw' \in {f \in Firmware : f.mn = fw.mn} \ {fw}
                  /\ UNCHANGED <<od, nv, up, saved, asked>>

\* What a write does to the node, and what its commands ask for.
Commanded(w, o, n, ok) ==
  /\ od' = o
  /\ nv' = n
  /\ saved' = IF w[1] = IDX_NMT_STORE_PARAM_CMD_REC /\ ok THEN StorableParams(od, w[2]) ELSE saved
  /\ asked' = (asked \/ (w[1] = IDX_NMT_RESTORE_PARAM_CMD_REC /\ ok))
  /\ UNCHANGED <<fw, up>>

LocalWrite(w, mediaOk) ==
  LET r == write(od, nv, w[1], w[2], w[3], mediaOk)
  IN /\ up
     /\ Commanded(w, r.od, r.nv, r.err = "Ok")

SdoWrite(w, mediaOk) ==
  LET r == write_bytes(od, nv, w[1], w[2], w[3], mediaOk)
  IN /\ up
     /\ Commanded(w, r.od, r.nv, r.err = 0)

Log(e) == /\ up
          /\ read_or("U32", od, \h1102, 1, 0) < MaxLogged
          /\ od' = increment_counter(write_error_to_history(od, e), \h1102, 1)
          /\ UNCHANGED <<fw, nv, up, saved, asked>>

Reset(event, loads) == /\ up
                       /\ od' = reset(od, nv, event, loads)
                       /\ UNCHANGED <<fw, nv, up, saved, asked>>

Faults == {"none", "clear", "flag", "load"}

Next == \/ \E f \in Faults, loads \in SUBSET Areas : Boot(f, loads)
        \/ PowerLoss
        \/ UpdateFirmware
        \/ \E w \in LocalWrites, ok \in BOOLEAN : LocalWrite(w, ok)
        \/ \E w \in SdoWrites, ok \in BOOLEAN : SdoWrite(w, ok)
        \/ \E e \in Errors : Log(e)
        \/ \E ev \in ResetEvents : \E loads \in SUBSET AreasOf(ev) : Reset(ev, loads)

Spec == Init /\ [][Next]_vars
-----------------------------------------------------------------------------
(* What must hold. *)

\* Every write, reset, log entry and boot leaves a well-formed dictionary: a
\* value keeps the width of its type, a Variable its one value, no object
\* outgrows the sub-indices; the storage holds values of addressable objects.
ParamsOK(p) == /\ p = [a \in DOMAIN p |-> p[a]]
               /\ \A a \in DOMAIN p : /\ a \in UNSIGNED16 \X UNSIGNED8
                                      /\ p[a] \in ObjectValue
TypeOK == /\ fw \in Firmware
          /\ IsDictionary(od)
          /\ nv = [present |-> nv.present, params |-> nv.params, restore |-> nv.restore]
          /\ nv.present \in BOOLEAN /\ nv.restore \in BOOLEAN
          /\ ParamsOK(nv.params) /\ ParamsOK(saved)
          /\ up \in BOOLEAN /\ asked \in BOOLEAN
          /\ up = (od # Down)

\* A restore that was asked for stays asked for until a boot has completed
\* it: a wipe that fails, a flag that cannot be cleared or a power loss
\* between the two leaves it to be retried (storage.rs: "if clear() fails, we
\* retry on next boot").  And a boot that completes it leaves nothing stored.
RestoreNotLost == asked => nv.restore

\* The first boot that completes after a restore was asked for brings the
\* node up exactly as one that has never stored anything, whatever was stored
\* before, however many boots failed in between and whichever loads of its
\* last reset fail; and it leaves the storage empty.
Factory == reset(populate_protocol_objects(fw.entries), NoStorage, "SwReset", Areas)
RestoreHonoured ==
  [][(~up /\ up' /\ asked) => od' = Factory /\ nv'.params = NoParams]_vars

\* What the last save command was given comes back at every later boot, for
\* every object the firmware still has with the type it had, protocol objects
\* the firmware does not declare itself included.  The one exception is an
\* area whose load fails in the reset that ends the boot: there the object may
\* have its default instead, in a node that is up.  (1F8Ch is written by the
\* boot itself.)
SavedComesBack ==
  [][(~up /\ up' /\ ~nv.restore) =>
       \A f \in Faults, loads \in SUBSET Areas : Boot(f, loads) =>
         \A a \in DOMAIN saved :
           (/\ a[1] \in DOMAIN od' \ {IDX_NMT_CURR_NMT_STATE_U8}
            /\ a[2] \in SubsOf(od'[a[1]])
            /\ ValueAt(populate_protocol_objects(fw.entries), a).t = saved[a].t)
           => \/ ValueAt(od', a) = saved[a]
              \/ /\ \E area \in Areas \ loads : InArea(a[1], area)
                 /\ od'[a[1]].default = Some(ValueAt(od', a))]_vars

\* An NMT reset of the whole node brings every object of the three areas that
\* has a stored value, or a default it can take, back to what a power cycle
\* would give it, whatever was written since: nothing the application or the
\* network wrote survives a ResetNode that would not survive a power loss.
Booted == reset(init(fw.entries, [nv EXCEPT !.restore = FALSE], "none").od, nv, "SwReset", Areas)
ResetMatchesBoot ==
  [][(up /\ up' /\ nv' = nv /\ od' = reset(od, nv, "ResetNode", Areas)) =>
       LET booted == Booted IN
       \A i \in DOMAIN od' \ {IDX_ERR_HISTORY, IDX_NMT_CURR_NMT_STATE_U8} :
         (\E area \in Areas : InArea(i, area)) =>
           \A s \in SubsOf(od[i]) :
             (\/ nv.present /\ <<i, s>> \in DOMAIN nv.params
              \/ od[i].default # None /\ (s = 0 \/ od[i].default[1].t = ValueAt(od, <<i, s>>).t))
             => ValueAt(od', <<i, s>>) = ValueAt(booted, <<i, s>>)]_vars

\* No reset, write or command loses an entry of the Error History, which is
\* read-only to the network: while the node runs the entries only move down,
\* the oldest leaving at the limit.
HistoryKept ==
  [][(/\ up /\ up' /\ read_object(od, IDX_ERR_HISTORY) = Some("Array")
      /\ od[IDX_ERR_HISTORY].access \in {"ReadOnly", "Constant"}) =>
       LET old == od[IDX_ERR_HISTORY].vals
           new == od'[IDX_ERR_HISTORY].vals
       IN \/ new = old
          \/ \E e \in Errors : new = SubSeq(<<e>> \o old, 1, Len(new))
                               /\ Len(new) >= Len(old) /\ Len(new) > 0]_vars
=============================================================================
