-------------------------- MODULE ObjectDictionary --------------------------
(* The Object Dictionary (od/): reading, writing, PDO-mapping validation,   *)
(* the store and restore commands, initialisation and the PowerOn values,   *)
(* as operators on a dictionary and on the storage backend behind it.       *)
(*                                                                          *)
(* A value is its type and its little-endian bytes, which is also its       *)
(* serialized form.  Of the numeric types only the unsigned ones are named; *)
(* the others have the same bytes.  An entry keeps its kind, its values     *)
(* (one for a Variable), its access right and its default, if it has one.   *)
EXTENDS Integers, Sequences, TLC

CONSTANT MaxHistory         \* MAX_HISTORY_ENTRIES, 254 in the code
ASSUME MaxHistoryAssumption == MaxHistory \in 1..254

None    == <<>>
Some(v) == <<v>>

UNSIGNED8  == 0..255
UNSIGNED16 == 0..65535

IDX_ERR_HISTORY == \h1003
IDX_NMT_STORE_PARAM_CMD_REC == \h1010
IDX_NMT_RESTORE_PARAM_CMD_REC == \h1011
IDX_NMT_CURR_NMT_STATE_U8 == \h1F8C

\* A number as w little-endian bytes, and back.
Weight   == <<1, 256, 65536, 16777216>>
Le(n, w) == [k \in 1..w |-> IF k > 4 THEN 0 ELSE (n \div Weight[k]) % 256]
Num(d)   == LET at(k) == IF k <= Len(d) THEN d[k] * Weight[k] ELSE 0
            IN at(1) + at(2) + at(3) + at(4)

Width == [Boolean |-> 1, U8 |-> 1, U16 |-> 2, U32 |-> 4, U64 |-> 8,
          TimeOfDay |-> 6, NetTime |-> 8, MacAddress |-> 6, IpAddress |-> 4]
\* ObjectValue: a type and its bytes, of the width of the type if it has one.
ObjectType  == DOMAIN Width \cup {"VisibleString", "OctetString", "UnicodeString", "Domain"}
ObjectValue == {v \in [t : ObjectType, d : Seq(UNSIGNED8)] :
                  v.t \in DOMAIN Width => Len(v.d) = Width[v.t]}
U8(n)  == [t |-> "U8",  d |-> Le(n, 1)]
U16(n) == [t |-> "U16", d |-> Le(n, 2)]
U32(n) == [t |-> "U32", d |-> Le(n, 4)]
VisibleString(s) == [t |-> "VisibleString", d |-> s]
OctetString(s)   == [t |-> "OctetString",   d |-> s]

\* A PDO mapping entry: index, sub-index, a reserved byte, offset and length
\* in bits (PdoMappingEntry, to_u64).
Mapping(i, s, off, len) ==
  [t |-> "U64", d |-> Le(i, 2) \o <<s, 0>> \o Le(off, 2) \o Le(len, 2)]

AccessType == {"ReadOnly", "WriteOnly", "WriteOnlyStore", "ReadWrite",
               "ReadWriteStore", "Constant", "Conditional", "None"}
ObjectEntry(obj, vals, access, default) ==
  [obj |-> obj, vals |-> vals, access |-> access, default |-> default]

\* A dictionary: 16-bit indices, entries of at most 255 values (a sub-index is
\* one byte), a Variable of exactly one.
ObjectEntries ==
  {e \in [obj : {"Variable", "Array", "Record"}, vals : Seq(ObjectValue), access : AccessType,
          default : {d \in Seq(ObjectValue) : Len(d) <= 1}] :
     /\ Len(e.vals) <= 255
     /\ e.obj = "Variable" => Len(e.vals) = 1}
IsDictionary(od) == /\ od = [i \in DOMAIN od |-> od[i]]
                    /\ DOMAIN od \subseteq UNSIGNED16
                    /\ \A i \in DOMAIN od : od[i] \in ObjectEntries

\* The signatures of 1010h and 1011h.
SaveText == <<115, 97, 118, 101>>
LoadText == <<108, 111, 97, 100>>

serialize(v) == v.d

\* Mutant: a fixed-size type keeps the bytes that follow it.
MutDeserialize(data, template) ==
  IF template.t \in DOMAIN Width /\ Len(data) < Width[template.t]
  THEN [err |-> "BufferTooShort", val |-> template]
  ELSE [err |-> "Ok", val |-> [t |-> template.t, d |-> data]]

\* A fixed-size type takes its bytes and ignores the rest; a string must be
\* text (here: ASCII), UTF-16 an even number of bytes.
deserialize(data, template) ==
  LET ok(d) == [err |-> "Ok", val |-> [t |-> template.t, d |-> d]]
      no(e) == [err |-> e, val |-> template]
  IN CASE template.t \in DOMAIN Width ->
            IF Len(data) < Width[template.t] THEN no("BufferTooShort")
            ELSE ok(SubSeq(data, 1, Width[template.t]))
       [] template.t = "VisibleString" ->
            IF \E k \in DOMAIN data : data[k] >= 128 THEN no("TypeMismatch") ELSE ok(data)
       [] template.t = "UnicodeString" ->
            IF Len(data) % 2 # 0 THEN no("TypeMismatch") ELSE ok(data)
       [] OTHER -> ok(data)

read(od, i, s) ==
  CASE i \notin DOMAIN od                     -> None
    [] i \in DOMAIN od /\ od[i].obj = "Variable" ->
         IF s = 0 THEN Some(od[i].vals[1]) ELSE None
    [] OTHER ->
         IF s = 0 THEN Some(U8(IF Len(od[i].vals) > 254 THEN 254 ELSE Len(od[i].vals)))
         ELSE IF s <= Len(od[i].vals) THEN Some(od[i].vals[s]) ELSE None

read_object(od, i) == IF i \in DOMAIN od THEN Some(od[i].obj) ELSE None

\* read_u8, read_u16, read_u32: the number, if the object has that type.
read_as(t, od, i, s) ==
  LET r == read(od, i, s)
  IN IF r # None /\ r[1].t = t THEN Some(Num(r[1].d)) ELSE None
read_or(t, od, i, s, n) ==
  LET r == read_as(t, od, i, s) IN IF r = None THEN n ELSE r[1]

\* The name of an entry is text; two characters made of its index stand for it.
NameOf(i) == <<i \div 256, i % 256>>
find_by_name(od, name) ==
  LET found == {i \in DOMAIN od : NameOf(i) = name}
  IN IF found = {} THEN None ELSE Some(<<CHOOSE i \in found : TRUE, 0>>)

get_configured_cns(od) ==
  IF read_object(od, \h1F81) # Some("Array") THEN {}
  ELSE {n \in DOMAIN od[\h1F81].vals :
          LET v == od[\h1F81].vals[n]
          IN v.t = "U32" /\ v.d[1] % 2 = 1 /\ v.d[2] % 2 = 0}

IsRpdoMapping(i) == i \in \h1600..\h16FF
IsTpdoMapping(i) == i \in \h1A00..\h1AFF

from_u64(v) ==
  LET part(a, b) == Num(SubSeq(v.d, a, b))
  IN [index |-> part(1, 2), sub |-> part(3, 3), offset |-> part(5, 6), length |-> part(7, 8)]

validate_pdo_mapping(od, i, n) ==
  LET limit == read_or("U16", od, \h1F98, IF IsTpdoMapping(i) THEN 1 ELSE 2, 1490)
      End(k) == LET m == from_u64(od[i].vals[k]) IN m.offset + m.length
  IN CASE n = 0 -> "Ok"
       [] n # 0 /\ read_object(od, i) # Some("Array") -> "ObjectNotFound"
       [] OTHER ->
            IF \E k \in 1..n : k > Len(od[i].vals) \/ od[i].vals[k].t # "U64"
            THEN "ValidationError"
            ELSE IF \E k \in 1..n : (End(k) + 7) \div 8 > limit
            THEN "PdoMapOverrun" ELSE "Ok"

\* write_internal: the access right only when asked, then the type.  The
\* number of PDO mapping entries is accepted and not stored.
write_internal(od, i, s, v, check) ==
  LET no(e) == [err |-> e, od |-> od]
      k     == IF od[i].obj = "Variable" THEN 1 ELSE s
  IN CASE i \notin DOMAIN od -> no("ObjectNotFound")
       [] i \in DOMAIN od /\ check /\ od[i].access \in {"ReadOnly", "Constant"} ->
            no("ReadOnly")
       [] OTHER ->
            IF od[i].obj # "Variable" /\ s = 0
            THEN IF IsRpdoMapping(i) \/ IsTpdoMapping(i)
                 THEN no(IF v.t = "U8" THEN "Ok" ELSE "TypeMismatch")
                 ELSE no("StorageError")
            ELSE IF (od[i].obj = "Variable" /\ s # 0) \/ k > Len(od[i].vals)
            THEN no("SubObjectNotFound")
            ELSE IF od[i].vals[k].t # v.t THEN no("TypeMismatch")
            ELSE [err |-> "Ok", od |-> [od EXCEPT ![i].vals[k] = v]]

(* The storage backend (hal.rs, an interface the application implements).   *)
(* It is there or not; it holds the stored parameters and the flag that     *)
(* asks for the defaults at the next boot.  mediaOk: the call succeeds.     *)
NoParams == <<>>
NoStorage == [present |-> FALSE, params |-> NoParams, restore |-> FALSE]

\* The sub-indices of 1010h: all, communication, application parameters.
InList(list, i) == \/ list = 1
                   \/ list = 2 /\ i \in \h1000..\h1FFF
                   \/ list = 3 /\ i \in \h6000..\h9FFF
Storable(e) == e.access \in {"ReadWriteStore", "WriteOnlyStore"}
SubsOf(e)   == IF e.obj = "Variable" THEN {0} ELSE DOMAIN e.vals
ValueAt(od, a) == od[a[1]].vals[IF a[2] = 0 THEN 1 ELSE a[2]]

StorableParams(od, list) ==
  LET addrs == UNION {{<<i, s>> : s \in SubsOf(od[i])} :
                      i \in {j \in DOMAIN od : InList(list, j) /\ Storable(od[j])}}
  IN [a \in addrs |-> ValueAt(od, a)]

\* Mutant: only the first sub-index of an array or record is collected.
MutStoreFirst(od, nv, list, mediaOk) ==
  IF nv.present /\ mediaOk
  THEN LET all == StorableParams(od, list)
       IN [err |-> "Ok", od |-> od,
           nv |-> [nv EXCEPT !.params = [a \in {b \in DOMAIN all : b[2] <= 1} |-> all[a]]]]
  ELSE [err |-> "StorageError", od |-> od, nv |-> nv]

store_parameters(od, nv, list, mediaOk) ==
  IF nv.present /\ mediaOk
  THEN [err |-> "Ok", od |-> od, nv |-> [nv EXCEPT !.params = StorableParams(od, list)]]
  ELSE [err |-> "StorageError", od |-> od, nv |-> nv]

restore_defaults(od, nv, mediaOk) ==
  IF nv.present /\ mediaOk
  THEN [err |-> "Ok", od |-> od, nv |-> [nv EXCEPT !.restore = TRUE]]
  ELSE [err |-> "StorageError", od |-> od, nv |-> nv]

\* The public write: the two command objects, the validation of a PDO
\* mapping that is being enabled, then the object itself.
write(od, nv, i, s, v, mediaOk) ==
  LET no(e) == [err |-> e, od |-> od, nv |-> nv]
      signed(text) == v.t = "VisibleString" /\ v.d = text /\ s > 0
      valid == IF ~(s = 0 /\ (IsRpdoMapping(i) \/ IsTpdoMapping(i))) THEN "Ok"
               ELSE IF v.t # "U8" THEN "TypeMismatch"
               ELSE validate_pdo_mapping(od, i, Num(v.d))
      w == write_internal(od, i, s, v, TRUE)
  IN CASE i = IDX_NMT_STORE_PARAM_CMD_REC ->
            IF signed(SaveText) THEN store_parameters(od, nv, s, mediaOk) ELSE no("StorageError")
       [] i = IDX_NMT_RESTORE_PARAM_CMD_REC ->
            IF signed(LoadText) THEN restore_defaults(od, nv, mediaOk) ELSE no("StorageError")
       [] OTHER ->
            IF valid # "Ok" THEN no(valid) ELSE [err |-> w.err, od |-> w.od, nv |-> nv]

\* The abort codes of the SDO layers.
SdoTimedOut            == \h05040000
InvalidCommand         == \h05040001
InvalidSequence        == \h05040003
UnsupportedAccess      == \h06010001
AttemptToWriteReadOnly == \h06010002
NoSuchObject           == \h06020000
LengthMismatch         == \h06070010
LengthTooLow           == \h06070013
NoSuchSubIndex         == \h06090011
ValueRangeExceeded     == \h06090030
ResourceUnavailable    == \h060A0023
GeneralError           == \h08000000
CannotStore            == \h08000020

NotFound(od, i) == IF read_object(od, i) = None THEN NoSuchObject ELSE NoSuchSubIndex
AbortCode(e) == CASE e = "Ok"              -> 0
                  [] e = "ReadOnly"        -> AttemptToWriteReadOnly
                  [] e = "TypeMismatch"    -> LengthMismatch
                  [] e = "ValidationError" -> ValueRangeExceeded
                  [] OTHER                 -> CannotStore

\* A write that arrives as bytes (SDO, perform_od_write): the object's own
\* value is the type template.  err is 0 or the code of the abort.
write_bytes(od, nv, i, s, data, mediaOk) ==
  LET no(e) == [err |-> e, od |-> od, nv |-> nv]
      template == read(od, i, s)
  IN IF template = None
     THEN no(NotFound(od, i))
     ELSE LET v == deserialize(data, template[1])
              w == write(od, nv, i, s, v.val, mediaOk)
          IN IF v.err = "BufferTooShort" THEN no(LengthTooLow)
             ELSE IF v.err # "Ok" THEN no(LengthMismatch)
             ELSE [err |-> AbortCode(w.err), od |-> w.od, nv |-> w.nv]

\* Every value of the range returns to the stored one, else to the default.
\* The Error History keeps its entries.
restore_power_on_values(od, nv, lo, hi, mediaOk) ==
  LET stored == IF nv.present /\ mediaOk THEN nv.params ELSE NoParams
      PowerOn(i, k) ==
        LET e == od[i]
            a == <<i, IF e.obj = "Variable" THEN 0 ELSE k>>
        IN IF a \in DOMAIN stored THEN stored[a]
           ELSE IF e.default # None
                   /\ (e.obj = "Variable" \/ e.default[1].t = e.vals[k].t)
           THEN e.default[1] ELSE e.vals[k]
  IN [i \in DOMAIN od |->
        IF i \in lo..hi /\ i # IDX_ERR_HISTORY
        THEN [od[i] EXCEPT !.vals = [k \in DOMAIN @ |-> PowerOn(i, k)]]
        ELSE od[i]]

\* An UNSIGNED32 wraps from its largest value to zero.
Incremented(d) ==
  [k \in DOMAIN d |-> IF \A j \in 1..(k - 1) : d[j] = 255 THEN (d[k] + 1) % 256 ELSE d[k]]

increment_counter(od, i, s) ==
  LET k == IF s = 0 THEN 1 ELSE s
  IN IF /\ i \in DOMAIN od
        /\ (od[i].obj = "Variable") = (s = 0)
        /\ od[i].obj # "Array" /\ k <= Len(od[i].vals) /\ od[i].vals[k].t = "U32"
     THEN [od EXCEPT ![i].vals[k].d = Incremented(@)]
     ELSE od

\* Mutant: the newest entry is appended at the end.
MutHistoryTail(od, v) ==
  IF read_object(od, IDX_ERR_HISTORY) # Some("Array") THEN od
  ELSE LET all == Append(od[IDX_ERR_HISTORY].vals, v)
       IN [od EXCEPT ![IDX_ERR_HISTORY].vals =
             IF Len(all) > MaxHistory THEN Tail(all) ELSE all]

\* The newest entry first, the oldest one dropped beyond the limit.
write_error_to_history(od, v) ==
  IF read_object(od, IDX_ERR_HISTORY) # Some("Array") THEN od
  ELSE LET all == <<v>> \o od[IDX_ERR_HISTORY].vals
       IN [od EXCEPT ![IDX_ERR_HISTORY].vals =
             SubSeq(all, 1, IF Len(all) > MaxHistory THEN Len(all) - 1 ELSE Len(all))]

\* predefined.rs: what a node has even if the application does not say so.
ProtocolObjects ==
  LET Var(v, access) == ObjectEntry("Variable", <<v>>, access, Some(v))
      Rec(obj, vals, access) == ObjectEntry(obj, vals, access, None)
      Zeros == OctetString([k \in 1..32 |-> 0])
  IN [i \in {\h0420, \h1010, \h1011, \h1300, \h1302, \h1400, \h1600, \h1800, \h1A00,
            \h1C80, \h1C81, \h1F8C} |->
        CASE i = \h0420             -> Rec("Record", <<U8(2), U8(0), U8(0)>>, "Constant")
          [] i \in {\h1010, \h1011} -> Rec("Record", <<U32(1), U32(1), U32(1)>>, "None")
          [] i = \h1300             -> Var(U32(15000), "ReadWriteStore")
          [] i = \h1302             -> Var(U32(2), "ReadWriteStore")
          [] i = \h1400             -> Rec("Record", <<U8(0), U8(0)>>, "None")
          [] i \in {\h1600, \h1A00} -> Rec("Array", <<>>, "None")
          [] i = \h1800             -> Rec("Record", <<U8(1), U8(0)>>, "None")
          [] i \in {\h1C80, \h1C81} -> Var(Zeros, "ReadWrite")
          [] i = \h1F8C             -> Var(U8(0), "ReadOnly")]

populate_protocol_objects(od) ==
  [i \in DOMAIN od \cup DOMAIN ProtocolObjects |->
     IF i \in DOMAIN od THEN od[i] ELSE ProtocolObjects[i]]

\* The stored values the dictionary can take, by write_internal without the
\* check of the access right; the others are orphans and are skipped.
overlay(base, params) ==
  [i \in DOMAIN base |->
     [base[i] EXCEPT !.vals = [k \in DOMAIN @ |->
        LET a == <<i, IF base[i].obj = "Variable" THEN 0 ELSE k>>
        IN IF a \in DOMAIN params
           THEN write_internal(base, i, a[2], params[a], FALSE).od[i].vals[k]
           ELSE @[k]]]]

\* Mutant: the flag is cleared before the wipe.
MutFlagFirst(od, nv, fault) ==
  LET base    == populate_protocol_objects(od)
      cleared == [nv EXCEPT !.restore = FALSE]
  IN IF ~(nv.present /\ nv.restore)
     THEN [err |-> "Ok", od |-> overlay(base, nv.params), nv |-> nv]
     ELSE IF fault = "clear" THEN [err |-> "StorageError", od |-> base, nv |-> cleared]
     ELSE [err |-> "Ok", od |-> base, nv |-> [cleared EXCEPT !.params = NoParams]]

\* Mutant: the flag is cleared and the wipe forgotten.
MutNoWipe(od, nv, fault) ==
  LET base == populate_protocol_objects(od)
  IN IF nv.present /\ nv.restore
     THEN [err |-> "Ok", od |-> base, nv |-> [nv EXCEPT !.restore = FALSE]]
     ELSE [err |-> "Ok", od |-> overlay(base, nv.params), nv |-> nv]

\* storage.rs: the layers of the dictionary at a boot.  fault is the call of
\* the storage backend that fails, if one does.
init(od, nv, fault) ==
  LET base == populate_protocol_objects(od)
      res(e, o, n) == [err |-> e, od |-> o, nv |-> n]
  IN CASE ~nv.present -> res("Ok", base, nv)
       [] nv.present /\ nv.restore ->
            IF fault = "clear" THEN res("StorageError", base, nv)
            ELSE IF fault = "flag"
            THEN res("StorageError", base, [nv EXCEPT !.params = NoParams])
            ELSE res("Ok", base, [nv EXCEPT !.params = NoParams, !.restore = FALSE])
       [] OTHER -> IF fault = "load" THEN res("StorageError", base, nv)
                   ELSE res("Ok", overlay(base, nv.params), nv)

validate_mandatory_objects(od, is_mn) ==
  {\h1000, \h1018, \h1F82} \cup (IF is_mn THEN {\h1006, \h1F81, \h1F89}
                                 ELSE {\h1F93, \h1F99}) \subseteq DOMAIN od
=============================================================================
