----------------------- MODULE ObjectDictionaryProofs -----------------------
(* What the operations of the Object Dictionary keep of its shape, of its    *)
(* read-only Error History and of the storage behind it.                     *)
EXTENDS ObjectDictionary, TLAPS

LEMMA ByteOf ==
  ASSUME NEW n \in Nat, NEW m \in Nat \ {0} PROVE (n \div m) % 256 \in UNSIGNED8
<1>1. n \div m \in Int
  OBVIOUS
<1>2. \A x \in Int : x \in UNSIGNED8 <=> 0 <= x /\ x <= 255
  BY DEF UNSIGNED8
<1> QED BY <1>1, <1>2

LEMMA ByteRange == \A n : n \in UNSIGNED8 <=> n \in Int /\ 0 <= n /\ n <= 255
BY DEF UNSIGNED8

LEMMA WordRange == ASSUME NEW n \in UNSIGNED16 PROVE n \in Nat /\ n <= 65535
BY SMT DEF UNSIGNED16

LEMMA NumNat == ASSUME NEW d \in Seq(UNSIGNED8) PROVE Num(d) \in Nat
<1> DEFINE at(k) == IF k <= Len(d) THEN d[k] * Weight[k] ELSE 0
<1>1. ASSUME NEW k \in 1..4 PROVE at(k) \in Nat
  <2>1. Weight[k] \in Nat
    BY DEF Weight
  <2>2. k <= Len(d) => d[k] \in Nat
    BY ByteRange
  <2> QED BY <2>1, <2>2
<1>2. Num(d) = at(1) + at(2) + at(3) + at(4)
  BY DEF Num
<1> HIDE DEF at
<1> QED BY <1>1, <1>2

LEMMA LeBytes ==
  ASSUME NEW n \in Nat, NEW w \in Nat
  PROVE  Le(n, w) \in Seq(UNSIGNED8) /\ Len(Le(n, w)) = w
<1>1. \A k \in 1..4 : Weight[k] \in Nat \ {0}
  BY DEF Weight
<1>0. 0 \in UNSIGNED8
  BY DEF UNSIGNED8
<1>2. ASSUME NEW k \in 1..w PROVE Le(n, w)[k] \in UNSIGNED8
  <2>1. CASE k > 4
    BY <1>0, <2>1 DEF Le
  <2>2. CASE ~(k > 4)
    <3>1. k \in 1..4 /\ Weight[k] \in Nat \ {0}
      BY <2>2, <1>1
    <3>2. (n \div Weight[k]) % 256 \in UNSIGNED8
      BY <3>1, ByteOf
    <3> QED BY <2>2, <3>2 DEF Le
  <2> QED BY <2>1, <2>2
<1>3. Le(n, w) \in [1..w -> UNSIGNED8]
  BY <1>2 DEF Le
<1> QED BY <1>3

LEMMA Unsigned ==
  ASSUME NEW n \in Nat PROVE U8(n) \in ObjectValue /\ U32(n) \in ObjectValue
<1>1. Le(n, 1) \in Seq(UNSIGNED8) /\ Len(Le(n, 1)) = 1 /\ Le(n, 4) \in Seq(UNSIGNED8) /\ Len(Le(n, 4)) = 4
  BY LeBytes
<1> QED BY <1>1 DEF U8, U32, ObjectValue, ObjectType, Width

LEMMA Octets ==
  ASSUME NEW d \in Seq(UNSIGNED8) PROVE OctetString(d) \in ObjectValue
BY DEF OctetString, ObjectValue, ObjectType, Width

LEMMA IsDictionaryIntro ==
  ASSUME NEW D \in SUBSET UNSIGNED16, NEW o \in [D -> ObjectEntries]
  PROVE  IsDictionary(o)
BY DEF IsDictionary

LEMMA IsDictionaryElim ==
  ASSUME NEW o, IsDictionary(o)
  PROVE  DOMAIN o \in SUBSET UNSIGNED16 /\ o \in [DOMAIN o -> ObjectEntries]
BY DEF IsDictionary

LEMMA SetVals ==
  ASSUME NEW e \in ObjectEntries, NEW vs \in Seq(ObjectValue), Len(vs) <= 255,
         e.obj = "Variable" => Len(vs) = 1
  PROVE  [e EXCEPT !.vals = vs] \in ObjectEntries
BY DEF ObjectEntries

LEMMA SetEntry ==
  ASSUME NEW o, IsDictionary(o), NEW i \in DOMAIN o, NEW e \in ObjectEntries
  PROVE  IsDictionary([o EXCEPT ![i] = e])
<1>1. DOMAIN o \in SUBSET UNSIGNED16 /\ o \in [DOMAIN o -> ObjectEntries]
  BY IsDictionaryElim
<1>2. [o EXCEPT ![i] = e] \in [DOMAIN o -> ObjectEntries]
  BY <1>1
<1> QED BY <1>1, <1>2, IsDictionaryIntro

LEMMA SetValue ==
  ASSUME NEW o, IsDictionary(o), NEW i \in DOMAIN o, NEW k \in DOMAIN o[i].vals,
         NEW v \in ObjectValue
  PROVE  IsDictionary([o EXCEPT ![i].vals[k] = v])
<1> DEFINE vs == [o[i].vals EXCEPT ![k] = v]
<1>1. o[i] \in ObjectEntries
  BY DEF IsDictionary
<1>2. vs \in Seq(ObjectValue) /\ Len(vs) = Len(o[i].vals)
  BY <1>1 DEF ObjectEntries
<1>3. [o[i] EXCEPT !.vals = vs] \in ObjectEntries
  BY <1>1, <1>2, SetVals DEF ObjectEntries
<1> QED BY <1>3, SetEntry

LEMMA ProtocolEntries ==
  /\ DOMAIN ProtocolObjects \subseteq UNSIGNED16
  /\ \A i \in DOMAIN ProtocolObjects : ProtocolObjects[i] \in ObjectEntries
<1> DEFINE Zeros == OctetString([k \in 1..32 |-> 0])
<1>1. Zeros \in ObjectValue
  <2>1. [k \in 1..32 |-> 0] \in Seq(UNSIGNED8)
    BY DEF UNSIGNED8
  <2> QED BY <2>1, Octets
<1>2. \A v \in ObjectValue, a \in AccessType :
        ObjectEntry("Variable", <<v>>, a, Some(v)) \in ObjectEntries
  BY DEF ObjectEntry, ObjectEntries, Some
<1>3. \A b \in {"Array", "Record"}, a \in AccessType, vs \in Seq(ObjectValue) :
        Len(vs) <= 255 => ObjectEntry(b, vs, a, None) \in ObjectEntries
  BY DEF ObjectEntry, ObjectEntries, None
<1>4. {"None", "Constant", "ReadWrite", "ReadOnly", "ReadWriteStore"} \subseteq AccessType
  BY DEF AccessType
<1>5. \A u, v, w \in ObjectValue : /\ <<u, v, w>> \in Seq(ObjectValue) /\ Len(<<u, v, w>>) = 3
                                   /\ <<u, v>> \in Seq(ObjectValue) /\ Len(<<u, v>>) = 2
  OBVIOUS
<1>6. U8(0) \in ObjectValue /\ U8(1) \in ObjectValue /\ U8(2) \in ObjectValue
      /\ U32(1) \in ObjectValue /\ U32(2) \in ObjectValue /\ U32(15000) \in ObjectValue
  BY Unsigned
<1>7. <<>> \in Seq(ObjectValue) /\ Len(<<>>) = 0
  OBVIOUS
<1>8. DOMAIN ProtocolObjects \subseteq UNSIGNED16
  BY DEF ProtocolObjects, UNSIGNED16
<1> HIDE DEF Zeros
<1>9. ASSUME NEW i \in DOMAIN ProtocolObjects PROVE ProtocolObjects[i] \in ObjectEntries
  <2>1. CASE i = \h0420
    <3>1. ProtocolObjects[i] = ObjectEntry("Record", <<U8(2), U8(0), U8(0)>>, "Constant", None)
      BY <2>1 DEF ProtocolObjects
    <3>2. <<U8(2), U8(0), U8(0)>> \in Seq(ObjectValue) /\ Len(<<U8(2), U8(0), U8(0)>>) <= 255
      BY <1>5, <1>6, <1>7
    <3> QED BY <3>1, <3>2, <1>3, <1>4
  <2>2. CASE i \in {\h1010, \h1011}
    <3>1. ProtocolObjects[i] = ObjectEntry("Record", <<U32(1), U32(1), U32(1)>>, "None", None)
      <4>1. CASE i = \h1010
        BY <4>1 DEF ProtocolObjects
      <4>2. CASE i = \h1011
        BY <4>2 DEF ProtocolObjects
      <4> QED BY <2>2, <4>1, <4>2
    <3>2. <<U32(1), U32(1), U32(1)>> \in Seq(ObjectValue) /\ Len(<<U32(1), U32(1), U32(1)>>) <= 255
      BY <1>5, <1>6, <1>7
    <3> QED BY <3>1, <3>2, <1>3, <1>4
  <2>3. CASE i = \h1300
    BY <1>2, <1>4, <1>6, <2>3 DEF ProtocolObjects
  <2>4. CASE i = \h1302
    BY <1>2, <1>4, <1>6, <2>4 DEF ProtocolObjects
  <2>5. CASE i = \h1400
    <3>1. ProtocolObjects[i] = ObjectEntry("Record", <<U8(0), U8(0)>>, "None", None)
      BY <2>5 DEF ProtocolObjects
    <3>2. <<U8(0), U8(0)>> \in Seq(ObjectValue) /\ Len(<<U8(0), U8(0)>>) <= 255
      BY <1>5, <1>6, <1>7
    <3> QED BY <3>1, <3>2, <1>3, <1>4
  <2>6. CASE i \in {\h1600, \h1A00}
    <3>1. ProtocolObjects[i] = ObjectEntry("Array", <<>>, "None", None)
      <4>1. CASE i = \h1600
        BY <4>1 DEF ProtocolObjects
      <4>2. CASE i = \h1A00
        BY <4>2 DEF ProtocolObjects
      <4> QED BY <2>6, <4>1, <4>2
    <3>2. <<>> \in Seq(ObjectValue) /\ Len(<<>>) <= 255
      BY <1>5, <1>6, <1>7
    <3> QED BY <3>1, <3>2, <1>3, <1>4
  <2>7. CASE i = \h1800
    <3>1. ProtocolObjects[i] = ObjectEntry("Record", <<U8(1), U8(0)>>, "None", None)
      BY <2>7 DEF ProtocolObjects
    <3>2. <<U8(1), U8(0)>> \in Seq(ObjectValue) /\ Len(<<U8(1), U8(0)>>) <= 255
      BY <1>5, <1>6, <1>7
    <3> QED BY <3>1, <3>2, <1>3, <1>4
  <2>8. CASE i \in {\h1C80, \h1C81}
    <3>1. ProtocolObjects[i] = ObjectEntry("Variable", <<Zeros>>, "ReadWrite", Some(Zeros))
      <4>1. CASE i = \h1C80
        BY <4>1 DEF ProtocolObjects, Zeros
      <4>2. CASE i = \h1C81
        BY <4>2 DEF ProtocolObjects, Zeros
      <4> QED BY <2>8, <4>1, <4>2
    <3> QED BY <3>1, <1>1, <1>2, <1>4
  <2>9. CASE i = \h1F8C
    BY <1>2, <1>4, <1>6, <2>9 DEF ProtocolObjects
  <2>10. i \in {\h0420, \h1010, \h1011, \h1300, \h1302, \h1400, \h1600, \h1800, \h1A00,
                 \h1C80, \h1C81, \h1F8C}
    BY DEF ProtocolObjects
  <2> QED BY <2>1, <2>2, <2>3, <2>4, <2>5, <2>6, <2>7, <2>8, <2>9, <2>10
<1> QED BY <1>8, <1>9

LEMMA Populated ==
  ASSUME NEW o, IsDictionary(o)
  PROVE  IsDictionary(populate_protocol_objects(o))
<1> DEFINE p == populate_protocol_objects(o)
           D == DOMAIN o \cup DOMAIN ProtocolObjects
<1>1. D \in SUBSET UNSIGNED16
  BY ProtocolEntries DEF IsDictionary
<1>2. p \in [D -> ObjectEntries]
  BY ProtocolEntries DEF IsDictionary, populate_protocol_objects
<1> HIDE DEF D, p
<1> QED BY <1>1, <1>2, IsDictionaryIntro DEF p

LEMMA ReadValue ==
  ASSUME NEW o, IsDictionary(o), NEW i, NEW s \in UNSIGNED8, read(o, i, s) # None
  PROVE  i \in DOMAIN o /\ read(o, i, s)[1] \in ObjectValue
<1>1. CASE i \notin DOMAIN o
  BY <1>1 DEF read
<1>2. CASE i \in DOMAIN o
  <2>1. /\ o[i] \in ObjectEntries
        /\ o[i].vals \in Seq(ObjectValue)
        /\ o[i].obj = "Variable" => Len(o[i].vals) = 1
    BY <1>2 DEF IsDictionary, ObjectEntries
  <2>2. s \in Nat
    BY DEF UNSIGNED8
  <2>3. CASE o[i].obj = "Variable"
    BY <1>2, <2>1, <2>3 DEF read, Some, None
  <2>4. CASE o[i].obj # "Variable"
    <3>1. CASE s = 0
      <4> DEFINE n == IF Len(o[i].vals) > 254 THEN 254 ELSE Len(o[i].vals)
      <4>1. n \in Nat
        BY <2>1
      <4>2. read(o, i, s) = Some(U8(n))
        BY <1>2, <2>4, <3>1 DEF read
      <4> HIDE DEF n
      <4> QED BY <1>2, <4>1, <4>2, Unsigned DEF Some
    <3>2. CASE s # 0
      BY <1>2, <2>1, <2>2, <2>4, <3>2 DEF read, Some, None
    <3> QED BY <3>1, <3>2
  <2> QED BY <2>3, <2>4
<1> QED BY <1>1, <1>2

LEMMA ReadBytes ==
  ASSUME NEW o, IsDictionary(o), NEW i, NEW s \in UNSIGNED8, read(o, i, s) # None
  PROVE  serialize(read(o, i, s)[1]) \in Seq(UNSIGNED8)
BY ReadValue DEF serialize, ObjectValue

LEMMA ReadNumber ==
  ASSUME NEW o, IsDictionary(o), NEW t, NEW i, NEW s \in UNSIGNED8, NEW n \in Nat
  PROVE  read_or(t, o, i, s, n) \in Nat
<1> DEFINE r == read(o, i, s)
<1>1. r # None => r[1].d \in Seq(UNSIGNED8)
  BY ReadBytes DEF serialize
<1>2. r # None => Num(r[1].d) \in Nat
  BY <1>1, NumNat
<1> HIDE DEF r
<1>3. read_or(t, o, i, s, n) = IF r # None /\ r[1].t = t THEN Num(r[1].d) ELSE n
  BY SMT DEF read_or, read_as, r, Some, None
<1> QED BY <1>2, <1>3

LEMMA DeserializedValue ==
  ASSUME NEW data \in Seq(UNSIGNED8), NEW template \in ObjectValue
  PROVE  deserialize(data, template).val \in ObjectValue
<1> DEFINE t == template.t
<1>1. t \in ObjectType
  BY DEF ObjectValue
<1>2. \A d \in Seq(UNSIGNED8) : t \notin DOMAIN Width => [t |-> t, d |-> d] \in ObjectValue
  BY <1>1 DEF ObjectValue
<1>0. "VisibleString" \notin DOMAIN Width /\ "UnicodeString" \notin DOMAIN Width
  BY DEF Width
<1>3. CASE t \in DOMAIN Width /\ Len(data) >= Width[t]
  <2>1. Width[t] \in Nat
    BY <1>3 DEF Width
  <2>2. SubSeq(data, 1, Width[t]) \in Seq(UNSIGNED8) /\ Len(SubSeq(data, 1, Width[t])) = Width[t]
    BY <1>3, <2>1
  <2>3. [t |-> t, d |-> SubSeq(data, 1, Width[t])] \in ObjectValue
    BY <1>1, <2>2 DEF ObjectValue
  <2>4. ~(Len(data) < Width[t])
    BY <1>3, <2>1
  <2> QED BY <1>0, <1>3, <2>3, <2>4 DEF deserialize
<1>4. CASE t \in DOMAIN Width /\ ~(Len(data) >= Width[t])
  <2>1. Width[t] \in Nat
    BY <1>4 DEF Width
  <2>2. Len(data) < Width[t]
    BY <1>4, <2>1
  <2> QED BY <1>0, <1>4, <2>2 DEF deserialize
<1>5. CASE t \notin DOMAIN Width
  BY <1>2, <1>5 DEF deserialize
<1> QED BY <1>3, <1>4, <1>5

Slot(o, i, s) == IF o[i].obj = "Variable" THEN 1 ELSE s

\* write_internal changes at most one value of one object, and that only by a
\* value of the type that is there.
StoresOne(o, p, i, s, v, check) ==
  /\ i \in DOMAIN o
  /\ Slot(o, i, s) \in DOMAIN o[i].vals
  /\ check => o[i].access \notin {"ReadOnly", "Constant"}
  /\ p = [o EXCEPT ![i].vals[Slot(o, i, s)] = v]

LEMMA WriteInternal ==
  ASSUME NEW o, IsDictionary(o), NEW i, NEW s \in UNSIGNED8, NEW v \in ObjectValue,
         NEW check \in BOOLEAN
  PROVE  LET p == write_internal(o, i, s, v, check).od
         IN p = o \/ StoresOne(o, p, i, s, v, check)
<1>1. CASE i \notin DOMAIN o
  BY <1>1 DEF write_internal
<1>2. CASE i \in DOMAIN o
  <2>1. /\ o[i].vals \in Seq(ObjectValue)
        /\ o[i].obj = "Variable" => Len(o[i].vals) = 1
    BY <1>2 DEF IsDictionary, ObjectEntries
  <2>2. s \in Nat
    BY DEF UNSIGNED8
  <2> QED BY <1>2, <2>1, <2>2 DEF write_internal, StoresOne, Slot
<1> QED BY <1>1, <1>2

\* What every operation on a running dictionary keeps: its shape, its objects
\* and a read-only Error History.
ReadOnlyHistory(o) == IDX_ERR_HISTORY \in DOMAIN o /\ o[IDX_ERR_HISTORY].access \in {"ReadOnly", "Constant"}
Keeps(o, p) == /\ IsDictionary(p)
               /\ DOMAIN p = DOMAIN o
               /\ ReadOnlyHistory(o) => p[IDX_ERR_HISTORY] = o[IDX_ERR_HISTORY]

LEMMA KeepsTransitive ==
  ASSUME NEW o, NEW p, NEW q, Keeps(o, p), Keeps(p, q) PROVE Keeps(o, q)
BY DEF Keeps, ReadOnlyHistory

LEMMA WriteInternalKeeps ==
  ASSUME NEW o, IsDictionary(o), NEW i, NEW s \in UNSIGNED8, NEW v \in ObjectValue,
         NEW check \in BOOLEAN, check \/ i # IDX_ERR_HISTORY
  PROVE  Keeps(o, write_internal(o, i, s, v, check).od)
<1> DEFINE p == write_internal(o, i, s, v, check).od
<1>1. p = o \/ StoresOne(o, p, i, s, v, check)
  BY WriteInternal, Zenon
<1> SUFFICES Keeps(o, p)
  OBVIOUS
<1> HIDE DEF p
<1>2. CASE p = o
  BY <1>2 DEF Keeps
<1>3. CASE StoresOne(o, p, i, s, v, check)
  <2>1. IsDictionary(p)
    BY <1>3, SetValue DEF StoresOne
  <2>2. DOMAIN p = DOMAIN o
    BY <1>3 DEF StoresOne
  <2>3. ASSUME ReadOnlyHistory(o) PROVE p[IDX_ERR_HISTORY] = o[IDX_ERR_HISTORY]
    <3>1. i # IDX_ERR_HISTORY
      BY <1>3, <2>3 DEF ReadOnlyHistory, StoresOne
    <3> QED BY <1>3, <2>3, <3>1 DEF ReadOnlyHistory, StoresOne
  <2> QED BY <2>1, <2>2, <2>3 DEF Keeps
<1> QED BY <1>1, <1>2, <1>3

\* A write changes the dictionary through write_internal, and the storage by
\* one of the two commands only, which then reports success.
Commands(o, n, m, i, s, ok) ==
  \/ m = n /\ ~(i \in {IDX_NMT_STORE_PARAM_CMD_REC, IDX_NMT_RESTORE_PARAM_CMD_REC} /\ ok)
  \/ i = IDX_NMT_STORE_PARAM_CMD_REC /\ ok /\ n.present /\ m = [n EXCEPT !.params = StorableParams(o, s)]
  \/ i = IDX_NMT_RESTORE_PARAM_CMD_REC /\ ok /\ n.present /\ m = [n EXCEPT !.restore = TRUE]

LEMMA WriteEffect ==
  ASSUME NEW o, IsDictionary(o), NEW n, NEW i, NEW s \in UNSIGNED8, NEW v \in ObjectValue,
         NEW mediaOk \in BOOLEAN
  PROVE  LET w == write(o, n, i, s, v, mediaOk)
         IN /\ Keeps(o, w.od)
            /\ Commands(o, n, w.nv, i, s, w.err = "Ok")
<1>0. Keeps(o, o)
  BY DEF Keeps
<1> DEFINE w == write(o, n, i, s, v, mediaOk)
<1>1. CASE i = IDX_NMT_STORE_PARAM_CMD_REC
  <2>1. \/ w = [err |-> "StorageError", od |-> o, nv |-> n]
        \/ n.present /\ w = [err |-> "Ok", od |-> o, nv |-> [n EXCEPT !.params = StorableParams(o, s)]]
    <3>1. IDX_NMT_STORE_PARAM_CMD_REC # IDX_NMT_RESTORE_PARAM_CMD_REC
      BY DEF IDX_NMT_STORE_PARAM_CMD_REC, IDX_NMT_RESTORE_PARAM_CMD_REC
    <3> QED BY <1>1, <3>1 DEF write, store_parameters
  <2> HIDE DEF w
  <2>2. Keeps(o, w.od) /\ Commands(o, n, w.nv, i, s, w.err = "Ok")
    BY <1>0, <1>1, <2>1 DEF Commands
  <2> QED BY <2>2 DEF w
<1>2. CASE i = IDX_NMT_RESTORE_PARAM_CMD_REC
  <2>1. \/ w = [err |-> "StorageError", od |-> o, nv |-> n]
        \/ n.present /\ w = [err |-> "Ok", od |-> o, nv |-> [n EXCEPT !.restore = TRUE]]
    BY <1>2 DEF write, restore_defaults
  <2> SUFFICES Keeps(o, w.od) /\ Commands(o, n, w.nv, i, s, w.err = "Ok")
    OBVIOUS
  <2> HIDE DEF w
  <2>2. CASE w = [err |-> "StorageError", od |-> o, nv |-> n]
    BY <1>0, <1>2, <2>2 DEF Commands
  <2>3. CASE n.present /\ w = [err |-> "Ok", od |-> o, nv |-> [n EXCEPT !.restore = TRUE]]
    <3>1. w.err = "Ok" /\ w.od = o /\ w.nv = [n EXCEPT !.restore = TRUE]
      BY <2>3
    <3>2. i = IDX_NMT_RESTORE_PARAM_CMD_REC /\ w.err = "Ok" /\ n.present /\ w.nv = [n EXCEPT !.restore = TRUE]
      BY <1>2, <2>3, <3>1
    <3>3. Commands(o, n, w.nv, i, s, w.err = "Ok")
      BY <3>2, Zenon DEF Commands
    <3>4. Keeps(o, w.od)
      BY <1>0, <3>1
    <3> QED BY <3>3, <3>4
  <2> QED BY <2>1, <2>2, <2>3
<1>3. CASE i \notin {IDX_NMT_STORE_PARAM_CMD_REC, IDX_NMT_RESTORE_PARAM_CMD_REC}
  <2> DEFINE u == write_internal(o, i, s, v, TRUE)
  <2>1. w.nv = n /\ (w.od = o \/ w.od = u.od)
    <3>1. i # IDX_NMT_STORE_PARAM_CMD_REC /\ i # IDX_NMT_RESTORE_PARAM_CMD_REC
      BY <1>3
    <3> HIDE DEF u
    <3> QED BY <3>1 DEF write, u
  <2>2. Keeps(o, u.od)
    <3>1. ASSUME NEW c \in BOOLEAN, c PROVE Keeps(o, write_internal(o, i, s, v, c).od)
      <4>1. c \/ i # IDX_ERR_HISTORY
        BY <3>1
      <4> QED BY <4>1, WriteInternalKeeps, Zenon
    <3> QED BY <3>1, Zenon
  <2> HIDE DEF w, u
  <2>3. Keeps(o, w.od) /\ Commands(o, n, w.nv, i, s, w.err = "Ok")
    BY <1>0, <1>3, <2>1, <2>2 DEF Commands
  <2> QED BY <2>3 DEF w
<1> QED BY <1>1, <1>2, <1>3

LEMMA CodesNonzero ==
  /\ AttemptToWriteReadOnly # 0 /\ LengthMismatch # 0 /\ LengthTooLow # 0
  /\ ValueRangeExceeded # 0 /\ CannotStore # 0 /\ NoSuchObject # 0 /\ NoSuchSubIndex # 0
BY SMT DEF AttemptToWriteReadOnly, LengthMismatch, LengthTooLow, ValueRangeExceeded,
           CannotStore, NoSuchObject, NoSuchSubIndex

LEMMA WriteBytesEffect ==
  ASSUME NEW o, IsDictionary(o), NEW n, NEW i, NEW s \in UNSIGNED8,
         NEW data \in Seq(UNSIGNED8), NEW mediaOk \in BOOLEAN
  PROVE  LET w == write_bytes(o, n, i, s, data, mediaOk)
         IN /\ Keeps(o, w.od)
            /\ Commands(o, n, w.nv, i, s, w.err = 0)
<1>0. Keeps(o, o) /\ \A e : e # 0 => Commands(o, n, n, i, s, e = 0)
  BY DEF Keeps, Commands
<1>1. CASE read(o, i, s) = None
  BY <1>0, <1>1, CodesNonzero, SMT DEF write_bytes, NotFound
<1>2. CASE read(o, i, s) # None
  <2> DEFINE v == deserialize(data, read(o, i, s)[1])
             w == write(o, n, i, s, v.val, mediaOk)
  <2>1. v.val \in ObjectValue
    BY <1>2, ReadValue, DeserializedValue
  <2>2. /\ Keeps(o, w.od)
        /\ Commands(o, n, w.nv, i, s, w.err = "Ok")
    BY <2>1, WriteEffect
  <2> HIDE DEF v, w
  <2>3. CASE v.err # "Ok"
    <3>1. LET r == write_bytes(o, n, i, s, data, mediaOk)
          IN r.od = o /\ r.nv = n /\ r.err # 0
      BY <1>2, <2>3, CodesNonzero, SMT DEF write_bytes, v
    <3> QED BY <1>0, <3>1, Zenon
  <2>4. CASE v.err = "Ok"
    <3>1. (AbortCode(w.err) = 0) = (w.err = "Ok")
      BY CodesNonzero, SMT DEF AbortCode
    <3>2. LET r == write_bytes(o, n, i, s, data, mediaOk)
          IN r.od = w.od /\ r.nv = w.nv /\ r.err = AbortCode(w.err)
      BY <1>2, <2>4, SMT DEF write_bytes, v, w
    <3> QED BY <2>2, <3>1, <3>2
  <2> QED BY <2>3, <2>4
<1> QED BY <1>1, <1>2

\* Replacing the values of some entries, each by as many values.
LEMMA Revalued ==
  ASSUME NEW o, IsDictionary(o), NEW p, DOMAIN p = DOMAIN o, p = [i \in DOMAIN o |-> p[i]],
         \A i \in DOMAIN o :
           p[i] = o[i] \/ \E vs \in [DOMAIN o[i].vals -> ObjectValue] :
                            p[i] = [o[i] EXCEPT !.vals = vs]
  PROVE  IsDictionary(p)
<1>1. ASSUME NEW i \in DOMAIN o PROVE p[i] \in ObjectEntries
  <2>1. /\ o[i] \in ObjectEntries /\ o[i].vals \in Seq(ObjectValue)
        /\ Len(o[i].vals) <= 255 /\ (o[i].obj = "Variable" => Len(o[i].vals) = 1)
    BY DEF IsDictionary, ObjectEntries
  <2>2. CASE p[i] # o[i]
    <3>1. PICK vs \in [DOMAIN o[i].vals -> ObjectValue] : p[i] = [o[i] EXCEPT !.vals = vs]
      BY <2>2
    <3>2. vs \in Seq(ObjectValue) /\ Len(vs) = Len(o[i].vals)
      BY <2>1
    <3> QED BY <2>1, <3>1, <3>2, SetVals
  <2> QED BY <2>1, <2>2
<1> QED BY <1>1 DEF IsDictionary

LEMMA HistoryStep ==
  ASSUME NEW o, IsDictionary(o), NEW v \in ObjectValue
  PROVE  LET p == write_error_to_history(o, v)
             old == o[IDX_ERR_HISTORY].vals
             new == p[IDX_ERR_HISTORY].vals
         IN /\ IsDictionary(p) /\ DOMAIN p = DOMAIN o
            /\ read_object(o, IDX_ERR_HISTORY) = Some("Array") =>
                 /\ new = SubSeq(<<v>> \o old, 1, Len(new))
                 /\ Len(new) >= Len(old) /\ Len(new) > 0
<1> DEFINE H == IDX_ERR_HISTORY
           p == write_error_to_history(o, v)
           all == <<v>> \o o[H].vals
           m == IF Len(all) > MaxHistory THEN Len(all) - 1 ELSE Len(all)
<1>1. CASE read_object(o, H) # Some("Array")
  BY <1>1 DEF write_error_to_history
<1>2. CASE read_object(o, H) = Some("Array")
  <2>1. H \in DOMAIN o /\ o[H].obj = "Array"
    BY <1>2 DEF read_object, Some, None
  <2>2. o[H] \in ObjectEntries /\ o[H].vals \in Seq(ObjectValue) /\ Len(o[H].vals) <= 255
    BY <2>1 DEF IsDictionary, ObjectEntries
  <2>3. MaxHistory \in Nat /\ 1 <= MaxHistory /\ MaxHistory <= 254
    BY MaxHistoryAssumption
  <2>4. all \in Seq(ObjectValue) /\ Len(all) = Len(o[H].vals) + 1
    BY <2>2
  <2>5. m \in 1..Len(all) /\ m >= Len(o[H].vals) /\ m <= 255
    BY <2>2, <2>3, <2>4
  <2>6. SubSeq(all, 1, m) \in Seq(ObjectValue) /\ Len(SubSeq(all, 1, m)) = m
    <3> HIDE DEF all, m
    <3> QED BY <2>4, <2>5
  <2>7. p = [o EXCEPT ![H].vals = SubSeq(all, 1, m)]
    BY <1>2 DEF write_error_to_history
  <2>8. [o[H] EXCEPT !.vals = SubSeq(all, 1, m)] \in ObjectEntries
    <3> HIDE DEF all, m
    <3> QED BY <2>1, <2>2, <2>5, <2>6, SetVals
  <2>9. p[H].vals = SubSeq(all, 1, m) /\ DOMAIN p = DOMAIN o
    <3> HIDE DEF all, m, p
    <3>1. o[H].vals = o[H].vals /\ "vals" \in DOMAIN o[H]
      BY <2>2 DEF ObjectEntries
    <3> QED BY <2>1, <2>7, <3>1
  <2>10. IsDictionary(p)
    <3> HIDE DEF all, m, p
    <3> QED BY <2>1, <2>7, <2>8, SetEntry
  <2> HIDE DEF all, m, p
  <2>11. /\ IsDictionary(p) /\ DOMAIN p = DOMAIN o
         /\ p[H].vals = SubSeq(all, 1, Len(p[H].vals))
         /\ Len(p[H].vals) >= Len(o[H].vals) /\ Len(p[H].vals) > 0
    BY <2>5, <2>6, <2>9, <2>10
  <2> QED BY <2>11 DEF p, all
<1> QED BY <1>1, <1>2

LEMMA CounterStep ==
  ASSUME NEW o, IsDictionary(o), NEW i, i # IDX_ERR_HISTORY, NEW s \in UNSIGNED8
  PROVE  LET p == increment_counter(o, i, s)
         IN /\ IsDictionary(p) /\ DOMAIN p = DOMAIN o
            /\ IDX_ERR_HISTORY \in DOMAIN o => p[IDX_ERR_HISTORY] = o[IDX_ERR_HISTORY]
<1> DEFINE k == IF s = 0 THEN 1 ELSE s
           p == increment_counter(o, i, s)
           v == [o[i].vals[k] EXCEPT !.d = Incremented(o[i].vals[k].d)]
<1>1. CASE p = o
  BY <1>1
<1>2. CASE p # o
  <2>0. s \in Nat
    BY DEF UNSIGNED8
  <2>1. i \in DOMAIN o /\ k <= Len(o[i].vals) /\ o[i].vals[k].t = "U32"
        /\ p = [o EXCEPT ![i].vals[k].d = Incremented(@)]
    BY <1>2 DEF increment_counter
  <2>2. o[i].vals \in Seq(ObjectValue) /\ k \in DOMAIN o[i].vals
    BY <2>0, <2>1 DEF IsDictionary, ObjectEntries
  <2>3. v \in ObjectValue
    <3> DEFINE u == o[i].vals[k]
    <3>1. u \in ObjectValue
      BY <2>2
    <3> HIDE DEF u
    <3>2. u.d \in Seq(UNSIGNED8) /\ u \in [t : ObjectType, d : Seq(UNSIGNED8)]
      BY <3>1 DEF ObjectValue
    <3>3. \A j \in DOMAIN u.d : (u.d[j] + 1) % 256 \in UNSIGNED8 /\ u.d[j] \in UNSIGNED8
      <4>1. \A x : x \in UNSIGNED8 <=> x \in Int /\ 0 <= x /\ x <= 255
        BY DEF UNSIGNED8
      <4> QED BY <3>2, <4>1
    <3>4. Incremented(u.d) \in [DOMAIN u.d -> UNSIGNED8]
      BY <3>3 DEF Incremented
    <3>5. Incremented(u.d) \in Seq(UNSIGNED8) /\ Len(Incremented(u.d)) = Len(u.d)
      BY <3>2, <3>4
    <3>6. [u EXCEPT !.d = Incremented(u.d)] \in ObjectValue
      BY <3>1, <3>2, <3>5 DEF ObjectValue
    <3> QED BY <3>6 DEF u
  <2>4. p = [o EXCEPT ![i].vals[k] = v]
    BY <2>1
  <2> HIDE DEF v, k, p
  <2>5. IsDictionary(p)
    <3>1. i \in DOMAIN o /\ k \in DOMAIN o[i].vals
      BY <2>1, <2>2
    <3> QED BY <2>3, <2>4, <3>1, SetValue
  <2>6. /\ DOMAIN p = DOMAIN o
        /\ IDX_ERR_HISTORY \in DOMAIN o => p[IDX_ERR_HISTORY] = o[IDX_ERR_HISTORY]
    <3>1. DOMAIN p = DOMAIN o
      BY <2>4
    <3>2. ASSUME NEW j \in DOMAIN o, j # i PROVE p[j] = o[j]
      BY <2>1, <2>4, <3>2
    <3> QED BY <3>1, <3>2
  <2> QED BY <2>5, <2>6 DEF p
<1> QED BY <1>1, <1>2
=============================================================================
