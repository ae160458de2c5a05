------------------------ MODULE ParameterStoreProofs ------------------------
(* The parameters of a node, for every firmware, every sequence of writes,   *)
(* commands, resets, boots and power losses and every failing storage call.  *)
EXTENDS ParameterStore, ObjectDictionaryProofs

LEMMA PowerOnKeeps ==
  ASSUME NEW o, IsDictionary(o), NEW n, ParamsOK(n.params), NEW lo, NEW hi,
         NEW mediaOk \in BOOLEAN
  PROVE  Keeps(o, restore_power_on_values(o, n, lo, hi, mediaOk))
<1> DEFINE p == restore_power_on_values(o, n, lo, hi, mediaOk)
           stored == IF n.present /\ mediaOk THEN n.params ELSE NoParams
<1>1. \A a \in DOMAIN stored : stored[a] \in ObjectValue
  BY DEF ParamsOK, NoParams
<1>2. DOMAIN p = DOMAIN o /\ p = [i \in DOMAIN o |-> p[i]]
  BY DEF restore_power_on_values
<1>3. ASSUME NEW i \in DOMAIN o
      PROVE  p[i] = o[i] \/ \E vs \in [DOMAIN o[i].vals -> ObjectValue] :
                              p[i] = [o[i] EXCEPT !.vals = vs]
  <2> DEFINE e == o[i]
             On(k) == LET a == <<i, IF e.obj = "Variable" THEN 0 ELSE k>>
                      IN IF a \in DOMAIN stored THEN stored[a]
                         ELSE IF e.default # None
                                 /\ (e.obj = "Variable" \/ e.default[1].t = e.vals[k].t)
                         THEN e.default[1] ELSE e.vals[k]
             vs == [k \in DOMAIN e.vals |-> On(k)]
  <2>1. /\ e.vals \in Seq(ObjectValue)
        /\ e.default # None => e.default[1] \in ObjectValue
    <3>1. e \in ObjectEntries
      BY DEF IsDictionary
    <3>2. e.vals \in Seq(ObjectValue) /\ e.default \in Seq(ObjectValue)
      BY <3>1 DEF ObjectEntries
    <3> HIDE DEF e
    <3>3. e.default # None => e.default[1] \in ObjectValue
      BY <3>2 DEF None
    <3> QED BY <3>2, <3>3
  <2>2. ASSUME NEW k \in DOMAIN e.vals PROVE On(k) \in ObjectValue
    <3> HIDE DEF stored
    <3> QED BY <1>1, <2>1
  <2>3. p[i] = e \/ p[i] = [e EXCEPT !.vals = vs]
    BY DEF restore_power_on_values
  <2>4. vs \in [DOMAIN e.vals -> ObjectValue]
    BY <2>2
  <2> HIDE DEF vs, p, e
  <2>5. p[i] = e \/ \E us \in [DOMAIN e.vals -> ObjectValue] : p[i] = [e EXCEPT !.vals = us]
    BY <2>3, <2>4
  <2> QED BY <2>5 DEF e
<1>4. ReadOnlyHistory(o) => p[IDX_ERR_HISTORY] = o[IDX_ERR_HISTORY]
  BY DEF restore_power_on_values, ReadOnlyHistory
<1> SUFFICES Keeps(o, p)
  OBVIOUS
<1> HIDE DEF p
<1>5. IsDictionary(p)
  BY <1>2, <1>3, Revalued
<1> QED BY <1>2, <1>4, <1>5 DEF Keeps

LEMMA ResetKeeps ==
  ASSUME NEW o, IsDictionary(o), NEW n, ParamsOK(n.params), NEW event \in ResetEvents, NEW loads
  PROVE  Keeps(o, reset(o, n, event, loads))
<1> DEFINE back(d, lo, hi, area) == restore_power_on_values(d, n, lo, hi, area \in loads)
           app     == back(back(o, \h2000, \h5FFF, "manufacturer"), \h6000, \h9FFF, "device")
           com(d)  == back(d, \h1000, \h1FFF, "communication")
           done(d) == write_internal(d, IDX_NMT_CURR_NMT_STATE_U8, 0, NotActive, FALSE).od
<1>0. Keeps(o, o)
  BY DEF Keeps
<1>1. ASSUME NEW d, Keeps(o, d), NEW lo, NEW hi, NEW area PROVE Keeps(o, back(d, lo, hi, area))
  <2>1. (area \in loads) \in BOOLEAN
    OBVIOUS
  <2>2. IsDictionary(d)
    BY <1>1 DEF Keeps
  <2>3. Keeps(d, back(d, lo, hi, area))
    BY <2>1, <2>2, PowerOnKeeps
  <2> QED BY <1>1, <2>3, KeepsTransitive
<1>2. Keeps(o, app) /\ \A d : Keeps(o, d) => Keeps(o, com(d))
  <2> HIDE DEF back
  <2> QED BY <1>0, <1>1
<1>3. \A d : Keeps(o, d) => Keeps(o, done(d))
  <2>1. /\ 0 \in UNSIGNED8 /\ NotActive \in ObjectValue
        /\ IDX_NMT_CURR_NMT_STATE_U8 # IDX_ERR_HISTORY
    BY Unsigned DEF UNSIGNED8, NotActive, IDX_NMT_CURR_NMT_STATE_U8, IDX_ERR_HISTORY
  <2>2. ASSUME NEW d, Keeps(o, d), NEW c \in BOOLEAN
        PROVE  Keeps(o, write_internal(d, IDX_NMT_CURR_NMT_STATE_U8, 0, NotActive, c).od)
    <3>1. IsDictionary(d)
      BY <2>2 DEF Keeps
    <3>2. Keeps(d, write_internal(d, IDX_NMT_CURR_NMT_STATE_U8, 0, NotActive, c).od)
      BY <2>1, <3>1, WriteInternalKeeps
    <3> QED BY <2>2, <3>2, KeepsTransitive
  <2> QED BY <2>2, Zenon
<1>4. reset(o, n, event, loads) \in {done(com(app)), done(com(o)), done(o)}
  <2> HIDE DEF app, com, done
  <2>1. CASE event = "Reset"
    BY <2>1 DEF reset, app, com, done
  <2>2. CASE event = "SwReset"
    BY <2>2 DEF reset, app, com, done
  <2>3. CASE event = "ResetNode"
    BY <2>3 DEF reset, app, com, done
  <2>4. CASE event = "ResetCommunication"
    BY <2>4 DEF reset, app, com, done
  <2>5. CASE event = "ResetConfiguration"
    BY <2>5 DEF reset, app, com, done
  <2> QED BY <2>1, <2>2, <2>3, <2>4, <2>5, Zenon DEF ResetEvents
<1> HIDE DEF app, com, done
<1> QED BY <1>0, <1>2, <1>3, <1>4

LEMMA StorableOK ==
  ASSUME NEW o, IsDictionary(o), NEW list
  PROVE  ParamsOK(StorableParams(o, list))
<1> DEFINE addrs == UNION {{<<i, s>> : s \in SubsOf(o[i])} :
                           i \in {j \in DOMAIN o : InList(list, j) /\ Storable(o[j])}}
           p == StorableParams(o, list)
<1>1. p = [a \in addrs |-> ValueAt(o, a)]
  BY DEF StorableParams
<1>2. ASSUME NEW a \in addrs
      PROVE  a \in UNSIGNED16 \X UNSIGNED8 /\ ValueAt(o, a) \in ObjectValue
  <2>1. PICK i \in DOMAIN o : \E s \in SubsOf(o[i]) : a = <<i, s>>
    OBVIOUS
  <2>2. PICK s \in SubsOf(o[i]) : a = <<i, s>>
    BY <2>1
  <2>3. /\ i \in UNSIGNED16 /\ o[i].vals \in Seq(ObjectValue) /\ Len(o[i].vals) <= 255
        /\ o[i].obj = "Variable" => Len(o[i].vals) = 1
    BY DEF IsDictionary, ObjectEntries
  <2>4. CASE o[i].obj = "Variable"
    <3>1. s = 0 /\ 0 \in UNSIGNED8
      BY <2>4 DEF SubsOf, UNSIGNED8
    <3> QED BY <2>2, <2>3, <2>4, <3>1 DEF ValueAt
  <2>5. CASE o[i].obj # "Variable"
    <3>1. s \in DOMAIN o[i].vals /\ s # 0
      BY <2>3, <2>5 DEF SubsOf
    <3>2. s \in UNSIGNED8
      <4>1. \A x : x \in UNSIGNED8 <=> x \in Int /\ 0 <= x /\ x <= 255
        BY DEF UNSIGNED8
      <4> QED BY <2>3, <3>1, <4>1
    <3> QED BY <2>2, <2>3, <3>1, <3>2 DEF ValueAt
  <2> QED BY <2>4, <2>5
<1> HIDE DEF addrs, p
<1>3. ParamsOK(p)
  BY <1>1, <1>2 DEF ParamsOK
<1> QED BY <1>3 DEF p

\* At a boot the stored values change no object's kind and number of values;
\* one that has the type of the object's value is taken.
LEMMA OverlayOf ==
  ASSUME NEW o, IsDictionary(o), NEW params, ParamsOK(params)
  PROVE  LET p == overlay(o, params)
         IN /\ IsDictionary(p) /\ DOMAIN p = DOMAIN o
            /\ \A i \in DOMAIN o : SubsOf(p[i]) = SubsOf(o[i])
            /\ \A a \in DOMAIN params :
                 (/\ a[1] \in DOMAIN o /\ a[2] \in SubsOf(o[a[1]])
                  /\ ValueAt(o, a).t = params[a].t) => ValueAt(p, a) = params[a]
<1> DEFINE p == overlay(o, params)
           At(i, k) == <<i, IF o[i].obj = "Variable" THEN 0 ELSE k>>
           New(i, k) == IF At(i, k) \in DOMAIN params
                        THEN write_internal(o, i, At(i, k)[2], params[At(i, k)], FALSE).od[i].vals[k]
                        ELSE o[i].vals[k]
<1>1. /\ DOMAIN p = DOMAIN o /\ p = [i \in DOMAIN o |-> p[i]]
      /\ \A i \in DOMAIN o : p[i] = [o[i] EXCEPT !.vals = [k \in DOMAIN o[i].vals |-> New(i, k)]]
  BY DEF overlay
<1>2. \A i \in DOMAIN o : /\ o[i] \in ObjectEntries /\ o[i].vals \in Seq(ObjectValue)
                          /\ o[i].obj = "Variable" => Len(o[i].vals) = 1
  BY DEF IsDictionary, ObjectEntries
<1>3. ASSUME NEW i \in DOMAIN o, NEW k \in DOMAIN o[i].vals, NEW c \in BOOLEAN,
             At(i, k) \in DOMAIN params
      PROVE  write_internal(o, i, At(i, k)[2], params[At(i, k)], c).od[i].vals[k] \in ObjectValue
  <2> DEFINE q == write_internal(o, i, At(i, k)[2], params[At(i, k)], c).od
             s == At(i, k)[2]
             v == params[At(i, k)]
  <2>1. s \in UNSIGNED8 /\ v \in ObjectValue
    BY <1>3 DEF ParamsOK
  <2>2. q = o \/ StoresOne(o, q, i, s, v, c)
    <3> HIDE DEF s, v
    <3> DEFINE r == write_internal(o, i, s, v, c).od
    <3>1. r = o \/ StoresOne(o, r, i, s, v, c)
      BY <2>1, WriteInternal, Zenon
    <3>2. q = r
      BY DEF s, v
    <3> HIDE DEF q, r
    <3> QED BY <3>1, <3>2
  <2> HIDE DEF q, s, v
  <2>3. q[i].vals[k] \in ObjectValue
    <3>1. CASE q = o
      BY <1>2, <3>1
    <3>2. CASE StoresOne(o, q, i, s, v, c)
      <4> DEFINE z == Slot(o, i, s)
                 vs == [o[i].vals EXCEPT ![z] = v]
      <4>1. z \in DOMAIN o[i].vals /\ q[i] = [o[i] EXCEPT !.vals = vs]
        BY <3>2 DEF StoresOne
      <4> HIDE DEF z, vs
      <4>2. q[i].vals = vs
        BY <1>2, <4>1 DEF ObjectEntries
      <4>3. vs[k] \in ObjectValue
        BY <1>2, <2>1, <4>1 DEF vs
      <4> QED BY <4>2, <4>3
    <3> QED BY <2>2, <3>1, <3>2
  <2> QED BY <2>3 DEF q
<1>4. \A i \in DOMAIN o : \A k \in DOMAIN o[i].vals : New(i, k) \in ObjectValue
  <2> HIDE DEF At, New
  <2> SUFFICES ASSUME NEW i \in DOMAIN o, NEW k \in DOMAIN o[i].vals PROVE New(i, k) \in ObjectValue
    OBVIOUS
  <2>1. CASE At(i, k) \in DOMAIN params
    BY <1>3, <2>1, Zenon DEF New
  <2>2. CASE At(i, k) \notin DOMAIN params
    BY <1>2, <2>2 DEF New
  <2> QED BY <2>1, <2>2
<1> HIDE DEF p
<1>5. IsDictionary(p)
  <2> HIDE DEF New
  <2>1. \A i \in DOMAIN o : \E vs \in [DOMAIN o[i].vals -> ObjectValue] :
            p[i] = [o[i] EXCEPT !.vals = vs]
    BY <1>1, <1>4
  <2>2. DOMAIN p = DOMAIN o /\ p = [i \in DOMAIN o |-> p[i]]
    BY <1>1
  <2>3. \A i \in DOMAIN o :
           p[i] = o[i] \/ \E vs \in [DOMAIN o[i].vals -> ObjectValue] :
                            p[i] = [o[i] EXCEPT !.vals = vs]
    BY <2>1
  <2> QED BY <2>2, <2>3, Revalued
<1>6. ASSUME NEW i \in DOMAIN o PROVE SubsOf(p[i]) = SubsOf(o[i])
  <2> HIDE DEF New
  <2>1. p[i].obj = o[i].obj /\ DOMAIN p[i].vals = DOMAIN o[i].vals
    BY <1>1, <1>2 DEF ObjectEntries
  <2> QED BY <2>1 DEF SubsOf
<1>7. ASSUME NEW a \in DOMAIN params, a[1] \in DOMAIN o, a[2] \in SubsOf(o[a[1]]),
             ValueAt(o, a).t = params[a].t
      PROVE  ValueAt(p, a) = params[a]
  <2> DEFINE i == a[1]
             k == IF a[2] = 0 THEN 1 ELSE a[2]
  <2>1. a = <<i, a[2]>> /\ a[2] \in Nat
    <3>1. a \in UNSIGNED16 \X UNSIGNED8
      BY DEF ParamsOK
    <3> QED BY <3>1 DEF UNSIGNED8
  <2>2. k \in DOMAIN o[i].vals /\ (o[i].obj = "Variable" <=> a[2] = 0)
    BY <1>2, <1>7, <2>1 DEF SubsOf
  <2>3. At(i, k) = a
    BY <2>1, <2>2
  <2>4. o[i].vals[k].t = params[a].t
    BY <1>7 DEF ValueAt
  <2>5. write_internal(o, i, a[2], params[a], FALSE).od = [o EXCEPT ![i].vals[k] = params[a]]
    <3>1. ASSUME NEW c \in BOOLEAN, ~c
          PROVE  write_internal(o, i, a[2], params[a], c).od = [o EXCEPT ![i].vals[k] = params[a]]
      <4>1. o[i].vals \in Seq(ObjectValue) /\ i \in DOMAIN o /\ k = Slot(o, i, a[2])
        BY <1>2, <1>7, <2>2 DEF Slot
      <4>2. ~(k > Len(o[i].vals))
        BY <2>1, <2>2, <4>1
      <4>3. ~(o[i].obj # "Variable" /\ a[2] = 0) /\ ~(o[i].obj = "Variable" /\ a[2] # 0)
        BY <2>2
      <4>4. o[i].vals[Slot(o, i, a[2])].t = params[a].t /\ ~(Slot(o, i, a[2]) > Len(o[i].vals))
        BY <2>4, <4>1, <4>2
      <4> HIDE DEF i, k
      <4>5. write_internal(o, i, a[2], params[a], c).od
              = [o EXCEPT ![i].vals[Slot(o, i, a[2])] = params[a]]
        BY <3>1, <4>1, <4>3, <4>4 DEF write_internal, Slot
      <4> QED BY <4>1, <4>5
    <3> QED BY <3>1, Zenon
  <2>6. [o EXCEPT ![i].vals[k] = params[a]][i].vals[k] = params[a]
    BY <1>2, <1>7, <2>2 DEF ObjectEntries
  <2>7. New(i, k) = params[a]
    BY <2>3, <2>5, <2>6
  <2> HIDE DEF New
  <2>8. p[i].vals[k] = params[a]
    BY <1>1, <1>2, <1>7, <2>2, <2>7 DEF ObjectEntries
  <2> QED BY <2>8 DEF ValueAt
<1>8. /\ IsDictionary(p) /\ DOMAIN p = DOMAIN o
      /\ \A i \in DOMAIN o : SubsOf(p[i]) = SubsOf(o[i])
      /\ \A a \in DOMAIN params :
           (/\ a[1] \in DOMAIN o /\ a[2] \in SubsOf(o[a[1]])
            /\ ValueAt(o, a).t = params[a].t) => ValueAt(p, a) = params[a]
  BY <1>1, <1>5, <1>6, <1>7
<1> QED BY <1>8 DEF p

LEMMA EmptyDictionary ==
  ASSUME NEW o, IsDictionary(o) PROVE (o # Down) <=> (DOMAIN o # {})
<1>1. DOMAIN Down = {}
  BY DEF Down
<1>2. ASSUME DOMAIN o = {} PROVE o = Down
  BY <1>2 DEF IsDictionary, Down
<1> QED BY <1>1, <1>2

LEMMA DownIsDictionary == IsDictionary(Down)
BY DEF IsDictionary, Down

LEMMA NoParamsOK == ParamsOK(NoParams)
BY DEF ParamsOK, NoParams

\* What a boot makes of the firmware and of the storage, by its outcome.
BootResult(o, n, r) ==
  \/ ~n.present /\ r.err = "Ok" /\ r.od = populate_protocol_objects(o) /\ r.nv = n
  \/ /\ n.present /\ n.restore /\ r.err # "Ok"
     /\ r.nv = n \/ r.nv = [n EXCEPT !.params = NoParams]
  \/ /\ n.present /\ n.restore /\ r.err = "Ok" /\ r.od = populate_protocol_objects(o)
     /\ r.nv = [n EXCEPT !.params = NoParams, !.restore = FALSE]
  \/ n.present /\ ~n.restore /\ r.err # "Ok" /\ r.nv = n
  \/ /\ n.present /\ ~n.restore /\ r.err = "Ok" /\ r.nv = n
     /\ r.od = overlay(populate_protocol_objects(o), n.params)

LEMMA InitEffect ==
  ASSUME NEW o, IsDictionary(o), NEW n, ParamsOK(n.params), n.present \in BOOLEAN,
         n.restore \in BOOLEAN, NEW fault
  PROVE  LET r == init(o, n, fault)
         IN /\ IsDictionary(r.od) /\ DOMAIN r.od # {}
            /\ BootResult(o, n, r)
<1> DEFINE base == populate_protocol_objects(o)
           r == init(o, n, fault)
<1>1. IsDictionary(base) /\ DOMAIN base # {}
  <2>1. \h0420 \in DOMAIN base
    BY DEF populate_protocol_objects, ProtocolObjects
  <2> HIDE DEF base
  <2>2. DOMAIN base # {}
    BY <2>1
  <2> QED BY <2>2, Populated DEF base
<1>2. IsDictionary(overlay(base, n.params)) /\ DOMAIN overlay(base, n.params) # {}
  <2> HIDE DEF base
  <2> QED BY <1>1, OverlayOf
<1> HIDE DEF base
<1>3. CASE ~n.present
  <2>1. r = [err |-> "Ok", od |-> base, nv |-> n]
    BY <1>3 DEF init, base
  <2> HIDE DEF r
  <2>2. IsDictionary(r.od) /\ DOMAIN r.od # {} /\ BootResult(o, n, r)
    BY <1>1, <1>3, <2>1 DEF BootResult, base
  <2> QED BY <2>2 DEF r
<1>4. CASE n.present /\ n.restore
  <2>1. \/ r = [err |-> "StorageError", od |-> base, nv |-> n]
        \/ r = [err |-> "StorageError", od |-> base, nv |-> [n EXCEPT !.params = NoParams]]
        \/ r = [err |-> "Ok", od |-> base,
                nv |-> [n EXCEPT !.params = NoParams, !.restore = FALSE]]
    BY <1>4, Zenon DEF init, base
  <2> HIDE DEF r
  <2>2. CASE r = [err |-> "StorageError", od |-> base, nv |-> n]
    <3>1. r.err # "Ok" /\ r.od = base /\ r.nv = n
      BY <2>2
    <3>2. IsDictionary(r.od) /\ DOMAIN r.od # {} /\ BootResult(o, n, r)
      BY <1>1, <1>4, <3>1 DEF BootResult, base
    <3> QED BY <3>2 DEF r
  <2>3. CASE r = [err |-> "StorageError", od |-> base, nv |-> [n EXCEPT !.params = NoParams]]
    <3>1. r.err # "Ok" /\ r.od = base /\ r.nv = [n EXCEPT !.params = NoParams]
      BY <2>3
    <3>2. IsDictionary(r.od) /\ DOMAIN r.od # {} /\ BootResult(o, n, r)
      BY <1>1, <1>4, <3>1, Zenon DEF BootResult, base
    <3> QED BY <3>2 DEF r
  <2>4. CASE r = [err |-> "Ok", od |-> base,
                  nv |-> [n EXCEPT !.params = NoParams, !.restore = FALSE]]
    <3>1. r.err = "Ok" /\ r.od = base /\ r.nv = [n EXCEPT !.params = NoParams, !.restore = FALSE]
      BY <2>4, Zenon
    <3>2. IsDictionary(r.od) /\ DOMAIN r.od # {} /\ BootResult(o, n, r)
      BY <1>1, <1>4, <3>1, Zenon DEF BootResult, base
    <3> QED BY <3>2 DEF r
  <2> QED BY <2>1, <2>2, <2>3, <2>4, Zenon
<1>5. CASE n.present /\ ~n.restore
  <2>1. \/ r = [err |-> "StorageError", od |-> base, nv |-> n]
        \/ r = [err |-> "Ok", od |-> overlay(base, n.params), nv |-> n]
    BY <1>5 DEF init, base
  <2> HIDE DEF r
  <2>2. IsDictionary(r.od) /\ DOMAIN r.od # {} /\ BootResult(o, n, r)
    BY <1>1, <1>2, <1>5, <2>1 DEF BootResult, base
  <2> QED BY <2>2 DEF r
<1> QED BY <1>3, <1>4, <1>5

\* The parts of the inductive invariant besides TypeOK: a restore that was
\* asked for is flagged, a flag needs a storage, and the storage holds what
\* the last save was given, unless a wipe has gone through whose boot has not.
StoredIsSaved == nv.params = saved \/ (nv.restore /\ ~up /\ nv.params = NoParams)
StoreInv == /\ TypeOK
            /\ RestoreNotLost
            /\ nv.restore => nv.present
            /\ StoredIsSaved
            /\ ~nv.present => saved = NoParams

LEMMA InitStoreInv == ASSUME Init PROVE StoreInv
<1>1. PICK b \in BOOLEAN : nv = [present |-> b, params |-> NoParams, restore |-> FALSE]
  BY DEF Init
<1>2. nv.present \in BOOLEAN /\ nv.params = NoParams /\ nv.restore = FALSE
      /\ nv = [present |-> nv.present, params |-> nv.params, restore |-> nv.restore]
  BY <1>1
<1>3. TypeOK
  BY <1>2, DownIsDictionary, NoParamsOK DEF Init, TypeOK
<1> QED BY <1>2, <1>3 DEF Init, StoreInv, RestoreNotLost, StoredIsSaved

LEMMA BootStoreInv ==
  ASSUME StoreInv, NEW fault \in Faults, NEW loads \in SUBSET Areas, Boot(fault, loads)
  PROVE  StoreInv'
<1> DEFINE r == init(fw.entries, nv, fault)
<1>1. /\ IsDictionary(fw.entries) /\ ParamsOK(nv.params) /\ ParamsOK(saved)
      /\ nv.present \in BOOLEAN /\ nv.restore \in BOOLEAN /\ fw \in Firmware
      /\ nv = [present |-> nv.present, params |-> nv.params, restore |-> nv.restore]
  BY FirmwareAssumption DEF StoreInv, TypeOK
<1>2. IsDictionary(r.od) /\ DOMAIN r.od # {} /\ BootResult(fw.entries, nv, r)
  BY <1>1, InitEffect
<1>3. /\ ~up /\ nv' = r.nv /\ (up' => r.err = "Ok") /\ up' \in BOOLEAN
      /\ od' = IF up' THEN reset(r.od, r.nv, "SwReset", loads) ELSE Down
      /\ saved' = IF r.err = "Ok" /\ nv.restore THEN NoParams ELSE saved
      /\ asked' = (asked /\ r.err # "Ok") /\ fw' = fw
  BY Zenon DEF Boot
<1> HIDE DEF r
<1>4. \/ nv' = nv
      \/ nv.restore /\ r.err # "Ok" /\ nv' = [nv EXCEPT !.params = NoParams]
      \/ nv.restore /\ r.err = "Ok" /\ nv' = [nv EXCEPT !.params = NoParams, !.restore = FALSE]
  BY <1>2, <1>3, Zenon DEF BootResult
<1>5. /\ nv' = [present |-> nv'.present, params |-> nv'.params, restore |-> nv'.restore]
      /\ nv'.present = nv.present /\ nv'.restore \in BOOLEAN
      /\ nv'.params \in {nv.params, NoParams}
  <2>1. CASE nv' = nv
    BY <1>1, <2>1
  <2>2. CASE nv' = [nv EXCEPT !.params = NoParams]
    BY <1>1, <2>2
  <2>3. CASE nv' = [nv EXCEPT !.params = NoParams, !.restore = FALSE]
    <3>1. nv'.restore = FALSE /\ nv'.params = NoParams /\ nv'.present = nv.present
      BY <1>1, <2>3
    <3> QED BY <1>1, <2>3, <3>1
  <2> QED BY <1>4, <2>1, <2>2, <2>3
<1>6. IsDictionary(od') /\ (up' = (od' # Down))
  <2>1. CASE up'
    <3>1. ParamsOK(r.nv.params) /\ "SwReset" \in ResetEvents
      BY <1>1, <1>3, <1>5, NoParamsOK DEF ResetEvents
    <3>2. Keeps(r.od, od')
      BY <1>2, <1>3, <2>1, <3>1, ResetKeeps
    <3> QED BY <1>2, <2>1, <3>2, EmptyDictionary DEF Keeps
  <2>2. CASE ~up'
    BY <1>3, <2>2, DownIsDictionary
  <2> QED BY <2>1, <2>2
<1>7. ParamsOK(nv'.params) /\ ParamsOK(saved')
  BY <1>1, <1>3, <1>5, NoParamsOK
<1>8. asked' \in BOOLEAN
  BY <1>3
<1>9. TypeOK'
  BY <1>1, <1>3, <1>5, <1>6, <1>7, <1>8 DEF TypeOK
<1>10. /\ asked => nv.restore
       /\ nv.params = saved \/ (nv.restore /\ nv.params = NoParams)
       /\ nv.restore => nv.present
       /\ ~nv.present => saved = NoParams
  BY DEF StoreInv, RestoreNotLost, StoredIsSaved
<1>11. CASE r.err = "Ok"
  <2>1. CASE nv.restore
    <3>1. nv' = [nv EXCEPT !.params = NoParams, !.restore = FALSE]
      BY <1>2, <1>3, <1>10, <1>11, <2>1, Zenon DEF BootResult
    <3>2. nv'.restore = FALSE /\ nv'.params = NoParams
      BY <1>1, <3>1
    <3>3. saved' = NoParams /\ ~asked'
      BY <1>3, <1>11, <2>1
    <3> QED BY <1>9, <3>2, <3>3 DEF StoreInv, RestoreNotLost, StoredIsSaved
  <2>2. CASE ~nv.restore
    <3>1. nv' = nv
      BY <1>4, <2>2, Zenon
    <3> QED BY <1>3, <1>9, <1>10, <1>11, <2>2, <3>1 DEF StoreInv, RestoreNotLost, StoredIsSaved
  <2> QED BY <2>1, <2>2
<1>12. CASE r.err # "Ok"
  <2>1. nv' = nv \/ (nv.restore /\ nv' = [nv EXCEPT !.params = NoParams])
    BY <1>4, <1>12, Zenon
  <2>2. nv'.restore = nv.restore /\ (nv'.params = nv.params \/ (nv.restore /\ nv'.params = NoParams))
    BY <1>1, <2>1
  <2>3. saved' = saved /\ asked' = asked /\ ~up'
    BY <1>3, <1>12, Zenon DEF StoreInv, TypeOK
  <2> QED BY <1>5, <1>9, <1>10, <2>2, <2>3 DEF StoreInv, RestoreNotLost, StoredIsSaved
<1> QED BY <1>11, <1>12

LEMMA KeepsRunning ==
  ASSUME IsDictionary(od), up = (od # Down), up, NEW p, Keeps(od, p)
  PROVE  IsDictionary(p) /\ p # Down
BY EmptyDictionary DEF Keeps

\* The two kinds of write share what their commands do to the storage.
LEMMA CommandedStoreInv ==
  ASSUME StoreInv, up, NEW w, NEW p, NEW m, NEW ok \in BOOLEAN,
         Keeps(od, p), Commands(od, nv, m, w[1], w[2], ok), Commanded(w, p, m, ok)
  PROVE  StoreInv'
<1>1. /\ fw \in Firmware /\ IsDictionary(od) /\ ParamsOK(nv.params) /\ ParamsOK(saved)
      /\ nv = [present |-> nv.present, params |-> nv.params, restore |-> nv.restore]
      /\ nv.present \in BOOLEAN /\ nv.restore \in BOOLEAN /\ asked \in BOOLEAN
      /\ up = (od # Down)
  BY DEF StoreInv, TypeOK
<1>2. /\ asked => nv.restore
      /\ nv.restore => nv.present
      /\ nv.params = saved
      /\ ~nv.present => saved = NoParams
  BY DEF StoreInv, RestoreNotLost, StoredIsSaved
<1>3. /\ od' = p /\ nv' = m /\ fw' = fw /\ up' = up
      /\ saved' = IF w[1] = IDX_NMT_STORE_PARAM_CMD_REC /\ ok
                  THEN StorableParams(od, w[2]) ELSE saved
      /\ asked' = (asked \/ (w[1] = IDX_NMT_RESTORE_PARAM_CMD_REC /\ ok))
  BY Zenon DEF Commanded
<1>4. IsDictionary(od') /\ od' # Down
  BY <1>1, <1>3, KeepsRunning
<1>5. IDX_NMT_STORE_PARAM_CMD_REC # IDX_NMT_RESTORE_PARAM_CMD_REC
  BY DEF IDX_NMT_STORE_PARAM_CMD_REC, IDX_NMT_RESTORE_PARAM_CMD_REC
<1>6. CASE nv' = nv /\ ~(w[1] \in {IDX_NMT_STORE_PARAM_CMD_REC, IDX_NMT_RESTORE_PARAM_CMD_REC} /\ ok)
  <2>1. saved' = saved /\ asked' = asked
    BY <1>1, <1>3, <1>6, Zenon
  <2> QED BY <1>1, <1>2, <1>3, <1>4, <1>6, <2>1
          DEF StoreInv, TypeOK, RestoreNotLost, StoredIsSaved
<1>7. CASE /\ w[1] = IDX_NMT_STORE_PARAM_CMD_REC /\ ok /\ nv.present
           /\ nv' = [nv EXCEPT !.params = StorableParams(od, w[2])]
  <2>1. saved' = StorableParams(od, w[2]) /\ asked' = asked
    BY <1>1, <1>3, <1>5, <1>7, Zenon
  <2>2. /\ nv'.params = saved' /\ nv'.present = nv.present /\ nv'.restore = nv.restore
        /\ nv' = [present |-> nv'.present, params |-> nv'.params, restore |-> nv'.restore]
    BY <1>1, <1>7, <2>1
  <2>3. ParamsOK(saved')
    BY <1>1, <2>1, StorableOK
  <2>4. nv.present
    BY <1>7
  <2> QED BY <1>1, <1>2, <1>3, <1>4, <2>1, <2>2, <2>3, <2>4
          DEF StoreInv, TypeOK, RestoreNotLost, StoredIsSaved
<1>8. CASE /\ w[1] = IDX_NMT_RESTORE_PARAM_CMD_REC /\ ok /\ nv.present
           /\ nv' = [nv EXCEPT !.restore = TRUE]
  <2>1. saved' = saved /\ asked'
    BY <1>3, <1>5, <1>8, Zenon
  <2>2. /\ nv'.params = nv.params /\ nv'.present = nv.present /\ nv'.restore = TRUE
        /\ nv' = [present |-> nv'.present, params |-> nv'.params, restore |-> nv'.restore]
    BY <1>1, <1>8
  <2>3. nv.present /\ asked' \in BOOLEAN
    BY <1>3, <1>8
  <2> QED BY <1>1, <1>2, <1>3, <1>4, <2>1, <2>2, <2>3
          DEF StoreInv, TypeOK, RestoreNotLost, StoredIsSaved
<1> QED BY <1>3, <1>6, <1>7, <1>8, Zenon DEF Commands

LEMMA LocalWriteEffect ==
  ASSUME StoreInv, NEW w \in LocalWrites, NEW ok \in BOOLEAN, LocalWrite(w, ok)
  PROVE  \E p, m : \E done \in BOOLEAN :
           up /\ Keeps(od, p) /\ Commands(od, nv, m, w[1], w[2], done) /\ Commanded(w, p, m, done)
<1> DEFINE r == write(od, nv, w[1], w[2], w[3], ok)
<1>1. IsDictionary(od) /\ w[2] \in UNSIGNED8 /\ w[3] \in ObjectValue
  BY WritesAssumption DEF StoreInv, TypeOK
<1>2. Keeps(od, r.od) /\ Commands(od, nv, r.nv, w[1], w[2], r.err = "Ok")
  BY <1>1, WriteEffect
<1>3. up /\ Commanded(w, r.od, r.nv, r.err = "Ok") /\ (r.err = "Ok") \in BOOLEAN
  BY Zenon DEF LocalWrite
<1> HIDE DEF r
<1> QED BY <1>2, <1>3, Zenon

LEMMA SdoWriteEffect ==
  ASSUME StoreInv, NEW w \in SdoWrites, NEW ok \in BOOLEAN, SdoWrite(w, ok)
  PROVE  \E p, m : \E done \in BOOLEAN :
           up /\ Keeps(od, p) /\ Commands(od, nv, m, w[1], w[2], done) /\ Commanded(w, p, m, done)
<1> DEFINE r == write_bytes(od, nv, w[1], w[2], w[3], ok)
<1>1. IsDictionary(od) /\ w[2] \in UNSIGNED8 /\ w[3] \in Seq(UNSIGNED8)
  BY WritesAssumption DEF StoreInv, TypeOK
<1>2. Keeps(od, r.od) /\ Commands(od, nv, r.nv, w[1], w[2], r.err = 0)
  BY <1>1, WriteBytesEffect
<1>3. up /\ Commanded(w, r.od, r.nv, r.err = 0) /\ (r.err = 0) \in BOOLEAN
  BY Zenon DEF SdoWrite
<1> HIDE DEF r
<1> QED BY <1>2, <1>3, Zenon

LEMMA LogEffect ==
  ASSUME StoreInv, NEW e \in Errors, Log(e)
  PROVE  LET old == od[IDX_ERR_HISTORY].vals
             new == od'[IDX_ERR_HISTORY].vals
         IN /\ IsDictionary(od') /\ od' # Down
            /\ read_object(od, IDX_ERR_HISTORY) = Some("Array") =>
                 /\ new = SubSeq(<<e>> \o old, 1, Len(new))
                 /\ Len(new) >= Len(old) /\ Len(new) > 0
<1> DEFINE p == write_error_to_history(od, e)
           H == IDX_ERR_HISTORY
<1>1. IsDictionary(od) /\ up = (od # Down) /\ up /\ e \in ObjectValue
  BY ErrorsAssumption DEF StoreInv, TypeOK, Log
<1>2. /\ IsDictionary(p) /\ DOMAIN p = DOMAIN od
      /\ read_object(od, H) = Some("Array") =>
           /\ p[H].vals = SubSeq(<<e>> \o od[H].vals, 1, Len(p[H].vals))
           /\ Len(p[H].vals) >= Len(od[H].vals) /\ Len(p[H].vals) > 0
  BY <1>1, HistoryStep
<1>3. od' = increment_counter(p, \h1102, 1)
  BY DEF Log
<1> HIDE DEF p
<1>4. \h1102 # H /\ 1 \in UNSIGNED8
  BY DEF IDX_ERR_HISTORY, UNSIGNED8
<1>5. /\ IsDictionary(od') /\ DOMAIN od' = DOMAIN p
      /\ H \in DOMAIN p => od'[H] = p[H]
  BY <1>2, <1>3, <1>4, CounterStep
<1>6. od' # Down
  BY <1>1, <1>2, <1>5, EmptyDictionary
<1>7. read_object(od, H) = Some("Array") => H \in DOMAIN od
  BY DEF read_object, Some, None
<1> QED BY <1>2, <1>5, <1>6, <1>7

LEMMA NextStoreInv == ASSUME StoreInv, [Next]_vars PROVE StoreInv'
<1>1. ASSUME NEW f \in Faults, NEW loads \in SUBSET Areas, Boot(f, loads) PROVE StoreInv'
  BY <1>1, BootStoreInv
<1>2. CASE PowerLoss
  <2>1. /\ up' = FALSE /\ od' = Down /\ fw' = fw /\ nv' = nv /\ saved' = saved /\ asked' = asked
    BY <1>2 DEF PowerLoss
  <2> QED BY <2>1, DownIsDictionary DEF StoreInv, TypeOK, RestoreNotLost, StoredIsSaved
<1>3. CASE UpdateFirmware
  <2>1. /\ fw' \in Firmware /\ od' = od /\ nv' = nv /\ up' = up /\ saved' = saved /\ asked' = asked
    BY <1>3 DEF UpdateFirmware
  <2> QED BY <2>1 DEF StoreInv, TypeOK, RestoreNotLost, StoredIsSaved
<1>4. ASSUME NEW w \in LocalWrites, NEW ok \in BOOLEAN, LocalWrite(w, ok) PROVE StoreInv'
  BY <1>4, LocalWriteEffect, CommandedStoreInv
<1>5. ASSUME NEW w \in SdoWrites, NEW ok \in BOOLEAN, SdoWrite(w, ok) PROVE StoreInv'
  BY <1>5, SdoWriteEffect, CommandedStoreInv
<1>6. ASSUME NEW e \in Errors, Log(e) PROVE StoreInv'
  <2>1. IsDictionary(od') /\ od' # Down
    BY <1>6, LogEffect
  <2>2. up /\ fw' = fw /\ nv' = nv /\ up' = up /\ saved' = saved /\ asked' = asked
    BY <1>6 DEF Log
  <2> QED BY <2>1, <2>2 DEF StoreInv, TypeOK, RestoreNotLost, StoredIsSaved
<1>7. ASSUME NEW ev \in ResetEvents, NEW loads, Reset(ev, loads) PROVE StoreInv'
  <2>1. /\ up /\ od' = reset(od, nv, ev, loads)
        /\ fw' = fw /\ nv' = nv /\ up' = up /\ saved' = saved /\ asked' = asked
    BY <1>7 DEF Reset
  <2>2. IsDictionary(od) /\ ParamsOK(nv.params) /\ up = (od # Down)
    BY DEF StoreInv, TypeOK
  <2>3. Keeps(od, od')
    BY <2>1, <2>2, ResetKeeps
  <2>4. IsDictionary(od') /\ od' # Down
    BY <2>1, <2>2, <2>3, KeepsRunning
  <2> QED BY <2>1, <2>4 DEF StoreInv, TypeOK, RestoreNotLost, StoredIsSaved
<1>8. CASE UNCHANGED vars
  BY <1>8 DEF vars, StoreInv, TypeOK, RestoreNotLost, StoredIsSaved
<1> QED BY <1>1, <1>2, <1>3, <1>4, <1>5, <1>6, <1>7, <1>8 DEF Next

\* Every reachable state of every node satisfies the inductive invariant.
THEOREM StoreInvariant == Spec => []StoreInv
<1>1. Init => StoreInv
  BY InitStoreInv
<1>2. StoreInv /\ [Next]_vars => StoreInv'
  BY NextStoreInv
<1> QED BY <1>1, <1>2, PTL DEF Spec

\* The dictionary and the storage stay well formed (od/mod.rs, od/storage.rs):
\* for every firmware, every sequence of writes, resets, boots and power
\* losses, and every failure of the storage backend.
THEOREM StoreTypeCorrect == Spec => []TypeOK
<1>1. StoreInv => TypeOK
  BY DEF StoreInv
<1> QED BY <1>1, StoreInvariant, PTL

\* A restore that was asked for is never forgotten (od/storage.rs init).
THEOREM RestoreIsKept == Spec => []RestoreNotLost
<1>1. StoreInv => RestoreNotLost
  BY DEF StoreInv
<1> QED BY <1>1, StoreInvariant, PTL

\* What a boot that completes makes of the firmware and of the storage.
LEMMA BootBrings ==
  ASSUME StoreInv, NEW f, NEW loads, Boot(f, loads), up'
  PROVE  \E r : /\ IsDictionary(r.od) /\ BootResult(fw.entries, nv, r)
                /\ r.err = "Ok" /\ nv' = r.nv /\ od' = reset(r.od, r.nv, "SwReset", loads)
<1> DEFINE r == init(fw.entries, nv, f)
<1>1. /\ IsDictionary(fw.entries) /\ ParamsOK(nv.params)
      /\ nv.present \in BOOLEAN /\ nv.restore \in BOOLEAN
  BY FirmwareAssumption DEF StoreInv, TypeOK
<1>2. IsDictionary(r.od) /\ BootResult(fw.entries, nv, r)
  BY <1>1, InitEffect
<1>3. r.err = "Ok" /\ nv' = r.nv /\ od' = reset(r.od, r.nv, "SwReset", loads)
  BY Zenon DEF Boot
<1> HIDE DEF r
<1> QED BY <1>2, <1>3

\* Only a boot starts a node.
LEMMA StartIsBoot ==
  ASSUME [Next]_vars, ~up, up'
  PROVE  \E f \in Faults, loads \in SUBSET Areas : Boot(f, loads)
<1>1. ~PowerLoss /\ ~UpdateFirmware /\ ~UNCHANGED vars
  BY DEF PowerLoss, UpdateFirmware, vars
<1>2. /\ \A w \in LocalWrites, ok \in BOOLEAN : ~LocalWrite(w, ok)
      /\ \A w \in SdoWrites, ok \in BOOLEAN : ~SdoWrite(w, ok)
  <2>1. ASSUME NEW w \in LocalWrites, NEW ok \in BOOLEAN, LocalWrite(w, ok) PROVE FALSE
    BY <2>1, Zenon DEF LocalWrite
  <2>2. ASSUME NEW w \in SdoWrites, NEW ok \in BOOLEAN, SdoWrite(w, ok) PROVE FALSE
    BY <2>2, Zenon DEF SdoWrite
  <2> QED BY <2>1, <2>2, Zenon
<1>3. ASSUME NEW e \in Errors, Log(e) PROVE FALSE
  BY <1>3, SMT DEF Log
<1>4. \A ev, loads : ~Reset(ev, loads)
  BY Zenon DEF Reset
<1> QED BY <1>1, <1>2, <1>3, <1>4, Zenon DEF Next

\* With nothing stored a reset installs what it installs without a storage,
\* whichever of its loads fail.
LEMMA NothingStored ==
  ASSUME NEW o, NEW n, n.params = NoParams, NEW loads
  PROVE  reset(o, n, "SwReset", loads) = reset(o, NoStorage, "SwReset", Areas)
<1>1. ASSUME NEW d, NEW lo, NEW hi, NEW a \in BOOLEAN, NEW b \in BOOLEAN
      PROVE  restore_power_on_values(d, n, lo, hi, a)
               = restore_power_on_values(d, NoStorage, lo, hi, b)
  <2> DEFINE On(stored, i, k) ==
               LET e == d[i]
                   x == <<i, IF e.obj = "Variable" THEN 0 ELSE k>>
               IN IF x \in DOMAIN stored THEN stored[x]
                  ELSE IF e.default # None
                          /\ (e.obj = "Variable" \/ e.default[1].t = e.vals[k].t)
                  THEN e.default[1] ELSE e.vals[k]
             Back(stored) == [i \in DOMAIN d |->
               IF i \in lo..hi /\ i # IDX_ERR_HISTORY
               THEN [d[i] EXCEPT !.vals = [k \in DOMAIN @ |-> On(stored, i, k)]] ELSE d[i]]
             one == IF n.present /\ a THEN n.params ELSE NoParams
             two == IF NoStorage.present /\ b THEN NoStorage.params ELSE NoParams
  <2>1. one = NoParams /\ two = NoParams
    BY DEF NoStorage
  <2>2. restore_power_on_values(d, n, lo, hi, a) = Back(one)
    BY DEF restore_power_on_values
  <2>3. restore_power_on_values(d, NoStorage, lo, hi, b) = Back(two)
    BY DEF restore_power_on_values
  <2> HIDE DEF one, two, Back
  <2> QED BY <2>1, <2>2, <2>3
<1> DEFINE back(m, l, d, lo, hi, area) == restore_power_on_values(d, m, lo, hi, area \in l)
           all(m, l) == back(m, l, back(m, l, back(m, l, o, \h2000, \h5FFF, "manufacturer"),
                                        \h6000, \h9FFF, "device"), \h1000, \h1FFF, "communication")
<1>2. \A d, lo, hi, area : back(n, loads, d, lo, hi, area) = back(NoStorage, Areas, d, lo, hi, area)
  <2> SUFFICES ASSUME NEW d, NEW lo, NEW hi, NEW area
               PROVE  back(n, loads, d, lo, hi, area) = back(NoStorage, Areas, d, lo, hi, area)
    OBVIOUS
  <2>1. (area \in loads) \in BOOLEAN /\ (area \in Areas) \in BOOLEAN
    OBVIOUS
  <2> QED BY <1>1, <2>1, Zenon
<1>3. all(n, loads) = all(NoStorage, Areas)
  <2> HIDE DEF back
  <2> QED BY <1>2
<1>4. \A m, l : reset(o, m, "SwReset", l)
        = write_internal(all(m, l), IDX_NMT_CURR_NMT_STATE_U8, 0, NotActive, FALSE).od
  BY DEF reset
<1> HIDE DEF all
<1> QED BY <1>3, <1>4

\* The first boot that completes after a restore was asked for brings the node
\* up as one that has never stored anything and leaves the storage empty
\* (od/storage.rs init, nmt/state_machine.rs run_internal_initialisation).
THEOREM RestoreIsHonoured == Spec => RestoreHonoured
<1> DEFINE A == (~up /\ up' /\ asked) => od' = Factory /\ nv'.params = NoParams
<1>1. StoreInv /\ [Next]_vars => [A]_vars
  <2> SUFFICES ASSUME StoreInv, [Next]_vars, ~up, up', asked
               PROVE  od' = Factory /\ nv'.params = NoParams
    OBVIOUS
  <2>1. PICK f \in Faults, loads \in SUBSET Areas : Boot(f, loads)
    BY StartIsBoot
  <2>2. PICK r : /\ IsDictionary(r.od) /\ BootResult(fw.entries, nv, r)
                 /\ r.err = "Ok" /\ nv' = r.nv /\ od' = reset(r.od, r.nv, "SwReset", loads)
    BY <2>1, BootBrings
  <2>3. /\ nv.restore /\ nv.present
        /\ nv = [present |-> nv.present, params |-> nv.params, restore |-> nv.restore]
    BY DEF StoreInv, TypeOK, RestoreNotLost
  <2>4. /\ r.od = populate_protocol_objects(fw.entries)
        /\ r.nv = [nv EXCEPT !.params = NoParams, !.restore = FALSE]
    BY <2>2, <2>3, Zenon DEF BootResult
  <2>5. r.nv.params = NoParams
    BY <2>3, <2>4
  <2>6. od' = Factory
    BY <2>2, <2>4, <2>5, NothingStored DEF Factory
  <2> QED BY <2>2, <2>5, <2>6
<1> QED BY <1>1, StoreInvariant, PTL DEF Spec, RestoreHonoured

\* The value of address a after a part of a reset: the stored one, or the
\* object's default in an area whose load failed.  The object keeps its shape.
Held(o, q, a, v, loads) ==
  LET i == a[1]
  IN /\ IsDictionary(q) /\ i \in DOMAIN q
     /\ q[i].obj = o[i].obj /\ DOMAIN q[i].vals = DOMAIN o[i].vals
     /\ a[2] \in SubsOf(o[i]) =>
          \/ ValueAt(q, a) = v
          \/ /\ \E area \in Areas \ loads : InArea(i, area)
             /\ q[i].default = Some(ValueAt(q, a))

LEMMA Addresses ==
  ASSUME NEW p, ParamsOK(p), NEW a \in DOMAIN p
  PROVE  a = <<a[1], a[2]>> /\ a[2] \in Nat
<1>1. a \in UNSIGNED16 \X UNSIGNED8
  BY DEF ParamsOK
<1> QED BY <1>1 DEF UNSIGNED8

LEMMA PowerOnHolds ==
  ASSUME NEW n, ParamsOK(n.params), n.present, NEW a \in DOMAIN n.params, NEW o, NEW d,
         NEW loads, NEW area \in Areas, NEW lo, NEW hi, RangeOf(area) = lo..hi,
         Held(o, d, a, n.params[a], loads)
  PROVE  Held(o, restore_power_on_values(d, n, lo, hi, area \in loads), a, n.params[a], loads)
<1> DEFINE ok == area \in loads
           q == restore_power_on_values(d, n, lo, hi, ok)
           i == a[1]
           e == d[i]
           k == IF a[2] = 0 THEN 1 ELSE a[2]
           stored == IF n.present /\ ok THEN n.params ELSE NoParams
           On(z) == LET x == <<i, IF e.obj = "Variable" THEN 0 ELSE z>>
                    IN IF x \in DOMAIN stored THEN stored[x]
                       ELSE IF e.default # None
                               /\ (e.obj = "Variable" \/ e.default[1].t = e.vals[z].t)
                       THEN e.default[1] ELSE e.vals[z]
           vs == [z \in DOMAIN e.vals |-> On(z)]
<1>1. /\ IsDictionary(d) /\ i \in DOMAIN d /\ e.obj = o[i].obj
      /\ DOMAIN e.vals = DOMAIN o[i].vals
  BY DEF Held
<1>2. /\ e \in ObjectEntries /\ e.vals \in Seq(ObjectValue)
      /\ e.obj = "Variable" => Len(e.vals) = 1
      /\ e.default \in Seq(ObjectValue) /\ Len(e.default) <= 1
  <2>1. e \in ObjectEntries
    BY <1>1 DEF IsDictionary
  <2> HIDE DEF e
  <2> QED BY <2>1 DEF ObjectEntries
<1>3. IsDictionary(q) /\ DOMAIN q = DOMAIN d
  <2>1. ok \in BOOLEAN
    OBVIOUS
  <2>2. Keeps(d, q)
    <3> HIDE DEF ok
    <3> QED BY <1>1, <2>1, PowerOnKeeps
  <2> QED BY <2>2 DEF Keeps
<1>4. q[i] = e \/ (i \in lo..hi /\ q[i] = [e EXCEPT !.vals = vs])
  BY <1>1 DEF restore_power_on_values
<1> SUFFICES Held(o, q, a, n.params[a], loads)
  OBVIOUS
<1> HIDE DEF q
<1>5. CASE q[i] = e
  <2>1. ValueAt(q, a) = ValueAt(d, a)
    BY <1>5 DEF ValueAt
  <2> QED BY <1>1, <1>3, <1>5, <2>1 DEF Held
<1>6. CASE i \in lo..hi /\ q[i] = [e EXCEPT !.vals = vs]
  <2>1. /\ q[i].obj = e.obj /\ q[i].default = e.default /\ q[i].vals = vs
        /\ DOMAIN vs = DOMAIN e.vals
    <3> HIDE DEF e, On
    <3> QED BY <1>2, <1>6 DEF ObjectEntries
  <2>2. InArea(i, area)
    BY <1>6 DEF InArea
  <2>3. ASSUME a[2] \in SubsOf(o[i])
        PROVE  \/ ValueAt(q, a) = n.params[a]
               \/ /\ \E z \in Areas \ loads : InArea(i, z)
                  /\ q[i].default = Some(ValueAt(q, a))
    <3>1. a = <<i, a[2]>> /\ a[2] \in Nat
      BY Addresses
    <3>2. k \in DOMAIN e.vals /\ <<i, IF e.obj = "Variable" THEN 0 ELSE k>> = a
      <4>1. a[2] \in SubsOf(e)
        BY <1>1, <2>3 DEF SubsOf
      <4> HIDE DEF e
      <4>2. k \in DOMAIN e.vals /\ (IF e.obj = "Variable" THEN 0 ELSE k) = a[2]
        BY <1>2, <3>1, <4>1 DEF SubsOf
      <4> QED BY <3>1, <4>2
    <3>3. ValueAt(q, a) = vs[k] /\ vs[k] = On(k) /\ ValueAt(d, a) = e.vals[k]
      BY <2>1, <3>2 DEF ValueAt
    <3>4. CASE ok
      <4>1. On(k) = n.params[a]
        BY <3>2, <3>4
      <4> HIDE DEF On, vs
      <4> QED BY <3>3, <4>1, Zenon
    <3>5. CASE ~ok
      <4>1. stored = NoParams /\ DOMAIN NoParams = {}
        BY <3>5 DEF NoParams
      <4>2. On(k) = e.vals[k] \/ (e.default # None /\ On(k) = e.default[1])
        <5> HIDE DEF stored, e
        <5> QED BY <3>2, <4>1
      <4>3. e.default # None => e.default = Some(e.default[1])
        <5> HIDE DEF e
        <5> QED BY <1>2 DEF None, Some
      <4>4. \E z \in Areas \ loads : InArea(i, z)
        BY <2>2, <3>5
      <4>5. CASE On(k) = e.vals[k]
        <5>1. ValueAt(q, a) = ValueAt(d, a)
          <6> HIDE DEF On, vs, e, k
          <6> QED BY <3>3, <4>5
        <5>2. \/ ValueAt(d, a) = n.params[a]
              \/ e.default = Some(ValueAt(d, a))
          BY <2>3 DEF Held
        <5> QED BY <2>1, <4>4, <5>1, <5>2
      <4>6. CASE e.default # None /\ On(k) = e.default[1]
        <5> HIDE DEF On, vs, e
        <5> QED BY <2>1, <3>3, <4>3, <4>4, <4>6
      <4> QED BY <4>2, <4>5, <4>6
    <3> QED BY <3>4, <3>5
  <2> HIDE DEF vs, e
  <2> QED BY <1>1, <1>3, <2>1, <2>3 DEF Held
<1> QED BY <1>4, <1>5, <1>6

LEMMA ResetHolds ==
  ASSUME NEW n, ParamsOK(n.params), n.present, NEW a \in DOMAIN n.params, NEW o,
         NEW loads, Held(o, o, a, n.params[a], loads), a[1] # IDX_NMT_CURR_NMT_STATE_U8
  PROVE  Held(o, reset(o, n, "SwReset", loads), a, n.params[a], loads)
<1> DEFINE v == n.params[a]
           back(d, lo, hi, area) == restore_power_on_values(d, n, lo, hi, area \in loads)
           one == back(o, \h2000, \h5FFF, "manufacturer")
           two == back(one, \h6000, \h9FFF, "device")
           all == back(two, \h1000, \h1FFF, "communication")
           S == IDX_NMT_CURR_NMT_STATE_U8
           R(lo, hi) == lo..hi
<1>1. /\ "manufacturer" \in Areas /\ "device" \in Areas /\ "communication" \in Areas
      /\ RangeOf("manufacturer") = R(\h2000, \h5FFF)
      /\ RangeOf("device") = R(\h6000, \h9FFF)
      /\ RangeOf("communication") = R(\h1000, \h1FFF)
  BY DEF Areas, RangeOf
<1>2. ASSUME NEW d, NEW lo, NEW hi, NEW area \in Areas, RangeOf(area) = R(lo, hi),
             Held(o, d, a, v, loads)
      PROVE  Held(o, back(d, lo, hi, area), a, v, loads)
  BY <1>2, PowerOnHolds, Zenon
<1>3. reset(o, n, "SwReset", loads) = write_internal(all, S, 0, NotActive, FALSE).od
  BY DEF reset
<1>4. Held(o, all, a, v, loads)
  <2> HIDE DEF back, v, R
  <2>2. Held(o, o, a, v, loads)
    BY DEF v
  <2>3. Held(o, one, a, v, loads)
    BY <1>1, <1>2, <2>2
  <2>4. Held(o, two, a, v, loads)
    <3> HIDE DEF one
    <3> QED BY <1>1, <1>2, <2>3
  <2> HIDE DEF two
  <2> QED BY <1>1, <1>2, <2>4
<1> HIDE DEF all
<1>6. ASSUME NEW c \in BOOLEAN PROVE Held(o, write_internal(all, S, 0, NotActive, c).od, a, v, loads)
  <2> DEFINE p == write_internal(all, S, 0, NotActive, c).od
  <2>1. 0 \in UNSIGNED8 /\ NotActive \in ObjectValue /\ IsDictionary(all) /\ S # IDX_ERR_HISTORY
    BY <1>4, Unsigned DEF UNSIGNED8, NotActive, Held, IDX_NMT_CURR_NMT_STATE_U8, IDX_ERR_HISTORY
  <2>2. p = all \/ StoresOne(all, p, S, 0, NotActive, c)
    BY <2>1, WriteInternal, Zenon
  <2>3. Keeps(all, p)
    BY <2>1, WriteInternalKeeps
  <2> HIDE DEF p
  <2>4. a[1] \in DOMAIN all => p[a[1]] = all[a[1]]
    BY <2>2 DEF StoresOne
  <2>5. Held(o, p, a, v, loads)
    BY <1>4, <2>3, <2>4, Zenon DEF Held, ValueAt, Keeps
  <2> QED BY <2>5 DEF p
<1> QED BY <1>3, <1>6, Zenon

\* What the last successful save was given comes back at every later boot, but
\* for the defaults of an area whose load fails in the reset that ends it
\* (od/storage.rs init, od/mod.rs restore_power_on_values).
THEOREM SavedValuesComeBack == Spec => SavedComesBack
<1> DEFINE A == (~up /\ up' /\ ~nv.restore) =>
             \A f \in Faults, loads \in SUBSET Areas : Boot(f, loads) =>
               \A a \in DOMAIN saved :
                 (/\ a[1] \in DOMAIN od' \ {IDX_NMT_CURR_NMT_STATE_U8}
                  /\ a[2] \in SubsOf(od'[a[1]])
                  /\ ValueAt(populate_protocol_objects(fw.entries), a).t = saved[a].t)
                 => \/ ValueAt(od', a) = saved[a]
                    \/ /\ \E area \in Areas \ loads : InArea(a[1], area)
                       /\ od'[a[1]].default = Some(ValueAt(od', a))
<1>1. StoreInv /\ [Next]_vars => [A]_vars
  <2> SUFFICES ASSUME StoreInv, ~up, up', ~nv.restore,
                      NEW f \in Faults, NEW loads \in SUBSET Areas, Boot(f, loads),
                      NEW a \in DOMAIN saved, a[1] \in DOMAIN od', a[1] # IDX_NMT_CURR_NMT_STATE_U8,
                      a[2] \in SubsOf(od'[a[1]]),
                      ValueAt(populate_protocol_objects(fw.entries), a).t = saved[a].t
               PROVE  \/ ValueAt(od', a) = saved[a]
                      \/ /\ \E area \in Areas \ loads : InArea(a[1], area)
                         /\ od'[a[1]].default = Some(ValueAt(od', a))
    OBVIOUS
  <2> DEFINE base == populate_protocol_objects(fw.entries)
             o == overlay(base, saved)
  <2>1. PICK r : /\ IsDictionary(r.od) /\ BootResult(fw.entries, nv, r)
                 /\ r.err = "Ok" /\ nv' = r.nv /\ od' = reset(r.od, r.nv, "SwReset", loads)
    BY BootBrings
  <2>2. nv.params = saved /\ ParamsOK(saved) /\ IsDictionary(fw.entries)
    BY FirmwareAssumption DEF StoreInv, TypeOK, StoredIsSaved
  <2>3. nv.present
    <3>1. DOMAIN NoParams = {}
      BY DEF NoParams
    <3> QED BY <3>1 DEF StoreInv
  <2>4. r.od = o /\ r.nv = nv
    BY <2>1, <2>2, <2>3, Zenon DEF BootResult
  <2>5. IsDictionary(base)
    BY <2>2, Populated
  <2>6. a[1] \in DOMAIN o
    <3>1. Keeps(o, od')
      BY <2>1, <2>2, <2>4, ResetKeeps DEF ResetEvents
    <3> QED BY <3>1 DEF Keeps
  <2> HIDE DEF base
  <2>7. /\ IsDictionary(o) /\ DOMAIN o = DOMAIN base
        /\ \A i \in DOMAIN base : SubsOf(o[i]) = SubsOf(base[i])
        /\ (/\ a[1] \in DOMAIN base /\ a[2] \in SubsOf(base[a[1]])
            /\ ValueAt(base, a).t = saved[a].t) => ValueAt(o, a) = saved[a]
    BY <2>2, <2>5, OverlayOf
  <2> HIDE DEF o
  <2>8. a[2] \in SubsOf(o[a[1]]) => ValueAt(o, a) = saved[a]
    BY <2>6, <2>7 DEF base
  <2>9. Held(o, o, a, saved[a], loads)
    BY <2>6, <2>7, <2>8 DEF Held
  <2>10. Held(o, od', a, saved[a], loads)
    BY <2>1, <2>2, <2>3, <2>4, <2>9, ResetHolds
  <2>11. SubsOf(od'[a[1]]) = SubsOf(o[a[1]])
    BY <2>10 DEF Held, SubsOf
  <2> QED BY <2>10, <2>11 DEF Held
<1> QED BY <1>1, StoreInvariant, PTL DEF Spec, SavedComesBack

\* No reset, write or command loses an entry of a read-only Error History.
THEOREM HistoryIsKept == Spec => HistoryKept
<1> DEFINE H == IDX_ERR_HISTORY
           A == (/\ up /\ up' /\ read_object(od, H) = Some("Array")
                 /\ od[H].access \in {"ReadOnly", "Constant"}) =>
                  LET old == od[H].vals
                      new == od'[H].vals
                  IN \/ new = old
                     \/ \E e \in Errors : new = SubSeq(<<e>> \o old, 1, Len(new))
                                          /\ Len(new) >= Len(old) /\ Len(new) > 0
<1>1. StoreInv /\ [Next]_vars => [A]_vars
  <2> SUFFICES ASSUME StoreInv, Next, up, up', read_object(od, H) = Some("Array"),
                      od[H].access \in {"ReadOnly", "Constant"}
               PROVE  \/ od'[H].vals = od[H].vals
                      \/ \E e \in Errors : /\ od'[H].vals = SubSeq(<<e>> \o od[H].vals, 1, Len(od'[H].vals))
                                            /\ Len(od'[H].vals) >= Len(od[H].vals)
                                            /\ Len(od'[H].vals) > 0
    OBVIOUS
  <2>0. ReadOnlyHistory(od)
    BY DEF ReadOnlyHistory, read_object, Some, None
  <2>1. ASSUME Keeps(od, od') PROVE od'[H].vals = od[H].vals
    BY <2>0, <2>1 DEF Keeps
  <2>2. ASSUME NEW w \in LocalWrites, NEW ok \in BOOLEAN, LocalWrite(w, ok) PROVE Keeps(od, od')
    BY <2>2, LocalWriteEffect DEF Commanded
  <2>3. ASSUME NEW w \in SdoWrites, NEW ok \in BOOLEAN, SdoWrite(w, ok) PROVE Keeps(od, od')
    BY <2>3, SdoWriteEffect DEF Commanded
  <2>4. ASSUME NEW ev \in ResetEvents, NEW loads, Reset(ev, loads) PROVE Keeps(od, od')
    BY <2>4, ResetKeeps DEF Reset, StoreInv, TypeOK
  <2>5. ASSUME NEW e \in Errors, Log(e)
        PROVE  /\ od'[H].vals = SubSeq(<<e>> \o od[H].vals, 1, Len(od'[H].vals))
               /\ Len(od'[H].vals) >= Len(od[H].vals) /\ Len(od'[H].vals) > 0
    BY <2>5, LogEffect
  <2>6. /\ ~PowerLoss /\ ~UpdateFirmware
        /\ \A f, loads : ~Boot(f, loads)
    BY DEF PowerLoss, UpdateFirmware, Boot
  <2> QED BY <2>1, <2>2, <2>3, <2>4, <2>5, <2>6 DEF Next
<1> QED BY <1>1, StoreInvariant, PTL DEF Spec, HistoryKept
=============================================================================
