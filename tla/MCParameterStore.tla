-------------------------- MODULE MCParameterStore --------------------------
(* Parameter life cycle on a small dictionary: the default one of a CN and  *)
(* of an MN, with application objects of each kind of access and, in the    *)
(* CN's second firmware, one object gone and another of a different type;   *)
(* the third has no valid node number and never comes up.                   *)
EXTENDS ParameterStore, DefaultDictionaries

Obj(vals, access, default) == ObjectEntry("Array", vals, access, Some(default))
Var(v, access) == ObjectEntry("Variable", <<v>>, access, Some(v))

AppObjects ==
     \h1003 :> Obj(<<>>, "ReadOnly", [t |-> "Domain", d |-> <<0>>])
  @@ \h2000 :> Var(U8(0), "ReadWrite")
  @@ \h6000 :> Var(U8(0), "ReadWriteStore")
  @@ \h6001 :> Obj(<<U8(0), U8(0)>>, "WriteOnlyStore", U8(0))
NewObjects == \h6000 :> Var(U16(0), "ReadWriteStore")
  @@ [i \in DOMAIN AppObjects \ {\h6000, \h6001} |-> AppObjects[i]]

MCFirmware == {[mn |-> FALSE, entries |-> AppObjects @@ new_cn_default(5)],
               [mn |-> FALSE, entries |-> NewObjects @@ new_cn_default(5)],
               [mn |-> FALSE, entries |-> AppObjects @@ new_cn_default(0)],
               [mn |-> TRUE,  entries |-> [i \in {\h1003} |-> AppObjects[i]] @@ new_mn_default(240)]}

Save(list) == <<\h1010, list, VisibleString(SaveText)>>
MCLocalWrites == {Save(1), Save(2), Save(3),
                  <<\h1010, 1, VisibleString(LoadText)>>,
                  <<\h1011, 1, VisibleString(LoadText)>>,
                  <<\h6000, 0, U8(1)>>, <<\h1300, 0, U32(1)>>}
MCSdoWrites == {<<\h6001, 2, <<1>>>>, <<\h2000, 0, <<1, 1>>>>, <<\h6001, 3, <<1>>>>,
                <<\h1000, 0, Le(1, 4)>>, <<\h1010, 1, SaveText>>}
MCErrors == {[t |-> "Domain", d |-> <<k>>] : k \in {1, 2}}
=============================================================================
