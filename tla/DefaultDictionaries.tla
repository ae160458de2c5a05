------------------------ MODULE DefaultDictionaries ------------------------
(* od/utils.rs: the dictionaries the crate builds for an application that   *)
(* has none of its own.                                                     *)
EXTENDS ObjectDictionary

CONSTANT MaxNodeId      \* length of the MN's node lists, 254 in the code
ASSUME MaxNodeIdAssumption == MaxNodeId \in Nat \ {0}

Simple(v, access) == ObjectEntry("Variable", <<v>>, access, None)
Fields(vals, access) == ObjectEntry("Record", vals, access, None)
PerNode(v) == ObjectEntry("Array", [n \in 1..MaxNodeId |-> v], "ReadWrite", None)
Zero == U32(0)

FeatureFlags == U32(5)      \* ISOCHRONOUS, SDO_ASND

add_diagnostic_objects ==
     \h1101 :> Fields([k \in 1..8 |-> Zero], "ReadOnly")
  @@ \h1102 :> Fields([k \in 1..7 |-> Zero], "ReadOnly")

new_cn_default(node_id) ==
     \h1000 :> Simple(U32(\hF0191), "Constant")
  @@ \h1001 :> ObjectEntry("Variable", <<U8(0)>>, "ReadOnly", Some(U8(0)))
  @@ \h1006 :> Simple(U32(20000), "ReadWrite")
  @@ \h1008 :> Simple(VisibleString(<<67, 78>>), "Constant")
  @@ \h1010 :> Fields(<<Zero, Zero, Zero, Zero>>, "ReadWrite")
  @@ \h1011 :> Fields(<<Zero, Zero, Zero, Zero>>, "ReadWrite")
  @@ \h1018 :> Fields(<<U32(\h12345678), U32(1), U32(\h10000),
                        [t |-> "U32", d |-> <<\h01, \hEF, \hCD, \hAB>>]>>, "Constant")
  @@ \h1F82 :> Simple(FeatureFlags, "Constant")
  @@ \h1F93 :> Fields(<<U8(node_id), [t |-> "Boolean", d |-> <<0>>]>>, "ReadWrite")
  @@ \h1C14 :> Simple(U32(100000), "ReadWrite")
  @@ \h1F99 :> Simple(U32(5000000), "ReadWrite")
  @@ add_diagnostic_objects

new_mn_default(node_id) ==
     \h1F82 :> Simple(FeatureFlags, "Constant")
  @@ \h1F80 :> Simple(Zero, "ReadWrite")
  @@ \h1F81 :> PerNode(Zero)
  @@ \h1F89 :> Fields([k \in 1..9 |-> U32(IF k = 1 THEN 1000000 ELSE 500000)], "ReadWrite")
  @@ \h1F84 :> PerNode(Zero)
  @@ \h1F85 :> PerNode(Zero)
  @@ \h1F86 :> PerNode(Zero)
  @@ \h1F87 :> PerNode(Zero)
  @@ \h1F8D :> PerNode(U16(0))
  @@ \h1F92 :> PerNode(U32(100000))
  @@ new_cn_default(node_id)
=============================================================================
