---------------------------- MODULE MCProcessData ----------------------------
(* An image is an UNSIGNED8 and an UNSIGNED16; a container has 12 octets.     *)
(* Version 1.1 is the layout both sides start with, 1.2 adds an object at its *)
(* end, 2.1 swaps the image, and the rest are misconfigured: a mapping that   *)
(* is shorter or longer than the payload, a length that is not the object's.  *)
EXTENDS ProcessData

Var(v) == ObjectEntry("Variable", <<v>>, "ReadWrite", None)
Rec(vs) == ObjectEntry("Record", vs, "None", None)
Arr(vs) == ObjectEntry("Array", vs, "ReadWrite", None)

Place      == [at |-> 3, len |-> 12]
OutObjects == <<\h3001, \h3002>>
InObjects  == <<\h4001, \h4002>>
Straight(o, box) == <<Mapping(o[1], 0, 0, 8), Mapping(o[2], 0, 8, 16), Mapping(box, 0, 24, 96)>>
Swapped(o, box)  == <<Mapping(o[2], 0, 0, 16), Mapping(o[1], 0, 16, 8), Mapping(box, 0, 24, 96)>>
Layout(send, version, limit, entries) ==
  [send |-> send, version |-> version, limit |-> limit, entries |-> entries]
Sending(o, box) ==
  {Layout(TRUE, \h12, 16, Append(Straight(o, box), Mapping(o[1], 0, 120, 8))),
   Layout(TRUE, \h21, 15, Swapped(o, box)),
   Layout(TRUE, \h11, 1, <<Mapping(o[1], 0, 0, 8)>>),
   Layout(TRUE, \h11, 4, Straight(o, box))}
Expecting(o, box) ==
  {Layout(FALSE, \h12, 0, Append(Straight(o, box), Mapping(o[1], 0, 120, 8))),
   Layout(FALSE, \h21, 0, Swapped(o, box))}

Errors == \h1C80 :> Var(OctetString(<<0>>)) @@ \h1C81 :> Var(OctetString(<<0>>))
Images == \h3001 :> Var(U8(1)) @@ \h3002 :> Var(U16(1)) @@ \h4001 :> Var(U8(1)) @@ \h4002 :> Var(U16(1))
MCMnDictionary == Errors @@ Images
  @@ \h1800 :> Rec(<<U8(1), U8(\h11)>>) @@ \h1A00 :> Arr(Straight(OutObjects, \h1280))
  @@ \h1400 :> Rec(<<U8(1), U8(\h11)>>) @@ \h1600 :> Arr(Straight(InObjects, \h1280))
  @@ \h1F8B :> Arr(<<U16(15)>>)
MCCnDictionary == Errors @@ Images
  @@ \h1800 :> Rec(<<U8(0), U8(\h11)>>) @@ \h1A00 :> Arr(Straight(InObjects, \h1200))
  @@ \h1400 :> Rec(<<U8(0), U8(\h11)>>) @@ \h1600 :> Arr(Straight(OutObjects, \h1200))
  @@ \h1F98 :> Rec(<<U16(36), U16(36), U16(0), U16(0), U16(15)>>)
  @@ \h2001 :> Arr(<<U8(9), U8(9)>>)
MCMnLayouts == Sending(OutObjects, \h1280) \cup Expecting(InObjects, \h1280)
MCCnLayouts == Sending(InObjects, \h1200) \cup Expecting(OutObjects, \h1200)
               \cup {Layout(TRUE, \h11, 15, <<Mapping(\h4001, 0, 0, 8), Mapping(\h4002, 0, 8, 8)>>)}
=============================================================================
