-------------------------- MODULE ProcessDataProofs --------------------------
(* The exchange of process data and the embedded SDO channel, for every      *)
(* configuration that places the container alike at both ends.               *)
EXTENDS ProcessData, ObjectDictionaryProofs, Induction

(***************************************************************************)
(* Octets and the command of a container.                                  *)
(***************************************************************************)

LEMMA Powers == /\ 2^0 = 1 /\ 2^1 = 2 /\ 2^2 = 4 /\ 2^3 = 8
                /\ 2^4 = 16 /\ 2^5 = 32 /\ 2^6 = 64 /\ 2^7 = 128
BY SMT

LEMMA ByteTyped == ASSUME NEW bits PROVE Byte(bits) \in UNSIGNED8
BY Powers DEF Byte, UNSIGNED8

LEMMA LeWord ==
  ASSUME NEW n \in Nat PROVE Le(n, 2) \in Seq(UNSIGNED8) /\ Len(Le(n, 2)) = 2
BY LeBytes

LEMMA Word == ASSUME NEW n \in Nat PROVE U16(n) \in ObjectValue
<1>1. Le(n, 2) \in Seq(UNSIGNED8) /\ Len(Le(n, 2)) = 2
  BY LeWord
<1> QED BY <1>1 DEF U16, ObjectValue, ObjectType, Width

LEMMA ZerosTyped ==
  ASSUME NEW n \in Nat
  PROVE  /\ Zeros(n) \in Seq(UNSIGNED8) /\ Len(Zeros(n)) = n
         /\ \A k \in 1..n : Zeros(n)[k] = 0
<1>1. 0 \in UNSIGNED8
  BY DEF UNSIGNED8
<1>2. Zeros(n) \in [1..n -> UNSIGNED8]
  BY <1>1 DEF Zeros
<1>3. Zeros(n) \in Seq(UNSIGNED8) /\ DOMAIN Zeros(n) = 1..n
  BY <1>2
<1> QED BY <1>3 DEF Zeros

\* The commands the two ends make: reads, writes and aborts.
IsCommand(c) ==
  /\ c.seq \in Nat /\ c.seq < 64 /\ c.con \in Nat /\ c.con < 4 /\ c.tid \in UNSIGNED8
  /\ c.resp \in BOOLEAN /\ c.abrt \in BOOLEAN /\ c.seg = "Expedited"
  /\ c.id \in {"Nil", "WriteByIndex", "ReadByIndex"}
  /\ c.index \in UNSIGNED16 /\ c.sub \in UNSIGNED8 /\ c.data \in Seq(UNSIGNED8)

\* A sequence of n octets.
Octet(s, n) == s \in Seq(UNSIGNED8) /\ Len(s) = n

LEMMA OctetIs == ASSUME NEW s \in Seq(UNSIGNED8) PROVE Octet(s, Len(s))
BY DEF Octet

\* What a concatenation has where.
Join(a, b) == a \o b
LEMMA Joined ==
  ASSUME NEW m \in Nat, NEW n \in Nat, NEW a, NEW b, Octet(a, m), Octet(b, n)
  PROVE  /\ Octet(Join(a, b), m + n)
         /\ \A k \in 1..m : Join(a, b)[k] = a[k]
         /\ \A k \in 1..n : Join(a, b)[m + k] = b[k]
BY DEF Join, Octet

LEMMA FiveOctets ==
  ASSUME NEW a \in UNSIGNED8, NEW b \in UNSIGNED8, NEW c \in UNSIGNED8, NEW d \in UNSIGNED8,
         NEW e \in UNSIGNED8
  PROVE  LET h == <<a, b, c, d, e>> IN Octet(h, 5) /\ h[1] = a /\ h[3] = c /\ h[4] = d /\ h[5] = e
BY DEF Octet

LEMMA OneOctet ==
  ASSUME NEW a \in UNSIGNED8 PROVE Octet(<<a>>, 1) /\ <<a>>[1] = a
BY DEF Octet

\* Five octets, two, one, and the data.
Packed(h, x, t, d) == h \o x \o t \o d
LEMMA HeaderJoined ==
  ASSUME NEW h, Octet(h, 5), NEW x, Octet(x, 2), NEW t, Octet(t, 1), NEW d, NEW n \in Nat, Octet(d, n)
  PROVE  LET w == Packed(h, x, t, d)
         IN /\ Octet(w, 8 + n)
            /\ w[1] = h[1] /\ w[3] = h[3] /\ w[4] = h[4] /\ w[5] = h[5]
            /\ w[6] = x[1] /\ w[7] = x[2] /\ w[8] = t[1]
<1> DEFINE y == Join(h, x)
           z == Join(y, t)
           w == Join(z, d)
<1>1. /\ Octet(y, 7)
      /\ \A k \in 1..5 : y[k] = h[k]
      /\ \A k \in 1..2 : y[5 + k] = x[k]
  BY Joined
<1>2. y[6] = x[1] /\ y[7] = x[2]
  BY <1>1
<1> HIDE DEF y
<1>3. /\ Octet(z, 8)
      /\ \A k \in 1..7 : z[k] = y[k]
      /\ \A k \in 1..1 : z[7 + k] = t[k]
  BY <1>1, Joined
<1>4. z[8] = t[1]
  BY <1>3
<1> HIDE DEF z
<1>5. Octet(w, 8 + n) /\ \A k \in 1..8 : w[k] = z[k]
  BY <1>3, Joined
<1>6. Packed(h, x, t, d) = w
  BY DEF Packed, y, z, Join
<1> HIDE DEF w
<1>7. w[1] = z[1] /\ w[3] = z[3] /\ w[4] = z[4] /\ w[5] = z[5] /\ w[6] = z[6] /\ w[7] = z[7] /\ w[8] = z[8]
  BY <1>5
<1>8. z[1] = y[1] /\ z[3] = y[3] /\ z[4] = y[4] /\ z[5] = y[5] /\ z[6] = y[6] /\ z[7] = y[7]
  BY <1>3
<1>9. y[1] = h[1] /\ y[3] = h[3] /\ y[4] = h[4] /\ y[5] = h[5]
  BY <1>1
<1> QED BY <1>2, <1>4, <1>5, <1>6, <1>7, <1>8, <1>9

LEMMA FirstOctet ==
  ASSUME NEW s \in Nat, s < 64, NEW n \in Nat, n < 4
  PROVE  /\ 4 * (s % 64) + n = 4 * s + n /\ 4 * s + n \in UNSIGNED8
         /\ (4 * s + n) \div 4 = s
BY DEF UNSIGNED8

LEMMA LastOctet == ASSUME NEW n \in Nat PROVE n % 256 \in UNSIGNED8
BY DEF UNSIGNED8

LEMMA ExpeditedCode == CodeOf(Segmentation, "Expedited") = 0
<1>2. Segmentation[1] = "Expedited" /\ \A k \in 1..4 : k # 1 => Segmentation[k] # "Expedited"
  BY DEF Segmentation
<1>3. DOMAIN Segmentation = 1..4
  BY DEF Segmentation
<1>4. (CHOOSE k \in 1..4 : Segmentation[k] = "Expedited") = 1
  BY <1>2
<1> QED BY <1>3, <1>4 DEF CodeOf

LEMMA FlagsCode ==
  ASSUME NEW c, IsCommand(c)
  PROVE  /\ FlagsOf(c) \in UNSIGNED8
         /\ 4 \in Bits(FlagsOf(c)) <=> c.resp
         /\ 5 \in Bits(FlagsOf(c)) <=> c.abrt
<1>1. FlagsOf(c) = (IF c.resp THEN 16 ELSE 0) + (IF c.abrt THEN 32 ELSE 0)
  BY ExpeditedCode DEF FlagsOf, IsCommand
<1>2. FlagsOf(c) \in {0, 16, 32, 48}
  BY <1>1
<1>3. 4 \in Bits(FlagsOf(c)) <=> (FlagsOf(c) \div 16) % 2 = 1
  BY Powers DEF Bits
<1>4. 5 \in Bits(FlagsOf(c)) <=> (FlagsOf(c) \div 32) % 2 = 1
  BY Powers DEF Bits
<1>5. FlagsOf(c) \in UNSIGNED8
  BY <1>2 DEF UNSIGNED8
<1>6. c.resp \in BOOLEAN /\ c.abrt \in BOOLEAN
  BY DEF IsCommand
<1>7. CASE c.resp /\ c.abrt
  <2>1. FlagsOf(c) = 48
    BY <1>1, <1>7
  <2> QED BY <1>3, <1>4, <1>5, <1>7, <2>1
<1>8. CASE c.resp /\ ~c.abrt
  <2>1. FlagsOf(c) = 16
    BY <1>1, <1>8
  <2> QED BY <1>3, <1>4, <1>5, <1>8, <2>1
<1>9. CASE ~c.resp /\ c.abrt
  <2>1. FlagsOf(c) = 32
    BY <1>1, <1>9
  <2> QED BY <1>3, <1>4, <1>5, <1>9, <2>1
<1>10. CASE ~c.resp /\ ~c.abrt
  <2>1. FlagsOf(c) = 0
    BY <1>1, <1>10
  <2> QED BY <1>3, <1>4, <1>5, <1>10, <2>1
<1> QED BY <1>6, <1>7, <1>8, <1>9, <1>10

\* The codes of the three commands, and that no other command has them.
LEMMA Codes ==
  /\ {"Nil", "WriteByIndex", "ReadByIndex"} \subseteq DOMAIN CommandId
  /\ CommandId["Nil"] = 0 /\ CommandId["WriteByIndex"] = 1 /\ CommandId["ReadByIndex"] = 2
  /\ CommandWithCode(0) = {"Nil"} /\ CommandWithCode(1) = {"WriteByIndex"}
  /\ CommandWithCode(2) = {"ReadByIndex"}
BY DEF CommandId, CommandWithCode

\* The eight octets of the header.
LEMMA Serialized ==
  ASSUME NEW c, IsCommand(c)
  PROVE  LET b == serialize_pdo_sdo(c)
         IN /\ Octet(b, 8 + Len(c.data))
            /\ b[1] = 4 * c.seq + c.con /\ b[3] = FlagsOf(c) /\ b[5] = CommandId[c.id]
            /\ b[6] = c.index % 256 /\ b[7] = c.index \div 256 /\ b[8] = c.sub
            /\ b[4] = Len(c.data) % 256
<1> DEFINE n == Len(c.data)
           h == <<4 * (c.seq % 64) + c.con, c.tid, FlagsOf(c), n % 256, CommandId[c.id]>>
           x == Le(c.index, 2)
           t == <<c.sub>>
<1>1. 4 * (c.seq % 64) + c.con = 4 * c.seq + c.con /\ 4 * c.seq + c.con \in UNSIGNED8
  BY FirstOctet DEF IsCommand
<1>2. c.tid \in UNSIGNED8 /\ FlagsOf(c) \in UNSIGNED8 /\ c.sub \in UNSIGNED8
  BY FlagsCode DEF IsCommand
<1>3. n \in Nat /\ n % 256 \in UNSIGNED8 /\ Octet(c.data, n)
  <2>1. c.data \in Seq(UNSIGNED8)
    BY DEF IsCommand
  <2>2. n \in Nat
    BY <2>1
  <2>3. Octet(c.data, n)
    BY <2>1, OctetIs
  <2> HIDE DEF n
  <2> QED BY <2>2, <2>3, LastOctet
<1>4. CommandId[c.id] \in UNSIGNED8
  <2>1. 0 \in UNSIGNED8 /\ 1 \in UNSIGNED8 /\ 2 \in UNSIGNED8
    BY DEF UNSIGNED8
  <2>2. c.id \in {"Nil", "WriteByIndex", "ReadByIndex"}
    BY DEF IsCommand
  <2> QED BY <2>1, <2>2, Codes
<1>5. /\ Octet(h, 5) /\ h[1] = 4 * c.seq + c.con /\ h[3] = FlagsOf(c) /\ h[4] = n % 256
      /\ h[5] = CommandId[c.id]
  <2> HIDE DEF n
  <2>1. 4 * (c.seq % 64) + c.con \in UNSIGNED8
    BY <1>1
  <2> QED BY <1>1, <1>2, <1>3, <1>4, <2>1, FiveOctets
<1>6. c.index \in Nat /\ c.index <= 65535
  BY WordRange DEF IsCommand
<1>7. Octet(x, 2)
  BY <1>6, LeWord DEF Octet
<1>8. x[1] = c.index % 256 /\ x[2] = c.index \div 256
  BY <1>6 DEF Le, Weight
<1>9. Octet(t, 1) /\ t[1] = c.sub
  BY <1>2, OneOctet
<1>10. serialize_pdo_sdo(c) = Packed(h, x, t, c.data)
  BY DEF serialize_pdo_sdo, Packed
<1> HIDE DEF h, x, t, n
<1> DEFINE w == Packed(h, x, t, c.data)
<1>11. /\ Octet(w, 8 + n)
       /\ w[1] = h[1] /\ w[3] = h[3] /\ w[4] = h[4] /\ w[5] = h[5]
       /\ w[6] = x[1] /\ w[7] = x[2] /\ w[8] = t[1]
  BY <1>3, <1>5, <1>7, <1>9, HeaderJoined
<1> HIDE DEF w
<1>12. serialize_pdo_sdo(c) = w
  BY <1>10 DEF w
<1> QED BY <1>5, <1>8, <1>9, <1>11, <1>12 DEF n

\* What the decoder makes of a container it accepts.
IsDecoded(c, p) ==
  /\ Len(p) >= 8
  /\ c.seq \in Nat /\ c.seq < 64 /\ c.seq = p[1] \div 4
  /\ c.tid \in UNSIGNED8
  /\ c.resp \in BOOLEAN /\ (c.resp <=> 4 \in Bits(p[3]))
  /\ c.abrt \in BOOLEAN /\ (c.abrt <=> 5 \in Bits(p[3]))
  /\ c.id \in CommandWithCode(p[5])
  /\ c.index \in UNSIGNED16 /\ c.index = p[6] + 256 * p[7]
  /\ c.sub \in UNSIGNED8 /\ c.sub = p[8]
  /\ c.data \in Seq(UNSIGNED8) /\ Len(c.data) = p[4]

\* A part of a sequence of octets.
Part(p, m, n) == SubSeq(p, m, n)
LEMMA PartOf ==
  ASSUME NEW p \in Seq(UNSIGNED8), NEW m \in Nat, NEW n \in Nat, 1 <= m, m <= n + 1, n <= Len(p)
  PROVE  /\ Octet(Part(p, m, n), n - m + 1)
         /\ \A k \in 1..(n - m + 1) : Part(p, m, n)[k] = p[m + k - 1]
BY DEF Part, Octet

LEMMA NumTwo == ASSUME NEW q, Octet(q, 2) PROVE Num(q) = q[1] + 256 * q[2]
<1>1. q[1] \in UNSIGNED8 /\ q[2] \in UNSIGNED8 /\ Len(q) = 2
  BY DEF Octet
<1>2. q[1] \in Nat /\ q[2] \in Nat
  BY <1>1 DEF UNSIGNED8
<1> QED BY <1>1, <1>2 DEF Num, Weight

LEMMA WordOf == ASSUME NEW a \in UNSIGNED8, NEW b \in UNSIGNED8 PROVE a + 256 * b \in UNSIGNED16
<1>1. a \in Nat /\ b \in Nat /\ a <= 255 /\ b <= 255
  BY DEF UNSIGNED8
<1>2. 256 * b \in Nat /\ 256 * b <= 65280
  BY <1>1, SMTT(30)
<1> DEFINE c == 256 * b
<1> DEFINE w == a + c
<1>3. c \in Nat /\ c <= 65280
  BY <1>2
<1> HIDE DEF c
<1>4. w \in Nat /\ w <= 65535
  BY <1>1, <1>3
<1> HIDE DEF w
<1> DEFINE m == 65535
<1>5. UNSIGNED16 = 0..m /\ m \in Nat
  BY SMT DEF UNSIGNED16
<1>6. w <= m
  BY <1>4, SMT
<1> HIDE DEF m
<1>7. w \in UNSIGNED16
  BY <1>4, <1>5, <1>6, SMT
<1> QED BY <1>7 DEF w, c

LEMMA TwoOctets ==
  ASSUME NEW p \in Seq(UNSIGNED8), Len(p) >= 8
  PROVE  Num(SubSeq(p, 6, 7)) = p[6] + 256 * p[7] /\ p[6] + 256 * p[7] \in UNSIGNED16
<1>1. p[6] \in UNSIGNED8 /\ p[7] \in UNSIGNED8
  OBVIOUS
<1> DEFINE q == Part(p, 6, 7)
<1>3. Octet(q, 7 - 6 + 1) /\ \A k \in 1..(7 - 6 + 1) : q[k] = p[6 + k - 1]
  BY PartOf
<1> HIDE DEF q
<1>4. Octet(q, 2) /\ q[1] = p[6] /\ q[2] = p[7]
  BY <1>3
<1>5. Num(q) = p[6] + 256 * p[7]
  BY <1>4, NumTwo
<1>6. p[6] + 256 * p[7] \in UNSIGNED16
  BY <1>1, WordOf
<1> QED BY <1>5, <1>6 DEF q, Part

LEMMA FirstOctetBack ==
  ASSUME NEW b \in UNSIGNED8 PROVE b \div 4 \in Nat /\ b \div 4 < 64
BY DEF UNSIGNED8

LEMMA Decoded ==
  ASSUME NEW p \in Seq(UNSIGNED8), deserialize_pdo_sdo(p).err = "Ok"
  PROVE  IsDecoded(deserialize_pdo_sdo(p).val, p)
<1> DEFINE d == CommandPayload(p, 9, p[4])
           v == [seq |-> p[1] \div 4, con |-> p[1] % 4, tid |-> p[2],
                 resp |-> 4 \in Bits(p[3]), abrt |-> 5 \in Bits(p[3]),
                 seg |-> Segmentation[(p[3] \div 64) + 1],
                 id |-> CHOOSE c \in CommandWithCode(p[5]) : TRUE,
                 index |-> Num(SubSeq(p, 6, 7)), sub |-> p[8], data |-> d.val]
<1>1. Bad("BufferTooShort").err # "Ok" /\ Bad("InvalidEnumValue").err # "Ok"
  BY DEF Bad
<1>2. deserialize_pdo_sdo(p) = IF Len(p) < 8 THEN Bad("BufferTooShort")
                               ELSE IF CommandWithCode(p[5]) = {} THEN Bad("InvalidEnumValue")
                               ELSE IF d.err # "Ok" THEN d ELSE Good(v)
  BY DEF deserialize_pdo_sdo
<1> HIDE DEF v, d
<1>3. ~(Len(p) < 8)
  BY <1>1, <1>2
<1>4. CommandWithCode(p[5]) # {}
  BY <1>1, <1>2
<1>5. d.err = "Ok"
  BY <1>2, <1>3, <1>4
<1>6. deserialize_pdo_sdo(p) = Good(v)
  BY <1>2, <1>3, <1>4, <1>5
<1>7. deserialize_pdo_sdo(p).val = v
  BY <1>6 DEF Good
<1>8. Len(p) \in Nat /\ Len(p) >= 8
  BY <1>3
<1>9. p[1] \in UNSIGNED8 /\ p[2] \in UNSIGNED8 /\ p[4] \in UNSIGNED8 /\ p[8] \in UNSIGNED8
  BY <1>8
<1>10. d.val \in Seq(UNSIGNED8) /\ Len(d.val) = p[4]
  <2>1. d = IF Len(p) < 9 + p[4] - 1 THEN Bad("BufferTooShort") ELSE Good(SubSeq(p, 9, 9 + p[4] - 1))
    BY DEF d, CommandPayload
  <2>2. d = Good(SubSeq(p, 9, 9 + p[4] - 1))
    BY <1>1, <1>5, <2>1
  <2>3. p[4] \in Nat
    BY <1>9, ByteRange
  <2>4. ~(Len(p) < 9 + p[4] - 1)
    BY <1>1, <1>5, <2>1
  <2>5. SubSeq(p, 9, 9 + p[4] - 1) \in Seq(UNSIGNED8) /\ Len(SubSeq(p, 9, 9 + p[4] - 1)) = p[4]
    <3>1. Octet(Part(p, 9, 9 + p[4] - 1), 9 + p[4] - 1 - 9 + 1)
      BY <2>3, <2>4, <1>8, PartOf
    <3> QED BY <2>3, <3>1 DEF Octet, Part
  <2> QED BY <2>2, <2>5 DEF Good
<1>11. v.id \in CommandWithCode(p[5])
  BY <1>4 DEF v
<1>12. v.seq = p[1] \div 4 /\ v.tid = p[2] /\ v.index = Num(SubSeq(p, 6, 7)) /\ v.sub = p[8]
       /\ v.data = d.val
  BY DEF v
<1>13. v.resp \in BOOLEAN /\ (v.resp <=> 4 \in Bits(p[3]))
  <2> DEFINE t == 4 \in Bits(p[3])
  <2>1. t \in BOOLEAN
    OBVIOUS
  <2>2. v.resp = t
    BY DEF v
  <2> HIDE DEF t
  <2>3. v.resp \in BOOLEAN /\ (v.resp <=> t)
    BY <2>1, <2>2
  <2> QED BY <2>3 DEF t
<1>14. v.abrt \in BOOLEAN /\ (v.abrt <=> 5 \in Bits(p[3]))
  <2> DEFINE t == 5 \in Bits(p[3])
  <2>1. t \in BOOLEAN
    OBVIOUS
  <2>2. v.abrt = t
    BY DEF v
  <2> HIDE DEF t
  <2>3. v.abrt \in BOOLEAN /\ (v.abrt <=> t)
    BY <2>1, <2>2
  <2> QED BY <2>3 DEF t
<1>15. v.seq \in Nat /\ v.seq < 64
  BY <1>9, <1>12, FirstOctetBack
<1>16. v.index = p[6] + 256 * p[7] /\ v.index \in UNSIGNED16
  BY <1>8, <1>12, TwoOctets
<1>17. v.tid \in UNSIGNED8 /\ v.sub \in UNSIGNED8 /\ v.data \in Seq(UNSIGNED8) /\ Len(v.data) = p[4]
  BY <1>9, <1>10, <1>12
<1>18. IsDecoded(v, p)
  BY <1>8, <1>11, <1>12, <1>13, <1>14, <1>15, <1>16, <1>17, Zenon DEF IsDecoded
<1> QED BY <1>7, <1>18

\* A container that begins with the header of a command decodes to it.
SameCommand(d, c) == /\ d.seq = c.seq /\ d.resp = c.resp /\ d.abrt = c.abrt /\ d.id = c.id
                     /\ d.index = c.index /\ d.sub = c.sub /\ Len(d.data) = Len(c.data) % 256
LEMMA DecodesTo ==
  ASSUME NEW p, NEW c, IsCommand(c), NEW d, IsDecoded(d, p),
         \A k \in 1..8 : p[k] = serialize_pdo_sdo(c)[k]
  PROVE  SameCommand(d, c)
<1> DEFINE b == serialize_pdo_sdo(c)
<1>1. /\ b[1] = 4 * c.seq + c.con /\ b[3] = FlagsOf(c) /\ b[5] = CommandId[c.id]
      /\ b[6] = c.index % 256 /\ b[7] = c.index \div 256 /\ b[8] = c.sub
      /\ b[4] = Len(c.data) % 256
  BY Serialized
<1>2. p[1] = b[1] /\ p[3] = b[3] /\ p[4] = b[4] /\ p[5] = b[5] /\ p[6] = b[6] /\ p[7] = b[7] /\ p[8] = b[8]
  OBVIOUS
<1> HIDE DEF b
<1>3. d.seq = c.seq
  <2>1. (4 * c.seq + c.con) \div 4 = c.seq
    BY FirstOctet DEF IsCommand
  <2>2. d.seq = p[1] \div 4
    BY DEF IsDecoded
  <2> QED BY <1>1, <1>2, <2>1, <2>2
<1>4. d.resp = c.resp /\ d.abrt = c.abrt
  <2>1. d.resp \in BOOLEAN /\ d.abrt \in BOOLEAN /\ c.resp \in BOOLEAN /\ c.abrt \in BOOLEAN
    BY DEF IsDecoded, IsCommand
  <2>2. p[3] = FlagsOf(c)
    BY <1>1, <1>2
  <2>3. (d.resp <=> 4 \in Bits(FlagsOf(c))) /\ (d.abrt <=> 5 \in Bits(FlagsOf(c)))
    BY <2>2 DEF IsDecoded
  <2>4. (d.resp <=> c.resp) /\ (d.abrt <=> c.abrt)
    BY <2>3, FlagsCode
  <2> QED BY <2>1, <2>4
<1>5. d.id = c.id
  <2>1. c.id \in {"Nil", "WriteByIndex", "ReadByIndex"}
    BY DEF IsCommand
  <2>2. d.id \in CommandWithCode(CommandId[c.id])
    BY <1>1, <1>2 DEF IsDecoded
  <2>3. CASE c.id = "Nil"
    BY <2>2, <2>3, Codes
  <2>4. CASE c.id = "WriteByIndex"
    BY <2>2, <2>4, Codes
  <2>5. CASE c.id = "ReadByIndex"
    BY <2>2, <2>5, Codes
  <2> QED BY <2>1, <2>3, <2>4, <2>5
<1>6. d.index = c.index
  <2>1. c.index \in Nat
    BY WordRange DEF IsCommand
  <2>2. d.index = (c.index % 256) + 256 * (c.index \div 256)
    BY <1>1, <1>2 DEF IsDecoded
  <2> QED BY <2>1, <2>2
<1>7. d.sub = c.sub /\ Len(d.data) = Len(c.data) % 256
  BY <1>1, <1>2 DEF IsDecoded
<1> QED BY <1>3, <1>4, <1>5, <1>6, <1>7 DEF SameCommand

\* A container of zeros is no response and no read or write.
LEMMA DecodesToNil ==
  ASSUME NEW p, NEW d, IsDecoded(d, p), \A k \in 1..8 : p[k] = 0
  PROVE  d.id = "Nil" /\ d.resp = FALSE /\ d.abrt = FALSE /\ d.seq = 0
<1>1. p[1] = 0 /\ p[3] = 0 /\ p[5] = 0
  OBVIOUS
<1>2. d.id = "Nil"
  BY <1>1, Codes DEF IsDecoded
<1>3. ~(4 \in Bits(0)) /\ ~(5 \in Bits(0))
  BY Powers DEF Bits
<1>4. d.resp \in BOOLEAN /\ (d.resp <=> 4 \in Bits(p[3])) /\ d.abrt \in BOOLEAN
      /\ (d.abrt <=> 5 \in Bits(p[3])) /\ d.seq = p[1] \div 4
  BY DEF IsDecoded
<1>5. d.resp = FALSE /\ d.abrt = FALSE
  BY <1>1, <1>3, <1>4, Zenon
<1>6. d.seq = 0
  <2>1. 0 \div 4 = 0
    OBVIOUS
  <2> QED BY <1>1, <1>4, <2>1, Zenon
<1> QED BY <1>2, <1>5, <1>6

(***************************************************************************)
(* The numbers of the channel, modulo EmbSeqs.                             *)
(***************************************************************************)

LEMMA Numbers == EmbSeqs \in Nat /\ 2 <= EmbSeqs /\ EmbSeqs <= 64
BY EmbSeqsAssumption

LEMMA Remainder ==
  ASSUME NEW e \in Nat \ {0}, NEW q \in Int, NEW r \in Nat, r < e
  PROVE  (e * q + r) % e = r
BY Z3

LEMMA Division ==
  ASSUME NEW e \in Nat \ {0}, NEW n \in Nat
  PROVE  /\ n \div e \in Nat /\ n % e \in Nat /\ n % e < e /\ n = e * (n \div e) + (n % e)
<1> DEFINE q == n \div e
           r == n - e * q
<1>1. q \in Nat /\ e * q \in Nat /\ e * q <= n /\ n < e * q + e
  BY SMT
<1> HIDE DEF q
<1>2. r \in Nat /\ r < e /\ n = e * q + r
  BY <1>1
<1> HIDE DEF r
<1>3. (e * q + r) % e = r
  BY <1>1, <1>2, Remainder
<1> DEFINE m == n % e
<1>4. m = r
  BY <1>2, <1>3
<1> HIDE DEF m
<1>5. n = e * q + m
  BY <1>2, <1>4
<1>6. m \in Nat /\ m < e
  BY <1>2, <1>4
<1>7. q \in Nat /\ m \in Nat /\ m < e /\ n = e * q + m
  BY <1>1, <1>5, <1>6
<1> QED BY ONLY <1>7 DEF q, m

LEMMA Multiple ==
  ASSUME NEW e \in Nat \ {0}, NEW x \in Nat, NEW y \in Nat, x < y PROVE e * x + e <= e * y
BY Z3

LEMMA NextNumber ==
  ASSUME NEW n \in Nat
  PROVE  /\ n % EmbSeqs \in Nat /\ n % EmbSeqs < EmbSeqs
         /\ ((n % EmbSeqs) + 1) % EmbSeqs = (n + 1) % EmbSeqs
<1> DEFINE e == EmbSeqs
           q == n \div e
           r == n % e
<1>1. e \in Nat \ {0}
  BY Numbers
<1>2. q \in Nat /\ r \in Nat /\ r < e /\ n = e * q + r
  BY <1>1, Division
<1> HIDE DEF e, q, r
<1>3. CASE r + 1 < e
  <2>1. n + 1 = e * q + (r + 1)
    BY <1>1, <1>2
  <2>2. (r + 1) % e = r + 1
    BY <1>1, <1>2, <1>3
  <2>3. (n + 1) % e = r + 1
    BY <1>1, <1>2, <1>3, <2>1, Remainder
  <2> QED BY <1>2, <2>2, <2>3 DEF r, e
<1>4. CASE r + 1 = e
  <2>1. n + 1 = e * (q + 1) + 0
    BY <1>1, <1>2, <1>4
  <2>2. (r + 1) % e = 0
    BY <1>1, <1>4
  <2>3. (n + 1) % e = 0
    BY <1>1, <1>2, <2>1, Remainder
  <2> QED BY <1>2, <2>2, <2>3 DEF r, e
<1> QED BY <1>1, <1>2, <1>3, <1>4

LEMMA PreviousNumber ==
  ASSUME NEW n \in Nat
  PROVE  (((n + 1) % EmbSeqs) - 1) % EmbSeqs = n % EmbSeqs
<1> DEFINE e == EmbSeqs
           r == n % e
<1>1. e \in Nat \ {0} /\ e >= 2
  BY Numbers
<1>2. r \in Nat /\ r < e /\ (r + 1) % e = (n + 1) % e
  BY NextNumber
<1> HIDE DEF e, r
<1>3. CASE r + 1 < e
  <2>1. (r + 1) % e = r + 1 /\ r % e = r
    BY <1>1, <1>2, <1>3
  <2> QED BY <1>2, <2>1 DEF r, e
<1>4. CASE r + 1 = e
  <2>1. (r + 1) % e = 0
    BY <1>1, <1>4
  <2>2. 0 - 1 = e * (-1) + r
    BY <1>1, <1>2, <1>4
  <2>3. (0 - 1) % e = r
    BY <1>1, <1>2, <2>2, Remainder
  <2> QED BY <1>2, <2>1, <2>3 DEF r, e
<1> QED BY <1>1, <1>2, <1>3, <1>4

\* A number does not follow itself.
LEMMA NumberMoves ==
  ASSUME NEW s \in Nat, s < EmbSeqs PROVE (s + 1) % EmbSeqs # s
<1> DEFINE e == EmbSeqs
<1>1. e \in Nat \ {0} /\ e >= 2
  BY Numbers
<1> HIDE DEF e
<1>2. s < e
  BY DEF e
<1>3. CASE s + 1 < e
  <2>1. (s + 1) % e = s + 1
    BY <1>1, <1>3
  <2> QED BY <2>1 DEF e
<1>4. CASE s + 1 = e
  <2>1. (s + 1) % e = 0
    BY <1>1, <1>4
  <2> QED BY <2>1, <1>1, <1>4 DEF e
<1> QED BY <1>1, <1>2, <1>3, <1>4

\* Requests with the same number are EmbSeqs or more apart.
LEMMA SameNumber ==
  ASSUME NEW a \in Nat, NEW b \in Nat, a < b, a % EmbSeqs = b % EmbSeqs
  PROVE  a + EmbSeqs <= b
<1> DEFINE e == EmbSeqs
           x == a \div e
           y == b \div e
           r == a % e
<1>1. e \in Nat \ {0}
  BY Numbers
<1>2. x \in Nat /\ r \in Nat /\ r < e /\ a = e * x + r
  BY <1>1, Division
<1>3. y \in Nat /\ b = e * y + r
  BY <1>1, Division
<1> HIDE DEF e, x, y, r
<1>4. x < y
  <2>1. ~(y = x)
    BY <1>2, <1>3
  <2>2. ~(y < x)
    <3>1. SUFFICES ASSUME y < x PROVE FALSE
      OBVIOUS
    <3>2. e * y + e <= e * x
      BY <1>1, <1>2, <1>3, <3>1, Multiple
    <3>3. e * y \in Nat /\ e * x \in Nat
      BY <1>1, <1>2, <1>3
    <3> QED BY <1>1, <1>2, <1>3, <3>2, <3>3
  <2> QED BY <1>2, <1>3, <2>1, <2>2
<1>5. e * x + e <= e * y
  BY <1>1, <1>2, <1>3, <1>4, Multiple
<1>6. e * y \in Nat /\ e * x \in Nat
  BY <1>1, <1>2, <1>3
<1> QED BY <1>1, <1>2, <1>3, <1>5, <1>6 DEF e

(***************************************************************************)
(* The dictionary.                                                         *)
(***************************************************************************)

\* The mappings stay, and so does the kind of every object.
IsPdoMapping(i) == IsTpdoMapping(i) \/ IsRpdoMapping(i)
KeepsMappings(o, p) ==
  /\ IsDictionary(p) /\ DOMAIN p = DOMAIN o
  /\ \A j \in DOMAIN o : p[j].obj = o[j].obj /\ (IsPdoMapping(j) => p[j] = o[j])

LEMMA KeepsMappingsSame == ASSUME NEW o, IsDictionary(o) PROVE KeepsMappings(o, o)
BY DEF KeepsMappings

LEMMA KeepsMappingsOn ==
  ASSUME NEW o, NEW p, NEW q, KeepsMappings(o, p), KeepsMappings(p, q) PROVE KeepsMappings(o, q)
<1>1. IsDictionary(q) /\ DOMAIN q = DOMAIN o
  BY DEF KeepsMappings
<1>2. ASSUME NEW j \in DOMAIN o PROVE q[j].obj = o[j].obj /\ (IsPdoMapping(j) => q[j] = o[j])
  <2>1. p[j].obj = o[j].obj /\ (IsPdoMapping(j) => p[j] = o[j])
    BY DEF KeepsMappings
  <2>2. q[j].obj = p[j].obj /\ (IsPdoMapping(j) => q[j] = p[j])
    BY DEF KeepsMappings
  <2> QED BY <2>1, <2>2
<1> QED BY <1>1, <1>2 DEF KeepsMappings

LEMMA StoreKeepsMappings ==
  ASSUME NEW o, IsDictionary(o), NEW i \in DOMAIN o, ~IsPdoMapping(i), NEW k, NEW v \in ObjectValue
  PROVE  KeepsMappings(o, [o EXCEPT ![i].vals[k] = v])
<1> DEFINE p == [o EXCEPT ![i].vals[k] = v]
<1>1. o = [j \in DOMAIN o |-> o[j]] /\ o[i] \in ObjectEntries
  BY DEF IsDictionary
<1>2. DOMAIN p = DOMAIN o /\ \A j \in DOMAIN o : j # i => p[j] = o[j]
  BY <1>1
<1>3. p[i] = [o[i] EXCEPT !.vals[k] = v]
  BY <1>1
<1>4. p[i].obj = o[i].obj
  BY <1>1, <1>3 DEF ObjectEntries
<1>5. IsDictionary(p)
  <2>1. CASE k \in DOMAIN o[i].vals
    BY <2>1, SetValue
  <2>2. CASE k \notin DOMAIN o[i].vals
    <3>1. o[i].vals \in Seq(ObjectValue)
      BY <1>1 DEF ObjectEntries
    <3>2. [o[i].vals EXCEPT ![k] = v] = o[i].vals
      BY <2>2, <3>1
    <3>3. p[i] = o[i]
      BY <1>1, <1>3, <3>2 DEF ObjectEntries
    <3>4. p = o
      BY <1>1, <1>2, <3>3
    <3> QED BY <3>4
  <2> QED BY <2>1, <2>2
<1> HIDE DEF p
<1>6. \A j \in DOMAIN o : p[j].obj = o[j].obj /\ (IsPdoMapping(j) => p[j] = o[j])
  BY <1>2, <1>4
<1> QED BY <1>2, <1>5, <1>6 DEF KeepsMappings, p

LEMMA WriteKeepsMappings ==
  ASSUME NEW o, IsDictionary(o), NEW i, ~IsPdoMapping(i), NEW s \in UNSIGNED8,
         NEW v \in ObjectValue, NEW check \in BOOLEAN
  PROVE  KeepsMappings(o, write_internal(o, i, s, v, check).od)
<1> DEFINE p == write_internal(o, i, s, v, check).od
<1>1. p = o \/ StoresOne(o, p, i, s, v, check)
  BY WriteInternal
<1> HIDE DEF p
<1>2. CASE p = o
  BY <1>2, KeepsMappingsSame DEF p
<1>3. CASE StoresOne(o, p, i, s, v, check)
  <2>1. PICK k : i \in DOMAIN o /\ k \in DOMAIN o[i].vals /\ p = [o EXCEPT ![i].vals[k] = v]
    BY <1>3 DEF StoresOne
  <2> QED BY <2>1, StoreKeepsMappings DEF p
<1> QED BY <1>1, <1>2, <1>3

\* An entry of a mapping.
LEMMA NumOne == ASSUME NEW q, Octet(q, 1) PROVE Num(q) \in UNSIGNED8
<1>1. q[1] \in UNSIGNED8 /\ Len(q) = 1
  BY DEF Octet
<1>2. q[1] \in Nat
  BY <1>1 DEF UNSIGNED8
<1>3. Num(q) = q[1]
  BY <1>1, <1>2 DEF Num, Weight
<1> QED BY <1>1, <1>3

IsEntry(e) == e.index \in Nat /\ e.sub \in UNSIGNED8 /\ e.offset \in Nat /\ e.length \in Nat

LEMMA EntryTyped ==
  ASSUME NEW v \in ObjectValue, v.t = "U64" PROVE IsEntry(from_u64(v))
<1>1. "U64" \in DOMAIN Width /\ Width["U64"] = 8
  BY DEF Width
<1>2. v.d \in Seq(UNSIGNED8) /\ Len(v.d) >= 8
  BY <1>1 DEF ObjectValue
<1> DEFINE d == v.d
<1>3. /\ Octet(Part(d, 1, 2), 2 - 1 + 1) /\ Octet(Part(d, 3, 3), 3 - 3 + 1)
      /\ Octet(Part(d, 5, 6), 6 - 5 + 1) /\ Octet(Part(d, 7, 8), 8 - 7 + 1)
  <2> HIDE DEF d
  <2>1. d \in Seq(UNSIGNED8) /\ Len(d) >= 8
    BY <1>2 DEF d
  <2>2. Octet(Part(d, 1, 2), 2 - 1 + 1)
    BY <2>1, PartOf, SMTT(30)
  <2>3. Octet(Part(d, 3, 3), 3 - 3 + 1)
    BY <2>1, PartOf, SMTT(30)
  <2>4. Octet(Part(d, 5, 6), 6 - 5 + 1)
    BY <2>1, PartOf, SMTT(30)
  <2>5. Octet(Part(d, 7, 8), 8 - 7 + 1)
    BY <2>1, PartOf, SMTT(30)
  <2> QED BY <2>2, <2>3, <2>4, <2>5
<1> HIDE DEF d
<1>4. /\ Part(d, 1, 2) \in Seq(UNSIGNED8) /\ Part(d, 5, 6) \in Seq(UNSIGNED8)
      /\ Part(d, 7, 8) \in Seq(UNSIGNED8)
  BY <1>3 DEF Octet
<1>5. Num(Part(d, 1, 2)) \in Nat /\ Num(Part(d, 5, 6)) \in Nat /\ Num(Part(d, 7, 8)) \in Nat
  BY <1>4, NumNat
<1>6. Num(Part(d, 3, 3)) \in UNSIGNED8
  BY <1>3, NumOne
<1>7. from_u64(v) = [index |-> Num(Part(d, 1, 2)), sub |-> Num(Part(d, 3, 3)),
                     offset |-> Num(Part(d, 5, 6)), length |-> Num(Part(d, 7, 8))]
  BY DEF from_u64, Part, d
<1> QED BY <1>5, <1>6, <1>7 DEF IsEntry

LEMMA MappingRead ==
  ASSUME NEW o, IsDictionary(o), NEW i, NEW k \in Nat, k # 0, IsMapping(read(o, i, k))
  PROVE  /\ i \in DOMAIN o /\ k \in DOMAIN o[i].vals /\ read(o, i, k)[1] = o[i].vals[k]
         /\ o[i].vals[k] \in ObjectValue /\ o[i].vals[k].t = "U64"
<1>1. read(o, i, k) # None /\ read(o, i, k)[1].t = "U64"
  BY DEF IsMapping
<1>2. i \in DOMAIN o
  BY <1>1 DEF read
<1>3. o[i] \in ObjectEntries
  BY <1>2, IsDictionaryElim
<1>4. o[i].obj # "Variable"
  BY <1>1, <1>2 DEF read
<1>5. read(o, i, k) = IF k <= Len(o[i].vals) THEN Some(o[i].vals[k]) ELSE None
  BY <1>2, <1>4 DEF read
<1>6. k <= Len(o[i].vals) /\ read(o, i, k) = Some(o[i].vals[k])
  BY <1>1, <1>5
<1>7. read(o, i, k)[1] = o[i].vals[k]
  BY <1>6 DEF Some
<1>8. o[i].vals \in Seq(ObjectValue)
  BY <1>3 DEF ObjectEntries
<1>9. k \in DOMAIN o[i].vals /\ o[i].vals[k] \in ObjectValue
  BY <1>6, <1>8
<1> QED BY <1>1, <1>2, <1>7, <1>9

LEMMA EntryCountNat == ASSUME NEW o, IsDictionary(o), NEW i PROVE EntryCount(o, i) \in Nat
<1>1. 0 \in UNSIGNED8
  BY DEF UNSIGNED8
<1> QED BY <1>1, ReadNumber DEF EntryCount

(***************************************************************************)
(* The passes over a mapping are recursive functions: they exist, and      *)
(* position k is what the k-th entry makes of position k - 1.              *)
(***************************************************************************)

LEMMA RpdoPass ==
  ASSUME NEW nd, IsDictionary(nd.od), NEW i, NEW payload, NEW src
  PROVE  LET at == rpdo_pass(nd, i, payload, src)
         IN /\ at[0] = [nd |-> nd, stop |-> FALSE]
            /\ \A k \in 1..EntryCount(nd.od, i) :
                 at[k] = rpdo_step(at[k - 1], read(nd.od, i, k), payload, src)
<1> DEFINE base == [nd |-> nd, stop |-> FALSE]
           Step(a, k) == rpdo_step(a, read(nd.od, i, k), payload, src)
           Body(f, n) == [k \in 0..n |-> IF k = 0 THEN base ELSE Step(f[k - 1], k)]
           T == {n \in Nat : \E f : f = Body(f, n)}
           m == EntryCount(nd.od, i)
<1>1. rpdo_pass(nd, i, payload, src) = CHOOSE f : f = Body(f, m)
  BY DEF rpdo_pass
<1>2. m \in Nat
  BY EntryCountNat
<1> HIDE DEF base, Step, m
<1>3. 0 \in T
  <2> DEFINE g == [k \in 0..0 |-> base]
  <2>1. g = Body(g, 0)
    OBVIOUS
  <2>2. \E f : f = Body(f, 0)
    <3> HIDE DEF g, Body
    <3> QED BY <2>1
  <2> HIDE DEF Body
  <2> QED BY <2>2
<1>4. ASSUME NEW n \in Nat, n \in T PROVE n + 1 \in T
  <2>1. PICK f : f = Body(f, n)
    BY <1>4
  <2> DEFINE g == [k \in 0..(n + 1) |-> IF k = n + 1 THEN Step(f[n], k) ELSE f[k]]
  <2>2. ASSUME NEW k \in 0..(n + 1) PROVE g[k] = IF k = 0 THEN base ELSE Step(g[k - 1], k)
    <3>1. CASE k = n + 1
      BY <3>1
    <3>2. CASE k # n + 1
      <4>1. k \in 0..n /\ g[k] = f[k]
        BY <3>2
      <4>2. k # 0 => k - 1 \in 0..n /\ g[k - 1] = f[k - 1]
        BY <4>1
      <4>3. f[k] = IF k = 0 THEN base ELSE Step(f[k - 1], k)
        BY <2>1, <4>1
      <4> QED BY <4>1, <4>2, <4>3
    <3> QED BY <3>1, <3>2
  <2>3. g = Body(g, n + 1)
    BY <2>2
  <2>4. \E h : h = Body(h, n + 1)
    <3> HIDE DEF g, Body
    <3> QED BY <2>3
  <2> HIDE DEF Body
  <2> QED BY <2>4
<1>5. m \in T
  <2> HIDE DEF T
  <2> QED BY <1>2, <1>3, <1>4, SetInduction
<1> DEFINE at == rpdo_pass(nd, i, payload, src)
<1>6. at = Body(at, m)
  <2> HIDE DEF Body
  <2>1. \E f : f = Body(f, m)
    BY <1>5
  <2> QED BY <1>1, <2>1
<1> HIDE DEF at
<1>7. at[0] = base /\ \A k \in 1..m : at[k] = Step(at[k - 1], k)
  BY <1>2, <1>6
<1> QED BY <1>7 DEF at, base, Step, m
LEMMA TpdoPass ==
  ASSUME NEW nd, IsDictionary(nd.od)
  PROVE  LET at == tpdo_pass(nd)
         IN /\ at[0] = Building(nd, PresLimit(nd.od))
            /\ \A k \in 1..EntryCount(nd.od, \h1A00) :
                 at[k] = apply_tpdo_mapping_entry(at[k - 1], tpdo_entry(read(nd.od, \h1A00, k)))
<1> DEFINE base == Building(nd, PresLimit(nd.od))
           Step(a, k) == apply_tpdo_mapping_entry(a, tpdo_entry(read(nd.od, \h1A00, k)))
           Body(f, n) == [k \in 0..n |-> IF k = 0 THEN base ELSE Step(f[k - 1], k)]
           T == {n \in Nat : \E f : f = Body(f, n)}
           m == EntryCount(nd.od, \h1A00)
<1>1. tpdo_pass(nd) = CHOOSE f : f = Body(f, m)
  BY DEF tpdo_pass
<1>2. m \in Nat
  BY EntryCountNat
<1> HIDE DEF base, Step, m
<1>3. 0 \in T
  <2> DEFINE g == [k \in 0..0 |-> base]
  <2>1. g = Body(g, 0)
    OBVIOUS
  <2>2. \E f : f = Body(f, 0)
    <3> HIDE DEF g, Body
    <3> QED BY <2>1
  <2> HIDE DEF Body
  <2> QED BY <2>2
<1>4. ASSUME NEW n \in Nat, n \in T PROVE n + 1 \in T
  <2>1. PICK f : f = Body(f, n)
    BY <1>4
  <2> DEFINE g == [k \in 0..(n + 1) |-> IF k = n + 1 THEN Step(f[n], k) ELSE f[k]]
  <2>2. ASSUME NEW k \in 0..(n + 1) PROVE g[k] = IF k = 0 THEN base ELSE Step(g[k - 1], k)
    <3>1. CASE k = n + 1
      BY <3>1
    <3>2. CASE k # n + 1
      <4>1. k \in 0..n /\ g[k] = f[k]
        BY <3>2
      <4>2. k # 0 => k - 1 \in 0..n /\ g[k - 1] = f[k - 1]
        BY <4>1
      <4>3. f[k] = IF k = 0 THEN base ELSE Step(f[k - 1], k)
        BY <2>1, <4>1
      <4> QED BY <4>1, <4>2, <4>3
    <3> QED BY <3>1, <3>2
  <2>3. g = Body(g, n + 1)
    BY <2>2
  <2>4. \E h : h = Body(h, n + 1)
    <3> HIDE DEF g, Body
    <3> QED BY <2>3
  <2> HIDE DEF Body
  <2> QED BY <2>4
<1>5. m \in T
  <2> HIDE DEF T
  <2> QED BY <1>2, <1>3, <1>4, SetInduction
<1> DEFINE at == tpdo_pass(nd)
<1>6. at = Body(at, m)
  <2> HIDE DEF Body
  <2>1. \E f : f = Body(f, m)
    BY <1>5
  <2> QED BY <1>1, <2>1
<1> HIDE DEF at
<1>7. at[0] = base /\ \A k \in 1..m : at[k] = Step(at[k - 1], k)
  BY <1>2, <1>6
<1> QED BY <1>7 DEF at, base, Step, m
LEMMA PReqPass ==
  ASSUME NEW nd, IsDictionary(nd.od), NEW chan
  PROVE  LET at == preq_pass(nd, chan)
         IN /\ at[0] = Building(nd, PReqLimit(nd.od, chan))
            /\ \A k \in 1..EntryCount(nd.od, chan + \h200) :
                 at[k] = preq_step(at[k - 1], read(nd.od, chan + \h200, k))
<1> DEFINE base == Building(nd, PReqLimit(nd.od, chan))
           Step(a, k) == preq_step(a, read(nd.od, chan + \h200, k))
           Body(f, n) == [k \in 0..n |-> IF k = 0 THEN base ELSE Step(f[k - 1], k)]
           T == {n \in Nat : \E f : f = Body(f, n)}
           m == EntryCount(nd.od, chan + \h200)
<1>1. preq_pass(nd, chan) = CHOOSE f : f = Body(f, m)
  BY DEF preq_pass
<1>2. m \in Nat
  BY EntryCountNat
<1> HIDE DEF base, Step, m
<1>3. 0 \in T
  <2> DEFINE g == [k \in 0..0 |-> base]
  <2>1. g = Body(g, 0)
    OBVIOUS
  <2>2. \E f : f = Body(f, 0)
    <3> HIDE DEF g, Body
    <3> QED BY <2>1
  <2> HIDE DEF Body
  <2> QED BY <2>2
<1>4. ASSUME NEW n \in Nat, n \in T PROVE n + 1 \in T
  <2>1. PICK f : f = Body(f, n)
    BY <1>4
  <2> DEFINE g == [k \in 0..(n + 1) |-> IF k = n + 1 THEN Step(f[n], k) ELSE f[k]]
  <2>2. ASSUME NEW k \in 0..(n + 1) PROVE g[k] = IF k = 0 THEN base ELSE Step(g[k - 1], k)
    <3>1. CASE k = n + 1
      BY <3>1
    <3>2. CASE k # n + 1
      <4>1. k \in 0..n /\ g[k] = f[k]
        BY <3>2
      <4>2. k # 0 => k - 1 \in 0..n /\ g[k - 1] = f[k - 1]
        BY <4>1
      <4>3. f[k] = IF k = 0 THEN base ELSE Step(f[k - 1], k)
        BY <2>1, <4>1
      <4> QED BY <4>1, <4>2, <4>3
    <3> QED BY <3>1, <3>2
  <2>3. g = Body(g, n + 1)
    BY <2>2
  <2>4. \E h : h = Body(h, n + 1)
    <3> HIDE DEF g, Body
    <3> QED BY <2>3
  <2> HIDE DEF Body
  <2> QED BY <2>4
<1>5. m \in T
  <2> HIDE DEF T
  <2> QED BY <1>2, <1>3, <1>4, SetInduction
<1> DEFINE at == preq_pass(nd, chan)
<1>6. at = Body(at, m)
  <2> HIDE DEF Body
  <2>1. \E f : f = Body(f, m)
    BY <1>5
  <2> QED BY <1>1, <2>1
<1> HIDE DEF at
<1>7. at[0] = base /\ \A k \in 1..m : at[k] = Step(at[k - 1], k)
  BY <1>2, <1>6
<1> QED BY <1>7 DEF at, base, Step, m

(***************************************************************************)
(* Reception.                                                              *)
(***************************************************************************)

IsNode(nd) == nd = [od |-> nd.od, es |-> nd.es, ec |-> nd.ec, errs |-> nd.errs,
                    ran |-> nd.ran, got |-> nd.got]

LEMMA RestNode ==
  ASSUME NEW nd, IsNode(nd)
  PROVE  LET n == AtRest(nd)
         IN IsNode(n) /\ n.od = nd.od /\ n.es = nd.es /\ n.ec = nd.ec
            /\ n.ran = <<>> /\ n.got = <<>>
<1> DEFINE x == <<>>
           a == [nd EXCEPT !.errs = {}]
           b == [a EXCEPT !.ran = x]
           c == [b EXCEPT !.got = x]
<1>1. AtRest(nd) = c
  BY DEF AtRest
<1>2. a = [od |-> nd.od, es |-> nd.es, ec |-> nd.ec, errs |-> {}, ran |-> nd.ran, got |-> nd.got]
  BY DEF IsNode
<1> HIDE DEF a, x
<1>3. b = [od |-> nd.od, es |-> nd.es, ec |-> nd.ec, errs |-> {}, ran |-> x, got |-> nd.got]
  BY <1>2
<1> HIDE DEF b
<1>4. c = [od |-> nd.od, es |-> nd.es, ec |-> nd.ec, errs |-> {}, ran |-> x, got |-> x]
  BY <1>3
<1> HIDE DEF c
<1> QED BY <1>1, <1>4 DEF IsNode, x

\* What a step does that has nothing to do with the channel.
Quiet(nd, n) == /\ IsNode(n) /\ KeepsMappings(nd.od, n.od)
                /\ n.es = nd.es /\ n.ec = nd.ec /\ n.ran = nd.ran /\ n.got = nd.got

LEMMA NoMapping == ~IsPdoMapping(\h1C80) /\ ~IsPdoMapping(\h1C81)
BY DEF IsPdoMapping, IsRpdoMapping, IsTpdoMapping

LEMMA SetOctet ==
  ASSUME NEW d \in Seq(UNSIGNED8), NEW k, NEW x \in UNSIGNED8
  PROVE  [d EXCEPT ![k] = x] \in Seq(UNSIGNED8)
<1>1. d \in [1..Len(d) -> UNSIGNED8] /\ Len(d) \in Nat
  OBVIOUS
<1>2. [d EXCEPT ![k] = x] \in [1..Len(d) -> UNSIGNED8]
  BY <1>1
<1> QED BY <1>1, <1>2

LEMMA ErrorObject ==
  ASSUME NEW o, IsDictionary(o), NEW obj, ~IsPdoMapping(obj), NEW src
  PROVE  KeepsMappings(o, update_pdo_error_object(o, obj, src))
<1> DEFINE v  == read(o, obj, 0)
           at == ((src - 1) \div 8) + 1
           w  == [v[1] EXCEPT !.d[at] = Byte(Bits(@) \cup {(src - 1) % 8})]
           p  == update_pdo_error_object(o, obj, src)
<1>1. 0 \in UNSIGNED8
  BY ByteRange
<1>2. \/ p = o
      \/ v # None /\ v[1].t = "OctetString" /\ p = write_internal(o, obj, 0, w, FALSE).od
  BY DEF update_pdo_error_object
<1> HIDE DEF p, w, at
<1>3. CASE p = o
  BY <1>3, KeepsMappingsSame DEF p
<1>4. CASE v # None /\ v[1].t = "OctetString" /\ p = write_internal(o, obj, 0, w, FALSE).od
  <2>1. v[1] \in ObjectValue
    BY <1>1, <1>4, ReadValue
  <2> HIDE DEF v
  <2>2. v[1] \in [t : ObjectType, d : Seq(UNSIGNED8)]
    BY <2>1 DEF ObjectValue
  <2> DEFINE x == Byte(Bits(v[1].d[at]) \cup {(src - 1) % 8})
             d == [v[1].d EXCEPT ![at] = x]
  <2>3. x \in UNSIGNED8
    BY ByteTyped
  <2> HIDE DEF x
  <2>4. d \in Seq(UNSIGNED8)
    BY <2>2, <2>3, SetOctet
  <2>5. w = [v[1] EXCEPT !.d = d]
    BY <2>2 DEF w, x
  <2> HIDE DEF d
  <2>6. w \in [t : ObjectType, d : Seq(UNSIGNED8)] /\ w.t = "OctetString"
    BY <1>4, <2>2, <2>4, <2>5
  <2>7. "OctetString" \notin DOMAIN Width
    BY DEF Width
  <2>8. w \in ObjectValue
    BY <2>6, <2>7 DEF ObjectValue
  <2> QED BY <1>1, <1>4, <2>8, WriteKeepsMappings DEF p
<1> QED BY <1>2, <1>3, <1>4

LEMMA FaultQuiet ==
  ASSUME NEW nd, IsNode(nd), IsDictionary(nd.od), NEW err, NEW src,
         NEW obj, obj # None => ~IsPdoMapping(obj[1])
  PROVE  Quiet(nd, Fault(nd, err, obj, src))
<1> DEFINE o == IF obj = None THEN nd.od ELSE update_pdo_error_object(nd.od, obj[1], src)
<1>1. KeepsMappings(nd.od, o)
  BY ErrorObject, KeepsMappingsSame
<1>2. Fault(nd, err, obj, src) = [nd EXCEPT !.errs = nd.errs \cup {err}, !.od = o]
  BY DEF Fault, IsNode
<1> HIDE DEF o
<1> QED BY <1>1, <1>2 DEF Quiet, IsNode

\* What an entry of an RPDO makes of a node: a request is served, an answer
\* is taken, or the channel is left alone.
Served(nd, r) == [nd EXCEPT !.es = r.es, !.od = r.od, !.ran = @ \o r.ran]
Taken(nd, r)  == [nd EXCEPT !.ec = r.ec, !.got = @ \o r.got]
Within(e, p)  == ByteAligned(e) /\ EndOf(e) <= Len(p)
DataOf(e, p)  == SubSeq(p, OffsetOf(e) + 1, EndOf(e))
RpdoOutcome(nd, n, e, p) ==
  \/ Within(e, p) /\ IsServerChannel(e.index)
     /\ n = Served(nd, emb_handle_request(nd.es, e.index, DataOf(e, p), nd.od))
  \/ Within(e, p) /\ IsClientChannel(e.index)
     /\ n = Taken(nd, emb_handle_response(nd.ec, e.index, DataOf(e, p)))
  \/ Quiet(nd, n)

LEMMA EntryNumbers ==
  ASSUME NEW e, IsEntry(e) PROVE OffsetOf(e) \in Nat /\ LengthOf(e) \in Nat /\ EndOf(e) \in Nat
                                 /\ EndOf(e) = OffsetOf(e) + LengthOf(e)
<1>1. e.offset \in Nat /\ e.length \in Nat
  BY DEF IsEntry
<1> QED BY <1>1 DEF OffsetOf, LengthOf, EndOf

LEMMA DataTyped ==
  ASSUME NEW e, IsEntry(e), NEW p \in Seq(UNSIGNED8), EndOf(e) <= Len(p)
  PROVE  DataOf(e, p) \in Seq(UNSIGNED8)
<1>1. OffsetOf(e) + 1 \in Nat /\ EndOf(e) \in Nat /\ 1 <= OffsetOf(e) + 1
      /\ OffsetOf(e) + 1 <= EndOf(e) + 1
  BY EntryNumbers
<1>2. Octet(Part(p, OffsetOf(e) + 1, EndOf(e)), EndOf(e) - (OffsetOf(e) + 1) + 1)
  BY <1>1, PartOf
<1> QED BY <1>2 DEF Octet, Part, DataOf

LEMMA QuietSame == ASSUME NEW nd, IsNode(nd), IsDictionary(nd.od) PROVE Quiet(nd, nd)
BY KeepsMappingsSame DEF Quiet

LEMMA QuietWrite ==
  ASSUME NEW nd, IsNode(nd), NEW o, KeepsMappings(nd.od, o)
  PROVE  Quiet(nd, [nd EXCEPT !.od = o])
BY DEF Quiet, IsNode

LEMMA OneSide == ASSUME NEW i, IsServerChannel(i) PROVE ~IsClientChannel(i)
BY DEF IsServerChannel, IsClientChannel

LEMMA RpdoEntry ==
  ASSUME NEW nd, IsNode(nd), IsDictionary(nd.od), NEW e, IsEntry(e), NEW p \in Seq(UNSIGNED8), NEW src,
         ByteAligned(e) /\ ~IsContainer(e.index) => ~IsPdoMapping(e.index)
  PROVE  RpdoOutcome(nd, apply_rpdo_mapping_entry(nd, e, p, src).nd, e, p)
<1> DEFINE r == apply_rpdo_mapping_entry(nd, e, p, src)
           v == read(nd.od, e.index, e.sub)
           d == deserialize(DataOf(e, p), v[1])
<1>1. Len(p) \in Nat /\ EndOf(e) \in Nat
  BY EntryNumbers
<1>2. CASE ~ByteAligned(e)
  <2>1. r = [nd |-> nd, stop |-> FALSE]
    BY <1>2 DEF apply_rpdo_mapping_entry
  <2> QED BY <2>1, QuietSame DEF RpdoOutcome
<1>3. CASE ByteAligned(e) /\ Len(p) < EndOf(e)
  <2>1. r = [nd |-> Fault(nd, "PdoPayloadShort", Some(\h1C81), src), stop |-> TRUE]
    BY <1>3 DEF apply_rpdo_mapping_entry
  <2>2. Some(\h1C81)[1] = \h1C81
    BY DEF Some
  <2>3. Quiet(nd, Fault(nd, "PdoPayloadShort", Some(\h1C81), src))
    BY <2>2, FaultQuiet, NoMapping
  <2> QED BY <2>1, <2>3 DEF RpdoOutcome
<1>4. CASE ByteAligned(e) /\ ~(Len(p) < EndOf(e)) /\ IsServerChannel(e.index)
  <2>1. r.nd = Served(nd, emb_handle_request(nd.es, e.index, DataOf(e, p), nd.od))
    <3> DEFINE q == emb_handle_request(nd.es, e.index, DataOf(e, p), nd.od)
    <3>1. ~IsClientChannel(e.index)
      BY <1>4, OneSide
    <3>2. r = [nd |-> [nd EXCEPT !.es = q.es, !.od = q.od, !.ran = @ \o q.ran], stop |-> FALSE]
      BY <1>4, <3>1 DEF apply_rpdo_mapping_entry, DataOf
    <3> HIDE DEF q
    <3> QED BY <3>2 DEF Served, q
  <2> QED BY <1>1, <1>4, <2>1 DEF RpdoOutcome, Within
<1>5. CASE ByteAligned(e) /\ ~(Len(p) < EndOf(e)) /\ ~IsServerChannel(e.index) /\ IsClientChannel(e.index)
  <2>1. r.nd = Taken(nd, emb_handle_response(nd.ec, e.index, DataOf(e, p)))
    BY <1>5 DEF apply_rpdo_mapping_entry, Taken, DataOf
  <2> QED BY <1>1, <1>5, <2>1 DEF RpdoOutcome, Within
<1>6. CASE ByteAligned(e) /\ ~(Len(p) < EndOf(e)) /\ ~IsContainer(e.index)
  <2>1. ~IsServerChannel(e.index) /\ ~IsClientChannel(e.index)
    BY <1>6 DEF IsContainer
  <2>2. r = IF v = None THEN [nd |-> nd, stop |-> FALSE]
            ELSE IF d.err # "Ok"
            THEN [nd |-> Fault(nd, "PdoPayloadShort", None, src), stop |-> TRUE]
            ELSE [nd |-> [nd EXCEPT !.od = write_internal(nd.od, e.index, e.sub, d.val, FALSE).od],
                  stop |-> FALSE]
    BY <1>6, <2>1 DEF apply_rpdo_mapping_entry, DataOf, IsNode
  <2>3. CASE v = None
    BY <2>2, <2>3, QuietSame DEF RpdoOutcome
  <2>4. CASE v # None /\ d.err # "Ok"
    BY <2>2, <2>4, FaultQuiet DEF RpdoOutcome
  <2>5. CASE v # None /\ d.err = "Ok"
    <3>1. e.sub \in UNSIGNED8
      BY DEF IsEntry
    <3>2. v[1] \in ObjectValue
      BY <2>5, <3>1, ReadValue
    <3>3. DataOf(e, p) \in Seq(UNSIGNED8)
      BY <1>1, <1>6, DataTyped
    <3>4. d.val \in ObjectValue
      BY <3>2, <3>3, DeserializedValue
    <3> DEFINE o == write_internal(nd.od, e.index, e.sub, d.val, FALSE).od
    <3>5. KeepsMappings(nd.od, o)
      <4> HIDE DEF d
      <4> QED BY <1>6, <3>1, <3>4, WriteKeepsMappings
    <3>6. r.nd = [nd EXCEPT !.od = o]
      BY <2>2, <2>5
    <3> HIDE DEF o
    <3>7. Quiet(nd, r.nd)
      BY <3>5, <3>6, QuietWrite
    <3> QED BY <3>7 DEF RpdoOutcome
  <2> QED BY <2>3, <2>4, <2>5
<1> QED BY <1>2, <1>3, <1>4, <1>5, <1>6 DEF IsContainer

(* The server of the channel. *)

\* c answers d; an empty container, a Nil, is refused.
Answers(c, d) == /\ IsCommand(c) /\ c.resp = TRUE
                 /\ c.seq = d.seq /\ c.index = d.index /\ c.sub = d.sub
                 /\ c.abrt \/ c.id = d.id
                 /\ d.id = "Nil" => c.abrt
                 /\ c.abrt => Len(c.data) = 4
Replies(b, d) == \E c : Answers(c, d) /\ b = serialize_pdo_sdo(c)

Response(c, abrt, data) ==
  [PdoCommand(c.seq, IF abrt THEN 3 ELSE 2, TRUE, abrt, IF abrt THEN "Nil" ELSE c.id,
              c.index, c.sub, data) EXCEPT !.tid = c.tid]

LEMMA ResponseAnswers ==
  ASSUME NEW p, NEW c, IsDecoded(c, p), NEW abrt \in BOOLEAN, NEW data \in Seq(UNSIGNED8),
         abrt \/ c.id \in {"WriteByIndex", "ReadByIndex"}, abrt => Len(data) = 4
  PROVE  Replies(serialize_pdo_sdo(Response(c, abrt, data)), c)
<1> DEFINE r == Response(c, abrt, data)
<1>1. r = [seq |-> c.seq, con |-> IF abrt THEN 3 ELSE 2, tid |-> c.tid, resp |-> TRUE, abrt |-> abrt,
           seg |-> "Expedited", id |-> IF abrt THEN "Nil" ELSE c.id,
           index |-> c.index, sub |-> c.sub, data |-> data]
  <2> DEFINE x == IF abrt THEN 3 ELSE 2
             y == IF abrt THEN "Nil" ELSE c.id
             q == PdoCommand(c.seq, x, TRUE, abrt, y, c.index, c.sub, data)
  <2>1. r = [q EXCEPT !.tid = c.tid]
    BY DEF Response
  <2> HIDE DEF x, y
  <2>2. q = [seq |-> c.seq, con |-> x, tid |-> 1, resp |-> TRUE, abrt |-> abrt,
             seg |-> "Expedited", id |-> y, index |-> c.index, sub |-> c.sub, data |-> data]
    BY DEF PdoCommand
  <2> HIDE DEF q, r
  <2>3. r = [seq |-> c.seq, con |-> x, tid |-> c.tid, resp |-> TRUE, abrt |-> abrt,
             seg |-> "Expedited", id |-> y, index |-> c.index, sub |-> c.sub, data |-> data]
    BY <2>1, <2>2
  <2> QED BY <2>3 DEF x, y
<1>2. c.seq \in Nat /\ c.seq < 64 /\ c.tid \in UNSIGNED8 /\ c.index \in UNSIGNED16 /\ c.sub \in UNSIGNED8
  BY DEF IsDecoded
<1> HIDE DEF r
<1>3. /\ r.seq = c.seq /\ r.con = (IF abrt THEN 3 ELSE 2) /\ r.tid = c.tid /\ r.resp = TRUE
      /\ r.abrt = abrt /\ r.seg = "Expedited" /\ r.id = (IF abrt THEN "Nil" ELSE c.id)
      /\ r.index = c.index /\ r.sub = c.sub /\ r.data = data
  BY <1>1
<1>4. r.con \in Nat /\ r.con < 4
  BY <1>3
<1>5. r.id \in {"Nil", "WriteByIndex", "ReadByIndex"} /\ (r.abrt \/ r.id = c.id) /\ (c.id = "Nil" => r.abrt)
  BY <1>3
<1>6. IsCommand(r)
  BY <1>2, <1>3, <1>4, <1>5 DEF IsCommand
<1>7. Answers(r, c)
  BY <1>3, <1>5, <1>6 DEF Answers
<1> QED BY <1>7 DEF Replies, r

LEMMA PublicWrite ==
  ASSUME NEW o, IsDictionary(o), NEW n, NEW i, ~IsPdoMapping(i), NEW s \in UNSIGNED8,
         NEW v \in ObjectValue
  PROVE  KeepsMappings(o, write(o, n, i, s, v, TRUE).od)
<1> DEFINE w == write_internal(o, i, s, v, TRUE)
           r == write(o, n, i, s, v, TRUE)
<1>1. r.od = o \/ r.od = w.od
  <2>1. CASE i = IDX_NMT_STORE_PARAM_CMD_REC
    <3>1. \A x : store_parameters(o, n, x, TRUE).od = o
      BY DEF store_parameters
    <3>2. r.od = o
      <4>1. IDX_NMT_STORE_PARAM_CMD_REC # IDX_NMT_RESTORE_PARAM_CMD_REC
        BY DEF IDX_NMT_STORE_PARAM_CMD_REC, IDX_NMT_RESTORE_PARAM_CMD_REC
      <4> QED BY <2>1, <3>1, <4>1 DEF write
    <3> QED BY <3>2
  <2>2. CASE i # IDX_NMT_STORE_PARAM_CMD_REC /\ i = IDX_NMT_RESTORE_PARAM_CMD_REC
    <3>1. restore_defaults(o, n, TRUE).od = o
      BY DEF restore_defaults
    <3> QED BY <2>2, <3>1 DEF write
  <2>3. CASE i # IDX_NMT_STORE_PARAM_CMD_REC /\ i # IDX_NMT_RESTORE_PARAM_CMD_REC
    <3> HIDE DEF w
    <3>1. r.od = o \/ r.od = write_internal(o, i, s, v, TRUE).od
      BY <2>3 DEF write
    <3> QED BY <3>1 DEF w
  <2> QED BY <2>1, <2>2, <2>3
<1>2. KeepsMappings(o, w.od)
  BY WriteKeepsMappings
<1> HIDE DEF w, r
<1>3. KeepsMappings(o, r.od)
  BY <1>1, <1>2, KeepsMappingsSame
<1> QED BY <1>3 DEF r

LEMMA RefusalCodes ==
  /\ InvalidCommand \in Nat /\ LengthMismatch \in Nat
  /\ \A o, i : NotFound(o, i) \in Nat
  /\ \A e : AbortCode(e) \in Nat
<1>1. InvalidCommand \in Nat /\ LengthMismatch \in Nat /\ NoSuchObject \in Nat /\ NoSuchSubIndex \in Nat
      /\ AttemptToWriteReadOnly \in Nat /\ ValueRangeExceeded \in Nat /\ CannotStore \in Nat
  BY DEF InvalidCommand, LengthMismatch, NoSuchObject, NoSuchSubIndex, AttemptToWriteReadOnly,
         ValueRangeExceeded, CannotStore
<1>2. \A o, i : NotFound(o, i) \in Nat
  BY <1>1 DEF NotFound
<1>3. \A e : AbortCode(e) \in Nat
  BY <1>1 DEF AbortCode
<1> QED BY <1>1, <1>2, <1>3

LEMMA Processed ==
  ASSUME NEW o, IsDictionary(o), NEW p, NEW c, IsDecoded(c, p),
         c.id = "WriteByIndex" => ~IsPdoMapping(c.index)
  PROVE  LET r == process_command(c, o, c.seq)
         IN KeepsMappings(o, r.od) /\ Replies(r.bytes, c)
<1> DEFINE v == read(o, c.index, c.sub)
           d == deserialize(c.data, v[1])
           w == write(o, NoStorage, c.index, c.sub, d.val, TRUE)
           r == process_command(c, o, c.seq)
           Out(x, abrt, data) == [od |-> x, bytes |-> serialize_pdo_sdo(Response(c, abrt, data))]
<1>1. c.sub \in UNSIGNED8 /\ c.data \in Seq(UNSIGNED8)
  BY DEF IsDecoded
<1>2. ASSUME NEW n \in Nat, r = Out(o, TRUE, Le(n, 4)) PROVE KeepsMappings(o, r.od) /\ Replies(r.bytes, c)
  <2>1. Le(n, 4) \in Seq(UNSIGNED8) /\ Len(Le(n, 4)) = 4
    BY LeBytes
  <2> HIDE DEF r
  <2>2. r.od = o /\ r.bytes = serialize_pdo_sdo(Response(c, TRUE, Le(n, 4)))
    BY <1>2
  <2> QED BY <2>1, <2>2, ResponseAnswers, KeepsMappingsSame
<1>3. CASE c.id \notin {"ReadByIndex", "WriteByIndex"}
  <2>1. r = Out(o, TRUE, Le(InvalidCommand, 4))
    BY <1>3 DEF process_command, Response
  <2> QED BY <1>2, <2>1, RefusalCodes
<1>4. CASE c.id \in {"ReadByIndex", "WriteByIndex"} /\ v = None
  <2>1. r = Out(o, TRUE, Le(NotFound(o, c.index), 4))
    BY <1>4 DEF process_command, Response
  <2> QED BY <1>2, <2>1, RefusalCodes
<1>5. CASE c.id = "ReadByIndex" /\ v # None
  <2>1. r = Out(o, FALSE, serialize(v[1]))
    BY <1>5 DEF process_command, Response
  <2>2. serialize(v[1]) \in Seq(UNSIGNED8)
    BY <1>1, <1>5, ReadBytes
  <2> HIDE DEF r
  <2>3. r.od = o /\ r.bytes = serialize_pdo_sdo(Response(c, FALSE, serialize(v[1])))
    BY <2>1
  <2> QED BY <1>5, <2>2, <2>3, ResponseAnswers, KeepsMappingsSame DEF r
<1>6. CASE c.id = "WriteByIndex" /\ v # None
  <2>1. c.id # "ReadByIndex"
    BY <1>6
  <2>2. r = IF d.err # "Ok" THEN Out(o, TRUE, Le(LengthMismatch, 4))
            ELSE IF w.err = "Ok" THEN Out(w.od, FALSE, <<>>)
            ELSE Out(o, TRUE, Le(AbortCode(w.err), 4))
    BY <1>6, <2>1 DEF process_command, Response
  <2>3. v[1] \in ObjectValue
    BY <1>1, <1>6, ReadValue
  <2>4. d.val \in ObjectValue
    BY <1>1, <2>3, DeserializedValue
  <2>5. KeepsMappings(o, w.od)
    <3> HIDE DEF d
    <3> QED BY <1>1, <1>6, <2>4, PublicWrite
  <2>6. CASE d.err # "Ok"
    BY <1>2, <2>2, <2>6, RefusalCodes
  <2>7. CASE d.err = "Ok" /\ w.err # "Ok"
    BY <1>2, <2>2, <2>7, RefusalCodes
  <2>8. CASE d.err = "Ok" /\ w.err = "Ok"
    <3>1. r = Out(w.od, FALSE, <<>>)
      BY <2>2, <2>8
    <3> DEFINE x == <<>>
    <3>2. x \in Seq(UNSIGNED8)
      OBVIOUS
    <3> HIDE DEF r, w, x
    <3>3. r.od = w.od /\ r.bytes = serialize_pdo_sdo(Response(c, FALSE, x))
      BY <3>1 DEF x
    <3> QED BY <1>6, <2>5, <3>2, <3>3, ResponseAnswers DEF r
  <2> QED BY <2>6, <2>7, <2>8
<1> QED BY <1>3, <1>4, <1>5, <1>6

LEMMA ChannelSet ==
  ASSUME NEW es, NEW ch, NEW k, NEW dflt
  PROVE  ch \in DOMAIN SetChannel(es, ch, k) /\ Channel(SetChannel(es, ch, k), ch, dflt) = k
         /\ DOMAIN es \subseteq DOMAIN SetChannel(es, ch, k)
BY DEF SetChannel, Channel

\* Nothing, or the next request is executed and its answer waits.
Harmless(h) == h.err = "Ok" /\ h.val.id = "WriteByIndex" => ~IsPdoMapping(h.val.index)
Idle(es, o, r, ch) == /\ r.od = o /\ r.ran = <<>>
                      /\ Channel(r.es, ch, ServerConn) = Channel(es, ch, ServerConn)
Runs(es, o, r, ch, d) ==
  /\ KeepsMappings(o, r.od) /\ r.ran = <<d>>
  /\ d.seq = (Channel(es, ch, ServerConn).last + 1) % EmbSeqs
  /\ \E b : Channel(r.es, ch, ServerConn) = [last |-> d.seq, pend |-> Some(b)] /\ Replies(b, d)

LEMMA Handled ==
  ASSUME NEW o, IsDictionary(o), NEW es, NEW ch, NEW p \in Seq(UNSIGNED8),
         Harmless(deserialize_pdo_sdo(p))
  PROVE  LET r == emb_handle_request(es, ch, p, o)
             d == deserialize_pdo_sdo(p)
         IN Idle(es, o, r, ch) \/ (d.err = "Ok" /\ Runs(es, o, r, ch, d.val))
<1> DEFINE d == deserialize_pdo_sdo(p)
           k == Channel(es, ch, ServerConn)
           q == process_command(d.val, o, d.val.seq)
           r == emb_handle_request(es, ch, p, o)
<1>1. CASE d.err # "Ok" \/ d.val.seq # (k.last + 1) % EmbSeqs
  <2>1. r = [es |-> SetChannel(es, ch, k), od |-> o, ran |-> None]
    BY <1>1 DEF emb_handle_request
  <2> HIDE DEF k, r
  <2>2. r.es = SetChannel(es, ch, k) /\ r.od = o /\ r.ran = None
    BY <2>1
  <2>3. Channel(r.es, ch, ServerConn) = k
    BY <2>2, ChannelSet
  <2>4. r.ran = <<>>
    BY <2>2 DEF None
  <2>5. Idle(es, o, r, ch)
    BY <2>2, <2>3, <2>4 DEF Idle, k
  <2> QED BY <2>5 DEF r, d
<1>2. CASE d.err = "Ok" /\ d.val.seq = (k.last + 1) % EmbSeqs
  <2> DEFINE m == [last |-> d.val.seq, pend |-> Some(q.bytes)]
  <2>1. r = [es |-> SetChannel(es, ch, m), od |-> q.od, ran |-> Some(d.val)]
    BY <1>2 DEF emb_handle_request
  <2>2. IsDecoded(d.val, p)
    BY <1>2, Decoded
  <2>3. KeepsMappings(o, q.od) /\ Replies(q.bytes, d.val)
    <3> DEFINE c == d.val
    <3> HIDE DEF c
    <3>1. IsDecoded(c, p) /\ (c.id = "WriteByIndex" => ~IsPdoMapping(c.index))
      BY <1>2, <2>2 DEF c, Harmless
    <3>2. KeepsMappings(o, process_command(c, o, c.seq).od) /\ Replies(process_command(c, o, c.seq).bytes, c)
      BY <3>1, Processed
    <3> QED BY <3>2 DEF c
  <2>4. \E b : m = [last |-> d.val.seq, pend |-> Some(b)] /\ Replies(b, d.val)
    BY <2>3
  <2> HIDE DEF m, q, r, d
  <2>5. r.es = SetChannel(es, ch, m) /\ r.od = q.od /\ r.ran = Some(d.val)
    BY <2>1
  <2>6. Channel(r.es, ch, ServerConn) = m
    BY <2>5, ChannelSet
  <2>7. \E b : Channel(r.es, ch, ServerConn) = [last |-> d.val.seq, pend |-> Some(b)] /\ Replies(b, d.val)
    BY <2>4, <2>6
  <2>8. Runs(es, o, r, ch, d.val)
    <3>1. r.ran = <<d.val>>
      BY <2>5 DEF Some
    <3> QED BY <1>2, <2>3, <2>5, <2>7, <3>1 DEF Runs
  <2> QED BY <1>2, <2>8 DEF r, d
<1> QED BY <1>1, <1>2

\* The container in a payload, and the command in it.
Inside(box, p) == box.at + box.len <= Len(p)
Boxed(box, p)  == SubSeq(p, box.at + 1, box.at + box.len)
Heard(box, p)  == deserialize_pdo_sdo(Boxed(box, p))

LEMMA BoxedTyped ==
  ASSUME NEW box \in [at : Nat, len : Nat], NEW p \in Seq(UNSIGNED8), Inside(box, p)
  PROVE  /\ Octet(Boxed(box, p), box.len)
         /\ \A k \in 1..box.len : Boxed(box, p)[k] = p[box.at + k]
<1> DEFINE m == box.at + 1
           n == box.at + box.len
<1>1. m \in Nat /\ n \in Nat /\ 1 <= m /\ m <= n + 1 /\ n <= Len(p) /\ n - m + 1 = box.len
      /\ m = box.at + 1
  BY DEF Inside
<1>2. Boxed(box, p) = Part(p, m, n)
  BY DEF Boxed, Part
<1> HIDE DEF m, n
<1>3. /\ Octet(Part(p, m, n), n - m + 1)
      /\ \A k \in 1..(n - m + 1) : Part(p, m, n)[k] = p[m + k - 1]
  BY <1>1, PartOf
<1>4. ASSUME NEW k \in 1..box.len PROVE Boxed(box, p)[k] = p[box.at + k]
  <2>1. Part(p, m, n)[k] = p[m + k - 1]
    BY <1>1, <1>3
  <2>2. m + k - 1 = box.at + k
    BY <1>1
  <2> QED BY <1>2, <2>1, <2>2
<1> QED BY <1>1, <1>2, <1>3, <1>4

LEMMA Area ==
  ASSUME NEW i PROVE IsPdoMapping(i) => i \in \h1000..\h1FFF
BY DEF IsPdoMapping, IsRpdoMapping, IsTpdoMapping

LEMMA ReceivableEntry ==
  ASSUME NEW v, v.t = "U64", NEW ch, NEW box, Receivable(v, ch, box), ByteAligned(from_u64(v))
  PROVE  LET e == from_u64(v)
         IN IF IsContainer(e.index)
            THEN e.index = ch /\ OffsetOf(e) = box.at /\ LengthOf(e) = box.len
            ELSE ~IsPdoMapping(e.index)
BY Area DEF Receivable

\* What an entry of a receivable mapping does.
ChannelOutcome(nd, n, ch, box, p) ==
  \/ Inside(box, p) /\ IsServerChannel(ch)
     /\ n = Served(nd, emb_handle_request(nd.es, ch, Boxed(box, p), nd.od))
  \/ Inside(box, p) /\ IsClientChannel(ch)
     /\ n = Taken(nd, emb_handle_response(nd.ec, ch, Boxed(box, p)))
  \/ Quiet(nd, n)

LEMMA ReceivedEntry ==
  ASSUME NEW nd, IsNode(nd), IsDictionary(nd.od), NEW p \in Seq(UNSIGNED8), NEW src,
         NEW v \in ObjectValue, v.t = "U64", NEW ch, NEW box, Receivable(v, ch, box)
  PROVE  ChannelOutcome(nd, apply_rpdo_mapping_entry(nd, from_u64(v), p, src).nd, ch, box, p)
<1> DEFINE e == from_u64(v)
           n == apply_rpdo_mapping_entry(nd, e, p, src).nd
<1>1. IsEntry(e)
  BY EntryTyped
<1>2. ByteAligned(e) => IF IsContainer(e.index)
                        THEN e.index = ch /\ OffsetOf(e) = box.at /\ LengthOf(e) = box.len
                        ELSE ~IsPdoMapping(e.index)
  BY ReceivableEntry
<1>3. EndOf(e) = OffsetOf(e) + LengthOf(e)
  BY <1>1, EntryNumbers
<1> HIDE DEF e
<1>4. RpdoOutcome(nd, n, e, p)
  BY <1>1, <1>2, RpdoEntry
<1> HIDE DEF n
<1>5. ASSUME Within(e, p), IsContainer(e.index)
      PROVE  e.index = ch /\ DataOf(e, p) = Boxed(box, p) /\ Inside(box, p)
  <2>1. e.index = ch /\ OffsetOf(e) = box.at /\ EndOf(e) = box.at + box.len
    BY <1>2, <1>3, <1>5 DEF Within
  <2> QED BY <1>5, <2>1 DEF DataOf, Boxed, Inside, Within
<1>6. ChannelOutcome(nd, n, ch, box, p)
  BY <1>4, <1>5 DEF RpdoOutcome, ChannelOutcome, IsContainer
<1> QED BY <1>6 DEF n, e

\* The CN has executed at most the command of the container.
ServerOf(nd) == Channel(nd.es, Server, ServerConn)
Ran(n, d) == /\ n.ran = <<d>> /\ d.seq \in Nat /\ d.seq < EmbSeqs
             /\ \E b : ServerOf(n) = [last |-> d.seq, pend |-> Some(b)] /\ Replies(b, d)
CnHeard(m, p, n) ==
  /\ IsNode(n) /\ KeepsMappings(m.od, n.od) /\ n.ec = m.ec /\ n.got = m.got
  /\ \/ n.ran = <<>> /\ ServerOf(n) = ServerOf(m)
     \/ Inside(OutBox, p) /\ Heard(OutBox, p).err = "Ok" /\ Ran(n, Heard(OutBox, p).val)

LEMMA ServerSide == IsServerChannel(Server) /\ ~IsClientChannel(Server)
BY DEF IsServerChannel, IsClientChannel, Server
LEMMA ClientSide == IsClientChannel(Box) /\ ~IsServerChannel(Box)
BY DEF IsServerChannel, IsClientChannel, Box

LEMMA Boxes == OutBox \in [at : Nat, len : Nat] /\ InBox \in [at : Nat, len : Nat]
BY LayoutAssumption

IsServed(nd, r, n) == /\ IsNode(n) /\ n.es = r.es /\ n.od = r.od /\ n.ran = nd.ran \o r.ran
                      /\ n.ec = nd.ec /\ n.got = nd.got
LEMMA ServedNode ==
  ASSUME NEW nd, IsNode(nd), NEW r PROVE IsServed(nd, r, Served(nd, r))
<1> DEFINE n == Served(nd, r)
           x == nd.ran \o r.ran
           a == [nd EXCEPT !.es = r.es]
           b == [a EXCEPT !.od = r.od]
           c == [b EXCEPT !.ran = x]
<1>1. n = c
  BY DEF Served
<1> HIDE DEF x
<1>2. a = [od |-> nd.od, es |-> r.es, ec |-> nd.ec, errs |-> nd.errs, ran |-> nd.ran, got |-> nd.got]
  BY DEF IsNode
<1> HIDE DEF a
<1>3. b = [od |-> r.od, es |-> r.es, ec |-> nd.ec, errs |-> nd.errs, ran |-> nd.ran, got |-> nd.got]
  BY <1>2
<1> HIDE DEF b
<1>4. c = [od |-> r.od, es |-> r.es, ec |-> nd.ec, errs |-> nd.errs, ran |-> x, got |-> nd.got]
  BY <1>3
<1> HIDE DEF c
<1> HIDE DEF n
<1>5. IsServed(nd, r, n)
  BY <1>1, <1>4 DEF IsNode, x, IsServed
<1> QED BY <1>5 DEF n

LEMMA CnEntry ==
  ASSUME NEW m, ServerOf(m).last \in Nat, NEW p \in Seq(UNSIGNED8), NEW nd, CnHeard(m, p, nd),
         Inside(OutBox, p) => Harmless(Heard(OutBox, p)),
         NEW src, NEW v \in ObjectValue, v.t = "U64", Receivable(v, Server, OutBox)
  PROVE  CnHeard(m, p, apply_rpdo_mapping_entry(nd, from_u64(v), p, src).nd)
<1> DEFINE n == apply_rpdo_mapping_entry(nd, from_u64(v), p, src).nd
           r == emb_handle_request(nd.es, Server, Boxed(OutBox, p), nd.od)
           d == Heard(OutBox, p).val
<1>1. IsNode(nd) /\ KeepsMappings(m.od, nd.od) /\ IsDictionary(nd.od)
  BY DEF CnHeard, KeepsMappings
<1>2. ChannelOutcome(nd, n, Server, OutBox, p)
  BY <1>1, ReceivedEntry
<1> HIDE DEF n
<1>3. CASE Quiet(nd, n)
  <2>1. ServerOf(n) = ServerOf(nd)
    BY <1>3 DEF ServerOf, Quiet
  <2>2. KeepsMappings(m.od, n.od)
    BY <1>1, <1>3, KeepsMappingsOn DEF Quiet
  <2>3. CnHeard(m, p, n)
    BY <1>3, <2>1, <2>2 DEF Quiet, CnHeard, Ran
  <2> QED BY <2>3 DEF n
<1>4. CASE Inside(OutBox, p) /\ n = Served(nd, r)
  <2>1. IsNode(n) /\ n.es = r.es /\ n.od = r.od /\ n.ran = nd.ran \o r.ran
        /\ n.ec = nd.ec /\ n.got = nd.got
    <3> HIDE DEF r
    <3>1. IsServed(nd, r, n)
      BY <1>1, <1>4, ServedNode
    <3> QED BY <3>1 DEF IsServed
  <2>2. Boxed(OutBox, p) \in Seq(UNSIGNED8)
    BY <1>4, BoxedTyped, Boxes DEF Octet
  <2>3. Idle(nd.es, nd.od, r, Server)
        \/ (Heard(OutBox, p).err = "Ok" /\ Runs(nd.es, nd.od, r, Server, d))
    BY <1>1, <1>4, <2>2, Handled DEF Heard
  <2> HIDE DEF r, d
  <2>4. CASE Idle(nd.es, nd.od, r, Server)
    <3>1. n.od = nd.od /\ ServerOf(n) = ServerOf(nd) /\ r.ran = <<>>
      BY <2>1, <2>4 DEF Idle, ServerOf
    <3>2. n.ran = nd.ran
      <4>1. CASE nd.ran = <<>>
        BY <2>1, <3>1, <4>1
      <4>2. CASE \E c : nd.ran = <<c>>
        BY <2>1, <3>1, <4>2
      <4> QED BY <4>1, <4>2 DEF CnHeard, Ran
    <3>3. CnHeard(m, p, n)
      BY <2>1, <3>1, <3>2 DEF CnHeard, Ran
    <3> QED BY <3>3 DEF n
  <2>5. CASE Heard(OutBox, p).err = "Ok" /\ Runs(nd.es, nd.od, r, Server, d)
    <3>1. KeepsMappings(m.od, n.od)
      BY <1>1, <2>1, <2>5, KeepsMappingsOn DEF Runs
    <3>2. d.seq = (ServerOf(nd).last + 1) % EmbSeqs
          /\ \E b : ServerOf(n) = [last |-> d.seq, pend |-> Some(b)] /\ Replies(b, d)
      BY <2>1, <2>5 DEF Runs, ServerOf
    <3>3. ~Ran(nd, d)
      <4>1. SUFFICES ASSUME Ran(nd, d) PROVE FALSE
        OBVIOUS
      <4>2. d.seq \in Nat /\ d.seq < EmbSeqs /\ ServerOf(nd).last = d.seq
        BY <4>1 DEF Ran
      <4>3. d.seq = (d.seq + 1) % EmbSeqs
        BY <3>2, <4>2
      <4> QED BY <4>2, <4>3, NumberMoves
    <3>4. nd.ran = <<>> /\ ServerOf(nd) = ServerOf(m)
      BY <3>3 DEF CnHeard, d
    <3>5. n.ran = <<d>>
      BY <2>1, <2>5, <3>4 DEF Runs
    <3>6. d.seq \in Nat /\ d.seq < EmbSeqs
      <4> DEFINE k == ServerOf(m).last + 1
      <4>1. k \in Nat
        OBVIOUS
      <4>2. d.seq = k % EmbSeqs
        BY <3>2, <3>4
      <4> HIDE DEF k
      <4> QED BY <4>1, <4>2, NextNumber
    <3>7. Ran(n, d)
      BY <3>2, <3>5, <3>6 DEF Ran
    <3>8. CnHeard(m, p, n)
      BY <1>4, <2>1, <2>5, <3>1, <3>7 DEF CnHeard, d
    <3> QED BY <3>8 DEF n
  <2> QED BY <2>3, <2>4, <2>5
<1> QED BY <1>2, <1>3, <1>4, ServerSide DEF ChannelOutcome

LEMMA RpdoValue ==
  ASSUME NEW o, NEW ch, NEW out, NEW in, Configured(o, ch, out, in), NEW i, IsRpdoMapping(i),
         NEW k \in Nat, k # 0, IsMapping(read(o, i, k))
  PROVE  LET v == read(o, i, k)[1] IN v \in ObjectValue /\ v.t = "U64" /\ Receivable(v, ch, in)
<1>1. IsDictionary(o)
  BY DEF Configured
<1>2. /\ i \in DOMAIN o /\ k \in DOMAIN o[i].vals /\ read(o, i, k)[1] = o[i].vals[k]
      /\ o[i].vals[k] \in ObjectValue /\ o[i].vals[k].t = "U64"
  BY <1>1, MappingRead
<1>3. Placed(o[i].vals, FALSE, ch, out, in)
  BY <1>2 DEF Configured
<1>4. Receivable(o[i].vals[k], ch, in)
  BY <1>2, <1>3 DEF Placed
<1> QED BY <1>2, <1>4

LEMMA CnPass ==
  ASSUME NEW m, IsNode(m), Configured(m.od, Server, InBox, OutBox), m.ran = <<>>,
         ServerOf(m).last \in Nat, NEW p \in Seq(UNSIGNED8),
         Inside(OutBox, p) => Harmless(Heard(OutBox, p)),
         NEW src, NEW i, IsRpdoMapping(i)
  PROVE  CnHeard(m, p, rpdo_pass(m, i, p, src)[EntryCount(m.od, i)].nd)
<1> DEFINE at == rpdo_pass(m, i, p, src)
           c  == EntryCount(m.od, i)
           T  == {k \in Nat : k <= c => CnHeard(m, p, at[k].nd)}
<1>1. IsDictionary(m.od)
  BY DEF Configured
<1>2. c \in Nat
  BY <1>1, EntryCountNat
<1>3. /\ at[0] = [nd |-> m, stop |-> FALSE]
      /\ \A k \in 1..c : at[k] = rpdo_step(at[k - 1], read(m.od, i, k), p, src)
  BY <1>1, RpdoPass
<1> HIDE DEF at, c
<1>4. 0 \in T
  <2>1. at[0].nd = m
    BY <1>3
  <2>2. CnHeard(m, p, m)
    BY <1>1, KeepsMappingsSame DEF CnHeard
  <2> QED BY <2>1, <2>2
<1>5. ASSUME NEW k \in Nat, k \in T PROVE k + 1 \in T
  <2>1. SUFFICES ASSUME k + 1 <= c PROVE CnHeard(m, p, at[k + 1].nd)
    OBVIOUS
  <2>2. CnHeard(m, p, at[k].nd)
    BY <1>2, <1>5, <2>1
  <2> DEFINE q == read(m.od, i, k + 1)
  <2>3. at[k + 1] = rpdo_step(at[k], q, p, src)
    <3>1. k + 1 \in 1..c /\ (k + 1) - 1 = k
      BY <1>2, <2>1
    <3> QED BY <1>3, <3>1
  <2>4. CASE at[k].stop \/ ~IsMapping(q)
    <3>1. at[k + 1] = at[k]
      BY <2>3, <2>4 DEF rpdo_step
    <3> QED BY <2>2, <3>1
  <2>5. CASE ~at[k].stop /\ IsMapping(q)
    <3>1. at[k + 1] = apply_rpdo_mapping_entry(at[k].nd, from_u64(q[1]), p, src)
      BY <2>3, <2>5 DEF rpdo_step
    <3>2. q[1] \in ObjectValue /\ q[1].t = "U64" /\ Receivable(q[1], Server, OutBox)
      BY <2>5, RpdoValue
    <3> HIDE DEF q
    <3> QED BY <2>2, <3>1, <3>2, CnEntry
  <2> QED BY <2>4, <2>5
<1>6. c \in T
  <2> HIDE DEF T
  <2> QED BY <1>2, <1>4, <1>5, SetInduction
<1>7. c <= c
  BY <1>2
<1> QED BY <1>6, <1>7 DEF at, c

LEMMA LowestIn ==
  ASSUME NEW S \in SUBSET Nat, S # {} PROVE Lowest(S) \in S
BY LeastNumber DEF Lowest

LEMMA RpdoChannel ==
  ASSUME NEW o, NEW src, RpdoOf(o, src) # {}
  PROVE  IsRpdoMapping(Lowest(RpdoOf(o, src)) + \h200)
<1> DEFINE c == Lowest(RpdoOf(o, src))
<1>1. RpdoOf(o, src) \subseteq \h1400..\h14FF
  BY DEF RpdoOf
<1>2. \h1400..\h14FF \subseteq Nat
  OBVIOUS
<1>3. c \in \h1400..\h14FF
  BY <1>1, <1>2, LowestIn
<1> HIDE DEF c
<1>4. IsRpdoMapping(c + \h200)
  BY <1>3 DEF IsRpdoMapping
<1> QED BY <1>4 DEF c

\* The three ways a payload goes: ignored, refused, applied.
LEMMA Consumed ==
  ASSUME NEW nd, NEW src, NEW p, NEW version, NEW rd
  PROVE  LET n == consume_pdo_payload(nd, src, p, version, rd)
             i == Lowest(RpdoOf(nd.od, src)) + \h200
         IN \/ n = nd
            \/ n = Fault(nd, "PdoMapVersion", Some(\h1C80), src)
            \/ IsRpdoMapping(i) /\ n = rpdo_pass(nd, i, p, src)[EntryCount(nd.od, i)].nd
<1> DEFINE n == consume_pdo_payload(nd, src, p, version, rd)
           i == Lowest(RpdoOf(nd.od, src)) + \h200
           ok == VersionOk(read_or("U8", nd.od, Lowest(RpdoOf(nd.od, src)), 2, 0), version)
<1>1. CASE ~rd \/ RpdoOf(nd.od, src) = {}
  <2>1. n = nd
    BY <1>1 DEF consume_pdo_payload
  <2> QED BY <2>1
<1>2. CASE rd /\ RpdoOf(nd.od, src) # {} /\ ~ok
  <2>1. n = Fault(nd, "PdoMapVersion", Some(\h1C80), src)
    BY <1>2 DEF consume_pdo_payload
  <2> QED BY <2>1
<1>3. CASE rd /\ RpdoOf(nd.od, src) # {} /\ ok
  <2>1. n = rpdo_pass(nd, i, p, src)[EntryCount(nd.od, i)].nd
    BY <1>3 DEF consume_pdo_payload
  <2>2. IsRpdoMapping(i)
    BY <1>3, RpdoChannel
  <2> QED BY <2>1, <2>2
<1> QED BY <1>1, <1>2, <1>3

LEMMA CnConsumes ==
  ASSUME NEW m, IsNode(m), Configured(m.od, Server, InBox, OutBox), m.ran = <<>>,
         ServerOf(m).last \in Nat, NEW p \in Seq(UNSIGNED8),
         Inside(OutBox, p) => Harmless(Heard(OutBox, p)),
         NEW src, NEW version, NEW rd
  PROVE  CnHeard(m, p, consume_pdo_payload(m, src, p, version, rd))
<1> DEFINE n == consume_pdo_payload(m, src, p, version, rd)
           i == Lowest(RpdoOf(m.od, src)) + \h200
<1>1. IsDictionary(m.od)
  BY DEF Configured
<1>2. \/ n = m
      \/ n = Fault(m, "PdoMapVersion", Some(\h1C80), src)
      \/ IsRpdoMapping(i) /\ n = rpdo_pass(m, i, p, src)[EntryCount(m.od, i)].nd
  BY Consumed
<1> HIDE DEF n, i
<1>3. ASSUME Quiet(m, n) PROVE CnHeard(m, p, n)
  BY <1>3 DEF Quiet, CnHeard, ServerOf
<1>4. CASE n = m
  BY <1>1, <1>3, <1>4, QuietSame DEF n
<1>5. CASE n = Fault(m, "PdoMapVersion", Some(\h1C80), src)
  <2>1. Some(\h1C80)[1] = \h1C80
    BY DEF Some
  <2>2. Quiet(m, n)
    BY <1>1, <1>5, <2>1, FaultQuiet, NoMapping
  <2> QED BY <1>3, <2>2 DEF n
<1>6. CASE IsRpdoMapping(i) /\ n = rpdo_pass(m, i, p, src)[EntryCount(m.od, i)].nd
  BY <1>6, CnPass DEF n
<1> QED BY <1>2, <1>4, <1>5, <1>6

(* The client of the channel. *)

\* The MN has accepted at most the response of the container, and that only
\* with the number of its last request.
ClientOf(nd) == Channel(nd.ec, Box, ClientConn)
MnHeard(m, p, n) ==
  /\ IsNode(n) /\ KeepsMappings(m.od, n.od) /\ n.es = m.es /\ n.ran = m.ran
  /\ Box \in DOMAIN n.ec <=> Box \in DOMAIN m.ec
  /\ ClientOf(n) = [last |-> ClientOf(n).last, next |-> ClientOf(m).next, queue |-> ClientOf(m).queue]
  /\ n.got \in Seq({Heard(InBox, p).val})
  /\ n.got # <<>> => /\ Inside(InBox, p) /\ Heard(InBox, p).err = "Ok"
                     /\ Heard(InBox, p).val.seq = (ClientOf(m).next - 1) % EmbSeqs

IsTaken(nd, r, n) == /\ IsNode(n) /\ n.ec = r.ec /\ n.got = nd.got \o r.got
                     /\ n.od = nd.od /\ n.es = nd.es /\ n.ran = nd.ran
LEMMA TakenNode ==
  ASSUME NEW nd, IsNode(nd), NEW r PROVE IsTaken(nd, r, Taken(nd, r))
<1> DEFINE n == Taken(nd, r)
           x == nd.got \o r.got
           a == [nd EXCEPT !.ec = r.ec]
           b == [a EXCEPT !.got = x]
<1>1. n = b
  BY DEF Taken
<1> HIDE DEF x
<1>2. a = [od |-> nd.od, es |-> nd.es, ec |-> r.ec, errs |-> nd.errs, ran |-> nd.ran, got |-> nd.got]
  BY DEF IsNode
<1> HIDE DEF a
<1>3. b = [od |-> nd.od, es |-> nd.es, ec |-> r.ec, errs |-> nd.errs, ran |-> nd.ran, got |-> x]
  BY <1>2
<1> HIDE DEF b, n
<1>4. IsTaken(nd, r, n)
  BY <1>1, <1>3 DEF IsNode, x, IsTaken
<1> QED BY <1>4 DEF n

\* A response is ignored, or it has the number of the last request.
LEMMA Responded ==
  ASSUME NEW ec, NEW p, Channel(ec, Box, ClientConn) = [last |-> Channel(ec, Box, ClientConn).last,
                          next |-> Channel(ec, Box, ClientConn).next,
                          queue |-> Channel(ec, Box, ClientConn).queue]
  PROVE  LET r == emb_handle_response(ec, Box, p)
             d == deserialize_pdo_sdo(p)
             k == Channel(ec, Box, ClientConn)
             j == Channel(r.ec, Box, ClientConn)
         IN \/ r.ec = ec /\ r.got = <<>>
            \/ /\ Box \in DOMAIN ec /\ Box \in DOMAIN r.ec
               /\ d.err = "Ok" /\ d.val.seq = (k.next - 1) % EmbSeqs
               /\ r.got = <<d.val>>
               /\ j = [last |-> j.last, next |-> k.next, queue |-> k.queue]
<1> DEFINE r == emb_handle_response(ec, Box, p)
           d == deserialize_pdo_sdo(p)
           k == Channel(ec, Box, ClientConn)
           j == Channel(r.ec, Box, ClientConn)
<1>1. CASE Box \notin DOMAIN ec \/ d.err # "Ok" \/ d.val.seq # (ec[Box].next - 1) % EmbSeqs
  <2>1. r = [ec |-> ec, got |-> None]
    BY <1>1 DEF emb_handle_response
  <2>2. r.ec = ec /\ r.got = None
    BY <2>1
  <2> QED BY <2>2 DEF None
<1>2. CASE Box \in DOMAIN ec /\ d.err = "Ok" /\ d.val.seq = (ec[Box].next - 1) % EmbSeqs
  <2> DEFINE f == [ec EXCEPT ![Box].last = d.val.seq]
  <2>1. r = [ec |-> f, got |-> Some(d.val)]
    BY <1>2 DEF emb_handle_response
  <2>2. k = ec[Box]
    BY <1>2 DEF Channel
  <2>3. DOMAIN f = DOMAIN ec /\ f[Box] = [ec[Box] EXCEPT !.last = d.val.seq]
    BY <1>2
  <2>4. k = [last |-> k.last, next |-> k.next, queue |-> k.queue]
    OBVIOUS
  <2> HIDE DEF f, r, d, k
  <2>5. r.ec = f /\ r.got = Some(d.val)
    BY <2>1
  <2>6. j = f[Box]
    BY <1>2, <2>3, <2>5 DEF Channel
  <2> HIDE DEF j
  <2>7. j = [k EXCEPT !.last = d.val.seq]
    BY <2>2, <2>3, <2>6
  <2>8. j = [last |-> d.val.seq, next |-> k.next, queue |-> k.queue]
    BY <2>4, <2>7
  <2>9. j = [last |-> j.last, next |-> k.next, queue |-> k.queue]
    BY <2>8
  <2>10. Box \in DOMAIN r.ec
    BY <1>2, <2>3, <2>5
  <2>11. r.got = <<d.val>>
    BY <2>5 DEF Some
  <2>12. d.val.seq = (k.next - 1) % EmbSeqs
    BY <1>2, <2>2
  <2> QED BY <1>2, <2>9, <2>10, <2>11, <2>12 DEF j, r, d, k
<1> QED BY <1>1, <1>2

LEMMA MnEntry ==
  ASSUME NEW m, NEW p \in Seq(UNSIGNED8), NEW nd, MnHeard(m, p, nd),
         NEW src, NEW v \in ObjectValue, v.t = "U64", Receivable(v, Box, InBox)
  PROVE  MnHeard(m, p, apply_rpdo_mapping_entry(nd, from_u64(v), p, src).nd)
<1> DEFINE n == apply_rpdo_mapping_entry(nd, from_u64(v), p, src).nd
           r == emb_handle_response(nd.ec, Box, Boxed(InBox, p))
           d == Heard(InBox, p)
           k == ClientOf(nd)
<1>1. IsNode(nd) /\ KeepsMappings(m.od, nd.od) /\ IsDictionary(nd.od)
  BY DEF MnHeard, KeepsMappings
<1>2. ChannelOutcome(nd, n, Box, InBox, p)
  BY <1>1, ReceivedEntry
<1> HIDE DEF n
<1>3. CASE Quiet(nd, n)
  <2>1. ClientOf(n) = ClientOf(nd) /\ n.ec = nd.ec /\ n.got = nd.got
    BY <1>3 DEF ClientOf, Quiet
  <2>2. KeepsMappings(m.od, n.od)
    BY <1>1, <1>3, KeepsMappingsOn DEF Quiet
  <2>3. MnHeard(m, p, n)
    BY <1>3, <2>1, <2>2 DEF Quiet, MnHeard
  <2> QED BY <2>3 DEF n
<1>4. CASE Inside(InBox, p) /\ n = Taken(nd, r)
  <2>1. IsNode(n) /\ n.ec = r.ec /\ n.got = nd.got \o r.got
        /\ n.od = nd.od /\ n.es = nd.es /\ n.ran = nd.ran
    <3> HIDE DEF r
    <3>1. IsTaken(nd, r, n)
      BY <1>1, <1>4, TakenNode
    <3> QED BY <3>1 DEF IsTaken
  <2>2. k = [last |-> k.last, next |-> ClientOf(m).next, queue |-> ClientOf(m).queue]
    BY DEF MnHeard
  <2>3. k.next = ClientOf(m).next /\ k.queue = ClientOf(m).queue
    <3> HIDE DEF k
    <3> QED BY <2>2
  <2>4. nd.got \in Seq({d.val})
    BY DEF MnHeard
  <2>5. \/ r.ec = nd.ec /\ r.got = <<>>
        \/ /\ Box \in DOMAIN nd.ec /\ Box \in DOMAIN r.ec
           /\ d.err = "Ok" /\ d.val.seq = (k.next - 1) % EmbSeqs
           /\ r.got = <<d.val>>
           /\ ClientOf(n) = [last |-> ClientOf(n).last, next |-> k.next, queue |-> k.queue]
    <3>1. k = [last |-> k.last, next |-> k.next, queue |-> k.queue]
      BY <2>2, <2>3
    <3>2. ClientOf(n) = Channel(r.ec, Box, ClientConn)
      BY <2>1 DEF ClientOf
    <3> QED BY <3>1, <3>2, Responded DEF ClientOf, Heard
  <2> HIDE DEF r, d, k
  <2>6. CASE r.ec = nd.ec /\ r.got = <<>>
    <3>1. n.got = nd.got
      BY <2>1, <2>4, <2>6
    <3>2. ClientOf(n) = ClientOf(nd) /\ n.ec = nd.ec
      BY <2>1, <2>6 DEF ClientOf
    <3>3. MnHeard(m, p, n)
      BY <2>1, <3>1, <3>2 DEF MnHeard
    <3> QED BY <3>3 DEF n
  <2>7. CASE /\ Box \in DOMAIN nd.ec /\ Box \in DOMAIN r.ec
             /\ d.err = "Ok" /\ d.val.seq = (k.next - 1) % EmbSeqs
             /\ r.got = <<d.val>>
             /\ ClientOf(n) = [last |-> ClientOf(n).last, next |-> k.next, queue |-> k.queue]
    <3>1. n.got \in Seq({d.val})
      BY <2>1, <2>4, <2>7
    <3>2. Box \in DOMAIN n.ec <=> Box \in DOMAIN m.ec
      BY <2>1, <2>7 DEF MnHeard
    <3>3. MnHeard(m, p, n)
      BY <1>1, <1>4, <2>1, <2>3, <2>7, <3>1, <3>2 DEF MnHeard, d
    <3> QED BY <3>3 DEF n
  <2> QED BY <2>5, <2>6, <2>7
<1> QED BY <1>2, <1>3, <1>4, ClientSide DEF ChannelOutcome

IsClient(k) == k = [last |-> k.last, next |-> k.next, queue |-> k.queue]
LEMMA MnAlone ==
  ASSUME NEW m, NEW p, NEW n, Quiet(m, n), m.got = <<>>, IsClient(ClientOf(m)) PROVE MnHeard(m, p, n)
<1>1. n.got = <<>> /\ n.ec = m.ec /\ ClientOf(n) = ClientOf(m)
  BY DEF Quiet, ClientOf
<1>2. n.got \in Seq({Heard(InBox, p).val})
  BY <1>1
<1> QED BY <1>1, <1>2 DEF Quiet, MnHeard, IsClient

LEMMA MnPass ==
  ASSUME NEW m, IsNode(m), Configured(m.od, Box, OutBox, InBox), m.got = <<>>,
         IsClient(ClientOf(m)), NEW p \in Seq(UNSIGNED8),
         NEW src, NEW i, IsRpdoMapping(i)
  PROVE  MnHeard(m, p, rpdo_pass(m, i, p, src)[EntryCount(m.od, i)].nd)
<1> DEFINE at == rpdo_pass(m, i, p, src)
           c  == EntryCount(m.od, i)
           T  == {k \in Nat : k <= c => MnHeard(m, p, at[k].nd)}
<1>1. IsDictionary(m.od)
  BY DEF Configured
<1>2. c \in Nat
  BY <1>1, EntryCountNat
<1>3. /\ at[0] = [nd |-> m, stop |-> FALSE]
      /\ \A k \in 1..c : at[k] = rpdo_step(at[k - 1], read(m.od, i, k), p, src)
  BY <1>1, RpdoPass
<1> HIDE DEF at, c
<1>4. 0 \in T
  <2>1. at[0].nd = m
    BY <1>3
  <2>2. MnHeard(m, p, m)
    BY <1>1, MnAlone, QuietSame
  <2> QED BY <2>1, <2>2
<1>5. ASSUME NEW k \in Nat, k \in T PROVE k + 1 \in T
  <2>1. SUFFICES ASSUME k + 1 <= c PROVE MnHeard(m, p, at[k + 1].nd)
    OBVIOUS
  <2>2. MnHeard(m, p, at[k].nd)
    BY <1>2, <1>5, <2>1
  <2> DEFINE q == read(m.od, i, k + 1)
  <2>3. at[k + 1] = rpdo_step(at[k], q, p, src)
    <3>1. k + 1 \in 1..c /\ (k + 1) - 1 = k
      BY <1>2, <2>1
    <3> QED BY <1>3, <3>1
  <2>4. CASE at[k].stop \/ ~IsMapping(q)
    <3>1. at[k + 1] = at[k]
      BY <2>3, <2>4 DEF rpdo_step
    <3> QED BY <2>2, <3>1
  <2>5. CASE ~at[k].stop /\ IsMapping(q)
    <3>1. at[k + 1] = apply_rpdo_mapping_entry(at[k].nd, from_u64(q[1]), p, src)
      BY <2>3, <2>5 DEF rpdo_step
    <3>2. q[1] \in ObjectValue /\ q[1].t = "U64" /\ Receivable(q[1], Box, InBox)
      BY <2>5, RpdoValue
    <3> HIDE DEF q
    <3> QED BY <2>2, <3>1, <3>2, MnEntry
  <2> QED BY <2>4, <2>5
<1>6. c \in T
  <2> HIDE DEF T
  <2> QED BY <1>2, <1>4, <1>5, SetInduction
<1>7. c <= c
  BY <1>2
<1> QED BY <1>6, <1>7 DEF at, c

LEMMA MnConsumes ==
  ASSUME NEW m, IsNode(m), Configured(m.od, Box, OutBox, InBox), m.got = <<>>,
         IsClient(ClientOf(m)), NEW p \in Seq(UNSIGNED8),
         NEW src, NEW version, NEW rd
  PROVE  MnHeard(m, p, consume_pdo_payload(m, src, p, version, rd))
<1> DEFINE n == consume_pdo_payload(m, src, p, version, rd)
           i == Lowest(RpdoOf(m.od, src)) + \h200
<1>1. IsDictionary(m.od)
  BY DEF Configured
<1>2. \/ n = m
      \/ n = Fault(m, "PdoMapVersion", Some(\h1C80), src)
      \/ IsRpdoMapping(i) /\ n = rpdo_pass(m, i, p, src)[EntryCount(m.od, i)].nd
  BY Consumed
<1> HIDE DEF n, i
<1>3. ASSUME Quiet(m, n) PROVE MnHeard(m, p, n)
  BY <1>3, MnAlone
<1>4. CASE n = m
  BY <1>1, <1>3, <1>4, QuietSame DEF n
<1>5. CASE n = Fault(m, "PdoMapVersion", Some(\h1C80), src)
  <2>1. Some(\h1C80)[1] = \h1C80
    BY DEF Some
  <2>2. Quiet(m, n)
    BY <1>1, <1>5, <2>1, FaultQuiet, NoMapping
  <2> QED BY <1>3, <2>2 DEF n
<1>6. CASE IsRpdoMapping(i) /\ n = rpdo_pass(m, i, p, src)[EntryCount(m.od, i)].nd
  BY <1>6, MnPass DEF n
<1> QED BY <1>2, <1>4, <1>5, <1>6

(***************************************************************************)
(* Transmission.                                                           *)
(***************************************************************************)

\* The container of a payload begins with the eight octets of b, or is empty.
Has(p, box, b) == box.len >= 8 /\ Inside(box, p) => \A k \in 1..8 : p[box.at + k] = b[k]
Blank(p, box)  == box.len >= 8 /\ Inside(box, p) => \A k \in 1..8 : p[box.at + k] = 0

LEMMA PutOctets ==
  ASSUME NEW p \in Seq(UNSIGNED8), NEW off \in Nat, NEW data \in Seq(UNSIGNED8)
  PROVE  LET q == Put(p, off, data)
         IN /\ q \in Seq(UNSIGNED8) /\ Len(q) = Len(p)
            /\ \A k \in 1..Len(p) : /\ off < k /\ k <= off + Len(data) => q[k] = data[k - off]
                                    /\ k <= off \/ off + Len(data) < k => q[k] = p[k]
<1> DEFINE q == Put(p, off, data)
<1>1. DOMAIN p = 1..Len(p) /\ Len(p) \in Nat /\ Len(data) \in Nat
  OBVIOUS
<1>2. q = [k \in 1..Len(p) |-> IF k \in (off + 1)..(off + Len(data)) THEN data[k - off] ELSE p[k]]
  BY <1>1 DEF Put
<1>3. ASSUME NEW k \in 1..Len(p)
      PROVE  /\ off < k /\ k <= off + Len(data) => q[k] = data[k - off]
             /\ k <= off \/ off + Len(data) < k => q[k] = p[k]
             /\ q[k] \in UNSIGNED8
  <2>1. q[k] = IF k \in (off + 1)..(off + Len(data)) THEN data[k - off] ELSE p[k]
    BY <1>2
  <2>2. k \in Nat
    OBVIOUS
  <2> HIDE DEF q
  <2>3. CASE off < k /\ k <= off + Len(data)
    <3>1. q[k] = data[k - off] /\ k - off \in 1..Len(data)
      BY <1>1, <2>1, <2>2, <2>3
    <3>2. data[k - off] \in UNSIGNED8
      BY <3>1
    <3> QED BY <1>1, <2>3, <3>1, <3>2
  <2>4. CASE k <= off \/ off + Len(data) < k
    <3>1. q[k] = p[k]
      BY <1>1, <2>1, <2>2, <2>4
    <3>2. p[k] \in UNSIGNED8
      OBVIOUS
    <3> QED BY <1>1, <2>4, <3>1, <3>2
  <2> QED BY <1>1, <2>2, <2>3, <2>4
<1>4. q \in [1..Len(p) -> UNSIGNED8]
  <2>1. q = [k \in 1..Len(p) |-> q[k]]
    BY <1>2
  <2> HIDE DEF q
  <2> QED BY <1>3, <2>1
<1> HIDE DEF q
<1>5. q \in Seq(UNSIGNED8) /\ Len(q) = Len(p)
  BY <1>1, <1>4
<1>6. \A k \in 1..Len(p) : /\ off < k /\ k <= off + Len(data) => q[k] = data[k - off]
                           /\ k <= off \/ off + Len(data) < k => q[k] = p[k]
  BY <1>3
<1> QED BY <1>5, <1>6 DEF q

\* What is put beside the container leaves it as it is.
SameBox(p, q, box) ==
  /\ q \in Seq(UNSIGNED8) /\ Len(q) = Len(p)
  /\ Inside(box, p) => \A k \in 1..box.len : q[box.at + k] = p[box.at + k]

LEMMA PutApart ==
  ASSUME NEW p \in Seq(UNSIGNED8), NEW off \in Nat, NEW data \in Seq(UNSIGNED8),
         NEW box \in [at : Nat, len : Nat],
         off + Len(data) <= box.at \/ box.at + box.len <= off \/ Len(data) = 0
  PROVE  SameBox(p, Put(p, off, data), box)
<1> DEFINE q == Put(p, off, data)
<1>1. /\ q \in Seq(UNSIGNED8) /\ Len(q) = Len(p)
      /\ \A k \in 1..Len(p) : k <= off \/ off + Len(data) < k => q[k] = p[k]
  BY PutOctets
<1>2. Len(data) \in Nat /\ Len(p) \in Nat /\ box.at \in Nat /\ box.len \in Nat
  OBVIOUS
<1> HIDE DEF q
<1>3. ASSUME Inside(box, p), NEW k \in 1..box.len PROVE q[box.at + k] = p[box.at + k]
  <2> DEFINE j == box.at + k
  <2>1. j \in 1..Len(p) /\ (j <= off \/ off + Len(data) < j)
    BY <1>2, <1>3 DEF Inside
  <2> HIDE DEF j
  <2>2. q[j] = p[j]
    BY <1>1, <2>1
  <2> QED BY <2>2 DEF j
<1>4. SameBox(p, q, box)
  BY <1>1, <1>3 DEF SameBox
<1> QED BY <1>4 DEF q

LEMMA SameBoxHas ==
  ASSUME NEW p, NEW q, NEW box \in [at : Nat, len : Nat], SameBox(p, q, box)
  PROVE  /\ Blank(p, box) => Blank(q, box)
         /\ \A b : Has(p, box, b) => Has(q, box, b)
<1>1. Inside(box, q) <=> Inside(box, p)
  BY DEF SameBox, Inside
<1>2. ASSUME box.len >= 8, Inside(box, p), NEW k \in 1..8 PROVE q[box.at + k] = p[box.at + k]
  <2>1. box.len \in Nat
    OBVIOUS
  <2>2. k \in 1..box.len
    BY <1>2, <2>1
  <2> QED BY <1>2, <2>2 DEF SameBox
<1>3. Blank(p, box) => Blank(q, box)
  BY <1>1, <1>2 DEF Blank
<1>4. \A b : Has(p, box, b) => Has(q, box, b)
  BY <1>1, <1>2 DEF Has
<1> QED BY <1>3, <1>4

\* What is put into the container is there.
LEMMA PutBox ==
  ASSUME NEW p \in Seq(UNSIGNED8), NEW box \in [at : Nat, len : Nat], NEW data, Octet(data, box.len)
  PROVE  LET q == Put(p, box.at, data)
         IN /\ q \in Seq(UNSIGNED8)
            /\ (box.len >= 8 => \A k \in 1..8 : data[k] = 0) => Blank(q, box)
            /\ \A b : (box.len >= 8 => \A k \in 1..8 : data[k] = b[k]) => Has(q, box, b)
<1> DEFINE q == Put(p, box.at, data)
<1>1. data \in Seq(UNSIGNED8) /\ Len(data) = box.len /\ box.at \in Nat /\ box.len \in Nat
  BY DEF Octet
<1> DEFINE n == Len(data)
<1>2. /\ q \in Seq(UNSIGNED8) /\ Len(q) = Len(p)
      /\ \A k \in 1..Len(p) : box.at < k /\ k <= box.at + n => q[k] = data[k - box.at]
  <2> DEFINE off == box.at
             u == Put(p, off, data)
  <2>1. off \in Nat
    BY <1>1
  <2> HIDE DEF off
  <2>2. /\ u \in Seq(UNSIGNED8) /\ Len(u) = Len(p)
        /\ \A k \in 1..Len(p) : /\ off < k /\ k <= off + Len(data) => u[k] = data[k - off]
                                /\ k <= off \/ off + Len(data) < k => u[k] = p[k]
    BY <1>1, <2>1, PutOctets, Zenon
  <2> QED BY <2>2, Zenon DEF off
<1> HIDE DEF q
<1>3. ASSUME Inside(box, q), box.len >= 8, NEW k \in 1..8 PROVE q[box.at + k] = data[k]
  <2> DEFINE j == box.at + k
  <2>1. n = box.len /\ Len(p) \in Nat
    BY <1>1
  <2> HIDE DEF n
  <2>2. j \in 1..Len(p) /\ box.at < j /\ j <= box.at + n /\ j - box.at = k
    BY <1>1, <1>2, <1>3, <2>1 DEF Inside
  <2> HIDE DEF j
  <2>3. q[j] = data[k]
    BY <1>2, <2>2
  <2> QED BY <2>3 DEF j
<1>4. (box.len >= 8 => \A k \in 1..8 : data[k] = 0) => Blank(q, box)
  BY <1>3 DEF Blank
<1>5. \A b : (box.len >= 8 => \A k \in 1..8 : data[k] = b[k]) => Has(q, box, b)
  BY <1>3 DEF Has
<1> QED BY <1>2, <1>4, <1>5 DEF q

LEMMA FilledUp ==
  ASSUME NEW n \in Nat, NEW len \in Nat, NEW b, Octet(b, n), n <= len
  PROVE  /\ Octet(Filled(b, len), len)
         /\ \A k \in 1..n : Filled(b, len)[k] = b[k]
         /\ \A k \in (n + 1)..len : Filled(b, len)[k] = 0
<1> DEFINE z == Zeros(len - n)
           f == Join(b, z)
<1>1. len - n \in Nat /\ n + (len - n) = len
  OBVIOUS
<1>2. Octet(z, len - n) /\ \A k \in 1..(len - n) : z[k] = 0
  BY <1>1, ZerosTyped DEF Octet
<1> HIDE DEF z
<1>3. /\ Octet(f, n + (len - n))
      /\ \A k \in 1..n : f[k] = b[k]
      /\ \A k \in 1..(len - n) : f[n + k] = z[k]
  BY <1>1, <1>2, Joined
<1>4. Filled(b, len) = f
  BY DEF Filled, Join, z, Octet
<1> HIDE DEF f
<1>5. ASSUME NEW k \in (n + 1)..len PROVE f[k] = 0
  <2> DEFINE j == k - n
  <2>1. j \in 1..(len - n) /\ n + j = k
    OBVIOUS
  <2> HIDE DEF j
  <2> QED BY <1>2, <1>3, <2>1
<1> QED BY <1>1, <1>3, <1>4, <1>5

(* The requests of the client. *)

\* The n-th request as it is sent, and the ones that wait when s were sent.
RequestCommand(n) == PdoCommand((n - 1) % EmbSeqs, 2, FALSE, FALSE, Request(n).id, Request(n).index,
                                Request(n).sub, Request(n).data)
Waiting(s, n) == [i \in 1..(n - s) |-> Request(s + i)]
ClientAt(k, n, s) == k = [last |-> k.last, next |-> s % EmbSeqs, queue |-> Waiting(s, n)]

LEMMA RequestTyped ==
  ASSUME NEW n \in Nat, 1 <= n, n <= MaxRequests
  PROVE  /\ IsCommand(RequestCommand(n))
         /\ RequestCommand(n).seq = (n - 1) % EmbSeqs /\ RequestCommand(n).id = Request(n).id
         /\ RequestCommand(n).index = \h2001 /\ RequestCommand(n).sub = n
         /\ Request(n).id # "Nil" /\ Request(n).index = \h2001 /\ Request(n).sub = n
<1>1. MaxRequests \in UNSIGNED8
  BY ProcessDataAssumption
<1>2. n \in UNSIGNED8
  BY <1>1, ByteRange
<1> DEFINE q == Request(n)
           c == RequestCommand(n)
           j == (n - 1) % EmbSeqs
<1>3. q.index = \h2001 /\ q.sub = n /\ q.id \in {"WriteByIndex", "ReadByIndex"}
  BY DEF Request
<1>4. q.data \in Seq(UNSIGNED8)
  <2>1. q.data = <<n>> \/ q.data = <<>>
    BY DEF Request
  <2> HIDE DEF q
  <2>2. <<n>> \in Seq(UNSIGNED8) /\ <<>> \in Seq(UNSIGNED8)
    BY <1>2
  <2> QED BY <2>1, <2>2
<1>5. \h2001 \in UNSIGNED16 /\ 1 \in UNSIGNED8
  BY DEF UNSIGNED16, UNSIGNED8
<1>6. j \in Nat /\ j < 64
  <2> DEFINE x == n - 1
  <2>1. x \in Nat
    OBVIOUS
  <2> HIDE DEF x
  <2>2. x % EmbSeqs \in Nat /\ x % EmbSeqs < EmbSeqs
    BY <2>1, NextNumber
  <2>3. j = x % EmbSeqs
    BY DEF x
  <2> HIDE DEF j
  <2> QED BY <2>2, <2>3, Numbers
<1> HIDE DEF q, j
<1>7. c = [seq |-> j, con |-> 2, tid |-> 1, resp |-> FALSE, abrt |-> FALSE, seg |-> "Expedited",
           id |-> q.id, index |-> q.index, sub |-> q.sub, data |-> q.data]
  BY DEF RequestCommand, PdoCommand, q, j
<1> HIDE DEF c
<1>8. /\ c.seq = j /\ c.con = 2 /\ c.tid = 1 /\ c.resp = FALSE /\ c.abrt = FALSE /\ c.seg = "Expedited"
      /\ c.id = q.id /\ c.index = q.index /\ c.sub = q.sub /\ c.data = q.data
  BY <1>7
<1>9. IsCommand(c)
  <2>1. c.resp \in BOOLEAN /\ c.abrt \in BOOLEAN
    BY <1>8
  <2>2. c.seq \in Nat /\ c.seq < 64 /\ c.con \in Nat /\ c.con < 4
    BY <1>6, <1>8
  <2>3. c.tid \in UNSIGNED8 /\ c.sub \in UNSIGNED8 /\ c.index \in UNSIGNED16
    BY <1>2, <1>3, <1>5, <1>8
  <2>4. c.id \in {"Nil", "WriteByIndex", "ReadByIndex"} /\ c.data \in Seq(UNSIGNED8) /\ c.seg = "Expedited"
    BY <1>3, <1>4, <1>8
  <2> QED BY <2>1, <2>2, <2>3, <2>4 DEF IsCommand
<1> QED BY <1>3, <1>8, <1>9 DEF c, q, j

Requests == {Request(n) : n \in Nat}
LEMMA WaitingSeq ==
  ASSUME NEW s \in Nat, NEW n \in Nat, s <= n
  PROVE  Waiting(s, n) \in Seq(Requests) /\ Len(Waiting(s, n)) = n - s
         /\ \A i \in 1..(n - s) : Waiting(s, n)[i] = Request(s + i)
<1>1. n - s \in Nat
  OBVIOUS
<1>2. \A i \in 1..(n - s) : Request(s + i) \in Requests
  BY DEF Requests
<1>3. Waiting(s, n) \in [1..(n - s) -> Requests]
  BY <1>2 DEF Waiting
<1>4. Waiting(s, n) \in Seq(Requests) /\ Len(Waiting(s, n)) = n - s
  <2> DEFINE w == Waiting(s, n)
             m == n - s
  <2> HIDE DEF w, m
  <2>1. m \in Nat /\ w \in [1..m -> Requests]
    BY <1>1, <1>3 DEF w, m
  <2>2. w \in Seq(Requests) /\ Len(w) = m
    BY <2>1
  <2> QED BY <2>2 DEF w, m
<1> QED BY <1>4 DEF Waiting

LEMMA WaitingEmpty ==
  ASSUME NEW s \in Nat, NEW n \in Nat, s <= n
  PROVE  Waiting(s, n) = <<>> <=> s = n
<1>1. Waiting(s, n) \in Seq(Requests) /\ Len(Waiting(s, n)) = n - s
  BY WaitingSeq
<1> DEFINE w == Waiting(s, n)
<1> HIDE DEF w
<1>2. w \in Seq(Requests) /\ Len(w) = n - s
  BY <1>1 DEF w
<1>3. w = <<>> <=> Len(w) = 0
  BY <1>2
<1> QED BY <1>2, <1>3 DEF w

LEMMA WaitingNext ==
  ASSUME NEW s \in Nat, NEW n \in Nat, s < n
  PROVE  Head(Waiting(s, n)) = Request(s + 1) /\ Tail(Waiting(s, n)) = Waiting(s + 1, n)
<1> DEFINE w == Waiting(s, n)
           u == Waiting(s + 1, n)
<1>1. w \in Seq(Requests) /\ Len(w) = n - s /\ \A i \in 1..(n - s) : w[i] = Request(s + i)
  BY WaitingSeq
<1>2. u \in Seq(Requests) /\ Len(u) = n - (s + 1) /\ \A i \in 1..(n - (s + 1)) : u[i] = Request(s + 1 + i)
  BY WaitingSeq
<1> HIDE DEF w, u
<1>3. Head(w) = w[1] /\ w[1] = Request(s + 1)
  BY <1>1
<1> DEFINE t == Tail(w)
<1>4. t \in Seq(Requests) /\ Len(t) = Len(w) - 1 /\ \A i \in 1..(Len(w) - 1) : t[i] = w[i + 1]
  BY <1>1
<1> HIDE DEF t
<1>5. Len(t) = Len(u)
  BY <1>1, <1>2, <1>4
<1>6. ASSUME NEW i \in 1..Len(u) PROVE t[i] = u[i]
  <2>1. i \in 1..(n - (s + 1)) /\ i \in 1..(Len(w) - 1) /\ i + 1 \in 1..(n - s) /\ s + (i + 1) = s + 1 + i
    BY <1>1, <1>2, <1>5
  <2>2. t[i] = w[i + 1] /\ w[i + 1] = Request(s + (i + 1)) /\ u[i] = Request(s + 1 + i)
    BY <1>1, <1>2, <1>4, <2>1
  <2> QED BY <2>1, <2>2
<1>7. t = u
  BY <1>2, <1>4, <1>5, <1>6
<1> QED BY <1>3, <1>7 DEF t, u, w

LEMMA WaitingMore ==
  ASSUME NEW s \in Nat, NEW n \in Nat, s <= n
  PROVE  Append(Waiting(s, n), Request(n + 1)) = Waiting(s, n + 1)
<1> DEFINE w == Waiting(s, n)
           u == Waiting(s, n + 1)
           q == Request(n + 1)
<1>1. w \in Seq(Requests) /\ Len(w) = n - s /\ \A i \in 1..(n - s) : w[i] = Request(s + i)
  BY WaitingSeq
<1>2. u \in Seq(Requests) /\ Len(u) = (n + 1) - s /\ \A i \in 1..((n + 1) - s) : u[i] = Request(s + i)
  BY WaitingSeq
<1>3. q \in Requests
  BY DEF Requests
<1> HIDE DEF w, u
<1> DEFINE t == Append(w, q)
<1>4. t \in Seq(Requests) /\ Len(t) = Len(w) + 1 /\ t[Len(w) + 1] = q /\ \A i \in 1..Len(w) : t[i] = w[i]
  <2> HIDE DEF q
  <2> QED BY <1>1, <1>3
<1> HIDE DEF t
<1>5. Len(t) = Len(u)
  BY <1>1, <1>2, <1>4
<1>6. ASSUME NEW i \in 1..Len(u) PROVE t[i] = u[i]
  <2>1. u[i] = Request(s + i)
    BY <1>2
  <2>2. CASE i <= n - s
    <3>1. i \in 1..(n - s) /\ i \in 1..Len(w)
      BY <1>1, <2>2
    <3> QED BY <1>1, <1>4, <2>1, <3>1
  <2>3. CASE i = Len(w) + 1
    <3>1. s + i = n + 1
      BY <1>1, <2>3
    <3> QED BY <1>4, <2>1, <2>3, <3>1 DEF q
  <2> QED BY <1>1, <1>2, <2>2, <2>3
<1>7. t = u
  BY <1>2, <1>4, <1>5, <1>6
<1> QED BY <1>7 DEF t, u, w, q

\* The next request of the queue, if there is one, goes into the container.
IsPending(r, len, n, s) ==
  LET k == Channel(r.ec, Box, ClientConn)
  IN /\ Box \in DOMAIN r.ec /\ Octet(r.data, len)
     /\ \/ ClientAt(k, n, s) /\ (len >= 8 => \A j \in 1..8 : r.data[j] = 0)
        \/ /\ s < n /\ ClientAt(k, n, s + 1)
           /\ \/ len >= 8 => \A j \in 1..8 : r.data[j] = 0
              \/ len >= 8 => \A j \in 1..8 : r.data[j] = serialize_pdo_sdo(RequestCommand(s + 1))[j]

LEMMA Pending ==
  ASSUME NEW ec, NEW n \in Nat, NEW s \in Nat, s <= n, n <= MaxRequests,
         ClientAt(Channel(ec, Box, ClientConn), n, s), NEW len \in Nat
  PROVE  IsPending(emb_get_pending_request(ec, Box, len), len, n, s)
<1> DEFINE k == Channel(ec, Box, ClientConn)
           q == Head(k.queue)
           b == serialize_pdo_sdo(PdoCommand(k.next, 2, FALSE, FALSE, q.id, q.index, q.sub, q.data))
           r == emb_get_pending_request(ec, Box, len)
           z == Zeros(len)
<1>1. k = [last |-> k.last, next |-> s % EmbSeqs, queue |-> Waiting(s, n)]
  BY DEF ClientAt
<1>2. k.next = s % EmbSeqs /\ k.queue = Waiting(s, n)
  <2> HIDE DEF k
  <2> QED BY <1>1
<1>3. Octet(z, len) /\ (len >= 8 => \A j \in 1..8 : z[j] = 0)
  <2>1. Octet(z, len) /\ \A j \in 1..len : z[j] = 0
    BY ZerosTyped DEF Octet
  <2> HIDE DEF z
  <2> QED BY <2>1
<1>4. CASE s = n
  <2>1. k.queue = <<>>
    BY <1>2, <1>4, WaitingEmpty
  <2>2. r = [ec |-> SetChannel(ec, Box, k), data |-> z]
    BY <2>1 DEF emb_get_pending_request
  <2> HIDE DEF k, z, r
  <2>3. r.ec = SetChannel(ec, Box, k) /\ r.data = z
    BY <2>2
  <2>4. Box \in DOMAIN r.ec /\ Channel(r.ec, Box, ClientConn) = k
    BY <2>3, ChannelSet
  <2>5. ClientAt(k, n, s)
    BY <1>1 DEF ClientAt
  <2>6. IsPending(r, len, n, s)
    BY <1>3, <2>3, <2>4, <2>5 DEF IsPending
  <2> QED BY <2>6 DEF r
<1>5. CASE s < n
  <2>1. k.queue # <<>> /\ q = Request(s + 1) /\ Tail(k.queue) = Waiting(s + 1, n)
    BY <1>2, <1>5, WaitingEmpty, WaitingNext
  <2> DEFINE m == [k EXCEPT !.queue = Tail(k.queue), !.next = (k.next + 1) % EmbSeqs]
             d == IF Len(b) > len THEN z ELSE Filled(b, len)
  <2>2. r = [ec |-> SetChannel(ec, Box, m), data |-> d]
    <3>1. r = [ec |-> SetChannel(ec, Box, [k EXCEPT !.queue = Tail(@), !.next = (@ + 1) % EmbSeqs]),
               data |-> d]
      BY <2>1 DEF emb_get_pending_request
    <3>2. [k EXCEPT !.queue = Tail(@), !.next = (@ + 1) % EmbSeqs] = m
      <4> HIDE DEF k
      <4> QED BY <1>1
    <3> QED BY <3>1, <3>2
  <2>3. b = serialize_pdo_sdo(RequestCommand(s + 1))
    <3>1. (s + 1) - 1 = s
      OBVIOUS
    <3> HIDE DEF k
    <3> QED BY <1>2, <2>1, <3>1 DEF RequestCommand
  <2>4. ClientAt(m, n, s + 1)
    <3>1. (k.next + 1) % EmbSeqs = (s + 1) % EmbSeqs
      BY <1>2, NextNumber
    <3> HIDE DEF k
    <3> DEFINE x == (s + 1) % EmbSeqs
               y == Waiting(s + 1, n)
    <3> HIDE DEF x, y
    <3>2. m = [k EXCEPT !.queue = y, !.next = x]
      BY <2>1, <3>1 DEF x, y
    <3> HIDE DEF m
    <3>3. m = [last |-> k.last, next |-> x, queue |-> y]
      BY <1>1, <3>2
    <3>4. m = [last |-> m.last, next |-> x, queue |-> y]
      BY <3>3
    <3> QED BY <3>4 DEF ClientAt, x, y
  <2>5. IsCommand(RequestCommand(s + 1))
    <3>1. MaxRequests \in Nat
      BY ProcessDataAssumption, ByteRange
    <3> QED BY <1>5, <3>1, RequestTyped
  <2> HIDE DEF k, m, q, r, z
  <2>6. \E l \in Nat : Octet(b, l) /\ l >= 8
    <3> DEFINE c == RequestCommand(s + 1)
               l == Len(c.data)
    <3> HIDE DEF c
    <3>1. Octet(serialize_pdo_sdo(c), 8 + l)
      BY <2>5, Serialized DEF c
    <3>2. l \in Nat
      BY <2>5 DEF c, IsCommand
    <3> HIDE DEF l, b
    <3>3. Octet(b, 8 + l)
      BY <2>3, <3>1 DEF c
    <3>4. 8 + l \in Nat /\ 8 + l >= 8
      BY <3>2
    <3> QED BY <3>3, <3>4
  <2>7. PICK l \in Nat : Octet(b, l) /\ l >= 8
    BY <2>6
  <2> HIDE DEF b, d
  <2>8. Len(b) = l
    BY <2>7 DEF Octet
  <2>9. r.ec = SetChannel(ec, Box, m) /\ r.data = d
    BY <2>2
  <2>10. Box \in DOMAIN r.ec /\ Channel(r.ec, Box, ClientConn) = m
    BY <2>9, ChannelSet
  <2>11. CASE l > len
    <3>1. d = z
      BY <2>8, <2>11 DEF d
    <3>2. IsPending(r, len, n, s)
      BY <1>3, <1>5, <2>4, <2>9, <2>10, <3>1 DEF IsPending
    <3> QED BY <3>2 DEF r
  <2>12. CASE l <= len
    <3>1. d = Filled(b, len)
      BY <2>8, <2>12 DEF d
    <3>2. Octet(d, len) /\ \A j \in 1..l : d[j] = b[j]
      BY <2>7, <2>12, <3>1, FilledUp
    <3>3. \A j \in 1..8 : d[j] = b[j]
      BY <2>7, <3>2
    <3>4. IsPending(r, len, n, s)
      BY <1>5, <2>3, <2>4, <2>9, <2>10, <3>2, <3>3 DEF IsPending
    <3> QED BY <3>4 DEF r
  <2> QED BY <2>11, <2>12
<1> QED BY <1>4, <1>5

\* The response that waits, if there is one, goes into the container.
IsServer(k) == /\ k = [last |-> k.last, pend |-> k.pend]
               /\ k.pend # None => k.pend[1] \in Seq(UNSIGNED8) /\ Len(k.pend[1]) >= 8
IsAnswer(r, len, k) ==
  /\ Octet(r.data, len)
  /\ Channel(r.es, Server, ServerConn) = [last |-> k.last, pend |-> None]
  /\ k.pend = None => (len >= 8 => \A j \in 1..8 : r.data[j] = 0)
  /\ k.pend # None => (len >= 8 => \A j \in 1..8 : r.data[j] = k.pend[1][j])

LEMMA Answering ==
  ASSUME NEW es, IsServer(Channel(es, Server, ServerConn)), NEW len \in Nat
  PROVE  IsAnswer(get_pending_response(es, Server, len), len, Channel(es, Server, ServerConn))
<1> DEFINE k == Channel(es, Server, ServerConn)
           p == IF k.pend = None THEN <<>> ELSE k.pend[1]
           m == [k EXCEPT !.pend = None]
           r == get_pending_response(es, Server, len)
           d == IF Len(p) > len THEN SubSeq(p, 1, len) ELSE Filled(p, len)
<1>1. r = [es |-> SetChannel(es, Server, m), data |-> d]
  BY DEF get_pending_response
<1>2. k = [last |-> k.last, pend |-> k.pend]
  BY DEF IsServer
<1>3. k.pend # None => k.pend[1] \in Seq(UNSIGNED8) /\ Len(k.pend[1]) >= 8
  BY DEF IsServer
<1> HIDE DEF k
<1>4. m = [last |-> k.last, pend |-> None]
  BY <1>2
<1> HIDE DEF m
<1>5. p \in Seq(UNSIGNED8)
  BY <1>3
<1>6. k.pend = None => Len(p) = 0
  OBVIOUS
<1>7. k.pend # None => p = k.pend[1] /\ Len(p) >= 8
  BY <1>3
<1> HIDE DEF p, r, d
<1>8. r.es = SetChannel(es, Server, m) /\ r.data = d
  BY <1>1
<1>9. Channel(r.es, Server, ServerConn) = m
  BY <1>8, ChannelSet
<1> DEFINE n == Len(p)
<1>10. n \in Nat /\ Octet(p, n)
  BY <1>5, OctetIs
<1>11. CASE n > len
  <2>1. d = SubSeq(p, 1, len)
    BY <1>11 DEF d
  <2>2. Octet(Part(p, 1, len), len - 1 + 1) /\ \A j \in 1..(len - 1 + 1) : Part(p, 1, len)[j] = p[1 + j - 1]
    BY <1>5, <1>10, <1>11, PartOf
  <2>3. len - 1 + 1 = len /\ \A j \in 1..len : 1 + j - 1 = j
    OBVIOUS
  <2>4. Octet(d, len) /\ \A j \in 1..len : d[j] = p[j]
    BY <2>1, <2>2, <2>3 DEF Part
  <2>5. k.pend # None
    BY <1>6, <1>10, <1>11
  <2>6. len >= 8 => \A j \in 1..8 : d[j] = p[j]
    BY <2>4
  <2>7. IsAnswer(r, len, k)
    BY <1>4, <1>7, <1>8, <1>9, <2>4, <2>5, <2>6 DEF IsAnswer
  <2> QED BY <2>7 DEF r, k
<1>12. CASE n <= len
  <2>1. d = Filled(p, len)
    BY <1>10, <1>12 DEF d
  <2>2. Octet(d, len) /\ (\A j \in 1..n : d[j] = p[j]) /\ \A j \in (n + 1)..len : d[j] = 0
    BY <1>10, <1>12, <2>1, FilledUp
  <2>3. k.pend = None => (len >= 8 => \A j \in 1..8 : d[j] = 0)
    <3> HIDE DEF n
    <3>1. k.pend = None => n = 0
      BY <1>6 DEF n
    <3> QED BY <1>10, <2>2, <3>1
  <2>4. k.pend # None => (len >= 8 => \A j \in 1..8 : d[j] = p[j])
    <3>1. k.pend # None => n >= 8
      BY <1>7
    <3> HIDE DEF n
    <3> QED BY <1>10, <2>2, <3>1
  <2>5. IsAnswer(r, len, k)
    BY <1>4, <1>7, <1>8, <1>9, <2>2, <2>3, <2>4 DEF IsAnswer
  <2> QED BY <2>5 DEF r, k
<1> QED BY <1>10, <1>11, <1>12

(* An entry of a TPDO. *)

SendOk(e, ch, box) ==
  /\ IsEntry(e)
  /\ ByteAligned(e) => IF IsContainer(e.index)
                       THEN e.index = ch /\ OffsetOf(e) = box.at /\ LengthOf(e) = box.len
                       ELSE EndOf(e) <= box.at \/ box.at + box.len <= OffsetOf(e)

LEMMA TpdoValue ==
  ASSUME NEW o, NEW ch, NEW out, NEW in, Configured(o, ch, out, in), NEW i, IsTpdoMapping(i),
         NEW k \in Nat, k # 0, IsMapping(read(o, i, k))
  PROVE  SendOk(from_u64(read(o, i, k)[1]), ch, out)
<1>1. IsDictionary(o)
  BY DEF Configured
<1>2. /\ i \in DOMAIN o /\ k \in DOMAIN o[i].vals /\ read(o, i, k)[1] = o[i].vals[k]
      /\ o[i].vals[k] \in ObjectValue /\ o[i].vals[k].t = "U64"
  BY <1>1, MappingRead
<1>3. Placed(o[i].vals, TRUE, ch, out, in)
  BY <1>2 DEF Configured
<1>4. Sendable(o[i].vals[k], ch, out)
  BY <1>2, <1>3 DEF Placed
<1> DEFINE v == o[i].vals[k]
<1> HIDE DEF v
<1>5. v.t = "U64" /\ v \in ObjectValue /\ Sendable(v, ch, out)
  BY <1>2, <1>4 DEF v
<1>6. SendOk(from_u64(v), ch, out)
  BY <1>5, EntryTyped DEF SendOk, Sendable
<1> QED BY <1>2, <1>6 DEF v

LEMMA ZeroEntry ==
  ASSUME NEW ch, NEW box \in [at : Nat, len : Nat]
  PROVE  SendOk(from_u64([t |-> "U64", d |-> Zeros(8)]), ch, box)
<1> DEFINE z == Zeros(8)
           v == [t |-> "U64", d |-> z]
           e == from_u64(v)
<1>1. z \in Seq(UNSIGNED8) /\ Len(z) = 8 /\ \A k \in 1..8 : z[k] = 0
  BY ZerosTyped
<1>2. v \in ObjectValue
  <2> HIDE DEF z
  <2>1. "U64" \in ObjectType /\ Width["U64"] = 8
    BY DEF ObjectType, Width
  <2> QED BY <1>1, <2>1 DEF ObjectValue
<1>3. IsEntry(e)
  <2> HIDE DEF z
  <2> QED BY <1>2, EntryTyped
<1> HIDE DEF z
<1>4. /\ Octet(Part(z, 1, 2), 2 - 1 + 1) /\ \A k \in 1..(2 - 1 + 1) : Part(z, 1, 2)[k] = z[1 + k - 1]
      /\ Octet(Part(z, 5, 6), 6 - 5 + 1) /\ \A k \in 1..(6 - 5 + 1) : Part(z, 5, 6)[k] = z[5 + k - 1]
      /\ Octet(Part(z, 7, 8), 8 - 7 + 1) /\ \A k \in 1..(8 - 7 + 1) : Part(z, 7, 8)[k] = z[7 + k - 1]
  <2>1. z \in Seq(UNSIGNED8) /\ Len(z) >= 8
    BY <1>1
  <2>2. Octet(Part(z, 1, 2), 2 - 1 + 1) /\ \A k \in 1..(2 - 1 + 1) : Part(z, 1, 2)[k] = z[1 + k - 1]
    BY <2>1, PartOf
  <2>3. Octet(Part(z, 5, 6), 6 - 5 + 1) /\ \A k \in 1..(6 - 5 + 1) : Part(z, 5, 6)[k] = z[5 + k - 1]
    BY <2>1, PartOf
  <2>4. Octet(Part(z, 7, 8), 8 - 7 + 1) /\ \A k \in 1..(8 - 7 + 1) : Part(z, 7, 8)[k] = z[7 + k - 1]
    BY <2>1, PartOf
  <2> QED BY <2>2, <2>3, <2>4
<1>5. /\ Octet(Part(z, 1, 2), 2) /\ Part(z, 1, 2)[1] = 0 /\ Part(z, 1, 2)[2] = 0
      /\ Octet(Part(z, 5, 6), 2) /\ Part(z, 5, 6)[1] = 0 /\ Part(z, 5, 6)[2] = 0
      /\ Octet(Part(z, 7, 8), 2) /\ Part(z, 7, 8)[1] = 0 /\ Part(z, 7, 8)[2] = 0
  <2>1. z[1] = 0 /\ z[2] = 0 /\ z[5] = 0 /\ z[6] = 0 /\ z[7] = 0 /\ z[8] = 0
    BY <1>1
  <2>2. Octet(Part(z, 1, 2), 2) /\ Part(z, 1, 2)[1] = z[1] /\ Part(z, 1, 2)[2] = z[2]
    BY <1>4
  <2>3. Octet(Part(z, 5, 6), 2) /\ Part(z, 5, 6)[1] = z[5] /\ Part(z, 5, 6)[2] = z[6]
    BY <1>4
  <2>4. Octet(Part(z, 7, 8), 2) /\ Part(z, 7, 8)[1] = z[7] /\ Part(z, 7, 8)[2] = z[8]
    BY <1>4
  <2> QED BY <2>1, <2>2, <2>3, <2>4
<1>6. Num(Part(z, 1, 2)) = 0 /\ Num(Part(z, 5, 6)) = 0 /\ Num(Part(z, 7, 8)) = 0
  BY <1>5, NumTwo
<1>7. e.index = 0 /\ e.offset = 0 /\ e.length = 0
  BY <1>6 DEF from_u64, Part
<1> HIDE DEF e
<1>8. OffsetOf(e) = 0 /\ EndOf(e) = 0
  BY <1>7 DEF OffsetOf, EndOf, LengthOf
<1>9. ~IsContainer(e.index)
  BY <1>7 DEF IsContainer, IsServerChannel, IsClientChannel
<1>10. SendOk(e, ch, box)
  BY <1>3, <1>8, <1>9 DEF SendOk
<1> QED BY <1>10 DEF e, z

IsBuild(b) == /\ b = [nd |-> b.nd, err |-> b.err, p |-> b.p]
              /\ IsNode(b.nd) /\ b.p \in Seq(UNSIGNED8)

LEMMA SetErr ==
  ASSUME NEW b, IsBuild(b), NEW x
  PROVE  LET c == [b EXCEPT !.err = x] IN IsBuild(c) /\ c.nd = b.nd /\ c.p = b.p
<1> DEFINE c == [b EXCEPT !.err = x]
<1>1. c = [nd |-> b.nd, err |-> x, p |-> b.p]
  BY DEF IsBuild
<1> HIDE DEF c
<1>2. IsBuild(c) /\ c.nd = b.nd /\ c.p = b.p
  BY <1>1 DEF IsBuild
<1> QED BY <1>2 DEF c

LEMMA SetPayload ==
  ASSUME NEW b, IsBuild(b), NEW x \in Seq(UNSIGNED8)
  PROVE  LET c == [b EXCEPT !.p = x] IN IsBuild(c) /\ c.nd = b.nd /\ c.p = x
<1> DEFINE c == [b EXCEPT !.p = x]
<1>1. c = [nd |-> b.nd, err |-> b.err, p |-> x]
  BY DEF IsBuild
<1> HIDE DEF c
<1>2. IsBuild(c) /\ c.nd = b.nd /\ c.p = x
  BY <1>1 DEF IsBuild
<1> QED BY <1>2 DEF c

IsClientBuild(b, c, ec, x) ==
  /\ IsBuild(c) /\ c.p = x /\ c.nd.ec = ec /\ c.nd.od = b.nd.od /\ c.nd.es = b.nd.es
  /\ c.nd.ran = b.nd.ran /\ c.nd.got = b.nd.got
LEMMA ClientContainer ==
  ASSUME NEW b, IsBuild(b), NEW e, e.index = Box,
         Put(b.p, OffsetOf(e), emb_get_pending_request(b.nd.ec, Box, LengthOf(e)).data) \in Seq(UNSIGNED8)
  PROVE  LET r == emb_get_pending_request(b.nd.ec, Box, LengthOf(e))
         IN IsClientBuild(b, Container(b, e), r.ec, Put(b.p, OffsetOf(e), r.data))
<1> DEFINE r == emb_get_pending_request(b.nd.ec, Box, LengthOf(e))
           x == Put(b.p, OffsetOf(e), r.data)
           c == Container(b, e)
           n == [b.nd EXCEPT !.ec = r.ec]
<1>1. c = [b EXCEPT !.nd.ec = r.ec, !.p = Put(@, OffsetOf(e), r.data)]
  BY ClientSide DEF Container
<1>2. x \in Seq(UNSIGNED8)
  OBVIOUS
<1> HIDE DEF r
<1>3. c = [nd |-> n, err |-> b.err, p |-> x]
  BY <1>1 DEF IsBuild
<1>4. n = [od |-> b.nd.od, es |-> b.nd.es, ec |-> r.ec, errs |-> b.nd.errs, ran |-> b.nd.ran, got |-> b.nd.got]
  BY DEF IsBuild, IsNode
<1> HIDE DEF x, c, n
<1>5. c.nd = n /\ c.p = x /\ c.err = b.err
  BY <1>3
<1>6. IsNode(n) /\ n.od = b.nd.od /\ n.es = b.nd.es /\ n.ec = r.ec /\ n.ran = b.nd.ran /\ n.got = b.nd.got
  BY <1>4 DEF IsNode
<1>7. IsClientBuild(b, c, r.ec, x)
  BY <1>2, <1>3, <1>5, <1>6 DEF IsClientBuild, IsBuild
<1> QED BY <1>7 DEF c, x, r

IsServerBuild(b, c, es, x) ==
  /\ IsBuild(c) /\ c.p = x /\ c.nd.es = es /\ c.nd.od = b.nd.od /\ c.nd.ec = b.nd.ec
  /\ c.nd.ran = b.nd.ran /\ c.nd.got = b.nd.got
LEMMA ServerContainer ==
  ASSUME NEW b, IsBuild(b), NEW e, e.index = Server,
         Put(b.p, OffsetOf(e), get_pending_response(b.nd.es, Server, LengthOf(e)).data) \in Seq(UNSIGNED8)
  PROVE  LET r == get_pending_response(b.nd.es, Server, LengthOf(e))
         IN IsServerBuild(b, Container(b, e), r.es, Put(b.p, OffsetOf(e), r.data))
<1> DEFINE r == get_pending_response(b.nd.es, Server, LengthOf(e))
           x == Put(b.p, OffsetOf(e), r.data)
           c == Container(b, e)
           n == [b.nd EXCEPT !.es = r.es]
<1>1. c = [b EXCEPT !.nd.es = r.es, !.p = Put(@, OffsetOf(e), r.data)]
  BY ServerSide DEF Container
<1>2. x \in Seq(UNSIGNED8)
  OBVIOUS
<1> HIDE DEF r
<1>3. c = [nd |-> n, err |-> b.err, p |-> x]
  BY <1>1 DEF IsBuild
<1>4. n = [od |-> b.nd.od, es |-> r.es, ec |-> b.nd.ec, errs |-> b.nd.errs, ran |-> b.nd.ran, got |-> b.nd.got]
  BY DEF IsBuild, IsNode
<1> HIDE DEF x, c, n
<1>5. c.nd = n /\ c.p = x /\ c.err = b.err
  BY <1>3
<1>6. IsNode(n) /\ n.od = b.nd.od /\ n.es = r.es /\ n.ec = b.nd.ec /\ n.ran = b.nd.ran /\ n.got = b.nd.got
  BY <1>4 DEF IsNode
<1>7. IsServerBuild(b, c, r.es, x)
  BY <1>2, <1>3, <1>5, <1>6 DEF IsServerBuild, IsBuild
<1> QED BY <1>7 DEF c, x, r

(* The PReq: the container is empty or has a request that was not sent before. *)

Carries(b, n, s0) ==
  \E s \in Nat : /\ s0 <= s /\ s <= n /\ ClientAt(ClientOf(b.nd), n, s)
                 /\ \/ Blank(b.p, OutBox)
                    \/ s0 < s /\ Has(b.p, OutBox, serialize_pdo_sdo(RequestCommand(s)))
MnBuilt(m, n, s0, b) ==
  /\ IsBuild(b)
  /\ b.nd.od = m.od /\ b.nd.es = m.es /\ b.nd.ran = m.ran /\ b.nd.got = m.got
  /\ Box \in DOMAIN m.ec => Box \in DOMAIN b.nd.ec
  /\ Carries(b, n, s0)

LEMMA MnBuiltApart ==
  ASSUME NEW m, NEW n, NEW s0, NEW b, MnBuilt(m, n, s0, b),
         NEW c, IsBuild(c), c.nd = b.nd, SameBox(b.p, c.p, OutBox)
  PROVE  MnBuilt(m, n, s0, c)
<1>1. Blank(b.p, OutBox) => Blank(c.p, OutBox)
  BY SameBoxHas, Boxes
<1>2. \A x : Has(b.p, OutBox, x) => Has(c.p, OutBox, x)
  BY SameBoxHas, Boxes
<1>3. Carries(c, n, s0)
  <2>1. PICK s \in Nat : /\ s0 <= s /\ s <= n /\ ClientAt(ClientOf(b.nd), n, s)
                         /\ \/ Blank(b.p, OutBox)
                            \/ s0 < s /\ Has(b.p, OutBox, serialize_pdo_sdo(RequestCommand(s)))
    BY DEF MnBuilt, Carries
  <2> QED BY <1>1, <1>2, <2>1 DEF Carries
<1> QED BY <1>3 DEF MnBuilt

LEMMA SameBoxSame == ASSUME NEW p \in Seq(UNSIGNED8), NEW box PROVE SameBox(p, p, box)
BY DEF SameBox

LEMMA MnBuiltContainer ==
  ASSUME NEW m, NEW n \in Nat, n <= MaxRequests, NEW s0 \in Nat, NEW b, MnBuilt(m, n, s0, b),
         NEW e, e.index = Box, OffsetOf(e) = OutBox.at, LengthOf(e) = OutBox.len
  PROVE  MnBuilt(m, n, s0, Container(b, e))
<1> DEFINE len == OutBox.len
           r == emb_get_pending_request(b.nd.ec, Box, len)
           x == Put(b.p, OutBox.at, r.data)
           c == Container(b, e)
<1>1. IsBuild(b) /\ b.p \in Seq(UNSIGNED8)
  BY DEF MnBuilt, IsBuild
<1>2. OutBox \in [at : Nat, len : Nat] /\ len \in Nat
  BY Boxes
<1>3. PICK s \in Nat : s0 <= s /\ s <= n /\ ClientAt(ClientOf(b.nd), n, s)
  BY DEF MnBuilt, Carries
<1>4. IsPending(r, len, n, s)
  BY <1>2, <1>3, Pending DEF ClientOf
<1>5. Octet(r.data, len)
  BY <1>4 DEF IsPending
<1> DEFINE w == serialize_pdo_sdo(RequestCommand(s + 1))
<1>6. /\ x \in Seq(UNSIGNED8)
      /\ (len >= 8 => \A k \in 1..8 : r.data[k] = 0) => Blank(x, OutBox)
      /\ (len >= 8 => \A k \in 1..8 : r.data[k] = w[k]) => Has(x, OutBox, w)
  <2> HIDE DEF r, w
  <2> QED BY <1>1, <1>2, <1>5, PutBox
<1>7. IsClientBuild(b, c, r.ec, x)
  <2>1. Put(b.p, OffsetOf(e), emb_get_pending_request(b.nd.ec, Box, LengthOf(e)).data) = x
    OBVIOUS
  <2>2. emb_get_pending_request(b.nd.ec, Box, LengthOf(e)) = r
    OBVIOUS
  <2> QED BY <1>1, <1>6, <2>1, <2>2, ClientContainer
<1> HIDE DEF r, x, c, w, len
<1>8. c.p = x /\ c.nd.ec = r.ec
  BY <1>7 DEF IsClientBuild
<1>9. ClientOf(c.nd) = Channel(r.ec, Box, ClientConn)
  BY <1>8 DEF ClientOf
<1>10. Carries(c, n, s0)
  <2>1. CASE ClientAt(ClientOf(c.nd), n, s) /\ (len >= 8 => \A j \in 1..8 : r.data[j] = 0)
    <3>1. Blank(c.p, OutBox)
      BY <1>6, <1>8, <2>1
    <3> QED BY <1>3, <2>1, <3>1 DEF Carries
  <2>2. CASE /\ s < n /\ ClientAt(ClientOf(c.nd), n, s + 1)
             /\ \/ len >= 8 => \A j \in 1..8 : r.data[j] = 0
                \/ len >= 8 => \A j \in 1..8 : r.data[j] = w[j]
    <3>1. Blank(c.p, OutBox) \/ Has(c.p, OutBox, w)
      BY <1>6, <1>8, <2>2
    <3>2. s + 1 \in Nat /\ s0 <= s + 1 /\ s + 1 <= n /\ s0 < s + 1
      BY <1>3, <2>2
    <3> DEFINE t == s + 1
    <3> HIDE DEF t
    <3>3. t \in Nat /\ s0 <= t /\ t <= n /\ s0 < t /\ ClientAt(ClientOf(c.nd), n, t)
      BY <2>2, <3>2 DEF t
    <3>4. w = serialize_pdo_sdo(RequestCommand(t))
      BY DEF w, t
    <3> QED BY <3>1, <3>3, <3>4 DEF Carries
  <2> QED BY <1>4, <1>9, <2>1, <2>2 DEF IsPending, w
<1>11. Box \in DOMAIN c.nd.ec
  BY <1>4, <1>8 DEF IsPending
<1>12. MnBuilt(m, n, s0, c)
  BY <1>7, <1>10, <1>11 DEF MnBuilt, IsClientBuild
<1> QED BY <1>12 DEF c

LEMMA MnSends ==
  ASSUME NEW m, IsDictionary(m.od), NEW n \in Nat, n <= MaxRequests, NEW s0 \in Nat,
         NEW b, MnBuilt(m, n, s0, b), NEW e, SendOk(e, Box, OutBox)
  PROVE  MnBuilt(m, n, s0, preq_mapping_entry(b, e))
<1> DEFINE v == read(b.nd.od, e.index, e.sub)
           d == serialize(v[1])
           l == Least(Len(d), LengthOf(e))
           c == preq_mapping_entry(b, e)
<1>1. IsBuild(b) /\ b.p \in Seq(UNSIGNED8) /\ b.nd.od = m.od
  BY DEF MnBuilt, IsBuild
<1>2. IsEntry(e) /\ OffsetOf(e) \in Nat /\ LengthOf(e) \in Nat /\ EndOf(e) = OffsetOf(e) + LengthOf(e)
  BY EntryNumbers DEF SendOk
<1>3. CASE b.err # "Ok" \/ ~ByteAligned(e)
  BY <1>3 DEF preq_mapping_entry
<1>4. CASE b.err = "Ok" /\ ByteAligned(e) /\ EndOf(e) > Len(b.p)
  <2>1. c = [b EXCEPT !.err = "PdoMapOverrun"]
    BY <1>4 DEF preq_mapping_entry
  <2>2. IsBuild(c) /\ c.nd = b.nd /\ c.p = b.p
    BY <1>1, <2>1, SetErr
  <2> HIDE DEF c
  <2>3. SameBox(b.p, c.p, OutBox)
    BY <1>1, <2>2, SameBoxSame
  <2>4. MnBuilt(m, n, s0, c)
    BY <2>2, <2>3, MnBuiltApart
  <2> QED BY <2>4 DEF c
<1>5. CASE b.err = "Ok" /\ ByteAligned(e) /\ ~(EndOf(e) > Len(b.p)) /\ IsContainer(e.index)
  <2>1. c = Container(b, e)
    BY <1>5 DEF preq_mapping_entry
  <2>2. e.index = Box /\ OffsetOf(e) = OutBox.at /\ LengthOf(e) = OutBox.len
    BY <1>5 DEF SendOk
  <2> QED BY <2>1, <2>2, MnBuiltContainer
<1>6. CASE b.err = "Ok" /\ ByteAligned(e) /\ ~(EndOf(e) > Len(b.p)) /\ ~IsContainer(e.index) /\ v = None
  BY <1>6 DEF preq_mapping_entry
<1>7. CASE b.err = "Ok" /\ ByteAligned(e) /\ ~(EndOf(e) > Len(b.p)) /\ ~IsContainer(e.index) /\ v # None
  <2> DEFINE x == Put(b.p, OffsetOf(e), SubSeq(d, 1, l))
  <2>1. c = [b EXCEPT !.p = x]
    <3>1. c = [b EXCEPT !.p = Put(@, OffsetOf(e), SubSeq(d, 1, l))]
      BY <1>7 DEF preq_mapping_entry
    <3> HIDE DEF c, d, l
    <3> QED BY <1>1, <3>1 DEF IsBuild
  <2>2. d \in Seq(UNSIGNED8)
    BY <1>1, <1>2, <1>7, ReadBytes DEF IsEntry
  <2> HIDE DEF d
  <2>3. l \in Nat /\ l <= Len(d) /\ l <= LengthOf(e)
    BY <1>2, <2>2 DEF Least
  <2> HIDE DEF l
  <2>4. Octet(Part(d, 1, l), l - 1 + 1)
    BY <2>2, <2>3, PartOf
  <2>5. SubSeq(d, 1, l) \in Seq(UNSIGNED8) /\ Len(SubSeq(d, 1, l)) = l
    BY <2>3, <2>4 DEF Octet, Part
  <2> DEFINE y == SubSeq(d, 1, l)
  <2> HIDE DEF y, c
  <2>6. SameBox(b.p, x, OutBox)
    <3>1. EndOf(e) <= OutBox.at \/ OutBox.at + OutBox.len <= OffsetOf(e)
      BY <1>7 DEF SendOk
    <3>2. y \in Seq(UNSIGNED8) /\ Len(y) = l
      BY <2>5 DEF y
    <3>3. OffsetOf(e) + Len(y) <= OutBox.at \/ OutBox.at + OutBox.len <= OffsetOf(e)
      BY <1>2, <2>3, <3>1, <3>2, Boxes
    <3>4. SameBox(b.p, Put(b.p, OffsetOf(e), y), OutBox)
      BY <1>1, <1>2, <3>2, <3>3, PutApart, Boxes
    <3> QED BY <3>4 DEF y
  <2> HIDE DEF x
  <2>7. IsBuild(c) /\ c.nd = b.nd /\ c.p = x
    BY <1>1, <2>1, <2>6, SetPayload DEF SameBox
  <2>8. MnBuilt(m, n, s0, c)
    BY <2>6, <2>7, MnBuiltApart
  <2> QED BY <2>8 DEF c
<1> QED BY <1>3, <1>4, <1>5, <1>6, <1>7

LEMMA ReadByte ==
  ASSUME NEW o, IsDictionary(o), NEW i, NEW s \in UNSIGNED8, NEW n \in UNSIGNED8
  PROVE  read_or("U8", o, i, s, n) \in UNSIGNED8
<1> DEFINE v == read(o, i, s)
<1>1. CASE v # None /\ v[1].t = "U8"
  <2>1. v[1] \in ObjectValue
    BY <1>1, ReadValue
  <2>2. "U8" \in DOMAIN Width /\ Width["U8"] = 1
    BY DEF Width
  <2> HIDE DEF v
  <2>3. Octet(v[1].d, 1)
    BY <1>1, <2>1, <2>2 DEF ObjectValue, Octet
  <2>4. Num(v[1].d) \in UNSIGNED8
    BY <2>3, NumOne
  <2>5. read_or("U8", o, i, s, n) = Num(v[1].d)
    BY <1>1 DEF read_or, read_as, Some, None, v
  <2> QED BY <2>4, <2>5
<1>2. CASE ~(v # None /\ v[1].t = "U8")
  <2>1. read_or("U8", o, i, s, n) = n
    BY <1>2 DEF read_or, read_as
  <2> QED BY <2>1
<1> QED BY <1>1, <1>2

LEMMA BlankZeros ==
  ASSUME NEW box \in [at : Nat, len : Nat], NEW n \in Nat PROVE Blank(Zeros(n), box)
<1> DEFINE z == Zeros(n)
<1>1. Len(z) = n /\ \A k \in 1..n : z[k] = 0
  BY ZerosTyped
<1> HIDE DEF z
<1>2. ASSUME box.len >= 8, Inside(box, z), NEW k \in 1..8 PROVE z[box.at + k] = 0
  <2> DEFINE j == box.at + k
  <2>1. j \in 1..n
    BY <1>1, <1>2 DEF Inside
  <2> HIDE DEF j
  <2>2. z[j] = 0
    BY <1>1, <2>1
  <2> QED BY <2>2 DEF j
<1>3. Blank(z, box)
  BY <1>2 DEF Blank
<1> QED BY <1>3 DEF z

LEMMA BuildStarts ==
  ASSUME NEW nd, IsNode(nd), NEW limit \in Nat, NEW box \in [at : Nat, len : Nat]
  PROVE  LET b == Building(nd, limit) IN IsBuild(b) /\ b.nd = nd /\ Blank(b.p, box)
<1> DEFINE l == Least(limit, MaxIsochronous)
           b == Building(nd, limit)
<1>1. l \in Nat
  BY DEF Least, MaxIsochronous
<1>2. b = [nd |-> nd, err |-> "Ok", p |-> Zeros(l)]
  BY DEF Building
<1> HIDE DEF l, b
<1>3. Zeros(l) \in Seq(UNSIGNED8) /\ Blank(Zeros(l), box)
  BY <1>1, ZerosTyped, BlankZeros
<1>4. b.nd = nd /\ b.p = Zeros(l) /\ b.err = "Ok"
  BY <1>2
<1>5. IsBuild(b)
  BY <1>2, <1>3, <1>4 DEF IsBuild
<1> QED BY <1>3, <1>4, <1>5 DEF b

LEMMA PReqBuilt ==
  ASSUME NEW m, IsNode(m), Configured(m.od, Box, OutBox, InBox), NEW n \in Nat, n <= MaxRequests,
         NEW s0 \in Nat, s0 <= n, ClientAt(ClientOf(m), n, s0), NEW chan, IsTpdoMapping(chan + \h200)
  PROVE  MnBuilt(m, n, s0, mn_build_tpdo_payload(m, chan))
<1> DEFINE at == preq_pass(m, chan)
           i  == chan + \h200
           c  == EntryCount(m.od, i)
           T  == {k \in Nat : k <= c => MnBuilt(m, n, s0, at[k])}
<1>1. IsDictionary(m.od)
  BY DEF Configured
<1>2. c \in Nat
  BY <1>1, EntryCountNat
<1>3. /\ at[0] = Building(m, PReqLimit(m.od, chan))
      /\ \A k \in 1..c : at[k] = preq_step(at[k - 1], read(m.od, i, k))
  BY <1>1, PReqPass
<1>4. PReqLimit(m.od, chan) \in Nat
  <2>1. 0 \in UNSIGNED8 /\ 1 \in UNSIGNED8 /\ 36 \in Nat
    BY ByteRange
  <2> DEFINE s == read_or("U8", m.od, chan, 1, 0)
  <2>2. s \in UNSIGNED8
    BY <1>1, <2>1, ReadByte
  <2> HIDE DEF s
  <2>3. read_or("U16", m.od, \h1F8B, s, 36) \in Nat
    BY <1>1, <2>1, <2>2, ReadNumber
  <2> QED BY <2>3 DEF PReqLimit, s
<1>5. mn_build_tpdo_payload(m, chan) = at[c]
  BY DEF mn_build_tpdo_payload
<1>6. IsTpdoMapping(i)
  OBVIOUS
<1> HIDE DEF at, c, i
<1>7. 0 \in T
  <2>1. IsBuild(at[0]) /\ at[0].nd = m /\ Blank(at[0].p, OutBox)
    BY <1>3, <1>4, BuildStarts, Boxes
  <2>2. Carries(at[0], n, s0)
    BY <2>1 DEF Carries
  <2>3. MnBuilt(m, n, s0, at[0])
    BY <2>1, <2>2 DEF MnBuilt
  <2> QED BY <2>3
<1>8. ASSUME NEW k \in Nat, k \in T PROVE k + 1 \in T
  <2>1. SUFFICES ASSUME k + 1 <= c PROVE MnBuilt(m, n, s0, at[k + 1])
    OBVIOUS
  <2>2. MnBuilt(m, n, s0, at[k])
    BY <1>2, <1>8, <2>1
  <2> DEFINE q == read(m.od, i, k + 1)
  <2>3. at[k + 1] = preq_step(at[k], q)
    <3>1. k + 1 \in 1..c /\ (k + 1) - 1 = k
      BY <1>2, <2>1
    <3> QED BY <1>3, <3>1
  <2>4. CASE ~IsMapping(q)
    <3>1. at[k + 1] = at[k]
      BY <2>3, <2>4 DEF preq_step
    <3> QED BY <2>2, <3>1
  <2>5. CASE IsMapping(q)
    <3>1. at[k + 1] = preq_mapping_entry(at[k], from_u64(q[1]))
      BY <2>3, <2>5 DEF preq_step
    <3>2. SendOk(from_u64(q[1]), Box, OutBox)
      BY <1>6, <2>5, TpdoValue
    <3> HIDE DEF q
    <3> QED BY <1>1, <2>2, <3>1, <3>2, MnSends
  <2> QED BY <2>4, <2>5
<1>9. c \in T
  <2> HIDE DEF T
  <2> QED BY <1>2, <1>7, <1>8, SetInduction
<1>10. c <= c
  BY <1>2
<1> QED BY <1>5, <1>9, <1>10

\* A PReq is built, or none is sent.
IsPReq(m, n, s0, r, s) ==
  /\ IsNode(r.nd)
  /\ r.nd.od = m.od /\ r.nd.es = m.es /\ r.nd.ran = m.ran /\ r.nd.got = m.got
  /\ Box \in DOMAIN m.ec => Box \in DOMAIN r.nd.ec
  /\ s0 <= s /\ s <= n /\ ClientAt(ClientOf(r.nd), n, s)
  /\ r.frame = None \/ \E f : /\ r.frame = Some(f) /\ f.p \in Seq(UNSIGNED8)
                              /\ \/ Blank(f.p, OutBox)
                                 \/ s0 < s /\ Has(f.p, OutBox, serialize_pdo_sdo(RequestCommand(s)))

LEMMA TpdoChannel ==
  ASSUME NEW S, \A i \in S : i \in \h1800..\h18FF, S # {}
  PROVE  IsTpdoMapping(Lowest(S) + \h200)
<1> DEFINE c == Lowest(S)
<1>1. S \in SUBSET Nat
  OBVIOUS
<1>2. c \in \h1800..\h18FF
  <2>1. c \in S
    BY <1>1, LowestIn
  <2> HIDE DEF c
  <2> QED BY <2>1
<1> HIDE DEF c
<1>3. IsTpdoMapping(c + \h200)
  BY <1>2 DEF IsTpdoMapping
<1> QED BY <1>3 DEF c

LEMMA PReqFrame ==
  ASSUME NEW m, IsNode(m), Configured(m.od, Box, OutBox, InBox), NEW n \in Nat, n <= MaxRequests,
         NEW s0 \in Nat, s0 <= n, ClientAt(ClientOf(m), n, s0), NEW target, NEW op
  PROVE  \E s \in Nat : IsPReq(m, n, s0, build_preq_frame(m, target, op), s)
<1> DEFINE chans == {i \in DOMAIN m.od : i \in \h1800..\h18FF /\ read_as("U8", m.od, i, 1) = Some(target)}
           chan == Lowest(chans)
           b == mn_build_tpdo_payload(m, chan)
           r == build_preq_frame(m, target, op)
           Frame(p, v) == [src |-> MN, rd |-> op, version |-> v, p |-> p]
<1>1. CASE chans = {}
  <2> DEFINE x == <<>>
  <2>1. r = [nd |-> m, frame |-> Some(Frame(x, 0))]
    BY <1>1 DEF build_preq_frame
  <2>2. x \in Seq(UNSIGNED8) /\ Blank(x, OutBox)
    <3>1. x \in Seq(UNSIGNED8) /\ Len(x) = 0
      OBVIOUS
    <3> HIDE DEF x
    <3>2. ~(OutBox.len >= 8 /\ Inside(OutBox, x))
      BY <3>1, Boxes DEF Inside
    <3> QED BY <3>1, <3>2 DEF Blank
  <2> HIDE DEF x, r
  <2>3. r.nd = m /\ r.frame = Some(Frame(x, 0)) /\ Frame(x, 0).p = x
    BY <2>1
  <2> HIDE DEF Frame
  <2>4. IsPReq(m, n, s0, r, s0)
    BY <2>2, <2>3 DEF IsPReq
  <2> QED BY <2>4 DEF r
<1>2. CASE chans # {}
  <2> DEFINE f == Frame(b.p, read_or("U8", m.od, chan, 2, 0))
  <2>1. r = [nd |-> b.nd, frame |-> IF b.err = "Ok" THEN Some(f) ELSE None]
    BY <1>2 DEF build_preq_frame
  <2>2. IsTpdoMapping(chan + \h200)
    <3>1. \A i \in chans : i \in \h1800..\h18FF
      OBVIOUS
    <3> HIDE DEF chans
    <3> QED BY <1>2, <3>1, TpdoChannel
  <2> HIDE DEF chan
  <2>3. MnBuilt(m, n, s0, b)
    BY <2>2, PReqBuilt
  <2>4. f.p = b.p
    OBVIOUS
  <2> HIDE DEF b, f, r
  <2>5. r.nd = b.nd /\ (r.frame = None \/ r.frame = Some(f))
    BY <2>1
  <2>6. PICK s \in Nat : /\ s0 <= s /\ s <= n /\ ClientAt(ClientOf(b.nd), n, s)
                         /\ \/ Blank(b.p, OutBox)
                            \/ s0 < s /\ Has(b.p, OutBox, serialize_pdo_sdo(RequestCommand(s)))
    BY <2>3 DEF MnBuilt, Carries
  <2>7. IsNode(b.nd) /\ b.p \in Seq(UNSIGNED8)
    BY <2>3 DEF MnBuilt, IsBuild
  <2>8. IsPReq(m, n, s0, r, s)
    BY <2>3, <2>4, <2>5, <2>6, <2>7 DEF IsPReq, MnBuilt
  <2> QED BY <2>8 DEF r
<1> QED BY <1>1, <1>2

(* The PRes: the container is empty or has the response that waited. *)

CnBuilt(m, b) ==
  /\ IsBuild(b)
  /\ b.nd.od = m.od /\ b.nd.ec = m.ec /\ b.nd.ran = m.ran /\ b.nd.got = m.got
  /\ \/ ServerOf(b.nd) = ServerOf(m)
     \/ ServerOf(b.nd) = [last |-> ServerOf(m).last, pend |-> None]
  /\ \/ Blank(b.p, InBox)
     \/ ServerOf(m).pend # None /\ Has(b.p, InBox, ServerOf(m).pend[1])

LEMMA CnBuiltApart ==
  ASSUME NEW m, NEW b, CnBuilt(m, b), NEW c, IsBuild(c), c.nd = b.nd, SameBox(b.p, c.p, InBox)
  PROVE  CnBuilt(m, c)
<1>1. Blank(b.p, InBox) => Blank(c.p, InBox)
  BY SameBoxHas, Boxes
<1>2. \A x : Has(b.p, InBox, x) => Has(c.p, InBox, x)
  BY SameBoxHas, Boxes
<1> QED BY <1>1, <1>2 DEF CnBuilt

LEMMA CnBuiltContainer ==
  ASSUME NEW m, IsServer(ServerOf(m)), NEW b, CnBuilt(m, b),
         NEW e, e.index = Server, OffsetOf(e) = InBox.at, LengthOf(e) = InBox.len
  PROVE  CnBuilt(m, Container(b, e))
<1> DEFINE len == InBox.len
           k == ServerOf(b.nd)
           r == get_pending_response(b.nd.es, Server, len)
           x == Put(b.p, InBox.at, r.data)
           c == Container(b, e)
<1>1. IsBuild(b) /\ b.p \in Seq(UNSIGNED8)
  BY DEF CnBuilt, IsBuild
<1>2. InBox \in [at : Nat, len : Nat] /\ len \in Nat
  BY Boxes
<1>3. k = ServerOf(m) \/ k = [last |-> ServerOf(m).last, pend |-> None]
  BY DEF CnBuilt
<1>4. IsServer(k) /\ k.last = ServerOf(m).last
  BY <1>3 DEF IsServer
<1>5. IsAnswer(r, len, k)
  BY <1>2, <1>4, Answering DEF ServerOf
<1>6. Octet(r.data, len)
  BY <1>5 DEF IsAnswer
<1> DEFINE w == k.pend[1]
<1>7. /\ x \in Seq(UNSIGNED8)
      /\ (len >= 8 => \A j \in 1..8 : r.data[j] = 0) => Blank(x, InBox)
      /\ (len >= 8 => \A j \in 1..8 : r.data[j] = w[j]) => Has(x, InBox, w)
  <2> HIDE DEF r, w
  <2> QED BY <1>1, <1>2, <1>6, PutBox
<1>8. IsServerBuild(b, c, r.es, x)
  <2>1. Put(b.p, OffsetOf(e), get_pending_response(b.nd.es, Server, LengthOf(e)).data) = x
    OBVIOUS
  <2>2. get_pending_response(b.nd.es, Server, LengthOf(e)) = r
    OBVIOUS
  <2> QED BY <1>1, <1>7, <2>1, <2>2, ServerContainer
<1> HIDE DEF r, x, c, w, len, k
<1>9. c.p = x /\ c.nd.es = r.es
  BY <1>8 DEF IsServerBuild
<1>10. ServerOf(c.nd) = [last |-> ServerOf(m).last, pend |-> None]
  BY <1>4, <1>5, <1>9 DEF ServerOf, IsAnswer
<1>11. Blank(c.p, InBox) \/ (ServerOf(m).pend # None /\ Has(c.p, InBox, ServerOf(m).pend[1]))
  <2>1. CASE k.pend = None
    <3>1. len >= 8 => \A j \in 1..8 : r.data[j] = 0
      BY <1>5, <2>1 DEF IsAnswer
    <3>2. Blank(x, InBox)
      BY <1>7, <3>1
    <3> QED BY <1>9, <3>2
  <2>2. CASE k.pend # None
    <3>1. k = ServerOf(m)
      BY <1>3, <2>2
    <3>2. Has(c.p, InBox, w)
      BY <1>5, <1>7, <1>9, <2>2 DEF IsAnswer, w
    <3> QED BY <2>2, <3>1, <3>2 DEF w
  <2> QED BY <2>1, <2>2
<1>12. CnBuilt(m, c)
  BY <1>8, <1>10, <1>11 DEF CnBuilt, IsServerBuild
<1> QED BY <1>12 DEF c

LEMMA CnSends ==
  ASSUME NEW m, IsDictionary(m.od), IsServer(ServerOf(m)), NEW b, CnBuilt(m, b),
         NEW e, SendOk(e, Server, InBox)
  PROVE  CnBuilt(m, apply_tpdo_mapping_entry(b, e))
<1> DEFINE v == read(b.nd.od, e.index, e.sub)
           d == serialize(v[1])
           c == apply_tpdo_mapping_entry(b, e)
           Fits == b.err = "Ok" /\ ByteAligned(e) /\ ~(Len(b.p) < EndOf(e))
<1>1. IsBuild(b) /\ b.p \in Seq(UNSIGNED8) /\ b.nd.od = m.od
  BY DEF CnBuilt, IsBuild
<1>2. IsEntry(e) /\ OffsetOf(e) \in Nat /\ LengthOf(e) \in Nat /\ EndOf(e) = OffsetOf(e) + LengthOf(e)
  BY EntryNumbers DEF SendOk
<1>3. ASSUME NEW x, c = [b EXCEPT !.err = x] PROVE CnBuilt(m, c)
  <2>1. IsBuild(c) /\ c.nd = b.nd /\ c.p = b.p
    BY <1>1, <1>3, SetErr
  <2> HIDE DEF c
  <2>2. SameBox(b.p, c.p, InBox)
    BY <1>1, <2>1, SameBoxSame
  <2> QED BY <2>1, <2>2, CnBuiltApart
<1>4. CASE b.err # "Ok" \/ ~ByteAligned(e)
  BY <1>4 DEF apply_tpdo_mapping_entry
<1>5. CASE b.err = "Ok" /\ ByteAligned(e) /\ Len(b.p) < EndOf(e)
  <2>1. c = [b EXCEPT !.err = "PayloadTooSmall"]
    BY <1>5 DEF apply_tpdo_mapping_entry
  <2> HIDE DEF c
  <2>2. CnBuilt(m, c)
    BY <1>3, <2>1
  <2> QED BY <2>2 DEF c
<1>6. CASE Fits /\ IsContainer(e.index)
  <2>1. c = Container(b, e)
    BY <1>6 DEF apply_tpdo_mapping_entry
  <2>2. e.index = Server /\ OffsetOf(e) = InBox.at /\ LengthOf(e) = InBox.len
    BY <1>6 DEF SendOk
  <2> QED BY <2>1, <2>2, CnBuiltContainer
<1>7. CASE Fits /\ ~IsContainer(e.index) /\ v = None
  BY <1>7 DEF apply_tpdo_mapping_entry
<1>8. CASE Fits /\ ~IsContainer(e.index) /\ v # None /\ Len(d) # LengthOf(e)
  <2>1. c = [b EXCEPT !.err = "TypeMismatch"]
    BY <1>8 DEF apply_tpdo_mapping_entry
  <2> HIDE DEF c
  <2>2. CnBuilt(m, c)
    BY <1>3, <2>1
  <2> QED BY <2>2 DEF c
<1>9. CASE Fits /\ ~IsContainer(e.index) /\ v # None /\ Len(d) = LengthOf(e)
  <2> DEFINE x == Put(b.p, OffsetOf(e), d)
  <2>1. c = [b EXCEPT !.p = x]
    <3>1. c = [b EXCEPT !.p = Put(@, OffsetOf(e), d)]
      BY <1>9 DEF apply_tpdo_mapping_entry
    <3> HIDE DEF c, d
    <3> QED BY <1>1, <3>1 DEF IsBuild
  <2>2. d \in Seq(UNSIGNED8)
    BY <1>1, <1>2, <1>9, ReadBytes DEF IsEntry
  <2> HIDE DEF d
  <2>3. SameBox(b.p, x, InBox)
    <3>1. EndOf(e) <= InBox.at \/ InBox.at + InBox.len <= OffsetOf(e)
      BY <1>9 DEF SendOk
    <3>2. OffsetOf(e) + Len(d) <= InBox.at \/ InBox.at + InBox.len <= OffsetOf(e)
      BY <1>2, <1>9, <3>1
    <3> QED BY <1>1, <1>2, <2>2, <3>2, PutApart, Boxes
  <2> HIDE DEF x, c
  <2>4. IsBuild(c) /\ c.nd = b.nd /\ c.p = x
    BY <1>1, <2>1, <2>3, SetPayload DEF SameBox
  <2>5. CnBuilt(m, c)
    BY <2>3, <2>4, CnBuiltApart
  <2> QED BY <2>5 DEF c
<1> QED BY <1>4, <1>5, <1>6, <1>7, <1>8, <1>9

LEMMA PresBuilt ==
  ASSUME NEW m, IsNode(m), Configured(m.od, Server, InBox, OutBox), IsServer(ServerOf(m))
  PROVE  CnBuilt(m, cn_build_tpdo_payload(m)) /\ PresLimit(m.od) \in Nat
<1> DEFINE at == tpdo_pass(m)
           i  == \h1A00
           c  == EntryCount(m.od, i)
           T  == {k \in Nat : k <= c => CnBuilt(m, at[k])}
<1>1. IsDictionary(m.od)
  BY DEF Configured
<1>2. c \in Nat
  BY <1>1, EntryCountNat
<1>3. /\ at[0] = Building(m, PresLimit(m.od))
      /\ \A k \in 1..c : at[k] = apply_tpdo_mapping_entry(at[k - 1], tpdo_entry(read(m.od, i, k)))
  BY <1>1, TpdoPass
<1>4. PresLimit(m.od) \in Nat
  <2>1. 5 \in UNSIGNED8 /\ 36 \in Nat
    BY ByteRange
  <2> QED BY <1>1, <2>1, ReadNumber DEF PresLimit
<1>5. cn_build_tpdo_payload(m) = at[c]
  BY DEF cn_build_tpdo_payload
<1>6. IsTpdoMapping(i)
  BY DEF IsTpdoMapping
<1> HIDE DEF at, c, i
<1>7. 0 \in T
  <2>1. IsBuild(at[0]) /\ at[0].nd = m /\ Blank(at[0].p, InBox)
    BY <1>3, <1>4, BuildStarts, Boxes
  <2>2. CnBuilt(m, at[0])
    BY <2>1 DEF CnBuilt
  <2> QED BY <2>2
<1>8. ASSUME NEW k \in Nat, k \in T PROVE k + 1 \in T
  <2>1. SUFFICES ASSUME k + 1 <= c PROVE CnBuilt(m, at[k + 1])
    OBVIOUS
  <2>2. CnBuilt(m, at[k])
    BY <1>2, <1>8, <2>1
  <2> DEFINE q == read(m.od, i, k + 1)
             e == tpdo_entry(q)
  <2>3. at[k + 1] = apply_tpdo_mapping_entry(at[k], e)
    <3>1. k + 1 \in 1..c /\ (k + 1) - 1 = k
      BY <1>2, <2>1
    <3> QED BY <1>3, <3>1
  <2>4. SendOk(e, Server, InBox)
    <3>1. CASE ~IsMapping(q)
      BY <3>1, ZeroEntry, Boxes DEF tpdo_entry
    <3>2. CASE IsMapping(q)
      <4>1. SendOk(from_u64(q[1]), Server, InBox)
        BY <1>6, <3>2, TpdoValue
      <4> QED BY <3>2, <4>1 DEF tpdo_entry
    <3> QED BY <3>1, <3>2
  <2> HIDE DEF e
  <2> QED BY <1>1, <2>2, <2>3, <2>4, CnSends
<1>9. c \in T
  <2> HIDE DEF T
  <2> QED BY <1>2, <1>7, <1>8, SetInduction
<1>10. c <= c
  BY <1>2
<1> QED BY <1>4, <1>5, <1>9, <1>10

\* A PRes is always built.
IsPRes(m, r) ==
  /\ IsNode(r.nd)
  /\ r.nd.od = m.od /\ r.nd.ec = m.ec /\ r.nd.ran = m.ran /\ r.nd.got = m.got
  /\ \/ ServerOf(r.nd) = ServerOf(m)
     \/ ServerOf(r.nd) = [last |-> ServerOf(m).last, pend |-> None]
  /\ r.p \in Seq(UNSIGNED8)
  /\ \/ Blank(r.p, InBox)
     \/ ServerOf(m).pend # None /\ Has(r.p, InBox, ServerOf(m).pend[1])

LEMMA PresResponse ==
  ASSUME NEW m, IsNode(m), Configured(m.od, Server, InBox, OutBox), IsServer(ServerOf(m)), NEW op
  PROVE  IsPRes(m, build_pres_response(m, op))
<1> DEFINE b == cn_build_tpdo_payload(m)
           l == PresLimit(m.od)
           r == build_pres_response(m, op)
<1>1. CnBuilt(m, b) /\ l \in Nat
  BY PresBuilt
<1>2. r.nd = b.nd /\ r.p = IF b.err = "Ok" THEN b.p ELSE Zeros(l)
  BY DEF build_pres_response
<1> HIDE DEF b, l, r
<1>3. r.p = b.p \/ r.p = Zeros(l)
  BY <1>2
<1>4. Zeros(l) \in Seq(UNSIGNED8) /\ Blank(Zeros(l), InBox)
  BY <1>1, ZerosTyped, BlankZeros, Boxes
<1>5. b.p \in Seq(UNSIGNED8) /\ IsNode(b.nd)
  BY <1>1 DEF CnBuilt, IsBuild
<1>6. IsPRes(m, r)
  BY <1>1, <1>2, <1>3, <1>4, <1>5 DEF IsPRes, CnBuilt
<1> QED BY <1>6 DEF r

(***************************************************************************)
(* The invariant of the channel.  s is the number of the last request that *)
(* left the queue of the MN.                                               *)
(***************************************************************************)

(* Sequences of anything. *)

IsSeq(q) == \E S : q \in Seq(S)

LEMMA SeqTyped ==
  ASSUME NEW q, IsSeq(q)
  PROVE  Len(q) \in Nat /\ DOMAIN q = 1..Len(q)
BY DEF IsSeq

LEMMA SeqAppend ==
  ASSUME NEW q, IsSeq(q), NEW x
  PROVE  LET r == Append(q, x)
         IN /\ IsSeq(r) /\ Len(r) = Len(q) + 1 /\ DOMAIN r = 1..(Len(q) + 1)
            /\ \A k \in DOMAIN q : k \in DOMAIN r /\ r[k] = q[k]
            /\ r[Len(q) + 1] = x
<1>1. PICK S : q \in Seq(S)
  BY DEF IsSeq
<1> DEFINE T == S \cup {x}
<1>2. S \subseteq T /\ x \in T
  OBVIOUS
<1> HIDE DEF T
<1>3. q \in Seq(T)
  BY <1>1, <1>2
<1>4. Append(q, x) \in Seq(T) /\ Len(Append(q, x)) = Len(q) + 1
  BY <1>2, <1>3
<1>5. Append(q, x)[Len(q) + 1] = x /\ \A k \in 1..Len(q) : Append(q, x)[k] = q[k]
  BY <1>2, <1>3
<1>6. Len(q) \in Nat /\ DOMAIN q = 1..Len(q) /\ DOMAIN Append(q, x) = 1..(Len(q) + 1)
  BY <1>3, <1>4
<1> QED BY <1>4, <1>5, <1>6 DEF IsSeq

LEMMA SeqTail ==
  ASSUME NEW q, IsSeq(q), q # <<>>
  PROVE  /\ IsSeq(Tail(q)) /\ 1 \in DOMAIN q /\ Head(q) = q[1]
         /\ \A k \in DOMAIN Tail(q) : k + 1 \in DOMAIN q /\ Tail(q)[k] = q[k + 1]
<1>1. PICK S : q \in Seq(S)
  BY DEF IsSeq
<1>2. Tail(q) \in Seq(S) /\ Len(Tail(q)) = Len(q) - 1 /\ Len(q) >= 1
  BY <1>1
<1>3. \A k \in 1..(Len(q) - 1) : Tail(q)[k] = q[k + 1]
  BY <1>1
<1>4. DOMAIN Tail(q) = 1..(Len(q) - 1) /\ DOMAIN q = 1..Len(q) /\ Len(q) \in Nat
  BY <1>1, <1>2
<1>5. IsSeq(Tail(q))
  BY <1>2 DEF IsSeq
<1> QED BY <1>2, <1>3, <1>4, <1>5

LEMMA SeqJoin == ASSUME NEW q, IsSeq(q) PROVE q \o <<>> = q
BY DEF IsSeq

LEMMA SeqJoinOne ==
  ASSUME NEW q, IsSeq(q), NEW x
  PROVE  q \o <<x>> = Append(q, x)
<1>1. PICK S : q \in Seq(S)
  BY DEF IsSeq
<1> DEFINE T == S \cup {x}
<1>2. S \subseteq T /\ x \in T
  OBVIOUS
<1> HIDE DEF T
<1>3. q \in Seq(T)
  BY <1>1, <1>2
<1> QED BY <1>2, <1>3

(* The invariant. *)

NodesOk == IsNode(mn) /\ IsNode(cn)

DictionariesOk ==
  /\ Configured(mn.od, Box, OutBox, InBox) /\ Configured(cn.od, Server, InBox, OutBox)
  /\ Paintable(mn.od, Outputs) /\ Paintable(cn.od, Inputs)

\* The queue of the client has what was asked and not yet sent.
ClientOk(s) ==
  /\ asked \in Nat /\ s <= asked /\ asked <= MaxRequests
  /\ ClientAt(ClientOf(mn), asked, s)
  /\ Box \notin DOMAIN mn.ec => asked = 0
  /\ posed = IF s = 0 THEN None ELSE Some(Request(s))

\* What the CN has executed was sent; Nil is the command of an empty container.
Sent(d, s) ==
  d.id # "Nil" => /\ d.sub \in 1..s /\ d.seq = (d.sub - 1) % EmbSeqs
                  /\ d.id = Request(d.sub).id
ExecutedOk(s) == IsSeq(did) /\ \A j \in DOMAIN did : Sent(did[j], s)

\* A response that waits or is on its way answers something executed.
RepliesToOne(b, ds) == \E j \in DOMAIN ds : Replies(b, ds[j])
ServerOk == LET k == ServerOf(cn)
            IN /\ k.last \in Nat /\ k = [last |-> k.last, pend |-> k.pend]
               /\ k.pend # None => RepliesToOne(k.pend[1], did)
PresOk(f, ds) == /\ f.p \in Seq(UNSIGNED8)
                 /\ Blank(f.p, InBox) \/ \E b : RepliesToOne(b, ds) /\ Has(f.p, InBox, b)
IncomingOk == IsSeq(pres) /\ \A k \in DOMAIN pres : PresOk(pres[k], did)

\* A PReq on its way has the last request that was sent, not yet executed, or
\* none.
Fresh(s) == \A j \in DOMAIN did : did[j].id # "Nil" => did[j].sub < s
OutgoingOk(s) ==
  preq # None =>
    \E f : /\ preq = Some(f) /\ f.p \in Seq(UNSIGNED8)
           /\ \/ Blank(f.p, OutBox)
              \/ s > 0 /\ Fresh(s) /\ Has(f.p, OutBox, serialize_pdo_sdo(RequestCommand(s)))

ChannelAt(s) == /\ ClientOk(s) /\ ExecutedOk(s) /\ OutgoingOk(s)
ChannelInv ==
  /\ NodesOk /\ DictionariesOk /\ ServerOk /\ IncomingOk
  /\ ExecutedInOrder /\ AnswerMatches
  /\ \E s \in Nat : ChannelAt(s)

LEMMA ChannelInit == Init => ChannelInv
<1> SUFFICES ASSUME Init PROVE ChannelInv
  OBVIOUS
<1> DEFINE x == <<>>
<1>1. mn = [od |-> MnDictionary, es |-> x, ec |-> x, errs |-> {}, ran |-> x, got |-> x]
  BY DEF Init, Node
<1>2. cn = [od |-> CnDictionary, es |-> x, ec |-> x, errs |-> {}, ran |-> x, got |-> x]
  BY DEF Init, Node
<1>3. DOMAIN x = {} /\ x \in Seq({})
  OBVIOUS
<1>4. did = x /\ pres = x /\ preq = None /\ posed = None /\ asked = 0
  BY DEF Init
<1>5. Waiting(0, 0) = x
  BY WaitingEmpty
<1>6. ClientConn = [last |-> 0, next |-> 0, queue |-> x] /\ ServerConn = [last |-> 0, pend |-> None]
  BY DEF ClientConn, ServerConn
<1> HIDE DEF x
<1>7. NodesOk
  BY <1>1, <1>2 DEF NodesOk, IsNode
<1>8. DictionariesOk
  BY <1>1, <1>2, LayoutAssumption DEF DictionariesOk
<1>9. ServerOf(cn) = [last |-> 0, pend |-> None]
  BY <1>2, <1>3, <1>6 DEF ServerOf, Channel
<1>10. ServerOk
  BY <1>9 DEF ServerOk
<1>11. IncomingOk
  BY <1>3, <1>4 DEF IncomingOk, IsSeq
<1>12. ExecutedInOrder
  BY <1>3, <1>4 DEF ExecutedInOrder
<1>13. AnswerMatches
  BY <1>1, <1>3 DEF AnswerMatches
<1>14. ClientOk(0)
  <2>1. ClientOf(mn) = [last |-> 0, next |-> 0, queue |-> x]
    BY <1>1, <1>3, <1>6 DEF ClientOf, Channel
  <2>2. 0 % EmbSeqs = 0
    BY Numbers
  <2>3. ClientAt(ClientOf(mn), 0, 0)
    BY <1>5, <2>1, <2>2 DEF ClientAt
  <2>4. 0 <= MaxRequests
    BY ProcessDataAssumption, ByteRange
  <2> QED BY <1>4, <2>3, <2>4 DEF ClientOk
<1>15. ExecutedOk(0)
  BY <1>3, <1>4 DEF ExecutedOk, IsSeq
<1>16. OutgoingOk(0)
  BY <1>4 DEF OutgoingOk
<1>17. \E s \in Nat : ChannelAt(s)
  BY <1>14, <1>15, <1>16 DEF ChannelAt
<1> QED BY <1>7, <1>8, <1>10, <1>11, <1>12, <1>13, <1>17 DEF ChannelInv

(* The cycle. *)

LEMMA SentOn ==
  ASSUME NEW d, NEW s \in Nat, NEW t \in Nat, s <= t, Sent(d, s) PROVE Sent(d, t)
BY DEF Sent

\* What left the queue between two states of the client.
LEMMA LastSentIs ==
  ASSUME NEW a, NEW b, NEW n \in Nat, NEW s \in Nat, NEW t \in Nat, s <= t, t <= n,
         ClientAt(Channel(a, Box, ClientConn), n, s), ClientAt(Channel(b, Box, ClientConn), n, t),
         Box \notin DOMAIN a => n = 0, Box \in DOMAIN a => Box \in DOMAIN b,
         posed = IF s = 0 THEN None ELSE Some(Request(s))
  PROVE  LastSent(a, b) = IF t = 0 THEN None ELSE Some(Request(t))
<1>1. CASE Box \notin DOMAIN a
  <2>1. s = 0 /\ t = 0
    BY <1>1
  <2>2. LastSent(a, b) = posed
    BY <1>1 DEF LastSent
  <2> QED BY <2>1, <2>2
<1>2. CASE Box \in DOMAIN a
  <2> DEFINE q == Waiting(s, n)
             w == Waiting(t, n)
             i == Len(q) - Len(w)
  <2>1. a[Box].queue = q /\ b[Box].queue = w
    BY <1>2 DEF Channel, ClientAt
  <2>2. LastSent(a, b) = IF Box \in DOMAIN a /\ i > 0 THEN Some(q[i]) ELSE posed
    BY <2>1 DEF LastSent
  <2>3. Len(q) = n - s /\ \A k \in 1..(n - s) : q[k] = Request(s + k)
    <3>1. s <= n
      OBVIOUS
    <3> QED BY <3>1, WaitingSeq
  <2>4. Len(w) = n - t
    BY WaitingSeq
  <2> HIDE DEF q, w
  <2>5. i = t - s
    BY <2>3, <2>4
  <2> HIDE DEF i
  <2>6. CASE s = t
    <3>1. ~(i > 0)
      BY <2>5, <2>6
    <3>2. LastSent(a, b) = posed
      BY <2>2, <3>1
    <3> QED BY <2>6, <3>2
  <2>7. CASE s < t
    <3>1. i \in 1..(n - s) /\ i > 0 /\ s + i = t /\ t # 0
      BY <2>5, <2>7
    <3>2. q[i] = Request(t)
      BY <2>3, <3>1
    <3> QED BY <1>2, <2>2, <3>1, <3>2
  <2> QED BY <2>6, <2>7
<1> QED BY <1>1, <1>2

LEMMA PollKeeps == ChannelInv /\ Poll => ChannelInv'
<1> SUFFICES ASSUME ChannelInv, Poll PROVE ChannelInv'
  OBVIOUS
<1> DEFINE m == AtRest(mn)
           r == build_preq_frame(m, 1, mnOp)
<1>1. PICK s0 \in Nat : ChannelAt(s0)
  BY DEF ChannelInv
<1>2. /\ mn' = r.nd /\ preq' = r.frame /\ posed' = LastSent(mn.ec, r.nd.ec)
      /\ cn' = cn /\ pres' = pres /\ asked' = asked /\ did' = did
  BY DEF Poll
<1>3. IsNode(m) /\ m.od = mn.od /\ m.ec = mn.ec /\ m.got = <<>>
  BY RestNode DEF ChannelInv, NodesOk
<1>4. /\ asked \in Nat /\ s0 <= asked /\ asked <= MaxRequests /\ ClientAt(ClientOf(mn), asked, s0)
      /\ Box \notin DOMAIN mn.ec => asked = 0
      /\ posed = IF s0 = 0 THEN None ELSE Some(Request(s0))
  BY <1>1 DEF ChannelAt, ClientOk
<1>5. ClientOf(m) = ClientOf(mn)
  BY <1>3 DEF ClientOf
<1>6. \E s \in Nat : IsPReq(m, asked, s0, r, s)
  <2> HIDE DEF m
  <2>1. Configured(m.od, Box, OutBox, InBox) /\ ClientAt(ClientOf(m), asked, s0)
    BY <1>3, <1>4, <1>5 DEF ChannelInv, DictionariesOk
  <2> QED BY <1>3, <1>4, <2>1, PReqFrame
<1> HIDE DEF m, r
<1>7. PICK s \in Nat : IsPReq(m, asked, s0, r, s)
  BY <1>6
<1>8. /\ IsNode(mn') /\ mn'.od = mn.od /\ mn'.got = <<>> /\ s0 <= s /\ s <= asked
      /\ ClientAt(ClientOf(mn'), asked, s)
      /\ Box \in DOMAIN mn.ec => Box \in DOMAIN r.nd.ec
      /\ Box \notin DOMAIN mn'.ec => asked = 0
  BY <1>2, <1>3, <1>4, <1>7 DEF IsPReq
<1>9. posed' = IF s = 0 THEN None ELSE Some(Request(s))
  BY <1>2, <1>4, <1>8, LastSentIs DEF ClientOf
<1>10. NodesOk' /\ DictionariesOk'
  BY <1>2, <1>8 DEF ChannelInv, NodesOk, DictionariesOk
<1>11. ServerOk' /\ IncomingOk'
  BY <1>2 DEF ChannelInv, ServerOk, ServerOf, IncomingOk
<1>12. ExecutedInOrder'
  BY <1>2 DEF ChannelInv, ExecutedInOrder
<1>13. AnswerMatches'
  BY <1>8 DEF AnswerMatches
<1>14. ClientOk(s)'
  BY <1>2, <1>4, <1>8, <1>9 DEF ClientOk
<1>15. ExecutedOk(s)'
  <2>1. \A j \in DOMAIN did : Sent(did[j], s)
    BY <1>1, <1>8, SentOn DEF ChannelAt, ExecutedOk
  <2> QED BY <1>1, <1>2, <2>1 DEF ChannelAt, ExecutedOk
<1>16. OutgoingOk(s)'
  <2>1. CASE r.frame = None
    BY <1>2, <2>1 DEF OutgoingOk
  <2>2. CASE r.frame # None
    <3>1. PICK f : /\ r.frame = Some(f) /\ f.p \in Seq(UNSIGNED8)
                   /\ \/ Blank(f.p, OutBox)
                      \/ s0 < s /\ Has(f.p, OutBox, serialize_pdo_sdo(RequestCommand(s)))
      BY <1>7, <2>2 DEF IsPReq
    <3>2. s0 < s => s > 0 /\ Fresh(s)
      <4>1. \A j \in DOMAIN did : did[j].id # "Nil" => did[j].sub \in 1..s0
        BY <1>1 DEF ChannelAt, ExecutedOk, Sent
      <4> QED BY <4>1 DEF Fresh
    <3>3. Fresh(s)' <=> Fresh(s)
      BY <1>2 DEF Fresh
    <3> QED BY <1>2, <3>1, <3>2, <3>3 DEF OutgoingOk
  <2> QED BY <2>1, <2>2
<1> QED BY <1>10, <1>11, <1>12, <1>13, <1>14, <1>15, <1>16 DEF ChannelInv, ChannelAt

\* What is heard of a container, by what was put into it.
LEMMA HeardBox ==
  ASSUME NEW box \in [at : Nat, len : Nat], NEW p \in Seq(UNSIGNED8), Inside(box, p),
         Heard(box, p).err = "Ok"
  PROVE  /\ IsDecoded(Heard(box, p).val, Boxed(box, p)) /\ box.len >= 8
         /\ \A k \in 1..8 : Boxed(box, p)[k] = p[box.at + k]
<1> DEFINE q == Boxed(box, p)
<1>1. Octet(q, box.len) /\ \A k \in 1..box.len : q[k] = p[box.at + k]
  BY BoxedTyped
<1>2. IsDecoded(Heard(box, p).val, q)
  BY <1>1, Decoded DEF Heard, Octet
<1> HIDE DEF q
<1>3. box.len >= 8
  BY <1>1, <1>2 DEF IsDecoded, Octet
<1>4. \A k \in 1..8 : q[k] = p[box.at + k]
  BY <1>1, <1>3
<1> QED BY <1>2, <1>3, <1>4 DEF q

LEMMA HeardBlank ==
  ASSUME NEW box \in [at : Nat, len : Nat], NEW p \in Seq(UNSIGNED8), Inside(box, p),
         Heard(box, p).err = "Ok", Blank(p, box)
  PROVE  LET g == Heard(box, p).val
         IN g.id = "Nil" /\ g.resp = FALSE /\ g.abrt = FALSE /\ g.seq = 0
<1>1. IsDecoded(Heard(box, p).val, Boxed(box, p)) /\ box.len >= 8
  BY HeardBox
<1>2. \A k \in 1..8 : Boxed(box, p)[k] = 0
  BY <1>1, HeardBox DEF Blank
<1>3. \A g : IsDecoded(g, Boxed(box, p)) =>
        g.id = "Nil" /\ g.resp = FALSE /\ g.abrt = FALSE /\ g.seq = 0
  BY <1>2, DecodesToNil
<1> QED BY <1>1, <1>3, Zenon

LEMMA HeardCommand ==
  ASSUME NEW box \in [at : Nat, len : Nat], NEW p \in Seq(UNSIGNED8), Inside(box, p),
         Heard(box, p).err = "Ok", NEW c, IsCommand(c), Has(p, box, serialize_pdo_sdo(c))
  PROVE  SameCommand(Heard(box, p).val, c)
<1>1. IsDecoded(Heard(box, p).val, Boxed(box, p)) /\ box.len >= 8
  BY HeardBox
<1>2. \A k \in 1..8 : Boxed(box, p)[k] = serialize_pdo_sdo(c)[k]
  BY <1>1, HeardBox DEF Has
<1>3. \A d : IsDecoded(d, Boxed(box, p)) => SameCommand(d, c)
  <2> SUFFICES ASSUME NEW d, IsDecoded(d, Boxed(box, p)) PROVE SameCommand(d, c)
    OBVIOUS
  <2> QED BY <1>2, DecodesTo, Zenon
<1> QED BY <1>1, <1>3, Zenon

\* A request of the channel touches no mapping.
LEMMA NoMappingObject == ~IsPdoMapping(\h2001)
BY DEF IsPdoMapping, IsTpdoMapping, IsRpdoMapping

LEMMA RequestHeard ==
  ASSUME NEW p \in Seq(UNSIGNED8), NEW s \in Nat, s <= MaxRequests, Inside(OutBox, p),
         Heard(OutBox, p).err = "Ok",
         \/ Blank(p, OutBox)
         \/ s > 0 /\ Has(p, OutBox, serialize_pdo_sdo(RequestCommand(s)))
  PROVE  LET d == Heard(OutBox, p).val
         IN \/ d.id = "Nil"
            \/ s > 0 /\ d.id = Request(s).id /\ d.sub = s /\ d.seq = (s - 1) % EmbSeqs
               /\ d.index = \h2001
<1> DEFINE d == Heard(OutBox, p).val
<1>1. CASE Blank(p, OutBox)
  <2>1. d.id = "Nil"
    BY <1>1, HeardBlank, Boxes
  <2> QED BY <2>1
<1>2. CASE s > 0 /\ Has(p, OutBox, serialize_pdo_sdo(RequestCommand(s)))
  <2>1. 1 <= s
    BY <1>2
  <2>2. /\ IsCommand(RequestCommand(s))
        /\ RequestCommand(s).seq = (s - 1) % EmbSeqs /\ RequestCommand(s).id = Request(s).id
        /\ RequestCommand(s).index = \h2001 /\ RequestCommand(s).sub = s
    BY <2>1, RequestTyped
  <2>3. SameCommand(d, RequestCommand(s))
    BY <1>2, <2>2, HeardCommand, Boxes
  <2> HIDE DEF d
  <2>4. d.id = Request(s).id /\ d.sub = s /\ d.seq = (s - 1) % EmbSeqs /\ d.index = \h2001
    BY <2>2, <2>3 DEF SameCommand
  <2> QED BY <1>2, <2>4 DEF d
<1> QED BY <1>1, <1>2

LEMMA RepliesTyped ==
  ASSUME NEW b, NEW d, Replies(b, d) PROVE b \in Seq(UNSIGNED8) /\ Len(b) >= 8
<1>1. PICK c : IsCommand(c) /\ b = serialize_pdo_sdo(c)
  BY DEF Replies, Answers
<1>2. Octet(b, 8 + Len(c.data))
  BY <1>1, Serialized
<1>3. Len(c.data) \in Nat
  BY <1>1 DEF IsCommand
<1> QED BY <1>2, <1>3 DEF Octet

\* What the CN has executed only grows.
Extends(a, b) == \A j \in DOMAIN a : j \in DOMAIN b /\ b[j] = a[j]

LEMMA RepliesOn ==
  ASSUME NEW a, NEW b, Extends(a, b), NEW x, RepliesToOne(x, a) PROVE RepliesToOne(x, b)
BY DEF Extends, RepliesToOne

LEMMA PresOn ==
  ASSUME NEW a, NEW b, Extends(a, b), NEW f, PresOk(f, a) PROVE PresOk(f, b)
BY RepliesOn DEF PresOk

LEMMA KeepsConfigured ==
  ASSUME NEW o, NEW p, KeepsMappings(o, p), NEW ch, NEW out, NEW in, Configured(o, ch, out, in)
  PROVE  Configured(p, ch, out, in)
<1>1. IsDictionary(p) /\ DOMAIN p = DOMAIN o
  BY DEF KeepsMappings
<1>2. \A i \in DOMAIN p : IsPdoMapping(i) => p[i] = o[i]
  BY DEF KeepsMappings
<1>3. ASSUME NEW i \in DOMAIN p, IsTpdoMapping(i)
      PROVE  p[i].obj # "Variable" /\ Placed(p[i].vals, TRUE, ch, out, in)
  BY <1>1, <1>2, <1>3 DEF Configured, IsPdoMapping
<1>4. ASSUME NEW i \in DOMAIN p, IsRpdoMapping(i)
      PROVE  p[i].obj # "Variable" /\ Placed(p[i].vals, FALSE, ch, out, in)
  BY <1>1, <1>2, <1>4 DEF Configured, IsPdoMapping
<1> QED BY <1>1, <1>3, <1>4 DEF Configured

LEMMA KeepsPaintable ==
  ASSUME NEW o, NEW p, KeepsMappings(o, p), NEW objs, Paintable(o, objs) PROVE Paintable(p, objs)
BY DEF KeepsMappings, Paintable

\* What the CN makes of the PReq: did grows to ds, and its server to k.
IsStep(s, ds, k) ==
  /\ IsSeq(ds) /\ Extends(did, ds)
  /\ \A j \in DOMAIN ds : Sent(ds[j], s)
  /\ \A i, j \in DOMAIN ds :
       i < j /\ ds[i].id # "Nil" /\ ds[j].id # "Nil" => ds[i].sub < ds[j].sub
  /\ k.last \in Nat /\ k = [last |-> k.last, pend |-> k.pend]
  /\ k.pend # None => RepliesToOne(k.pend[1], ds)

LEMMA StepIdle ==
  ASSUME ChannelInv, NEW s \in Nat, ChannelAt(s) PROVE IsStep(s, did, ServerOf(cn))
<1>1. IsSeq(did) /\ \A j \in DOMAIN did : Sent(did[j], s)
  BY DEF ChannelAt, ExecutedOk
<1>2. LET k == ServerOf(cn)
      IN /\ k.last \in Nat /\ k = [last |-> k.last, pend |-> k.pend]
         /\ k.pend # None => RepliesToOne(k.pend[1], did)
  BY DEF ChannelInv, ServerOk
<1>3. ExecutedInOrder
  BY DEF ChannelInv
<1> QED BY <1>1, <1>2, <1>3 DEF IsStep, Extends, ExecutedInOrder

LEMMA StepRuns ==
  ASSUME ChannelInv, NEW s \in Nat, ChannelAt(s), NEW d, d.seq \in Nat, Sent(d, s),
         d.id = "Nil" \/ (d.sub = s /\ Fresh(s)),
         NEW b, Replies(b, d)
  PROVE  IsStep(s, Append(did, d), [last |-> d.seq, pend |-> Some(b)])
<1> DEFINE ds == Append(did, d)
           l == Len(did)
           k == [last |-> d.seq, pend |-> Some(b)]
<1>1. IsSeq(did) /\ \A j \in DOMAIN did : Sent(did[j], s)
  BY DEF ChannelAt, ExecutedOk
<1>2. l \in Nat /\ DOMAIN did = 1..l
  BY <1>1, SeqTyped
<1>3. /\ IsSeq(ds) /\ DOMAIN ds = 1..(l + 1)
      /\ \A j \in DOMAIN did : j \in DOMAIN ds /\ ds[j] = did[j]
      /\ ds[l + 1] = d
  BY <1>1, SeqAppend
<1>4. ExecutedInOrder
  BY DEF ChannelInv
<1> HIDE DEF ds, l
<1>5. Extends(did, ds)
  BY <1>3 DEF Extends
<1>6. \A j \in DOMAIN ds : j \in DOMAIN did \/ j = l + 1
  BY <1>2, <1>3
<1>7. \A j \in DOMAIN ds : Sent(ds[j], s)
  BY <1>1, <1>3, <1>6
<1>8. ASSUME NEW i \in DOMAIN ds, NEW j \in DOMAIN ds, i < j, ds[i].id # "Nil", ds[j].id # "Nil"
      PROVE  ds[i].sub < ds[j].sub
  <2>1. i \in DOMAIN did
    BY <1>2, <1>3, <1>6, <1>8
  <2>2. CASE j \in DOMAIN did
    BY <1>3, <1>4, <1>8, <2>1, <2>2 DEF ExecutedInOrder
  <2>3. CASE j = l + 1
    <3>1. d.sub = s /\ Fresh(s)
      BY <1>3, <1>8, <2>3
    <3> QED BY <1>3, <1>8, <2>1, <2>3, <3>1 DEF Fresh
  <2> QED BY <1>6, <2>2, <2>3
<1>9. k.pend # None /\ k.pend[1] = b /\ k.last = d.seq /\ k = [last |-> k.last, pend |-> k.pend]
  BY DEF Some, None
<1>10. RepliesToOne(b, ds)
  <2>1. l + 1 \in DOMAIN ds
    BY <1>2, <1>3
  <2> QED BY <1>3, <2>1 DEF RepliesToOne
<1> HIDE DEF k
<1>11. IsStep(s, ds, k)
  BY <1>3, <1>5, <1>7, <1>8, <1>9, <1>10 DEF IsStep
<1> QED BY <1>11 DEF ds, k

LEMMA StepServer ==
  ASSUME NEW s, NEW ds, NEW k, IsStep(s, ds, k) PROVE IsServer(k)
<1>1. k.pend # None => k.pend[1] \in Seq(UNSIGNED8) /\ Len(k.pend[1]) >= 8
  BY RepliesTyped DEF IsStep, RepliesToOne
<1> QED BY <1>1 DEF IsStep, IsServer

LEMMA CnTakes ==
  ASSUME ChannelInv, NEW s \in Nat, ChannelAt(s), NEW f, preq = Some(f)
  PROVE  LET m == AtRest(cn)
             n == consume_pdo_payload(m, f.src, f.p, f.version, f.rd)
         IN /\ IsNode(n) /\ KeepsMappings(cn.od, n.od)
            /\ IsStep(s, did \o n.ran, ServerOf(n))
<1> DEFINE m == AtRest(cn)
           n == consume_pdo_payload(m, f.src, f.p, f.version, f.rd)
           p == f.p
           h == Heard(OutBox, p)
<1>1. /\ p \in Seq(UNSIGNED8)
      /\ \/ Blank(p, OutBox)
         \/ s > 0 /\ Fresh(s) /\ Has(p, OutBox, serialize_pdo_sdo(RequestCommand(s)))
  BY DEF ChannelAt, OutgoingOk, Some, None
<1>2. s <= MaxRequests
  BY ProcessDataAssumption, ByteRange DEF ChannelAt, ClientOk
<1>3. ASSUME Inside(OutBox, p), h.err = "Ok"
      PROVE  \/ h.val.id = "Nil"
             \/ /\ s > 0 /\ Fresh(s) /\ h.val.id = Request(s).id /\ h.val.sub = s
                /\ h.val.seq = (s - 1) % EmbSeqs /\ h.val.index = \h2001
  <2>1. CASE Blank(p, OutBox)
    <3>1. h.val.id = "Nil"
      BY <1>1, <1>3, <2>1, HeardBlank, Boxes
    <3> QED BY <3>1
  <2>2. CASE s > 0 /\ Fresh(s) /\ Has(p, OutBox, serialize_pdo_sdo(RequestCommand(s)))
    <3> DEFINE x == h.val
    <3>1. \/ x.id = "Nil"
          \/ s > 0 /\ x.id = Request(s).id /\ x.sub = s /\ x.seq = (s - 1) % EmbSeqs
             /\ x.index = \h2001
      BY <1>1, <1>2, <1>3, <2>2, RequestHeard
    <3> HIDE DEF x
    <3> QED BY <2>2, <3>1 DEF x
  <2> QED BY <1>1, <2>1, <2>2
<1>4. Inside(OutBox, p) => Harmless(h)
  <2> HIDE DEF h
  <2> QED BY <1>3, NoMappingObject DEF Harmless
<1>5. IsNode(m) /\ m.od = cn.od /\ m.es = cn.es /\ m.ran = <<>>
  BY RestNode DEF ChannelInv, NodesOk
<1>6. ServerOf(m) = ServerOf(cn)
  BY <1>5 DEF ServerOf
<1>7. CnHeard(m, p, n)
  <2> HIDE DEF m
  <2>1. Configured(m.od, Server, InBox, OutBox) /\ ServerOf(m).last \in Nat
    BY <1>5, <1>6 DEF ChannelInv, DictionariesOk, ServerOk
  <2> QED BY <1>1, <1>4, <1>5, <2>1, CnConsumes
<1> HIDE DEF m, n, p, h
<1>8. IsNode(n) /\ KeepsMappings(cn.od, n.od)
  BY <1>5, <1>7 DEF CnHeard
<1>9. IsSeq(did)
  BY DEF ChannelAt, ExecutedOk
<1>10. IsStep(s, did \o n.ran, ServerOf(n))
  <2>1. CASE n.ran = <<>> /\ ServerOf(n) = ServerOf(m)
    <3>1. did \o n.ran = did
      BY <1>9, <2>1, SeqJoin
    <3> QED BY <1>6, <2>1, <3>1, StepIdle
  <2>2. CASE Inside(OutBox, p) /\ h.err = "Ok" /\ Ran(n, h.val)
    <3> DEFINE d == h.val
    <3>1. n.ran = <<d>> /\ d.seq \in Nat
      BY <2>2 DEF Ran
    <3>2. PICK b : ServerOf(n) = [last |-> d.seq, pend |-> Some(b)] /\ Replies(b, d)
      BY <2>2 DEF Ran
    <3>3. \/ d.id = "Nil"
          \/ /\ s > 0 /\ Fresh(s) /\ d.id = Request(s).id /\ d.sub = s
             /\ d.seq = (s - 1) % EmbSeqs
      BY <1>3, <2>2
    <3> HIDE DEF d
    <3>4. Sent(d, s)
      <4>1. s > 0 => s \in 1..s
        OBVIOUS
      <4> QED BY <3>3, <4>1 DEF Sent
    <3>5. d.id = "Nil" \/ (d.sub = s /\ Fresh(s))
      BY <3>3
    <3>6. did \o n.ran = Append(did, d)
      BY <1>9, <3>1, SeqJoinOne
    <3>7. IsStep(s, Append(did, d), [last |-> d.seq, pend |-> Some(b)])
      BY <3>1, <3>2, <3>4, <3>5, StepRuns
    <3> QED BY <3>2, <3>6, <3>7
  <2> QED BY <1>7, <2>1, <2>2 DEF CnHeard, h
<1> QED BY <1>8, <1>10 DEF n, m, p

LEMMA CnReceiveKeeps == ChannelInv /\ CnReceive => ChannelInv'
<1> SUFFICES ASSUME ChannelInv, CnReceive PROVE ChannelInv'
  OBVIOUS
<1>1. PICK s \in Nat : ChannelAt(s)
  BY DEF ChannelInv
<1>2. PICK f : preq = Some(f)
  BY <1>1 DEF CnReceive, ChannelAt, OutgoingOk
<1> DEFINE n == consume_pdo_payload(AtRest(cn), f.src, f.p, f.version, f.rd)
           r == build_pres_response(n, cnOp)
           g == [src |-> r.src, p |-> r.p, version |-> r.version, rd |-> r.rd]
           ds == did \o n.ran
<1>3. /\ cn' = r.nd /\ pres' = Append(pres, g) /\ did' = ds /\ preq' = None
      /\ mn' = mn /\ asked' = asked /\ posed' = posed
  <2>1. preq[1] = f
    BY <1>2 DEF Some
  <2> QED BY <2>1 DEF CnReceive
<1>4. IsNode(n) /\ KeepsMappings(cn.od, n.od) /\ IsStep(s, ds, ServerOf(n))
  BY <1>1, <1>2, CnTakes
<1>5. g.p = r.p
  OBVIOUS
<1> HIDE DEF n, ds
<1>6. Configured(n.od, Server, InBox, OutBox) /\ Paintable(n.od, Inputs)
  BY <1>4, KeepsConfigured, KeepsPaintable DEF ChannelInv, DictionariesOk
<1>7. IsPRes(n, r)
  BY <1>4, <1>6, StepServer, PresResponse
<1> HIDE DEF r, g
<1> DEFINE k == ServerOf(n)
<1>8. /\ IsSeq(ds) /\ Extends(did, ds) /\ \A j \in DOMAIN ds : Sent(ds[j], s)
      /\ k.last \in Nat /\ k = [last |-> k.last, pend |-> k.pend]
      /\ k.pend # None => RepliesToOne(k.pend[1], ds)
  BY <1>4 DEF IsStep
<1> HIDE DEF k
<1>9. NodesOk' /\ DictionariesOk'
  BY <1>3, <1>6, <1>7 DEF ChannelInv, NodesOk, DictionariesOk, IsPRes
<1>10. ServerOk'
  <2>1. ServerOf(cn') = k \/ ServerOf(cn') = [last |-> k.last, pend |-> None]
    BY <1>3, <1>7 DEF IsPRes, k
  <2> DEFINE q == ServerOf(cn')
  <2>2. /\ q.last \in Nat /\ q = [last |-> q.last, pend |-> q.pend]
        /\ q.pend # None => RepliesToOne(q.pend[1], ds)
    BY <1>8, <2>1
  <2> HIDE DEF q
  <2>3. ServerOf(cn)' = q
    BY DEF q, ServerOf
  <2> QED BY <1>3, <2>2, <2>3 DEF ServerOk
<1>11. PresOk(g, ds)
  <2>1. r.p \in Seq(UNSIGNED8) /\ (Blank(r.p, InBox) \/ (k.pend # None /\ Has(r.p, InBox, k.pend[1])))
    BY <1>7 DEF IsPRes, k
  <2> QED BY <1>5, <1>8, <2>1 DEF PresOk
<1>12. IncomingOk'
  <2>1. IsSeq(pres) /\ \A i \in DOMAIN pres : PresOk(pres[i], did)
    BY DEF ChannelInv, IncomingOk
  <2>2. \A i \in DOMAIN pres : PresOk(pres[i], ds)
    BY <1>8, <2>1, PresOn
  <2>3. Len(pres) \in Nat /\ DOMAIN pres = 1..Len(pres)
    BY <2>1, SeqTyped
  <2>4. /\ IsSeq(pres') /\ DOMAIN pres' = 1..(Len(pres) + 1)
        /\ \A i \in DOMAIN pres : pres'[i] = pres[i]
        /\ pres'[Len(pres) + 1] = g
    BY <1>3, <2>1, SeqAppend
  <2>5. \A i \in DOMAIN pres' : PresOk(pres'[i], ds)
    <3>1. \A i \in DOMAIN pres' : i \in DOMAIN pres \/ i = Len(pres) + 1
      BY <2>3, <2>4
    <3> QED BY <1>11, <2>2, <2>4, <3>1
  <2>6. \A i \in DOMAIN pres' : PresOk(pres'[i], did')
    BY <1>3, <2>5
  <2> QED BY <2>4, <2>6 DEF IncomingOk, PresOk, RepliesToOne
<1>13. ExecutedInOrder'
  BY <1>3, <1>4 DEF IsStep, ExecutedInOrder
<1>14. AnswerMatches'
  <2>1. AnswerMatches
    BY DEF ChannelInv
  <2>2. Extends(did, did')
    BY <1>3, <1>8
  <2> QED BY <1>3, <2>1, <2>2 DEF AnswerMatches, AnswersRequest, IdleTaken, Extends
<1>15. ChannelAt(s)'
  BY <1>1, <1>3, <1>8 DEF ChannelAt, ClientOk, ExecutedOk, OutgoingOk
<1> QED BY <1>9, <1>10, <1>12, <1>13, <1>14, <1>15 DEF ChannelInv

\* What is accepted as g matches the executed command d.
Matches(g, d) ==
  /\ Answered(g, d)
  /\ \/ d.id = "Nil" /\ g.abrt
     \/ posed # None /\ \/ d.sub = posed[1].sub /\ d.id = posed[1].id
                        \/ d.sub + EmbSeqs <= posed[1].sub

\* A response with the number of the last request that was sent.
LEMMA AnswerIs ==
  ASSUME ChannelInv, NEW s \in Nat, ChannelAt(s), NEW f, PresOk(f, did),
         Inside(InBox, f.p), Heard(InBox, f.p).err = "Ok",
         Heard(InBox, f.p).val.seq = (ClientOf(mn).next - 1) % EmbSeqs,
         ~Blank(f.p, InBox)
  PROVE  /\ AnswersRequest(Heard(InBox, f.p).val)
         /\ Heard(InBox, f.p).val.abrt => Len(Heard(InBox, f.p).val.data) >= 4
<1> DEFINE g == Heard(InBox, f.p).val
<1>1. f.p \in Seq(UNSIGNED8)
  BY DEF PresOk
<1>3. PICK b : RepliesToOne(b, did) /\ Has(f.p, InBox, b)
  BY DEF PresOk
<1>4. PICK j \in DOMAIN did : Replies(b, did[j])
  BY <1>3 DEF RepliesToOne
<1>5. PICK c : Answers(c, did[j]) /\ b = serialize_pdo_sdo(c)
  BY <1>4 DEF Replies
<1> DEFINE d == did[j]
<1>6. SameCommand(g, c)
  BY <1>1, <1>3, <1>5, HeardCommand, Boxes DEF Answers
<1>7. g.seq = (ClientOf(mn).next - 1) % EmbSeqs
  OBVIOUS
<1>8. /\ ClientOf(mn).next = s % EmbSeqs /\ s <= MaxRequests
      /\ posed = IF s = 0 THEN None ELSE Some(Request(s))
  <2>1. ClientAt(ClientOf(mn), asked, s)
    BY DEF ChannelAt, ClientOk
  <2>2. s <= MaxRequests
    BY ProcessDataAssumption, ByteRange DEF ChannelAt, ClientOk
  <2> QED BY <2>1, <2>2 DEF ClientAt, ChannelAt, ClientOk
<1>9. Sent(d, s)
  BY DEF ChannelAt, ExecutedOk
<1> HIDE DEF g, d
<1>10. Answers(c, d)
  BY <1>5 DEF d
<1>11. Answered(g, d) /\ (d.id = "Nil" => g.abrt) /\ g.seq = d.seq
  BY <1>6, <1>10 DEF Answered, Answers, SameCommand
<1>14. g.abrt => Len(g.data) >= 4
  <2>1. (c.abrt => Len(c.data) = 4) /\ g.abrt = c.abrt /\ Len(g.data) = Len(c.data) % 256
    BY <1>6, <1>10 DEF Answers, SameCommand
  <2>2. 4 % 256 = 4
    OBVIOUS
  <2> DEFINE x == Len(g.data)
             y == Len(c.data)
  <2> HIDE DEF x, y
  <2>3. c.abrt => x = 4
    BY <2>1, <2>2 DEF x, y
  <2>4. g.abrt => x >= 4
    BY <2>1, <2>3
  <2> QED BY <2>4 DEF x
<1>15. \A j0 \in DOMAIN did : Matches(g, did[j0]) => AnswersRequest(g)
  BY DEF AnswersRequest, Matches
<1>12. CASE d.id = "Nil"
  BY <1>11, <1>12, <1>14, <1>15 DEF g, d, Matches
<1>13. CASE d.id # "Nil"
  <2>1. d.sub \in 1..s /\ d.seq = (d.sub - 1) % EmbSeqs /\ d.id = Request(d.sub).id
    BY <1>9, <1>13 DEF Sent
  <2>2. s >= 1 /\ posed = Some(Request(s))
    BY <1>8, <2>1
  <2>3. Request(s).sub = s
    BY <1>8, <2>2, RequestTyped
  <2>4. posed # None /\ posed[1] = Request(s)
    BY <2>2 DEF Some, None
  <2> DEFINE x == d.sub - 1
             y == s - 1
  <2>5. x \in Nat /\ y \in Nat /\ x <= y /\ d.sub = x + 1 /\ s = y + 1
    BY <2>1
  <2>6. d.seq = x % EmbSeqs
    BY <2>1
  <2> HIDE DEF x, y
  <2>7. (((y + 1) % EmbSeqs) - 1) % EmbSeqs = y % EmbSeqs
    BY <2>5, PreviousNumber
  <2>8. x % EmbSeqs = y % EmbSeqs
    BY <1>7, <1>8, <1>11, <2>5, <2>6, <2>7
  <2>9. CASE x = y
    <3>1. d.sub = s
      BY <2>5, <2>9
    <3>2. d.sub = posed[1].sub /\ d.id = posed[1].id
      BY <2>1, <2>3, <2>4, <3>1
    <3> QED BY <1>11, <1>14, <1>15, <2>4, <3>2 DEF g, d, Matches
  <2>10. CASE x < y
    <3>1. x + EmbSeqs <= y
      BY <2>5, <2>8, <2>10, SameNumber
    <3>2. d.sub + EmbSeqs <= s
      BY <2>5, <3>1, Numbers
    <3>3. d.sub + EmbSeqs <= posed[1].sub
      BY <2>3, <2>4, <3>2
    <3> QED BY <1>11, <1>14, <1>15, <2>4, <3>3 DEF g, d, Matches
  <2> QED BY <2>5, <2>9, <2>10
<1> QED BY <1>12, <1>13

\* An idle container with the number of the last request that was sent.
LEMMA IdleIs ==
  ASSUME ChannelInv, NEW s \in Nat, ChannelAt(s), NEW f, PresOk(f, did),
         Inside(InBox, f.p), Heard(InBox, f.p).err = "Ok",
         Heard(InBox, f.p).val.seq = (ClientOf(mn).next - 1) % EmbSeqs,
         Blank(f.p, InBox)
  PROVE  IdleTaken(Heard(InBox, f.p).val)
<1> DEFINE g == Heard(InBox, f.p).val
<1>1. g.resp = FALSE /\ g.abrt = FALSE /\ g.seq = 0
  BY HeardBlank, Boxes DEF PresOk
<1>2. g.seq = (ClientOf(mn).next - 1) % EmbSeqs
  OBVIOUS
<1> HIDE DEF g
<1>3. /\ ClientOf(mn).next = s % EmbSeqs /\ s <= MaxRequests
      /\ posed = IF s = 0 THEN None ELSE Some(Request(s))
  <2>1. ClientAt(ClientOf(mn), asked, s)
    BY DEF ChannelAt, ClientOk
  <2>2. s <= MaxRequests
    BY ProcessDataAssumption, ByteRange DEF ChannelAt, ClientOk
  <2> QED BY <2>1, <2>2 DEF ClientAt, ChannelAt, ClientOk
<1>4. s # 0
  <2>1. EmbSeqs \in Nat /\ EmbSeqs >= 2
    BY EmbSeqsAssumption
  <2>2. 0 % EmbSeqs = 0 /\ (0 - 1) % EmbSeqs # 0
    BY <2>1
  <2> QED BY <1>1, <1>2, <1>3, <2>2
<1> DEFINE y == s - 1
<1>5. y \in Nat /\ s = y + 1
  BY <1>4
<1> HIDE DEF y
<1>6. y % EmbSeqs = 0
  BY <1>1, <1>2, <1>3, <1>5, PreviousNumber
<1>7. posed = Some(Request(s)) /\ Request(s).sub = s
  BY <1>3, <1>4, <1>5, RequestTyped
<1>8. posed # None /\ posed[1].sub = s
  BY <1>7 DEF Some, None
<1>9. posed[1].sub - 1 = y
  BY <1>5, <1>8
<1> QED BY <1>1, <1>6, <1>8, <1>9 DEF IdleTaken, g

\* What a PRes that is waited for, or not, makes of the MN.
LEMMA MnTakes ==
  ASSUME ChannelInv, NEW s \in Nat, ChannelAt(s), NEW f, PresOk(f, did),
         NEW n, n = IF waiting THEN consume_pdo_payload(AtRest(mn), f.src, f.p, f.version, f.rd)
                    ELSE AtRest(mn)
  PROVE  MnHeard(AtRest(mn), f.p, n)
<1> DEFINE m == AtRest(mn)
<1>1. IsNode(m) /\ m.od = mn.od /\ m.ec = mn.ec /\ m.got = <<>>
  BY RestNode DEF ChannelInv, NodesOk
<1>2. ClientOf(m) = ClientOf(mn)
  BY <1>1 DEF ClientOf
<1>3. IsClient(ClientOf(m))
  <2>1. ClientAt(ClientOf(m), asked, s)
    BY <1>2 DEF ChannelAt, ClientOk
  <2> QED BY <2>1 DEF ClientAt, IsClient
<1>4. f.p \in Seq(UNSIGNED8)
  BY DEF PresOk
<1>5. Configured(m.od, Box, OutBox, InBox)
  BY <1>1 DEF ChannelInv, DictionariesOk
<1> HIDE DEF m
<1>6. CASE waiting
  <2>1. n = consume_pdo_payload(m, f.src, f.p, f.version, f.rd)
    BY <1>6 DEF m
  <2>2. MnHeard(m, f.p, n)
    BY <1>1, <1>3, <1>4, <1>5, <2>1, MnConsumes
  <2> QED BY <2>2 DEF m
<1>7. CASE ~waiting
  <2>1. n = m
    BY <1>7 DEF m
  <2>2. KeepsMappings(m.od, m.od)
    BY <1>5, KeepsMappingsSame DEF Configured
  <2>3. n.got \in Seq({Heard(InBox, f.p).val}) /\ n.got = <<>>
    <3> DEFINE S == {Heard(InBox, f.p).val}
    <3> HIDE DEF S
    <3>1. <<>> \in Seq(S)
      OBVIOUS
    <3> QED BY <1>1, <2>1, <3>1 DEF S
  <2>4. MnHeard(m, f.p, n)
    BY <1>1, <1>3, <2>1, <2>2, <2>3 DEF MnHeard, IsClient
  <2> QED BY <2>4 DEF m
<1> QED BY <1>6, <1>7

LEMMA MnReceiveKeeps == ChannelInv /\ MnReceive => ChannelInv'
<1> SUFFICES ASSUME ChannelInv, MnReceive PROVE ChannelInv'
  OBVIOUS
<1>1. PICK s \in Nat : ChannelAt(s)
  BY DEF ChannelInv
<1>2. IsSeq(pres) /\ (\A k \in DOMAIN pres : PresOk(pres[k], did)) /\ pres # <<>>
  BY DEF ChannelInv, IncomingOk, MnReceive
<1> DEFINE f == Head(pres)
           m == AtRest(mn)
           n == IF waiting THEN consume_pdo_payload(m, f.src, f.p, f.version, f.rd) ELSE m
           g == Heard(InBox, f.p).val
<1>3. /\ mn' = n /\ pres' = Tail(pres)
      /\ cn' = cn /\ preq' = preq /\ asked' = asked /\ posed' = posed /\ did' = did
  BY DEF MnReceive
<1>4. PresOk(f, did)
  BY <1>2, SeqTail
<1> HIDE DEF f
<1>5. MnHeard(m, f.p, n)
  BY <1>1, <1>4, MnTakes
<1>6. m.od = mn.od /\ m.ec = mn.ec
  BY RestNode DEF ChannelInv, NodesOk
<1>7. ClientOf(m) = ClientOf(mn)
  BY <1>6 DEF ClientOf
<1> HIDE DEF m, n
<1>8. /\ IsNode(mn') /\ KeepsMappings(mn.od, mn'.od)
      /\ Box \in DOMAIN mn'.ec <=> Box \in DOMAIN mn.ec
      /\ ClientOf(mn') = [last |-> ClientOf(mn').last, next |-> ClientOf(mn).next, queue |-> ClientOf(mn).queue]
      /\ mn'.got \in Seq({g})
      /\ mn'.got # <<>> => /\ Inside(InBox, f.p) /\ Heard(InBox, f.p).err = "Ok"
                           /\ g.seq = (ClientOf(mn).next - 1) % EmbSeqs
  BY <1>3, <1>5, <1>6, <1>7 DEF MnHeard
<1>9. NodesOk' /\ DictionariesOk'
  BY <1>3, <1>8, KeepsConfigured, KeepsPaintable DEF ChannelInv, NodesOk, DictionariesOk
<1>10. ServerOk'
  BY <1>3 DEF ChannelInv, ServerOk, ServerOf
<1>11. IncomingOk'
  <2>1. IsSeq(Tail(pres)) /\ \A k \in DOMAIN Tail(pres) : PresOk(Tail(pres)[k], did)
    BY <1>2, SeqTail
  <2> QED BY <1>3, <2>1 DEF IncomingOk
<1>12. ExecutedInOrder'
  BY <1>3 DEF ChannelInv, ExecutedInOrder
<1>13. AnswerMatches'
  <2>1. ASSUME NEW k \in DOMAIN mn'.got
        PROVE  /\ AnswersRequest(mn'.got[k]) \/ IdleTaken(mn'.got[k])
               /\ mn'.got[k].abrt => Len(mn'.got[k].data) >= 4
    <3>1. mn'.got # <<>> /\ mn'.got[k] = g
      BY <1>8, <2>1
    <3>2. CASE Blank(f.p, InBox)
      <4>1. IdleTaken(g)
        BY <1>1, <1>4, <1>8, <3>1, <3>2, IdleIs
      <4>2. ~g.abrt
        BY <4>1 DEF IdleTaken
      <4> QED BY <3>1, <4>1, <4>2
    <3>3. CASE ~Blank(f.p, InBox)
      BY <1>1, <1>4, <1>8, <3>1, <3>3, AnswerIs
    <3> QED BY <3>2, <3>3
  <2>2. \A h : (AnswersRequest(h)' <=> AnswersRequest(h)) /\ (IdleTaken(h)' <=> IdleTaken(h))
    BY <1>3 DEF AnswersRequest, IdleTaken
  <2> QED BY <2>1, <2>2 DEF AnswerMatches
<1>14. ClientOk(s)'
  <2>1. ClientAt(ClientOf(mn), asked, s)
    BY <1>1 DEF ChannelAt, ClientOk
  <2>2. ClientAt(ClientOf(mn'), asked, s)
    BY <1>8, <2>1 DEF ClientAt
  <2> QED BY <1>1, <1>3, <1>8, <2>2 DEF ChannelAt, ClientOk, ClientOf
<1>15. ExecutedOk(s)' /\ OutgoingOk(s)'
  BY <1>1, <1>3 DEF ChannelAt, ExecutedOk, OutgoingOk, Fresh
<1> QED BY <1>9, <1>10, <1>11, <1>12, <1>13, <1>14, <1>15 DEF ChannelInv, ChannelAt

(* The applications: images and mappings. *)

WithOd(nd, o) == [nd EXCEPT !.od = o]
StoredOd(o, i, k, v) == [o EXCEPT ![i].vals[k] = v]
MappedOd(o, i, vs) == [o EXCEPT ![i].vals = vs]
IsWithOd(nd, n, o) == /\ IsNode(n) /\ n.od = o /\ n.es = nd.es /\ n.ec = nd.ec
                      /\ n.ran = nd.ran /\ n.got = nd.got

LEMMA WithOdNode == ASSUME NEW nd, IsNode(nd), NEW o PROVE IsWithOd(nd, WithOd(nd, o), o)
<1> DEFINE n == WithOd(nd, o)
<1>1. n = [od |-> o, es |-> nd.es, ec |-> nd.ec, errs |-> nd.errs, ran |-> nd.ran, got |-> nd.got]
  BY DEF WithOd, IsNode
<1> HIDE DEF n
<1>2. IsWithOd(nd, n, o)
  BY <1>1 DEF IsWithOd, IsNode
<1> QED BY <1>2 DEF n

LEMMA StoredKeeps ==
  ASSUME NEW o, IsDictionary(o), NEW i, ~IsPdoMapping(i), NEW k, NEW v \in ObjectValue
  PROVE  KeepsMappings(o, StoredOd(o, i, k, v))
<1>1. CASE i \in DOMAIN o
  BY <1>1, StoreKeepsMappings DEF StoredOd
<1>2. CASE i \notin DOMAIN o
  <2>1. o = [j \in DOMAIN o |-> o[j]]
    BY DEF IsDictionary
  <2>2. StoredOd(o, i, k, v) = o
    BY <1>2, <2>1 DEF StoredOd
  <2> QED BY <2>2, KeepsMappingsSame
<1> QED BY <1>1, <1>2

LEMMA ByteValue == ASSUME NEW n \in Nat PROVE U8(n) \in ObjectValue
<1>1. Le(n, 1) \in Seq(UNSIGNED8) /\ Len(Le(n, 1)) = 1
  BY LeBytes
<1> QED BY <1>1 DEF U8, ObjectValue, ObjectType, Width

LEMMA OneDirection == ASSUME NEW i, IsTpdoMapping(i) PROVE ~IsRpdoMapping(i)
<1>1. i \in Int /\ i >= \h1A00
  BY DEF IsTpdoMapping
<1>2. ASSUME IsRpdoMapping(i) PROVE i < \h1A00
  BY <1>2 DEF IsRpdoMapping
<1> QED BY <1>1, <1>2

LEMMA PaintableSame ==
  ASSUME NEW o, NEW p, DOMAIN p = DOMAIN o, \A j \in DOMAIN o : p[j].obj = o[j].obj,
         NEW objs, Paintable(o, objs)
  PROVE  Paintable(p, objs)
BY DEF Paintable

LEMMA MappedOk ==
  ASSUME NEW o, NEW ch, NEW out, NEW in, Configured(o, ch, out, in), NEW objs, Paintable(o, objs),
         NEW i, NEW send \in BOOLEAN, IF send THEN IsTpdoMapping(i) ELSE IsRpdoMapping(i),
         NEW vs \in Seq(ObjectValue), Len(vs) <= 255, Placed(vs, send, ch, out, in)
  PROVE  Configured(MappedOd(o, i, vs), ch, out, in) /\ Paintable(MappedOd(o, i, vs), objs)
<1> DEFINE p == MappedOd(o, i, vs)
<1>1. IsDictionary(o) /\ o = [j \in DOMAIN o |-> o[j]]
  BY DEF Configured, IsDictionary
<1>2. CASE i \notin DOMAIN o
  <2>1. p = o
    BY <1>1, <1>2 DEF MappedOd
  <2> QED BY <2>1
<1>3. CASE i \in DOMAIN o
  <2> DEFINE e == [o[i] EXCEPT !.vals = vs]
  <2>1. p = [o EXCEPT ![i] = e]
    BY <1>1, <1>3 DEF MappedOd
  <2>2. o[i] \in ObjectEntries /\ o[i].obj # "Variable"
    BY <1>1, <1>3 DEF Configured, IsDictionary
  <2>3. e \in ObjectEntries
    BY <2>2, SetVals
  <2>4. e.obj = o[i].obj /\ e.vals = vs
    BY <2>2 DEF ObjectEntries
  <2> HIDE DEF e
  <2>5. IsDictionary(p)
    <3> HIDE DEF p
    <3>1. IsDictionary(o)
      BY <1>1
    <3>2. IsDictionary([o EXCEPT ![i] = e])
      BY <1>3, <2>3, <3>1, SetEntry
    <3> QED BY <2>1, <3>2
  <2>6. DOMAIN p = DOMAIN o /\ p[i] = e /\ \A j \in DOMAIN o : j # i => p[j] = o[j]
    BY <1>1, <1>3, <2>1
  <2> HIDE DEF p
  <2>7. ~(IsTpdoMapping(i) /\ IsRpdoMapping(i))
    BY OneDirection
  <2>8. ASSUME NEW j \in DOMAIN p, IsTpdoMapping(j)
        PROVE  p[j].obj # "Variable" /\ Placed(p[j].vals, TRUE, ch, out, in)
    <3>1. CASE j = i
      <4>1. send = TRUE
        BY <2>7, <2>8, <3>1
      <4> QED BY <2>2, <2>4, <2>6, <3>1, <4>1
    <3>2. CASE j # i
      BY <2>6, <2>8, <3>2 DEF Configured
    <3> QED BY <3>1, <3>2
  <2>9. ASSUME NEW j \in DOMAIN p, IsRpdoMapping(j)
        PROVE  p[j].obj # "Variable" /\ Placed(p[j].vals, FALSE, ch, out, in)
    <3>1. CASE j = i
      <4>1. send = FALSE
        BY <2>7, <2>9, <3>1
      <4> QED BY <2>2, <2>4, <2>6, <3>1, <4>1
    <3>2. CASE j # i
      BY <2>6, <2>9, <3>2 DEF Configured
    <3> QED BY <3>1, <3>2
  <2>10. Configured(p, ch, out, in)
    BY <2>5, <2>8, <2>9 DEF Configured
  <2>11. Paintable(p, objs)
    <3>1. \A j \in DOMAIN o : p[j].obj = o[j].obj
      BY <2>4, <2>6
    <3> QED BY <2>6, <3>1, PaintableSame
  <2> QED BY <2>10, <2>11 DEF p
<1> QED BY <1>2, <1>3

\* A node with another image or another mapping is as well configured.
Reconfigures(nd, n, ch, out, in, objs) ==
  /\ IsNode(n) /\ n.es = nd.es /\ n.ec = nd.ec /\ n.got = nd.got
  /\ Configured(n.od, ch, out, in) /\ Paintable(n.od, objs)

LEMMA StoredReconfigures ==
  ASSUME NEW nd, NEW m, NEW ch, NEW out, NEW in, NEW objs, Reconfigures(nd, m, ch, out, in, objs),
         NEW i, ~IsPdoMapping(i), NEW k, NEW v \in ObjectValue
  PROVE  Reconfigures(nd, Stored(m, i, k, v), ch, out, in, objs)
<1> DEFINE o == StoredOd(m.od, i, k, v)
           n == Stored(m, i, k, v)
<1>1. IsNode(m) /\ IsDictionary(m.od)
  BY DEF Reconfigures, Configured
<1>2. n = WithOd(m, o)
  BY <1>1 DEF Stored, WithOd, StoredOd, IsNode
<1>3. KeepsMappings(m.od, o)
  BY <1>1, StoredKeeps
<1> HIDE DEF o, n
<1>4. IsWithOd(m, n, o)
  BY <1>1, <1>2, WithOdNode
<1>5. Configured(o, ch, out, in) /\ Paintable(o, objs)
  BY <1>3, KeepsConfigured, KeepsPaintable DEF Reconfigures
<1>6. Reconfigures(nd, n, ch, out, in, objs)
  BY <1>4, <1>5 DEF Reconfigures, IsWithOd
<1> QED BY <1>6 DEF n

LEMMA MappedReconfigures ==
  ASSUME NEW nd, NEW m, NEW ch, NEW out, NEW in, NEW objs, Reconfigures(nd, m, ch, out, in, objs),
         NEW i, NEW send \in BOOLEAN, IF send THEN IsTpdoMapping(i) ELSE IsRpdoMapping(i),
         NEW vs \in Seq(ObjectValue), Len(vs) <= 255, Placed(vs, send, ch, out, in)
  PROVE  Reconfigures(nd, Mapped(m, i, vs), ch, out, in, objs)
<1> DEFINE o == MappedOd(m.od, i, vs)
           n == Mapped(m, i, vs)
<1>1. IsNode(m) /\ Configured(m.od, ch, out, in) /\ Paintable(m.od, objs)
  BY DEF Reconfigures
<1>2. n = WithOd(m, o)
  BY <1>1 DEF Mapped, WithOd, MappedOd, IsNode
<1>3. Configured(o, ch, out, in) /\ Paintable(o, objs)
  BY <1>1, MappedOk
<1> HIDE DEF o, n
<1>4. IsWithOd(m, n, o)
  BY <1>1, <1>2, WithOdNode
<1>5. Reconfigures(nd, n, ch, out, in, objs)
  BY <1>3, <1>4 DEF Reconfigures, IsWithOd
<1> QED BY <1>5 DEF n

LEMMA Reconfigured ==
  ASSUME ChannelInv
  PROVE  Reconfigures(mn, mn, Box, OutBox, InBox, Outputs) /\ Reconfigures(cn, cn, Server, InBox, OutBox, Inputs)
BY DEF ChannelInv, NodesOk, DictionariesOk, Reconfigures

LEMMA VariableValue ==
  ASSUME NEW e \in ObjectEntries, e.obj = "Variable"
  PROVE  e.vals \in Seq(ObjectValue) /\ 1 \in DOMAIN e.vals
<1>1. e.vals \in Seq(ObjectValue)
  BY DEF ObjectEntries
<1>2. Len(e.vals) = 1
  BY DEF ObjectEntries
<1>3. Len(e.vals) >= 1
  BY <1>2
<1> QED BY <1>1, <1>3

LEMMA PaintOneOk ==
  ASSUME NEW nd, NEW m, NEW ch, NEW out, NEW in, NEW objs, Reconfigures(nd, m, ch, out, in, objs),
         NEW x \in DOMAIN objs, NEW k \in Nat
  PROVE  Reconfigures(nd, PaintedOne(m, objs[x], k), ch, out, in, objs)
<1> DEFINE i == objs[x]
           v == m.od[i].vals[1]
           u == [t |-> v.t, d |-> Le(k, Len(v.d))]
<1>1. IsNode(m) /\ IsDictionary(m.od) /\ Paintable(m.od, objs)
  BY DEF Reconfigures, Configured
<1>2. i \in DOMAIN m.od /\ i \notin \h1000..\h1FFF /\ m.od[i].obj = "Variable"
  BY <1>1 DEF Paintable
<1>3. ~IsPdoMapping(i)
  <2> HIDE DEF i
  <2> QED BY <1>2, Area
<1> HIDE DEF i
<1>4. m.od[i] \in ObjectEntries
  BY <1>1, <1>2 DEF IsDictionary
<1>5. m.od[i].vals \in Seq(ObjectValue) /\ 1 \in DOMAIN m.od[i].vals
  <2> DEFINE e == m.od[i]
  <2>1. e \in ObjectEntries /\ e.obj = "Variable"
    BY <1>2, <1>4
  <2> HIDE DEF e
  <2>2. e.vals \in Seq(ObjectValue) /\ 1 \in DOMAIN e.vals
    BY <2>1, VariableValue
  <2> QED BY <2>2 DEF e
<1>6. v \in ObjectValue
  BY <1>5
<1> HIDE DEF v
<1>7. Len(v.d) \in Nat /\ v = [t |-> v.t, d |-> v.d]
  BY <1>6 DEF ObjectValue
<1>8. u \in ObjectValue
  <2> DEFINE l == Le(k, Len(v.d))
  <2>1. l \in Seq(UNSIGNED8) /\ Len(l) = Len(v.d)
    BY <1>7, LeBytes
  <2> HIDE DEF l
  <2>2. [t |-> v.t, d |-> l] \in ObjectValue
    BY <1>6, <2>1 DEF ObjectValue
  <2> QED BY <2>2 DEF l
<1>9. PaintedOne(m, i, k) = Stored(m, i, 1, u)
  <2>1. [v EXCEPT !.d = Le(k, Len(v.d))] = u
    BY <1>7
  <2> HIDE DEF u
  <2>2. PaintedOne(m, i, k) = Stored(m, i, 1, [v EXCEPT !.d = Le(k, Len(v.d))])
    BY DEF PaintedOne, Stored, v
  <2> QED BY <2>1, <2>2
<1> HIDE DEF u
<1>10. Reconfigures(nd, PaintedOne(m, i, k), ch, out, in, objs)
  BY <1>3, <1>8, <1>9, StoredReconfigures
<1> QED BY <1>10 DEF i

LEMMA PaintedOk ==
  ASSUME NEW nd, NEW ch, NEW out, NEW in, NEW objs, 1 \in DOMAIN objs, 2 \in DOMAIN objs,
         Reconfigures(nd, nd, ch, out, in, objs), NEW k \in Nat
  PROVE  Reconfigures(nd, Painted(nd, objs, k), ch, out, in, objs)
<1> DEFINE m == PaintedOne(nd, objs[1], k)
<1>1. Reconfigures(nd, m, ch, out, in, objs)
  BY PaintOneOk
<1> HIDE DEF m
<1>2. Reconfigures(nd, PaintedOne(m, objs[2], k), ch, out, in, objs)
  BY <1>1, PaintOneOk
<1>3. Painted(nd, objs, k) = PaintedOne(m, objs[2], k)
  BY DEF Painted, m
<1> QED BY <1>2, <1>3

LEMMA RemappedOk ==
  ASSUME NEW nd, NEW ch, NEW out, NEW in, NEW objs, Reconfigures(nd, nd, ch, out, in, objs),
         NEW l, LayoutOk(l, ch, out, in), NEW c, ~IsPdoMapping(c),
         IF l.send THEN IsTpdoMapping(c + \h200) ELSE IsRpdoMapping(c + \h200)
  PROVE  Reconfigures(nd, Remapped(nd, c, l), ch, out, in, objs)
<1> DEFINE m == Stored(nd, c, 2, U8(l.version))
           i == c + \h200
           e == l.entries
<1>1. l.version \in Nat /\ l.send \in BOOLEAN
  BY ByteRange DEF LayoutOk
<1>2. e \in Seq(ObjectValue) /\ Len(e) <= 255 /\ Placed(e, l.send, ch, out, in)
  BY DEF LayoutOk
<1>3. U8(l.version) \in ObjectValue
  BY <1>1, ByteValue
<1>4. Reconfigures(nd, m, ch, out, in, objs)
  BY <1>3, StoredReconfigures
<1>5. IF l.send THEN IsTpdoMapping(i) ELSE IsRpdoMapping(i)
  OBVIOUS
<1> HIDE DEF m, i, e
<1>6. Reconfigures(nd, Mapped(m, i, e), ch, out, in, objs)
  BY <1>1, <1>2, <1>4, <1>5, MappedReconfigures
<1> QED BY <1>6 DEF Remapped, m, i, e

\* The objects a layout changes besides the mapping itself.
LEMMA LayoutObjects ==
  /\ ~IsPdoMapping(\h1800) /\ ~IsPdoMapping(\h1400) /\ ~IsPdoMapping(\h1F8B) /\ ~IsPdoMapping(\h1F98)
  /\ IsTpdoMapping(\h1800 + \h200) /\ IsRpdoMapping(\h1400 + \h200)
BY DEF IsPdoMapping, IsTpdoMapping, IsRpdoMapping

LEMMA RemapOk ==
  ASSUME NEW nd, NEW ch, NEW out, NEW in, NEW objs, Reconfigures(nd, nd, ch, out, in, objs),
         NEW l, LayoutOk(l, ch, out, in), NEW i, ~IsPdoMapping(i), NEW k,
         NEW n, n = IF l.send THEN Stored(Remapped(nd, \h1800, l), i, k, U16(l.limit))
                    ELSE Remapped(nd, \h1400, l)
  PROVE  Reconfigures(nd, n, ch, out, in, objs)
<1> DEFINE t == \h1800
           r == \h1400
<1>1. ~IsPdoMapping(t) /\ ~IsPdoMapping(r) /\ IsTpdoMapping(t + \h200) /\ IsRpdoMapping(r + \h200)
  BY LayoutObjects
<1>2. n = IF l.send THEN Stored(Remapped(nd, t, l), i, k, U16(l.limit)) ELSE Remapped(nd, r, l)
  OBVIOUS
<1> HIDE DEF t, r
<1>3. CASE l.send
  <2> DEFINE m == Remapped(nd, t, l)
  <2>1. Reconfigures(nd, m, ch, out, in, objs)
    BY <1>1, <1>3, RemappedOk
  <2>2. U16(l.limit) \in ObjectValue
    BY Word, WordRange DEF LayoutOk
  <2> HIDE DEF m
  <2>3. Reconfigures(nd, Stored(m, i, k, U16(l.limit)), ch, out, in, objs)
    BY <2>1, <2>2, StoredReconfigures
  <2> QED BY <1>2, <1>3, <2>3 DEF m
<1>4. CASE ~l.send
  BY <1>1, <1>2, <1>4, RemappedOk
<1> QED BY <1>3, <1>4

LEMMA MnReconfigured ==
  ASSUME ChannelInv, Reconfigures(mn, mn', Box, OutBox, InBox, Outputs),
         UNCHANGED <<cn, preq, pres, asked, posed, did>>
  PROVE  ChannelInv'
<1>1. PICK s \in Nat : ChannelAt(s)
  BY DEF ChannelInv
<1>2. IsNode(mn') /\ mn'.ec = mn.ec /\ mn'.got = mn.got
  BY DEF Reconfigures
<1>3. NodesOk' /\ DictionariesOk'
  BY <1>2 DEF ChannelInv, NodesOk, DictionariesOk, Reconfigures
<1>4. ServerOk' /\ IncomingOk'
  BY DEF ChannelInv, ServerOk, ServerOf, IncomingOk
<1>5. ExecutedInOrder'
  BY DEF ChannelInv, ExecutedInOrder
<1>6. AnswerMatches'
  BY <1>2 DEF ChannelInv, AnswerMatches, AnswersRequest, IdleTaken
<1>7. ClientOk(s)'
  <2>1. ClientOf(mn') = ClientOf(mn)
    BY <1>2 DEF ClientOf
  <2> QED BY <1>1, <1>2, <2>1 DEF ChannelAt, ClientOk, ClientOf
<1>8. ExecutedOk(s)' /\ OutgoingOk(s)'
  BY <1>1 DEF ChannelAt, ExecutedOk, OutgoingOk, Fresh
<1> QED BY <1>3, <1>4, <1>5, <1>6, <1>7, <1>8 DEF ChannelInv, ChannelAt

LEMMA CnReconfigured ==
  ASSUME ChannelInv, Reconfigures(cn, cn', Server, InBox, OutBox, Inputs),
         UNCHANGED <<mn, preq, pres, asked, posed, did>>
  PROVE  ChannelInv'
<1>1. PICK s \in Nat : ChannelAt(s)
  BY DEF ChannelInv
<1>2. IsNode(cn') /\ cn'.es = cn.es
  BY DEF Reconfigures
<1>3. NodesOk' /\ DictionariesOk'
  BY <1>2 DEF ChannelInv, NodesOk, DictionariesOk, Reconfigures
<1>4. ServerOk'
  BY <1>2 DEF ChannelInv, ServerOk, ServerOf
<1>5. IncomingOk'
  BY DEF ChannelInv, IncomingOk
<1>6. ExecutedInOrder' /\ AnswerMatches'
  BY DEF ChannelInv, ExecutedInOrder, AnswerMatches, AnswersRequest, IdleTaken
<1>7. ChannelAt(s)'
  BY <1>1 DEF ChannelAt, ClientOk, ExecutedOk, OutgoingOk, Fresh
<1> QED BY <1>3, <1>4, <1>5, <1>6, <1>7 DEF ChannelInv

LEMMA ApplicationsKeep ==
  ASSUME ChannelInv,
         \/ \E k \in 1..MaxPicture : MnPaint(k) \/ CnPaint(k)
         \/ \E l \in MnLayouts : MnRemap(l)
         \/ \E l \in CnLayouts : CnRemap(l)
  PROVE  ChannelInv'
<1>1. Reconfigures(mn, mn, Box, OutBox, InBox, Outputs) /\ Reconfigures(cn, cn, Server, InBox, OutBox, Inputs)
  BY Reconfigured
<1>2. 1 \in DOMAIN Outputs /\ 2 \in DOMAIN Outputs /\ 1 \in DOMAIN Inputs /\ 2 \in DOMAIN Inputs
  <2>1. Outputs \in Seq(UNSIGNED16) /\ Len(Outputs) >= 2 /\ Inputs \in Seq(UNSIGNED16) /\ Len(Inputs) >= 2
    BY ProcessDataAssumption
  <2> QED BY <2>1
<1>3. ASSUME NEW k \in 1..MaxPicture, MnPaint(k) PROVE ChannelInv'
  <2>1. Reconfigures(mn, Painted(mn, Outputs, k), Box, OutBox, InBox, Outputs)
    BY <1>1, <1>2, PaintedOk
  <2> QED BY <1>3, <2>1, MnReconfigured DEF MnPaint
<1>4. ASSUME NEW k \in 1..MaxPicture, CnPaint(k) PROVE ChannelInv'
  <2>1. Reconfigures(cn, Painted(cn, Inputs, k), Server, InBox, OutBox, Inputs)
    BY <1>1, <1>2, PaintedOk
  <2> QED BY <1>4, <2>1, CnReconfigured DEF CnPaint
<1>5. ASSUME NEW l \in MnLayouts, MnRemap(l) PROVE ChannelInv'
  <2>1. LayoutOk(l, Box, OutBox, InBox)
    BY LayoutAssumption
  <2>2. mn' = IF l.send THEN Stored(Remapped(mn, \h1800, l), \h1F8B, 1, U16(l.limit))
              ELSE Remapped(mn, \h1400, l)
    BY <1>5 DEF MnRemap
  <2>3. Reconfigures(mn, mn', Box, OutBox, InBox, Outputs)
    BY <1>1, <2>1, <2>2, LayoutObjects, RemapOk
  <2> QED BY <1>5, <2>3, MnReconfigured DEF MnRemap
<1>6. ASSUME NEW l \in CnLayouts, CnRemap(l) PROVE ChannelInv'
  <2>1. LayoutOk(l, Server, InBox, OutBox)
    BY LayoutAssumption
  <2>2. cn' = IF l.send THEN Stored(Remapped(cn, \h1800, l), \h1F98, 5, U16(l.limit))
              ELSE Remapped(cn, \h1400, l)
    BY <1>6 DEF CnRemap
  <2>3. Reconfigures(cn, cn', Server, InBox, OutBox, Inputs)
    BY <1>1, <2>1, <2>2, LayoutObjects, RemapOk
  <2> QED BY <1>6, <2>3, CnReconfigured DEF CnRemap
<1> QED BY <1>3, <1>4, <1>5, <1>6

\* A request joins the queue of the client.
LEMMA AskKeeps == ChannelInv /\ Ask => ChannelInv'
<1> SUFFICES ASSUME ChannelInv, Ask PROVE ChannelInv'
  OBVIOUS
<1> DEFINE q == Request(asked + 1)
           k == ClientOf(mn)
           e == queue_request(mn.ec, Box, q.id, q.index, q.sub, q.data)
           n == [mn EXCEPT !.ec = e]
<1>1. PICK s \in Nat : ChannelAt(s)
  BY DEF ChannelInv
<1>2. /\ mn' = n /\ asked' = asked + 1 /\ asked < MaxRequests
      /\ cn' = cn /\ preq' = preq /\ pres' = pres /\ posed' = posed /\ did' = did
  BY DEF Ask
<1>3. n = [od |-> mn.od, es |-> mn.es, ec |-> e, errs |-> mn.errs, ran |-> mn.ran, got |-> mn.got]
  BY DEF ChannelInv, NodesOk, IsNode
<1>4. [id |-> q.id, index |-> q.index, sub |-> q.sub, data |-> q.data] = q
  BY DEF Request
<1>5. asked \in Nat /\ s <= asked /\ ClientAt(k, asked, s) /\ MaxRequests \in Nat
  BY <1>1, ProcessDataAssumption, ByteRange DEF ChannelAt, ClientOk
<1>6. Append(Waiting(s, asked), q) = Waiting(s, asked + 1)
  BY <1>5, WaitingMore
<1> DEFINE x == [k EXCEPT !.queue = Append(@, q)]
<1>7. e = SetChannel(mn.ec, Box, x)
  BY <1>4, ClientSide DEF queue_request, ClientOf
<1> HIDE DEF q, k
<1>8. ClientAt(x, asked + 1, s)
  <2>1. x = [last |-> k.last, next |-> s % EmbSeqs, queue |-> Waiting(s, asked + 1)]
    <3>1. k = [last |-> k.last, next |-> s % EmbSeqs, queue |-> Waiting(s, asked)]
      BY <1>5 DEF ClientAt
    <3> DEFINE w == Waiting(s, asked)
               y == s % EmbSeqs
    <3> HIDE DEF w, y
    <3>2. k = [last |-> k.last, next |-> y, queue |-> w] /\ Append(w, q) = Waiting(s, asked + 1)
      BY <1>6, <3>1 DEF w, y
    <3>3. x = [last |-> k.last, next |-> y, queue |-> Append(w, q)]
      BY <3>2
    <3> QED BY <3>2, <3>3 DEF y
  <2> HIDE DEF x
  <2> QED BY <2>1 DEF ClientAt
<1> HIDE DEF e, n, x
<1>9. IsNode(mn') /\ mn'.ec = e /\ mn'.od = mn.od /\ mn'.got = mn.got
  BY <1>2, <1>3 DEF IsNode
<1>10. Box \in DOMAIN e /\ Channel(e, Box, ClientConn) = x
  BY <1>7, ChannelSet
<1>11. NodesOk' /\ DictionariesOk'
  BY <1>2, <1>9 DEF ChannelInv, NodesOk, DictionariesOk
<1>12. ServerOk' /\ IncomingOk'
  BY <1>2 DEF ChannelInv, ServerOk, ServerOf, IncomingOk
<1>13. ExecutedInOrder'
  BY <1>2 DEF ChannelInv, ExecutedInOrder
<1>14. AnswerMatches'
  BY <1>2, <1>9 DEF ChannelInv, AnswerMatches, AnswersRequest, IdleTaken
<1>15. ClientOk(s)'
  <2>1. ClientOf(mn') = x /\ Box \in DOMAIN mn'.ec
    BY <1>9, <1>10 DEF ClientOf
  <2>2. asked' \in Nat /\ s <= asked' /\ asked' <= MaxRequests /\ ClientAt(ClientOf(mn'), asked', s)
    BY <1>2, <1>5, <1>8, <2>1
  <2>3. posed' = IF s = 0 THEN None ELSE Some(Request(s))
    BY <1>1, <1>2 DEF ChannelAt, ClientOk
  <2> QED BY <2>1, <2>2, <2>3 DEF ClientOk, ClientOf
<1>16. ExecutedOk(s)' /\ OutgoingOk(s)'
  BY <1>1, <1>2 DEF ChannelAt, ExecutedOk, OutgoingOk, Fresh
<1> QED BY <1>11, <1>12, <1>13, <1>14, <1>15, <1>16 DEF ChannelInv, ChannelAt

\* Nothing of the channel moves but frames that get lost.
LEMMA LossKeeps ==
  ASSUME ChannelInv, UNCHANGED <<mn, cn, asked, posed, did>>,
         preq' = preq \/ preq' = None, pres' = pres \/ (pres # <<>> /\ pres' = Tail(pres))
  PROVE  ChannelInv'
<1>1. PICK s \in Nat : ChannelAt(s)
  BY DEF ChannelInv
<1>2. NodesOk' /\ DictionariesOk' /\ ServerOk'
  BY DEF ChannelInv, NodesOk, DictionariesOk, ServerOk, ServerOf
<1>3. ExecutedInOrder' /\ AnswerMatches'
  BY DEF ChannelInv, ExecutedInOrder, AnswerMatches, AnswersRequest, IdleTaken
<1>4. IncomingOk'
  <2>1. IsSeq(pres) /\ \A k \in DOMAIN pres : PresOk(pres[k], did)
    BY DEF ChannelInv, IncomingOk
  <2>2. CASE pres' = pres
    BY <2>1, <2>2 DEF IncomingOk
  <2>3. CASE pres # <<>> /\ pres' = Tail(pres)
    <3>1. IsSeq(Tail(pres)) /\ \A k \in DOMAIN Tail(pres) : PresOk(Tail(pres)[k], did)
      BY <2>1, <2>3, SeqTail
    <3> QED BY <2>3, <3>1 DEF IncomingOk
  <2> QED BY <2>2, <2>3
<1>5. ClientOk(s)' /\ ExecutedOk(s)'
  BY <1>1 DEF ChannelAt, ClientOk, ExecutedOk
<1>6. OutgoingOk(s)'
  BY <1>1 DEF ChannelAt, OutgoingOk, Fresh
<1> QED BY <1>2, <1>3, <1>4, <1>5, <1>6 DEF ChannelInv, ChannelAt

\* The invariant of the channel holds of every behaviour: the client's queue,
\* the frames on their way, the response that waits at the server and what
\* was executed agree, whatever was lost and however often the nodes were
\* remapped.
THEOREM ChannelInvariant == Spec => []ChannelInv
<1>1. Init => ChannelInv
  BY ChannelInit
<1>2. ChannelInv /\ [Next]_vars => ChannelInv'
  <2> SUFFICES ASSUME ChannelInv, [Next]_vars PROVE ChannelInv'
    OBVIOUS
  <2>1. CASE Poll
    BY <2>1, PollKeeps
  <2>2. CASE CnReceive
    BY <2>2, CnReceiveKeeps
  <2>3. CASE MnReceive
    BY <2>3, MnReceiveKeeps
  <2>4. CASE Timeout
    BY <2>4, LossKeeps DEF Timeout
  <2>5. CASE LosePReq
    BY <2>5, LossKeeps DEF LosePReq
  <2>6. CASE LosePRes
    BY <2>6, LossKeeps DEF LosePRes
  <2>7. CASE \/ \E k \in 1..MaxPicture : MnPaint(k) \/ CnPaint(k)
             \/ \E l \in MnLayouts : MnRemap(l)
             \/ \E l \in CnLayouts : CnRemap(l)
    BY <2>7, ApplicationsKeep
  <2>8. CASE Ask
    BY <2>8, AskKeeps
  <2>9. CASE SwitchMn
    BY <2>9, LossKeeps DEF SwitchMn
  <2>10. CASE SwitchCn
    BY <2>10, LossKeeps DEF SwitchCn
  <2>11. CASE UNCHANGED vars
    BY <2>11, LossKeeps DEF vars
  <2> QED BY <2>1, <2>2, <2>3, <2>4, <2>5, <2>6, <2>7, <2>8, <2>9, <2>10, <2>11 DEF Next
<1> QED BY <1>1, <1>2, PTL DEF Spec

\* The CN executes embedded requests in the order in which they were queued
\* and none of them twice (emb_handle_request, emb_get_pending_request),
\* however many numbers the channel has.
THEOREM RequestsInOrder == Spec => []ExecutedInOrder
<1>1. ChannelInv => ExecutedInOrder
  BY DEF ChannelInv
<1> QED BY <1>1, ChannelInvariant, PTL

\* A container that the client accepts (emb_handle_response) answers the last
\* request that was sent, unless the numbers have gone round since or it is the
\* abort of an empty container; an idle container is accepted only while the
\* client waits for the answer to a request with number 0.
THEOREM AnswersMatch == Spec => []AnswerMatches
<1>1. ChannelInv => AnswerMatches
  BY DEF ChannelInv
<1> QED BY <1>1, ChannelInvariant, PTL
=============================================================================
