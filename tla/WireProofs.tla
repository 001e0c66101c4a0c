----------------------------- MODULE WireProofs -----------------------------
(***************************************************************************)
(* Proofs about Wire and the codec below it, for every frame, every cap    *)
(* and every size of the address space.                                    *)
(***************************************************************************)
EXTENDS Wire, SequenceTheorems, TLAPS

-----------------------------------------------------------------------------
(* Bytes and integers *)

LEMMA ByteOfSeq == ASSUME NEW b \in Seq(Byte), NEW i \in Nat PROVE ByteAt(b, i) \in Byte
  <1>1. CASE i < Len(b)
    <2>1. i + 1 \in 1 .. Len(b)
      BY <1>1, LenProperties
    <2>2. QED
      BY <1>1, <2>1, ElementOfSeq DEF ByteAt
  <1>2. CASE ~(i < Len(b))
    BY <1>2 DEF ByteAt, Byte
  <1>3. QED
    BY <1>1, <1>2

LEMMA U16MaxIsNat == U16Max \in Nat
  BY SMT DEF U16Max

LEMMA UpTo == ASSUME NEW x \in Nat, NEW n \in Nat, n <= x PROVE n \in 0 .. x
  BY SMT

LEMMA U16OfSeq == ASSUME NEW b \in Seq(Byte), NEW i \in Nat PROVE U16At(b, i) \in 0 .. U16Max
  <1>1. ByteAt(b, i) \in Byte /\ ByteAt(b, i + 1) \in Byte
    BY ByteOfSeq
  <1>2. ASSUME NEW p \in Byte, NEW q \in Byte PROVE 256 * p + q \in 0 .. U16Max
    <2>1. 256 * p + q \in Nat /\ 256 * p + q <= U16Max
      BY SMT DEF Byte, U16Max
    <2>2. QED
      BY <2>1, U16MaxIsNat, UpTo
  <1>3. QED
    BY <1>1, <1>2 DEF U16At

LEMMA U32OfSeq == ASSUME NEW b \in Seq(Byte), NEW i \in Nat PROVE U32At(b, i) \in Nat
  <1>1. /\ ByteAt(b, i) \in Byte /\ ByteAt(b, i + 1) \in Byte
        /\ ByteAt(b, i + 2) \in Byte /\ ByteAt(b, i + 3) \in Byte
    BY ByteOfSeq
  <1>2. ASSUME NEW p \in Byte, NEW q \in Byte, NEW r \in Byte, NEW s \in Byte
        PROVE  16777216 * p + 65536 * q + 256 * r + s \in Nat
    BY SMT DEF Byte
  <1>3. QED
    BY <1>1, <1>2 DEF U32At

LEMMA U16Whole ==
    ASSUME NEW n \in 0 .. U16Max
    PROVE  /\ n \div 256 \in Byte /\ n % 256 \in Byte
           /\ 256 * (n \div 256) + (n % 256) = n
  <1>1. n \in Nat /\ n <= 65535
    BY SMT DEF U16Max
  <1>2. n \div 256 \in Nat /\ n % 256 \in Byte /\ 256 * (n \div 256) + (n % 256) = n
    BY <1>1, SMT DEF Byte
  <1>3. ASSUME NEW q \in Nat, NEW r \in Byte, 256 * q + r = n PROVE q \in Byte
    BY <1>1, <1>3, SMT DEF Byte
  <1>4. QED
    BY <1>2, <1>3

LEMMA U16Parts ==
    ASSUME NEW p \in Byte, NEW q \in Byte
    PROVE  (256 * p + q) \div 256 = p /\ (256 * p + q) % 256 = q
  BY SMT DEF Byte

LEMMA U32Whole ==
    ASSUME NEW n \in Nat
    PROVE  /\ (n \div 16777216) % 256 \in Byte /\ (n \div 65536) % 256 \in Byte
           /\ (n \div 256) % 256 \in Byte /\ n % 256 \in Byte
           /\ n \div 16777216 < 256 =>
                 16777216 * ((n \div 16777216) % 256) + 65536 * ((n \div 65536) % 256)
                    + 256 * ((n \div 256) % 256) + (n % 256) = n
  <1>1. /\ (n \div 16777216) % 256 \in Byte /\ (n \div 65536) % 256 \in Byte
        /\ (n \div 256) % 256 \in Byte /\ n % 256 \in Byte
    BY SMT DEF Byte
  <1>2. n \div 16777216 < 256 =>
           16777216 * ((n \div 16777216) % 256) + 65536 * ((n \div 65536) % 256)
              + 256 * ((n \div 256) % 256) + (n % 256) = n
    BY SMT
  <1>3. QED
    BY <1>1, <1>2, SMT

LEMMA U32Parts ==
    ASSUME NEW p \in Byte, NEW q \in Byte, NEW r \in Byte, NEW s \in Byte,
           NEW n, n = 16777216 * p + 65536 * q + 256 * r + s
    PROVE  /\ (n \div 16777216) % 256 = p /\ (n \div 65536) % 256 = q
           /\ (n \div 256) % 256 = r /\ n % 256 = s
  <1>1. (n \div 16777216) % 256 = p
    BY SMT DEF Byte
  <1>2. (n \div 65536) % 256 = q
    <2>1. n \div 65536 = 256 * p + q
      BY SMT DEF Byte
    <2>2. QED
      BY <2>1, U16Parts, SMT
  <1>3. (n \div 256) % 256 = r
    <2>1. n \div 256 = 256 * (256 * p + q) + r
      BY SMT DEF Byte
    <2>2. QED
      BY <2>1, SMT DEF Byte
  <1>4. n % 256 = s
    BY SMT DEF Byte
  <1>5. QED
    BY <1>1, <1>2, <1>3, <1>4, SMT

LEMMA U16BytesTyped ==
    ASSUME NEW n \in 0 .. U16Max
    PROVE  /\ U16Bytes(n) \in Seq(Byte) /\ Len(U16Bytes(n)) = 2
           /\ U16Bytes(n)[1] \in Byte /\ U16Bytes(n)[2] \in Byte
           /\ 256 * U16Bytes(n)[1] + U16Bytes(n)[2] = n
  <1>1. /\ n \div 256 \in Byte /\ n % 256 \in Byte
        /\ 256 * (n \div 256) + (n % 256) = n
    BY U16Whole
  <1>2. ASSUME NEW p \in Byte, NEW q \in Byte
        PROVE  <<p, q>> \in Seq(Byte) /\ Len(<<p, q>>) = 2 /\ <<p, q>>[1] = p /\ <<p, q>>[2] = q
    OBVIOUS
  <1>3. QED
    BY <1>1, <1>2, SMT DEF U16Bytes

LEMMA U32BytesTyped ==
    ASSUME NEW n \in Nat
    PROVE  /\ U32Bytes(n) \in Seq(Byte) /\ Len(U32Bytes(n)) = 4
           /\ U32Bytes(n)[1] \in Byte /\ U32Bytes(n)[2] \in Byte
           /\ U32Bytes(n)[3] \in Byte /\ U32Bytes(n)[4] \in Byte
           /\ n \div 16777216 < 256 =>
                 16777216 * U32Bytes(n)[1] + 65536 * U32Bytes(n)[2]
                    + 256 * U32Bytes(n)[3] + U32Bytes(n)[4] = n
  <1>1. /\ (n \div 16777216) % 256 \in Byte /\ (n \div 65536) % 256 \in Byte
        /\ (n \div 256) % 256 \in Byte /\ n % 256 \in Byte
        /\ n \div 16777216 < 256 =>
              16777216 * ((n \div 16777216) % 256) + 65536 * ((n \div 65536) % 256)
                 + 256 * ((n \div 256) % 256) + (n % 256) = n
    BY U32Whole, SMT
  <1>2. ASSUME NEW p \in Byte, NEW q \in Byte, NEW r \in Byte, NEW s \in Byte
        PROVE  /\ <<p, q, r, s>> \in Seq(Byte) /\ Len(<<p, q, r, s>>) = 4
               /\ <<p, q, r, s>>[1] = p /\ <<p, q, r, s>>[2] = q
               /\ <<p, q, r, s>>[3] = r /\ <<p, q, r, s>>[4] = s
    OBVIOUS
  <1>3. QED
    BY <1>1, <1>2, SMT DEF U32Bytes

\* The length prefix that four bytes are.
LEMMA U32BytesOfParts ==
    ASSUME NEW p \in Byte, NEW q \in Byte, NEW r \in Byte, NEW s \in Byte,
           NEW n, n = 16777216 * p + 65536 * q + 256 * r + s
    PROVE  U32Bytes(n) = <<p, q, r, s>>
  <1>1. /\ (n \div 16777216) % 256 = p /\ (n \div 65536) % 256 = q
        /\ (n \div 256) % 256 = r /\ n % 256 = s
    BY U32Parts, SMT
  <1>2. QED
    BY <1>1, SMT DEF U32Bytes

-----------------------------------------------------------------------------
(* The layout of an encoded envelope *)

LEMMA Joined ==
    ASSUME NEW s \in Seq(Byte), NEW t \in Seq(Byte)
    PROVE  /\ s \o t \in Seq(Byte) /\ Len(s \o t) = Len(s) + Len(t)
           /\ \A k \in 1 .. Len(s) : (s \o t)[k] = s[k]
           /\ \A k \in 1 .. Len(t) : (s \o t)[Len(s) + k] = t[k]
  <1>1. Len(s) \in Nat /\ Len(t) \in Nat
    BY LenProperties
  <1>2. /\ s \o t \in Seq(Byte) /\ Len(s \o t) = Len(s) + Len(t)
        /\ \A k \in 1 .. Len(s) + Len(t) :
              (s \o t)[k] = IF k <= Len(s) THEN s[k] ELSE t[k - Len(s)]
    BY ConcatProperties
  <1>3. ASSUME NEW k \in 1 .. Len(s) PROVE (s \o t)[k] = s[k]
    BY <1>1, <1>2
  <1>4. ASSUME NEW k \in 1 .. Len(t) PROVE (s \o t)[Len(s) + k] = t[k]
    <2>1. /\ Len(s) + k \in 1 .. Len(s) + Len(t) /\ ~(Len(s) + k <= Len(s))
          /\ Len(s) + k - Len(s) = k
      BY <1>1
    <2>2. QED
      BY <1>2, <2>1
  <1>5. QED
    BY <1>2, <1>3, <1>4

LEMMA HeaderTyped ==
    ASSUME NEW i \in 0 .. U16Max \cup {NoId}
    PROVE  /\ HeaderBytes(i) \in Seq(Byte)
           /\ i = NoId => HeaderBytes(i) = <<0>> /\ Len(HeaderBytes(i)) = 1
           /\ i # NoId => /\ Len(HeaderBytes(i)) = 3
                          /\ HeaderBytes(i)[1] = 1
                          /\ HeaderBytes(i)[2] = U16Bytes(i)[1]
                          /\ HeaderBytes(i)[3] = U16Bytes(i)[2]
  <1>1. 0 \in Byte /\ 1 \in Byte
    BY DEF Byte
  <1>2. /\ <<0>> \in Seq(Byte) /\ Len(<<0>>) = 1
        /\ <<1>> \in Seq(Byte) /\ Len(<<1>>) = 1 /\ <<1>>[1] = 1
    BY <1>1
  <1>3. CASE i = NoId
    BY <1>2, <1>3 DEF HeaderBytes
  <1>4. CASE i # NoId
    <2>1. U16Bytes(i) \in Seq(Byte) /\ Len(U16Bytes(i)) = 2
      BY <1>4, U16BytesTyped
    <2>2. /\ <<1>> \o U16Bytes(i) \in Seq(Byte)
          /\ Len(<<1>> \o U16Bytes(i)) = Len(<<1>>) + Len(U16Bytes(i))
          /\ \A k \in 1 .. Len(<<1>>) : (<<1>> \o U16Bytes(i))[k] = <<1>>[k]
          /\ \A k \in 1 .. Len(U16Bytes(i)) :
                (<<1>> \o U16Bytes(i))[Len(<<1>>) + k] = U16Bytes(i)[k]
      BY <1>2, <2>1, Joined
    <2>3. /\ Len(<<1>> \o U16Bytes(i)) = 3
          /\ (<<1>> \o U16Bytes(i))[1] = 1
          /\ (<<1>> \o U16Bytes(i))[2] = U16Bytes(i)[1]
          /\ (<<1>> \o U16Bytes(i))[3] = U16Bytes(i)[2]
      <3>1. 1 \in 1 .. Len(<<1>>) /\ 1 \in 1 .. Len(U16Bytes(i)) /\ 2 \in 1 .. Len(U16Bytes(i))
        BY <1>2, <2>1
      <3>2. /\ (<<1>> \o U16Bytes(i))[1] = <<1>>[1]
            /\ (<<1>> \o U16Bytes(i))[Len(<<1>>) + 1] = U16Bytes(i)[1]
            /\ (<<1>> \o U16Bytes(i))[Len(<<1>>) + 2] = U16Bytes(i)[2]
        BY <2>2, <3>1, Zenon
      <3>3. QED
        BY <1>2, <2>1, <2>2, <3>2
    <2>4. QED
      BY <1>4, <2>2, <2>3 DEF HeaderBytes
  <1>5. QED
    BY <1>3, <1>4

LEMMA Layout ==
    ASSUME NEW m \in Envelope
    PROVE  LET h == Len(HeaderBytes(m.id))
               n == Len(m.data)
           IN  /\ ToBytes(m) \in Seq(Byte)
               /\ h \in {1, 3} /\ n \in Nat
               /\ Len(ToBytes(m)) = 1 + h + 4 + n
               /\ ToBytes(m)[1] = m.msgType
               /\ \A k \in 1 .. h : ToBytes(m)[1 + k] = HeaderBytes(m.id)[k]
               /\ \A k \in 1 .. 4 : ToBytes(m)[1 + h + k] = U32Bytes(n)[k]
               /\ \A k \in 1 .. n : ToBytes(m)[1 + h + 4 + k] = m.data[k]
  <1>1. PICK t : t = <<m.msgType>>
    OBVIOUS
  <1>2. PICK a : a = HeaderBytes(m.id)
    OBVIOUS
  <1>3. PICK b : b = U32Bytes(Len(m.data))
    OBVIOUS
  <1>4. PICK c : c = m.data
    OBVIOUS
  <1>5. m.msgType \in Byte /\ m.id \in 0 .. U16Max \cup {NoId} /\ c \in Seq(Byte)
    BY <1>4 DEF Envelope
  <1>6. t \in Seq(Byte) /\ Len(t) = 1 /\ t[1] = m.msgType
    BY <1>1, <1>5
  <1>7. a \in Seq(Byte) /\ Len(a) \in {1, 3}
    BY <1>2, <1>5, HeaderTyped
  <1>8. b \in Seq(Byte) /\ Len(b) = 4
    BY <1>3, <1>4, <1>5, U32BytesTyped, LenProperties
  <1>9. Len(c) \in Nat
    BY <1>5, LenProperties
  <1>10. /\ t \o a \in Seq(Byte) /\ Len(t \o a) = Len(t) + Len(a)
         /\ \A k \in 1 .. Len(t) : (t \o a)[k] = t[k]
         /\ \A k \in 1 .. Len(a) : (t \o a)[Len(t) + k] = a[k]
    BY <1>6, <1>7, Joined
  <1>11. PICK ta : ta = t \o a
    OBVIOUS
  <1>12. /\ ta \o b \in Seq(Byte) /\ Len(ta \o b) = Len(ta) + Len(b)
         /\ \A k \in 1 .. Len(ta) : (ta \o b)[k] = ta[k]
         /\ \A k \in 1 .. Len(b) : (ta \o b)[Len(ta) + k] = b[k]
    BY <1>8, <1>10, <1>11, Joined
  <1>13. PICK tab : tab = ta \o b
    OBVIOUS
  <1>14. /\ tab \o c \in Seq(Byte) /\ Len(tab \o c) = Len(tab) + Len(c)
         /\ \A k \in 1 .. Len(tab) : (tab \o c)[k] = tab[k]
         /\ \A k \in 1 .. Len(c) : (tab \o c)[Len(tab) + k] = c[k]
    BY <1>5, <1>12, <1>13, Joined
  <1>l. /\ Len(ta) = 1 + Len(a) /\ Len(tab) = 1 + Len(a) + 4
        /\ Len(tab \o c) = 1 + Len(a) + 4 + Len(c)
    BY <1>6, <1>7, <1>8, <1>9, <1>10, <1>11, <1>12, <1>13, <1>14
  <1>15. ToBytes(m) = tab \o c
    BY <1>1, <1>2, <1>3, <1>4, <1>11, <1>13 DEF ToBytes
  <1>16. /\ (tab \o c)[1] = m.msgType
         /\ \A k \in 1 .. Len(a) : (tab \o c)[1 + k] = a[k]
         /\ \A k \in 1 .. 4 : (tab \o c)[1 + Len(a) + k] = b[k]
         /\ \A k \in 1 .. Len(c) : (tab \o c)[1 + Len(a) + 4 + k] = c[k]
    <2>1. (tab \o c)[1] = m.msgType
      <3>1. 1 \in 1 .. Len(t) /\ 1 \in 1 .. Len(ta) /\ 1 \in 1 .. Len(tab)
        BY <1>6, <1>7, <1>l
      <3>2. QED
        BY <1>6, <1>10, <1>11, <1>12, <1>13, <1>14, <3>1
    <2>2. ASSUME NEW k \in 1 .. Len(a) PROVE (tab \o c)[1 + k] = a[k]
      <3>1. 1 + k \in 1 .. Len(ta) /\ 1 + k \in 1 .. Len(tab)
        BY <1>7, <1>l
      <3>2. QED
        BY <1>6, <1>10, <1>11, <1>12, <1>13, <1>14, <3>1
    <2>3. ASSUME NEW k \in 1 .. 4 PROVE (tab \o c)[1 + Len(a) + k] = b[k]
      <3>1. k \in 1 .. Len(b) /\ Len(ta) + k \in 1 .. Len(tab)
        BY <1>7, <1>8, <1>l
      <3>2. QED
        BY <1>12, <1>13, <1>14, <1>l, <3>1
    <2>4. ASSUME NEW k \in 1 .. Len(c) PROVE (tab \o c)[1 + Len(a) + 4 + k] = c[k]
      BY <1>14, <1>l
    <2>5. QED
      BY <2>1, <2>2, <2>3, <2>4
  <1>17. QED
    BY <1>2, <1>3, <1>4, <1>7, <1>9, <1>14, <1>15, <1>16, <1>l

-----------------------------------------------------------------------------
(* The tables of opcodes and roles *)

LEMMA OpcodeTable ==
    /\ Len(ALL) = 20
    /\ \A j, k \in 1 .. 20 : ALL[j] = ALL[k] => j = k
    /\ \A k \in 1 .. 20 : ALL[k] # Unknown /\ ALL[k] \in DigMessageType
    /\ ALL[19] = "RegisterPeer" /\ ALL[20] = "RegisterAck"
  <1>1. Len(ALL) = 20 /\ ALL[19] = "RegisterPeer" /\ ALL[20] = "RegisterAck"
    BY DEF ALL
  <1>2. \A j, k \in 1 .. 20 : ALL[j] = ALL[k] => j = k
    BY DEF ALL
  <1>3. \A k \in 1 .. 20 : ALL[k] # Unknown
    BY DEF ALL, Unknown
  <1>4. QED
    BY <1>1, <1>2, <1>3 DEF DigMessageType

LEMMA DiscriminantOf == \A k \in 1 .. 20 : Discriminant(ALL[k]) = 199 + k
  <1> SUFFICES ASSUME NEW k \in 1 .. 20 PROVE Discriminant(ALL[k]) = 199 + k
    OBVIOUS
  <1>1. (CHOOSE j \in 1 .. Len(ALL) : ALL[j] = ALL[k]) = k
    BY OpcodeTable
  <1>2. QED
    BY <1>1 DEF Discriminant

LEMMA RoleTable ==
    /\ Len(Roles) = 7
    /\ \A j, k \in 1 .. 7 : Roles[j] = Roles[k] => j = k
    /\ \A k \in 1 .. 7 : Roles[k] # Unknown
  <1>1. Len(Roles) = 7 /\ \A k \in 1 .. 7 : Roles[k] # Unknown
    BY DEF Roles, Unknown
  <1>2. \A j, k \in 1 .. 7 : Roles[j] = Roles[k] => j = k
    BY DEF Roles
  <1>3. QED
    BY <1>1, <1>2

LEMMA RoleBytes ==
    /\ \A r \in NodeType : ToByte(r) \in Byte /\ FromByte(ToByte(r)) = r
    /\ \A b : FromByte(b) # Unknown => FromByte(b) \in NodeType /\ ToByte(FromByte(b)) = b
  <1>1. ASSUME NEW k \in 1 .. 7 PROVE ToByte(Roles[k]) = k
    BY RoleTable DEF ToByte
  <1>2. \A r \in NodeType : \E k \in 1 .. 7 : r = Roles[k] /\ ToByte(r) = k
    BY <1>1, RoleTable DEF NodeType
  <1>3. \A r, s \in NodeType : ToByte(r) = ToByte(s) => r = s
    BY <1>2
  <1>4. \A r \in NodeType : FromByte(ToByte(r)) = r
    BY <1>3 DEF FromByte
  <1>5. \A b : FromByte(b) # Unknown => FromByte(b) \in NodeType /\ ToByte(FromByte(b)) = b
    BY DEF FromByte
  <1>6. \A r \in NodeType : ToByte(r) \in Byte
    <2>1. \A k \in 1 .. 7 : k \in Byte
      BY DEF Byte
    <2>2. QED
      BY <1>2, <2>1
  <1>7. QED
    BY <1>4, <1>5, <1>6

-----------------------------------------------------------------------------
(* from_bytes *)

Start(b) == LengthOffset(b) + 4
IdOf(b) == IF ByteAt(b, 1) # 0 THEN U16At(b, 2) ELSE NoId
DataLenOf(b) == U32At(b, LengthOffset(b))

\* The frames from_bytes accepts, and the envelope it makes of one.
Accepts(b) ==
    /\ Len(b) >= 2
    /\ DataLenOf(b) <= MaxMessageSize
    /\ Start(b) + DataLenOf(b) <= Len(b)

EnvelopeOf(b) ==
    [msgType |-> ByteAt(b, 0), id |-> IdOf(b),
     data |-> SubSeq(b, Start(b) + 1, Start(b) + DataLenOf(b))]

LEMMA FieldsTyped ==
    ASSUME NEW b \in Seq(Byte)
    PROVE  /\ Len(b) \in Nat
           /\ LengthOffset(b) \in {2, 4} /\ Start(b) \in {6, 8}
           /\ IdOf(b) \in 0 .. U16Max \cup {NoId}
           /\ DataLenOf(b) \in Nat
           /\ ByteAt(b, 0) \in Byte
  <1>1. Len(b) \in Nat
    BY LenProperties
  <1>2. LengthOffset(b) \in {2, 4} /\ Start(b) \in {6, 8}
    BY DEF LengthOffset, Start
  <1>3. IdOf(b) \in 0 .. U16Max \cup {NoId}
    <2>1. U16At(b, 2) \in 0 .. U16Max
      BY U16OfSeq
    <2>2. QED
      BY <2>1 DEF IdOf
  <1>4. DataLenOf(b) \in Nat
    <2>1. LengthOffset(b) \in Nat
      BY <1>2
    <2>2. QED
      BY <2>1, U32OfSeq DEF DataLenOf
  <1>5. ByteAt(b, 0) \in Byte
    BY ByteOfSeq
  <1>6. QED
    BY <1>1, <1>2, <1>3, <1>4, <1>5

LEMMA SliceTyped ==
    ASSUME NEW b \in Seq(Byte), NEW i \in Nat, NEW n \in Nat, i + n <= Len(b)
    PROVE  /\ SubSeq(b, i + 1, i + n) \in Seq(Byte)
           /\ Len(SubSeq(b, i + 1, i + n)) = n
           /\ \A k \in 1 .. n : SubSeq(b, i + 1, i + n)[k] = b[i + k]
  <1>1. Len(b) \in Nat
    BY LenProperties
  <1>2. /\ i + 1 \in Int /\ i + n \in Int
        /\ i + 1 <= i + n => i + 1 \in 1 .. Len(b) /\ i + n \in 1 .. Len(b)
        /\ (IF i + 1 <= i + n THEN (i + n) - (i + 1) + 1 ELSE 0) = n
    BY <1>1
  <1>3. SubSeq(b, i + 1, i + n) \in Seq(Byte)
    BY <1>2, SubSeqProperties
  <1>4. Len(SubSeq(b, i + 1, i + n)) = n
    BY <1>1, <1>2, SubSeqProperties
  <1>5. ASSUME NEW k \in 1 .. n PROVE SubSeq(b, i + 1, i + n)[k] = b[i + k]
    <2>1. SubSeq(b, i + 1, i + n)[k] = b[(i + 1) + k - 1]
      BY <1>2, SubSeqProperties
    <2>2. (i + 1) + k - 1 = i + k
      OBVIOUS
    <2>3. QED
      BY <2>1, <2>2
  <1>6. QED
    BY <1>3, <1>4, <1>5

LEMMA FromBytesIs ==
    ASSUME NEW b \in Seq(Byte), Len(b) <= UsizeMax
    PROVE  /\ Accepts(b) => EnvelopeOf(b) \in Envelope /\ FromBytes(b) = {EnvelopeOf(b)}
           /\ ~Accepts(b) => FromBytes(b) = None
  <1>1. /\ Len(b) \in Nat /\ Start(b) \in {6, 8} /\ LengthOffset(b) \in {2, 4}
        /\ DataLenOf(b) \in Nat /\ IdOf(b) \in 0 .. U16Max \cup {NoId}
        /\ ByteAt(b, 0) \in Byte
    BY FieldsTyped
  <1>2. MaxMessageSize \in Nat /\ UsizeMax \in Nat
    BY SizeAssumption
  <1>3. {e \in CheckedAdd(Start(b), DataLenOf(b)) : e <= Len(b)}
           = IF Start(b) + DataLenOf(b) <= Len(b) THEN {Start(b) + DataLenOf(b)} ELSE {}
    BY <1>1, <1>2 DEF CheckedAdd, None, Some
  <1>4. FromBytes(b) =
           IF Len(b) < 2 \/ Len(b) < Start(b) \/ DataLenOf(b) > MaxMessageSize THEN {}
           ELSE {[msgType |-> ByteAt(b, 0), id |-> IdOf(b), data |-> SubSeq(b, Start(b) + 1, end)] :
                    end \in {e \in CheckedAdd(Start(b), DataLenOf(b)) : e <= Len(b)}}
    BY DEF FromBytes, Start, DataLenOf, IdOf, None
  <1>5. CASE Accepts(b)
    <2>1. ~(Len(b) < 2 \/ Len(b) < Start(b) \/ DataLenOf(b) > MaxMessageSize)
      BY <1>1, <1>2, <1>5 DEF Accepts
    <2>2. FromBytes(b) = {EnvelopeOf(b)}
      BY <1>3, <1>4, <1>5, <2>1 DEF Accepts, EnvelopeOf
    <2>3. EnvelopeOf(b) \in Envelope
      <3>1. Start(b) \in Nat /\ Start(b) + DataLenOf(b) <= Len(b)
        BY <1>1, <1>5 DEF Accepts
      <3>2. SubSeq(b, Start(b) + 1, Start(b) + DataLenOf(b)) \in Seq(Byte)
        BY <1>1, <3>1, SliceTyped
      <3>3. QED
        BY <1>1, <3>2 DEF Envelope, EnvelopeOf
    <2>4. QED
      BY <1>5, <2>2, <2>3
  <1>6. CASE ~Accepts(b)
    <2>1. FromBytes(b) = {}
      <3>1. CASE Len(b) < 2 \/ Len(b) < Start(b) \/ DataLenOf(b) > MaxMessageSize
        BY <1>4, <3>1
      <3>2. CASE ~(Len(b) < 2 \/ Len(b) < Start(b) \/ DataLenOf(b) > MaxMessageSize)
        <4>1. ~(Start(b) + DataLenOf(b) <= Len(b))
          BY <1>1, <1>2, <1>6, <3>2 DEF Accepts
        <4>2. QED
          BY <1>3, <1>4, <3>2, <4>1
      <3>3. QED
        BY <3>1, <3>2
    <2>2. QED
      BY <1>6, <2>1 DEF None
  <1>7. QED
    BY <1>5, <1>6

-----------------------------------------------------------------------------
(* The decoder and the encoder *)

\* The bytes of an encoding, up to the payload.
LEMMA HeaderBytesOf ==
    ASSUME NEW b \in Seq(Byte), Len(b) >= Start(b)
    PROVE  /\ Len(HeaderBytes(IdOf(b))) = LengthOffset(b) - 1
           /\ (HeaderBytes(IdOf(b)))[1] = IF b[2] # 0 THEN 1 ELSE b[2]
           /\ \A k \in 2 .. Len(HeaderBytes(IdOf(b))) : (HeaderBytes(IdOf(b)))[k] = b[1 + k]
  <1>1. Len(b) \in Nat /\ IdOf(b) \in 0 .. U16Max \cup {NoId}
    BY FieldsTyped
  <1>2. ByteAt(b, 1) = b[2]
    BY <1>1 DEF ByteAt, Start, LengthOffset
  <1>3. CASE b[2] = 0
    <2>1. IdOf(b) = NoId /\ LengthOffset(b) = 2
      BY <1>2, <1>3 DEF IdOf, LengthOffset
    <2>2. HeaderBytes(IdOf(b)) = <<0>> /\ Len(HeaderBytes(IdOf(b))) = 1
      BY <1>1, <2>1, HeaderTyped
    <2>3. QED
      BY <1>3, <2>1, <2>2
  <1>4. CASE b[2] # 0
    <2>1. IdOf(b) = U16At(b, 2) /\ LengthOffset(b) = 4 /\ Len(b) >= 8
      BY <1>2, <1>4 DEF IdOf, LengthOffset, Start
    <2>2. ByteAt(b, 2) = b[3] /\ ByteAt(b, 3) = b[4]
      BY <1>1, <2>1 DEF ByteAt
    <2>3. b[3] \in Byte /\ b[4] \in Byte
      BY <2>2, ByteOfSeq
    <2>4. IdOf(b) = 256 * b[3] + b[4]
      BY <2>1, <2>2 DEF U16At
    <2>5. U16Bytes(IdOf(b))[1] = b[3] /\ U16Bytes(IdOf(b))[2] = b[4]
      <3>1. (256 * b[3] + b[4]) \div 256 = b[3] /\ (256 * b[3] + b[4]) % 256 = b[4]
        BY <2>3, U16Parts
      <3>2. QED
        BY <2>4, <3>1 DEF U16Bytes
    <2>6. IdOf(b) # NoId
      <3>1. IdOf(b) \in 0 .. U16Max
        BY <2>1, U16OfSeq
      <3>2. QED
        BY <3>1, U16MaxIsNat DEF NoId
    <2>7. /\ Len(HeaderBytes(IdOf(b))) = 3
          /\ HeaderBytes(IdOf(b))[1] = 1
          /\ HeaderBytes(IdOf(b))[2] = U16Bytes(IdOf(b))[1]
          /\ HeaderBytes(IdOf(b))[3] = U16Bytes(IdOf(b))[2]
      BY <1>1, <2>6, HeaderTyped
    <2>8. QED
      BY <1>4, <2>1, <2>5, <2>7
  <1>5. QED
    BY <1>3, <1>4

LEMMA LengthBytesOf ==
    ASSUME NEW b \in Seq(Byte), Len(b) >= Start(b)
    PROVE  \A k \in 1 .. 4 : U32Bytes(DataLenOf(b))[k] = b[LengthOffset(b) + k]
  <1>1. PICK i : i = LengthOffset(b)
    OBVIOUS
  <1>2. Len(b) \in Nat /\ i \in {2, 4} /\ Len(b) >= i + 4
    BY <1>1, FieldsTyped DEF Start
  <1>3. /\ ByteAt(b, i) = b[i + 1] /\ ByteAt(b, i + 1) = b[i + 2]
        /\ ByteAt(b, i + 2) = b[i + 3] /\ ByteAt(b, i + 3) = b[i + 4]
    BY <1>2 DEF ByteAt
  <1>4. i \in Nat /\ i + 1 \in Nat /\ i + 2 \in Nat /\ i + 3 \in Nat
    BY <1>2
  <1>5. b[i + 1] \in Byte /\ b[i + 2] \in Byte /\ b[i + 3] \in Byte /\ b[i + 4] \in Byte
    BY <1>3, <1>4, ByteOfSeq
  <1>6. DataLenOf(b) = 16777216 * b[i + 1] + 65536 * b[i + 2] + 256 * b[i + 3] + b[i + 4]
    BY <1>1, <1>3, SMT DEF DataLenOf, U32At
  <1>7. U32Bytes(DataLenOf(b)) = <<b[i + 1], b[i + 2], b[i + 3], b[i + 4]>>
    <2>1. PICK p \in Byte, q \in Byte, r \in Byte, t \in Byte :
             p = b[i + 1] /\ q = b[i + 2] /\ r = b[i + 3] /\ t = b[i + 4]
      BY <1>5
    <2>2. PICK n : n = DataLenOf(b)
      OBVIOUS
    <2>3. n = 16777216 * p + 65536 * q + 256 * r + t
      BY <1>6, <2>1, <2>2, SMT
    <2>4. U32Bytes(n) = <<p, q, r, t>>
      BY <2>3, U32BytesOfParts, SMT
    <2>5. QED
      BY <2>1, <2>2, <2>4
  <1>8. QED
    BY <1>1, <1>7

\* What is decoded encodes to the frame.
LEMMA Reencodes ==
    ASSUME NEW b \in Seq(Byte), Len(b) <= UsizeMax, Accepts(b)
    PROVE  Encodes(b, EnvelopeOf(b))
  <1>1. PICK m : m = EnvelopeOf(b)
    OBVIOUS
  <1>2. PICK n : n = DataLenOf(b)
    OBVIOUS
  <1>3. PICK h : h = Len(HeaderBytes(IdOf(b)))
    OBVIOUS
  <1>4. /\ Len(b) \in Nat /\ Start(b) \in {6, 8} /\ LengthOffset(b) = Start(b) - 4 /\ n \in Nat
    BY <1>2, FieldsTyped DEF Start
  <1>5. Start(b) + n <= Len(b) /\ Len(b) >= Start(b)
    BY <1>2, <1>4 DEF Accepts
  <1>6. m \in Envelope
    BY <1>1, FromBytesIs
  <1>7. m.id = IdOf(b) /\ m.msgType = b[1] /\ m.data = SubSeq(b, Start(b) + 1, Start(b) + n)
    <2>1. ByteAt(b, 0) = b[1]
      BY <1>4, <1>5 DEF ByteAt
    <2>2. QED
      BY <1>1, <1>2, <2>1 DEF EnvelopeOf
  <1>8. Len(m.data) = n /\ \A k \in 1 .. n : m.data[k] = b[Start(b) + k]
    <2>1. Start(b) \in Nat
      BY <1>4
    <2>2. /\ Len(SubSeq(b, Start(b) + 1, Start(b) + n)) = n
          /\ \A k \in 1 .. n : SubSeq(b, Start(b) + 1, Start(b) + n)[k] = b[Start(b) + k]
      BY <1>4, <1>5, <2>1, SliceTyped
    <2>3. QED
      BY <1>7, <2>2
  <1>9. /\ h = Start(b) - 5
        /\ (HeaderBytes(m.id))[1] = IF b[2] # 0 THEN 1 ELSE b[2]
        /\ \A k \in 2 .. h : (HeaderBytes(m.id))[k] = b[1 + k]
    <2>1. m.id = IdOf(b)
      BY <1>7
    <2>2. /\ Len(HeaderBytes(IdOf(b))) = LengthOffset(b) - 1
          /\ (HeaderBytes(IdOf(b)))[1] = IF b[2] # 0 THEN 1 ELSE b[2]
          /\ \A k \in 2 .. Len(HeaderBytes(IdOf(b))) : (HeaderBytes(IdOf(b)))[k] = b[1 + k]
      BY <1>5, HeaderBytesOf
    <2>3. h = Start(b) - 5
      BY <1>3, <1>4, <2>2
    <2>4. QED
      BY <1>3, <2>1, <2>2, <2>3
  <1>10. \A k \in 1 .. 4 : U32Bytes(n)[k] = b[Start(b) - 4 + k]
    BY <1>2, <1>4, <1>5, LengthBytesOf
  <1>11. PICK e : e = ToBytes(m)
    OBVIOUS
  <1>12. /\ Len(e) = 1 + h + 4 + n
         /\ e[1] = m.msgType
         /\ \A k \in 1 .. h : e[1 + k] = (HeaderBytes(m.id))[k]
         /\ \A k \in 1 .. 4 : e[1 + h + k] = U32Bytes(n)[k]
         /\ \A k \in 1 .. n : e[1 + h + 4 + k] = m.data[k]
    <2>1. PICK a : a = HeaderBytes(m.id)
      OBVIOUS
    <2>2. h = Len(a) /\ n = Len(m.data)
      BY <1>3, <1>7, <1>8, <2>1
    <2>3. /\ Len(e) = 1 + Len(a) + 4 + Len(m.data)
          /\ e[1] = m.msgType
          /\ \A k \in 1 .. Len(a) : e[1 + k] = a[k]
          /\ \A k \in 1 .. 4 : e[1 + Len(a) + k] = U32Bytes(Len(m.data))[k]
          /\ \A k \in 1 .. Len(m.data) : e[1 + Len(a) + 4 + k] = m.data[k]
      BY <1>6, <1>11, <2>1, Layout
    <2>4. QED
      BY <2>1, <2>2, <2>3
  <1>13. Len(e) = Start(b) + n
    BY <1>4, <1>9, <1>12
  <1>14. ASSUME NEW k \in 1 .. Len(e)
         PROVE  e[k] = IF k = 2 /\ b[k] # 0 THEN 1 ELSE b[k]
    <2>1. CASE k = 1
      BY <1>7, <1>12, <2>1
    <2>2. CASE k = 2
      <3>1. 1 \in 1 .. h /\ 1 + 1 = 2
        BY <1>4, <1>9
      <3>2. e[2] = (HeaderBytes(m.id))[1]
        BY <1>12, <3>1
      <3>3. QED
        BY <1>9, <2>2, <3>2
    <2>3. CASE k \in 3 .. 1 + h
      <3>1. k - 1 \in 2 .. h /\ k - 1 \in 1 .. h /\ 1 + (k - 1) = k
        BY <1>4, <1>9, <2>3
      <3>2. e[1 + (k - 1)] = (HeaderBytes(m.id))[k - 1]
        BY <1>12, <3>1
      <3>3. (HeaderBytes(m.id))[k - 1] = b[1 + (k - 1)]
        BY <1>9, <3>1
      <3>4. QED
        BY <2>3, <3>1, <3>2, <3>3
    <2>4. CASE k \in 2 + h .. 5 + h
      <3>1. /\ k - 1 - h \in 1 .. 4 /\ 1 + h + (k - 1 - h) = k
            /\ Start(b) - 4 + (k - 1 - h) = k
        <4>1. h \in {1, 3} /\ k \in Int /\ Start(b) = h + 5
          BY <1>4, <1>9, <2>4
        <4>2. k >= 2 + h /\ k <= 5 + h
          BY <2>4, <4>1
        <4>3. QED
          BY <4>1, <4>2
      <3>2. e[1 + h + (k - 1 - h)] = U32Bytes(n)[k - 1 - h]
        BY <1>12, <3>1
      <3>3. U32Bytes(n)[k - 1 - h] = b[Start(b) - 4 + (k - 1 - h)]
        BY <1>10, <3>1
      <3>4. k # 2
        BY <1>4, <1>9, <2>4
      <3>5. QED
        BY <3>1, <3>2, <3>3, <3>4
    <2>5. CASE k \in 6 + h .. Len(e)
      <3>1. /\ k - 5 - h \in 1 .. n /\ 1 + h + 4 + (k - 5 - h) = k
            /\ Start(b) + (k - 5 - h) = k
        BY <1>4, <1>9, <1>13, <2>5
      <3>2. e[1 + h + 4 + (k - 5 - h)] = m.data[k - 5 - h]
        BY <1>12, <3>1
      <3>3. m.data[k - 5 - h] = b[Start(b) + (k - 5 - h)]
        BY <1>8, <3>1
      <3>4. k # 2
        BY <1>4, <1>9, <2>5
      <3>5. QED
        BY <3>1, <3>2, <3>3, <3>4
    <2>6. QED
      BY <1>4, <1>9, <1>13, <2>1, <2>2, <2>3, <2>4, <2>5
  <1>15. QED
    BY <1>1, <1>5, <1>11, <1>13, <1>14 DEF Encodes

\* A payload within the cap has a length that four bytes can hold.
LEMMA CapFits == ASSUME NEW n \in Nat, n <= MaxMessageSize PROVE n \div 16777216 < 256
  <1>1. MaxMessageSize \in Nat /\ MaxMessageSize \div 16777216 < 256
    BY SizeAssumption, SMT
  <1>2. QED
    BY <1>1, SMT

\* The decoder recovers an envelope within the cap from any frame that encodes it.
LEMMA Recovers ==
    ASSUME NEW f \in Seq(Byte), NEW m \in Envelope,
           Len(m.data) <= MaxMessageSize, Encodes(f, m)
    PROVE  Accepts(f) /\ EnvelopeOf(f) = m
  <1>1. PICK n : n = Len(m.data)
    OBVIOUS
  <1>2. PICK a : a = HeaderBytes(m.id)
    OBVIOUS
  <1>3. PICK h : h = Len(a)
    OBVIOUS
  <1>4. PICK e : e = ToBytes(m)
    OBVIOUS
  <1>5. /\ h \in {1, 3} /\ n \in Nat
        /\ Len(e) = 1 + h + 4 + n
        /\ e[1] = m.msgType
        /\ \A k \in 1 .. h : e[1 + k] = a[k]
        /\ \A k \in 1 .. 4 : e[1 + h + k] = U32Bytes(n)[k]
        /\ \A k \in 1 .. n : e[1 + h + 4 + k] = m.data[k]
    BY <1>1, <1>2, <1>3, <1>4, Layout
  <1>6. /\ Len(f) \in Nat /\ Len(f) >= 1 + h + 4 + n
        /\ \A k \in 1 .. Len(e) : e[k] = IF k = 2 /\ f[k] # 0 THEN 1 ELSE f[k]
    BY <1>4, <1>5, FieldsTyped DEF Encodes
  <1>7. /\ f[1] = m.msgType
        /\ IF f[2] # 0 THEN a[1] = 1 ELSE a[1] = 0
        /\ \A k \in 2 .. h : f[1 + k] = a[k]
        /\ \A k \in 1 .. 4 : f[1 + h + k] = U32Bytes(n)[k]
        /\ \A k \in 1 .. n : f[1 + h + 4 + k] = m.data[k]
    <2>1. f[1] = m.msgType
      <3>1. 1 \in 1 .. Len(e) /\ 1 # 2
        BY <1>5
      <3>2. e[1] = f[1]
        BY <1>6, <3>1
      <3>3. QED
        BY <1>5, <3>2
    <2>2. IF f[2] # 0 THEN a[1] = 1 ELSE a[1] = 0
      <3>1. 1 \in 1 .. h /\ 2 \in 1 .. Len(e) /\ 1 + 1 = 2
        BY <1>5
      <3>2. e[2] = a[1]
        BY <1>5, <3>1
      <3>3. e[2] = IF f[2] # 0 THEN 1 ELSE f[2]
        BY <1>6, <3>1
      <3>4. QED
        BY <3>2, <3>3
    <2>3. ASSUME NEW k \in 2 .. h PROVE f[1 + k] = a[k]
      <3>1. k \in 1 .. h /\ 1 + k \in 1 .. Len(e) /\ 1 + k # 2
        BY <1>5
      <3>2. QED
        BY <1>5, <1>6, <3>1
    <2>4. ASSUME NEW k \in 1 .. 4 PROVE f[1 + h + k] = U32Bytes(n)[k]
      <3>1. 1 + h + k \in 1 .. Len(e) /\ 1 + h + k # 2
        BY <1>5
      <3>2. QED
        BY <1>5, <1>6, <3>1
    <2>5. ASSUME NEW k \in 1 .. n PROVE f[1 + h + 4 + k] = m.data[k]
      <3>1. 1 + h + 4 + k \in 1 .. Len(e) /\ 1 + h + 4 + k # 2
        BY <1>5
      <3>2. QED
        BY <1>5, <1>6, <3>1
    <2>6. QED
      BY <2>1, <2>2, <2>3, <2>4, <2>5
  <1>8. ByteAt(f, 0) = f[1] /\ ByteAt(f, 1) = f[2]
    BY <1>5, <1>6 DEF ByteAt
  <1>9. m.id \in 0 .. U16Max \cup {NoId} /\ m.data \in Seq(Byte)
    BY DEF Envelope
  <1>10. LengthOffset(f) = h + 1 /\ IdOf(f) = m.id
    <2>1. CASE m.id = NoId
      <3>1. a = <<0>> /\ h = 1
        BY <1>2, <1>3, <1>9, <2>1, HeaderTyped
      <3>2. f[2] = 0
        BY <1>7, <3>1
      <3>3. QED
        BY <1>8, <2>1, <3>1, <3>2 DEF LengthOffset, IdOf
    <2>2. CASE m.id # NoId
      <3>1. /\ h = 3 /\ a[1] = 1
            /\ a[2] = U16Bytes(m.id)[1] /\ a[3] = U16Bytes(m.id)[2]
        BY <1>2, <1>3, <1>9, <2>2, HeaderTyped
      <3>2. f[2] # 0 /\ f[3] = U16Bytes(m.id)[1] /\ f[4] = U16Bytes(m.id)[2]
        <4>1. f[2] # 0
          BY <1>7, <3>1
        <4>2. 2 \in 2 .. h /\ 3 \in 2 .. h /\ 1 + 2 = 3 /\ 1 + 3 = 4
          BY <3>1
        <4>3. f[3] = a[2] /\ f[4] = a[3]
          BY <1>7, <4>2
        <4>4. QED
          BY <3>1, <4>1, <4>3
      <3>3. m.id \in 0 .. U16Max
        BY <1>9, <2>2
      <3>4. 256 * U16Bytes(m.id)[1] + U16Bytes(m.id)[2] = m.id
        BY <3>3, U16BytesTyped
      <3>5. ByteAt(f, 2) = f[3] /\ ByteAt(f, 3) = f[4]
        BY <1>5, <1>6, <3>1 DEF ByteAt
      <3>6. U16At(f, 2) = m.id
        BY <3>2, <3>4, <3>5 DEF U16At
      <3>7. QED
        BY <1>8, <3>1, <3>2, <3>6 DEF LengthOffset, IdOf
    <2>3. QED
      BY <2>1, <2>2
  <1>11. DataLenOf(f) = n
    <2>1. /\ U32Bytes(n)[1] \in Byte /\ U32Bytes(n)[2] \in Byte
          /\ U32Bytes(n)[3] \in Byte /\ U32Bytes(n)[4] \in Byte
      BY <1>5, U32BytesTyped, SMT
    <2>2. PICK p \in Byte, q \in Byte, r \in Byte, t \in Byte :
             p = U32Bytes(n)[1] /\ q = U32Bytes(n)[2] /\ r = U32Bytes(n)[3] /\ t = U32Bytes(n)[4]
      BY <2>1
    <2>3. PICK i : i = h + 1
      OBVIOUS
    <2>4. /\ ByteAt(f, i) = f[1 + h + 1] /\ ByteAt(f, i + 1) = f[1 + h + 2]
          /\ ByteAt(f, i + 2) = f[1 + h + 3] /\ ByteAt(f, i + 3) = f[1 + h + 4]
      BY <1>5, <1>6, <2>3 DEF ByteAt
    <2>5. ByteAt(f, i) = p /\ ByteAt(f, i + 1) = q /\ ByteAt(f, i + 2) = r /\ ByteAt(f, i + 3) = t
      BY <1>7, <2>2, <2>4
    <2>6. n \div 16777216 < 256
      <3>1. n <= MaxMessageSize
        BY <1>1
      <3>2. QED
        BY <1>5, <3>1, CapFits, SMT
    <2>7. 16777216 * p + 65536 * q + 256 * r + t = n
      BY <1>5, <2>2, <2>6, U32BytesTyped, SMT
    <2>8. DataLenOf(f) = U32At(f, i)
      BY <1>10, <2>3, SMT DEF DataLenOf
    <2>9. QED
      BY <2>5, <2>7, <2>8, SMT DEF U32At
  <1>12. Start(f) = h + 5
    BY <1>5, <1>10 DEF Start
  <1>13. Accepts(f)
    <2>1. DataLenOf(f) <= MaxMessageSize
      BY <1>1, <1>11
    <2>2. Len(f) >= 2 /\ Start(f) + DataLenOf(f) <= Len(f)
      BY <1>5, <1>6, <1>11, <1>12
    <2>3. QED
      BY <2>1, <2>2 DEF Accepts
  <1>14. SubSeq(f, Start(f) + 1, Start(f) + n) = m.data
    <2>1. PICK i \in Nat : i = h + 5
      BY <1>5
    <2>2. i + n <= Len(f)
      BY <1>5, <1>6, <2>1
    <2>3. /\ SubSeq(f, i + 1, i + n) \in Seq(Byte)
          /\ Len(SubSeq(f, i + 1, i + n)) = n
          /\ \A k \in 1 .. n : SubSeq(f, i + 1, i + n)[k] = f[i + k]
      BY <1>5, <2>2, SliceTyped
    <2>4. ASSUME NEW k \in 1 .. n PROVE f[i + k] = m.data[k]
      <3>1. f[1 + h + 4 + k] = m.data[k]
        BY <1>7
      <3>2. 1 + h + 4 + k = i + k
        BY <1>5, <2>1
      <3>3. QED
        BY <3>1, <3>2
    <2>5. SubSeq(f, i + 1, i + n) = m.data
      BY <1>1, <1>9, <2>3, <2>4, SeqEqual
    <2>6. QED
      BY <1>12, <2>1, <2>5
  <1>15. EnvelopeOf(f) = m
    BY <1>7, <1>8, <1>10, <1>11, <1>14 DEF EnvelopeOf, Envelope
  <1>16. QED
    BY <1>13, <1>15

\* No frame is the frame of two envelopes within the cap, whatever follows it in
\* the buffer and whatever its flag's value: none is encoded as another is, or as
\* the beginning of another.
THEOREM FramesAreUnambiguous ==
    ASSUME NEW f \in Seq(Byte), NEW m \in Envelope, NEW n \in Envelope,
           Len(m.data) <= MaxMessageSize, Len(n.data) <= MaxMessageSize,
           Encodes(f, m), Encodes(f, n)
    PROVE  m = n
  <1>1. EnvelopeOf(f) = m
    BY Recovers
  <1>2. EnvelopeOf(f) = n
    BY Recovers
  <1>3. QED
    BY <1>1, <1>2

-----------------------------------------------------------------------------
(* What senders encode *)

LEMMA IntroducerOpcodes ==
    Discriminant("RegisterPeer") = 218 /\ Discriminant("RegisterAck") = 219
  <1>1. Discriminant(ALL[19]) = 199 + 19 /\ Discriminant(ALL[20]) = 199 + 20
    <2>1. 19 \in 1 .. 20 /\ 20 \in 1 .. 20
      OBVIOUS
    <2>2. QED
      BY <2>1, DiscriminantOf
  <1>2. QED
    BY <1>1, OpcodeTable

LEMMA SentIsTyped ==
    ASSUME NEW i \in FrameIds
    PROVE  /\ \A r \in RegisterPeer : RegisterPeerMessage(r, i) \in Envelope
           /\ \A success \in BOOLEAN : RegisterAckMessage(success, i) \in Envelope
  <1>1. i \in 0 .. U16Max \cup {NoId}
    BY WireAssumption
  <1>2. Discriminant("RegisterPeer") \in Byte /\ Discriminant("RegisterAck") \in Byte
    BY IntroducerOpcodes DEF Byte
  <1>3. ASSUME NEW r \in RegisterPeer PROVE EncodeRegisterPeer(r) \in Seq(Byte)
    <2>1. r.ip \in Seq(Byte) /\ r.port \in 0 .. U16Max /\ r.nodeType \in NodeType
      BY DEF RegisterPeer
    <2>2. U32Bytes(Len(r.ip)) \in Seq(Byte)
      BY <2>1, LenProperties, U32BytesTyped
    <2>3. U16Bytes(r.port) \in Seq(Byte)
      BY <2>1, U16BytesTyped
    <2>4. <<ToByte(r.nodeType)>> \in Seq(Byte)
      <3>1. ToByte(r.nodeType) \in Byte
        BY <2>1, RoleBytes
      <3>2. QED
        BY <3>1
    <2>5. U32Bytes(Len(r.ip)) \o r.ip \in Seq(Byte)
      BY <2>1, <2>2, Joined
    <2>6. (U32Bytes(Len(r.ip)) \o r.ip) \o U16Bytes(r.port) \in Seq(Byte)
      BY <2>3, <2>5, Joined
    <2>7. ((U32Bytes(Len(r.ip)) \o r.ip) \o U16Bytes(r.port)) \o <<ToByte(r.nodeType)>> \in Seq(Byte)
      BY <2>4, <2>6, Joined
    <2>8. QED
      BY <2>7 DEF EncodeRegisterPeer
  <1>4. ASSUME NEW success \in BOOLEAN PROVE EncodeRegisterAck(success) \in Seq(Byte)
    <2>1. ASSUME NEW v \in Byte PROVE <<v>> \in Seq(Byte)
      OBVIOUS
    <2>2. (IF success THEN 1 ELSE 0) \in Byte
      BY DEF Byte
    <2>3. QED
      BY <2>1, <2>2 DEF EncodeRegisterAck
  <1>5. QED
    BY <1>1, <1>2, <1>3, <1>4 DEF RegisterPeerMessage, RegisterAckMessage, Envelope

Provenance == [sent : SUBSET Envelope, registration : SUBSET RegisterPeer]

\* What arrives is bytes, and the encoding of what was sent.
LEMMA Arriving ==
    ASSUME Arrival
    PROVE  \/ \E f \in Seq(Byte), from \in Provenance :
                  (\A m \in from.sent : f = ToBytes(m)) /\ Arrives(f, from)
           \/ \E v \in Values : ReadValue(v)
  <1>1. ASSUME NEW m \in Envelope
        PROVE  ToBytes(m) \in Seq(Byte)
    BY Layout
  <1>2. CASE \E m \in Messages : Send(m)
    <2>1. PICK m \in Messages : Send(m)
      BY <1>2
    <2>2. m \in Envelope
      BY WireAssumption
    <2>3. [sent |-> {m}, registration |-> {}] \in Provenance
      BY <2>2 DEF Provenance
    <2>4. Arrives(ToBytes(m), [sent |-> {m}, registration |-> {}])
      BY <2>1 DEF Send, Some, None
    <2>5. QED
      BY <1>1, <2>2, <2>3, <2>4
  <1>3. CASE \E r \in Registrations, i \in FrameIds : SendRegistration(r, i)
    <2>1. PICK r \in Registrations, i \in FrameIds : SendRegistration(r, i)
      BY <1>3
    <2>2. r \in RegisterPeer
      BY WireAssumption
    <2>3. PICK m : m = RegisterPeerMessage(r, i)
      OBVIOUS
    <2>4. m \in Envelope
      BY <2>2, <2>3, SentIsTyped
    <2>5. [sent |-> {m}, registration |-> {r}] \in Provenance
      BY <2>2, <2>4 DEF Provenance
    <2>6. Arrives(ToBytes(m), [sent |-> {m}, registration |-> {r}])
      BY <2>1, <2>3 DEF SendRegistration, Some
    <2>7. QED
      BY <1>1, <2>4, <2>5, <2>6
  <1>4. CASE \E success \in BOOLEAN, i \in FrameIds : SendAck(success, i)
    <2>1. PICK success \in BOOLEAN, i \in FrameIds : SendAck(success, i)
      BY <1>4
    <2>2. PICK m : m = RegisterAckMessage(success, i)
      OBVIOUS
    <2>3. m \in Envelope
      BY <2>2, SentIsTyped
    <2>4. [sent |-> {m}, registration |-> {}] \in Provenance
      BY <2>3 DEF Provenance
    <2>5. Arrives(ToBytes(m), [sent |-> {m}, registration |-> {}])
      BY <2>1, <2>2 DEF SendAck, Some, None
    <2>6. QED
      BY <1>1, <2>3, <2>4, <2>5
  <1>5. CASE \E f \in Garbage : SendGarbage(f)
    <2>1. PICK f \in Garbage : SendGarbage(f)
      BY <1>5
    <2>2. f \in Seq(Byte)
      BY WireAssumption
    <2>3. [sent |-> {}, registration |-> {}] \in Provenance
      BY DEF Provenance
    <2>4. Arrives(f, [sent |-> {}, registration |-> {}])
      BY <2>1 DEF SendGarbage, None
    <2>5. QED
      BY <2>2, <2>3, <2>4
  <1>6. QED
    BY <1>2, <1>3, <1>4, <1>5 DEF Arrival

-----------------------------------------------------------------------------
(* The invariant *)

\* Where the decoder stands is determined by its frame.
CursorInv ==
    /\ Len(frame) <= UsizeMax
    /\ touched <= Len(frame)
    /\ pc \in {"idle", "header"} => offset = 0 /\ id = NoId /\ touched = 0
    /\ pc \in {"idle", "tag"} \cup Decoding => message = {}
    /\ pc = "id" => Len(frame) >= 2 /\ ByteAt(frame, 1) # 0 /\ offset = 2 /\ id = NoId
    /\ pc = "length" => Len(frame) >= 2 /\ offset = LengthOffset(frame) /\ id = IdOf(frame)
    /\ pc = "payload" =>
           /\ Len(frame) >= Start(frame)
           /\ offset = Start(frame) /\ id = IdOf(frame) /\ dataLen = DataLenOf(frame)
    /\ pc = "refused" => ~Accepts(frame) /\ message = {}
    /\ Decoded => Accepts(frame) /\ message = {EnvelopeOf(frame)}

\* The parser is inside a body of the opcode it parses.
BodyInv ==
    /\ pc \in {"idle", "tag", "refused", "decoded"} \cup Decoding => position = 0
    /\ Decoded => position <= Len(Data)
    /\ pc \in {"ip", "port", "nodeType"} => NamesBody("RegisterPeer")
    /\ pc = "success" => NamesBody("RegisterAck")
    /\ pc = "end" => NamesBody("RegisterPeer") \/ NamesBody("RegisterAck")

HistoryInv ==
    /\ pc \in {"idle", "tag"} => origin.sent = {}
    /\ \A m \in origin.sent : frame = ToBytes(m)
    /\ \A t \in tag : t.type = Deserialize(t.value)

Inv == TypeOK /\ CursorInv /\ BodyInv /\ HistoryInv

LEMMA Sum ==
    ASSUME NEW m \in Nat, NEW n \in Nat
    PROVE  /\ m + n <= UsizeMax => CheckedAdd(m, n) = {m + n}
           /\ ~(m + n <= UsizeMax) => CheckedAdd(m, n) = {}
  BY SizeAssumption DEF CheckedAdd, None, Some

LEMMA MsgIs ==
    ASSUME Inv, Decoded
    PROVE  Msg = EnvelopeOf(frame) /\ Msg \in Envelope /\ Data \in Seq(Byte) /\ Len(Data) \in Nat
  <1>1. message = {EnvelopeOf(frame)} /\ Accepts(frame) /\ Len(frame) <= UsizeMax
    BY DEF Inv, CursorInv
  <1>2. Msg = EnvelopeOf(frame)
    <2>1. ASSUME NEW x PROVE (CHOOSE m \in {x} : TRUE) = x
      OBVIOUS
    <2>2. QED
      BY <1>1, <2>1 DEF Msg
  <1>3. frame \in Seq(Byte)
    BY DEF Inv, TypeOK
  <1>4. EnvelopeOf(frame) \in Envelope
    BY <1>1, <1>3, FromBytesIs
  <1>5. Data \in Seq(Byte)
    BY <1>2, <1>4 DEF Data, Envelope
  <1>6. QED
    BY <1>2, <1>4, <1>5, LenProperties

\* The application changes nothing of the decoder's.
LEMMA ApplicationStep ==
    ASSUME Inv, Dispatch \/ ParseBody
    PROVE  /\ Decoded /\ Decoded' /\ pc' \in States
           /\ pc \notin {"idle", "refused", "tag"} /\ pc' \notin {"idle", "refused", "tag"}
           /\ UNCHANGED <<frame, decoderVars, message, tag, origin>>
  <1>1. CASE Dispatch
    BY <1>1 DEF Dispatch, Decoded, Decoding, States, Parsing, decoderVars
  <1>2. CASE ParseIp
    BY <1>2 DEF ParseIp, Field, Decoded, Decoding, States, Parsing, decoderVars
  <1>3. CASE ParsePort
    BY <1>3 DEF ParsePort, Field, Decoded, Decoding, States, Parsing, decoderVars
  <1>4. CASE ParseNodeType
    BY <1>4 DEF ParseNodeType, Field, Decoded, Decoding, States, Parsing, decoderVars
  <1>5. CASE ParseSuccess
    BY <1>5 DEF ParseSuccess, Field, Decoded, Decoding, States, Parsing, decoderVars
  <1>6. CASE ParseEnd
    BY <1>6 DEF ParseEnd, Field, Decoded, Decoding, States, Parsing, decoderVars
  <1>7. QED
    BY <1>1, <1>2, <1>3, <1>4, <1>5, <1>6 DEF ParseBody

LEMMA CursorInit == ASSUME Init PROVE Inv
  <1>1. frame = <<>> /\ Len(frame) = 0 /\ frame \in Seq(Byte)
    BY DEF Init
  <1>2. TypeOK
    <2>1. NoBody \in [ip : Seq(Byte), port : 0 .. U16Max,
                      nodeType : NodeType \cup {Unknown}, success : {-1, 0, 1}]
      <3>1. 0 \in 0 .. U16Max
        BY U16MaxIsNat, UpTo
      <3>2. <<>> \in Seq(Byte)
        OBVIOUS
      <3>3. QED
        BY <3>1, <3>2 DEF NoBody
    <2>2. QED
      BY <1>1, <2>1 DEF Init, TypeOK, States, None
  <1>3. CursorInv
    BY <1>1, SizeAssumption DEF Init, CursorInv, Decoded, Decoding, None
  <1>4. BodyInv
    BY DEF Init, BodyInv, Decoded, Decoding
  <1>5. HistoryInv
    BY DEF Init, HistoryInv, None
  <1>6. QED
    BY <1>2, <1>3, <1>4, <1>5 DEF Inv

\* What every decoder step leaves alone.
LEMMA DecoderStep ==
    ASSUME Inv, Decode
    PROVE  /\ pc \in Decoding /\ pc' \in Decoding \cup {"refused", "decoded"}
           /\ UNCHANGED <<frame, bodyVars, tag, origin>>
  BY DEF Decode, ReadHeader, ReadId, ReadLength, Drain, Refuse, Decoding, bodyVars

LEMMA CursorPreserved ==
    ASSUME Inv, [Next]_vars
    PROVE  CursorInv'
  <1>1. /\ frame \in Seq(Byte) /\ Len(frame) <= UsizeMax /\ touched <= Len(frame)
        /\ offset \in Nat /\ touched \in Nat /\ dataLen \in Nat /\ UsizeMax \in Nat
    BY SizeAssumption DEF Inv, TypeOK, CursorInv
  <1>2. /\ Len(frame) \in Nat
        /\ LengthOffset(frame) \in {2, 4} /\ Start(frame) \in {6, 8}
        /\ Start(frame) = LengthOffset(frame) + 4
        /\ IdOf(frame) \in 0 .. U16Max \cup {NoId}
        /\ DataLenOf(frame) \in Nat
    BY <1>1, FieldsTyped DEF Start
  <1>3. CASE ReadHeader
    <2>1. /\ pc = "header" /\ frame' = frame
          /\ offset = 0 /\ id = NoId /\ touched = 0 /\ message = {}
      BY <1>3 DEF ReadHeader, Inv, CursorInv, Decoding
    <2>2. CASE Refuse(TooShort(2))
      <3>1. ~Accepts(frame)
        BY <1>2, <2>2 DEF Refuse, TooShort, Accepts
      <3>2. QED
        BY <1>1, <2>1, <2>2, <3>1 DEF Refuse, CursorInv, decoderVars, Decoded, Decoding
    <2>3. CASE ~TooShort(2) /\ offset' = 2 /\ touched' = 2 /\ id' = id /\ message' = message
               /\ pc' = IF HasId THEN "id" ELSE "length"
      <3>1. Len(frame) >= 2
        BY <1>2, <2>3 DEF TooShort
      <3>2. ByteAt(frame, 1) = 0 => LengthOffset(frame) = 2 /\ IdOf(frame) = NoId
        BY DEF LengthOffset, IdOf
      <3>3. QED
        BY <1>1, <2>1, <2>3, <3>1, <3>2 DEF HasId, CursorInv, Decoded, Decoding
    <2>4. QED
      BY <1>3, <2>2, <2>3 DEF ReadHeader
  <1>4. CASE ReadId
    <2>1. /\ pc = "id" /\ frame' = frame /\ message = {}
          /\ Len(frame) >= 2 /\ ByteAt(frame, 1) # 0 /\ offset = 2 /\ id = NoId
      BY <1>4 DEF ReadId, Inv, CursorInv, Decoding
    <2>2. LengthOffset(frame) = 4 /\ IdOf(frame) = U16At(frame, 2)
      BY <2>1 DEF LengthOffset, IdOf
    <2>3. /\ 4 <= UsizeMax => CheckedAdd(offset, 2) = {4}
          /\ ~(4 <= UsizeMax) => CheckedAdd(offset, 2) = {}
      <3>1. offset \in Nat /\ 2 \in Nat /\ offset + 2 = 4
        BY <2>1
      <3>2. QED
        BY <3>1, Sum
    <2>4. CASE Refuse(\A end \in CheckedAdd(offset, 2) : TooShort(end))
      <3>1. Len(frame) < 4
        BY <1>1, <1>2, <2>3, <2>4 DEF Refuse, TooShort
      <3>2. ~Accepts(frame)
        BY <1>2, <2>2, <3>1 DEF Accepts
      <3>3. QED
        BY <1>1, <2>1, <2>4, <3>2 DEF Refuse, CursorInv, decoderVars, Decoded, Decoding
    <2>5. CASE \E end \in CheckedAdd(offset, 2) :
                   /\ ~TooShort(end) /\ id' = U16At(frame, offset) /\ offset' = end
                   /\ touched' = end /\ pc' = "length" /\ message' = message
      <3>1. ~TooShort(4) /\ id' = U16At(frame, 2) /\ offset' = 4 /\ touched' = 4
        BY <2>1, <2>3, <2>5
      <3>2. Len(frame) >= 4
        BY <1>2, <3>1 DEF TooShort
      <3>3. QED
        BY <1>1, <2>1, <2>2, <2>5, <3>1, <3>2 DEF CursorInv, Decoded, Decoding
    <2>6. QED
      BY <1>4, <2>4, <2>5 DEF ReadId
  <1>5. CASE ReadLength
    <2>1. /\ pc = "length" /\ frame' = frame /\ message = {}
          /\ Len(frame) >= 2 /\ offset = LengthOffset(frame) /\ id = IdOf(frame)
      BY <1>5 DEF ReadLength, Inv, CursorInv, Decoding
    <2>2. /\ Start(frame) <= UsizeMax => CheckedAdd(offset, 4) = {Start(frame)}
          /\ ~(Start(frame) <= UsizeMax) => CheckedAdd(offset, 4) = {}
      <3>1. offset \in Nat /\ 4 \in Nat /\ offset + 4 = Start(frame)
        BY <1>2, <2>1
      <3>2. QED
        BY <3>1, Sum
    <2>3. CASE Refuse(\A end \in CheckedAdd(offset, 4) : TooShort(end))
      <3>1. Len(frame) < Start(frame)
        BY <1>1, <1>2, <2>2, <2>3 DEF Refuse, TooShort
      <3>2. ~Accepts(frame)
        BY <1>2, <3>1 DEF Accepts
      <3>3. QED
        BY <1>1, <2>1, <2>3, <3>2 DEF Refuse, CursorInv, decoderVars, Decoded, Decoding
    <2>4. CASE \E end \in CheckedAdd(offset, 4) :
                   /\ ~TooShort(end) /\ dataLen' = U32At(frame, offset) /\ offset' = end
                   /\ touched' = end /\ pc' = "payload" /\ id' = id /\ message' = message
      <3>1. /\ ~TooShort(Start(frame)) /\ dataLen' = DataLenOf(frame)
            /\ offset' = Start(frame) /\ touched' = Start(frame)
        BY <2>1, <2>2, <2>4 DEF DataLenOf
      <3>2. Len(frame) >= Start(frame)
        BY <1>2, <3>1 DEF TooShort
      <3>3. QED
        BY <1>1, <2>1, <2>4, <3>1, <3>2 DEF CursorInv, Decoded, Decoding
    <2>5. QED
      BY <1>5, <2>3, <2>4 DEF ReadLength
  <1>6. CASE Drain
    <2>1. /\ pc = "payload" /\ frame' = frame /\ message = {}
          /\ Len(frame) >= Start(frame)
          /\ offset = Start(frame) /\ id = IdOf(frame) /\ dataLen = DataLenOf(frame)
      BY <1>6 DEF Drain, Inv, CursorInv, Decoding
    <2>2. PICK z : z = Start(frame) + DataLenOf(frame)
      OBVIOUS
    <2>3. /\ z \in Nat
          /\ z <= UsizeMax => CheckedAdd(offset, dataLen) = {z}
          /\ ~(z <= UsizeMax) => CheckedAdd(offset, dataLen) = {}
      BY <1>1, <1>2, <2>1, <2>2, Sum
    <2>4. CASE Refuse(OverCap \/ \A end \in CheckedAdd(offset, dataLen) : TooShort(end))
      <3>1. MaxMessageSize \in Nat
        BY SizeAssumption
      <3>2. dataLen > MaxMessageSize \/ Len(frame) < z
        BY <1>1, <1>2, <2>3, <2>4 DEF Refuse, TooShort, OverCap
      <3>3. ~Accepts(frame)
        BY <1>2, <2>1, <2>2, <2>3, <3>1, <3>2 DEF Accepts
      <3>4. QED
        BY <1>1, <2>1, <2>4, <3>3 DEF Refuse, CursorInv, decoderVars, Decoded, Decoding
    <2>5. CASE \E end \in CheckedAdd(offset, dataLen) :
                   /\ ~OverCap /\ ~TooShort(end) /\ touched' = end
                   /\ message' = Some([msgType |-> ByteAt(frame, 0), id |-> id,
                                       data |-> SubSeq(frame, offset + 1, end)])
                   /\ pc' = "decoded"
      <3>1. /\ ~OverCap /\ ~TooShort(z) /\ touched' = z
            /\ message' = {[msgType |-> ByteAt(frame, 0), id |-> id,
                            data |-> SubSeq(frame, offset + 1, z)]}
        BY <2>3, <2>5 DEF Some
      <3>2. Len(frame) >= z /\ dataLen <= MaxMessageSize
        BY <1>1, <1>2, <2>3, <3>1, SizeAssumption DEF TooShort, OverCap
      <3>3. Accepts(frame)
        BY <1>2, <2>1, <2>2, <2>3, <3>2 DEF Accepts
      <3>4. message' = {EnvelopeOf(frame)}
        BY <2>1, <2>2, <3>1 DEF EnvelopeOf
      <3>5. QED
        BY <1>1, <2>1, <2>5, <3>1, <3>2, <3>3, <3>4 DEF CursorInv, Decoded, Decoding
    <2>6. QED
      BY <1>6, <2>4, <2>5 DEF Drain
  <1>7. CASE Dispatch \/ ParseBody
    <2>1. /\ Decoded /\ Decoded' /\ pc' \in States
          /\ pc' \notin {"idle", "refused", "tag"}
          /\ frame' = frame /\ touched' = touched /\ message' = message
      BY <1>7, ApplicationStep DEF decoderVars
    <2>2. QED
      BY <1>1, <2>1 DEF Inv, CursorInv, Decoded, Decoding
  <1>8. CASE Arrival
    <2>1. pc = "idle" /\ offset = 0 /\ id = NoId /\ touched = 0 /\ message = {}
      BY <1>8 DEF Arrival, Inv, CursorInv
    <2>2. CASE \E f \in Seq(Byte), from \in Provenance : Arrives(f, from)
      <3>1. PICK f \in Seq(Byte), from \in Provenance : Arrives(f, from)
        BY <2>2
      <3>2. /\ pc' = "header" /\ frame' = f /\ Len(f) <= UsizeMax
            /\ UNCHANGED <<offset, id, touched, message>>
        BY <3>1 DEF Arrives, decoderVars
      <3>3. Len(f) \in Nat
        BY LenProperties
      <3>4. QED
        BY <2>1, <3>2, <3>3 DEF CursorInv, Decoded, Decoding
    <2>3. CASE \E v \in Values : ReadValue(v)
      <3>1. pc' = "tag" /\ UNCHANGED <<frame, touched, message>>
        BY <2>3 DEF ReadValue, decoderVars
      <3>2. QED
        BY <1>1, <2>1, <3>1 DEF CursorInv, Decoded, Decoding
    <2>4. QED
      BY <1>8, <2>2, <2>3, Arriving
  <1>9. CASE UNCHANGED vars
    BY <1>9 DEF vars, decoderVars, Inv, CursorInv, Decoded, Decoding
  <1>10. QED
    BY <1>3, <1>4, <1>5, <1>6, <1>7, <1>8, <1>9 DEF Next, Decode

LEMMA HistoryPreserved ==
    ASSUME Inv, [Next]_vars
    PROVE  HistoryInv'
  <1>1. CASE Decode \/ Dispatch \/ ParseBody
    <2>1. /\ UNCHANGED <<frame, tag, origin>>
          /\ pc' \notin {"idle", "tag"}
      BY <1>1, DecoderStep, ApplicationStep DEF Decoding
    <2>2. QED
      BY <2>1 DEF Inv, HistoryInv
  <1>2. CASE Arrival
    <2>1. pc = "idle"
      BY <1>2 DEF Arrival
    <2>2. CASE \E f \in Seq(Byte), from \in Provenance :
                   (\A m \in from.sent : f = ToBytes(m)) /\ Arrives(f, from)
      <3>1. PICK f \in Seq(Byte), from \in Provenance :
                     (\A m \in from.sent : f = ToBytes(m)) /\ Arrives(f, from)
        BY <2>2
      <3>2. pc' = "header" /\ frame' = f /\ origin' = from /\ tag' = tag
        BY <3>1 DEF Arrives
      <3>3. QED
        BY <3>1, <3>2 DEF Inv, HistoryInv
    <2>3. CASE \E v \in Values : ReadValue(v)
      <3>1. PICK v \in Values : ReadValue(v)
        BY <2>3
      <3>2. /\ pc' = "tag" /\ frame' = frame /\ origin' = origin
            /\ tag' = {[value |-> v, type |-> Deserialize(v)]}
        BY <3>1 DEF ReadValue, Some
      <3>3. QED
        BY <2>1, <3>2 DEF Inv, HistoryInv
    <2>4. QED
      BY <1>2, <2>2, <2>3, Arriving
  <1>3. CASE UNCHANGED vars
    BY <1>3 DEF vars, Inv, HistoryInv
  <1>4. QED
    BY <1>1, <1>2, <1>3 DEF Next

LEMMA DeserializeTyped == \A v : Deserialize(v) \in DigMessageType \cup {Unknown}
  <1> SUFFICES ASSUME NEW v PROVE Deserialize(v) \in DigMessageType \cup {Unknown}
    OBVIOUS
  <1>1. ASSUME NEW b, b \in 200 .. 219 PROVE ALL[b - 199] \in DigMessageType
    <2>1. b - 199 \in 1 .. 20
      BY <1>1
    <2>2. QED
      BY <2>1, OpcodeTable
  <1>2. QED
    BY <1>1 DEF Deserialize, TryFrom

BodyType == [ip : Seq(Byte), port : 0 .. U16Max,
             nodeType : NodeType \cup {Unknown}, success : {-1, 0, 1}]

\* A field that parses moves the cursor over it and keeps the body typed.
LEMMA FieldStep ==
    ASSUME Inv, Decoded,
           NEW step, NEW next, NEW n \in Nat, NEW valid, NEW parsed,
           Field(step, next, n, valid, parsed), valid = TRUE => parsed \in BodyType,
           valid \in BOOLEAN
    PROVE  /\ pc = step
           /\ \/ /\ pc' = next /\ valid
                 /\ position' = position + n /\ position' <= Len(Data)
              \/ pc' = "badBody" /\ position' = position
           /\ position' \in Nat /\ body' \in BodyType /\ position' <= Len(Data)
  <1>1. position \in Nat /\ body \in BodyType /\ position <= Len(Data) /\ Len(Data) \in Nat
    BY MsgIs DEF Inv, TypeOK, BodyInv, BodyType
  <1>2. pc = step
    BY DEF Field
  <1>3. CASE Len(Data) >= position + n /\ valid
    <2>1. body' = parsed /\ position' = position + n /\ pc' = next
      BY <1>3 DEF Field
    <2>2. QED
      BY <1>1, <1>2, <1>3, <2>1
  <1>4. CASE ~(Len(Data) >= position + n /\ valid)
    <2>1. pc' = "badBody" /\ position' = position /\ body' = body
      BY <1>4 DEF Field, bodyVars
    <2>2. QED
      BY <1>1, <1>2, <2>1
  <1>5. QED
    BY <1>3, <1>4

LEMMA BodyStep ==
    ASSUME Inv, Dispatch \/ ParseBody
    PROVE  /\ position' \in Nat /\ body' \in BodyType
           /\ position' <= Len(Data)
           /\ pc' \in {"ip", "port", "nodeType"} => NamesBody("RegisterPeer")
           /\ pc' = "success" => NamesBody("RegisterAck")
           /\ pc' = "end" => NamesBody("RegisterPeer") \/ NamesBody("RegisterAck")
           /\ pc' # "decoded"
  <1>1. Decoded
    BY ApplicationStep
  <1>2. /\ position \in Nat /\ body \in BodyType /\ position <= Len(Data)
        /\ Len(Data) \in Nat /\ Data \in Seq(Byte)
    BY <1>1, MsgIs DEF Inv, TypeOK, BodyInv, BodyType
  <1>3. /\ body.ip \in Seq(Byte) /\ body.port \in 0 .. U16Max
        /\ body.nodeType \in NodeType \cup {Unknown} /\ body.success \in {-1, 0, 1}
        /\ body = [ip |-> body.ip, port |-> body.port,
                   nodeType |-> body.nodeType, success |-> body.success]
    BY <1>2 DEF BodyType
  <1>4. CASE Dispatch
    BY <1>2, <1>4 DEF Dispatch, bodyVars
  <1>5. CASE ParseIp
    <2>1. PICK n \in Nat : n = U32At(Data, position)
      BY <1>2, U32OfSeq
    <2>2. PICK ip : ip = SubSeq(Data, position + 5, position + 4 + n)
      OBVIOUS
    <2>3. Field("ip", "port", 4 + n, Utf8(ip), [body EXCEPT !.ip = ip])
      BY <1>5, <2>1, <2>2 DEF ParseIp
    <2>4. Utf8(ip) \in BOOLEAN
      BY DEF Utf8
    <2>5. CASE Len(Data) >= position + (4 + n)
      <3>1. position + 4 \in Nat /\ (position + 4) + n <= Len(Data)
        BY <1>2, <2>5
      <3>2. SubSeq(Data, (position + 4) + 1, (position + 4) + n) \in Seq(Byte)
        BY <1>2, <3>1, SliceTyped
      <3>3. (position + 4) + 1 = position + 5
        BY <1>2
      <3>4. ip \in Seq(Byte)
        BY <2>2, <3>2, <3>3
      <3>5. [body EXCEPT !.ip = ip] \in BodyType
        BY <1>2, <3>4 DEF BodyType
      <3>6. 4 + n \in Nat
        OBVIOUS
      <3>7. /\ pc = "ip"
            /\ pc' \in {"port", "badBody"}
            /\ position' \in Nat /\ body' \in BodyType /\ position' <= Len(Data)
        BY <1>1, <2>3, <2>4, <3>5, <3>6, FieldStep
      <3>8. QED
        BY <3>7 DEF Inv, BodyInv
    <2>6. CASE ~(Len(Data) >= position + (4 + n))
      <3>1. pc' = "badBody" /\ position' = position /\ body' = body
        BY <2>3, <2>6 DEF Field, bodyVars
      <3>2. QED
        BY <1>2, <3>1
    <2>7. QED
      BY <2>5, <2>6
  <1>6. CASE ParsePort
    <2>1. Field("port", "nodeType", 2, TRUE, [body EXCEPT !.port = U16At(Data, position)])
      BY <1>6 DEF ParsePort
    <2>2. U16At(Data, position) \in 0 .. U16Max
      BY <1>2, U16OfSeq
    <2>3. [body EXCEPT !.port = U16At(Data, position)] \in BodyType
      BY <1>2, <2>2 DEF BodyType
    <2>4. /\ pc = "port"
          /\ pc' \in {"nodeType", "badBody"}
          /\ position' \in Nat /\ body' \in BodyType /\ position' <= Len(Data)
      BY <1>1, <2>1, <2>3, FieldStep
    <2>5. QED
      BY <2>4 DEF Inv, BodyInv
  <1>7. CASE ParseNodeType
    <2>1. PICK role : role = FromByte(ByteAt(Data, position))
      OBVIOUS
    <2>2. Field("nodeType", "end", 1, role # Unknown, [body EXCEPT !.nodeType = role])
      BY <1>7, <2>1 DEF ParseNodeType
    <2>3. role \in NodeType \cup {Unknown}
      BY <2>1, RoleBytes
    <2>4. [body EXCEPT !.nodeType = role] \in BodyType
      BY <1>2, <2>3 DEF BodyType
    <2>5. /\ pc = "nodeType"
          /\ pc' \in {"end", "badBody"}
          /\ position' \in Nat /\ body' \in BodyType /\ position' <= Len(Data)
      BY <1>1, <2>2, <2>4, FieldStep
    <2>6. QED
      BY <2>5 DEF Inv, BodyInv
  <1>8. CASE ParseSuccess
    <2>1. PICK flag : flag = ByteAt(Data, position)
      OBVIOUS
    <2>2. CASE flag \in {0, 1}
      <3>1. Field("success", "end", 1, TRUE, [body EXCEPT !.success = flag])
        BY <1>8, <2>1, <2>2 DEF ParseSuccess, Field
      <3>2. [body EXCEPT !.success = flag] \in BodyType
        BY <1>2, <2>2 DEF BodyType
      <3>3. /\ pc = "success"
            /\ pc' \in {"end", "badBody"}
            /\ position' \in Nat /\ body' \in BodyType /\ position' <= Len(Data)
        BY <1>1, <3>1, <3>2, FieldStep
      <3>4. QED
        BY <3>3 DEF Inv, BodyInv
    <2>3. CASE flag \notin {0, 1}
      <3>1. pc' = "badBody" /\ position' = position /\ body' = body
        BY <1>8, <2>1, <2>3 DEF ParseSuccess, Field, bodyVars
      <3>2. QED
        BY <1>2, <3>1
    <2>4. QED
      BY <2>2, <2>3
  <1>9. CASE ParseEnd
    <2>1. Field("end", "parsed", 0, Exhausted, body) /\ Exhausted \in BOOLEAN
      BY <1>9 DEF ParseEnd, Exhausted
    <2>2. /\ pc' \in {"parsed", "badBody"}
          /\ position' \in Nat /\ body' \in BodyType /\ position' <= Len(Data)
      BY <1>1, <1>2, <2>1, FieldStep
    <2>3. QED
      BY <2>2
  <1>10. QED
    BY <1>4, <1>5, <1>6, <1>7, <1>8, <1>9 DEF ParseBody

LEMMA BodyPreserved ==
    ASSUME Inv, [Next]_vars
    PROVE  BodyInv'
  <1>1. CASE Dispatch \/ ParseBody
    <2>1. /\ Decoded /\ Decoded' /\ pc' \notin {"idle", "refused", "tag"} /\ pc' # "decoded"
          /\ message' = message
      BY <1>1, ApplicationStep, BodyStep
    <2>2. Data' = Data /\ Msg' = Msg
      BY <2>1 DEF Data, Msg
    <2>3. /\ position' <= Len(Data)
          /\ pc' \in {"ip", "port", "nodeType"} => NamesBody("RegisterPeer")
          /\ pc' = "success" => NamesBody("RegisterAck")
          /\ pc' = "end" => NamesBody("RegisterPeer") \/ NamesBody("RegisterAck")
      BY <1>1, BodyStep
    <2>4. /\ NamesBody("RegisterPeer")' = NamesBody("RegisterPeer")
          /\ NamesBody("RegisterAck")' = NamesBody("RegisterAck")
      BY <2>2 DEF NamesBody
    <2>5. pc' \notin Decoding
      BY <2>1 DEF Decoded
    <2>6. QED
      BY <2>1, <2>2, <2>3, <2>4, <2>5 DEF BodyInv
  <1>2. CASE Decode
    <2>1. /\ pc \in Decoding /\ pc' \in Decoding \cup {"refused", "decoded"}
          /\ position' = position
      BY <1>2, DecoderStep DEF bodyVars
    <2>2. position = 0
      BY <2>1 DEF Inv, BodyInv
    <2>3. Decoded' => Len(Data') \in Nat
      <3>1. CursorInv'
        BY <1>2, CursorPreserved DEF Next
      <3>2. SUFFICES ASSUME Decoded' PROVE Len(Data') \in Nat
        OBVIOUS
      <3>3. message' = {EnvelopeOf(frame')} /\ Accepts(frame') /\ Len(frame') <= UsizeMax
        BY <3>1, <3>2 DEF CursorInv
      <3>4. frame' \in Seq(Byte)
        BY <1>2, DecoderStep DEF Inv, TypeOK
      <3>5. EnvelopeOf(frame') \in Envelope
        BY <3>3, <3>4, FromBytesIs
      <3>6. Data' = EnvelopeOf(frame').data
        <4>1. ASSUME NEW x PROVE (CHOOSE m \in {x} : TRUE) = x
          OBVIOUS
        <4>2. QED
          BY <3>3, <4>1 DEF Data, Msg
      <3>7. QED
        BY <3>5, <3>6, LenProperties DEF Envelope
    <2>4. QED
      BY <2>1, <2>2, <2>3 DEF BodyInv, Decoding
  <1>3. CASE Arrival
    <2>1. pc = "idle" /\ position = 0
      BY <1>3 DEF Arrival, Inv, BodyInv
    <2>2. pc' \in {"header", "tag"} /\ position' = position
      <3>1. CASE \E f \in Seq(Byte), from \in Provenance : Arrives(f, from)
        BY <3>1 DEF Arrives, bodyVars
      <3>2. CASE \E v \in Values : ReadValue(v)
        BY <3>2 DEF ReadValue, bodyVars
      <3>3. QED
        BY <1>3, <3>1, <3>2, Arriving
    <2>3. QED
      BY <2>1, <2>2 DEF BodyInv, Decoded, Decoding
  <1>4. CASE UNCHANGED vars
    <2>1. pc' = pc /\ position' = position /\ message' = message
      BY <1>4 DEF vars, bodyVars
    <2>2. Msg' = Msg /\ Data' = Data
      BY <2>1 DEF Msg, Data
    <2>3. /\ NamesBody("RegisterPeer")' = NamesBody("RegisterPeer")
          /\ NamesBody("RegisterAck")' = NamesBody("RegisterAck")
          /\ Decoded' = Decoded
      BY <2>1, <2>2 DEF NamesBody, Decoded
    <2>4. QED
      BY <2>1, <2>2, <2>3 DEF Inv, BodyInv
  <1>5. QED
    BY <1>1, <1>2, <1>3, <1>4 DEF Next

LEMMA TypePreserved ==
    ASSUME Inv, [Next]_vars
    PROVE  TypeOK'
  <1>1. CursorInv'
    BY CursorPreserved
  <1>2. /\ pc \in States /\ frame \in Seq(Byte)
        /\ offset \in Nat /\ dataLen \in Nat /\ touched \in Nat /\ position \in Nat
        /\ id \in 0 .. U16Max \cup {NoId} /\ message \in SUBSET Envelope
        /\ body \in BodyType
        /\ tag \in SUBSET [value : Values, type : DigMessageType \cup {Unknown}]
        /\ origin \in Provenance
    BY DEF Inv, TypeOK, BodyType, Provenance
  <1>3. /\ pc' \in States /\ frame' \in Seq(Byte) /\ position' \in Nat
        /\ body' \in BodyType /\ origin' \in Provenance
        /\ tag' \in SUBSET [value : Values, type : DigMessageType \cup {Unknown}]
    <2>1. CASE Decode
      BY <1>2, <2>1, DecoderStep DEF Decoding, States, bodyVars
    <2>2. CASE Dispatch \/ ParseBody
      BY <1>2, <2>2, ApplicationStep, BodyStep
    <2>3. CASE Arrival
      <3>1. CASE \E f \in Seq(Byte), from \in Provenance : Arrives(f, from)
        BY <1>2, <3>1 DEF Arrives, bodyVars, States, Decoding
      <3>2. CASE \E v \in Values : ReadValue(v)
        <4>1. PICK v \in Values : ReadValue(v)
          BY <3>2
        <4>2. /\ pc' = "tag" /\ UNCHANGED <<frame, position, body, origin>>
              /\ tag' = {[value |-> v, type |-> Deserialize(v)]}
          BY <4>1 DEF ReadValue, bodyVars, Some
        <4>3. Deserialize(v) \in DigMessageType \cup {Unknown}
          BY DeserializeTyped
        <4>4. QED
          BY <1>2, <4>2, <4>3 DEF States
      <3>3. QED
        BY <2>3, <3>1, <3>2, Arriving
    <2>4. CASE UNCHANGED vars
      BY <1>2, <2>4 DEF vars, bodyVars
    <2>5. QED
      BY <2>1, <2>2, <2>3, <2>4 DEF Next
  <1>4. offset' \in Nat /\ dataLen' \in Nat /\ touched' \in Nat /\ id' \in 0 .. U16Max \cup {NoId}
    <2>1. ASSUME NEW m \in Nat, NEW n \in Nat, NEW e \in CheckedAdd(m, n) PROVE e \in Nat
      BY <2>1, Sum
    <2>2. U32At(frame, offset) \in Nat /\ U16At(frame, offset) \in 0 .. U16Max
      BY <1>2, U32OfSeq, U16OfSeq
    <2>3. CASE ReadHeader
      BY <1>2, <2>3 DEF ReadHeader, Refuse, decoderVars
    <2>4. CASE ReadId
      BY <1>2, <2>1, <2>2, <2>4 DEF ReadId, Refuse, decoderVars
    <2>5. CASE ReadLength
      BY <1>2, <2>1, <2>2, <2>5 DEF ReadLength, Refuse, decoderVars
    <2>6. CASE Drain
      BY <1>2, <2>1, <2>6 DEF Drain, Refuse, decoderVars
    <2>7. CASE Dispatch \/ ParseBody
      BY <1>2, <2>7, ApplicationStep DEF decoderVars
    <2>8. CASE Arrival
      <3>1. UNCHANGED decoderVars
        BY <2>8, Arriving DEF Arrives, ReadValue
      <3>2. QED
        BY <1>2, <3>1 DEF decoderVars
    <2>9. CASE UNCHANGED vars
      BY <1>2, <2>9 DEF vars, decoderVars
    <2>10. QED
      BY <2>3, <2>4, <2>5, <2>6, <2>7, <2>8, <2>9 DEF Next, Decode
  <1>5. message' \in SUBSET Envelope
    <2>1. message' = {} \/ (message' = {EnvelopeOf(frame')} /\ Accepts(frame'))
      BY <1>1, <1>3 DEF CursorInv, Decoded
    <2>2. Len(frame') <= UsizeMax
      BY <1>1 DEF CursorInv
    <2>3. Accepts(frame') => EnvelopeOf(frame') \in Envelope
      BY <1>3, <2>2, FromBytesIs
    <2>4. QED
      BY <2>1, <2>3
  <1>6. QED
    BY <1>3, <1>4, <1>5 DEF TypeOK, BodyType, Provenance

LEMMA Invariant == Spec => []Inv
  <1>1. Init => Inv
    BY CursorInit
  <1>2. Inv /\ [Next]_vars => Inv'
    BY TypePreserved, CursorPreserved, BodyPreserved, HistoryPreserved DEF Inv
  <1>3. QED
    BY <1>1, <1>2, PTL DEF Spec

-----------------------------------------------------------------------------
(* Theorems *)

\* Ids stay in a u16 and decoded fields in their types, for any frames.
THEOREM TypeCorrect == Spec => []TypeOK
  <1>1. Inv => TypeOK
    BY DEF Inv
  <1>2. QED
    BY <1>1, Invariant, PTL

\* The owning decoder and the body parser read nothing past what they hold,
\* however long the frame, whatever its length field says and wherever usize
\* ends (dig_message.rs:159-213).
THEOREM NeverPastTheEnd == Spec => []InBounds
  <1>1. Inv => InBounds
    BY DEF Inv, CursorInv, BodyInv, InBounds
  <1>2. QED
    BY <1>1, Invariant, PTL

\* from_bytes and from_bytes_owned accept the same frames and make the same
\* envelopes of them.
THEOREM DecodersAlike == Spec => []DecodersAgree
  <1>1. Inv => DecodersAgree
    <2> SUFFICES ASSUME Inv PROVE DecodersAgree
      OBVIOUS
    <2>1. frame \in Seq(Byte) /\ Len(frame) <= UsizeMax
      BY DEF Inv, TypeOK, CursorInv
    <2>2. /\ Accepts(frame) => FromBytes(frame) = {EnvelopeOf(frame)}
          /\ ~Accepts(frame) => FromBytes(frame) = None
      BY <2>1, FromBytesIs
    <2>3. QED
      BY <2>2 DEF Inv, CursorInv, DecodersAgree
  <1>2. QED
    BY <1>1, Invariant, PTL

LEMMA ReadingsTyped == ASSUME NEW f \in Seq(Byte) PROVE Readings(f) \subseteq Envelope
  <1> SUFFICES ASSUME NEW i \in {NoId, U16At(f, 2)}, NEW start \in {6, 8}, NEW end \in 5 .. Len(f)
               PROVE  [msgType |-> ByteAt(f, 0), id |-> i,
                       data |-> SubSeq(f, start + 1, end)] \in Envelope
    BY DEF Readings
  <1>1. Len(f) \in Nat
    BY LenProperties
  <1>2. ByteAt(f, 0) \in Byte /\ i \in 0 .. U16Max \cup {NoId}
    BY ByteOfSeq, U16OfSeq
  <1>3. SubSeq(f, start + 1, end) \in Seq(Byte)
    <2>1. \A k \in start + 1 .. end : k \in 1 .. Len(f)
      BY <1>1
    <2>2. \A k \in start + 1 .. end : f[k] \in Byte
      BY <2>1, ElementOfSeq
    <2>3. start + 1 \in Int /\ end \in Int
      BY <1>1
    <2>4. QED
      BY <2>2, <2>3, SubSeqProperties
  <1>4. QED
    BY <1>2, <1>3 DEF Envelope

\* What is decoded encodes to the frame it came from, and what is refused
\* encodes nothing within the cap: for every frame and every cap.
THEOREM DecodesWhatWasEncoded == Spec => []DecodesItsFrame
  <1>1. Inv => DecodesItsFrame
    <2> SUFFICES ASSUME Inv PROVE DecodesItsFrame
      OBVIOUS
    <2>1. frame \in Seq(Byte) /\ Len(frame) <= UsizeMax
      BY DEF Inv, TypeOK, CursorInv
    <2>2. ASSUME Decoded PROVE Encodes(frame, Msg) /\ Len(Data) <= MaxMessageSize
      <3>1. Accepts(frame)
        BY <2>2 DEF Inv, CursorInv
      <3>2. Msg = EnvelopeOf(frame)
        BY <2>2, MsgIs
      <3>3. Encodes(frame, EnvelopeOf(frame))
        BY <2>1, <3>1, Reencodes
      <3>4. Len(Data) = DataLenOf(frame)
        <4>1. /\ Start(frame) \in Nat /\ DataLenOf(frame) \in Nat
              /\ Start(frame) + DataLenOf(frame) <= Len(frame)
          BY <2>1, <3>1, FieldsTyped DEF Accepts
        <4>2. Data = SubSeq(frame, Start(frame) + 1, Start(frame) + DataLenOf(frame))
          BY <3>2 DEF Data, EnvelopeOf
        <4>3. QED
          BY <2>1, <4>1, <4>2, SliceTyped
      <3>5. QED
        BY <3>1, <3>2, <3>3, <3>4 DEF Accepts
    <2>3. ASSUME pc = "refused", NEW m \in Readings(frame), Len(m.data) <= MaxMessageSize
          PROVE  ~Encodes(frame, m)
      <3>1. ~Accepts(frame)
        BY <2>3 DEF Inv, CursorInv
      <3>2. m \in Envelope
        BY <2>1, ReadingsTyped
      <3>3. QED
        BY <2>1, <2>3, <3>1, <3>2, Recovers
    <2>4. QED
      BY <2>2, <2>3 DEF DecodesItsFrame
  <1>2. QED
    BY <1>1, Invariant, PTL

LEMMA EncodesItself == ASSUME NEW m \in Envelope PROVE Encodes(ToBytes(m), m)
  <1>1. PICK e : e = ToBytes(m)
    OBVIOUS
  <1>2. e \in Seq(Byte) /\ Len(e) \in Nat
    BY <1>1, Layout, LenProperties
  <1>3. e[2] \in {0, 1}
    <2>1. PICK a : a = HeaderBytes(m.id)
      OBVIOUS
    <2>2. Len(a) \in {1, 3} /\ \A k \in 1 .. Len(a) : e[1 + k] = a[k]
      BY <1>1, <2>1, Layout
    <2>3. e[1 + 1] = a[1]
      <3>1. 1 \in 1 .. Len(a)
        BY <2>2
      <3>2. QED
        BY <2>2, <3>1
    <2>4. m.id \in 0 .. U16Max \cup {NoId}
      BY DEF Envelope
    <2>5. a[1] \in {0, 1}
      <3>1. m.id = NoId => a = <<0>>
        BY <2>1, <2>4, HeaderTyped
      <3>2. m.id # NoId => a[1] = 1
        BY <2>1, <2>4, HeaderTyped
      <3>3. QED
        BY <3>1, <3>2
    <2>6. QED
      BY <2>3, <2>5
  <1>4. QED
    BY <1>1, <1>2, <1>3 DEF Encodes

LEMMA SentIsDecoded == ASSUME Inv PROVE RoundTrip
  <1> SUFFICES ASSUME NEW m \in origin.sent, Len(m.data) <= MaxMessageSize, pc \notin Decoding
               PROVE  message = {m}
    BY DEF RoundTrip
  <1>1. m \in Envelope /\ frame \in Seq(Byte) /\ frame = ToBytes(m)
    BY DEF Inv, TypeOK, HistoryInv
  <1>2. Encodes(frame, m)
    BY <1>1, EncodesItself
  <1>3. Accepts(frame) /\ EnvelopeOf(frame) = m
    BY <1>1, <1>2, Recovers
  <1>4. pc \notin {"idle", "tag"} /\ pc # "refused"
    BY <1>3 DEF Inv, HistoryInv, CursorInv
  <1>5. QED
    BY <1>3, <1>4 DEF Inv, CursorInv, Decoded

\* Every envelope within the cap, whatever its opcode, id and payload, arrives
\* as it was sent.
THEOREM SentArrives == Spec => []RoundTrip
  <1>1. Inv => RoundTrip
    BY SentIsDecoded
  <1>2. QED
    BY <1>1, Invariant, PTL

LEMMA TryFromIs ==
    \A b : /\ TryFrom(b) # Unknown <=> b \in 200 .. 219
           /\ TryFrom(b) # Unknown => Discriminant(TryFrom(b)) = b
  <1> SUFFICES ASSUME NEW b
               PROVE  /\ TryFrom(b) # Unknown <=> b \in 200 .. 219
                      /\ TryFrom(b) # Unknown => Discriminant(TryFrom(b)) = b
    OBVIOUS
  <1>1. CASE b \in 200 .. 219
    <2>1. PICK k \in 1 .. 20 : k = b - 199
      BY <1>1
    <2>2. TryFrom(b) = ALL[k] /\ b = 199 + k
      BY <1>1, <2>1 DEF TryFrom
    <2>3. ALL[k] # Unknown
      BY OpcodeTable
    <2>4. Discriminant(ALL[k]) = 199 + k
      BY DiscriminantOf
    <2>5. QED
      BY <1>1, <2>2, <2>3, <2>4
  <1>2. CASE b \notin 200 .. 219
    BY <1>2 DEF TryFrom
  <1>3. QED
    BY <1>1, <1>2

\* An integer of any width that is read as a DigMessageType is written back as
\* itself.
THEOREM TagsReadBack == Spec => []TagRoundTrip
  <1>1. Inv => TagRoundTrip
    <2> SUFFICES ASSUME Inv, NEW t \in tag, t.type # Unknown
                 PROVE  Discriminant(t.type) = t.value
      BY DEF TagRoundTrip
    <2>1. t.type = Deserialize(t.value)
      BY DEF Inv, HistoryInv
    <2>2. Narrowed(t.value) # -1 /\ t.type = TryFrom(Narrowed(t.value))
      BY <2>1 DEF Deserialize
    <2>3. Narrowed(t.value) = t.value
      BY <2>2 DEF Narrowed
    <2>4. QED
      BY <2>2, <2>3, TryFromIs
  <1>2. QED
    BY <1>1, Invariant, PTL

LEMMA SequenceOf ==
    ASSUME NEW S, NEW n \in Nat, NEW c \in [1 .. n -> S]
    PROVE  c \in Seq(S) /\ Len(c) = n
  <1>1. c \in Seq(S)
    BY SMT
  <1>2. Len(c) = n
    <2>1. Len(c) \in Nat /\ 1 .. Len(c) = 1 .. n
      BY <1>1, LenProperties
    <2>2. QED
      BY <2>1
  <1>3. QED
    BY <1>1, <1>2

\* The free opcodes follow the consensus ones.
LEMMA AssignedIs ==
    \A op : /\ IsAssigned(op) => op \in 200 .. 226
            /\ op \in 200 .. 219 => IsAssigned(op)
  <1>1. PICK c : c = [k \in 1 .. Len(ALL) |-> Discriminant(ALL[k])]
    OBVIOUS
  <1>2. PICK n \in Nat : n = 20
    OBVIOUS
  <1>3. \A k \in 1 .. n : Discriminant(ALL[k]) = 199 + k /\ Discriminant(ALL[k]) \in Byte
    BY <1>2, DiscriminantOf DEF Byte
  <1>4. c = [k \in 1 .. n |-> Discriminant(ALL[k])]
    BY <1>1, <1>2, OpcodeTable
  <1>5. c \in Seq(Byte) /\ Len(c) = n /\ \A k \in 1 .. n : c[k] = 199 + k
    <2>1. c \in [1 .. n -> Byte]
      BY <1>3, <1>4
    <2>2. QED
      BY <1>3, <1>4, <2>1, SequenceOf
  <1>6. PICK d : d = FreeOpcodes
    OBVIOUS
  <1>7. d \in Seq(Byte) /\ Len(d) = 7 /\ \A k \in 1 .. 7 : d[k] = 219 + k
    BY <1>6 DEF FreeOpcodes, Byte
  <1>8. PICK a : a = AllDigOpcodes
    OBVIOUS
  <1>9. /\ Len(a) = n + 7
        /\ \A k \in 1 .. n : a[k] = 199 + k
        /\ \A k \in 1 .. 7 : a[n + k] = 219 + k
    <2>1. a = c \o d
      BY <1>1, <1>6, <1>8 DEF AllDigOpcodes
    <2>2. /\ Len(c \o d) = Len(c) + Len(d)
          /\ \A k \in 1 .. Len(c) : (c \o d)[k] = c[k]
          /\ \A k \in 1 .. Len(d) : (c \o d)[Len(c) + k] = d[k]
      <3>1. c \in Seq(Byte) /\ d \in Seq(Byte)
        BY <1>5, <1>7
      <3>2. QED
        BY <3>1, Joined
    <2>3. QED
      BY <1>5, <1>7, <2>1, <2>2
  <1>10. ASSUME NEW op, IsAssigned(op) PROVE op \in 200 .. 226
    <2>1. PICK k \in 1 .. Len(a) : a[k] = op
      BY <1>8, <1>10 DEF IsAssigned
    <2>2. CASE k <= n
      BY <1>2, <1>9, <2>1, <2>2
    <2>3. CASE ~(k <= n)
      <3>1. k - n \in 1 .. 7 /\ n + (k - n) = k
        BY <1>2, <1>9, <2>3
      <3>2. op = 219 + (k - n)
        BY <1>9, <2>1, <3>1
      <3>3. QED
        BY <3>1, <3>2
    <2>4. QED
      BY <2>2, <2>3
  <1>11. ASSUME NEW op \in 200 .. 219 PROVE IsAssigned(op)
    <2>1. PICK k \in 1 .. n : 199 + k = op
      <3>1. op - 199 \in 1 .. n /\ 199 + (op - 199) = op
        BY <1>2
      <3>2. QED
        BY <3>1
    <2>2. k \in 1 .. Len(a) /\ a[k] = op
      BY <1>2, <1>9, <2>1
    <2>3. QED
      BY <1>8, <2>2 DEF IsAssigned
  <1>12. QED
    BY <1>10, <1>11

\* The tests of the band and the tables of opcodes agree on every byte.
THEOREM OneBand == Spec => []BandsAgree
  <1>1. Inv => BandsAgree
    <2> SUFFICES ASSUME Inv, Decoded PROVE BandsAgree
      BY DEF BandsAgree
    <2>1. PICK op : op = Msg.msgType
      OBVIOUS
    <2>2. op \in 0 .. 255
      BY <2>1, MsgIs DEF Envelope, Byte
    <2>3. IsDigOpcode(op) = IsDigExtension(op) /\ IsDigOpcode(op) = ~IsChiaStandard(op)
      BY <2>2 DEF IsDigOpcode, IsDigExtension, IsChiaStandard, DigBandStart
    <2>4. IsAssigned(op) => IsDigOpcode(op)
      BY AssignedIs DEF IsDigOpcode, DigBandStart
    <2>5. MaxAssigned = 219
      BY IntroducerOpcodes DEF MaxAssigned
    <2>6. TryFrom(op) # Unknown => Discriminant(TryFrom(op)) = op /\ op <= MaxAssigned
      BY <2>2, <2>5, TryFromIs
    <2>7. pc \in Parsing => TryFrom(op) \in {"RegisterPeer", "RegisterAck"}
      <3>1. pc \in Parsing => op = 218 \/ op = 219
        BY <2>1, IntroducerOpcodes DEF Inv, BodyInv, NamesBody, Parsing
      <3>2. TryFrom(218) = "RegisterPeer" /\ TryFrom(219) = "RegisterAck"
        BY OpcodeTable DEF TryFrom
      <3>3. QED
        BY <3>1, <3>2
    <2>8. (TryFrom(op) # Unknown) = (IsAssigned(op) /\ op < FreeBandStart)
      <3>1. IsAssigned(op) => op \in 200 .. 226
        BY AssignedIs
      <3>2. op \in 200 .. 219 => IsAssigned(op)
        BY AssignedIs
      <3>3. QED
        BY <2>2, <3>1, <3>2, TryFromIs DEF FreeBandStart
    <2>9. QED
      BY <2>1, <2>3, <2>4, <2>6, <2>7, <2>8 DEF BandsAgree
  <1>2. QED
    BY <1>1, Invariant, PTL

LEMMA ParseIs ==
    ASSUME NEW b \in Seq(Byte), Len(b) <= UsizeMax
    PROVE  Parse(b, LengthOffset(b)) =
               IF Start(b) + DataLenOf(b) <= Len(b)
               THEN {[data |-> SubSeq(b, Start(b) + 1, Start(b) + DataLenOf(b)),
                      position |-> Start(b) + DataLenOf(b)]}
               ELSE {}
  <1>1. /\ Len(b) \in Nat /\ LengthOffset(b) \in {2, 4} /\ Start(b) \in Nat
        /\ DataLenOf(b) \in Nat /\ UsizeMax \in Nat
        /\ LengthOffset(b) + 4 = Start(b) /\ LengthOffset(b) + 5 = Start(b) + 1
    BY FieldsTyped, SizeAssumption DEF Start
  <1>2. PICK z \in Nat : z = Start(b) + DataLenOf(b)
    BY <1>1
  <1>3. /\ z <= UsizeMax => CheckedAdd(Start(b), DataLenOf(b)) = {z}
        /\ ~(z <= UsizeMax) => CheckedAdd(Start(b), DataLenOf(b)) = {}
    BY <1>1, <1>2, Sum
  <1>4. {e \in CheckedAdd(Start(b), DataLenOf(b)) : Covers(b, e)}
           = IF z <= Len(b) THEN {z} ELSE {}
    BY <1>1, <1>2, <1>3 DEF Covers
  <1>5. Parse(b, LengthOffset(b)) =
           IF ~(Len(b) >= Start(b)) THEN {}
           ELSE {[data |-> SubSeq(b, Start(b) + 1, end), position |-> end] :
                    end \in {e \in CheckedAdd(Start(b), DataLenOf(b)) : Covers(b, e)}}
    <2>1. Covers(b, LengthOffset(b) + 4) = (Len(b) >= Start(b))
      BY <1>1 DEF Covers
    <2>2. QED
      BY <1>1, <2>1 DEF Parse, None, DataLenOf
  <1>6. CASE z <= Len(b)
    <2>1. Len(b) >= Start(b)
      BY <1>1, <1>2, <1>6
    <2>2. QED
      BY <1>2, <1>4, <1>5, <1>6, <2>1
  <1>7. CASE ~(z <= Len(b))
    BY <1>2, <1>4, <1>5, <1>7
  <1>8. QED
    BY <1>6, <1>7

\* The payload of a frame is framed as Bytes streams and parses itself.
THEOREM PayloadIsBytes == Spec => []FramedAsBytes
  <1>1. Inv => FramedAsBytes
    <2> SUFFICES ASSUME Inv PROVE FramedAsBytes
      OBVIOUS
    <2>1. frame \in Seq(Byte) /\ Len(frame) <= UsizeMax
      BY DEF Inv, TypeOK, CursorInv
    <2>2. /\ Len(frame) \in Nat /\ Start(frame) \in Nat /\ DataLenOf(frame) \in Nat
          /\ Start(frame) = LengthOffset(frame) + 4 /\ LengthOffset(frame) \in Nat
      BY <2>1, FieldsTyped DEF Start
    <2>3. PICK d : d = SubSeq(frame, Start(frame) + 1, Start(frame) + DataLenOf(frame))
      OBVIOUS
    <2>4. Start(frame) + DataLenOf(frame) <= Len(frame) =>
              /\ d \in Seq(Byte) /\ Len(d) = DataLenOf(frame)
              /\ \A k \in 1 .. Len(d) : d[k] = frame[Start(frame) + k]
      <3>1. PICK i \in Nat, n \in Nat : i = Start(frame) /\ n = DataLenOf(frame)
        BY <2>2
      <3>2. i + n <= Len(frame) =>
                /\ SubSeq(frame, i + 1, i + n) \in Seq(Byte)
                /\ Len(SubSeq(frame, i + 1, i + n)) = n
                /\ \A k \in 1 .. n : SubSeq(frame, i + 1, i + n)[k] = frame[i + k]
        BY <2>1, SliceTyped
      <3>3. d = SubSeq(frame, i + 1, i + n)
        BY <2>3, <3>1
      <3>4. QED
        BY <3>1, <3>2, <3>3
    <2>5. EnvelopeOf(frame).data = d
      BY <2>3 DEF EnvelopeOf
    <2>6. ASSUME Decoded \/ (pc = "refused" /\ Len(frame) >= 2)
          PROVE  {p.data : p \in {q \in Parse(frame, LengthOffset(frame)) :
                                     Len(q.data) <= MaxMessageSize}}
                    = {m.data : m \in message}
      <3>1. PICK z : z = Start(frame) + DataLenOf(frame)
        OBVIOUS
      <3>2. Parse(frame, LengthOffset(frame)) =
                IF z <= Len(frame) THEN {[data |-> d, position |-> z]} ELSE {}
        BY <2>1, <2>3, <3>1, ParseIs
      <3>3. CASE Decoded
        <4>1. Accepts(frame) /\ message = {EnvelopeOf(frame)}
          BY <3>3 DEF Inv, CursorInv
        <4>2. z <= Len(frame) /\ Len(d) <= MaxMessageSize
          BY <2>4, <3>1, <4>1 DEF Accepts
        <4>3. PICK r : r = [data |-> d, position |-> z]
          OBVIOUS
        <4>4. r.data = d /\ Parse(frame, LengthOffset(frame)) = {r}
          BY <3>2, <4>2, <4>3
        <4>5. {q \in Parse(frame, LengthOffset(frame)) : Len(q.data) <= MaxMessageSize} = {r}
          BY <4>2, <4>4
        <4>6. {p.data : p \in {r}} = {d}
          BY <4>4
        <4>7. {m.data : m \in message} = {d}
          BY <2>5, <4>1
        <4>8. QED
          BY <4>5, <4>6, <4>7
      <3>4. CASE ~Decoded
        <4>1. ~Accepts(frame) /\ message = {} /\ Len(frame) >= 2
          BY <2>6, <3>4 DEF Inv, CursorInv
        <4>2. z <= Len(frame) => ~(Len(d) <= MaxMessageSize)
          BY <2>4, <3>1, <4>1 DEF Accepts
        <4>3. \A q \in Parse(frame, LengthOffset(frame)) : ~(Len(q.data) <= MaxMessageSize)
          BY <3>2, <4>2
        <4>4. QED
          BY <4>1, <4>3
      <3>5. QED
        BY <3>3, <3>4
    <2>7. ASSUME Decoded, NEW s \in Stream(Data)
          PROVE  s = SubSeq(frame, LengthOffset(frame) + 1, LengthOffset(frame) + Len(s))
      <3>1. Accepts(frame) /\ Data = d
        BY <2>5, <2>7, MsgIs DEF Inv, CursorInv, Data
      <3>2. /\ d \in Seq(Byte) /\ Len(d) = DataLenOf(frame)
            /\ \A k \in 1 .. Len(d) : d[k] = frame[Start(frame) + k]
            /\ Len(frame) >= Start(frame) + Len(d) /\ Len(frame) >= Start(frame)
        BY <2>2, <2>4, <3>1 DEF Accepts
      <3>3. PICK u : u = U32Bytes(Len(d))
        OBVIOUS
      <3>4. s = u \o d
        BY <2>7, <3>1, <3>3 DEF Stream, None, Some
      <3>5. u \in Seq(Byte) /\ Len(u) = 4
        BY <2>2, <3>2, <3>3, U32BytesTyped, SMT
      <3>6. \A k \in 1 .. 4 : u[k] = frame[LengthOffset(frame) + k]
        BY <2>1, <3>2, <3>3, LengthBytesOf
      <3>7. /\ s \in Seq(Byte) /\ Len(s) = 4 + Len(d)
            /\ \A k \in 1 .. Len(u) : s[k] = u[k]
            /\ \A k \in 1 .. Len(d) : s[Len(u) + k] = d[k]
        <4>1. u \in Seq(Byte) /\ d \in Seq(Byte)
          BY <3>2, <3>5
        <4>2. /\ u \o d \in Seq(Byte) /\ Len(u \o d) = Len(u) + Len(d)
              /\ \A k \in 1 .. Len(u) : (u \o d)[k] = u[k]
              /\ \A k \in 1 .. Len(d) : (u \o d)[Len(u) + k] = d[k]
          BY <4>1, Joined
        <4>3. QED
          BY <3>4, <3>5, <4>2
      <3>8. /\ SubSeq(frame, LengthOffset(frame) + 1, LengthOffset(frame) + Len(s)) \in Seq(Byte)
            /\ Len(SubSeq(frame, LengthOffset(frame) + 1, LengthOffset(frame) + Len(s))) = Len(s)
            /\ \A k \in 1 .. Len(s) :
                  SubSeq(frame, LengthOffset(frame) + 1, LengthOffset(frame) + Len(s))[k]
                     = frame[LengthOffset(frame) + k]
        <4>1. Len(s) \in Nat /\ LengthOffset(frame) + Len(s) <= Len(frame)
          BY <2>2, <3>2, <3>7
        <4>2. QED
          BY <2>1, <2>2, <4>1, SliceTyped
      <3>9. ASSUME NEW k \in 1 .. Len(s) PROVE s[k] = frame[LengthOffset(frame) + k]
        <4>1. CASE k \in 1 .. 4
          BY <3>5, <3>6, <3>7, <4>1
        <4>2. CASE k \notin 1 .. 4
          <5>1. /\ k - 4 \in 1 .. Len(d) /\ 4 + (k - 4) = k
                /\ Start(frame) + (k - 4) = LengthOffset(frame) + k
            <6>1. k \in Int /\ k >= 1 /\ k <= 4 + Len(d) /\ Len(d) \in Nat
              BY <2>2, <3>2, <3>7
            <6>2. k > 4
              BY <4>2, <6>1
            <6>3. QED
              BY <2>2, <6>1, <6>2
          <5>2. s[4 + (k - 4)] = d[k - 4]
            BY <3>5, <3>7, <5>1
          <5>3. d[k - 4] = frame[Start(frame) + (k - 4)]
            BY <3>2, <5>1
          <5>4. QED
            BY <5>1, <5>2, <5>3
        <4>3. QED
          BY <4>1, <4>2
      <3>10. QED
        BY <3>7, <3>8, <3>9, SeqEqual
    <2>8. QED
      BY <2>6, <2>7 DEF FramedAsBytes
  <1>2. QED
    BY <1>1, Invariant, PTL
=============================================================================
