------------------------- MODULE RegistrationProofs -------------------------
(***************************************************************************)
(* Proofs about the introducer's bodies in Wire: what the parser has read  *)
(* of a body at each of its steps, and that this is what the sender wrote, *)
(* for every string, port and role, every cap and whatever is UTF-8.       *)
(***************************************************************************)
EXTENDS WireProofs

-----------------------------------------------------------------------------
(* Fields and the bytes they are read from *)

LEMMA ByteIs ==
    ASSUME NEW b \in Seq(Byte), NEW i \in Nat, i + 1 <= Len(b)
    PROVE  ByteAt(b, i) = b[i + 1]
  <1>1. i < Len(b)
    BY LenProperties
  <1>2. QED
    BY <1>1 DEF ByteAt

\* The two bytes an integer was read from are those it is written as.
LEMMA U16Reread ==
    ASSUME NEW b \in Seq(Byte), NEW i \in Nat, i + 2 <= Len(b), NEW n, n = U16At(b, i)
    PROVE  U16Bytes(n) = <<b[i + 1], b[i + 2]>>
  <1>1. PICK p, q : p = ByteAt(b, i) /\ q = ByteAt(b, i + 1)
    OBVIOUS
  <1>2. p \in Byte /\ q \in Byte
    BY <1>1, ByteOfSeq
  <1>3. p = b[i + 1] /\ q = b[i + 2]
    <2>1. Len(b) \in Nat
      BY LenProperties
    <2>2. i + 1 \in Nat /\ (i + 1) + 1 = i + 2 /\ i + 1 <= Len(b)
      BY <2>1
    <2>3. ByteAt(b, i) = b[i + 1]
      BY <2>2, ByteIs
    <2>4. ByteAt(b, i + 1) = b[(i + 1) + 1]
      BY <2>2, ByteIs
    <2>5. QED
      BY <1>1, <2>2, <2>3, <2>4
  <1>4. n = 256 * p + q
    BY <1>1 DEF U16At
  <1>5. n \div 256 = p /\ n % 256 = q
    BY <1>2, <1>4, U16Parts
  <1>6. QED
    BY <1>3, <1>5 DEF U16Bytes

\* An integer that is written as two bytes is read from them.
LEMMA U16Rewritten ==
    ASSUME NEW b \in Seq(Byte), NEW i \in Nat, i + 2 <= Len(b), NEW n \in 0 .. U16Max,
           b[i + 1] = U16Bytes(n)[1], b[i + 2] = U16Bytes(n)[2]
    PROVE  U16At(b, i) = n
  <1>1. ByteAt(b, i) = b[i + 1] /\ ByteAt(b, i + 1) = b[i + 2]
    <2>1. Len(b) \in Nat
      BY LenProperties
    <2>2. i + 1 \in Nat /\ (i + 1) + 1 = i + 2 /\ i + 1 <= Len(b)
      BY <2>1
    <2>3. ByteAt(b, i) = b[i + 1]
      BY <2>2, ByteIs
    <2>4. ByteAt(b, i + 1) = b[(i + 1) + 1]
      BY <2>2, ByteIs
    <2>5. QED
      BY <2>2, <2>3, <2>4
  <1>2. 256 * U16Bytes(n)[1] + U16Bytes(n)[2] = n
    BY U16BytesTyped
  <1>3. QED
    BY <1>1, <1>2 DEF U16At

\* The same of a length prefix, of four bytes.
LEMMA FourBytes ==
    ASSUME NEW b \in Seq(Byte), NEW i \in Nat, i + 4 <= Len(b)
    PROVE  /\ ByteAt(b, i) = b[i + 1] /\ ByteAt(b, i + 1) = b[i + 2]
           /\ ByteAt(b, i + 2) = b[i + 3] /\ ByteAt(b, i + 3) = b[i + 4]
  <1>1. Len(b) \in Nat
    BY LenProperties
  <1>2. \A j \in 0 .. 3 : i + j \in Nat /\ (i + j) + 1 <= Len(b)
    BY <1>1
  <1>3. \A j \in 0 .. 3 : ByteAt(b, i + j) = b[(i + j) + 1]
    BY <1>2, ByteIs
  <1>4. /\ ByteAt(b, i + 0) = b[(i + 0) + 1] /\ ByteAt(b, i + 1) = b[(i + 1) + 1]
        /\ ByteAt(b, i + 2) = b[(i + 2) + 1] /\ ByteAt(b, i + 3) = b[(i + 3) + 1]
    BY <1>3
  <1>5. /\ i + 0 = i /\ (i + 0) + 1 = i + 1 /\ (i + 1) + 1 = i + 2
        /\ (i + 2) + 1 = i + 3 /\ (i + 3) + 1 = i + 4
    OBVIOUS
  <1>6. QED
    BY <1>4, <1>5

LEMMA U32Reread ==
    ASSUME NEW b \in Seq(Byte), NEW i \in Nat, i + 4 <= Len(b), NEW n, n = U32At(b, i)
    PROVE  U32Bytes(n) = <<b[i + 1], b[i + 2], b[i + 3], b[i + 4]>>
  <1>1. PICK p \in Byte, q \in Byte, r \in Byte, s \in Byte :
            /\ p = ByteAt(b, i) /\ q = ByteAt(b, i + 1)
            /\ r = ByteAt(b, i + 2) /\ s = ByteAt(b, i + 3)
    <2>1. /\ ByteAt(b, i) \in Byte /\ ByteAt(b, i + 1) \in Byte
          /\ ByteAt(b, i + 2) \in Byte /\ ByteAt(b, i + 3) \in Byte
      BY ByteOfSeq
    <2>2. QED
      BY <2>1
  <1>3. p = b[i + 1] /\ q = b[i + 2] /\ r = b[i + 3] /\ s = b[i + 4]
    BY <1>1, FourBytes
  <1>4. n = 16777216 * p + 65536 * q + 256 * r + s
    BY <1>1, SMT DEF U32At
  <1>5. U32Bytes(n) = <<p, q, r, s>>
    BY <1>4, U32BytesOfParts, SMTT(30)
  <1>6. QED
    BY <1>3, <1>5

FitsU32(n) == n \div 16777216 < 256

LEMMA U32Rewritten ==
    ASSUME NEW b \in Seq(Byte), NEW i \in Nat, i + 4 <= Len(b),
           NEW n \in Nat, FitsU32(n),
           \A k \in 1 .. 4 : b[i + k] = U32Bytes(n)[k]
    PROVE  U32At(b, i) = n
  <1>1. /\ ByteAt(b, i) = b[i + 1] /\ ByteAt(b, i + 1) = b[i + 2]
        /\ ByteAt(b, i + 2) = b[i + 3] /\ ByteAt(b, i + 3) = b[i + 4]
    BY FourBytes
  <1>2. /\ b[i + 1] = U32Bytes(n)[1] /\ b[i + 2] = U32Bytes(n)[2]
        /\ b[i + 3] = U32Bytes(n)[3] /\ b[i + 4] = U32Bytes(n)[4]
    OBVIOUS
  <1>3. 16777216 * U32Bytes(n)[1] + 65536 * U32Bytes(n)[2]
           + 256 * U32Bytes(n)[3] + U32Bytes(n)[4] = n
    BY U32BytesTyped, SMT DEF FitsU32
  <1>4. QED
    BY <1>1, <1>2, <1>3, SMT DEF U32At

\* What follows a length prefix at the start of a body.
LEMMA AfterPrefix ==
    ASSUME NEW d \in Seq(Byte), NEW n \in Nat, 4 + n <= Len(d), NEW s, s = SubSeq(d, 5, 4 + n)
    PROVE  s \in Seq(Byte) /\ Len(s) = n /\ \A k \in 1 .. n : s[k] = d[4 + k]
  <1>1. PICK i \in Nat : i = 4
    OBVIOUS
  <1>2. i + n <= Len(d) /\ i + 1 = 5 /\ i + n = 4 + n
    BY <1>1
  <1>3. PICK t : t = SubSeq(d, i + 1, i + n)
    OBVIOUS
  <1>4. t \in Seq(Byte) /\ Len(t) = n /\ \A k \in 1 .. n : t[k] = d[i + k]
    BY <1>2, <1>3, SliceTyped
  <1>5. t = s
    BY <1>2, <1>3
  <1>6. QED
    BY <1>1, <1>4, <1>5

-----------------------------------------------------------------------------
(* The layout of a registration's body *)

LEMMA BodyLayout ==
    ASSUME NEW r, r.ip \in Seq(Byte), r.port \in 0 .. U16Max, r.nodeType \in NodeType
    PROVE  LET e == EncodeRegisterPeer(r)
               n == Len(r.ip)
           IN  /\ n \in Nat /\ e \in Seq(Byte) /\ Len(e) = n + 7
               /\ \A k \in 1 .. 4 : e[k] = U32Bytes(n)[k]
               /\ \A k \in 1 .. n : e[4 + k] = r.ip[k]
               /\ e[n + 5] = U16Bytes(r.port)[1] /\ e[n + 6] = U16Bytes(r.port)[2]
               /\ e[n + 7] = ToByte(r.nodeType)
  <1>1. PICK a, c, d, t : /\ a = U32Bytes(Len(r.ip)) /\ c = r.ip
                          /\ d = U16Bytes(r.port) /\ t = <<ToByte(r.nodeType)>>
    OBVIOUS
  <1>2. PICK n \in Nat : n = Len(c)
    BY <1>1, LenProperties
  <1>3. a \in Seq(Byte) /\ Len(a) = 4 /\ c \in Seq(Byte)
    BY <1>1, <1>2, U32BytesTyped, SMT
  <1>4. d \in Seq(Byte) /\ Len(d) = 2
    BY <1>1, U16BytesTyped
  <1>5. t \in Seq(Byte) /\ Len(t) = 1 /\ t[1] = ToByte(r.nodeType)
    <2>1. ToByte(r.nodeType) \in Byte
      BY RoleBytes
    <2>2. QED
      BY <1>1, <2>1
  <1>6. PICK ac : ac = a \o c
    OBVIOUS
  <1>7. PICK acd : acd = ac \o d
    OBVIOUS
  <1>8. PICK e : e = acd \o t
    OBVIOUS
  <1>9. /\ ac \in Seq(Byte) /\ Len(ac) = Len(a) + Len(c)
        /\ \A k \in 1 .. Len(a) : ac[k] = a[k]
        /\ \A k \in 1 .. Len(c) : ac[Len(a) + k] = c[k]
    BY <1>3, <1>6, Joined
  <1>10. /\ acd \in Seq(Byte) /\ Len(acd) = Len(ac) + Len(d)
         /\ \A k \in 1 .. Len(ac) : acd[k] = ac[k]
         /\ \A k \in 1 .. Len(d) : acd[Len(ac) + k] = d[k]
    BY <1>4, <1>7, <1>9, Joined
  <1>11. /\ e \in Seq(Byte) /\ Len(e) = Len(acd) + Len(t)
         /\ \A k \in 1 .. Len(acd) : e[k] = acd[k]
         /\ \A k \in 1 .. Len(t) : e[Len(acd) + k] = t[k]
    BY <1>5, <1>8, <1>10, Joined
  <1>12. Len(ac) = n + 4 /\ Len(acd) = n + 6 /\ Len(e) = n + 7
    BY <1>2, <1>3, <1>4, <1>5, <1>9, <1>10, <1>11
  <1>13. ASSUME NEW k \in 1 .. 4 PROVE e[k] = a[k]
    <2>1. k \in 1 .. Len(a) /\ k \in 1 .. Len(ac) /\ k \in 1 .. Len(acd)
      BY <1>2, <1>3, <1>12
    <2>2. QED
      BY <1>9, <1>10, <1>11, <2>1
  <1>14. ASSUME NEW k \in 1 .. n PROVE e[4 + k] = c[k]
    <2>1. k \in 1 .. Len(c) /\ 4 + k \in 1 .. Len(ac) /\ 4 + k \in 1 .. Len(acd)
      BY <1>2, <1>12
    <2>2. e[4 + k] = ac[4 + k]
      BY <1>10, <1>11, <2>1
    <2>3. ac[4 + k] = c[k]
      BY <1>3, <1>9, <2>1
    <2>4. QED
      BY <2>2, <2>3
  <1>15. ASSUME NEW k \in 1 .. 2 PROVE e[(n + 4) + k] = d[k]
    <2>1. k \in 1 .. Len(d) /\ (n + 4) + k \in 1 .. Len(acd)
      BY <1>4, <1>12
    <2>2. e[(n + 4) + k] = acd[(n + 4) + k]
      BY <1>11, <2>1
    <2>3. acd[(n + 4) + k] = d[k]
      BY <1>10, <1>12, <2>1
    <2>4. QED
      BY <2>2, <2>3
  <1>16. e[(n + 6) + 1] = t[1]
    <2>1. 1 \in 1 .. Len(t)
      BY <1>5
    <2>2. QED
      BY <1>11, <1>12, <2>1
  <1>17. e[n + 5] = d[1] /\ e[n + 6] = d[2] /\ e[n + 7] = t[1]
    <2>1. (n + 4) + 1 = n + 5 /\ (n + 4) + 2 = n + 6 /\ (n + 6) + 1 = n + 7
      OBVIOUS
    <2>2. e[(n + 4) + 1] = d[1] /\ e[(n + 4) + 2] = d[2]
      BY <1>15
    <2>3. QED
      BY <1>16, <2>1, <2>2
  <1>18. e = EncodeRegisterPeer(r)
    BY <1>1, <1>6, <1>7, <1>8 DEF EncodeRegisterPeer
  <1>19. QED
    BY <1>1, <1>2, <1>5, <1>11, <1>12, <1>13, <1>14, <1>17, <1>18

\* The parser's four readings of a body of a registration within the cap.
LEMMA FieldsOf ==
    ASSUME NEW r \in RegisterPeer, NEW d, d = EncodeRegisterPeer(r), Len(d) <= MaxMessageSize
    PROVE  LET n == Len(r.ip)
           IN  /\ n \in Nat /\ d \in Seq(Byte) /\ Len(d) = n + 7
               /\ U32At(d, 0) = n
               /\ SubSeq(d, 5, 4 + n) = r.ip
               /\ U16At(d, 4 + n) = r.port
               /\ ByteAt(d, 6 + n) = ToByte(r.nodeType)
  <1>1. PICK n : n = Len(r.ip)
    OBVIOUS
  <1>2. r.ip \in Seq(Byte) /\ r.port \in 0 .. U16Max /\ r.nodeType \in NodeType
    BY DEF RegisterPeer
  <1>3. /\ n \in Nat /\ d \in Seq(Byte) /\ Len(d) = n + 7
        /\ \A k \in 1 .. 4 : d[k] = U32Bytes(n)[k]
        /\ \A k \in 1 .. n : d[4 + k] = r.ip[k]
        /\ d[n + 5] = U16Bytes(r.port)[1] /\ d[n + 6] = U16Bytes(r.port)[2]
        /\ d[n + 7] = ToByte(r.nodeType)
    BY <1>1, <1>2, BodyLayout
  <1>4. U32At(d, 0) = n
    <2>1. n <= MaxMessageSize
      BY <1>3, SizeAssumption, SMT
    <2>2. FitsU32(n)
      BY <1>3, <2>1, CapFits, SMT DEF FitsU32
    <2>3. PICK i \in Nat : i = 0
      OBVIOUS
    <2>4. i + 4 <= Len(d) /\ \A k \in 1 .. 4 : d[i + k] = U32Bytes(n)[k]
      BY <1>3, <2>3
    <2>5. U32At(d, i) = n
      BY <1>3, <2>2, <2>4, U32Rewritten
    <2>6. QED
      BY <2>3, <2>5
  <1>5. SubSeq(d, 5, 4 + n) = r.ip
    <2>1. 4 + n <= Len(d)
      BY <1>3
    <2>2. PICK s : s = SubSeq(d, 5, 4 + n)
      OBVIOUS
    <2>3. s \in Seq(Byte) /\ Len(s) = n /\ \A k \in 1 .. n : s[k] = d[4 + k]
      BY <1>3, <2>1, <2>2, AfterPrefix
    <2>4. s = r.ip
      BY <1>1, <1>2, <1>3, <2>3, SeqEqual
    <2>5. QED
      BY <2>2, <2>4
  <1>6. U16At(d, 4 + n) = r.port
    <2>1. /\ 4 + n \in Nat /\ (4 + n) + 2 <= Len(d)
          /\ (4 + n) + 1 = n + 5 /\ (4 + n) + 2 = n + 6
      BY <1>3
    <2>2. d[(4 + n) + 1] = U16Bytes(r.port)[1] /\ d[(4 + n) + 2] = U16Bytes(r.port)[2]
      BY <1>3, <2>1
    <2>3. QED
      BY <1>2, <1>3, <2>1, <2>2, U16Rewritten
  <1>7. ByteAt(d, 6 + n) = ToByte(r.nodeType)
    <2>1. 6 + n \in Nat /\ (6 + n) + 1 <= Len(d) /\ (6 + n) + 1 = n + 7
      BY <1>3
    <2>2. ByteAt(d, 6 + n) = d[(6 + n) + 1]
      BY <1>3, <2>1, ByteIs
    <2>3. QED
      BY <1>3, <2>1, <2>2
  <1>8. QED
    BY <1>1, <1>3, <1>4, <1>5, <1>6, <1>7

\* A body is determined by what was read of it.
LEMMA Rebuilt ==
    ASSUME NEW d \in Seq(Byte), NEW r, NEW n, n = Len(r.ip), Len(d) = n + 7,
           n = U32At(d, 0), r.ip = SubSeq(d, 5, 4 + n),
           r.port = U16At(d, 4 + n),
           r.nodeType \in NodeType, ByteAt(d, 6 + n) = ToByte(r.nodeType)
    PROVE  d = EncodeRegisterPeer(r)
  <1>1. n \in Nat
    BY U32OfSeq
  <1>2. r.ip \in Seq(Byte) /\ \A k \in 1 .. n : r.ip[k] = d[4 + k]
    <2>1. 4 + n <= Len(d)
      BY <1>1
    <2>2. QED
      BY <1>1, <2>1, AfterPrefix
  <1>3. r.port \in 0 .. U16Max
    BY <1>1, U16OfSeq
  <1>4. PICK e : e = EncodeRegisterPeer(r)
    OBVIOUS
  <1>5. /\ e \in Seq(Byte) /\ Len(e) = n + 7
        /\ \A k \in 1 .. 4 : e[k] = U32Bytes(n)[k]
        /\ \A k \in 1 .. n : e[4 + k] = r.ip[k]
        /\ e[n + 5] = U16Bytes(r.port)[1] /\ e[n + 6] = U16Bytes(r.port)[2]
        /\ e[n + 7] = ToByte(r.nodeType)
    BY <1>2, <1>3, <1>4, BodyLayout
  <1>6. \A k \in 1 .. 4 : e[k] = d[k]
    <2>1. 0 + 4 <= Len(d)
      BY <1>1
    <2>2. U32Bytes(n) = <<d[0 + 1], d[0 + 2], d[0 + 3], d[0 + 4]>>
      BY <2>1, U32Reread
    <2>3. \A k \in 1 .. 4 : <<d[0 + 1], d[0 + 2], d[0 + 3], d[0 + 4]>>[k] = d[k]
      OBVIOUS
    <2>4. QED
      BY <1>5, <2>2, <2>3
  <1>7. e[n + 5] = d[n + 5] /\ e[n + 6] = d[n + 6]
    <2>1. /\ 4 + n \in Nat /\ (4 + n) + 2 <= Len(d)
          /\ (4 + n) + 1 = n + 5 /\ (4 + n) + 2 = n + 6
      BY <1>1
    <2>2. U16Bytes(r.port) = <<d[(4 + n) + 1], d[(4 + n) + 2]>>
      BY <2>1, U16Reread
    <2>3. QED
      BY <1>5, <2>1, <2>2
  <1>8. e[n + 7] = d[n + 7]
    <2>1. 6 + n \in Nat /\ (6 + n) + 1 <= Len(d) /\ (6 + n) + 1 = n + 7
      BY <1>1
    <2>2. ByteAt(d, 6 + n) = d[(6 + n) + 1]
      BY <2>1, ByteIs
    <2>3. QED
      BY <1>5, <2>1, <2>2
  <1>9. ASSUME NEW k \in 1 .. n + 7 PROVE e[k] = d[k]
    <2>1. CASE k \in 1 .. 4
      BY <1>6, <2>1
    <2>2. CASE k \in 5 .. n + 4
      <3>1. k - 4 \in 1 .. n /\ 4 + (k - 4) = k
        BY <1>1, <2>2
      <3>2. e[4 + (k - 4)] = r.ip[k - 4] /\ r.ip[k - 4] = d[4 + (k - 4)]
        BY <1>2, <1>5, <3>1
      <3>3. QED
        BY <3>1, <3>2
    <2>3. CASE k \in {n + 5, n + 6, n + 7}
      BY <1>7, <1>8, <2>3
    <2>4. QED
      BY <1>1, <2>1, <2>2, <2>3
  <1>10. QED
    BY <1>4, <1>5, <1>9, SeqEqual
-----------------------------------------------------------------------------
(* The parser's progress *)

IpRead ==
    /\ Len(body.ip) = U32At(Data, 0)
    /\ Len(body.ip) + 4 <= Len(Data)
    /\ body.ip = SubSeq(Data, 5, 4 + Len(body.ip))

PortRead == IpRead /\ body.port = U16At(Data, 4 + Len(body.ip))

PeerRead ==
    /\ PortRead
    /\ body.nodeType \in NodeType
    /\ ByteAt(Data, 6 + Len(body.ip)) = ToByte(body.nodeType)
    /\ position = Len(body.ip) + 7

AckRead == Len(Data) >= 1 /\ Data[1] = body.success /\ position = 1

\* What has been read of the body at each step, and where the cursor is.
ProgressInv ==
    /\ pc \in {"ip", "success"} => position = 0
    /\ pc = "port" => IpRead /\ position = Len(body.ip) + 4
    /\ pc = "nodeType" => PortRead /\ position = Len(body.ip) + 6
    /\ pc \in {"end", "parsed"} =>
           (NamesBody("RegisterPeer") /\ PeerRead) \/ (NamesBody("RegisterAck") /\ AckRead)
    /\ pc = "parsed" => position = Len(Data)

WithinCap(r) == Len(EncodeRegisterPeer(r)) <= MaxMessageSize

\* The message a registration travels in; one within the cap is never refused.
SentInv ==
    /\ \A r \in origin.registration :
           r.ip \in Strings /\ \E i : origin.sent = {RegisterPeerMessage(r, i)}
    /\ pc \in {"opaque", "badBody"} => \A r \in origin.registration : ~WithinCap(r)

RegistrationInv == Inv /\ ProgressInv /\ SentInv

LEMMA Opcodes218 ==
    /\ Discriminant("RegisterPeer") = 218 /\ Discriminant("RegisterAck") = 219
    /\ ~(NamesBody("RegisterPeer") /\ NamesBody("RegisterAck"))
  <1>1. Discriminant("RegisterPeer") = 218 /\ Discriminant("RegisterAck") = 219
    BY IntroducerOpcodes
  <1>2. QED
    BY <1>1 DEF NamesBody

\* The body in which a registration within the cap arrives.
LEMMA Delivered ==
    ASSUME Inv, SentInv, Decoded, NEW r \in origin.registration, WithinCap(r)
    PROVE  /\ r \in RegisterPeer /\ r.ip \in Strings
           /\ Data = EncodeRegisterPeer(r) /\ Len(Data) <= MaxMessageSize
           /\ NamesBody("RegisterPeer") /\ ~NamesBody("RegisterAck")
  <1>1. PICK i : r.ip \in Strings /\ origin.sent = {RegisterPeerMessage(r, i)}
    BY DEF SentInv
  <1>2. PICK m : m = RegisterPeerMessage(r, i)
    OBVIOUS
  <1>3. m \in origin.sent /\ m.data = EncodeRegisterPeer(r)
        /\ m.msgType = Discriminant("RegisterPeer")
    BY <1>1, <1>2 DEF RegisterPeerMessage
  <1>4. Len(m.data) <= MaxMessageSize
    BY <1>3 DEF WithinCap
  <1>5. message = {m}
    BY <1>3, <1>4, SentIsDecoded DEF RoundTrip, Decoded
  <1>6. Msg = m
    <2>1. (CHOOSE x \in {m} : TRUE) = m
      OBVIOUS
    <2>2. QED
      BY <1>5, <2>1 DEF Msg
  <1>7. r \in RegisterPeer
    BY DEF Inv, TypeOK
  <1>8. NamesBody("RegisterPeer")
    BY <1>3, <1>6 DEF NamesBody
  <1>9. QED
    BY <1>1, <1>3, <1>4, <1>6, <1>7, <1>8, Opcodes218 DEF Data

\* A field either parses or refuses the body, and nothing else changes.
LEMMA FieldIs ==
    ASSUME NEW step, NEW next, NEW n, NEW valid \in BOOLEAN, NEW parsed,
           Field(step, next, n, valid, parsed)
    PROVE  /\ pc = step /\ message' = message /\ origin' = origin
           /\ \/ /\ Len(Data) >= position + n /\ valid
                 /\ pc' = next /\ body' = parsed /\ position' = position + n
              \/ /\ ~(Len(Data) >= position + n /\ valid)
                 /\ pc' = "badBody"
  BY DEF Field

LEMMA BodySame ==
    ASSUME message' = message
    PROVE  /\ Data' = Data
           /\ NamesBody("RegisterPeer")' = NamesBody("RegisterPeer")
           /\ NamesBody("RegisterAck")' = NamesBody("RegisterAck")
  <1>1. Msg' = Msg
    BY DEF Msg
  <1>2. QED
    BY <1>1 DEF Data, NamesBody

\* What no registration within the cap meets.
Lost == pc \in {"opaque", "badBody"} => \A r \in origin.registration : ~WithinCap(r)

LEMMA DispatchProgress ==
    ASSUME RegistrationInv, Dispatch
    PROVE  ProgressInv' /\ Lost'
  <1>1. /\ pc = "decoded" /\ Decoded
        /\ position' = position /\ message' = message /\ origin' = origin
        /\ pc' = IF NamesBody("RegisterPeer") THEN "ip"
                 ELSE IF NamesBody("RegisterAck") THEN "success" ELSE "opaque"
    BY DEF Dispatch, bodyVars, Decoded, Decoding
  <1>2. position = 0
    BY <1>1 DEF RegistrationInv, Inv, BodyInv
  <1>3. ProgressInv'
    BY <1>1, <1>2 DEF ProgressInv
  <1>4. ASSUME pc' = "opaque", NEW r \in origin.registration, WithinCap(r) PROVE FALSE
    BY <1>1, <1>4, Delivered DEF RegistrationInv
  <1>5. Lost'
    BY <1>1, <1>4 DEF Lost, WithinCap
  <1>6. QED
    BY <1>3, <1>5

LEMMA IpProgress ==
    ASSUME RegistrationInv, ParseIp
    PROVE  ProgressInv' /\ Lost'
  <1>1. pc = "ip" /\ Decoded
    BY DEF ParseIp, Field, Decoded, Decoding
  <1>2. Data \in Seq(Byte) /\ Len(Data) \in Nat /\ position = 0
    BY <1>1, MsgIs DEF RegistrationInv, ProgressInv
  <1>3. PICK n \in Nat : n = U32At(Data, 0)
    BY <1>2, U32OfSeq
  <1>4. PICK ip : ip = SubSeq(Data, 5, 4 + n)
    OBVIOUS
  <1>5. Field("ip", "port", 4 + n, Utf8(ip), [body EXCEPT !.ip = ip])
    <2>1. position + 5 = 5 /\ position + 4 + n = 4 + n
      BY <1>2
    <2>2. U32At(Data, position) = n
      BY <1>2, <1>3
    <2>3. SubSeq(Data, position + 5, position + 4 + U32At(Data, position)) = ip
      BY <1>4, <2>1, <2>2
    <2>4. QED
      BY <2>2, <2>3 DEF ParseIp
  <1>6. Utf8(ip) \in BOOLEAN
    BY DEF Utf8
  <1>7. message' = message /\ origin' = origin
    BY <1>5, <1>6, FieldIs
  <1>8. CASE /\ Len(Data) >= position + (4 + n) /\ pc' = "port"
             /\ body' = [body EXCEPT !.ip = ip] /\ position' = position + (4 + n)
    <2>1. 4 + n <= Len(Data) /\ position' = n + 4
      BY <1>2, <1>8
    <2>2. Len(ip) = n
      <3>1. 4 + n <= Len(Data)
        BY <2>1
      <3>2. QED
        BY <1>2, <1>4, <3>1, AfterPrefix
    <2>3. body'.ip = ip
      <3>1. body \in BodyType
        BY DEF RegistrationInv, Inv, TypeOK, BodyType
      <3>2. QED
        BY <1>8, <3>1 DEF BodyType
    <2>4. IpRead'
      <3>1. Data' = Data
        BY <1>7, BodySame
      <3>2. Len(body'.ip) = n /\ n + 4 <= Len(Data)
        BY <1>2, <2>1, <2>2, <2>3
      <3>3. body'.ip = SubSeq(Data, 5, 4 + Len(body'.ip))
        BY <1>4, <2>3, <3>2
      <3>4. QED
        BY <1>3, <3>1, <3>2, <3>3 DEF IpRead
    <2>5. position' = Len(body'.ip) + 4
      BY <2>1, <2>2, <2>3
    <2>6. QED
      BY <1>8, <2>4, <2>5 DEF ProgressInv, Lost
  <1>9. CASE pc' = "badBody" /\ ~(Len(Data) >= position + (4 + n) /\ Utf8(ip))
    <2>1. ASSUME NEW r \in origin.registration, WithinCap(r) PROVE FALSE
      <3>1. /\ r \in RegisterPeer /\ r.ip \in Strings
            /\ Data = EncodeRegisterPeer(r) /\ Len(Data) <= MaxMessageSize
        BY <1>1, <2>1, Delivered DEF RegistrationInv
      <3>2. PICK k : k = Len(r.ip)
        OBVIOUS
      <3>3. /\ k \in Nat /\ Len(Data) = k + 7 /\ U32At(Data, 0) = k
            /\ SubSeq(Data, 5, 4 + k) = r.ip
        BY <3>1, <3>2, FieldsOf
      <3>4. ip = r.ip /\ Len(Data) = n + 7
        BY <1>3, <1>4, <3>3
      <3>5. Len(Data) >= position + (4 + n)
        BY <1>2, <3>4
      <3>6. QED
        BY <1>9, <3>1, <3>4, <3>5 DEF Utf8
    <2>2. QED
      BY <1>7, <1>9, <2>1 DEF ProgressInv, Lost, WithinCap
  <1>10. QED
    BY <1>5, <1>6, <1>8, <1>9, FieldIs

\* Of a registration within the cap, the ip read is the ip sent.
LEMMA IpIsSent ==
    ASSUME RegistrationInv, Decoded, IpRead, NEW r \in origin.registration, WithinCap(r)
    PROVE  /\ body.ip = r.ip
           /\ Len(Data) = Len(body.ip) + 7
           /\ U16At(Data, 4 + Len(body.ip)) = r.port
           /\ ByteAt(Data, 6 + Len(body.ip)) = ToByte(r.nodeType)
           /\ r.nodeType \in NodeType
  <1>1. r \in RegisterPeer /\ Data = EncodeRegisterPeer(r) /\ Len(Data) <= MaxMessageSize
    BY Delivered DEF RegistrationInv
  <1>2. PICK n : n = Len(r.ip)
    OBVIOUS
  <1>3. /\ Len(Data) = n + 7 /\ U32At(Data, 0) = n
        /\ SubSeq(Data, 5, 4 + n) = r.ip
        /\ U16At(Data, 4 + n) = r.port
        /\ ByteAt(Data, 6 + n) = ToByte(r.nodeType)
    BY <1>1, <1>2, FieldsOf
  <1>4. Len(body.ip) = n /\ body.ip = r.ip
    BY <1>3 DEF IpRead
  <1>5. QED
    BY <1>1, <1>3, <1>4 DEF RegisterPeer

LEMMA PortProgress ==
    ASSUME RegistrationInv, ParsePort
    PROVE  ProgressInv' /\ Lost'
  <1>1. pc = "port" /\ Decoded
    BY DEF ParsePort, Field, Decoded, Decoding
  <1>2. PICK n : n = Len(body.ip)
    OBVIOUS
  <1>3. /\ Data \in Seq(Byte) /\ Len(Data) \in Nat /\ n \in Nat
        /\ IpRead /\ position = n + 4 /\ body \in BodyType
    <2>1. Data \in Seq(Byte) /\ Len(Data) \in Nat /\ body \in BodyType
      BY <1>1, MsgIs DEF RegistrationInv, Inv, TypeOK, BodyType
    <2>2. n \in Nat
      BY <1>2, <2>1, LenProperties DEF BodyType
    <2>3. QED
      BY <1>1, <1>2, <2>1, <2>2 DEF RegistrationInv, ProgressInv
  <1>4. PICK port : port = U16At(Data, position)
    OBVIOUS
  <1>5. Field("port", "nodeType", 2, TRUE, [body EXCEPT !.port = port])
    BY <1>4 DEF ParsePort
  <1>6. message' = message /\ origin' = origin /\ Data' = Data
    BY <1>5, FieldIs, BodySame
  <1>7. CASE /\ pc' = "nodeType" /\ position' = position + 2
             /\ body' = [body EXCEPT !.port = port]
    <2>1. body'.ip = body.ip /\ body'.port = port
      BY <1>3, <1>7 DEF BodyType
    <2>2. IpRead'
      BY <1>3, <1>6, <2>1 DEF IpRead
    <2>3. port = U16At(Data, 4 + n)
      <3>1. position = 4 + n
        BY <1>3
      <3>2. QED
        BY <1>4, <3>1
    <2>4. PortRead'
      BY <1>2, <1>6, <2>1, <2>2, <2>3 DEF PortRead
    <2>5. position' = Len(body'.ip) + 6
      BY <1>2, <1>3, <1>7, <2>1
    <2>6. QED
      BY <1>7, <2>4, <2>5 DEF ProgressInv, Lost
  <1>8. CASE pc' = "badBody" /\ ~(Len(Data) >= position + 2)
    <2>1. ASSUME NEW r \in origin.registration, WithinCap(r) PROVE FALSE
      <3>1. Len(Data) = n + 7
        BY <1>1, <1>2, <1>3, <2>1, IpIsSent
      <3>2. QED
        BY <1>3, <1>8, <3>1
    <2>2. QED
      BY <1>6, <1>8, <2>1 DEF ProgressInv, Lost, WithinCap
  <1>9. QED
    BY <1>5, <1>7, <1>8, FieldIs

LEMMA RoleProgress ==
    ASSUME RegistrationInv, ParseNodeType
    PROVE  ProgressInv' /\ Lost'
  <1>1. pc = "nodeType" /\ Decoded
    BY DEF ParseNodeType, Field, Decoded, Decoding
  <1>2. PICK n : n = Len(body.ip)
    OBVIOUS
  <1>3. /\ Data \in Seq(Byte) /\ Len(Data) \in Nat /\ n \in Nat
        /\ PortRead /\ IpRead /\ position = n + 6 /\ body \in BodyType
        /\ NamesBody("RegisterPeer")
    <2>1. Data \in Seq(Byte) /\ Len(Data) \in Nat /\ body \in BodyType
      BY <1>1, MsgIs DEF RegistrationInv, Inv, TypeOK, BodyType
    <2>2. n \in Nat
      BY <1>2, <2>1, LenProperties DEF BodyType
    <2>3. NamesBody("RegisterPeer")
      BY <1>1 DEF RegistrationInv, Inv, BodyInv
    <2>4. QED
      BY <1>1, <1>2, <2>1, <2>2, <2>3 DEF RegistrationInv, ProgressInv, PortRead
  <1>4. PICK role : role = FromByte(ByteAt(Data, position))
    OBVIOUS
  <1>5. Field("nodeType", "end", 1, role # Unknown, [body EXCEPT !.nodeType = role])
    BY <1>4 DEF ParseNodeType
  <1>6. message' = message /\ origin' = origin /\ Data' = Data
        /\ NamesBody("RegisterPeer")' = NamesBody("RegisterPeer")
    BY <1>5, FieldIs, BodySame
  <1>7. CASE /\ role # Unknown /\ pc' = "end" /\ position' = position + 1
             /\ body' = [body EXCEPT !.nodeType = role]
    <2>1. body'.ip = body.ip /\ body'.port = body.port /\ body'.nodeType = role
      BY <1>3, <1>7 DEF BodyType
    <2>2. PortRead'
      BY <1>3, <1>6, <2>1 DEF IpRead, PortRead
    <2>3. role \in NodeType /\ ToByte(role) = ByteAt(Data, position)
      BY <1>4, <1>7, RoleBytes
    <2>4. position = 6 + n
      BY <1>3
    <2>5. position' = Len(body'.ip) + 7
      BY <1>2, <1>3, <1>7, <2>1
    <2>6. PeerRead'
      BY <1>2, <1>6, <2>1, <2>2, <2>3, <2>4, <2>5 DEF PeerRead
    <2>7. QED
      BY <1>3, <1>6, <1>7, <2>6 DEF ProgressInv, Lost
  <1>8. CASE pc' = "badBody" /\ ~(Len(Data) >= position + 1 /\ role # Unknown)
    <2>1. ASSUME NEW r \in origin.registration, WithinCap(r) PROVE FALSE
      <3>1. /\ Len(Data) = n + 7 /\ r.nodeType \in NodeType
            /\ ByteAt(Data, 6 + n) = ToByte(r.nodeType)
        BY <1>1, <1>2, <1>3, <2>1, IpIsSent
      <3>2. position = 6 + n
        BY <1>3
      <3>3. role = r.nodeType
        BY <1>4, <3>1, <3>2, RoleBytes
      <3>4. r.nodeType # Unknown
        BY <3>1, RoleTable DEF NodeType
      <3>5. QED
        BY <1>3, <1>8, <3>1, <3>3, <3>4
    <2>2. QED
      BY <1>6, <1>8, <2>1 DEF ProgressInv, Lost, WithinCap
  <1>9. QED
    BY <1>5, <1>7, <1>8, FieldIs

LEMMA SuccessProgress ==
    ASSUME RegistrationInv, ParseSuccess
    PROVE  ProgressInv' /\ Lost'
  <1>1. pc = "success" /\ Decoded
    BY DEF ParseSuccess, Field, Decoded, Decoding
  <1>2. /\ Data \in Seq(Byte) /\ Len(Data) \in Nat /\ position = 0
        /\ body \in BodyType /\ NamesBody("RegisterAck")
    BY <1>1, MsgIs DEF RegistrationInv, ProgressInv, Inv, BodyInv, TypeOK, BodyType
  <1>3. PICK flag : flag = ByteAt(Data, position)
    OBVIOUS
  <1>4. Field("success", "end", 1, flag \in {0, 1}, [body EXCEPT !.success = flag])
    BY <1>3 DEF ParseSuccess
  <1>5. message' = message /\ origin' = origin /\ Data' = Data
        /\ NamesBody("RegisterAck")' = NamesBody("RegisterAck")
    <2>1. message' = message /\ origin' = origin
      BY <1>4 DEF Field
    <2>2. QED
      BY <2>1, BodySame
  <1>6. CASE /\ Len(Data) >= position + 1 /\ pc' = "end" /\ position' = position + 1
             /\ body' = [body EXCEPT !.success = flag]
    <2>1. body'.success = flag
      BY <1>2, <1>6 DEF BodyType
    <2>2. Len(Data) >= 1 /\ position' = 1
      BY <1>2, <1>6
    <2>3. flag = Data[1]
      <3>1. 0 + 1 <= Len(Data) /\ 0 + 1 = 1
        BY <2>2
      <3>2. ByteAt(Data, 0) = Data[0 + 1]
        BY <1>2, <3>1, ByteIs
      <3>3. QED
        BY <1>2, <1>3, <3>1, <3>2
    <2>4. AckRead'
      BY <1>5, <2>1, <2>2, <2>3 DEF AckRead
    <2>5. QED
      BY <1>2, <1>5, <1>6, <2>4 DEF ProgressInv, Lost
  <1>7. CASE pc' = "badBody"
    <2>1. ASSUME NEW r \in origin.registration, WithinCap(r) PROVE FALSE
      BY <1>1, <1>2, <2>1, Delivered DEF RegistrationInv
    <2>2. QED
      BY <1>5, <1>7, <2>1 DEF ProgressInv, Lost, WithinCap
  <1>8. QED
    BY <1>4, <1>6, <1>7 DEF Field

LEMMA EndProgress ==
    ASSUME RegistrationInv, ParseEnd
    PROVE  ProgressInv' /\ Lost'
  <1>1. pc = "end" /\ Decoded
    BY DEF ParseEnd, Field, Decoded, Decoding
  <1>2. Data \in Seq(Byte) /\ Len(Data) \in Nat /\ position \in Nat /\ body \in BodyType
    BY <1>1, MsgIs DEF RegistrationInv, Inv, TypeOK, BodyType
  <1>3. (NamesBody("RegisterPeer") /\ PeerRead) \/ (NamesBody("RegisterAck") /\ AckRead)
    BY <1>1 DEF RegistrationInv, ProgressInv
  <1>4. Field("end", "parsed", 0, Exhausted, body) /\ Exhausted \in BOOLEAN
    BY DEF ParseEnd, Exhausted
  <1>5. message' = message /\ origin' = origin /\ Data' = Data
        /\ NamesBody("RegisterPeer")' = NamesBody("RegisterPeer")
        /\ NamesBody("RegisterAck")' = NamesBody("RegisterAck")
    BY <1>4, FieldIs, BodySame
  <1>6. CASE Exhausted /\ pc' = "parsed" /\ position' = position + 0 /\ body' = body
    <2>1. position' = position
      BY <1>2, <1>6
    <2>2. PeerRead' = PeerRead /\ AckRead' = AckRead
      BY <1>5, <1>6, <2>1 DEF PeerRead, PortRead, IpRead, AckRead
    <2>3. position' = Len(Data')
      BY <1>5, <1>6, <2>1 DEF Exhausted
    <2>4. QED
      BY <1>3, <1>5, <1>6, <2>2, <2>3 DEF ProgressInv, Lost
  <1>7. CASE pc' = "badBody" /\ ~(Len(Data) >= position + 0 /\ Exhausted)
    <2>1. ASSUME NEW r \in origin.registration, WithinCap(r) PROVE FALSE
      <3>1. NamesBody("RegisterPeer") /\ ~NamesBody("RegisterAck")
        BY <1>1, <2>1, Delivered DEF RegistrationInv
      <3>2. PeerRead /\ IpRead
        BY <1>3, <3>1 DEF PeerRead, PortRead
      <3>3. Len(Data) = Len(body.ip) + 7
        BY <1>1, <2>1, <3>2, IpIsSent
      <3>4. Exhausted
        BY <3>2, <3>3 DEF PeerRead, Exhausted
      <3>5. QED
        BY <1>2, <1>7, <3>4 DEF Exhausted
    <2>2. QED
      BY <1>5, <1>7, <2>1 DEF ProgressInv, Lost, WithinCap
  <1>8. QED
    BY <1>4, <1>6, <1>7, FieldIs

\* What a sender's registration leaves in the history.
LEMMA RegistrationArrives ==
    ASSUME Arrival
    PROVE  \/ /\ pc' = "header"
              /\ \A r \in origin'.registration :
                     r.ip \in Strings /\ \E i : origin'.sent = {RegisterPeerMessage(r, i)}
           \/ pc' = "tag" /\ origin' = origin
  <1>1. CASE \E m \in Messages : Send(m)
    BY <1>1 DEF Send, Arrives, None
  <1>2. CASE \E r \in Registrations, i \in FrameIds : SendRegistration(r, i)
    <2>1. PICK r \in Registrations, i \in FrameIds : SendRegistration(r, i)
      BY <1>2
    <2>2. PICK m : m = RegisterPeerMessage(r, i)
      OBVIOUS
    <2>3. pc' = "header" /\ origin' = [sent |-> {m}, registration |-> {r}]
      BY <2>1, <2>2 DEF SendRegistration, Arrives, Some
    <2>4. r.ip \in Strings
      BY WireAssumption
    <2>5. QED
      BY <2>2, <2>3, <2>4
  <1>3. CASE \E success \in BOOLEAN, i \in FrameIds : SendAck(success, i)
    BY <1>3 DEF SendAck, Arrives, None
  <1>4. CASE \E f \in Garbage : SendGarbage(f)
    BY <1>4 DEF SendGarbage, Arrives, None
  <1>5. CASE \E v \in Values : ReadValue(v)
    BY <1>5 DEF ReadValue
  <1>6. QED
    BY <1>1, <1>2, <1>3, <1>4, <1>5 DEF Arrival

LEMMA ProgressInit == ASSUME Init PROVE ProgressInv /\ SentInv
  BY DEF Init, ProgressInv, SentInv, None

LEMMA ProgressPreserved ==
    ASSUME RegistrationInv, [Next]_vars
    PROVE  ProgressInv' /\ SentInv'
  <1>1. CASE Decode
    <2>1. pc' \in Decoding \cup {"refused", "decoded"} /\ origin' = origin
      BY <1>1, DecoderStep DEF RegistrationInv
    <2>2. QED
      BY <2>1 DEF RegistrationInv, ProgressInv, SentInv, Decoding
  <1>2. CASE Dispatch \/ ParseBody
    <2>1. origin' = origin
      BY <1>2, ApplicationStep DEF RegistrationInv
    <2>2. ProgressInv' /\ Lost'
      BY <1>2, DispatchProgress, IpProgress, PortProgress, RoleProgress, SuccessProgress,
         EndProgress DEF ParseBody
    <2>3. SentInv'
      BY <2>1, <2>2 DEF RegistrationInv, SentInv, Lost
    <2>4. QED
      BY <2>2, <2>3
  <1>3. CASE Arrival
    <2>1. pc' \in {"header", "tag"}
      BY <1>3, RegistrationArrives
    <2>2. \A r \in origin'.registration :
             r.ip \in Strings /\ \E i : origin'.sent = {RegisterPeerMessage(r, i)}
      BY <1>3, RegistrationArrives DEF RegistrationInv, SentInv
    <2>3. QED
      BY <2>1, <2>2 DEF ProgressInv, SentInv
  <1>4. CASE UNCHANGED vars
    <2>1. pc' = pc /\ message' = message /\ position' = position /\ body' = body
          /\ origin' = origin
      BY <1>4 DEF vars, bodyVars
    <2>2. /\ Data' = Data
          /\ NamesBody("RegisterPeer")' = NamesBody("RegisterPeer")
          /\ NamesBody("RegisterAck")' = NamesBody("RegisterAck")
      BY <2>1, BodySame
    <2>3. /\ IpRead' = IpRead /\ PortRead' = PortRead
          /\ PeerRead' = PeerRead /\ AckRead' = AckRead
      BY <2>1, <2>2 DEF IpRead, PortRead, PeerRead, AckRead
    <2>4. ProgressInv'
      BY <2>1, <2>2, <2>3 DEF RegistrationInv, ProgressInv
    <2>5. SentInv'
      BY <2>1 DEF RegistrationInv, SentInv, WithinCap
    <2>6. QED
      BY <2>4, <2>5
  <1>5. QED
    BY <1>1, <1>2, <1>3, <1>4 DEF Next

LEMMA RegistrationInvariant == Spec => []RegistrationInv
  <1>1. Init => RegistrationInv
    BY CursorInit, ProgressInit DEF RegistrationInv
  <1>2. RegistrationInv /\ [Next]_vars => RegistrationInv'
    BY TypePreserved, CursorPreserved, BodyPreserved, HistoryPreserved, ProgressPreserved
    DEF RegistrationInv, Inv
  <1>3. QED
    BY <1>1, <1>2, PTL DEF Spec

-----------------------------------------------------------------------------
(* The theorem *)

\* A body is taken for a registration or an acknowledgement only if it is
\* exactly one's encoding, and a registration within the cap is always taken
\* for itself: for every string, port and role, and every cap.
THEOREM RegistrationsAreExact == Spec => []RegistrationExact
  <1>1. RegistrationInv => RegistrationExact
    <2> SUFFICES ASSUME RegistrationInv PROVE RegistrationExact
      OBVIOUS
    <2>1. pc = "parsed" =>
              /\ Decoded /\ position = Len(Data)
              /\ (NamesBody("RegisterPeer") /\ PeerRead) \/ (NamesBody("RegisterAck") /\ AckRead)
      BY DEF RegistrationInv, ProgressInv, Decoded, Decoding
    <2>2. ASSUME pc = "parsed"
          PROVE  \/ /\ Msg.msgType = Discriminant("RegisterPeer")
                    /\ body.nodeType \in NodeType
                    /\ Data = EncodeRegisterPeer(body)
                 \/ /\ Msg.msgType = Discriminant("RegisterAck")
                    /\ Data = <<body.success>>
      <3>1. Data \in Seq(Byte) /\ Len(Data) \in Nat
        BY <2>1, <2>2, MsgIs DEF RegistrationInv
      <3>2. CASE NamesBody("RegisterPeer") /\ PeerRead
        <4>1. PICK n : n = Len(body.ip)
          OBVIOUS
        <4>2. /\ n = U32At(Data, 0) /\ body.ip = SubSeq(Data, 5, 4 + n)
              /\ body.port = U16At(Data, 4 + n) /\ body.nodeType \in NodeType
              /\ ByteAt(Data, 6 + n) = ToByte(body.nodeType) /\ Len(Data) = n + 7
          BY <2>1, <2>2, <3>2, <4>1 DEF PeerRead, PortRead, IpRead
        <4>3. Data = EncodeRegisterPeer(body)
          BY <3>1, <4>1, <4>2, Rebuilt
        <4>4. QED
          BY <3>2, <4>2, <4>3 DEF NamesBody
      <3>3. CASE NamesBody("RegisterAck") /\ AckRead
        <4>1. Len(Data) = 1 /\ Data[1] = body.success
          BY <2>1, <2>2, <3>3 DEF AckRead
        <4>2. Data = <<body.success>>
          <5>1. body.success \in Byte
            <6>1. 1 \in 1 .. Len(Data)
              BY <4>1
            <6>2. Data[1] \in Byte
              BY <3>1, <6>1, ElementOfSeq
            <6>3. QED
              BY <4>1, <6>2
          <5>2. <<body.success>> \in Seq(Byte) /\ Len(<<body.success>>) = 1
            BY <5>1
          <5>3. \A k \in 1 .. 1 : Data[k] = <<body.success>>[k]
            BY <4>1
          <5>4. QED
            BY <3>1, <4>1, <5>2, <5>3, SeqEqual
        <4>3. QED
          BY <3>3, <4>2 DEF NamesBody
      <3>4. QED
        BY <2>1, <2>2, <3>2, <3>3
    <2>3. ASSUME pc \in {"opaque", "badBody", "parsed"},
                 NEW r \in origin.registration, WithinCap(r)
          PROVE  /\ pc = "parsed"
                 /\ r = [ip |-> body.ip, port |-> body.port, nodeType |-> body.nodeType]
      <3>1. pc = "parsed"
        BY <2>3 DEF RegistrationInv, SentInv
      <3>2. r \in RegisterPeer /\ ~NamesBody("RegisterAck")
        BY <2>1, <2>3, <3>1, Delivered DEF RegistrationInv
      <3>3. PeerRead /\ PortRead /\ IpRead
        BY <2>1, <3>1, <3>2 DEF PeerRead, PortRead
      <3>4. /\ body.ip = r.ip /\ U16At(Data, 4 + Len(body.ip)) = r.port
            /\ ByteAt(Data, 6 + Len(body.ip)) = ToByte(r.nodeType) /\ r.nodeType \in NodeType
        BY <2>1, <2>3, <3>1, <3>3, IpIsSent
      <3>5. body.port = r.port /\ body.nodeType = r.nodeType
        <4>1. body.port = r.port
          BY <3>3, <3>4 DEF PortRead
        <4>2. FromByte(ToByte(body.nodeType)) = body.nodeType
          BY <3>3, RoleBytes DEF PeerRead
        <4>3. FromByte(ToByte(r.nodeType)) = r.nodeType
          BY <3>4, RoleBytes
        <4>4. ToByte(body.nodeType) = ToByte(r.nodeType)
          BY <3>3, <3>4 DEF PeerRead
        <4>5. QED
          BY <4>1, <4>2, <4>3, <4>4
      <3>6. r = [ip |-> r.ip, port |-> r.port, nodeType |-> r.nodeType]
        BY <3>2 DEF RegisterPeer
      <3>7. QED
        BY <3>1, <3>4, <3>5, <3>6
    <2>4. QED
      BY <2>2, <2>3 DEF RegistrationExact, WithinCap
  <1>2. QED
    BY <1>1, RegistrationInvariant, PTL
=============================================================================
