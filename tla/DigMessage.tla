----------------------------- MODULE DigMessage -----------------------------
(***************************************************************************)
(* The DIG envelope (src/src/dig_message.rs) and its payload container     *)
(* (src/src/bytes.rs), byte by byte: the encoder, the borrowing decoder    *)
(* and the Streamable encoding of Bytes.  The owning decoder, which the    *)
(* reader task runs, is Wire's, step by step.                              *)
(*                                                                         *)
(* Offsets count from 0, as in the code; sequences from 1.                 *)
(***************************************************************************)
EXTENDS Integers, Sequences

CONSTANTS
    MaxMessageSize,   \* MAX_MESSAGE_SIZE, scaled down
    UsizeMax          \* usize::MAX, scaled down: no buffer is longer

\* A u32 can describe a payload within the cap.
ASSUME SizeAssumption ==
    /\ MaxMessageSize \in Nat /\ MaxMessageSize \div 16777216 < 256
    /\ UsizeMax \in Nat

Byte == 0 .. 255
U16Max == 65535
NoId == -1

\* Optional values are sets of at most one element.
None == {}
Some(x) == {x}

Envelope == [msgType : Byte, id : 0 .. U16Max \cup {NoId}, data : Seq(Byte)]

-----------------------------------------------------------------------------
(* Integers on the wire *)

\* buf[i], which panics past the end: Wire's InBounds says it never does.
ByteAt(b, i) == IF i < Len(b) THEN b[i + 1] ELSE 0

U16At(b, i) == 256 * ByteAt(b, i) + ByteAt(b, i + 1)

U32At(b, i) ==
    16777216 * ByteAt(b, i) + 65536 * ByteAt(b, i + 1)
        + 256 * ByteAt(b, i + 2) + ByteAt(b, i + 3)

\* Mutants of U16Bytes: the wrong order; a low byte that is none.
LittleEndianU16Bytes(n) == <<n % 256, n \div 256>>
UnmaskedU16Bytes(n) == <<n \div 256, n>>

U16Bytes(n) == <<n \div 256, n % 256>>

\* (n as u32).to_be_bytes()
U32Bytes(n) ==
    <<(n \div 16777216) % 256, (n \div 65536) % 256, (n \div 256) % 256, n % 256>>

\* Mutant of CheckedAdd: the sum wraps.
WrappingAdd(m, n) == Some((m + n) % (UsizeMax + 1))

\* checked_add: one value, or none on overflow.
CheckedAdd(m, n) == IF m + n > UsizeMax THEN None ELSE Some(m + n)

-----------------------------------------------------------------------------
(* Bytes *)

\* stream refuses what a u32 cannot describe, of 2^32 bytes and more.
Stream(data) == IF Len(data) \div 16777216 > 255 THEN None ELSE Some(U32Bytes(Len(data)) \o data)

\* Mutant of Covers: one byte short will do.
CoversButOne(b, end) == Len(b) >= end - 1

Covers(b, end) == Len(b) >= end

\* Bytes::parse with the cursor at p: the payload and the cursor's position.
Parse(b, p) ==
    IF ~Covers(b, p + 4) THEN None
    ELSE {[data |-> SubSeq(b, p + 5, end), position |-> end] :
              end \in {e \in CheckedAdd(p + 4, U32At(b, p)) : Covers(b, e)}}

-----------------------------------------------------------------------------
(* DigMessage *)

HeaderBytes(id) == IF id = NoId THEN <<0>> ELSE <<1>> \o U16Bytes(id)

ToBytes(m) == <<m.msgType>> \o HeaderBytes(m.id) \o U32Bytes(Len(m.data)) \o m.data

\* Where the length prefix starts: after the id, if the flag says there is one.
LengthOffset(b) == IF ByteAt(b, 1) # 0 THEN 4 ELSE 2

\* from_bytes, of a borrowed buffer.
FromBytes(b) ==
    LET start == LengthOffset(b) + 4
        dataLen == U32At(b, LengthOffset(b))
    IN  IF Len(b) < 2 \/ Len(b) < start \/ dataLen > MaxMessageSize THEN None
        ELSE {[msgType |-> ByteAt(b, 0),
               id |-> IF ByteAt(b, 1) # 0 THEN U16At(b, 2) ELSE NoId,
               data |-> SubSeq(b, start + 1, end)] :
                  end \in {e \in CheckedAdd(start, dataLen) : e <= Len(b)}}
=============================================================================
