-------------------------------- MODULE Wire --------------------------------
(***************************************************************************)
(* A frame's way through the receiving side: the owning decoder            *)
(* (DigMessage::from_bytes_owned, src/src/dig_message.rs), which reads the *)
(* buffer field by field, and what an application makes of the envelope:   *)
(* its band, its opcode, and for the introducer's two messages the parsed  *)
(* body (src/src/introducer_wire.rs).                                      *)
(*                                                                         *)
(* A frame is one that some sender encoded, or any bytes at all.           *)
(*                                                                         *)
(* External: the parsers of u8, u16, bool and String, and                  *)
(* Streamable::from_bytes, which refuses a body with bytes left over.      *)
(***************************************************************************)
EXTENDS DigMessage, Opcodes

CONSTANTS
    Messages,        \* the envelopes senders encode
    Registrations,   \* the RegisterPeer bodies they encode
    FrameIds,        \* the ids they put on introducer messages
    Garbage,         \* other frames: any bytes
    Strings,         \* the byte sequences that are UTF-8
    Values           \* integers met where a DigMessageType is deserialized

RegisterPeer == [ip : Seq(Byte), port : 0 .. U16Max, nodeType : NodeType]

\* An ip is a String, and so UTF-8.
ASSUME WireAssumption ==
    /\ Messages \subseteq Envelope
    /\ Registrations \subseteq RegisterPeer
    /\ \A r \in Registrations : r.ip \in Strings
    /\ FrameIds \subseteq 0 .. U16Max \cup {NoId}
    /\ Garbage \subseteq Seq(Byte)
    /\ \A f \in Garbage : Len(f) <= UsizeMax
    /\ Values \subseteq Int

VARIABLES
    pc,         \* the decoder's or the body parser's next step
    frame,      \* the bytes that arrived
    offset,     \* the decoder's offset
    id,         \* the id it has read, or NoId
    dataLen,    \* the length it has read
    touched,    \* history: the end of the furthest range read or sliced
    message,    \* the envelope decoded, if any
    position,   \* the cursor into the envelope's body
    body,       \* the fields of the body parsed so far
    tag,        \* an integer read as a DigMessageType, and its variant
    origin      \* history: what the sender of the frame encoded, if anyone did

decoderVars == <<offset, id, dataLen, touched>>
bodyVars == <<position, body>>
vars == <<pc, frame, decoderVars, message, bodyVars, tag, origin>>

NoBody == [ip |-> <<>>, port |-> 0, nodeType |-> Unknown, success |-> -1]

Init ==
    /\ pc = "idle"
    /\ frame = <<>>
    /\ offset = 0
    /\ id = NoId
    /\ dataLen = 0
    /\ touched = 0
    /\ message = None
    /\ position = 0
    /\ body = NoBody
    /\ tag = None
    /\ origin = [sent |-> None, registration |-> None]

-----------------------------------------------------------------------------
(* Senders *)

\* RegisterPeer::to_bytes: the streamable fields in their order.
EncodeRegisterPeer(r) == U32Bytes(Len(r.ip)) \o r.ip \o U16Bytes(r.port) \o <<ToByte(r.nodeType)>>

EncodeRegisterAck(success) == <<IF success THEN 1 ELSE 0>>

\* The two to_dig_message.
RegisterPeerMessage(r, i) ==
    [msgType |-> Discriminant("RegisterPeer"), id |-> i, data |-> EncodeRegisterPeer(r)]
RegisterAckMessage(success, i) ==
    [msgType |-> Discriminant("RegisterAck"), id |-> i, data |-> EncodeRegisterAck(success)]

\* A frame arrives at an idle decoder; no buffer is longer than UsizeMax.
Arrives(f, from) ==
    /\ Len(f) <= UsizeMax
    /\ pc' = "header"
    /\ frame' = f
    /\ origin' = from
    /\ UNCHANGED <<decoderVars, message, bodyVars, tag>>

Send(m) == Arrives(ToBytes(m), [sent |-> Some(m), registration |-> None])

SendRegistration(r, i) ==
    Arrives(ToBytes(RegisterPeerMessage(r, i)),
            [sent |-> Some(RegisterPeerMessage(r, i)), registration |-> Some(r)])

SendAck(success, i) ==
    Arrives(ToBytes(RegisterAckMessage(success, i)),
            [sent |-> Some(RegisterAckMessage(success, i)), registration |-> None])

SendGarbage(f) == Arrives(f, [sent |-> None, registration |-> None])

-----------------------------------------------------------------------------
(* from_bytes_owned *)

\* Mutant of TooShort: one byte short will do.
TooShortButOne(end) == Len(frame) + 1 < end

\* buf.len() < end
TooShort(end) == Len(frame) < end

Refuse(cause) == cause /\ pc' = "refused" /\ UNCHANGED <<decoderVars, message>>

\* Mutant of HasId: the flag is 1 or it is not one.
HasIdOnlyIfOne == ByteAt(frame, 1) = 1

HasId == ByteAt(frame, 1) # 0

\* Reading the opcode and the flag.
ReadHeader ==
    /\ pc = "header"
    /\ \/ Refuse(TooShort(2))
       \/ /\ ~TooShort(2)
          /\ offset' = 2
          /\ touched' = 2
          /\ pc' = IF HasId THEN "id" ELSE "length"
          /\ UNCHANGED <<id, dataLen, message>>
    /\ UNCHANGED <<frame, bodyVars, tag, origin>>

ReadId ==
    /\ pc = "id"
    /\ \/ Refuse(\A end \in CheckedAdd(offset, 2) : TooShort(end))
       \/ \E end \in CheckedAdd(offset, 2) :
              /\ ~TooShort(end)
              /\ id' = U16At(frame, offset)
              /\ offset' = end
              /\ touched' = end
              /\ pc' = "length"
              /\ UNCHANGED <<dataLen, message>>
    /\ UNCHANGED <<frame, bodyVars, tag, origin>>

ReadLength ==
    /\ pc = "length"
    /\ \/ Refuse(\A end \in CheckedAdd(offset, 4) : TooShort(end))
       \/ \E end \in CheckedAdd(offset, 4) :
              /\ ~TooShort(end)
              /\ dataLen' = U32At(frame, offset)
              /\ offset' = end
              /\ touched' = end
              /\ pc' = "payload"
              /\ UNCHANGED <<id, message>>
    /\ UNCHANGED <<frame, bodyVars, tag, origin>>

OverCap == dataLen > MaxMessageSize

\* The ceiling, the end of the payload, and drain, which panics past the end.
Drain ==
    /\ pc = "payload"
    /\ \/ Refuse(OverCap \/ \A end \in CheckedAdd(offset, dataLen) : TooShort(end))
       \/ \E end \in CheckedAdd(offset, dataLen) :
              /\ ~OverCap
              /\ ~TooShort(end)
              /\ touched' = end
              /\ message' = Some([msgType |-> ByteAt(frame, 0), id |-> id,
                                  data |-> SubSeq(frame, offset + 1, end)])
              /\ pc' = "decoded"
              /\ UNCHANGED <<offset, id, dataLen>>
    /\ UNCHANGED <<frame, bodyVars, tag, origin>>

-----------------------------------------------------------------------------
(* The application: from_dig_message *)

Msg == CHOOSE m \in message : TRUE
Data == Msg.data

\* msg.msg_type == DigMessageType::.. as u8
NamesBody(t) == Msg.msgType = Discriminant(t)

Dispatch ==
    /\ pc = "decoded"
    /\ pc' = IF NamesBody("RegisterPeer") THEN "ip"
             ELSE IF NamesBody("RegisterAck") THEN "success" ELSE "opaque"
    /\ UNCHANGED <<frame, decoderVars, message, bodyVars, tag, origin>>

\* A field of n bytes at the cursor: it parses, or the whole body is refused.
Field(step, next, n, valid, parsed) ==
    /\ pc = step
    /\ IF Len(Data) >= position + n /\ valid
       THEN /\ body' = parsed
            /\ position' = position + n
            /\ pc' = next
       ELSE /\ pc' = "badBody"
            /\ UNCHANGED bodyVars
    /\ UNCHANGED <<frame, decoderVars, message, tag, origin>>

\* str::from_utf8
Utf8(bytes) == bytes \in Strings

\* A string has the same length prefix as Bytes.
ParseIp ==
    LET ip == SubSeq(Data, position + 5, position + 4 + U32At(Data, position))
    IN  Field("ip", "port", 4 + U32At(Data, position), Utf8(ip), [body EXCEPT !.ip = ip])

ParsePort ==
    Field("port", "nodeType", 2, TRUE, [body EXCEPT !.port = U16At(Data, position)])

\* An unknown role is an error, never a default.
ParseNodeType ==
    LET role == FromByte(ByteAt(Data, position))
    IN  Field("nodeType", "end", 1, role # Unknown, [body EXCEPT !.nodeType = role])

\* bool::parse
ParseSuccess ==
    LET flag == ByteAt(Data, position)
    IN  Field("success", "end", 1, flag \in {0, 1}, [body EXCEPT !.success = flag])

Exhausted == position = Len(Data)

\* InputTooLong
ParseEnd == Field("end", "parsed", 0, Exhausted, body)

-----------------------------------------------------------------------------
(* Elsewhere, a DigMessageType is deserialized from an integer. *)

ReadValue(v) ==
    /\ pc' = "tag"
    /\ tag' = Some([value |-> v, type |-> Deserialize(v)])
    /\ UNCHANGED <<frame, decoderVars, message, bodyVars, origin>>

-----------------------------------------------------------------------------

Decode == ReadHeader \/ ReadId \/ ReadLength \/ Drain
ParseBody == ParseIp \/ ParsePort \/ ParseNodeType \/ ParseSuccess \/ ParseEnd

Arrival ==
    /\ pc = "idle"
    /\ \/ \E m \in Messages : Send(m)
       \/ \E r \in Registrations, i \in FrameIds : SendRegistration(r, i)
       \/ \E success \in BOOLEAN, i \in FrameIds : SendAck(success, i)
       \/ \E f \in Garbage : SendGarbage(f)
       \/ \E v \in Values : ReadValue(v)

Next == Arrival \/ Decode \/ Dispatch \/ ParseBody

Spec == Init /\ [][Next]_vars

-----------------------------------------------------------------------------
(* Properties *)

Decoding == {"header", "id", "length", "payload"}
Parsing == {"ip", "port", "nodeType", "success", "end"}
States == {"idle", "refused", "decoded", "opaque", "badBody", "parsed", "tag"}
              \cup Decoding \cup Parsing
Decoded == pc \notin Decoding \cup {"idle", "refused", "tag"}

\* Every variable stays in its type: ids fit a u16, and a role is a role.
TypeOK ==
    /\ pc \in States
    /\ frame \in Seq(Byte)
    /\ offset \in Nat /\ dataLen \in Nat /\ touched \in Nat /\ position \in Nat
    /\ id \in 0 .. U16Max \cup {NoId}
    /\ message \in SUBSET Envelope
    /\ body \in [ip : Seq(Byte), port : 0 .. U16Max,
                 nodeType : NodeType \cup {Unknown}, success : {-1, 0, 1}]
    /\ tag \in SUBSET [value : Values, type : DigMessageType \cup {Unknown}]
    /\ origin \in [sent : SUBSET Envelope, registration : SUBSET RegisterPeer]

\* No frame makes the decoder index or drain past the end of its buffer, which
\* would panic in the reader task: every length is tested before the bytes it
\* covers are read (dig_message.rs:166-209), and an envelope's body before its
\* fields are.
InBounds ==
    /\ touched <= Len(frame)
    /\ Decoded => position <= Len(Data)

\* "Identical acceptance/rejection rules to from_bytes" (dig_message.rs:158):
\* the two decoders, written out separately, accept the same frames and make
\* the same envelope of each.
DecodersAgree ==
    /\ pc = "refused" => FromBytes(frame) = None
    /\ Decoded => message = FromBytes(frame)

\* f is m's frame, but for trailing bytes and the value of a nonzero flag.
Encodes(f, m) ==
    LET e == ToBytes(m)
    IN  /\ Len(e) <= Len(f)
        /\ \A k \in 1 .. Len(e) :
               e[k] = IF k = 2 /\ f[k] # 0 THEN 1 ELSE f[k]

\* The envelopes a frame may encode, wherever its payload starts and ends.
Readings(f) ==
    {[msgType |-> ByteAt(f, 0), id |-> i, data |-> SubSeq(f, start + 1, end)] :
        i \in {NoId, U16At(f, 2)}, start \in {6, 8}, end \in 5 .. Len(f)}

\* What the decoder takes out of a frame is what an encoder put in: an envelope
\* it yields encodes to that frame and is within the cap, and a frame it
\* refuses is the encoding of no envelope within the cap (SPEC.md 2.2; C9),
\* whatever the additions on the way would do near usize::MAX.
DecodesItsFrame ==
    /\ Decoded => Encodes(frame, Msg) /\ Len(Data) <= MaxMessageSize
    /\ pc = "refused" =>
           \A m \in Readings(frame) : Len(m.data) <= MaxMessageSize => ~Encodes(frame, m)

\* `from_bytes(to_bytes(m)) == Some(m)` (SPEC.md 2.2), for payloads within the
\* cap: an envelope that was sent arrives as it was.
RoundTrip ==
    \A m \in origin.sent :
        Len(m.data) <= MaxMessageSize /\ pc \notin Decoding => message = {m}

\* The payload travels as Bytes' own Streamable encoding does: parsing the rest
\* of a frame as Bytes succeeds where decoding does, but for the cap, and with
\* the same payload; and what is decoded streams to the bytes it came from.
FramedAsBytes ==
    /\ Decoded \/ (pc = "refused" /\ Len(frame) >= 2) =>
           {p.data : p \in {q \in Parse(frame, LengthOffset(frame)) :
                               Len(q.data) <= MaxMessageSize}}
               = {m.data : m \in message}
    /\ Decoded => \A s \in Stream(Data) :
           s = SubSeq(frame, LengthOffset(frame) + 1, LengthOffset(frame) + Len(s))

\* A registration or an acknowledgement is made only of an envelope of its own
\* opcode that holds nothing else (a role this build does not know, a cut or
\* padded body make none), and every registration sent within the cap arrives
\* with the fields it was sent with.
RegistrationExact ==
    /\ pc = "parsed" =>
           \/ /\ Msg.msgType = Discriminant("RegisterPeer")
              /\ body.nodeType \in NodeType
              /\ Data = EncodeRegisterPeer(body)
           \/ /\ Msg.msgType = Discriminant("RegisterAck")
              /\ Data = <<body.success>>
    /\ pc \in {"opaque", "badBody", "parsed"} =>
           \A r \in {q \in origin.registration : Len(EncodeRegisterPeer(q)) <= MaxMessageSize} :
               /\ pc = "parsed"
               /\ r = [ip |-> body.ip, port |-> body.port, nodeType |-> body.nodeType]

\* The three tests of the band and the two tables of opcodes, kept in three
\* files, agree on the opcode of any envelope that arrives, assigned or not,
\* and only a consensus opcode has a body this crate parses.
BandsAgree ==
    Decoded =>
        LET op == Msg.msgType
        IN  /\ IsDigOpcode(op) = IsDigExtension(op)
            /\ IsDigOpcode(op) = ~IsChiaStandard(op)
            /\ IsAssigned(op) => IsDigOpcode(op)
            /\ (TryFrom(op) # Unknown) = (IsAssigned(op) /\ op < FreeBandStart)
            /\ TryFrom(op) # Unknown => Discriminant(TryFrom(op)) = op /\ op <= MaxAssigned
            /\ pc \in Parsing => TryFrom(op) \in {"RegisterPeer", "RegisterAck"}

\* An integer that is read as a DigMessageType is written as itself, so none
\* that is out of range is taken for the variant its low byte names.
TagRoundTrip ==
    \A t \in tag : t.type # Unknown => Discriminant(t.type) = t.value
=============================================================================
