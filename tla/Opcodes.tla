------------------------------ MODULE Opcodes ------------------------------
(***************************************************************************)
(* The bytes that name things on the DIG wire: the consensus opcodes       *)
(* (src/src/dig_message_type.rs), the band they share with the free ones   *)
(* (src/src/opcodes.rs) and the roles of peers (src/src/node_type.rs).     *)
(***************************************************************************)
EXTENDS Integers, Sequences

Unknown == "unknown"

DigBandStart == 200
FreeBandStart == 220

-----------------------------------------------------------------------------
(* DigMessageType *)

\* Declared with the discriminants 200, 201, ..., and ALL in the same order.
ALL == <<"NewAttestation", "NewCheckpointProposal", "NewCheckpointSignature",
         "RequestCheckpointSignatures", "RespondCheckpointSignatures",
         "RequestStatus", "RespondStatus", "NewCheckpointSubmission",
         "ValidatorAnnounce", "RequestBlockTransactions",
         "RespondBlockTransactions", "ReconciliationSketch",
         "ReconciliationResponse", "StemTransaction", "PlumtreeLazyAnnounce",
         "PlumtreePrune", "PlumtreeGraft", "PlumtreeRequestByHash",
         "RegisterPeer", "RegisterAck">>

DigMessageType == {ALL[k] : k \in 1 .. Len(ALL)}

Discriminant(t) == 199 + (CHOOSE k \in 1 .. Len(ALL) : ALL[k] = t)

MaxAssigned == Discriminant("RegisterAck")

\* TryFrom<u8>
TryFrom(byte) == IF byte \in 200 .. 219 THEN ALL[byte - 199] ELSE Unknown

\* Mutant of Narrowed: `as u8`.
Truncated(v) == v % 256

\* u8::try_from: a value out of the range of u8 is no opcode.
Narrowed(v) == IF v \in 0 .. 255 THEN v ELSE -1

\* visit_u8, visit_u64 and visit_i64; serialize_u8 is Discriminant.
Deserialize(v) == IF Narrowed(v) = -1 THEN Unknown ELSE TryFrom(Narrowed(v))

-----------------------------------------------------------------------------
(* The band *)

\* DIG_MESSAGE, STORE_MELTED, HOLDINGS_ANNOUNCE, PROFILE_ROOT_ANNOUNCE,
\* PROFILE_BODY_REQUEST, PROFILE_BODY and DISTRIBUTOR_ANNOUNCE.
FreeOpcodes == <<220, 221, 222, 223, 224, 225, 226>>

AllDigOpcodes == [k \in 1 .. Len(ALL) |-> Discriminant(ALL[k])] \o FreeOpcodes

\* Mutant of IsDigOpcode: an assigned test instead of a band test.
IsAssigned(opcode) == \E k \in 1 .. Len(AllDigOpcodes) : AllDigOpcodes[k] = opcode

IsDigOpcode(opcode) == opcode >= DigBandStart

\* DigMessage's own tests.
IsDigExtension(opcode) == opcode >= 200
IsChiaStandard(opcode) == opcode < 200

-----------------------------------------------------------------------------
(* NodeType *)

\* NodeType::ALL, in the order of their discriminants 1 .. 7.
Roles == <<"FullNode", "Harvester", "Farmer", "Timelord", "Introducer", "Wallet", "DataLayer">>

NodeType == {Roles[k] : k \in 1 .. Len(Roles)}

ToByte(role) == CHOOSE k \in 1 .. Len(Roles) : Roles[k] = role

\* Mutant of FromByte: an unknown role becomes the first.
FromByteOrDefault(byte) == IF byte \in 1 .. 7 THEN Roles[byte] ELSE Roles[1]

\* from_byte: the role of that byte, or none.
FromByte(byte) ==
    IF \E role \in NodeType : ToByte(role) = byte
    THEN CHOOSE role \in NodeType : ToByte(role) = byte
    ELSE Unknown
=============================================================================
