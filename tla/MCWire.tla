------------------------------- MODULE MCWire -------------------------------
(***************************************************************************)
(* An instance of Wire for TLC.  Payloads are capped at 8 bytes and a      *)
(* buffer holds at most 15, so that a payload of 8 behind an id overflows  *)
(* an offset and one of 9 is over the cap.                                 *)
(***************************************************************************)
EXTENDS Wire

\* Every opcode, and some of them with ids and payloads about the cap.
Payloads == {<<>>, <<7>>, [k \in 1 .. 7 |-> k], [k \in 1 .. 8 |-> k], [k \in 1 .. 9 |-> k]}
MCFrameIds == {NoId, 0, 258, 65535}

\* Bodies that are cut, padded, or hold what is no string, role or boolean.
BadPeers == {<<>>, <<0, 0, 0>>, <<0, 0, 0, 2, 97>>, <<0, 0, 0, 0, 1>>, <<0, 0, 0, 0, 1, 2>>,
             <<0, 0, 0, 0, 1, 2, 0>>, <<0, 0, 0, 0, 1, 2, 8>>,
             <<0, 0, 0, 0, 1, 2, 5, 5>>, <<0, 0, 0, 1, 255, 1, 2, 5>>}
BadAcks == {<<>>, <<2>>, <<1, 0>>}

MCMessages ==
    [msgType : Byte, id : {NoId, 258}, data : {<<>>}]
        \cup [msgType : {20, 217, 250}, id : MCFrameIds, data : Payloads]
        \cup [msgType : {218}, id : {NoId, 0}, data : BadPeers]
        \cup [msgType : {219}, id : {NoId, 0}, data : BadAcks]

MCRegistrations ==
    [ip : {<<>>, <<97>>, <<97, 98>>}, port : {0, 258, 65535}, nodeType : NodeType]

\* All short frames of three bytes' values, and cut or padded long ones.
Short == UNION {[1 .. n -> 0 .. 2] : n \in 0 .. 8}
Zeros(n) == [k \in 1 .. n |-> 0]
MCGarbage ==
    Short \cup {<<20, 1, 0, 0, 0, 0, 0, len>> \o Zeros(n) : len \in {7, 8}, n \in {0, 6, 7}}
          \cup {<<20, flag, 0, 0, 0, len>> \o Zeros(n) :
                   flag \in {0, 255}, len \in {7, 8, 9}, n \in 0 .. 9}

\* ASCII is UTF-8; of the bytes above it the instance meets 255, which never is.
MCStrings == Seq(0 .. 127)

MCValues == -57 .. 480
=============================================================================
