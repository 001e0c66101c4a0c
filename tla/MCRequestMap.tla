---------------------------- MODULE MCRequestMap ----------------------------
(***************************************************************************)
(* Instances of RequestMap for TLC: one opcode every call declares and one *)
(* that none does, and calls that are alike.                               *)
(***************************************************************************)
EXTENDS RequestMap, TLC

MCOpcodes == {"answer", "junk"}
MCExpected == [c \in Calls |-> {"answer"}]

\* The calls differ in name only, in what they declare, and in whether they
\* may be dropped.  (Sound for the safety runs alone.)
Symmetry == Permutations(Abandoners) \cup Permutations(Calls \ Abandoners)
=============================================================================
