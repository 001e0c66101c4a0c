----------------------------- MODULE MCSendPath -----------------------------
(***************************************************************************)
(* Instances of SendPath for TLC: a window has room for one frame of each  *)
(* opcode, so that senders of the same one wait for each other's windows   *)
(* to pass.                                                                *)
(***************************************************************************)
EXTENDS SendPath

CONSTANTS s1, s2, big, close

MCTypes == {}
MCOpcodes == {220}
MCRateLimit == [frequency |-> 1, maxSize |-> 2, maxTotalSize |-> -1]
MCTable == [t \in MCTypes |-> MCRateLimit]
MCWireByte == [t \in MCTypes |-> 220]

\* One message is too large for any window.
MCMessage == [s \in Senders |-> [op |-> 220, size |-> IF s = big THEN 3 ELSE 1]]
=============================================================================
