------------------------ MODULE MCOpcodeRateLimiter ------------------------
(***************************************************************************)
(* An instance of OpcodeRateLimiter for TLC: one opcode in each part of    *)
(* the table, and one whose budget the factor takes below one message.     *)
(***************************************************************************)
EXTENDS OpcodeRateLimiter

MCTypes == {"NewTransaction", "Handshake", "RequestPeers"}
MCOpcodes == {21, 1, 43, 220}
MCWireByte == [t \in MCTypes |-> CASE t = "NewTransaction" -> 21
                                   [] t = "Handshake" -> 1
                                   [] t = "RequestPeers" -> 43]

MCRateLimit(frequency, maxSize, maxTotalSize) ==
    [frequency |-> frequency, maxSize |-> maxSize, maxTotalSize |-> maxTotalSize]

\* With a factor of one half: two transactions or default messages in a
\* window, three handshakes, no RequestPeers, two of the last two kinds.
MCTxTable == [t \in {"NewTransaction"} |-> MCRateLimit(4, 2, Unset)]
MCOtherTable == [t \in {"Handshake", "RequestPeers"} |->
                    IF t = "Handshake" THEN MCRateLimit(6, 3, 8) ELSE MCRateLimit(1, 2, Unset)]
MCDefaultSettings == MCRateLimit(4, 3, 4)
MCSizes == {1, 2, 3}
=============================================================================
