----------------------------- MODULE MCDigLink -----------------------------
(***************************************************************************)
(* Instances of DigLink for TLC: one call of request_infallible and one of *)
(* request_fallible, whose rejection the first has not declared.           *)
(***************************************************************************)
EXTENDS DigLink

CONSTANTS infallible, fallible

Accept == 1
Reject == 2
MCOpcodes == {Accept, Reject}

MCRequest ==
    [c \in Calls |->
        IF c = infallible
        THEN [method |-> "request_infallible", replies |-> <<Accept>>]
        ELSE [method |-> "request_fallible", replies |-> <<Accept, Reject>>]]

\* Frames on the ids the calls are given first, and on none.
MCFrames == {f \in Frame : f.id \in {NoId, 0, 1}}

\* One frame of each kind, for the liveness runs.
MCFewFrames == {f \in Frame : f.id \in {NoId, 0} /\ f.op # Reject}
=============================================================================
