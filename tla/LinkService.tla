---------------------------- MODULE LinkService ----------------------------
(***************************************************************************)
(* What a link promises its users, with no map, reader, locks or sink.     *)
(*                                                                         *)
(* Requests are asked and end once, each with a reply or without one.  A   *)
(* frame the peer sent is used at most once: as the reply of one request   *)
(* that declared its opcode, or by the application, which sees the frames  *)
(* it is given in the order in which they were sent.                       *)
(***************************************************************************)
EXTENDS Integers, Sequences

CONSTANTS
    Requests,   \* calls of the request methods
    Declared,   \* Declared[r]: the opcodes that can answer r
    Frames,     \* what the peer can send
    Messages    \* the frames that are messages

VARIABLES
    log,        \* the frames the peer has sent, in order
    state,      \* state[r]: "new", "asked", "answered" or "failed"
    answer,     \* answer[r]: the position in log of r's reply, 0 for none
    published   \* the positions in log of the frames given to the application

vars == <<log, state, answer, published>>

Init ==
    /\ log = <<>>
    /\ state = [r \in Requests |-> "new"]
    /\ answer = [r \in Requests |-> 0]
    /\ published = <<>>

\* A position not yet used by a request or the application.
Unused(n) ==
    /\ \A r \in Requests : answer[r] # n
    /\ \A k \in 1 .. Len(published) : published[k] # n

Send(f) ==
    /\ log' = Append(log, f)
    /\ UNCHANGED <<state, answer, published>>

Ask(r) ==
    /\ state[r] = "new"
    /\ state' = [state EXCEPT ![r] = "asked"]
    /\ UNCHANGED <<log, answer, published>>

\* A frame is taken for the reply of a request, which may miss it.
Match(r, n) ==
    /\ state[r] # "new"
    /\ answer[r] = 0
    /\ log[n] \in Messages /\ log[n].op \in Declared[r]
    /\ Unused(n)
    /\ answer' = [answer EXCEPT ![r] = n]
    /\ UNCHANGED <<log, state, published>>

Answer(r) ==
    /\ state[r] = "asked"
    /\ answer[r] # 0
    /\ state' = [state EXCEPT ![r] = "answered"]
    /\ UNCHANGED <<log, answer, published>>

Fail(r) ==
    /\ state[r] = "asked"
    /\ state' = [state EXCEPT ![r] = "failed"]
    /\ UNCHANGED <<log, answer, published>>

Publish(n) ==
    /\ log[n] \in Messages
    /\ Unused(n)
    /\ \A k \in 1 .. Len(published) : published[k] < n
    /\ published' = Append(published, n)
    /\ UNCHANGED <<log, state, answer>>

Next ==
    \/ \E f \in Frames : Send(f)
    \/ \E r \in Requests : Ask(r) \/ Answer(r) \/ Fail(r)
    \/ \E r \in Requests, n \in 1 .. Len(log) : Match(r, n)
    \/ \E n \in 1 .. Len(log) : Publish(n)

Spec == Init /\ [][Next]_vars

-----------------------------------------------------------------------------
(* Properties *)

\* Whoever is answered is answered with a message the peer sent, of an opcode
\* it declared, that is no one else's answer and is not given to the
\* application; and what the application is given it is given in order.
EachFrameHasOneUse ==
    /\ \A r \in Requests : state[r] = "answered" => answer[r] # 0
    /\ \A r \in Requests : answer[r] # 0 =>
          /\ answer[r] \in 1 .. Len(log)
          /\ log[answer[r]] \in Messages /\ log[answer[r]].op \in Declared[r]
          /\ \A s \in Requests \ {r} : answer[s] # answer[r]
          /\ \A k \in 1 .. Len(published) : published[k] # answer[r]
    /\ \A k \in 1 .. Len(published) :
          /\ published[k] \in 1 .. Len(log) /\ log[published[k]] \in Messages
          /\ \A j \in 1 .. k - 1 : published[j] < published[k]

\* A request that has ended stays as it ended, its answer is not replaced, and
\* what the application was given is not taken back.
OutcomesAreFinal ==
    [][/\ \A r \in Requests :
            /\ state[r] \in {"answered", "failed"} => state'[r] = state[r]
            /\ answer[r] # 0 => answer'[r] = answer[r]
       /\ Len(published) <= Len(published')
       /\ \A k \in 1 .. Len(published) : published'[k] = published[k]]_vars
=============================================================================
