----------------------------- MODULE FairQueue -----------------------------
(***************************************************************************)
(* What the link relies on from tokio's Mutex and Semaphore: callers are   *)
(* served in the order in which they came, and one whose future is dropped *)
(* leaves no trace.                                                        *)
(*                                                                         *)
(* A link has two such queues: the permits of its request map, where being *)
(* served is getting a permit (RequestMap), and the lock of its sink,      *)
(* where it is being done with the write (SendPath, DigLink).              *)
(***************************************************************************)
EXTENDS Integers, Sequences

CONSTANT Callers

VARIABLES
    stage,   \* stage[c]: "outside", "queued", "served" or "gone"
    queue    \* those who are queued, the next to be served first

vars == <<stage, queue>>

Init ==
    /\ stage = [c \in Callers |-> "outside"]
    /\ queue = <<>>

Goes(c, from, to) == stage[c] \in from /\ stage' = [stage EXCEPT ![c] = to]

Join(c) ==
    /\ Goes(c, {"outside"}, "queued")
    /\ queue' = Append(queue, c)

Serve(c) ==
    /\ Goes(c, {"queued"}, "served")
    /\ queue # <<>> /\ Head(queue) = c
    /\ queue' = Tail(queue)

\* Its turn has come or not.
GiveUp(c) ==
    /\ Goes(c, {"queued"}, "gone")
    /\ \E k \in 1 .. Len(queue) :
        /\ queue[k] = c
        /\ queue' = SubSeq(queue, 1, k - 1) \o SubSeq(queue, k + 1, Len(queue))

\* It never queues, or what it does after its turn fails.
Leave(c) ==
    /\ Goes(c, {"outside", "served"}, "gone")
    /\ UNCHANGED queue

Next == \E c \in Callers : Join(c) \/ Serve(c) \/ GiveUp(c) \/ Leave(c)

Spec == Init /\ [][Next]_vars

-----------------------------------------------------------------------------
(* Properties *)

\* The queue holds the callers that are queued, each once, and no one else: a
\* permit or the sink is never kept for a call that was dropped.
HoldsTheQueued ==
    /\ \A c \in Callers : stage[c] = "queued" <=> \E k \in 1 .. Len(queue) : queue[k] = c
    /\ \A j, k \in 1 .. Len(queue) : queue[j] = queue[k] => j = k

\* No one is served while another who came before is queued, and those who
\* stay queued stay in the order in which they came.
ServedInOrder ==
    [][\A j, k \in 1 .. Len(queue) : j < k /\ stage'[queue[j]] = "queued" =>
           /\ stage'[queue[k]] # "served"
           /\ \A m, n \in 1 .. Len(queue') :
                  queue'[m] = queue[j] /\ queue'[n] = queue[k] => m < n]_vars
=============================================================================
