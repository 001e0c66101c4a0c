----------------------------- MODULE SendPath -----------------------------
(***************************************************************************)
(* DigLink::send_message and DigLink::close (src/src/link.rs): callers     *)
(* that share one outbound rate limiter and one sink, each behind a lock.  *)
(*                                                                         *)
(* A member of Senders is one call of send_message, a member of Closers    *)
(* one call of close.  A step is what a call does between two awaits: one  *)
(* poll of the limiter, a sleep, a place in the sink's lock queue, handing *)
(* the frame to the websocket, flushing it.  A call may be dropped at any  *)
(* await.  The limiter's arithmetic is OpcodeRateLimiter's.                *)
(***************************************************************************)
EXTENDS Integers, Sequences, FiniteSets

CONSTANTS
    Types, Opcodes, WireByte, TxTable, OtherTable, DefaultSettings,
    NonTxFrequency, NonTxMaxTotalSize, FactorNum, FactorDen,
    ResetSeconds,   \* RATE_LIMIT_WINDOW_SECONDS
    Senders,        \* calls of send_message
    Closers,        \* calls of close
    Message,        \* Message[s]: the opcode and size of what s sends
    Droppers,       \* the calls whose future the application may drop
    SendTimeout,    \* LinkOptions::send_timeout
    Backoff,        \* RATE_LIMIT_BACKOFF
    LastStart,      \* bound: no call starts later than this
    MaxNow          \* bound on time

Callers == Senders \cup Closers

ASSUME CallersAssumption ==
    /\ IsFiniteSet(Senders) /\ Senders \cap Closers = {}
    /\ Droppers \subseteq Callers
ASSUME MessageAssumption == Message \in [Senders -> [op : Opcodes, size : Nat]]
ASSUME TimeAssumption ==
    /\ ResetSeconds \in Nat \ {0} /\ SendTimeout \in Nat /\ Backoff \in Nat \ {0}
    /\ LastStart \in Nat /\ MaxNow \in Nat

VARIABLES
    period, counts, cumulativeSizes, nonTxCount, nonTxSize,  \* the limiter
    now,          \* time; wall clock and Instant::now advance together
    pc,           \* where each call is; its last value is the call's result
    deadline,     \* deadline[s], set when s starts
    wake,         \* wake[s]: when s's sleep ends
    sinkQueue,    \* the sink's lock: its holder and, in order, those waiting
    wire,         \* the frames handed to the websocket
    admittedAt    \* history: the time each call was admitted

limiterVars == <<period, counts, cumulativeSizes, nonTxCount, nonTxSize>>
vars == <<limiterVars, now, pc, deadline, wake, sinkQueue, wire, admittedAt>>

\* The limiter, at the time it is now.  What OpcodeRateLimiter keeps only for
\* its own properties is not used here.
Limiter == INSTANCE OpcodeRateLimiter
               WITH clock <- now, direction <- "Outbound", MaxClock <- MaxNow,
                    Sizes <- {Message[s].size : s \in Senders}, MaxCalls <- 0,
                    offered <- <<>>, admitted <- <<>>, refused <- {},
                    calledIn <- 0, calls <- 0, last <- {}

\* What the limiter assumes of its table and factor.
ASSUME LimiterAssumption ==
    /\ WireByte \in [Types -> Opcodes]
    /\ \A t, u \in Types : WireByte[t] = WireByte[u] => t = u
    /\ Limiter!IsTable(TxTable) /\ Limiter!IsTable(OtherTable)
    /\ DefaultSettings \in Limiter!RateLimit
    /\ NonTxFrequency \in Nat /\ NonTxMaxTotalSize \in Nat
    /\ FactorNum \in Nat /\ FactorDen \in Nat \ {0}

Never == -1
Results == {"sent", "unsendable", "timedOut", "failed", "dropped"}
States == {"idle", "polling", "sleeping", "admitted", "locking", "flushing"} \cup Results
Done(s) == pc[s] \in Results

Init ==
    /\ now = 0
    /\ period = Limiter!Window
    /\ counts = Limiter!Nothing
    /\ cumulativeSizes = Limiter!Nothing
    /\ nonTxCount = 0
    /\ nonTxSize = 0
    /\ pc = [s \in Callers |-> "idle"]
    /\ deadline = [s \in Senders |-> Never]
    /\ wake = [s \in Senders |-> Never]
    /\ sinkQueue = <<>>
    /\ wire = <<>>
    /\ admittedAt = [s \in Senders |-> Never]

-----------------------------------------------------------------------------
(* The limiter and the wait for budget *)

\* Instant::now() + send_timeout
Deadline == now + SendTimeout

\* close has no budget to wait for.
Start(s) ==
    /\ pc[s] = "idle"
    /\ now <= LastStart
    /\ IF s \in Senders
       THEN /\ pc' = [pc EXCEPT ![s] = "polling"]
            /\ deadline' = [deadline EXCEPT ![s] = Deadline]
       ELSE /\ pc' = [pc EXCEPT ![s] = "admitted"]
            /\ UNCHANGED deadline
    /\ UNCHANGED <<limiterVars, now, wake, sinkQueue, wire, admittedAt>>

\* Mutant of GivesUp: the timeout taken for the backoff.
GivesUpOnRetry(s) == now + SendTimeout > deadline[s]

\* The next poll would come after the deadline.
GivesUp(s) == now + Backoff > deadline[s]

\* Mutant of AfterDeferral: out of time, the sender goes on to the sink.
SendsAnyway(s) == IF GivesUp(s) THEN "admitted" ELSE "sleeping"

AfterDeferral(s) == IF GivesUp(s) THEN "timedOut" ELSE "sleeping"

\* One turn of the loop: the verdict under the limiter's lock and, on a
\* deferral, the sleep or the end.
Poll(s) ==
    /\ s \in Senders
    /\ pc[s] = "polling"
    /\ LET op == Message[s].op
           new == Limiter!Plus(Limiter!Current, op, Message[s].size)
           verdict == Limiter!Verdict(op, Message[s].size, new)
           kept == IF Limiter!IsCharged(verdict) THEN new ELSE Limiter!Current
       IN  /\ period' = Limiter!NextPeriod
           /\ counts' = kept.count
           /\ cumulativeSizes' = kept.size
           /\ nonTxCount' = kept.nonTxCount
           /\ nonTxSize' = kept.nonTxSize
           /\ pc' = [pc EXCEPT ![s] =
                        CASE verdict = "Admitted" -> "admitted"
                          [] verdict = "Unsendable" -> "unsendable"
                          [] verdict = "Deferred" -> AfterDeferral(s)]
           /\ wake' = IF pc'[s] = "sleeping" THEN [wake EXCEPT ![s] = now + Backoff] ELSE wake
           /\ admittedAt' = IF verdict = "Admitted" THEN [admittedAt EXCEPT ![s] = now]
                                                    ELSE admittedAt
    /\ UNCHANGED <<now, deadline, sinkQueue, wire>>

\* The sleep ends, on time or late.
Wake(s) ==
    /\ pc[s] = "sleeping"
    /\ now >= wake[s]
    /\ pc' = [pc EXCEPT ![s] = "polling"]
    /\ UNCHANGED <<limiterVars, now, deadline, wake, sinkQueue, wire, admittedAt>>

-----------------------------------------------------------------------------
(* The sink *)

\* sink.lock(): tokio's mutex is fair, so it is a queue led by its holder.
LockSink(s) ==
    /\ pc[s] = "admitted"
    /\ pc' = [pc EXCEPT ![s] = "locking"]
    /\ sinkQueue' = Append(sinkQueue, s)
    /\ UNCHANGED <<limiterVars, now, deadline, wake, wire, admittedAt>>

HoldsSink(s) == sinkQueue # <<>> /\ Head(sinkQueue) = s

Closed == \E k \in 1 .. Len(wire) : wire[k] \in Closers

\* The holder's frame, or for close the closing handshake, enters the
\* websocket's buffer.  After a handshake no frame does, and a second close
\* only waits for the first to be flushed.
Write(s) ==
    /\ HoldsSink(s)
    /\ pc[s] = "locking"
    /\ Closed => s \in Closers
    /\ pc' = [pc EXCEPT ![s] = "flushing"]
    /\ wire' = IF Closed THEN wire ELSE Append(wire, s)
    /\ UNCHANGED <<limiterVars, now, deadline, wake, sinkQueue, admittedAt>>

\* The peer has read enough for the frame to leave, and the lock is released.
Flush(s) ==
    /\ HoldsSink(s)
    /\ pc[s] = "flushing"
    /\ pc' = [pc EXCEPT ![s] = "sent"]
    /\ sinkQueue' = Tail(sinkQueue)
    /\ UNCHANGED <<limiterVars, now, deadline, wake, wire, admittedAt>>

\* The websocket fails, before or after it took the frame.
WriteFails(s) ==
    /\ HoldsSink(s)
    /\ pc[s] \in {"locking", "flushing"}
    /\ pc' = [pc EXCEPT ![s] = "failed"]
    /\ sinkQueue' = Tail(sinkQueue)
    /\ UNCHANGED <<limiterVars, now, deadline, wake, wire, admittedAt>>

\* The application drops a call's future at an await before the sink's lock ...
Drop(s) ==
    /\ s \in Droppers
    /\ pc[s] \in {"polling", "sleeping", "admitted"}
    /\ pc' = [pc EXCEPT ![s] = "dropped"]
    /\ UNCHANGED <<limiterVars, now, deadline, wake, sinkQueue, wire, admittedAt>>

\* Mutant of LeavesQueue: a dropped call stays where it was.
StaysInQueue(k) == sinkQueue

\* The k-th in the queue, holder or not, leaves it.
LeavesQueue(k) == SubSeq(sinkQueue, 1, k - 1) \o SubSeq(sinkQueue, k + 1, Len(sinkQueue))

\* ... or later: a frame the websocket has taken stays with it.
DropAtSink(s) ==
    /\ s \in Droppers
    /\ pc[s] \in {"locking", "flushing"}
    /\ \E k \in 1 .. Len(sinkQueue) : sinkQueue[k] = s /\ sinkQueue' = LeavesQueue(k)
    /\ pc' = [pc EXCEPT ![s] = "dropped"]
    /\ UNCHANGED <<limiterVars, now, deadline, wake, wire, admittedAt>>

Tick ==
    /\ now < MaxNow
    /\ now' = now + 1
    /\ UNCHANGED <<limiterVars, pc, deadline, wake, sinkQueue, wire, admittedAt>>

-----------------------------------------------------------------------------

\* What a call does on its own, once started, until its frame is in the buffer.
Progress(s) == Poll(s) \/ Wake(s) \/ LockSink(s) \/ Write(s)

Next ==
    \/ \E s \in Callers : \/ Start(s) \/ Progress(s) \/ Flush(s) \/ WriteFails(s)
                          \/ Drop(s) \/ DropAtSink(s)
    \/ Tick

Spec == Init /\ [][Next]_vars

\* Locks are fair, timers fire and time passes; a write ends, by the peer's
\* reading or by an error.
Fairness ==
    /\ \A s \in Callers : WF_vars(Progress(s)) /\ WF_vars(Flush(s) \/ WriteFails(s))
    /\ WF_vars(Tick)

FairSpec == Spec /\ Fairness

-----------------------------------------------------------------------------
(* Properties *)

\* Every variable stays in its type.
TypeOK ==
    /\ period \in Nat
    /\ counts \in [Opcodes -> Nat]
    /\ cumulativeSizes \in [Opcodes -> Nat]
    /\ nonTxCount \in Nat
    /\ nonTxSize \in Nat
    /\ now \in Nat
    /\ pc \in [Callers -> States]
    /\ deadline \in [Senders -> Nat \cup {Never}]
    /\ wake \in [Senders -> Nat \cup {Never}]
    /\ sinkQueue \in Seq(Callers)
    /\ wire \in Seq(Callers)
    /\ admittedAt \in [Senders -> Nat \cup {Never}]

AdmittedIn(w) == {s \in Senders : admittedAt[s] # Never /\ admittedAt[s] \div ResetSeconds = w}
Carrying(op) == {s \in Senders : Message[s].op = op}

\* However often a sender asks, and whether its frame is then written, fails
\* or is given up with its future, the budget is charged once for each sender
\* admitted in the window and for no one else (link.rs:296-308).
ChargedOnce ==
    \A op \in Opcodes : counts[op] = Cardinality(AdmittedIn(period) \cap Carrying(op))

Framed == {wire[k] : k \in 1 .. Len(wire)} \cap Senders

\* "Outbound messages MUST pass an OpcodeRateLimiter before being written"
\* (SPEC.md 7.4): the limiter and the sink are locked one after the other, yet
\* every frame on the wire was admitted, is there once, and no window's
\* admissions put more frames of an opcode there than its budget.
WireBudget ==
    /\ \A s \in Framed : admittedAt[s] # Never
    /\ \A j, k \in 1 .. Len(wire) : wire[j] = wire[k] => j = k
    /\ \A op \in Opcodes, w \in 0 .. Limiter!Window :
           Limiter!Within(Cardinality(Framed \cap AdmittedIn(w) \cap Carrying(op)),
                          Limiter!Limit(op).frequency)

\* When a sender that gave up had first asked.
Began(s) == deadline[s] - SendTimeout

\* What r sends is charged to a budget that what s sends is charged to.
SharesBudget(r, s) ==
    \/ Message[r].op = Message[s].op
    \/ \A q \in {r, s} : Limiter!CountsAgainstNonTx(Message[q].op)

\* "A genuinely transient budget exhaustion always clears" (link.rs:99-101):
\* a sender gives up only if, after the window it started in, another sender
\* was admitted instead of it, to a budget that it needs.  It holds if
\* send_timeout spans a whole window.
TimeoutMeansBusy ==
    \A s \in Senders : pc[s] = "timedOut" =>
        \E r \in Senders \ {s} :
            /\ SharesBudget(r, s)
            /\ admittedAt[r] # Never
            /\ admittedAt[r] \div ResetSeconds > Began(s) \div ResetSeconds

\* A result tells the sender what it may do next (SPEC.md 7.4.2; link.rs:296-316).
\* Sent: its frame is on the wire.  Refused, or out of time: it is not, and was
\* not charged, so that a second call does not make it two frames; and refused
\* means that no window would ever admit it, which of a frame on the wire is false.
ResultsAreTrue ==
    \A s \in Senders :
        /\ pc[s] = "sent" => s \in Framed
        /\ pc[s] \in {"unsendable", "timedOut"} => s \notin Framed /\ admittedAt[s] = Never
        /\ pc[s] = "unsendable" =>
               ~Limiter!FitsAnEmptyWindow(Message[s].op, Message[s].size)
        /\ s \in Framed => Limiter!FitsAnEmptyWindow(Message[s].op, Message[s].size)

\* Every call that is made ends: with the frame sent, a refusal, the timeout,
\* an error, or dropped.
EveryCallEnds == \A s \in Callers : (pc[s] # "idle") ~> Done(s)

\* Where a call is on its way through the sink.
SinkStage ==
    [s \in Callers |-> CASE pc[s] \in {"idle", "polling", "sleeping", "admitted"} -> "outside"
                         [] pc[s] \in {"locking", "flushing"} -> "queued"
                         [] pc[s] \in {"sent", "failed"} -> "served"
                         [] OTHER -> "gone"]

Sink == INSTANCE FairQueue WITH stage <- SinkStage, queue <- sinkQueue

\* Sends and closes go through the sink one at a time, in the order in which
\* they came to it (link.rs:310-315, 446), and one that is dropped at the sink,
\* even half-way through its write, lets the next one in.
SinkIsFair == Sink!Spec
=============================================================================
