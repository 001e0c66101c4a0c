------------------------- MODULE OpcodeRateLimiter -------------------------
(***************************************************************************)
(* The rate limiter of one direction of a link (src/src/rate_limit.rs):    *)
(* per-window budgets for each opcode, an aggregate budget, and a verdict  *)
(* that tells a refusal worth waiting out from a permanent one.            *)
(*                                                                         *)
(* The limiter is used under a lock, so one call of admit is one action.   *)
(* Its windows are those of the wall clock, which may be set forward or    *)
(* back at any time.  Budgets are `limit * limit_factor` in the code's     *)
(* floating point; here the factor is the fraction FactorNum / FactorDen   *)
(* and a comparison is multiplied out, so all of it is in integers.        *)
(***************************************************************************)
EXTENDS Integers

CONSTANTS
    Types,             \* ProtocolMessageTypes: the keys of the source table
    Opcodes,           \* the wire bytes messages carry
    WireByte,          \* WireByte[t]: the byte message type t streams to
    TxTable,           \* RateLimits::tx, a function on some of Types
    OtherTable,        \* RateLimits::other
    DefaultSettings,   \* RateLimits::default_settings
    NonTxFrequency,    \* RateLimits::non_tx_frequency
    NonTxMaxTotalSize, \* RateLimits::non_tx_max_total_size
    FactorNum,         \* limit_factor, numerator
    FactorDen,         \* limit_factor, denominator
    ResetSeconds,      \* length of a window
    Sizes,             \* payload lengths
    MaxClock,          \* bound on the wall clock
    MaxCalls           \* bound on the calls of admit in one window

Unset == -1
RateLimit == [frequency : Nat, maxSize : Nat, maxTotalSize : Nat \cup {Unset}]

IsTable(table) ==
    /\ DOMAIN table \subseteq Types
    /\ table \in [DOMAIN table -> RateLimit]

ASSUME WireByteAssumption ==
    /\ WireByte \in [Types -> Opcodes]
    /\ \A s, t \in Types : WireByte[s] = WireByte[t] => s = t
ASSUME TableAssumption ==
    /\ IsTable(TxTable)
    /\ IsTable(OtherTable)
    /\ DefaultSettings \in RateLimit
    /\ NonTxFrequency \in Nat
    /\ NonTxMaxTotalSize \in Nat
ASSUME FactorAssumption == FactorNum \in Nat /\ FactorDen \in Nat \ {0}
ASSUME WindowAssumption == ResetSeconds \in Nat \ {0} /\ MaxClock \in Nat
ASSUME SizesAssumption == Sizes \subseteq Nat
ASSUME MaxCallsAssumption == MaxCalls \in Nat

VARIABLES
    direction,         \* the limiter's fields
    period,
    counts,
    cumulativeSizes,
    nonTxCount,
    nonTxSize,
    clock,             \* SystemTime::now(), in seconds
    offered,           \* history: the messages offered, and those admitted,
    admitted,          \*   since a call first fell into the current window
    refused,           \* history: messages refused since then
    calledIn,          \* history: the window of the last call, and the
    calls,             \*   number of calls since one first fell into it
    last               \* history: the last call and its verdict

limiter == <<direction, period, counts, cumulativeSizes, nonTxCount, nonTxSize>>
history == <<offered, admitted, refused, calledIn, calls, last>>
vars == <<limiter, clock, history>>

Clock == 0 .. MaxClock
Window == clock \div ResetSeconds

Verdicts == {"Admitted", "Deferred", "Unsendable"}
Nothing == [op \in Opcodes |-> 0]

\* Traffic in one window: the same four sums the limiter keeps.
NoTraffic == [count |-> Nothing, size |-> Nothing, nonTxCount |-> 0, nonTxSize |-> 0]

-----------------------------------------------------------------------------
(* OpcodeRateLimits *)

\* The source table keyed by wire byte instead of message type.
Rekey(table) ==
    [b \in {WireByte[t] : t \in DOMAIN table} |->
        table[CHOOSE t \in DOMAIN table : WireByte[t] = b]]

Tx == Rekey(TxTable)
Other == Rekey(OtherTable)

\* A row of `tx` first, then one of `other`; every DIG opcode has neither.
Limit(op) ==
    IF op \in DOMAIN Tx THEN Tx[op]
    ELSE IF op \in DOMAIN Other THEN Other[op]
    ELSE DefaultSettings

\* Only the rows of `other` count against the aggregate budget.
CountsAgainstNonTx(op) == op \in DOMAIN Other \ DOMAIN Tx

MaxTotal(op) ==
    IF Limit(op).maxTotalSize = Unset
    THEN Limit(op).frequency * Limit(op).maxSize
    ELSE Limit(op).maxTotalSize

\* amount <= budget * limit_factor
Within(amount, budget) == amount * FactorDen <= budget * FactorNum

-----------------------------------------------------------------------------
(* admit *)

Init ==
    /\ clock \in Clock
    /\ direction \in {"Inbound", "Outbound"}
    /\ period = Window
    /\ counts = Nothing
    /\ cumulativeSizes = Nothing
    /\ nonTxCount = 0
    /\ nonTxSize = 0
    /\ offered = NoTraffic
    /\ admitted = NoTraffic
    /\ refused = {}
    /\ calledIn = Window
    /\ calls = 0
    /\ last = {}

\* Mutants of Rolled: a window starts with every second; only when the clock
\* has gone forward.
RolledEverySecond(counter, empty) == IF period = clock THEN counter ELSE empty
RolledForwardOnly(counter, empty) == IF period >= Window THEN counter ELSE empty

\* roll_window: a counter as the window the clock is in begins with it.
Rolled(counter, empty) == IF period = Window THEN counter ELSE empty

\* Mutant of NextPeriod: the window before.
PeriodBefore == Window - 1

NextPeriod == Window

\* The four sums t with one more message in them.
Plus(t, op, size) ==
    [count |-> [t.count EXCEPT ![op] = @ + 1],
     size |-> [t.size EXCEPT ![op] = @ + size],
     nonTxCount |-> t.nonTxCount + (IF CountsAgainstNonTx(op) THEN 1 ELSE 0),
     nonTxSize |-> t.nonTxSize + (IF CountsAgainstNonTx(op) THEN size ELSE 0)]

Current == [count |-> Rolled(counts, Nothing),
            size |-> Rolled(cumulativeSizes, Nothing),
            nonTxCount |-> Rolled(nonTxCount, 0),
            nonTxSize |-> Rolled(nonTxSize, 0)]

\* Mutant of FitsAnEmptyWindow: the whole-window size budget goes unscaled.
FitsUnscaled(op, size) ==
    /\ size <= Limit(op).maxSize
    /\ size <= MaxTotal(op)
    /\ Within(1, Limit(op).frequency)
    /\ CountsAgainstNonTx(op) => /\ Within(1, NonTxFrequency)
                                 /\ Within(size, NonTxMaxTotalSize)

\* The budgets that a new window does not clear.
FitsAnEmptyWindow(op, size) ==
    /\ size <= Limit(op).maxSize
    /\ Within(size, MaxTotal(op))
    /\ Within(1, Limit(op).frequency)
    /\ CountsAgainstNonTx(op) => /\ Within(1, NonTxFrequency)
                                 /\ Within(size, NonTxMaxTotalSize)

\* Mutant of FitsThisWindow: the aggregate size budget is not looked at.
FitsIgnoringNonTxSize(op, t) ==
    /\ Within(t.nonTxCount, NonTxFrequency)
    /\ Within(t.count[op], Limit(op).frequency)
    /\ Within(t.size[op], MaxTotal(op))

\* Whether the sums t, with a message of opcode op in them, are in budget.
FitsThisWindow(op, t) ==
    /\ Within(t.nonTxCount, NonTxFrequency)
    /\ Within(t.nonTxSize, NonTxMaxTotalSize)
    /\ Within(t.count[op], Limit(op).frequency)
    /\ Within(t.size[op], MaxTotal(op))

Verdict(op, size, t) ==
    IF ~FitsAnEmptyWindow(op, size) THEN "Unsendable"
    ELSE IF FitsThisWindow(op, t) THEN "Admitted" ELSE "Deferred"

\* Mutants of IsCharged: the directions swapped or not told apart.
ChargesEverything(verdict) == TRUE
ChargesAdmittedOnly(verdict) == verdict = "Admitted"

\* A refusal is charged to the peer that sent it, not to our own callers.
IsCharged(verdict) == direction = "Inbound" \/ verdict = "Admitted"

Since(traffic, none) == IF calledIn = Window THEN traffic ELSE none

Admit(op, size) ==
    LET new == Plus(Current, op, size)
        verdict == Verdict(op, size, new)
        kept == IF IsCharged(verdict) THEN new ELSE Current
    IN  /\ Since(calls, 0) < MaxCalls
        /\ period' = NextPeriod
        /\ counts' = kept.count
        /\ cumulativeSizes' = kept.size
        /\ nonTxCount' = kept.nonTxCount
        /\ nonTxSize' = kept.nonTxSize
        /\ offered' = Plus(Since(offered, NoTraffic), op, size)
        /\ admitted' = IF verdict = "Admitted"
                       THEN Plus(Since(admitted, NoTraffic), op, size)
                       ELSE Since(admitted, NoTraffic)
        /\ refused' = Since(refused, {}) \cup
                          (IF verdict = "Admitted" THEN {} ELSE {[op |-> op, size |-> size]})
        /\ calledIn' = Window
        /\ calls' = Since(calls, 0) + 1
        /\ last' = {[op |-> op, size |-> size, verdict |-> verdict,
                     first |-> Since(calls, 0) = 0]}
        /\ UNCHANGED <<direction, clock>>

\* Time passes, or the clock is set, forward or back.
ClockMoves ==
    /\ \E t \in Clock : clock' = t
    /\ clock' # clock
    /\ UNCHANGED <<limiter, history>>

Next ==
    \/ \E op \in Opcodes, size \in Sizes : Admit(op, size)
    \/ ClockMoves

Spec == Init /\ [][Next]_vars

-----------------------------------------------------------------------------
(* Properties *)

Traffic == [count : [Opcodes -> Nat], size : [Opcodes -> Nat],
            nonTxCount : Nat, nonTxSize : Nat]

\* Every variable stays in its type.
TypeOK ==
    /\ direction \in {"Inbound", "Outbound"}
    /\ period \in Nat
    /\ counts \in [Opcodes -> Nat]
    /\ cumulativeSizes \in [Opcodes -> Nat]
    /\ nonTxCount \in Nat
    /\ nonTxSize \in Nat
    /\ clock \in Clock
    /\ offered \in Traffic
    /\ admitted \in Traffic
    /\ refused \subseteq [op : Opcodes, size : Sizes]
    /\ calledIn \in Nat
    /\ calls \in Nat
    /\ last \subseteq [op : Opcodes, size : Sizes, verdict : Verdicts, first : BOOLEAN]

\* The sums t exceed no budget of the tables.
InBudget(t) ==
    /\ \A op \in Opcodes : /\ Within(t.count[op], Limit(op).frequency)
                           /\ Within(t.size[op], MaxTotal(op))
    /\ Within(t.nonTxCount, NonTxFrequency)
    /\ Within(t.nonTxSize, NonTxMaxTotalSize)

\* What is admitted in one window stays within every per-opcode budget and
\* the aggregate one, in both directions, whatever is refused in between and
\* wherever the clock is set (SPEC.md 7.4, C13).
WithinBudgets == InBudget(admitted)

\* A refusal is of the right kind (SPEC.md 7.4.2): "Deferred" only if a window
\* with nothing else in it has room for the message, "Unsendable" only if that
\* message alone breaks a budget or its own size cap, so no wait can help.
\* (The code writes the two conditions out separately, rate_limit.rs:206-224.)
RefusalKind ==
    \A call \in last :
        LET fitsAlone == /\ call.size <= Limit(call.op).maxSize
                         /\ InBudget(Plus(NoTraffic, call.op, call.size))
        IN  /\ call.verdict = "Deferred" => fitsAlone
            /\ call.verdict = "Unsendable" => ~fitsAlone

\* No message is admitted after one that was no larger, of the same opcode,
\* was refused in the same window: "the window stays exhausted" (SPEC.md
\* 7.4.1), and a caller gains nothing by asking again within it.
RefusalStands ==
    \A call \in last : call.verdict = "Admitted" =>
        ~\E m \in refused : m.op = call.op /\ m.size <= call.size

\* "A roll resets every counter" (link.rs:100-101): the first message after
\* the clock has entered another window, either way, is never deferred.
FreshWindowNeverDefers ==
    \A call \in last : call.first => call.verdict # "Deferred"

\* Outbound, "a caller that backs off and retries must not be permanently
\* penalised for having asked early" (rate_limit.rs:108-109): a message is
\* deferred only if it does not fit beside what has really been admitted, and
\* one outside `other` only for its own opcode's traffic.
OutboundDeferralIsEarned ==
    \A call \in last :
        direction = "Outbound" /\ call.verdict = "Deferred" =>
            LET t == Plus(admitted, call.op, call.size) IN
            \/ ~Within(t.count[call.op], Limit(call.op).frequency)
            \/ ~Within(t.size[call.op], MaxTotal(call.op))
            \/ /\ CountsAgainstNonTx(call.op)
               /\ \/ ~Within(t.nonTxCount, NonTxFrequency)
                  \/ ~Within(t.nonTxSize, NonTxMaxTotalSize)

\* Inbound, nothing is admitted into a window whose traffic, refused frames
\* included, is over the opcode's or the aggregate budget (SPEC.md 7.4.1, C16).
InboundChargesRefusals ==
    \A call \in last :
        direction = "Inbound" /\ call.verdict = "Admitted" =>
            /\ Within(offered.count[call.op], Limit(call.op).frequency)
            /\ Within(offered.size[call.op], MaxTotal(call.op))
            /\ Within(offered.nonTxCount, NonTxFrequency)
            /\ Within(offered.nonTxSize, NonTxMaxTotalSize)

-----------------------------------------------------------------------------
(* A statement of the documentation that the code does not keep *)

\* rate_limit.rs:125-126: "an aggregate budget for everything that is not a
\* transaction message": a transaction message is deferred only for the
\* traffic of its own opcode.
AggregateSparesTransactions ==
    \A call \in last :
        call.op \in DOMAIN Tx /\ call.verdict = "Deferred" =>
            \/ ~Within(offered.count[call.op], Limit(call.op).frequency)
            \/ ~Within(offered.size[call.op], MaxTotal(call.op))
=============================================================================
