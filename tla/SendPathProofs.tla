--------------------------- MODULE SendPathProofs ---------------------------
(***************************************************************************)
(* Proofs about SendPath, for every set of senders and messages, every     *)
(* table, window, timeout and backoff.  What holds of the limiter's rates  *)
(* and budgets is taken from its own proofs.                               *)
(***************************************************************************)
EXTENDS SendPath, FiniteSetTheorems, TLAPS

LimiterProofs == INSTANCE OpcodeRateLimiterProofs
               WITH clock <- now, direction <- "Outbound", MaxClock <- MaxNow,
                    Sizes <- {Message[s].size : s \in Senders}, MaxCalls <- 0,
                    offered <- <<>>, admitted <- <<>>, refused <- {},
                    calledIn <- 0, calls <- 0, last <- {}

\* The limiter of SendPath is the one those proofs are about.
LEMMA SameTables == /\ Limiter!Tx = LimiterProofs!Tx
                    /\ Limiter!Other = LimiterProofs!Other
  BY DEF Limiter!Tx, LimiterProofs!Tx, Limiter!Other, LimiterProofs!Other,
         Limiter!Rekey, LimiterProofs!Rekey

\* What the limiter's proofs assume holds of the constants of this module.
LEMMA LimiterHypotheses ==
    /\ \A t, u \in Types : WireByte[t] = WireByte[u] => t = u
    /\ WireByte \in [Types -> Opcodes]
    /\ LimiterProofs!IsTable(TxTable) /\ LimiterProofs!IsTable(OtherTable)
    /\ DefaultSettings \in LimiterProofs!RateLimit
    /\ NonTxFrequency \in Nat /\ NonTxMaxTotalSize \in Nat
    /\ FactorNum \in Nat /\ FactorDen \in Nat \ {0}
    /\ ResetSeconds \in Nat \ {0} /\ MaxNow \in Nat
    /\ {Message[s].size : s \in Senders} \subseteq Nat
  BY LimiterAssumption, TimeAssumption, MessageAssumption
     DEF Limiter!IsTable, Limiter!RateLimit, Limiter!Unset,
         LimiterProofs!IsTable, LimiterProofs!RateLimit, LimiterProofs!Unset

\* The two conditions of a verdict, on a message and the sums it is added to.
LEMMA OnItsOwn ==
    ASSUME NEW op \in Opcodes, NEW size \in Nat, Limiter!FitsAnEmptyWindow(op, size)
    PROVE  /\ Limiter!Within(1, Limiter!Limit(op).frequency)
           /\ Limiter!Within(size, Limiter!MaxTotal(op))
           /\ Limiter!CountsAgainstNonTx(op) =>
                  /\ Limiter!Within(1, NonTxFrequency)
                  /\ Limiter!Within(size, NonTxMaxTotalSize)
  BY DEF Limiter!FitsAnEmptyWindow

LEMMA NothingFits ==
    Limiter!Within(0, NonTxFrequency) /\ Limiter!Within(0, NonTxMaxTotalSize)
  BY LimiterAssumption DEF Limiter!Within

-----------------------------------------------------------------------------
(* What a poll does *)

Traffic == [count : [Opcodes -> Nat], size : [Opcodes -> Nat],
            nonTxCount : Nat, nonTxSize : Nat]

\* The limiter's sums as one record, before and after a step.
Kept == [count |-> counts, size |-> cumulativeSizes,
         nonTxCount |-> nonTxCount, nonTxSize |-> nonTxSize]

LEMMA NoTrafficType == Limiter!NoTraffic \in Traffic
  BY DEF Limiter!NoTraffic, Limiter!Nothing, Traffic

LEMMA PlusType ==
    ASSUME NEW t \in Traffic, NEW op \in Opcodes, NEW size \in Nat
    PROVE  Limiter!Plus(t, op, size) \in Traffic
  BY DEF Limiter!Plus, Traffic

\* The limiter's sums when its lock is taken: as it left them, or none.
LEMMA CurrentIs ==
    ASSUME TypeOK
    PROVE  /\ Limiter!Current \in Traffic
           /\ period = Limiter!Window => Limiter!Current = Kept
           /\ period # Limiter!Window => Limiter!Current = Limiter!NoTraffic
<1>1. period = Limiter!Window => Limiter!Current = Kept
  BY DEF Limiter!Current, Limiter!Rolled, Kept
<1>2. period # Limiter!Window => Limiter!Current = Limiter!NoTraffic
  BY DEF Limiter!Current, Limiter!Rolled, Limiter!NoTraffic
<1>3. Kept \in Traffic
  BY DEF TypeOK, Kept, Traffic
<1>4. QED
  BY <1>1, <1>2, <1>3, NoTrafficType

LEMMA WindowType == ASSUME now \in Nat PROVE Limiter!Window \in Nat
  BY TimeAssumption DEF Limiter!Window

\* A poll admits and charges, or leaves the sums as they are and refuses.
LEMMA PollStep ==
    ASSUME TypeOK, NEW s \in Senders, Poll(s)
    PROVE  /\ period' = Limiter!Window /\ Kept' \in Traffic
           /\ \/ /\ pc' = [pc EXCEPT ![s] = "admitted"]
                 /\ admittedAt' = [admittedAt EXCEPT ![s] = now]
                 /\ wake' = wake
                 /\ Kept' = Limiter!Plus(Limiter!Current, Message[s].op, Message[s].size)
                 /\ Limiter!FitsThisWindow(Message[s].op, Kept')
              \/ /\ pc' = [pc EXCEPT ![s] = "unsendable"]
                 /\ admittedAt' = admittedAt
                 /\ wake' = wake
                 /\ Kept' = Limiter!Current
              \/ /\ pc' = [pc EXCEPT ![s] = AfterDeferral(s)]
                 /\ admittedAt' = admittedAt
                 /\ wake' = IF GivesUp(s) THEN wake ELSE [wake EXCEPT ![s] = now + Backoff]
                 /\ Kept' = Limiter!Current
                 /\ Limiter!Verdict(Message[s].op, Message[s].size,
                        Limiter!Plus(Limiter!Current, Message[s].op, Message[s].size)) = "Deferred"
<1> DEFINE op == Message[s].op
           size == Message[s].size
           new == Limiter!Plus(Limiter!Current, op, size)
           verdict == Limiter!Verdict(op, size, new)
           kept == IF Limiter!IsCharged(verdict) THEN new ELSE Limiter!Current
<1>1. op \in Opcodes /\ size \in Nat
  BY MessageAssumption
<1>2. new \in Traffic /\ Limiter!Current \in Traffic
  BY <1>1, CurrentIs, PlusType
<1>3. verdict \in {"Admitted", "Unsendable", "Deferred"}
  BY DEF Limiter!Verdict
<1>4. kept = IF verdict = "Admitted" THEN new ELSE Limiter!Current
  BY DEF Limiter!IsCharged
<1>5. verdict = Limiter!Verdict(op, size, Limiter!Plus(Limiter!Current, op, size))
  OBVIOUS
<1>6. /\ period' = Limiter!Window
      /\ counts' = kept.count /\ cumulativeSizes' = kept.size
      /\ nonTxCount' = kept.nonTxCount /\ nonTxSize' = kept.nonTxSize
      /\ pc' = [pc EXCEPT ![s] =
                   CASE verdict = "Admitted" -> "admitted"
                     [] verdict = "Unsendable" -> "unsendable"
                     [] verdict = "Deferred" -> AfterDeferral(s)]
      /\ wake' = IF pc'[s] = "sleeping" THEN [wake EXCEPT ![s] = now + Backoff] ELSE wake
      /\ admittedAt' = IF verdict = "Admitted" THEN [admittedAt EXCEPT ![s] = now]
                                               ELSE admittedAt
  BY DEF Poll, Limiter!NextPeriod
<1> HIDE DEF new, verdict, kept
<1>7. kept \in Traffic
  BY <1>2, <1>4
<1>8. Kept' = kept
  BY <1>6, <1>7 DEF Kept, Traffic
<1>9. s \in DOMAIN pc
  BY DEF TypeOK, Callers
<1>10. CASE verdict = "Admitted"
  <2>1. Limiter!FitsThisWindow(op, new)
    BY <1>10 DEF verdict, Limiter!Verdict
  <2>2. Kept' = new
    BY <1>4, <1>8, <1>10
  <2>3. QED
    BY <1>6, <1>7, <1>8, <1>9, <1>10, <2>1, <2>2 DEF new
<1>11. CASE verdict = "Unsendable"
  BY <1>4, <1>6, <1>7, <1>8, <1>9, <1>11
<1>12. CASE verdict = "Deferred"
  <2>1. pc' = [pc EXCEPT ![s] = AfterDeferral(s)]
    BY <1>6, <1>12
  <2>2. pc'[s] = "sleeping" <=> ~GivesUp(s)
    BY <2>1, <1>9 DEF AfterDeferral
  <2>3. QED
    BY <2>1, <2>2, <1>4, <1>5, <1>6, <1>7, <1>8, <1>12
<1>13. QED
  BY <1>3, <1>10, <1>11, <1>12

-----------------------------------------------------------------------------
(* Type correctness *)

LEMMA InitTypes == Init => TypeOK
  BY TimeAssumption, WindowType
     DEF Init, TypeOK, Limiter!Nothing, States, Results, Callers

LEMMA NextTypes == TypeOK /\ [Next]_vars => TypeOK'
<1> SUFFICES ASSUME TypeOK, [Next]_vars PROVE TypeOK'
  OBVIOUS
<1>1. ASSUME NEW s \in Callers, Start(s) PROVE TypeOK'
  <2>1. CASE s \in Senders
    <3>1. now + SendTimeout \in Nat
      BY TimeAssumption DEF TypeOK
    <3>2. deadline' \in [Senders -> Nat \cup {Never}] /\ pc' \in [Callers -> States]
      BY <1>1, <2>1, <3>1 DEF Start, Deadline, TypeOK, States
    <3>3. QED
      BY <1>1, <3>2 DEF Start, TypeOK, limiterVars
  <2>2. CASE s \notin Senders
    BY <1>1, <2>2 DEF Start, TypeOK, States, limiterVars
  <2>3. QED
    BY <2>1, <2>2
<1>2. ASSUME NEW s \in Callers, Poll(s) PROVE TypeOK'
  <2>1. s \in Senders /\ UNCHANGED <<now, deadline, sinkQueue, wire>>
    BY <1>2 DEF Poll
  <2>2. period' \in Nat /\ Kept' \in Traffic
    BY <1>2, <2>1, PollStep, WindowType DEF TypeOK
  <2>3. /\ counts' \in [Opcodes -> Nat] /\ cumulativeSizes' \in [Opcodes -> Nat]
        /\ nonTxCount' \in Nat /\ nonTxSize' \in Nat
    BY <2>2 DEF Kept, Traffic
  <2>4. AfterDeferral(s) \in States /\ {"admitted", "unsendable"} \subseteq States
    BY DEF AfterDeferral, States, Results
  <2>5. now + Backoff \in Nat
    BY TimeAssumption DEF TypeOK
  <2>6. /\ pc' \in [Callers -> States]
        /\ wake' \in [Senders -> Nat \cup {Never}]
        /\ admittedAt' \in [Senders -> Nat \cup {Never}]
    <3>1. /\ pc \in [Callers -> States] /\ now \in Nat
          /\ wake \in [Senders -> Nat \cup {Never}]
          /\ admittedAt \in [Senders -> Nat \cup {Never}]
      BY DEF TypeOK
    <3>2. QED
      BY <1>2, <2>1, <2>4, <2>5, <3>1, PollStep
  <2>7. QED
    BY <2>1, <2>2, <2>3, <2>6 DEF TypeOK
<1>3. ASSUME NEW s \in Callers, Wake(s) PROVE TypeOK'
  BY <1>3 DEF Wake, TypeOK, States, Results, limiterVars
<1>4. ASSUME NEW s \in Callers, LockSink(s) PROVE TypeOK'
  BY <1>4 DEF LockSink, TypeOK, States, Results, limiterVars
<1>5. ASSUME NEW s \in Callers, Write(s) PROVE TypeOK'
  BY <1>5 DEF Write, TypeOK, States, Results, limiterVars
<1>6. ASSUME NEW s \in Callers, Flush(s) \/ WriteFails(s) PROVE TypeOK'
  <2>1. sinkQueue' = Tail(sinkQueue) /\ sinkQueue # <<>> /\ sinkQueue \in Seq(Callers)
    BY <1>6 DEF Flush, WriteFails, HoldsSink, TypeOK
  <2>2. sinkQueue' \in Seq(Callers)
    BY <2>1
  <2>3. pc' \in [Callers -> States]
    BY <1>6 DEF Flush, WriteFails, TypeOK, States, Results
  <2>4. QED
    BY <1>6, <2>2, <2>3 DEF Flush, WriteFails, TypeOK, limiterVars
<1>7. ASSUME NEW s \in Callers, Drop(s) PROVE TypeOK'
  <2>1. pc' \in [Callers -> States]
    BY <1>7 DEF Drop, TypeOK, States, Results
  <2>2. QED
    BY <1>7, <2>1 DEF Drop, TypeOK, limiterVars
<1>8. ASSUME NEW s \in Callers, DropAtSink(s) PROVE TypeOK'
  <2>1. sinkQueue' \in Seq(Callers)
    BY <1>8 DEF DropAtSink, LeavesQueue, TypeOK
  <2>2. QED
    BY <1>8, <2>1 DEF DropAtSink, TypeOK, States, Results, limiterVars
<1>9. CASE Tick
  BY <1>9 DEF Tick, TypeOK, limiterVars
<1>10. CASE UNCHANGED vars
  BY <1>10 DEF vars, limiterVars, TypeOK
<1>11. QED
  BY <1>1, <1>2, <1>3, <1>4, <1>5, <1>6, <1>7, <1>8, <1>9, <1>10 DEF Next, Progress

\* Type correctness: in particular, a call is always at one of the awaits of
\* send_message or close, or has one of their results.
THEOREM TypeCorrect == Spec => []TypeOK
<1>1. Init => TypeOK
  BY InitTypes
<1>2. TypeOK /\ [Next]_vars => TypeOK'
  BY NextTypes
<1>3. QED
  BY <1>1, <1>2, PTL DEF Spec

-----------------------------------------------------------------------------
(* A sender gives up only because of others *)

\* The sums t come from the senders A: each opcode's from one that sends it, the
\* aggregate ones from one that counts against them, and these are in budget.
Accounted(t, A) ==
    /\ \A op \in Opcodes :
           t.count[op] # 0 \/ t.size[op] # 0 => \E r \in A : Message[r].op = op
    /\ t.nonTxCount # 0 \/ t.nonTxSize # 0 =>
           \E r \in A : Limiter!CountsAgainstNonTx(Message[r].op)
    /\ Limiter!Within(t.nonTxCount, NonTxFrequency)
    /\ Limiter!Within(t.nonTxSize, NonTxMaxTotalSize)

\* The limiter's sums come from the senders admitted in their window.
Books == Accounted(Kept, AdmittedIn(period))

\* A sender is admitted at most once, and its deadline stays where it was set.
Timing ==
    \A s \in Senders :
        /\ pc[s] \in {"idle", "polling", "sleeping", "unsendable", "timedOut"}
               => admittedAt[s] = Never
        /\ pc[s] # "idle" => Began(s) \in Nat

BusyInv == TypeOK /\ Books /\ Timing /\ TimeoutMeansBusy

LEMMA NothingAccounted == ASSUME NEW A PROVE Accounted(Limiter!NoTraffic, A)
  BY NothingFits DEF Accounted, Limiter!NoTraffic, Limiter!Nothing

\* An admission accounts for what it adds.
LEMMA PlusAccounted ==
    ASSUME NEW t \in Traffic, NEW A, Accounted(t, A), NEW B, A \subseteq B,
           NEW s \in Senders, s \in B,
           NEW u, u = Limiter!Plus(t, Message[s].op, Message[s].size),
           Limiter!FitsThisWindow(Message[s].op, u)
    PROVE  Accounted(u, B)
<1>1. Message[s].op \in Opcodes /\ Message[s].size \in Nat
  BY MessageAssumption
<1>2. ASSUME NEW op \in Opcodes, u.count[op] # 0 \/ u.size[op] # 0
      PROVE  \E r \in B : Message[r].op = op
  <2>1. CASE op = Message[s].op
    BY <2>1
  <2>2. CASE op # Message[s].op
    <3>1. u.count[op] = t.count[op] /\ u.size[op] = t.size[op]
      BY <1>1, <2>2 DEF Limiter!Plus, Traffic
    <3>2. QED
      BY <1>2, <3>1 DEF Accounted
  <2>3. QED
    BY <2>1, <2>2
<1>3. ASSUME u.nonTxCount # 0 \/ u.nonTxSize # 0
      PROVE  \E r \in B : Limiter!CountsAgainstNonTx(Message[r].op)
  <2>1. CASE Limiter!CountsAgainstNonTx(Message[s].op)
    BY <2>1
  <2>2. CASE ~Limiter!CountsAgainstNonTx(Message[s].op)
    <3>1. u.nonTxCount = t.nonTxCount /\ u.nonTxSize = t.nonTxSize
      BY <2>2 DEF Limiter!Plus, Traffic
    <3>2. QED
      BY <1>3, <3>1 DEF Accounted
  <2>3. QED
    BY <2>1, <2>2
<1>4. QED
  BY <1>2, <1>3 DEF Accounted, Limiter!FitsThisWindow

\* A deferral is due to a sender that shares a budget: without one in A the
\* message has all the room of an empty window.
LEMMA DeferredForOthers ==
    ASSUME NEW t \in Traffic, NEW A, Accounted(t, A), NEW s \in Senders,
           Limiter!Verdict(Message[s].op, Message[s].size,
               Limiter!Plus(t, Message[s].op, Message[s].size)) = "Deferred"
    PROVE  \E r \in A : SharesBudget(r, s)
<1> DEFINE op == Message[s].op
           size == Message[s].size
           u == Limiter!Plus(t, op, size)
<1> SUFFICES ASSUME \A r \in A : ~SharesBudget(r, s) PROVE FALSE
  OBVIOUS
<1>1. op \in Opcodes /\ size \in Nat
  BY MessageAssumption
<1>2. Limiter!FitsAnEmptyWindow(op, size) /\ ~Limiter!FitsThisWindow(op, u)
  BY DEF Limiter!Verdict
<1>3. u.count[op] = 1 /\ u.size[op] = size
  <2>1. \A r \in A : Message[r].op # op
    BY DEF SharesBudget
  <2>2. t.count[op] = 0 /\ t.size[op] = 0
    BY <1>1, <2>1 DEF Accounted
  <2>3. QED
    BY <1>1, <2>2 DEF Limiter!Plus, Traffic
<1>4. /\ Limiter!Within(u.nonTxCount, NonTxFrequency)
      /\ Limiter!Within(u.nonTxSize, NonTxMaxTotalSize)
  <2>1. CASE Limiter!CountsAgainstNonTx(op)
    <3>1. \A r \in A : ~Limiter!CountsAgainstNonTx(Message[r].op)
      BY <2>1 DEF SharesBudget
    <3>2. t.nonTxCount = 0 /\ t.nonTxSize = 0
      BY <3>1 DEF Accounted
    <3>3. u.nonTxCount = 1 /\ u.nonTxSize = size
      BY <1>1, <2>1, <3>2 DEF Limiter!Plus
    <3>4. QED
      BY <1>1, <1>2, <2>1, <3>3, OnItsOwn
  <2>2. CASE ~Limiter!CountsAgainstNonTx(op)
    <3>1. u.nonTxCount = t.nonTxCount /\ u.nonTxSize = t.nonTxSize
      BY <2>2 DEF Limiter!Plus, Traffic
    <3>2. QED
      BY <3>1 DEF Accounted
  <2>3. QED
    BY <2>1, <2>2
<1>5. QED
  BY <1>1, <1>2, <1>3, <1>4, OnItsOwn DEF Limiter!FitsThisWindow

LEMMA InitBusy == Init => BusyInv
<1> SUFFICES ASSUME Init PROVE BusyInv
  OBVIOUS
<1>1. Books
  <2>1. Kept = Limiter!NoTraffic
    BY DEF Init, Kept, Limiter!NoTraffic
  <2>2. QED
    BY <2>1, NothingAccounted DEF Books
<1>2. Timing /\ TimeoutMeansBusy
  BY DEF Init, Timing, TimeoutMeansBusy, Callers
<1>3. QED
  BY <1>1, <1>2, InitTypes DEF BusyInv

\* A time at least one window later falls into a later window.
LEMMA WindowsPass ==
    ASSUME NEW a \in Nat, NEW b \in Nat, a + ResetSeconds <= b
    PROVE  b \div ResetSeconds > a \div ResetSeconds
  BY TimeAssumption

\* Nothing that leaves admissions and deadlines alone, and ends no call by the
\* timeout, disturbs the invariant.
LEMMA QuietStep ==
    ASSUME BusyInv, TypeOK', UNCHANGED <<limiterVars, admittedAt>>,
           \A s \in Senders :
               \/ pc'[s] = pc[s] /\ deadline'[s] = deadline[s]
               \/ /\ pc[s] \in {"idle", "polling", "sleeping"}
                  /\ pc'[s] \notin {"idle", "timedOut"}
                  /\ Began(s)' \in Nat
               \/ /\ deadline'[s] = deadline[s]
                  /\ pc[s] # "idle"
                  /\ pc'[s] \notin {"idle", "polling", "sleeping", "unsendable", "timedOut"}
    PROVE  BusyInv'
<1>1. Books'
  <2>1. Kept' = Kept /\ AdmittedIn(period)' = AdmittedIn(period)
    BY DEF Kept, AdmittedIn, limiterVars
  <2>2. QED
    BY <2>1 DEF BusyInv, Books, Accounted
<1>2. Timing'
  BY DEF BusyInv, Timing, Began
<1>3. TimeoutMeansBusy'
  BY DEF BusyInv, TimeoutMeansBusy, Began
<1>4. QED
  BY <1>1, <1>2, <1>3 DEF BusyInv

LEMMA PollBusy ==
    ASSUME BusyInv, NEW s \in Senders, Poll(s), TypeOK',
           SendTimeout + 1 >= ResetSeconds + Backoff
    PROVE  BusyInv'
<1>1. /\ TypeOK /\ Books /\ Timing /\ TimeoutMeansBusy
      /\ s \in DOMAIN pc /\ s \in DOMAIN admittedAt
      /\ pc[s] = "polling" /\ admittedAt[s] = Never /\ Began(s) \in Nat
      /\ deadline' = deadline /\ now' = now
      /\ now \in Nat
  BY DEF BusyInv, TypeOK, Timing, Poll, Callers
<1>2. period' = Limiter!Window /\ Limiter!Window = now \div ResetSeconds
  BY <1>1, PollStep DEF Limiter!Window
<1>3. now # Never
  BY <1>1 DEF Never
<1>4. PICK A : /\ Accounted(Limiter!Current, A) /\ A \subseteq AdmittedIn(period')
               /\ Limiter!Current \in Traffic
  <2>1. CASE period = Limiter!Window
    BY <1>1, <1>2, <2>1, CurrentIs DEF Books
  <2>2. CASE period # Limiter!Window
    <3>1. Accounted(Limiter!Current, {})
      BY <1>1, <2>2, CurrentIs, NothingAccounted
    <3>2. QED
      BY <1>1, <3>1, CurrentIs
  <2>3. QED
    BY <2>1, <2>2
<1>5. CASE /\ pc' = [pc EXCEPT ![s] = "admitted"]
           /\ admittedAt' = [admittedAt EXCEPT ![s] = now]
           /\ Kept' = Limiter!Plus(Limiter!Current, Message[s].op, Message[s].size)
           /\ Limiter!FitsThisWindow(Message[s].op, Kept')
  <2>1. Books'
    <3>1. s \in AdmittedIn(period)'
      BY <1>1, <1>2, <1>3, <1>5 DEF AdmittedIn
    <3>2. A \subseteq AdmittedIn(period)'
      BY <1>1, <1>4, <1>5 DEF AdmittedIn
    <3>3. Accounted(Kept', AdmittedIn(period)')
      BY <1>4, <1>5, <3>1, <3>2, PlusAccounted
    <3>4. QED
      BY <3>3 DEF Books, Accounted
  <2>2. Timing'
    BY <1>1, <1>5 DEF Timing, Began
  <2>3. TimeoutMeansBusy'
    <3> SUFFICES ASSUME NEW r \in Senders, pc'[r] = "timedOut"
                 PROVE  \E q \in Senders \ {r} :
                            /\ SharesBudget(q, r)
                            /\ admittedAt'[q] # Never
                            /\ admittedAt'[q] \div ResetSeconds > Began(r)' \div ResetSeconds
      BY DEF TimeoutMeansBusy, SharesBudget
    <3>1. pc[r] = "timedOut" /\ Began(r)' = Began(r)
      BY <1>1, <1>5 DEF Began
    <3>2. PICK q \in Senders \ {r} :
              /\ SharesBudget(q, r)
              /\ admittedAt[q] # Never
              /\ admittedAt[q] \div ResetSeconds > Began(r) \div ResetSeconds
      BY <1>1, <3>1 DEF TimeoutMeansBusy
    <3>3. admittedAt'[q] = admittedAt[q]
      BY <1>1, <1>5, <3>2
    <3>4. QED
      BY <3>1, <3>2, <3>3
  <2>4. QED
    BY <2>1, <2>2, <2>3 DEF BusyInv
<1>6. CASE /\ admittedAt' = admittedAt /\ Kept' = Limiter!Current
           /\ \/ pc' = [pc EXCEPT ![s] = "unsendable"]
              \/ /\ pc' = [pc EXCEPT ![s] = AfterDeferral(s)]
                 /\ Limiter!Verdict(Message[s].op, Message[s].size,
                        Limiter!Plus(Limiter!Current, Message[s].op, Message[s].size)) = "Deferred"
  <2>1. AdmittedIn(period)' = AdmittedIn(period')
    BY <1>6 DEF AdmittedIn
  <2>2. Books'
    <3>1. Accounted(Kept', AdmittedIn(period)')
      BY <1>4, <1>6, <2>1 DEF Accounted
    <3>2. QED
      BY <3>1 DEF Books, Accounted
  <2>3. CASE pc' = [pc EXCEPT ![s] = "unsendable"]
    <3>1. Timing'
      BY <1>1, <1>6, <2>3 DEF Timing, Began
    <3>2. TimeoutMeansBusy'
      BY <1>1, <1>6, <2>3 DEF TimeoutMeansBusy, Began, SharesBudget
    <3>3. QED
      BY <2>2, <3>1, <3>2 DEF BusyInv
  <2>4. CASE /\ pc' = [pc EXCEPT ![s] = AfterDeferral(s)]
             /\ Limiter!Verdict(Message[s].op, Message[s].size,
                    Limiter!Plus(Limiter!Current, Message[s].op, Message[s].size)) = "Deferred"
    <3>1. Timing'
      BY <1>1, <1>6, <2>4 DEF Timing, Began, AfterDeferral
    <3>2. PICK q \in A : SharesBudget(q, s)
      BY <1>4, <2>4, DeferredForOthers
    <3>3. /\ q \in Senders /\ q # s
          /\ admittedAt[q] # Never /\ admittedAt[q] \div ResetSeconds = now \div ResetSeconds
      BY <1>1, <1>2, <1>4 DEF AdmittedIn
    <3>4. GivesUp(s) => now \div ResetSeconds > Began(s) \div ResetSeconds
      <4> SUFFICES ASSUME GivesUp(s)
                   PROVE  now \div ResetSeconds > Began(s) \div ResetSeconds
        OBVIOUS
      <4>1. deadline[s] \in Int
        BY <1>1 DEF TypeOK, Never
      <4>2. Began(s) + ResetSeconds <= now
        BY <1>1, <4>1, TimeAssumption DEF GivesUp, Began
      <4>3. QED
        BY <1>1, <4>2, WindowsPass
    <3>5. TimeoutMeansBusy'
      <4> SUFFICES ASSUME NEW r \in Senders, pc'[r] = "timedOut"
                   PROVE  \E p \in Senders \ {r} :
                              /\ SharesBudget(p, r)
                              /\ admittedAt[p] # Never
                              /\ admittedAt[p] \div ResetSeconds > Began(r) \div ResetSeconds
        BY <1>1, <1>6 DEF TimeoutMeansBusy, Began, SharesBudget
      <4>1. CASE r = s
        <5>1. GivesUp(s)
          BY <1>1, <2>4, <4>1 DEF AfterDeferral
        <5>2. QED
          BY <3>2, <3>3, <3>4, <4>1, <5>1
      <4>2. CASE r # s
        BY <1>1, <2>4, <4>2 DEF TimeoutMeansBusy
      <4>3. QED
        BY <4>1, <4>2
    <3>6. QED
      BY <2>2, <3>1, <3>5 DEF BusyInv
  <2>5. QED
    BY <1>6, <2>3, <2>4
<1>7. QED
  BY <1>1, <1>5, <1>6, PollStep

LEMMA NextBusy ==
    ASSUME SendTimeout + 1 >= ResetSeconds + Backoff, BusyInv, [Next]_vars
    PROVE  BusyInv'
<1>1. TypeOK /\ TypeOK'
  BY NextTypes DEF BusyInv
<1>2. ASSUME NEW c \in Callers, Start(c) PROVE BusyInv'
  <2>1. CASE c \in Senders
    <3>1. Began(c)' = now /\ now \in Nat
      BY <1>1, <1>2, <2>1, TimeAssumption DEF Start, Began, Deadline, TypeOK
    <3>2. \A s \in Senders \ {c} : pc'[s] = pc[s] /\ deadline'[s] = deadline[s]
      BY <1>1, <1>2 DEF Start, TypeOK, Callers
    <3>3. pc[c] = "idle" /\ pc'[c] = "polling" /\ UNCHANGED <<limiterVars, admittedAt>>
      BY <1>1, <1>2, <2>1 DEF Start, TypeOK
    <3>4. QED
      BY <1>1, <3>1, <3>2, <3>3, QuietStep
  <2>2. CASE c \notin Senders
    <3>1. \A s \in Senders : pc'[s] = pc[s] /\ deadline'[s] = deadline[s]
      BY <1>1, <1>2, <2>2 DEF Start, TypeOK, Callers
    <3>2. QED
      BY <1>2, <1>1, <3>1, QuietStep DEF Start
  <2>3. QED
    BY <2>1, <2>2
<1>3. ASSUME NEW c \in Callers, Poll(c) PROVE BusyInv'
  BY <1>1, <1>3, PollBusy DEF Poll
<1>4. ASSUME NEW c \in Callers, Wake(c) PROVE BusyInv'
  <2>1. \A s \in Senders : pc[s] # "idle" => Began(s) \in Nat
    BY DEF BusyInv, Timing
  <2>2. \A s \in Senders :
            \/ pc'[s] = pc[s] /\ deadline'[s] = deadline[s]
            \/ pc[s] = "sleeping" /\ pc'[s] = "polling" /\ Began(s)' = Began(s)
    BY <1>1, <1>4 DEF Wake, TypeOK, Callers, Began
  <2>3. QED
    BY <1>1, <1>4, <2>1, <2>2, QuietStep DEF Wake
<1>5. ASSUME NEW c \in Callers,
             \/ LockSink(c) \/ Write(c) \/ Flush(c) \/ WriteFails(c)
             \/ Drop(c) \/ DropAtSink(c)
      PROVE  BusyInv'
  <2>1. UNCHANGED <<limiterVars, admittedAt>>
    BY <1>5 DEF LockSink, Write, Flush, WriteFails, Drop, DropAtSink
  <2>2. \A s \in Senders :
            \/ pc'[s] = pc[s] /\ deadline'[s] = deadline[s]
            \/ /\ deadline'[s] = deadline[s]
               /\ pc[s] # "idle"
               /\ pc'[s] \in {"locking", "flushing", "sent", "failed", "dropped"}
    BY <1>1, <1>5 DEF LockSink, Write, Flush, WriteFails, Drop, DropAtSink, TypeOK, Callers
  <2>3. QED
    BY <1>1, <2>1, <2>2, QuietStep
<1>6. CASE Tick
  BY <1>1, <1>6, QuietStep DEF Tick
<1>7. CASE UNCHANGED vars
  BY <1>1, <1>7, QuietStep DEF vars
<1>8. QED
  BY <1>2, <1>3, <1>4, <1>5, <1>6, <1>7 DEF Next, Progress

\* A sender gives up on the budget only if another one was admitted instead of
\* it, to a budget it shares and in a later window than it started in, whenever send_timeout spans a
\* window and the backoff (by default two windows, and a second).
THEOREM TimeoutsMeanBusy ==
    ASSUME SendTimeout + 1 >= ResetSeconds + Backoff
    PROVE  Spec => []TimeoutMeansBusy
<1>1. Init => BusyInv
  BY InitBusy
<1>2. BusyInv /\ [Next]_vars => BusyInv'
  BY NextBusy
<1>3. BusyInv => TimeoutMeansBusy
  BY DEF BusyInv
<1>4. QED
  BY <1>1, <1>2, <1>3, PTL DEF Spec

-----------------------------------------------------------------------------
(* The budget is charged once for each admission *)

\* The senders of op that window w admitted.
Charged(op, w) == AdmittedIn(w) \cap Carrying(op)

\* Windows are entered in order, and no admission is ahead of the limiter.
Ordered ==
    /\ period <= Limiter!Window
    /\ \A s \in Senders : admittedAt[s] # Never => admittedAt[s] \div ResetSeconds <= period

Unadmitted ==
    \A s \in Senders : pc[s] \in {"idle", "polling", "sleeping", "unsendable", "timedOut"}
                           <=> pc[s] # "dropped" /\ admittedAt[s] = Never

\* No window admitted more than its budget.
Rationed ==
    \A op \in Opcodes, w \in Nat :
        Limiter!Within(Cardinality(Charged(op, w)), Limiter!Limit(op).frequency)

ChargeInv == TypeOK /\ Ordered /\ Unadmitted /\ Rationed /\ ChargedOnce

LEMMA ChargedFinite ==
    ASSUME NEW op, NEW w
    PROVE  IsFiniteSet(Charged(op, w)) /\ Cardinality(Charged(op, w)) \in Nat
<1>1. Charged(op, w) \subseteq Senders
  BY DEF Charged, Carrying
<1>2. QED
  BY <1>1, CallersAssumption, FS_Subset, FS_CardinalityType

\* Any budget allows nothing, and less of what it allows.
LEMMA WithinZeroAndLess ==
    ASSUME NEW op \in Opcodes
    PROVE  /\ Limiter!Within(0, Limiter!Limit(op).frequency)
           /\ \A a, b \in Nat : a <= b /\ Limiter!Within(b, Limiter!Limit(op).frequency)
                  => Limiter!Within(a, Limiter!Limit(op).frequency)
<1>1. Limiter!Limit(op) = LimiterProofs!Limit(op)
  BY SameTables DEF Limiter!Limit, LimiterProofs!Limit
<1>2. LimiterProofs!Limit(op) \in LimiterProofs!RateLimit
  BY LimiterHypotheses, LimiterProofs!LimitType
<1>3. Limiter!Limit(op).frequency \in Nat
  BY <1>1, <1>2 DEF LimiterProofs!RateLimit
<1>4. \A a, b, c : Limiter!Within(a, c) = LimiterProofs!Within(a, c)
  BY DEF Limiter!Within, LimiterProofs!Within
<1>5. \A c \in Nat : LimiterProofs!Within(0, c)
  BY LimiterHypotheses, LimiterProofs!WithinZero
<1>6. \A a, b, c \in Nat : a <= b /\ LimiterProofs!Within(b, c) => LimiterProofs!Within(a, c)
  BY LimiterHypotheses, LimiterProofs!WithinMonotone
<1>7. QED
  BY <1>3, <1>4, <1>5, <1>6

LEMMA InitCharge == Init => ChargeInv
<1> SUFFICES ASSUME Init PROVE ChargeInv
  OBVIOUS
<1>1. TypeOK
  BY InitTypes
<1>2. \A op, w : Charged(op, w) = {}
  BY DEF Init, Charged, AdmittedIn
<1>3. Ordered
  BY <1>1, WindowType DEF Init, Ordered, TypeOK
<1>4. Unadmitted
  BY DEF Init, Unadmitted, Callers
<1>5. ChargedOnce
  BY <1>2, FS_EmptySet DEF Init, ChargedOnce, Charged, Limiter!Nothing
<1>6. Rationed
  BY <1>2, FS_EmptySet, WithinZeroAndLess DEF Rationed
<1>7. QED
  BY <1>1, <1>3, <1>4, <1>5, <1>6 DEF ChargeInv

\* Time divides into windows in order.
LEMMA WindowsInOrder ==
    ASSUME NEW a \in Nat, NEW b \in Nat, a <= b
    PROVE  a \div ResetSeconds \in Nat /\ a \div ResetSeconds <= b \div ResetSeconds
  BY TimeAssumption

\* Steps that neither ask the limiter nor admit anyone.
LEMMA QuietCharge ==
    ASSUME ChargeInv, TypeOK', UNCHANGED <<limiterVars, admittedAt>>, now <= now',
           \A s \in Senders :
               \/ pc'[s] = pc[s] \/ pc'[s] = "dropped"
               \/ {pc[s], pc'[s]} \subseteq {"idle", "polling", "sleeping"}
               \/ {pc[s], pc'[s]} \subseteq {"admitted", "locking", "flushing", "sent", "failed"}
    PROVE  ChargeInv'
<1>1. TypeOK /\ Ordered /\ Unadmitted /\ Rationed /\ ChargedOnce
  BY DEF ChargeInv
<1>2. Ordered'
  <2>1. now \div ResetSeconds <= now' \div ResetSeconds
    BY <1>1, WindowsInOrder DEF TypeOK
  <2>2. Limiter!Window = now \div ResetSeconds /\ Limiter!Window' = now' \div ResetSeconds
    BY DEF Limiter!Window
  <2>3. period <= Limiter!Window' /\ period' = period
    <3>1. now \in Nat /\ now' \in Nat /\ period \in Nat
      BY <1>1 DEF TypeOK
    <3>2. now \div ResetSeconds \in Nat /\ now' \div ResetSeconds \in Nat
      BY <3>1, WindowsInOrder
    <3>3. QED
      BY <1>1, <2>1, <2>2, <3>1, <3>2 DEF Ordered, limiterVars
  <2>4. QED
    BY <1>1, <2>3 DEF Ordered
<1>3. Unadmitted'
  BY <1>1 DEF Unadmitted
<1>4. Rationed' /\ ChargedOnce'
  <2>1. \A w : AdmittedIn(w)' = AdmittedIn(w)
    BY DEF AdmittedIn
  <2>2. \A op, w : Charged(op, w)' = Charged(op, w)
    BY <2>1 DEF Charged, Carrying
  <2>3. Rationed'
    BY <1>1, <2>2 DEF Rationed, Limiter!Within, Limiter!Limit
  <2>4. period' = period /\ counts' = counts
    BY DEF limiterVars
  <2>5. ChargedOnce'
    BY <1>1, <2>1, <2>4 DEF ChargedOnce
  <2>6. QED
    BY <2>3, <2>5
<1>5. QED
  BY <1>2, <1>3, <1>4 DEF ChargeInv

\* The limiter's sums as the poll finds them count the admissions so far in
\* the window the time is in.
LEMMA CurrentCounts ==
    ASSUME ChargeInv
    PROVE  \A op \in Opcodes :
               Limiter!Current.count[op] = Cardinality(Charged(op, Limiter!Window))
<1>1. TypeOK /\ Ordered /\ ChargedOnce
  BY DEF ChargeInv
<1>2. CASE period = Limiter!Window
  BY <1>1, <1>2, CurrentIs DEF ChargedOnce, Charged, Kept
<1>3. CASE period # Limiter!Window
  <2>1. Limiter!Window \in Nat /\ period \in Nat /\ period < Limiter!Window
    BY <1>1, <1>3, WindowType DEF TypeOK, Ordered
  <2>2. \A op : Charged(op, Limiter!Window) = {}
    BY <1>1, <2>1 DEF Ordered, Charged, AdmittedIn
  <2>3. \A op \in Opcodes : Limiter!Current.count[op] = 0
    BY <1>1, <1>3, CurrentIs DEF Limiter!NoTraffic, Limiter!Nothing
  <2>4. QED
    BY <2>2, <2>3, FS_EmptySet
<1>4. QED
  BY <1>2, <1>3

LEMMA PollCharge ==
    ASSUME ChargeInv, NEW s \in Senders, Poll(s), TypeOK'
    PROVE  ChargeInv'
<1> DEFINE op == Message[s].op
           W == Limiter!Window
<1>1. /\ TypeOK /\ Ordered /\ Unadmitted /\ Rationed /\ ChargedOnce
      /\ s \in DOMAIN pc /\ s \in DOMAIN admittedAt
      /\ pc[s] = "polling" /\ admittedAt[s] = Never
      /\ now' = now /\ now \in Nat /\ W \in Nat /\ op \in Opcodes
      /\ period' = W /\ W' = W
      /\ W = now \div ResetSeconds
  BY PollStep, WindowType, MessageAssumption
     DEF ChargeInv, TypeOK, Unadmitted, Poll, Callers, Limiter!Window
<1>2. \A o \in Opcodes : Limiter!Current.count[o] = Cardinality(Charged(o, W))
  BY CurrentCounts
<1>3. now # Never
  BY <1>1 DEF Never
<1>4. \A r \in Senders : admittedAt[r] # Never => admittedAt[r] \div ResetSeconds <= W
  <2>1. \A r \in Senders : admittedAt[r] # Never => admittedAt[r] \div ResetSeconds \in Nat
    BY <1>1, WindowsInOrder DEF TypeOK
  <2>2. QED
    BY <1>1, <2>1 DEF Ordered, TypeOK
<1> HIDE DEF W, op
<1>5. CASE /\ pc' = [pc EXCEPT ![s] = "admitted"]
           /\ admittedAt' = [admittedAt EXCEPT ![s] = now]
           /\ Kept' = Limiter!Plus(Limiter!Current, op, Message[s].size)
           /\ Limiter!FitsThisWindow(op, Kept')
  <2>1. /\ counts' = [Limiter!Current.count EXCEPT ![op] = @ + 1]
        /\ Kept'.count = counts'
    BY <1>5 DEF Kept, Limiter!Plus
  <2>2. Limiter!Current.count \in [Opcodes -> Nat]
    BY <1>1, CurrentIs DEF Traffic
  <2>3. Charged(op, W)' = Charged(op, W) \cup {s} /\ s \notin Charged(op, W)
    BY <1>1, <1>3, <1>5 DEF Charged, AdmittedIn, Carrying, op
  <2>4. \A o \in Opcodes : \A w : o # op \/ w # W => Charged(o, w)' = Charged(o, w)
    BY <1>1, <1>5 DEF Charged, AdmittedIn, Carrying, op
  <2>5. Cardinality(Charged(op, W)') = Cardinality(Charged(op, W)) + 1
    BY <2>3, ChargedFinite, FS_AddElement
  <2>6. \A o \in Opcodes : counts'[o] = Cardinality(Charged(o, W)')
    BY <1>1, <1>2, <2>1, <2>2, <2>4, <2>5
  <2>7. ChargedOnce'
    BY <1>1, <2>6 DEF ChargedOnce, Charged
  <2>8. Rationed'
    <3> SUFFICES ASSUME NEW o \in Opcodes, NEW w \in Nat
                 PROVE  Limiter!Within(Cardinality(Charged(o, w)'), Limiter!Limit(o).frequency)
      BY DEF Rationed, Limiter!Within, Limiter!Limit
    <3>1. CASE o = op /\ w = W
      BY <1>1, <1>5, <2>1, <2>6, <3>1 DEF Limiter!FitsThisWindow
    <3>2. CASE o # op \/ w # W
      BY <1>1, <2>4, <3>2 DEF Rationed
    <3>3. QED
      BY <3>1, <3>2
  <2>9. Unadmitted'
    BY <1>1, <1>3, <1>5 DEF Unadmitted
  <2>10. Ordered'
    BY <1>1, <1>4, <1>5 DEF Ordered, W
  <2>11. QED
    BY <2>7, <2>8, <2>9, <2>10 DEF ChargeInv
<1>6. CASE /\ admittedAt' = admittedAt /\ Kept' = Limiter!Current
           /\ \/ pc' = [pc EXCEPT ![s] = "unsendable"]
              \/ pc' = [pc EXCEPT ![s] = AfterDeferral(s)]
  <2>1. \A w : AdmittedIn(w)' = AdmittedIn(w)
    BY <1>6 DEF AdmittedIn
  <2>2. \A o, w : Charged(o, w)' = Charged(o, w)
    BY <2>1 DEF Charged, Carrying
  <2>3. counts' = Limiter!Current.count
    BY <1>6 DEF Kept
  <2>4. ChargedOnce'
    BY <1>1, <1>2, <2>2, <2>3 DEF ChargedOnce, Charged
  <2>5. Rationed'
    BY <1>1, <2>2 DEF Rationed, Limiter!Within, Limiter!Limit
  <2>6. Unadmitted'
    <3>1. pc'[s] \in {"unsendable", "timedOut", "sleeping"}
      BY <1>1, <1>6 DEF AfterDeferral
    <3>2. \A r \in Senders \ {s} : pc'[r] = pc[r]
      BY <1>1, <1>6 DEF TypeOK, Callers
    <3>3. QED
      BY <1>1, <1>6, <3>1, <3>2 DEF Unadmitted
  <2>7. Ordered'
    BY <1>1, <1>4, <1>6 DEF Ordered, W
  <2>8. QED
    BY <2>4, <2>5, <2>6, <2>7 DEF ChargeInv
<1>7. QED
  BY <1>5, <1>6, <1>1, PollStep DEF op, ChargeInv

LEMMA NextCharge ==
    ASSUME ChargeInv, [Next]_vars
    PROVE  ChargeInv'
<1>1. TypeOK /\ TypeOK'
  BY NextTypes DEF ChargeInv
<1>2. ASSUME NEW c \in Callers, Start(c) \/ Wake(c) PROVE ChargeInv'
  <2>1. UNCHANGED <<limiterVars, admittedAt>> /\ now <= now'
    BY <1>1, <1>2 DEF Start, Wake, TypeOK
  <2>2. \A s \in Senders :
            \/ pc'[s] = pc[s]
            \/ {pc[s], pc'[s]} \subseteq {"idle", "polling", "sleeping"}
    BY <1>1, <1>2, CallersAssumption DEF Start, Wake, TypeOK, Callers
  <2>3. QED
    BY <1>1, <2>1, <2>2, QuietCharge
<1>3. ASSUME NEW c \in Callers, Poll(c) PROVE ChargeInv'
  BY <1>1, <1>3, PollCharge DEF Poll
<1>4. ASSUME NEW c \in Callers, LockSink(c) \/ Write(c) \/ Flush(c) \/ WriteFails(c)
      PROVE  ChargeInv'
  <2>1. UNCHANGED <<limiterVars, admittedAt>> /\ now <= now'
    BY <1>1, <1>4 DEF LockSink, Write, Flush, WriteFails, TypeOK
  <2>2. \A s \in Senders :
            \/ pc'[s] = pc[s]
            \/ {pc[s], pc'[s]} \subseteq {"admitted", "locking", "flushing", "sent", "failed"}
    BY <1>1, <1>4 DEF LockSink, Write, Flush, WriteFails, TypeOK, Callers
  <2>3. QED
    BY <1>1, <2>1, <2>2, QuietCharge
<1>5. ASSUME NEW c \in Callers, Drop(c) \/ DropAtSink(c) PROVE ChargeInv'
  <2>1. UNCHANGED <<limiterVars, admittedAt>> /\ now <= now'
    BY <1>1, <1>5 DEF Drop, DropAtSink, TypeOK
  <2>2. \A s \in Senders : pc'[s] = pc[s] \/ pc'[s] = "dropped"
    BY <1>1, <1>5 DEF Drop, DropAtSink, TypeOK, Callers
  <2>3. QED
    BY <1>1, <2>1, <2>2, QuietCharge
<1>6. CASE Tick
  <2>1. UNCHANGED <<limiterVars, admittedAt, pc>> /\ now <= now'
    BY <1>1, <1>6 DEF Tick, TypeOK
  <2>2. QED
    BY <1>1, <2>1, QuietCharge
<1>7. CASE UNCHANGED vars
  <2>1. UNCHANGED <<limiterVars, admittedAt, pc>> /\ now <= now'
    BY <1>1, <1>7 DEF vars, TypeOK
  <2>2. QED
    BY <1>1, <2>1, QuietCharge
<1>8. QED
  BY <1>2, <1>3, <1>4, <1>5, <1>6, <1>7 DEF Next, Progress

\* The limiter's count for an opcode is the number of senders its window
\* admitted, whatever became of their frames and however often each asked.
THEOREM ChargesAreOnce == Spec => []ChargedOnce
<1>1. Init => ChargeInv
  BY InitCharge
<1>2. ChargeInv /\ [Next]_vars => ChargeInv'
  BY NextCharge
<1>3. ChargeInv => ChargedOnce
  BY DEF ChargeInv
<1>4. QED
  BY <1>1, <1>2, <1>3, PTL DEF Spec

-----------------------------------------------------------------------------
(* The wire *)

\* What is on the wire was written by a call that is past writing, once.
Written ==
    /\ \A k \in 1 .. Len(wire) : pc[wire[k]] \in {"flushing", "sent", "failed", "dropped"}
    /\ \A k \in 1 .. Len(wire) : wire[k] \in Senders => admittedAt[wire[k]] # Never
    /\ \A j, k \in 1 .. Len(wire) : wire[j] = wire[k] => j = k

WireInv == ChargeInv /\ Written

LEMMA InitWritten == Init => Written
  BY DEF Init, Written

\* Steps other than a write.
LEMMA QuietWire ==
    ASSUME TypeOK, Written, wire' = wire,
           \A c \in Callers :
               /\ pc'[c] # pc[c] => \/ pc[c] \notin {"flushing", "sent", "failed", "dropped"}
                                   \/ pc'[c] \in {"sent", "failed", "dropped"}
               /\ c \in Senders /\ admittedAt[c] # Never => admittedAt'[c] # Never
    PROVE  Written'
<1>1. \A k \in 1 .. Len(wire) : wire[k] \in Callers
  BY DEF TypeOK
<1>2. \A k \in 1 .. Len(wire) : pc'[wire[k]] \in {"flushing", "sent", "failed", "dropped"}
  BY <1>1 DEF Written
<1>3. QED
  BY <1>1, <1>2 DEF Written

LEMMA NextWritten ==
    ASSUME ChargeInv, Written, [Next]_vars
    PROVE  Written'
<1>1. TypeOK /\ Unadmitted
  BY DEF ChargeInv
<1>2. ASSUME NEW c \in Callers, Write(c) PROVE Written'
  <2>1. CASE Closed
    BY <1>1, <1>2, <2>1, QuietWire DEF Write, TypeOK
  <2>2. CASE ~Closed
    <3>1. wire' = Append(wire, c) /\ pc' = [pc EXCEPT ![c] = "flushing"] /\ pc[c] = "locking"
          /\ admittedAt' = admittedAt
      BY <1>2, <2>2 DEF Write
    <3>2. /\ wire \in Seq(Callers) /\ pc \in [Callers -> States]
          /\ \A k \in 1 .. Len(wire) : wire[k] \in Callers
      BY <1>1 DEF TypeOK
    <3>3. /\ Len(wire') = Len(wire) + 1 /\ wire'[Len(wire) + 1] = c
          /\ \A k \in 1 .. Len(wire) : wire'[k] = wire[k]
      BY <3>1, <3>2
    <3>4. \A k \in 1 .. Len(wire) : wire[k] # c
      BY <3>1, <3>2 DEF Written
    <3>5. \A k \in 1 .. Len(wire) : pc'[wire[k]] = pc[wire[k]]
      BY <3>1, <3>2, <3>4
    <3>6. c \in Senders => admittedAt[c] # Never
      BY <1>1, <3>1 DEF Unadmitted
    <3>7. \A k \in 1 .. Len(wire') : k = Len(wire) + 1 \/ k \in 1 .. Len(wire)
      BY <3>2, <3>3
    <3>8. QED
      BY <3>1, <3>2, <3>3, <3>4, <3>5, <3>6, <3>7 DEF Written
  <2>3. QED
    BY <2>1, <2>2
<1>3. ASSUME NEW c \in Callers, Poll(c) PROVE Written'
  <2>1. wire' = wire /\ c \in Senders /\ pc[c] = "polling"
    BY <1>3 DEF Poll
  <2>2. /\ \A r \in Callers \ {c} : pc'[r] = pc[r]
        /\ \A r \in Senders \ {c} : admittedAt'[r] = admittedAt[r]
    BY <1>1, <1>3, <2>1, PollStep DEF TypeOK
  <2>3. admittedAt[c] = Never
    BY <1>1, <2>1 DEF Unadmitted
  <2>4. QED
    BY <1>1, <2>1, <2>2, <2>3, QuietWire
<1>4. ASSUME NEW c \in Callers,
             \/ Start(c) \/ Wake(c) \/ LockSink(c) \/ Flush(c) \/ WriteFails(c)
             \/ Drop(c) \/ DropAtSink(c)
      PROVE  Written'
  <2>1. wire' = wire /\ admittedAt' = admittedAt
    BY <1>4 DEF Start, Wake, LockSink, Flush, WriteFails, Drop, DropAtSink
  <2>2. \A r \in Callers :
            pc'[r] # pc[r] => \/ pc[r] \in {"idle", "sleeping", "admitted"}
                             \/ pc'[r] \in {"sent", "failed", "dropped"}
    BY <1>1, <1>4 DEF Start, Wake, LockSink, Flush, WriteFails, Drop, DropAtSink, TypeOK
  <2>3. QED
    BY <1>1, <2>1, <2>2, QuietWire
<1>5. CASE Tick \/ UNCHANGED vars
  BY <1>1, <1>5, QuietWire DEF Tick, vars
<1>6. QED
  BY <1>2, <1>3, <1>4, <1>5 DEF Next, Progress

LEMMA WireFollows == WireInv => WireBudget
<1> SUFFICES ASSUME WireInv PROVE WireBudget
  OBVIOUS
<1>1. TypeOK /\ Written /\ Rationed
  BY DEF WireInv, ChargeInv
<1>2. \A s \in Framed : admittedAt[s] # Never
  BY <1>1 DEF Framed, Written
<1>3. ASSUME NEW op \in Opcodes, NEW w \in 0 .. Limiter!Window
      PROVE  Limiter!Within(Cardinality(Framed \cap AdmittedIn(w) \cap Carrying(op)),
                            Limiter!Limit(op).frequency)
  <2>1. Framed \cap AdmittedIn(w) \cap Carrying(op) \subseteq Charged(op, w)
    BY DEF Charged
  <2>2. Cardinality(Framed \cap AdmittedIn(w) \cap Carrying(op)) \in Nat
        /\ Cardinality(Framed \cap AdmittedIn(w) \cap Carrying(op))
               <= Cardinality(Charged(op, w))
    BY <2>1, ChargedFinite, FS_Subset, FS_CardinalityType
  <2>3. w \in Nat
    BY <1>1, WindowType DEF TypeOK
  <2>4. Limiter!Within(Cardinality(Charged(op, w)), Limiter!Limit(op).frequency)
    BY <1>1, <2>3 DEF Rationed
  <2>5. QED
    BY <2>2, <2>4, ChargedFinite, WithinZeroAndLess
<1>4. QED
  BY <1>1, <1>2, <1>3 DEF WireBudget, Written

\* Every frame on the wire was admitted and is there once, and the frames
\* admitted in one window are within the budget of each opcode.
THEOREM WireInBudget == Spec => []WireBudget
<1>1. Init => WireInv
  BY InitCharge, InitWritten DEF WireInv
<1>2. WireInv /\ [Next]_vars => WireInv'
  BY NextCharge, NextWritten DEF WireInv
<1>3. QED
  BY <1>1, <1>2, WireFollows, PTL DEF Spec

-----------------------------------------------------------------------------
(* What a result says is true *)

Fits(s) == Limiter!FitsAnEmptyWindow(Message[s].op, Message[s].size)

\* Whoever writes or has written is on the wire; the limiter admits what fits an
\* empty window and refuses for good what does not.
Told ==
    /\ \A s \in Senders : pc[s] \in {"flushing", "sent"} => s \in Framed
    /\ \A s \in Senders : pc[s] = "unsendable" => ~Fits(s)
    /\ \A s \in Senders : admittedAt[s] # Never => Fits(s)

\* Steps that admit and refuse no one.
LEMMA QuietTold ==
    ASSUME TypeOK, Told, admittedAt' = admittedAt, Framed \subseteq Framed',
           \A c \in Senders :
               \/ pc'[c] = pc[c]
               \/ pc'[c] \notin {"flushing", "sent", "unsendable"}
               \/ c \in Framed' /\ pc'[c] # "unsendable"
    PROVE  Told'
<1>1. \A s \in Senders : Fits(s)' <=> Fits(s)
  BY DEF Fits
<1>2. QED
  BY <1>1 DEF Told

LEMMA NextTold ==
    ASSUME ChargeInv, Told, [Next]_vars
    PROVE  Told'
<1>1. TypeOK /\ Unadmitted
  BY DEF ChargeInv
<1>2. ASSUME NEW c \in Callers, Write(c) PROVE Told'
  <2>1. /\ wire \in Seq(Callers) /\ pc' = [pc EXCEPT ![c] = "flushing"]
        /\ admittedAt' = admittedAt /\ pc \in [Callers -> States] /\ Senders \subseteq Callers
    BY <1>1, <1>2 DEF Write, TypeOK, Callers
  <2>2. CASE Closed
    <3>1. c \notin Senders /\ wire' = wire
      BY <1>2, <2>2, CallersAssumption DEF Write
    <3>2. QED
      BY <1>1, <2>1, <3>1, QuietTold DEF Framed
  <2>3. CASE ~Closed
    <3>1. /\ Len(wire') = Len(wire) + 1 /\ wire'[Len(wire) + 1] = c
          /\ \A k \in 1 .. Len(wire) : wire'[k] = wire[k]
      BY <1>2, <2>1, <2>3 DEF Write
    <3>2. Framed \subseteq Framed'
      BY <2>1, <3>1 DEF Framed
    <3>3. c \in Senders => c \in Framed'
      BY <2>1, <3>1 DEF Framed
    <3>4. QED
      BY <1>1, <2>1, <3>2, <3>3, QuietTold
  <2>4. QED
    BY <2>2, <2>3
<1>3. ASSUME NEW c \in Callers, Poll(c) PROVE Told'
  <2>1. wire' = wire /\ c \in Senders /\ pc[c] = "polling"
    BY <1>3 DEF Poll
  <2>2. /\ \A s \in Senders \ {c} : pc'[s] = pc[s] /\ admittedAt'[s] = admittedAt[s]
        /\ pc'[c] \notin {"flushing", "sent"}
    BY <1>1, <1>3, <2>1, PollStep DEF TypeOK, Callers, AfterDeferral
  <2>3. pc'[c] = "unsendable" => ~Fits(c)
    BY <1>1, <1>3, <2>1 DEF Poll, TypeOK, Callers, Fits, Limiter!Verdict, AfterDeferral
  <2>4. admittedAt'[c] # Never => Fits(c)
    <3>1. admittedAt[c] = Never
      BY <1>1, <2>1 DEF Unadmitted
    <3>2. QED
      BY <1>1, <1>3, <2>1, <3>1 DEF Poll, TypeOK, Callers, Fits, Limiter!Verdict
  <2>5. /\ Framed' = Framed
        /\ \A s \in Senders : Fits(s)' <=> Fits(s)
    BY <2>1 DEF Framed, Fits
  <2>6. QED
    BY <2>1, <2>2, <2>3, <2>4, <2>5 DEF Told
<1>4. ASSUME NEW c \in Callers, NEW p \in States, pc' = [pc EXCEPT ![c] = p],
             wire' = wire, admittedAt' = admittedAt,
             p \notin {"flushing", "unsendable"}, p = "sent" => pc[c] = "flushing"
      PROVE  Told'
  <2>1. pc \in [Callers -> States] /\ Senders \subseteq Callers
    BY <1>1 DEF TypeOK, Callers
  <2>2. Framed' = Framed
    BY <1>4 DEF Framed
  <2>3. p = "sent" /\ c \in Senders => c \in Framed
    BY <1>4 DEF Told
  <2>4. QED
    BY <1>1, <1>4, <2>1, <2>2, <2>3, QuietTold
<1>5. ASSUME NEW c \in Callers,
             Start(c) \/ Wake(c) \/ LockSink(c) \/ Drop(c) \/ DropAtSink(c)
      PROVE  Told'
  <2>1. PICK p \in {"polling", "admitted", "locking", "dropped"} :
           pc' = [pc EXCEPT ![c] = p] /\ wire' = wire /\ admittedAt' = admittedAt
    BY <1>5 DEF Start, Wake, LockSink, Drop, DropAtSink
  <2>2. QED
    BY <1>4, <2>1 DEF States, Results
<1>6. ASSUME NEW c \in Callers, Flush(c) \/ WriteFails(c) PROVE Told'
  <2>1. PICK p \in {"sent", "failed"} :
           /\ pc' = [pc EXCEPT ![c] = p] /\ wire' = wire /\ admittedAt' = admittedAt
           /\ p = "sent" => pc[c] = "flushing"
    BY <1>6 DEF Flush, WriteFails
  <2>2. QED
    BY <1>4, <2>1 DEF States, Results
<1>7. CASE Tick \/ UNCHANGED vars
  BY <1>1, <1>7, QuietTold DEF Tick, vars, Framed
<1>8. QED
  BY <1>2, <1>3, <1>5, <1>6, <1>7 DEF Next, Progress

\* A sender told that its frame was sent has it on the wire; one that was refused
\* or timed out has it neither there nor on the limiter's books.
THEOREM ResultsHold == Spec => []ResultsAreTrue
<1>1. Init => WireInv /\ Told
  <2>1. Init => Told
    BY DEF Init, Told, Callers
  <2>2. QED
    BY <2>1, InitCharge, InitWritten DEF WireInv
<1>2. WireInv /\ Told /\ [Next]_vars => WireInv' /\ Told'
  BY NextCharge, NextWritten, NextTold DEF WireInv
<1>3. WireInv /\ Told => ResultsAreTrue
  <2> SUFFICES ASSUME WireInv, Told PROVE ResultsAreTrue
    OBVIOUS
  <2>1. Written /\ Unadmitted
    BY DEF WireInv, ChargeInv
  <2>2. \A s \in Framed : admittedAt[s] # Never
    BY <2>1 DEF Written, Framed
  <2>3. \A s \in Senders : pc[s] \in {"unsendable", "timedOut"} => admittedAt[s] = Never
    BY <2>1 DEF Unadmitted
  <2>4. QED
    BY <2>2, <2>3 DEF Told, ResultsAreTrue, Fits
<1>4. QED
  BY <1>1, <1>2, <1>3, PTL DEF Spec

-----------------------------------------------------------------------------
(* The sink is a fair queue *)

FQ == INSTANCE FairQueueProofs WITH stage <- SinkStage, queue <- sinkQueue

\* A call's place, as the queue sees it.
StageAt(p) == CASE p \in {"idle", "polling", "sleeping", "admitted"} -> "outside"
                [] p \in {"locking", "flushing"} -> "queued"
                [] p \in {"sent", "failed"} -> "served"
                [] OTHER -> "gone"

Staged == [s \in Callers |-> StageAt(pc[s])]

LEMMA SameStage == SinkStage = Staged /\ SinkStage' = Staged'
  BY DEF SinkStage, Staged, StageAt

LEMMA StagedInit == Init => FQ!Init
<1> SUFFICES ASSUME Init PROVE FQ!Init
  OBVIOUS
<1>1. Staged = [s \in Callers |-> "outside"] /\ sinkQueue = <<>>
  BY DEF Init, Staged, StageAt
<1>2. QED
  BY <1>1, SameStage DEF FQ!Init

\* A step of one call, as the queue sees it.
LEMMA StagedStep ==
    ASSUME NEW s \in Callers, NEW p, pc' = [pc EXCEPT ![s] = p], pc \in [Callers -> States]
    PROVE  /\ SinkStage[s] = StageAt(pc[s])
           /\ SinkStage' = [SinkStage EXCEPT ![s] = StageAt(p)]
           /\ StageAt(p) = StageAt(pc[s]) => SinkStage' = SinkStage
<1>1. Staged[s] = StageAt(pc[s]) /\ Staged' = [Staged EXCEPT ![s] = StageAt(p)]
  BY DEF Staged
<1>2. StageAt(p) = StageAt(pc[s]) => Staged' = Staged
  BY <1>1 DEF Staged
<1>3. QED
  BY <1>1, <1>2, SameStage

LEMMA StagedNext == TypeOK /\ [Next]_vars => [FQ!Next]_(FQ!vars)
<1> SUFFICES ASSUME TypeOK, [Next]_vars PROVE FQ!Next \/ UNCHANGED FQ!vars
  OBVIOUS
<1>t. pc \in [Callers -> States]
  BY DEF TypeOK
<1>q. ASSUME UNCHANGED <<pc, sinkQueue>> PROVE UNCHANGED FQ!vars
  BY <1>q, SameStage DEF Staged, FQ!vars
<1>1. ASSUME NEW s \in Callers, Start(s) \/ Wake(s) \/ Write(s) PROVE UNCHANGED FQ!vars
  <2>1. PICK p \in {"polling", "admitted", "flushing"} :
           pc' = [pc EXCEPT ![s] = p] /\ StageAt(p) = StageAt(pc[s]) /\ sinkQueue' = sinkQueue
    BY <1>1 DEF Start, Wake, Write, StageAt
  <2>2. QED
    BY <1>t, <2>1, StagedStep DEF FQ!vars
<1>2. ASSUME NEW s \in Callers, Poll(s) PROVE FQ!Next \/ UNCHANGED FQ!vars
  <2>1. s \in Senders /\ pc[s] = "polling" /\ sinkQueue' = sinkQueue
    BY <1>2 DEF Poll
  <2>2. PICK p \in {"admitted", "sleeping", "timedOut", "unsendable"} : pc' = [pc EXCEPT ![s] = p]
    BY <1>2, <2>1, PollStep DEF AfterDeferral
  <2>3. CASE p \in {"admitted", "sleeping"}
    BY <1>t, <2>1, <2>2, <2>3, StagedStep DEF StageAt, FQ!vars
  <2>4. CASE p \in {"timedOut", "unsendable"}
    <3>1. StageAt(p) = "gone" /\ StageAt(pc[s]) = "outside"
      BY <2>1, <2>4 DEF StageAt
    <3>2. SinkStage[s] = "outside" /\ SinkStage' = [SinkStage EXCEPT ![s] = "gone"]
      <4>1. /\ SinkStage[s] = StageAt(pc[s])
            /\ SinkStage' = [SinkStage EXCEPT ![s] = StageAt(p)]
        BY <1>t, <2>2, StagedStep
      <4>2. QED
        BY <3>1, <4>1
    <3>3. FQ!Leave(s)
      BY <2>1, <3>2 DEF FQ!Leave, FQ!Goes
    <3>4. QED
      BY <3>3 DEF FQ!Next
  <2>5. QED
    BY <2>3, <2>4
<1>3. ASSUME NEW s \in Callers, LockSink(s) PROVE FQ!Next
  <2>1. pc' = [pc EXCEPT ![s] = "locking"] /\ sinkQueue' = Append(sinkQueue, s)
    BY <1>3 DEF LockSink
  <2>2. StageAt("locking") = "queued" /\ StageAt(pc[s]) = "outside"
    BY <1>3 DEF LockSink, StageAt
  <2>3. FQ!Join(s)
    BY <1>t, <2>1, <2>2, StagedStep DEF FQ!Join, FQ!Goes
  <2>4. QED
    BY <2>3 DEF FQ!Next
<1>4. ASSUME NEW s \in Callers, Flush(s) \/ WriteFails(s) PROVE FQ!Next
  <2>1. PICK p \in {"sent", "failed"} : pc' = [pc EXCEPT ![s] = p]
    BY <1>4 DEF Flush, WriteFails
  <2>2. /\ sinkQueue # <<>> /\ Head(sinkQueue) = s /\ sinkQueue' = Tail(sinkQueue)
        /\ pc[s] \in {"locking", "flushing"}
    BY <1>4 DEF Flush, WriteFails, HoldsSink
  <2>3. StageAt(p) = "served" /\ StageAt(pc[s]) = "queued"
    BY <2>1, <2>2 DEF StageAt
  <2>4. SinkStage[s] = "queued" /\ SinkStage' = [SinkStage EXCEPT ![s] = "served"]
    <3>1. /\ SinkStage[s] = StageAt(pc[s])
          /\ SinkStage' = [SinkStage EXCEPT ![s] = StageAt(p)]
      BY <1>t, <2>1, StagedStep
    <3>2. QED
      BY <2>3, <3>1
  <2>5. FQ!Serve(s)
    BY <2>2, <2>4 DEF FQ!Serve, FQ!Goes
  <2>6. QED
    BY <2>5 DEF FQ!Next
<1>5. ASSUME NEW s \in Callers, Drop(s) PROVE FQ!Next
  <2>1. pc' = [pc EXCEPT ![s] = "dropped"] /\ sinkQueue' = sinkQueue
    BY <1>5 DEF Drop
  <2>2. StageAt("dropped") = "gone" /\ StageAt(pc[s]) = "outside"
    BY <1>5 DEF Drop, StageAt
  <2>3. FQ!Leave(s)
    BY <1>t, <2>1, <2>2, StagedStep DEF FQ!Leave, FQ!Goes
  <2>4. QED
    BY <2>3 DEF FQ!Next
<1>6. ASSUME NEW s \in Callers, DropAtSink(s) PROVE FQ!Next
  <2>1. pc' = [pc EXCEPT ![s] = "dropped"]
    BY <1>6 DEF DropAtSink
  <2>2. StageAt("dropped") = "gone" /\ StageAt(pc[s]) = "queued"
    BY <1>6 DEF DropAtSink, StageAt
  <2>3. \E k \in 1 .. Len(sinkQueue) :
           /\ sinkQueue[k] = s
           /\ sinkQueue' = SubSeq(sinkQueue, 1, k - 1) \o SubSeq(sinkQueue, k + 1, Len(sinkQueue))
    BY <1>6 DEF DropAtSink, LeavesQueue
  <2>4. FQ!GiveUp(s)
    BY <1>t, <2>1, <2>2, <2>3, StagedStep DEF FQ!GiveUp, FQ!Goes
  <2>5. QED
    BY <2>4 DEF FQ!Next
<1>7. ASSUME Tick \/ UNCHANGED vars PROVE UNCHANGED FQ!vars
  BY <1>q, <1>7 DEF Tick, vars
<1>8. QED
  BY <1>1, <1>2, <1>3, <1>4, <1>5, <1>6, <1>7 DEF Next, Progress

LEMMA SinkIsQueue == Spec => FQ!Spec
  BY TypeCorrect, StagedInit, StagedNext, PTL DEF Spec, FQ!Spec

LEMMA SameQueue == /\ FQ!Init <=> Sink!Init
                   /\ [FQ!Next]_(FQ!vars) <=> [Sink!Next]_(Sink!vars)
  BY DEF FQ!Init, Sink!Init, FQ!Next, Sink!Next, FQ!vars, Sink!vars, FQ!Join, Sink!Join,
         FQ!Serve, Sink!Serve, FQ!GiveUp, Sink!GiveUp, FQ!Leave, Sink!Leave, FQ!Goes, Sink!Goes

\* Every behaviour of the senders and closers, seen at the sink, is one of
\* FairQueue: no call writes before one that came to the sink earlier and waits,
\* and no dropped call keeps the sink.
THEOREM SinkImplementsQueue == Spec => SinkIsFair
  BY SinkIsQueue, SameQueue, PTL DEF FQ!Spec, SinkIsFair, Sink!Spec

\* The sink's queue holds exactly the calls that are at the sink, each once, and
\* no send or close leaves it with its frame before one that came earlier.
THEOREM SinkServesInOrder == Spec => []Sink!HoldsTheQueued /\ Sink!ServedInOrder
<1>1. Spec => []FQ!HoldsTheQueued /\ FQ!ServedInOrder
  BY SinkIsQueue, FQ!OnlyTheQueuedWait, FQ!FirstComeFirstServed
<1>2. QED
  BY <1>1 DEF FQ!HoldsTheQueued, Sink!HoldsTheQueued, FQ!ServedInOrder, Sink!ServedInOrder,
              FQ!vars, Sink!vars

\* A call that is writing holds the sink, and only it.
WriterHolds == \A s \in Callers : pc[s] = "flushing" => HoldsSink(s)

\* A call other than the head that leaves the queue does not move the head, and
\* the head that leaves was the only one that wrote.
LEMMA NextWriter == TypeOK /\ WriterHolds /\ [Next]_vars => WriterHolds'
<1> SUFFICES ASSUME TypeOK, WriterHolds, [Next]_vars,
                    NEW s \in Callers, pc'[s] = "flushing"
             PROVE  HoldsSink(s)'
  BY DEF WriterHolds
<1>t. pc \in [Callers -> States] /\ sinkQueue \in Seq(Callers)
  BY DEF TypeOK
<1>h. ASSUME HoldsSink(s), sinkQueue' = sinkQueue PROVE HoldsSink(s)'
  BY <1>h DEF HoldsSink
<1>1. ASSUME NEW c \in Callers, Write(c) PROVE HoldsSink(s)'
  <2>1. pc' = [pc EXCEPT ![c] = "flushing"] /\ HoldsSink(c) /\ sinkQueue' = sinkQueue
    BY <1>1 DEF Write
  <2>2. HoldsSink(s)
    BY <1>t, <2>1 DEF WriterHolds
  <2>3. QED
    BY <1>h, <2>1, <2>2
<1>2. ASSUME NEW c \in Callers, NEW p, p # "flushing", pc' = [pc EXCEPT ![c] = p]
      PROVE  s # c /\ pc[s] = "flushing" /\ HoldsSink(s)
  BY <1>t, <1>2 DEF WriterHolds
<1>3. ASSUME NEW c \in Callers, Start(c) \/ Wake(c) \/ Drop(c) PROVE HoldsSink(s)'
  <2>1. PICK p \in {"polling", "admitted", "dropped"} :
           pc' = [pc EXCEPT ![c] = p] /\ sinkQueue' = sinkQueue
    BY <1>3 DEF Start, Wake, Drop
  <2>2. QED
    BY <1>2, <1>h, <2>1
<1>4. ASSUME NEW c \in Callers, Poll(c) PROVE HoldsSink(s)'
  <2>1. c \in Senders /\ sinkQueue' = sinkQueue
    BY <1>4 DEF Poll
  <2>2. PICK p \in {"admitted", "sleeping", "timedOut", "unsendable"} : pc' = [pc EXCEPT ![c] = p]
    BY <1>4, <2>1, PollStep DEF AfterDeferral
  <2>3. QED
    BY <1>2, <1>h, <2>1, <2>2
<1>5. ASSUME NEW c \in Callers, LockSink(c) PROVE HoldsSink(s)'
  <2>1. pc' = [pc EXCEPT ![c] = "locking"] /\ sinkQueue' = Append(sinkQueue, c)
    BY <1>5 DEF LockSink
  <2>2. sinkQueue # <<>> /\ Head(sinkQueue) = s
    BY <1>2, <2>1 DEF HoldsSink
  <2>3. Append(sinkQueue, c) # <<>> /\ Head(Append(sinkQueue, c)) = Head(sinkQueue)
    BY <1>t, <2>2
  <2>4. QED
    BY <2>1, <2>2, <2>3 DEF HoldsSink
<1>6. ASSUME NEW c \in Callers, Flush(c) \/ WriteFails(c) PROVE HoldsSink(s)'
  <2>1. HoldsSink(c) /\ \E p \in {"sent", "failed"} : pc' = [pc EXCEPT ![c] = p]
    BY <1>6 DEF Flush, WriteFails
  <2>2. QED
    BY <1>2, <2>1 DEF HoldsSink
<1>7. ASSUME NEW c \in Callers, DropAtSink(c) PROVE HoldsSink(s)'
  <2>1. PICK k \in 1 .. Len(sinkQueue) :
           /\ sinkQueue[k] = c
           /\ sinkQueue' = SubSeq(sinkQueue, 1, k - 1) \o SubSeq(sinkQueue, k + 1, Len(sinkQueue))
    BY <1>7 DEF DropAtSink, LeavesQueue
  <2>2. s # c /\ sinkQueue # <<>> /\ Head(sinkQueue) = s
    BY <1>2, <1>7 DEF DropAtSink, HoldsSink
  <2>3. Len(sinkQueue) \in Nat \ {0} /\ sinkQueue[1] = s
    BY <1>t, <2>2
  <2>4. k \in 2 .. Len(sinkQueue)
    BY <2>1, <2>2, <2>3
  <2>5. PICK r : r = SubSeq(sinkQueue, 1, k - 1) \o SubSeq(sinkQueue, k + 1, Len(sinkQueue))
    OBVIOUS
  <2>6. /\ r \in Seq(Callers) /\ Len(r) = Len(sinkQueue) - 1
        /\ \A j \in 1 .. Len(sinkQueue) - 1 :
               r[j] = IF j < k THEN sinkQueue[j] ELSE sinkQueue[j + 1]
    BY <1>t, <2>1, <2>5, FQ!RemovedFromQueue
  <2>7. r # <<>> /\ Head(r) = s
    <3>1. 1 \in 1 .. Len(sinkQueue) - 1 /\ 1 < k /\ Len(r) # 0
      BY <2>3, <2>4, <2>6
    <3>2. r[1] = s
      BY <2>3, <2>6, <3>1
    <3>3. QED
      BY <2>6, <3>1, <3>2
  <2>8. QED
    BY <2>1, <2>5, <2>7 DEF HoldsSink
<1>8. CASE Tick \/ UNCHANGED vars
  BY <1>h, <1>8 DEF Tick, vars, WriterHolds
<1>9. QED
  BY <1>1, <1>3, <1>4, <1>5, <1>6, <1>7, <1>8 DEF Next, Progress

\* Two frames are never half-way into the websocket at the same time, though a
\* call may be dropped in the middle of its own: whoever is writing holds the
\* sink, so two such calls are one.
THEOREM OneWriterAtATime ==
    Spec => [](\A s, r \in Callers : pc[s] = "flushing" /\ pc[r] = "flushing" => s = r)
<1>1. Init => WriterHolds
  BY DEF Init, WriterHolds
<1>2. WriterHolds => \A s, r \in Callers : pc[s] = "flushing" /\ pc[r] = "flushing" => s = r
  BY DEF WriterHolds, HoldsSink
<1>3. QED
  BY <1>1, <1>2, TypeCorrect, NextWriter, PTL DEF Spec
=============================================================================
