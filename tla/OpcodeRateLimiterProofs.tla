---------------------- MODULE OpcodeRateLimiterProofs ----------------------
(***************************************************************************)
(* Proofs about OpcodeRateLimiter, for every limit table, factor, window   *)
(* length and set of messages.                                             *)
(*                                                                         *)
(* Two facts carry the safety theorems: Books, that the counters are the   *)
(* sums of what was admitted (Outbound) or offered (Inbound) in the window *)
(* of the last call, and AdmissionMonotone, that a message admitted beside *)
(* some traffic would be, and so would a smaller one, beside less of it.   *)
(***************************************************************************)
EXTENDS OpcodeRateLimiter, TLAPS

-----------------------------------------------------------------------------
(* Tables and comparisons *)

\* Every row of the source table survives the re-keying, under its wire byte.
LEMMA RekeyKeepsLimits ==
    ASSUME NEW table, IsTable(table)
    PROVE  /\ Rekey(table) \in [DOMAIN Rekey(table) -> RateLimit]
           /\ DOMAIN Rekey(table) \subseteq Opcodes
           /\ \A t \in DOMAIN table : /\ WireByte[t] \in DOMAIN Rekey(table)
                                      /\ Rekey(table)[WireByte[t]] = table[t]
<1> DEFINE Bytes == {WireByte[t] : t \in DOMAIN table}
           Key(b) == CHOOSE t \in DOMAIN table : WireByte[t] = b
<1>1. \A b \in Bytes : Key(b) \in DOMAIN table /\ WireByte[Key(b)] = b
  OBVIOUS
<1>2. Rekey(table) = [b \in Bytes |-> table[Key(b)]]
  BY DEF Rekey
<1>3. \A b \in Bytes : table[Key(b)] \in RateLimit
  BY <1>1 DEF IsTable
<1>4. Bytes \subseteq Opcodes
  BY WireByteAssumption DEF IsTable
<1>5. \A t \in DOMAIN table : Key(WireByte[t]) = t
  BY <1>1, WireByteAssumption DEF IsTable
<1> HIDE DEF Key
<1>6. QED
  BY <1>2, <1>3, <1>4, <1>5

LEMMA LimitType ==
    ASSUME NEW op \in Opcodes
    PROVE  Limit(op) \in RateLimit /\ MaxTotal(op) \in Nat
<1>1. Limit(op) \in RateLimit
  BY RekeyKeepsLimits, TableAssumption DEF Limit, Tx, Other
<1>2. Limit(op).frequency * Limit(op).maxSize \in Nat
  BY <1>1 DEF RateLimit
<1>3. QED
  BY <1>1, <1>2 DEF MaxTotal, RateLimit

\* Comparing against a scaled budget is monotone, and no budget is negative.
LEMMA WithinMonotone ==
    ASSUME NEW a \in Nat, NEW b \in Nat, NEW budget \in Nat, a <= b, Within(b, budget)
    PROVE  Within(a, budget)
<1>1. PICK k \in Nat : b = a + k
  <2>1. b - a \in Nat /\ b = a + (b - a)
    OBVIOUS
  <2>2. QED
    BY <2>1
<1>2. b * FactorDen = a * FactorDen + k * FactorDen
  BY <1>1, FactorAssumption
<1>3. k * FactorDen \in Nat /\ a * FactorDen \in Nat /\ budget * FactorNum \in Nat
  BY FactorAssumption
<1>4. b * FactorDen <= budget * FactorNum
  BY DEF Within
<1>5. a * FactorDen <= budget * FactorNum
  BY <1>2, <1>3, <1>4
<1>6. QED
  BY <1>5 DEF Within

LEMMA WithinZero ==
    ASSUME NEW budget \in Nat
    PROVE  Within(0, budget)
<1>1. budget * FactorNum \in Nat
  BY FactorAssumption
<1>2. 0 * FactorDen = 0
  BY FactorAssumption
<1>3. QED
  BY <1>1, <1>2 DEF Within

-----------------------------------------------------------------------------
(* Sums of traffic *)

\* s has no more of anything than t.
Dominated(s, t) ==
    /\ \A op \in Opcodes : s.count[op] <= t.count[op] /\ s.size[op] <= t.size[op]
    /\ s.nonTxCount <= t.nonTxCount
    /\ s.nonTxSize <= t.nonTxSize

LEMMA NoTrafficType == NoTraffic \in Traffic
  BY DEF NoTraffic, Nothing, Traffic

LEMMA PlusType ==
    ASSUME NEW t \in Traffic, NEW op \in Opcodes, NEW size \in Nat
    PROVE  Plus(t, op, size) \in Traffic
  BY DEF Plus, Traffic

LEMMA PlusGrows ==
    ASSUME NEW t \in Traffic, NEW op \in Opcodes, NEW size \in Nat
    PROVE  Dominated(t, Plus(t, op, size))
  BY DEF Plus, Traffic, Dominated

LEMMA PlusMonotone ==
    ASSUME NEW s \in Traffic, NEW t \in Traffic, Dominated(s, t),
           NEW op \in Opcodes, NEW m \in Nat, NEW n \in Nat, m <= n
    PROVE  Dominated(Plus(s, op, m), Plus(t, op, n))
  BY DEF Plus, Traffic, Dominated

LEMMA NoTrafficLeast ==
    ASSUME NEW t \in Traffic
    PROVE  Dominated(NoTraffic, t)
  BY DEF NoTraffic, Nothing, Traffic, Dominated

LEMMA DominatedReflexive ==
    ASSUME NEW t \in Traffic
    PROVE  Dominated(t, t)
  BY DEF Traffic, Dominated

LEMMA DominatedTransitive ==
    ASSUME NEW r \in Traffic, NEW s \in Traffic, NEW t \in Traffic,
           Dominated(r, s), Dominated(s, t)
    PROVE  Dominated(r, t)
  BY DEF Traffic, Dominated

-----------------------------------------------------------------------------
(* Verdicts *)

\* A message in budget beside t is in budget beside less than t.
LEMMA FitsMonotone ==
    ASSUME NEW s \in Traffic, NEW t \in Traffic, Dominated(s, t), NEW op \in Opcodes,
           FitsThisWindow(op, t)
    PROVE  FitsThisWindow(op, s)
<1>1. /\ s.count[op] \in Nat /\ t.count[op] \in Nat /\ s.count[op] <= t.count[op]
      /\ s.size[op] \in Nat /\ t.size[op] \in Nat /\ s.size[op] <= t.size[op]
      /\ s.nonTxCount \in Nat /\ t.nonTxCount \in Nat /\ s.nonTxCount <= t.nonTxCount
      /\ s.nonTxSize \in Nat /\ t.nonTxSize \in Nat /\ s.nonTxSize <= t.nonTxSize
  BY DEF Traffic, Dominated
<1>2. Limit(op).frequency \in Nat /\ MaxTotal(op) \in Nat
  BY LimitType DEF RateLimit
<1>3. NonTxFrequency \in Nat /\ NonTxMaxTotalSize \in Nat
  BY TableAssumption
<1>4. QED
  BY <1>1, <1>2, <1>3, WithinMonotone DEF FitsThisWindow

LEMMA FitsEmptyMonotone ==
    ASSUME NEW op \in Opcodes, NEW m \in Nat, NEW n \in Nat, m <= n,
           FitsAnEmptyWindow(op, n)
    PROVE  FitsAnEmptyWindow(op, m)
<1>1. /\ Limit(op).frequency \in Nat /\ Limit(op).maxSize \in Nat
      /\ MaxTotal(op) \in Nat
  BY LimitType DEF RateLimit
<1>2. NonTxFrequency \in Nat /\ NonTxMaxTotalSize \in Nat
  BY TableAssumption
<1>3. m <= Limit(op).maxSize
  BY <1>1 DEF FitsAnEmptyWindow
<1>4. Within(m, MaxTotal(op))
  BY <1>1, WithinMonotone DEF FitsAnEmptyWindow
<1>5. CountsAgainstNonTx(op) => Within(m, NonTxMaxTotalSize)
  BY <1>2, WithinMonotone DEF FitsAnEmptyWindow
<1>6. QED
  BY <1>3, <1>4, <1>5 DEF FitsAnEmptyWindow

LEMMA AdmissionMonotone ==
    ASSUME NEW s \in Traffic, NEW t \in Traffic, Dominated(s, t), NEW op \in Opcodes,
           NEW m \in Nat, NEW n \in Nat, m <= n,
           Verdict(op, n, Plus(t, op, n)) = "Admitted"
    PROVE  Verdict(op, m, Plus(s, op, m)) = "Admitted"
<1>1. FitsAnEmptyWindow(op, n) /\ FitsThisWindow(op, Plus(t, op, n))
  BY DEF Verdict
<1>2. FitsAnEmptyWindow(op, m)
  BY <1>1, FitsEmptyMonotone
<1>3. FitsThisWindow(op, Plus(s, op, m))
  BY <1>1, PlusType, PlusMonotone, FitsMonotone
<1>4. QED
  BY <1>2, <1>3 DEF Verdict

\* The two conditions admit writes out separately agree on an empty window.
LEMMA EmptyWindow ==
    ASSUME NEW op \in Opcodes, NEW size \in Nat
    PROVE  /\ FitsAnEmptyWindow(op, size) <=>
                  /\ size <= Limit(op).maxSize
                  /\ FitsThisWindow(op, Plus(NoTraffic, op, size))
           /\ FitsThisWindow(op, Plus(NoTraffic, op, size)) <=>
                  InBudget(Plus(NoTraffic, op, size))
<1> DEFINE t == Plus(NoTraffic, op, size)
<1>1. /\ t.count[op] = 1 /\ t.size[op] = size
      /\ \A o \in Opcodes \ {op} : t.count[o] = 0 /\ t.size[o] = 0
      /\ t.nonTxCount = IF CountsAgainstNonTx(op) THEN 1 ELSE 0
      /\ t.nonTxSize = IF CountsAgainstNonTx(op) THEN size ELSE 0
  BY DEF Plus, NoTraffic, Nothing
<1>2. \A o \in Opcodes : Limit(o).frequency \in Nat /\ MaxTotal(o) \in Nat
  BY LimitType DEF RateLimit
<1>3. Within(0, NonTxFrequency) /\ Within(0, NonTxMaxTotalSize)
  BY WithinZero, TableAssumption
<1>4. \A o \in Opcodes : Within(0, Limit(o).frequency) /\ Within(0, MaxTotal(o))
  BY <1>2, WithinZero
<1> HIDE DEF t
<1>5. FitsAnEmptyWindow(op, size) <=> size <= Limit(op).maxSize /\ FitsThisWindow(op, t)
  BY <1>1, <1>3 DEF FitsAnEmptyWindow, FitsThisWindow
<1>6. FitsThisWindow(op, t) <=> InBudget(t)
  BY <1>1, <1>4 DEF FitsThisWindow, InBudget
<1>7. QED
  BY <1>5, <1>6 DEF t

-----------------------------------------------------------------------------
(* Type correctness *)

\* The four counters as one sum of traffic.
Kept == [count |-> counts, size |-> cumulativeSizes,
         nonTxCount |-> nonTxCount, nonTxSize |-> nonTxSize]

LEMMA KeptType ==
    ASSUME TypeOK
    PROVE  Kept \in Traffic
  BY DEF TypeOK, Kept, Traffic

LEMMA CurrentIs ==
    ASSUME TypeOK
    PROVE  /\ Current = IF period = Window THEN Kept ELSE NoTraffic
           /\ Current \in Traffic
  BY KeptType, NoTrafficType DEF Current, Rolled, Kept, NoTraffic

LEMMA WindowType ==
    ASSUME clock \in Clock
    PROVE  Window \in Nat
  BY WindowAssumption DEF Clock, Window

\* What one call does, in terms of the sums it starts from.
LEMMA AdmitStep ==
    ASSUME TypeOK, NEW op \in Opcodes, NEW size \in Sizes, Admit(op, size)
    PROVE  /\ size \in Nat
           /\ LET verdict == Verdict(op, size, Plus(Current, op, size)) IN
              /\ verdict \in Verdicts
              /\ Kept' = IF IsCharged(verdict) THEN Plus(Current, op, size) ELSE Current
              /\ Kept' \in Traffic
              /\ offered' = Plus(Since(offered, NoTraffic), op, size)
              /\ admitted' = IF verdict = "Admitted"
                             THEN Plus(Since(admitted, NoTraffic), op, size)
                             ELSE Since(admitted, NoTraffic)
              /\ refused' = Since(refused, {}) \cup
                     (IF verdict = "Admitted" THEN {} ELSE {[op |-> op, size |-> size]})
              /\ last' = {[op |-> op, size |-> size, verdict |-> verdict,
                           first |-> Since(calls, 0) = 0]}
           /\ period' = Window /\ calledIn' = Window /\ Window' = Window
           /\ calls' = Since(calls, 0) + 1
           /\ direction' = direction /\ clock' = clock
<1> DEFINE new == Plus(Current, op, size)
           verdict == Verdict(op, size, new)
           kept == IF IsCharged(verdict) THEN new ELSE Current
<1>1. size \in Nat
  BY SizesAssumption
<1>2. Current \in Traffic /\ new \in Traffic
  BY <1>1, CurrentIs, PlusType
<1>3. kept \in Traffic
  BY <1>2
<1>4. Kept' = kept
  <2>1. Kept' = [count |-> kept.count, size |-> kept.size,
                 nonTxCount |-> kept.nonTxCount, nonTxSize |-> kept.nonTxSize]
    BY DEF Admit, Kept
  <2>2. \A t \in Traffic : t = [count |-> t.count, size |-> t.size,
                                nonTxCount |-> t.nonTxCount, nonTxSize |-> t.nonTxSize]
    BY DEF Traffic
  <2>3. QED
    BY <1>3, <2>1, <2>2
<1>5. verdict \in Verdicts
  BY DEF Verdict, Verdicts
<1>6. QED
  BY <1>1, <1>3, <1>4, <1>5 DEF Admit, NextPeriod, Window

LEMMA InitTypes == Init => TypeOK
  BY NoTrafficType, WindowType DEF Init, TypeOK, Nothing

LEMMA NextTypes == TypeOK /\ [Next]_vars => TypeOK'
<1> SUFFICES ASSUME TypeOK, [Next]_vars PROVE TypeOK'
  OBVIOUS
<1>1. ASSUME NEW op \in Opcodes, NEW size \in Sizes, Admit(op, size)
      PROVE  TypeOK'
  <2> DEFINE verdict == Verdict(op, size, Plus(Current, op, size))
  <2>1. size \in Nat /\ verdict \in Verdicts
    BY <1>1, AdmitStep
  <2>2. /\ counts' \in [Opcodes -> Nat] /\ cumulativeSizes' \in [Opcodes -> Nat]
        /\ nonTxCount' \in Nat /\ nonTxSize' \in Nat
    BY <1>1, AdmitStep DEF Kept, Traffic
  <2>3. offered' \in Traffic /\ admitted' \in Traffic
    <3>1. Since(offered, NoTraffic) \in Traffic /\ Since(admitted, NoTraffic) \in Traffic
      BY NoTrafficType DEF Since, TypeOK
    <3>2. QED
      BY <1>1, <2>1, <3>1, AdmitStep, PlusType
  <2>4. refused' \subseteq [op : Opcodes, size : Sizes]
    <3>1. refused' = Since(refused, {}) \cup
                (IF verdict = "Admitted" THEN {} ELSE {[op |-> op, size |-> size]})
      BY <1>1, AdmitStep
    <3>2. Since(refused, {}) \subseteq [op : Opcodes, size : Sizes]
      BY DEF Since, TypeOK
    <3>3. QED
      BY <3>1, <3>2
  <2>5. last' \subseteq [op : Opcodes, size : Sizes, verdict : Verdicts, first : BOOLEAN]
    <3>1. last' = {[op |-> op, size |-> size, verdict |-> verdict,
                    first |-> Since(calls, 0) = 0]}
      BY <1>1, AdmitStep
    <3> HIDE DEF verdict
    <3>2. QED
      BY <2>1, <3>1
  <2>6. period' \in Nat /\ calledIn' \in Nat /\ calls' \in Nat
    BY <1>1, AdmitStep, WindowType DEF Since, TypeOK
  <2>7. direction' = direction /\ clock' = clock
    BY <1>1, AdmitStep
  <2>8. QED
    BY <2>2, <2>3, <2>4, <2>5, <2>6, <2>7 DEF TypeOK
<1>2. CASE ClockMoves
  BY <1>2 DEF ClockMoves, limiter, history, TypeOK
<1>3. CASE UNCHANGED vars
  BY <1>3 DEF vars, limiter, history, TypeOK
<1>4. QED
  BY <1>1, <1>2, <1>3 DEF Next

\* The limiter's fields and the record of its calls keep their types.
THEOREM TypeCorrect == Spec => []TypeOK
  BY InitTypes, NextTypes, PTL DEF Spec

-----------------------------------------------------------------------------
(* The books *)

\* The counters are what was admitted (Outbound) or offered (Inbound) since a
\* call first fell into the window of the last call.
Books ==
    /\ calledIn = period
    /\ direction = "Outbound" => Kept = admitted
    /\ direction = "Inbound" => Kept = offered
    /\ Dominated(admitted, Kept)
    /\ calls = 0 => Kept = NoTraffic

\* The counters a call starts from are the histories', and start empty.
LEMMA SinceIsCurrent ==
    ASSUME TypeOK, Books
    PROVE  /\ direction = "Outbound" => Current = Since(admitted, NoTraffic)
           /\ direction = "Inbound" => Current = Since(offered, NoTraffic)
           /\ Dominated(Since(admitted, NoTraffic), Current)
           /\ Since(calls, 0) = 0 => Current = NoTraffic
<1>1. Current = IF period = Window THEN Kept ELSE NoTraffic
  BY CurrentIs
<1>2. Dominated(NoTraffic, NoTraffic)
  BY NoTrafficType, DominatedReflexive
<1>3. QED
  BY <1>1, <1>2 DEF Books, Since

LEMMA InitBooks == Init => Books
<1> SUFFICES ASSUME Init PROVE Books
  OBVIOUS
<1>1. Kept = NoTraffic /\ admitted = NoTraffic /\ offered = NoTraffic
  BY DEF Init, Kept, NoTraffic
<1>2. Dominated(NoTraffic, NoTraffic)
  BY NoTrafficType, DominatedReflexive
<1>3. QED
  BY <1>1, <1>2 DEF Init, Books

LEMMA NextBooks == TypeOK /\ Books /\ [Next]_vars => Books'
<1> SUFFICES ASSUME TypeOK, Books, [Next]_vars PROVE Books'
  OBVIOUS
<1>1. ASSUME NEW op \in Opcodes, NEW size \in Sizes, Admit(op, size)
      PROVE  Books'
  <2> DEFINE verdict == Verdict(op, size, Plus(Current, op, size))
             before == Since(admitted, NoTraffic)
  <2>1. /\ size \in Nat
        /\ Kept' = IF IsCharged(verdict) THEN Plus(Current, op, size) ELSE Current
        /\ offered' = Plus(Since(offered, NoTraffic), op, size)
        /\ admitted' = IF verdict = "Admitted" THEN Plus(before, op, size) ELSE before
        /\ period' = Window /\ calledIn' = Window
        /\ calls' = Since(calls, 0) + 1
        /\ direction' = direction
    BY <1>1, AdmitStep
  <2>2. /\ direction = "Outbound" => Current = before
        /\ direction = "Inbound" => Current = Since(offered, NoTraffic)
        /\ Dominated(before, Current)
    BY SinceIsCurrent
  <2>3. Current \in Traffic /\ before \in Traffic
    BY CurrentIs, NoTrafficType DEF Since, TypeOK
  <2> HIDE DEF verdict, before
  <2>4. direction' = "Outbound" => Kept' = admitted'
    BY <2>1, <2>2 DEF IsCharged
  <2>5. direction' = "Inbound" => Kept' = offered'
    BY <2>1, <2>2 DEF IsCharged
  <2>6. Dominated(admitted', Kept')
    <3>1. Dominated(Plus(before, op, size), Plus(Current, op, size))
      BY <2>1, <2>2, <2>3, PlusMonotone
    <3>2. Dominated(before, Plus(Current, op, size))
      BY <2>1, <2>2, <2>3, PlusGrows, PlusType, DominatedTransitive
    <3>3. verdict = "Admitted" => IsCharged(verdict)
      BY DEF IsCharged
    <3>4. QED
      BY <2>1, <2>2, <3>1, <3>2, <3>3
  <2>7. calls' # 0
    BY <2>1 DEF TypeOK, Since
  <2>8. QED
    BY <2>1, <2>4, <2>5, <2>6, <2>7 DEF Books, Dominated
<1>2. CASE ClockMoves
  BY <1>2 DEF ClockMoves, limiter, history, Books, Kept, Dominated
<1>3. CASE UNCHANGED vars
  BY <1>3 DEF vars, limiter, history, Books, Kept, Dominated
<1>4. QED
  BY <1>1, <1>2, <1>3 DEF Next

-----------------------------------------------------------------------------
(* Budgets *)

LEMMA NoTrafficInBudget == InBudget(NoTraffic)
<1>1. \A op \in Opcodes : Limit(op).frequency \in Nat /\ MaxTotal(op) \in Nat
  BY LimitType DEF RateLimit
<1>2. NonTxFrequency \in Nat /\ NonTxMaxTotalSize \in Nat
  BY TableAssumption
<1>3. QED
  BY <1>1, <1>2, WithinZero DEF InBudget, NoTraffic, Nothing

\* Adding a message to what is in budget disturbs its own opcode's sums and
\* the aggregates only, and those are what FitsThisWindow looks at.
LEMMA InBudgetPlus ==
    ASSUME NEW t \in Traffic, InBudget(t), NEW op \in Opcodes, NEW size \in Nat,
           FitsThisWindow(op, Plus(t, op, size))
    PROVE  InBudget(Plus(t, op, size))
<1> DEFINE new == Plus(t, op, size)
<1>1. \A o \in Opcodes \ {op} : new.count[o] = t.count[o] /\ new.size[o] = t.size[o]
  BY DEF Plus, Traffic
<1> HIDE DEF new
<1>2. FitsThisWindow(op, new)
  BY DEF new
<1>3. InBudget(new)
  BY <1>1, <1>2 DEF InBudget, FitsThisWindow
<1>4. QED
  BY <1>3 DEF new

LEMMA InitBudgets == Init => WithinBudgets
  BY NoTrafficInBudget DEF Init, WithinBudgets

LEMMA NextBudgets == TypeOK /\ Books /\ WithinBudgets /\ [Next]_vars => WithinBudgets'
<1> SUFFICES ASSUME TypeOK, Books, WithinBudgets, [Next]_vars PROVE WithinBudgets'
  OBVIOUS
<1>1. ASSUME NEW op \in Opcodes, NEW size \in Sizes, Admit(op, size)
      PROVE  WithinBudgets'
  <2> DEFINE verdict == Verdict(op, size, Plus(Current, op, size))
             before == Since(admitted, NoTraffic)
  <2>1. /\ size \in Nat
        /\ admitted' = IF verdict = "Admitted" THEN Plus(before, op, size) ELSE before
    BY <1>1, AdmitStep
  <2>2. InBudget(before)
    BY NoTrafficInBudget DEF WithinBudgets, Since
  <2>3. CASE verdict = "Admitted"
    <3>1. before \in Traffic /\ Current \in Traffic /\ Dominated(before, Current)
      BY SinceIsCurrent, CurrentIs, NoTrafficType DEF Since, TypeOK
    <3>2. FitsThisWindow(op, Plus(Current, op, size))
      BY <2>3 DEF Verdict
    <3>3. FitsThisWindow(op, Plus(before, op, size))
      BY <2>1, <3>1, <3>2, PlusType, PlusMonotone, FitsMonotone
    <3>4. InBudget(Plus(before, op, size))
      BY <2>1, <2>2, <3>1, <3>3, InBudgetPlus
    <3>5. admitted' = Plus(before, op, size)
      BY <2>1, <2>3
    <3> HIDE DEF verdict, before
    <3>6. InBudget(admitted')
      BY <3>4, <3>5
    <3>7. QED
      BY <3>6 DEF WithinBudgets, InBudget
  <2>4. CASE verdict # "Admitted"
    <3>1. admitted' = before
      BY <2>1, <2>4
    <3> HIDE DEF verdict, before
    <3>2. InBudget(admitted')
      BY <2>2, <3>1
    <3>3. QED
      BY <3>2 DEF WithinBudgets, InBudget
  <2>5. QED
    BY <2>3, <2>4
<1>2. CASE ClockMoves
  BY <1>2 DEF ClockMoves, history, WithinBudgets, InBudget
<1>3. CASE UNCHANGED vars
  BY <1>3 DEF vars, history, WithinBudgets, InBudget
<1>4. QED
  BY <1>1, <1>2, <1>3 DEF Next

\* No window admits more than the tables' budgets, wherever the clock is set
\* and whatever is refused in between, in either direction.
THEOREM BudgetsKept == Spec => []WithinBudgets
<1>1. Init /\ [][Next]_vars => [](TypeOK /\ Books /\ WithinBudgets)
  BY InitTypes, InitBooks, InitBudgets, NextTypes, NextBooks, NextBudgets, PTL
<1>2. QED
  BY <1>1, PTL DEF Spec

-----------------------------------------------------------------------------
(* The verdicts *)

LEMMA NextRefusalKind == TypeOK /\ RefusalKind /\ [Next]_vars => RefusalKind'
<1> SUFFICES ASSUME TypeOK, RefusalKind, [Next]_vars PROVE RefusalKind'
  OBVIOUS
<1>1. ASSUME NEW op \in Opcodes, NEW size \in Sizes, Admit(op, size)
      PROVE  RefusalKind'
  <2> DEFINE verdict == Verdict(op, size, Plus(Current, op, size))
             fitsAlone == /\ size <= Limit(op).maxSize
                          /\ InBudget(Plus(NoTraffic, op, size))
             call == [op |-> op, size |-> size, verdict |-> verdict,
                      first |-> Since(calls, 0) = 0]
  <2>1. size \in Nat /\ last' = {call}
    BY <1>1, AdmitStep
  <2>2. FitsAnEmptyWindow(op, size) <=> fitsAlone
    BY <2>1, EmptyWindow
  <2>3. /\ verdict = "Deferred" => fitsAlone
        /\ verdict = "Unsendable" => ~fitsAlone
    BY <2>2 DEF Verdict
  <2>4. call.op = op /\ call.size = size /\ call.verdict = verdict
    OBVIOUS
  <2> HIDE DEF verdict, call
  <2>5. QED
    BY <2>1, <2>3, <2>4 DEF RefusalKind
<1>2. CASE ClockMoves
  BY <1>2 DEF ClockMoves, history, RefusalKind
<1>3. CASE UNCHANGED vars
  BY <1>3 DEF vars, history, RefusalKind
<1>4. QED
  BY <1>1, <1>2, <1>3 DEF Next

\* A deferred message fits an empty window and an unsendable one does not,
\* for every table and factor: waiting helps exactly where it is advised.
THEOREM RefusalsOfTheRightKind == Spec => []RefusalKind
<1>1. Init => RefusalKind
  BY DEF Init, RefusalKind
<1>2. QED
  BY <1>1, InitTypes, NextTypes, NextRefusalKind, PTL DEF Spec

LEMMA NextFresh == TypeOK /\ Books /\ FreshWindowNeverDefers /\ [Next]_vars
                       => FreshWindowNeverDefers'
<1> SUFFICES ASSUME TypeOK, Books, FreshWindowNeverDefers, [Next]_vars
             PROVE  FreshWindowNeverDefers'
  OBVIOUS
<1>1. ASSUME NEW op \in Opcodes, NEW size \in Sizes, Admit(op, size)
      PROVE  FreshWindowNeverDefers'
  <2> DEFINE verdict == Verdict(op, size, Plus(Current, op, size))
             first == Since(calls, 0) = 0
             call == [op |-> op, size |-> size, verdict |-> verdict, first |-> first]
  <2>1. size \in Nat /\ last' = {call}
    BY <1>1, AdmitStep
  <2>2. first => Current = NoTraffic
    BY SinceIsCurrent
  <2>3. first => verdict # "Deferred"
    BY <2>1, <2>2, EmptyWindow DEF Verdict
  <2>4. call.verdict = verdict /\ call.first = first
    OBVIOUS
  <2> HIDE DEF verdict, first, call
  <2>5. QED
    BY <2>1, <2>3, <2>4 DEF FreshWindowNeverDefers
<1>2. CASE ClockMoves
  BY <1>2 DEF ClockMoves, history, FreshWindowNeverDefers
<1>3. CASE UNCHANGED vars
  BY <1>3 DEF vars, history, FreshWindowNeverDefers
<1>4. QED
  BY <1>1, <1>2, <1>3 DEF Next

\* The first message of a window is never deferred: a roll clears everything.
THEOREM FreshWindowsDeferNothing == Spec => []FreshWindowNeverDefers
<1>1. Init => FreshWindowNeverDefers
  BY DEF Init, FreshWindowNeverDefers
<1>2. Init /\ [][Next]_vars => [](TypeOK /\ Books /\ FreshWindowNeverDefers)
  BY <1>1, InitTypes, InitBooks, NextTypes, NextBooks, NextFresh, PTL
<1>3. QED
  BY <1>2, PTL DEF Spec

\* A message the window now refuses.
RefusedNow(m) == Verdict(m.op, m.size, Plus(Kept, m.op, m.size)) # "Admitted"

\* Whatever was refused since the window began is refused by it still.
Exhausted == \A m \in refused : RefusedNow(m)

LEMMA NextExhausted == TypeOK /\ Books /\ Exhausted /\ [Next]_vars => Exhausted'
<1> SUFFICES ASSUME TypeOK, Books, Exhausted, [Next]_vars PROVE Exhausted'
  OBVIOUS
<1>1. ASSUME NEW op \in Opcodes, NEW size \in Sizes, Admit(op, size)
      PROVE  Exhausted'
  <2> DEFINE verdict == Verdict(op, size, Plus(Current, op, size))
             call == [op |-> op, size |-> size]
  <2>1. /\ size \in Nat /\ Kept' \in Traffic
        /\ Kept' = IF IsCharged(verdict) THEN Plus(Current, op, size) ELSE Current
        /\ refused' = Since(refused, {}) \cup
                          (IF verdict = "Admitted" THEN {} ELSE {call})
    BY <1>1, AdmitStep
  <2>2. Current \in Traffic /\ Plus(Current, op, size) \in Traffic
    BY <2>1, CurrentIs, PlusType
  <2>3. Dominated(Current, Kept')
    <3>1. Dominated(Current, Current) /\ Dominated(Current, Plus(Current, op, size))
      BY <2>1, <2>2, DominatedReflexive, PlusGrows
    <3> HIDE DEF verdict
    <3>2. QED
      BY <2>1, <3>1
  <2>4. ASSUME NEW m \in refused'
        PROVE  Verdict(m.op, m.size, Plus(Current, m.op, m.size)) # "Admitted"
    <3>1. CASE m \in Since(refused, {})
      <4>1. m \in refused /\ Current = Kept
        BY <3>1, CurrentIs DEF Since, Books
      <4>2. QED
        BY <4>1 DEF Exhausted, RefusedNow
    <3>2. CASE m \notin Since(refused, {})
      <4>1. m = call /\ verdict # "Admitted"
        BY <2>1, <3>2
      <4>2. QED
        BY <4>1
    <3>3. QED
      BY <3>1, <3>2
  <2>5. \A m \in refused' : m.op \in Opcodes /\ m.size \in Nat
    BY NextTypes, SizesAssumption DEF TypeOK
  <2>6. ASSUME NEW m \in refused'
        PROVE  Verdict(m.op, m.size, Plus(Kept', m.op, m.size)) # "Admitted"
    <3>1. m.op \in Opcodes /\ m.size \in Nat /\ m.size <= m.size
      BY <2>5
    <3>2. Verdict(m.op, m.size, Plus(Current, m.op, m.size)) # "Admitted"
      BY <2>4
    <3> HIDE DEF verdict
    <3>3. QED
      BY <2>1, <2>2, <2>3, <3>1, <3>2, AdmissionMonotone
  <2>7. QED
    BY <2>6 DEF Exhausted, RefusedNow, Verdict, FitsThisWindow, FitsAnEmptyWindow, Plus
<1>2. CASE ClockMoves
  BY <1>2 DEF ClockMoves, limiter, history, Exhausted, RefusedNow, Kept
<1>3. CASE UNCHANGED vars
  BY <1>3 DEF vars, limiter, history, Exhausted, RefusedNow, Kept
<1>4. QED
  BY <1>1, <1>2, <1>3 DEF Next

LEMMA NextRefusalStands ==
    TypeOK /\ Books /\ Exhausted /\ RefusalStands /\ [Next]_vars => RefusalStands'
<1> SUFFICES ASSUME TypeOK, Books, Exhausted, RefusalStands, [Next]_vars
             PROVE  RefusalStands'
  OBVIOUS
<1>1. ASSUME NEW op \in Opcodes, NEW size \in Sizes, Admit(op, size)
      PROVE  RefusalStands'
  <2> DEFINE verdict == Verdict(op, size, Plus(Current, op, size))
             call == [op |-> op, size |-> size, verdict |-> verdict,
                      first |-> Since(calls, 0) = 0]
  <2>1. /\ size \in Nat /\ last' = {call}
        /\ verdict = "Admitted" => refused' = Since(refused, {})
    BY <1>1, AdmitStep
  <2>2. ASSUME verdict = "Admitted", NEW m \in Since(refused, {}),
               m.op = op, m.size <= size
        PROVE  FALSE
    <3>1. m \in refused /\ Current = Kept
      BY <2>2, CurrentIs DEF Since, Books
    <3>2. m.size \in Nat
      BY <3>1, SizesAssumption DEF TypeOK
    <3>3. Current \in Traffic /\ Dominated(Current, Current)
      BY CurrentIs, DominatedReflexive
    <3>4. Verdict(op, m.size, Plus(Current, op, m.size)) = "Admitted"
      BY <2>1, <2>2, <3>2, <3>3, AdmissionMonotone
    <3>5. QED
      BY <2>2, <3>1, <3>4 DEF Exhausted, RefusedNow
  <2>3. call.op = op /\ call.size = size /\ call.verdict = verdict
    OBVIOUS
  <2> HIDE DEF verdict, call
  <2>4. QED
    BY <2>1, <2>2, <2>3 DEF RefusalStands
<1>2. CASE ClockMoves
  BY <1>2 DEF ClockMoves, history, RefusalStands
<1>3. CASE UNCHANGED vars
  BY <1>3 DEF vars, history, RefusalStands
<1>4. QED
  BY <1>1, <1>2, <1>3 DEF Next

\* Within one window no message is admitted after a refused one of its opcode
\* that was no larger.
THEOREM RefusalsStand == Spec => []RefusalStands
<1>1. Init => Exhausted /\ RefusalStands
  BY DEF Init, Exhausted, RefusalStands
<1>2. Init /\ [][Next]_vars => [](TypeOK /\ Books /\ Exhausted /\ RefusalStands)
  BY <1>1, InitTypes, InitBooks, NextTypes, NextBooks, NextExhausted,
     NextRefusalStands, PTL
<1>3. QED
  BY <1>2, PTL DEF Spec

LEMMA NextEarned ==
    TypeOK /\ Books /\ WithinBudgets' /\ OutboundDeferralIsEarned /\ [Next]_vars
        => OutboundDeferralIsEarned'
<1> SUFFICES ASSUME TypeOK, Books, WithinBudgets', OutboundDeferralIsEarned, [Next]_vars
             PROVE  OutboundDeferralIsEarned'
  OBVIOUS
<1>1. ASSUME NEW op \in Opcodes, NEW size \in Sizes, Admit(op, size)
      PROVE  OutboundDeferralIsEarned'
  <2> DEFINE new == Plus(Current, op, size)
             verdict == Verdict(op, size, new)
             call == [op |-> op, size |-> size, verdict |-> verdict,
                      first |-> Since(calls, 0) = 0]
             earned == \/ ~Within(new.count[op], Limit(op).frequency)
                       \/ ~Within(new.size[op], MaxTotal(op))
                       \/ /\ CountsAgainstNonTx(op)
                          /\ \/ ~Within(new.nonTxCount, NonTxFrequency)
                             \/ ~Within(new.nonTxSize, NonTxMaxTotalSize)
  <2>1. /\ size \in Nat /\ last' = {call} /\ direction' = direction
        /\ admitted' = IF verdict = "Admitted"
                       THEN Plus(Since(admitted, NoTraffic), op, size)
                       ELSE Since(admitted, NoTraffic)
    BY <1>1, AdmitStep
  <2>2. ASSUME direction = "Outbound", verdict = "Deferred"
        PROVE  admitted' = Current /\ earned
    <3>1. admitted' = Current
      BY <2>1, <2>2, SinceIsCurrent
    <3>2. ~FitsThisWindow(op, new)
      BY <2>2 DEF Verdict
    <3>3. /\ Within(Current.nonTxCount, NonTxFrequency)
          /\ Within(Current.nonTxSize, NonTxMaxTotalSize)
      BY <3>1 DEF WithinBudgets, InBudget, Within
    <3>4. ~CountsAgainstNonTx(op) => /\ new.nonTxCount = Current.nonTxCount
                                     /\ new.nonTxSize = Current.nonTxSize
      BY CurrentIs DEF Plus, Traffic
    <3> HIDE DEF new
    <3>5. earned
      BY <3>2, <3>3, <3>4 DEF FitsThisWindow
    <3>6. QED
      BY <3>1, <3>5
  <2>3. call.op = op /\ call.size = size /\ call.verdict = verdict
    OBVIOUS
  <2>4. ASSUME direction' = "Outbound", NEW c \in last', c.verdict = "Deferred"
        PROVE  LET t == Plus(admitted', c.op, c.size) IN
               \/ ~Within(t.count[c.op], Limit(c.op).frequency)
               \/ ~Within(t.size[c.op], MaxTotal(c.op))
               \/ /\ CountsAgainstNonTx(c.op)
                  /\ \/ ~Within(t.nonTxCount, NonTxFrequency)
                     \/ ~Within(t.nonTxSize, NonTxMaxTotalSize)
    <3>1. c.op = op /\ c.size = size /\ verdict = "Deferred" /\ direction = "Outbound"
      BY <2>1, <2>3, <2>4
    <3>2. Plus(admitted', c.op, c.size) = new /\ earned
      BY <2>2, <3>1
    <3> HIDE DEF new, verdict, call
    <3>3. QED
      BY <3>1, <3>2
  <2> HIDE DEF new, verdict, call, earned
  <2>5. QED
    BY <2>4 DEF OutboundDeferralIsEarned, Within, Plus
<1>2. CASE ClockMoves
  BY <1>2 DEF ClockMoves, limiter, history, OutboundDeferralIsEarned
<1>3. CASE UNCHANGED vars
  BY <1>3 DEF vars, limiter, history, OutboundDeferralIsEarned
<1>4. QED
  BY <1>1, <1>2, <1>3 DEF Next

\* An outbound message is deferred only for traffic that was really sent, and
\* one outside `other` only for its own opcode's: asking early costs nothing.
THEOREM DeferralsAreEarned == Spec => []OutboundDeferralIsEarned
<1>1. Init => OutboundDeferralIsEarned
  BY DEF Init, OutboundDeferralIsEarned
<1>2. Init /\ [][Next]_vars
          => [](TypeOK /\ Books /\ WithinBudgets /\ OutboundDeferralIsEarned)
  BY <1>1, InitTypes, InitBooks, InitBudgets, NextTypes, NextBooks, NextBudgets,
     NextEarned, PTL
<1>3. QED
  BY <1>2, PTL DEF Spec

LEMMA NextCharged ==
    TypeOK /\ Books /\ InboundChargesRefusals /\ [Next]_vars => InboundChargesRefusals'
<1> SUFFICES ASSUME TypeOK, Books, InboundChargesRefusals, [Next]_vars
             PROVE  InboundChargesRefusals'
  OBVIOUS
<1>1. ASSUME NEW op \in Opcodes, NEW size \in Sizes, Admit(op, size)
      PROVE  InboundChargesRefusals'
  <2> DEFINE new == Plus(Current, op, size)
             verdict == Verdict(op, size, new)
             call == [op |-> op, size |-> size, verdict |-> verdict,
                      first |-> Since(calls, 0) = 0]
  <2>1. /\ last' = {call} /\ direction' = direction
        /\ offered' = Plus(Since(offered, NoTraffic), op, size)
    BY <1>1, AdmitStep
  <2>2. ASSUME direction = "Inbound", verdict = "Admitted"
        PROVE  FitsThisWindow(op, offered')
    <3>1. offered' = new
      BY <2>1, <2>2, SinceIsCurrent
    <3>2. FitsThisWindow(op, new)
      BY <2>2 DEF Verdict
    <3> HIDE DEF new
    <3>3. QED
      BY <3>1, <3>2
  <2>3. call.op = op /\ call.verdict = verdict
    OBVIOUS
  <2> HIDE DEF verdict, call
  <2>4. QED
    BY <2>1, <2>2, <2>3 DEF InboundChargesRefusals, FitsThisWindow, Within
<1>2. CASE ClockMoves
  BY <1>2 DEF ClockMoves, limiter, history, InboundChargesRefusals
<1>3. CASE UNCHANGED vars
  BY <1>3 DEF vars, limiter, history, InboundChargesRefusals
<1>4. QED
  BY <1>1, <1>2, <1>3 DEF Next

\* An inbound frame is admitted only while everything the peer has sent in
\* the window, refused frames included, is in budget.
THEOREM RefusalsAreCharged == Spec => []InboundChargesRefusals
<1>1. Init => InboundChargesRefusals
  BY DEF Init, InboundChargesRefusals
<1>2. Init /\ [][Next]_vars => [](TypeOK /\ Books /\ InboundChargesRefusals)
  BY <1>1, InitTypes, InitBooks, NextTypes, NextBooks, NextCharged, PTL
<1>3. QED
  BY <1>2, PTL DEF Spec
=============================================================================
