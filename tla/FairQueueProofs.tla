-------------------------- MODULE FairQueueProofs --------------------------
(***************************************************************************)
(* Lemmas about FairQueue, for every set of callers.  That RequestMap's    *)
(* semaphore and the sink of SendPath and of DigLink keep the contract,    *)
(* and so these facts, is proved with each.                                *)
(***************************************************************************)
EXTENDS FairQueue, SequenceTheorems, TLAPS

\* What SubSeq takes from within a sequence.
LEMMA PartOfQueue ==
    ASSUME NEW S, NEW q \in Seq(S), NEW m \in 1 .. Len(q) + 1, NEW n \in 0 .. Len(q),
           m <= n + 1
    PROVE  /\ SubSeq(q, m, n) \in Seq(S)
           /\ Len(SubSeq(q, m, n)) = n - m + 1
           /\ \A i \in 1 .. n - m + 1 : SubSeq(q, m, n)[i] = q[m + i - 1]
  <1>1. Len(q) \in Nat /\ \A j \in 1 .. Len(q) : q[j] \in S
    BY ElementOfSeq, LenProperties
  <1>2. m \in Int /\ n \in Int /\ \A i \in m .. n : q[i] \in S
    BY <1>1
  <1>3. /\ SubSeq(q, m, n) \in Seq(S)
        /\ Len(SubSeq(q, m, n)) = IF m <= n THEN n - m + 1 ELSE 0
        /\ \A i \in 1 .. n - m + 1 : SubSeq(q, m, n)[i] = q[m + i - 1]
    BY <1>2, SubSeqProperties
  <1>4. (IF m <= n THEN n - m + 1 ELSE 0) = n - m + 1
    BY <1>2
  <1>5. QED
    BY <1>3, <1>4

\* Taking one element out of a sequence: what giving up does to the queue.
LEMMA RemovedFromQueue ==
    ASSUME NEW S, NEW q \in Seq(S), NEW k \in 1 .. Len(q)
    PROVE  /\ SubSeq(q, 1, k - 1) \o SubSeq(q, k + 1, Len(q)) \in Seq(S)
           /\ Len(SubSeq(q, 1, k - 1) \o SubSeq(q, k + 1, Len(q))) = Len(q) - 1
           /\ \A j \in 1 .. Len(q) - 1 :
                 (SubSeq(q, 1, k - 1) \o SubSeq(q, k + 1, Len(q)))[j]
                    = IF j < k THEN q[j] ELSE q[j + 1]
  <1>q. Len(q) \in Nat
    BY LenProperties
  <1>1. /\ SubSeq(q, 1, k - 1) \in Seq(S)
        /\ Len(SubSeq(q, 1, k - 1)) = k - 1
        /\ \A j \in 1 .. k - 1 : SubSeq(q, 1, k - 1)[j] = q[j]
    <2>1. 1 \in 1 .. Len(q) + 1 /\ k - 1 \in 0 .. Len(q) /\ 1 <= (k - 1) + 1
      BY <1>q
    <2>2. /\ SubSeq(q, 1, k - 1) \in Seq(S)
          /\ Len(SubSeq(q, 1, k - 1)) = (k - 1) - 1 + 1
          /\ \A i \in 1 .. (k - 1) - 1 + 1 : SubSeq(q, 1, k - 1)[i] = q[1 + i - 1]
      BY <2>1, PartOfQueue
    <2>3. (k - 1) - 1 + 1 = k - 1 /\ \A j \in 1 .. k - 1 : 1 + j - 1 = j
      BY <1>q
    <2>4. QED
      BY <2>2, <2>3, Zenon
  <1>2. /\ SubSeq(q, k + 1, Len(q)) \in Seq(S)
        /\ Len(SubSeq(q, k + 1, Len(q))) = Len(q) - k
        /\ \A j \in 1 .. Len(q) - k : SubSeq(q, k + 1, Len(q))[j] = q[j + k]
    <2>1. k + 1 \in 1 .. Len(q) + 1 /\ Len(q) \in 0 .. Len(q) /\ k + 1 <= Len(q) + 1
      BY <1>q
    <2>2. /\ SubSeq(q, k + 1, Len(q)) \in Seq(S)
          /\ Len(SubSeq(q, k + 1, Len(q))) = Len(q) - (k + 1) + 1
          /\ \A i \in 1 .. Len(q) - (k + 1) + 1 :
                SubSeq(q, k + 1, Len(q))[i] = q[k + 1 + i - 1]
      BY <2>1, PartOfQueue
    <2>3. /\ Len(q) - (k + 1) + 1 = Len(q) - k
          /\ \A j \in 1 .. Len(q) - k : k + 1 + j - 1 = j + k
      BY <1>q
    <2>4. QED
      BY <2>2, <2>3, Zenon
  <1>3. PICK a : a = SubSeq(q, 1, k - 1)
    OBVIOUS
  <1>4. PICK b : b = SubSeq(q, k + 1, Len(q))
    OBVIOUS
  <1>5. a \in Seq(S) /\ Len(a) = k - 1 /\ \A j \in 1 .. k - 1 : a[j] = q[j]
    BY <1>1, <1>3, Zenon
  <1>6. b \in Seq(S) /\ Len(b) = Len(q) - k /\ \A j \in 1 .. Len(q) - k : b[j] = q[j + k]
    BY <1>2, <1>4, Zenon
  <1>7. /\ a \o b \in Seq(S)
        /\ Len(a \o b) = Len(q) - 1
        /\ \A j \in 1 .. Len(q) - 1 :
              (a \o b)[j] = IF j < k THEN q[j] ELSE q[j + 1]
    <2>1. /\ a \o b \in Seq(S)
          /\ Len(a \o b) = Len(a) + Len(b)
          /\ \A i \in 1 .. Len(a) + Len(b) :
                (a \o b)[i] = IF i <= Len(a) THEN a[i] ELSE b[i - Len(a)]
      BY <1>5, <1>6, ConcatProperties
    <2>2. Len(a) + Len(b) = Len(q) - 1
      BY <1>q, <1>5, <1>6
    <2>3. ASSUME NEW j \in 1 .. Len(q) - 1
          PROVE  (IF j <= Len(a) THEN a[j] ELSE b[j - Len(a)])
                    = IF j < k THEN q[j] ELSE q[j + 1]
      <3>1. CASE j < k
        BY <1>q, <1>5, <3>1
      <3>2. CASE ~(j < k)
        <4>1. j - (k - 1) \in 1 .. Len(q) - k /\ j - (k - 1) + k = j + 1
          BY <1>q, <3>2
        <4>2. b[j - (k - 1)] = q[j + 1]
          BY <1>6, <4>1
        <4>3. QED
          BY <1>q, <1>5, <4>2, <3>2
      <3>3. QED
        BY <3>1, <3>2
    <2>4. QED
      BY <2>1, <2>2, <2>3
  <1>8. QED
    BY <1>3, <1>4, <1>7, Zenon

-----------------------------------------------------------------------------
(* The queue holds the queued *)

\* Every variable stays in its type.
TypeOK ==
    /\ stage \in [Callers -> {"outside", "queued", "served", "gone"}]
    /\ queue \in Seq(Callers)

QueueInv == TypeOK /\ HoldsTheQueued

\* What a caller that joins, is served or gives up does to a queue that holds
\* each caller at most once.
LEMMA Joined ==
    ASSUME NEW q \in Seq(Callers), NEW c \in Callers
    PROVE  /\ Append(q, c) \in Seq(Callers)
           /\ Len(q) \in Nat /\ Len(Append(q, c)) = Len(q) + 1
           /\ \A k \in 1 .. Len(q) : Append(q, c)[k] = q[k]
           /\ Append(q, c)[Len(q) + 1] = c
  BY AppendProperties, LenProperties

LEMMA Served ==
    ASSUME NEW q \in Seq(Callers), q # <<>>
    PROVE  /\ Tail(q) \in Seq(Callers)
           /\ Len(q) \in Nat \ {0} /\ Len(Tail(q)) = Len(q) - 1
           /\ \A k \in 1 .. Len(q) - 1 : Tail(q)[k] = q[k + 1]
           /\ Head(q) = q[1]
  BY HeadTailProperties, LenProperties, EmptySeq

\* The head leaves: the queue without its first.
LEMMA FirstLeaves ==
    ASSUME NEW q \in Seq(Callers), q # <<>>
    PROVE  SubSeq(q, 1, 1 - 1) \o SubSeq(q, 1 + 1, Len(q)) = Tail(q)
  <1>1. /\ Tail(q) \in Seq(Callers)
        /\ Len(q) \in Nat \ {0} /\ Len(Tail(q)) = Len(q) - 1
        /\ \A k \in 1 .. Len(q) - 1 : Tail(q)[k] = q[k + 1]
    BY Served
  <1>2. PICK r : r = SubSeq(q, 1, 1 - 1) \o SubSeq(q, 1 + 1, Len(q))
    OBVIOUS
  <1>3. 1 \in 1 .. Len(q)
    BY <1>1
  <1>4. /\ r \in Seq(Callers) /\ Len(r) = Len(q) - 1
        /\ \A j \in 1 .. Len(q) - 1 : r[j] = IF j < 1 THEN q[j] ELSE q[j + 1]
    BY <1>2, <1>3, RemovedFromQueue
  <1>5. \A j \in 1 .. Len(q) - 1 : r[j] = Tail(q)[j]
    BY <1>1, <1>4
  <1>6. r = Tail(q)
    BY <1>1, <1>4, <1>5, SeqEqual
  <1>7. QED
    BY <1>2, <1>6

LEMMA InitQueue == Init => QueueInv
  <1> SUFFICES ASSUME Init PROVE QueueInv
    OBVIOUS
  <1>1. queue \in Seq(Callers) /\ Len(queue) = 0
    BY EmptySeq DEF Init
  <1>2. QED
    BY <1>1 DEF Init, QueueInv, TypeOK, HoldsTheQueued

\* The queue q without its i-th, and r the same.
IsWithout(r, q, i) ==
    /\ r \in Seq(Callers) /\ Len(r) = Len(q) - 1
    /\ \A j \in 1 .. Len(q) - 1 : r[j] = IF j < i THEN q[j] ELSE q[j + 1]

LEMMA ServedIsWithout ==
    ASSUME TypeOK, NEW c \in Callers, Serve(c)
    PROVE  1 \in 1 .. Len(queue) /\ queue[1] = c /\ IsWithout(queue', queue, 1)
  <1>1. queue' = Tail(queue) /\ queue # <<>> /\ Head(queue) = c /\ queue \in Seq(Callers)
    BY DEF Serve, TypeOK
  <1>2. /\ Tail(queue) \in Seq(Callers)
        /\ Len(queue) \in Nat \ {0} /\ Len(Tail(queue)) = Len(queue) - 1
        /\ \A k \in 1 .. Len(queue) - 1 : Tail(queue)[k] = queue[k + 1]
        /\ Head(queue) = queue[1]
    BY <1>1, Served
  <1>3. QED
    BY <1>1, <1>2 DEF IsWithout

LEMMA GivenUpIsWithout ==
    ASSUME TypeOK, NEW c \in Callers, GiveUp(c)
    PROVE  \E i \in 1 .. Len(queue) : queue[i] = c /\ IsWithout(queue', queue, i)
  <1>1. PICK i \in 1 .. Len(queue) :
           /\ queue[i] = c
           /\ queue' = SubSeq(queue, 1, i - 1) \o SubSeq(queue, i + 1, Len(queue))
    BY DEF GiveUp
  <1>2. queue \in Seq(Callers)
    BY DEF TypeOK
  <1>3. PICK r : r = SubSeq(queue, 1, i - 1) \o SubSeq(queue, i + 1, Len(queue))
    OBVIOUS
  <1>4. IsWithout(r, queue, i)
    BY <1>2, <1>3, RemovedFromQueue DEF IsWithout
  <1>5. QED
    BY <1>1, <1>3, <1>4

\* Where in the shorter queue an element is found that is not the one that left.
LEMMA StillThere ==
    ASSUME NEW q \in Seq(Callers), NEW i \in 1 .. Len(q), NEW r, IsWithout(r, q, i),
           NEW k \in 1 .. Len(q), k # i
    PROVE  \E j \in 1 .. Len(r) : r[j] = q[k]
  <1>1. Len(q) \in Nat
    BY LenProperties
  <1>2. CASE k < i
    <2>1. k \in 1 .. Len(q) - 1
      BY <1>1, <1>2
    <2>2. r[k] = q[k] /\ k \in 1 .. Len(r)
      BY <1>2, <2>1 DEF IsWithout
    <2>3. QED
      BY <2>2
  <1>3. CASE ~(k < i)
    <2>1. k - 1 \in 1 .. Len(q) - 1 /\ ~(k - 1 < i) /\ (k - 1) + 1 = k
      BY <1>1, <1>3
    <2>2. r[k - 1] = q[k] /\ k - 1 \in 1 .. Len(r)
      BY <2>1 DEF IsWithout
    <2>3. QED
      BY <2>2
  <1>4. QED
    BY <1>2, <1>3

LEMMA LeavingKeepsInv ==
    ASSUME QueueInv, NEW c \in Callers, NEW s \in {"served", "gone"},
           stage' = [stage EXCEPT ![c] = s],
           NEW i \in 1 .. Len(queue), queue[i] = c, IsWithout(queue', queue, i)
    PROVE  QueueInv'
  <1> USE DEF QueueInv, TypeOK, HoldsTheQueued
  <1>1. Len(queue) \in Nat /\ queue \in Seq(Callers)
    BY LenProperties
  <1>2. /\ queue' \in Seq(Callers) /\ Len(queue') = Len(queue) - 1
        /\ \A j \in 1 .. Len(queue) - 1 :
               queue'[j] = IF j < i THEN queue[j] ELSE queue[j + 1]
    BY DEF IsWithout
  <1>3. \A j \in 1 .. Len(queue') : \E k \in 1 .. Len(queue) : k # i /\ queue'[j] = queue[k]
    <2> TAKE j \in 1 .. Len(queue')
    <2>1. CASE j < i
      BY <1>1, <1>2, <2>1
    <2>2. CASE ~(j < i)
      <3>1. j + 1 \in 1 .. Len(queue) /\ j + 1 # i /\ queue'[j] = queue[j + 1]
        BY <1>1, <1>2, <2>2
      <3>2. QED
        BY <3>1
    <2>3. QED
      BY <2>1, <2>2
  <1>4. ASSUME NEW d \in Callers
        PROVE  stage'[d] = "queued" <=> \E k \in 1 .. Len(queue') : queue'[k] = d
    <2>1. CASE d = c
      <3>1. stage'[d] # "queued"
        BY <2>1
      <3>2. \A k \in 1 .. Len(queue') : queue'[k] # d
        BY <1>3, <2>1
      <3>3. QED
        BY <3>1, <3>2
    <2>2. CASE d # c
      <3>1. stage'[d] = stage[d]
        BY <2>2
      <3>2. ASSUME NEW k \in 1 .. Len(queue), queue[k] = d
            PROVE  \E j \in 1 .. Len(queue') : queue'[j] = d
        <4>1. k # i
          BY <2>2, <3>2
        <4>2. QED
          BY <1>1, <3>2, <4>1, StillThere
      <3>3. QED
        BY <1>3, <3>1, <3>2
    <2>3. QED
      BY <2>1, <2>2
  <1>5. ASSUME NEW j \in 1 .. Len(queue'), NEW k \in 1 .. Len(queue'), queue'[j] = queue'[k]
        PROVE  j = k
    <2>1. j \in 1 .. Len(queue) - 1 /\ k \in 1 .. Len(queue) - 1
      BY <1>2
    <2>2. (IF j < i THEN queue[j] ELSE queue[j + 1]) = (IF k < i THEN queue[k] ELSE queue[k + 1])
      BY <1>2, <1>5, <2>1
    <2>3. QED
      BY <1>1, <2>1, <2>2
  <1>6. stage' \in [Callers -> {"outside", "queued", "served", "gone"}]
    OBVIOUS
  <1>7. QED
    BY <1>2, <1>4, <1>5, <1>6

LEMMA NextQueue == QueueInv /\ [Next]_vars => QueueInv'
  <1> SUFFICES ASSUME QueueInv, Next PROVE QueueInv'
    BY DEF QueueInv, TypeOK, HoldsTheQueued, vars
  <1> USE DEF QueueInv, TypeOK, HoldsTheQueued, Goes
  <1>1. PICK c \in Callers : Join(c) \/ Serve(c) \/ GiveUp(c) \/ Leave(c)
    BY DEF Next
  <1>2. CASE Join(c)
    <2>1. /\ queue' = Append(queue, c) /\ stage[c] = "outside"
          /\ stage' = [stage EXCEPT ![c] = "queued"]
      BY <1>2 DEF Join
    <2>2. /\ queue' \in Seq(Callers)
          /\ Len(queue) \in Nat /\ Len(queue') = Len(queue) + 1
          /\ \A k \in 1 .. Len(queue) : queue'[k] = queue[k]
          /\ queue'[Len(queue) + 1] = c
      BY <2>1, Joined
    <2>3. \A k \in 1 .. Len(queue) : queue[k] # c
      BY <2>1
    <2>4. ASSUME NEW d \in Callers
          PROVE  stage'[d] = "queued" <=> \E k \in 1 .. Len(queue') : queue'[k] = d
      <3>1. CASE d = c
        <4>1. Len(queue) + 1 \in 1 .. Len(queue')
          BY <2>2
        <4>2. QED
          BY <2>1, <2>2, <3>1, <4>1
      <3>2. CASE d # c
        BY <2>1, <2>2, <3>2
      <3>3. QED
        BY <3>1, <3>2
    <2>5. ASSUME NEW j \in 1 .. Len(queue'), NEW k \in 1 .. Len(queue'), queue'[j] = queue'[k]
          PROVE  j = k
      <3>1. CASE j = Len(queue) + 1 \/ k = Len(queue) + 1
        BY <2>2, <2>3, <2>5, <3>1
      <3>2. CASE j # Len(queue) + 1 /\ k # Len(queue) + 1
        BY <2>2, <2>5, <3>2
      <3>3. QED
        BY <3>1, <3>2
    <2>6. QED
      BY <2>1, <2>2, <2>4, <2>5
  <1>3. CASE Serve(c)
    BY <1>3, ServedIsWithout, LeavingKeepsInv DEF Serve
  <1>4. CASE GiveUp(c)
    BY <1>4, GivenUpIsWithout, LeavingKeepsInv DEF GiveUp
  <1>5. CASE Leave(c)
    BY <1>5 DEF Leave
  <1>6. QED
    BY <1>1, <1>2, <1>3, <1>4, <1>5

LEMMA QueueInvariant == Spec => []QueueInv
  BY InitQueue, NextQueue, PTL DEF Spec

\* Whoever is dropped while it waits leaves the queue, and no one is in it
\* twice: the permit or the lock passes on.
LEMMA OnlyTheQueuedWait == Spec => []HoldsTheQueued
  BY QueueInvariant, PTL DEF QueueInv

-----------------------------------------------------------------------------
(* In order *)

\* Those who stay when the i-th leaves stay in order.
LEMMA LeavingKeepsOrder ==
    ASSUME QueueInv, NEW i \in 1 .. Len(queue), IsWithout(queue', queue, i),
           NEW j \in 1 .. Len(queue), NEW k \in 1 .. Len(queue), j < k,
           NEW m \in 1 .. Len(queue'), NEW n \in 1 .. Len(queue'),
           queue'[m] = queue[j], queue'[n] = queue[k]
    PROVE  m < n
  <1>1. Len(queue) \in Nat /\ \A a, b \in 1 .. Len(queue) : queue[a] = queue[b] => a = b
    BY LenProperties DEF QueueInv, TypeOK, HoldsTheQueued
  <1>2. m \in 1 .. Len(queue) - 1 /\ n \in 1 .. Len(queue) - 1
    BY DEF IsWithout
  <1>3. (m < i /\ j = m) \/ (~(m < i) /\ j = m + 1)
    BY <1>1, <1>2 DEF IsWithout
  <1>4. (n < i /\ k = n) \/ (~(n < i) /\ k = n + 1)
    BY <1>1, <1>2 DEF IsWithout
  <1>5. QED
    BY <1>1, <1>2, <1>3, <1>4

InOrder(j, k) ==
    /\ stage'[queue[k]] # "served"
    /\ \A m, n \in 1 .. Len(queue') :
           queue'[m] = queue[j] /\ queue'[n] = queue[k] => m < n

LEMMA StepInOrder ==
    ASSUME QueueInv, Next, NEW j \in 1 .. Len(queue), NEW k \in 1 .. Len(queue), j < k,
           stage'[queue[j]] = "queued"
    PROVE  InOrder(j, k)
  <1>1. PICK c \in Callers : Join(c) \/ Serve(c) \/ GiveUp(c) \/ Leave(c)
    BY DEF Next
  <1>2. /\ Len(queue) \in Nat /\ queue \in Seq(Callers)
        /\ queue[j] \in Callers /\ queue[k] \in Callers
        /\ stage[queue[j]] = "queued" /\ stage[queue[k]] = "queued"
        /\ \A a, b \in 1 .. Len(queue) : queue[a] = queue[b] => a = b
    BY LenProperties, ElementOfSeq DEF QueueInv, TypeOK, HoldsTheQueued
  <1>t. TypeOK /\ stage \in [Callers -> {"outside", "queued", "served", "gone"}]
    BY DEF QueueInv, TypeOK
  <1>3. CASE Join(c)
    <2>1. /\ queue' = Append(queue, c) /\ stage[c] = "outside"
          /\ stage' = [stage EXCEPT ![c] = "queued"]
      BY <1>3 DEF Join, Goes
    <2>2. stage'[queue[k]] = "queued"
      BY <1>2, <1>t, <2>1
    <2>3. /\ Len(queue') = Len(queue) + 1 /\ queue'[Len(queue) + 1] = c
          /\ \A n \in 1 .. Len(queue) : queue'[n] = queue[n]
      BY <1>2, <2>1, Joined
    <2>4. ASSUME NEW n \in 1 .. Len(queue'), NEW i \in 1 .. Len(queue), queue'[n] = queue[i],
                 stage[queue[i]] = "queued"
          PROVE  n = i
      <3>1. n # Len(queue) + 1
        BY <2>1, <2>3, <2>4
      <3>2. n \in 1 .. Len(queue)
        BY <1>2, <2>3, <3>1
      <3>3. QED
        BY <1>2, <2>3, <2>4, <3>2
    <2>5. QED
      BY <1>2, <2>2, <2>4 DEF InOrder
  <1>4. CASE Serve(c)
    <2>1. 1 \in 1 .. Len(queue) /\ queue[1] = c /\ IsWithout(queue', queue, 1)
      BY <1>t, <1>4, ServedIsWithout
    <2>2. stage' = [stage EXCEPT ![c] = "served"]
      BY <1>4 DEF Serve, Goes
    <2>3. queue[k] # c
      BY <1>2, <2>1
    <2>4. stage'[queue[k]] = "queued"
      BY <1>2, <1>t, <2>2, <2>3
    <2>5. QED
      BY <2>1, <2>4, LeavingKeepsOrder DEF InOrder
  <1>5. CASE GiveUp(c)
    <2>1. PICK i \in 1 .. Len(queue) : queue[i] = c /\ IsWithout(queue', queue, i)
      BY <1>t, <1>5, GivenUpIsWithout
    <2>2. stage' = [stage EXCEPT ![c] = "gone"]
      BY <1>5 DEF GiveUp, Goes
    <2>3. stage'[queue[k]] # "served"
      BY <1>2, <1>t, <2>2
    <2>4. QED
      BY <2>1, <2>3, LeavingKeepsOrder DEF InOrder
  <1>6. CASE Leave(c)
    <2>1. queue' = queue /\ stage' = [stage EXCEPT ![c] = "gone"]
      BY <1>6 DEF Leave, Goes
    <2>2. stage'[queue[k]] # "served"
      BY <1>2, <1>t, <2>1
    <2>3. QED
      BY <1>2, <2>1, <2>2 DEF InOrder
  <1>7. QED
    BY <1>1, <1>3, <1>4, <1>5, <1>6

\* Nobody overtakes: neither a request that waits for a permit nor a send that
\* waits for the sink.
LEMMA FirstComeFirstServed == Spec => ServedInOrder
  <1>1. ASSUME QueueInv, [Next]_vars
        PROVE  [\A j, k \in 1 .. Len(queue) : j < k /\ stage'[queue[j]] = "queued" =>
                  /\ stage'[queue[k]] # "served"
                  /\ \A m, n \in 1 .. Len(queue') :
                         queue'[m] = queue[j] /\ queue'[n] = queue[k] => m < n]_vars
    <2>1. CASE Next
      <3>1. ASSUME NEW j \in 1 .. Len(queue), NEW k \in 1 .. Len(queue), j < k,
                   stage'[queue[j]] = "queued"
            PROVE  InOrder(j, k)
        BY <1>1, <2>1, <3>1, StepInOrder
      <3>2. QED
        BY <3>1 DEF InOrder
    <2>2. QED
      BY <1>1, <2>1
  <1>2. QED
    BY <1>1, QueueInvariant, PTL DEF Spec, ServedInOrder
=============================================================================
