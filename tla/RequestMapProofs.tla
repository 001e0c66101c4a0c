-------------------------- MODULE RequestMapProofs --------------------------
(***************************************************************************)
(* Proofs about RequestMap, for every set of calls, every id space and     *)
(* every choice of declared opcodes.  The inductive invariant is built in  *)
(* layers; each is proved inductive relative to the ones before it.        *)
(***************************************************************************)
EXTENDS RequestMap, FiniteSetTheorems, SequenceTheorems, TLAPS

\* The calls that wait for a permit, as a fair queue.
FQ == INSTANCE FairQueueProofs WITH Callers <- Calls, stage <- PermitStage, queue <- waiting

\* The reader holds at most one Request; the queue holds calls that wait,
\* each once.
Shape ==
    /\ routed = {} \/ \E r \in [owner : Calls, msg : Message] : routed = {r}
    /\ \A k \in 1 .. Len(waiting) : pc[waiting[k]] = "queued"
    /\ \A j, k \in 1 .. Len(waiting) : waiting[j] = waiting[k] => j = k

LEMMA InitTypeOK == Init => TypeOK /\ Shape
  <1> SUFFICES ASSUME Init PROVE TypeOK /\ Shape
    OBVIOUS
  <1> USE MaxIdAssumption, ExpectedAssumption DEF Init
  <1>1. TypeOK
    BY DEF TypeOK, Ids, Capacity, States, NoId, Entry
  <1>2. Shape
    BY DEF Shape
  <1>3. QED
    BY <1>1, <1>2

LEMMA IdsFinite == IsFiniteSet(Ids) /\ Cardinality(Ids) = MaxId + 1
  BY MaxIdAssumption, FS_Interval DEF Ids

LEMMA NextTypeOK == TypeOK /\ Shape /\ [Next]_vars => TypeOK' /\ Shape'
  <1> SUFFICES ASSUME TypeOK, Shape, [Next]_vars
               PROVE  TypeOK' /\ Shape'
    OBVIOUS
  <1> USE MaxIdAssumption, ExpectedAssumption
          DEF TypeOK, Shape, Ids, Capacity, States, InFlight, Results, NoId,
              Entry, Message, mapVars, callVars, history
  <1>1. ASSUME NEW c \in Calls, Call(c) PROVE TypeOK' /\ Shape'
    BY <1>1 DEF Call
  <1>2. ASSUME NEW c \in Calls, Acquire(c) PROVE TypeOK' /\ Shape'
    <2> USE <1>2 DEF Acquire
    <2>1. waiting' \in Seq(Calls) /\ Len(waiting') = Len(waiting) - 1
          /\ \A k \in 1 .. Len(waiting') : waiting'[k] = waiting[k + 1]
      BY HeadTailProperties
    <2>2. waiting[1] = c /\ 1 \in 1 .. Len(waiting)
      OBVIOUS
    <2>3. \A k \in 1 .. Len(waiting') : waiting'[k] # c
      BY <2>1, <2>2
    <2>4. TypeOK'
      BY <2>1
    <2>5. Shape'
      BY <2>1, <2>3
    <2>6. QED
      BY <2>4, <2>5
  <1>3. ASSUME NEW c \in Calls, Insert(c) PROVE TypeOK' /\ Shape'
    <2> USE <1>3 DEF Insert
    <2>1. IsFiniteSet(DOMAIN items \ Retained)
      BY IdsFinite, FS_Subset
    <2>2. permits' \in Nat
      BY <2>1, FS_CardinalityType
    <2>3. PICK id \in Ids : Insert(c)!2!(id)
      OBVIOUS
    <2>4. items' \in [DOMAIN items' -> Entry] /\ DOMAIN items' \subseteq Ids
      BY <2>3 DEF Retained
    <2>5. nextId' \in Ids
      BY <2>3 DEF WrappingSucc
    <2>6. rid' \in [Calls -> Ids \cup {NoId}]
      BY <2>3
    <2>7. passed' \in [Calls -> SUBSET Ids]
      BY <2>3 DEF Walk, SearchStart
    <2>8. TypeOK'
      BY <2>2, <2>4, <2>5, <2>6, <2>7
    <2>9. Shape'
      OBVIOUS
    <2>10. QED
      BY <2>8, <2>9
  <1>4. ASSUME NEW c \in Calls, SendOk(c) PROVE TypeOK' /\ Shape'
    BY <1>4 DEF SendOk
  <1>5. ASSUME NEW c \in Calls, SendFails(c) PROVE TypeOK' /\ Shape'
    BY <1>5 DEF SendFails
  <1>6. ASSUME NEW c \in Calls, CancelUnsent(c) PROVE TypeOK' /\ Shape'
    BY <1>6 DEF CancelUnsent, Cancel, Without, FreedBy
  <1>7. ASSUME NEW c \in Calls, Receive(c) PROVE TypeOK' /\ Shape'
    BY <1>7 DEF Receive
  <1>8. ASSUME NEW c \in Calls, ReceiveClosed(c) PROVE TypeOK' /\ Shape'
    BY <1>8 DEF ReceiveClosed
  <1>9. ASSUME NEW c \in Calls, Expire(c) PROVE TypeOK' /\ Shape'
    BY <1>9 DEF Expire
  <1>10. ASSUME NEW c \in Calls, CancelExpired(c) PROVE TypeOK' /\ Shape'
    BY <1>10 DEF CancelExpired, Cancel, Without, FreedBy, Diagnosis
  <1>11. ASSUME NEW c \in Calls, AbandonQueued(c) PROVE TypeOK' /\ Shape'
    <2> USE <1>11 DEF AbandonQueued
    <2>1. PICK k \in 1 .. Len(waiting) :
             /\ waiting[k] = c
             /\ waiting' = SubSeq(waiting, 1, k - 1) \o SubSeq(waiting, k + 1, Len(waiting))
      BY Zenon
    <2>b. /\ waiting[k] = c
          /\ pc' = [pc EXCEPT ![c] = "abandoned"]
          /\ UNCHANGED <<items, nextId, permits, routed, rid, slot, history>>
      BY <2>1
    <2>w. /\ waiting \in Seq(Calls)
          /\ \A i, j \in 1 .. Len(waiting) : waiting[i] = waiting[j] => i = j
      OBVIOUS
    <2> HIDE <1>11 DEF AbandonQueued, TypeOK, Shape
    <2>2. /\ waiting' \in Seq(Calls)
          /\ Len(waiting') = Len(waiting) - 1
          /\ \A j \in 1 .. Len(waiting) - 1 :
                waiting'[j] = IF j < k THEN waiting[j] ELSE waiting[j + 1]
      BY <2>1, <2>w, FQ!RemovedFromQueue, Zenon
    <2>3. /\ \A j \in 1 .. Len(waiting') :
                waiting'[j] # c /\ \E i \in 1 .. Len(waiting) : waiting'[j] = waiting[i]
          /\ \A i, j \in 1 .. Len(waiting') : waiting'[i] = waiting'[j] => i = j
      <3>1. PICK q : q = waiting
        OBVIOUS
      <3>2. PICK t : t = waiting'
        OBVIOUS
      <3>3. /\ q \in Seq(Calls) /\ t \in Seq(Calls) /\ k \in 1 .. Len(q)
            /\ \A i, j \in 1 .. Len(q) : q[i] = q[j] => i = j
            /\ Len(t) = Len(q) - 1
            /\ \A j \in 1 .. Len(q) - 1 : t[j] = IF j < k THEN q[j] ELSE q[j + 1]
        BY <2>w, <2>2, <3>1, <3>2, Zenon
      <3> DEFINE Old(j) == IF j < k THEN j ELSE j + 1
      <3>a. Len(q) \in Nat
        BY <3>3, LenProperties
      <3>b. \A j \in 1 .. Len(t) : /\ Old(j) \in 1 .. Len(q)
                                   /\ Old(j) # k
                                   /\ t[j] = q[Old(j)]
        BY <3>3, <3>a
      <3>c. \A i, j \in 1 .. Len(t) : Old(i) = Old(j) => i = j
        BY <3>3, <3>a
      <3> HIDE DEF Old
      <3>4. /\ \A j \in 1 .. Len(t) : t[j] # q[k] /\ \E i \in 1 .. Len(q) : t[j] = q[i]
            /\ \A i, j \in 1 .. Len(t) : t[i] = t[j] => i = j
        BY <3>3, <3>b, <3>c
      <3>5. QED
        BY <2>b, <3>1, <3>2, <3>4, Zenon
    <2> USE DEF TypeOK, Shape
    <2>4. TypeOK'
      BY <2>2, <2>b
    <2>5. Shape'
      BY <2>b, <2>3
    <2>6. QED
      BY <2>4, <2>5
  <1>12. ASSUME NEW c \in Calls, Abandon(c) PROVE TypeOK' /\ Shape'
    BY <1>12 DEF Abandon
  <1>13. ASSUME NEW id \in Ids, NEW op \in Opcodes, TakeUndeclared(id, op)
         PROVE  TypeOK' /\ Shape'
    BY <1>13 DEF TakeUndeclared
  <1>14. ASSUME NEW id \in Ids, NEW op \in Opcodes, NEW a \in Addressees(id),
                TakeAnswer(id, [op |-> op, answers |-> a])
         PROVE  TypeOK' /\ Shape'
    BY <1>14 DEF TakeAnswer, Without, Addressees
  <1>15. ASSUME Deliver PROVE TypeOK' /\ Shape'
    BY <1>15 DEF Deliver
  <1>16. CASE UNCHANGED vars
    BY <1>16 DEF vars
  <1>17. QED
    BY <1>1, <1>2, <1>3, <1>4, <1>5, <1>6, <1>7, <1>8, <1>9, <1>10, <1>11,
       <1>12, <1>13, <1>14, <1>15, <1>16 DEF Next, Progress, Reader

\* Every reachable state has its type, for every id space, every set of calls
\* and every choice of what they declare.
THEOREM TypeCorrect == Spec => []TypeOK
  <1>1. Init => TypeOK /\ Shape
    BY InitTypeOK
  <1>2. TypeOK /\ Shape /\ [Next]_vars => (TypeOK /\ Shape)'
    BY NextTypeOK
  <1>3. QED
    BY <1>1, <1>2, PTL DEF Spec

LEMMA ShapeInvariant == Spec => [](TypeOK /\ Shape)
  <1>1. TypeOK /\ Shape /\ [Next]_vars => (TypeOK /\ Shape)'
    BY NextTypeOK
  <1>2. QED
    BY InitTypeOK, <1>1, PTL DEF Spec

LEMMA HeadWaits == TypeOK /\ Shape /\ waiting # <<>> => pc[Head(waiting)] = "queued"
  <1> SUFFICES ASSUME TypeOK, Shape, waiting # <<>>
               PROVE  pc[Head(waiting)] = "queued"
    OBVIOUS
  <1>1. 1 \in 1 .. Len(waiting) /\ Head(waiting) = waiting[1]
    BY DEF TypeOK
  <1>2. QED
    BY <1>1 DEF Shape

-----------------------------------------------------------------------------
(* Who owns what *)

Fresh(c) == pc[c] \in {"idle", "queued", "granted"}

\* A call without an entry yet has no id; a call whose answer has been taken
\* from the map has no entry left in it.
Ownership ==
    /\ EntryOwner
    /\ \A c \in Calls : Fresh(c) => rid[c] = NoId
    /\ \A c \in Calls :
          slot[c] # {} \/ (\E r \in routed : r.owner = c)
              => ~Fresh(c) /\ \A i \in DOMAIN items : items[i].owner # c

LEMMA InitOwnership == Init => Ownership
  BY DEF Init, Ownership, EntryOwner, Fresh

LEMMA NextOwnership ==
    TypeOK /\ Shape /\ Ownership /\ [Next]_vars => Ownership'
  <1> SUFFICES ASSUME TypeOK, Shape, Ownership, [Next]_vars
               PROVE  Ownership'
    OBVIOUS
  <1> USE DEF Ownership, EntryOwner, Fresh, TypeOK, Entry, Ids, NoId, InFlight,
              mapVars, callVars, history
  <1>1. ASSUME NEW c \in Calls, Call(c) PROVE Ownership'
    BY <1>1 DEF Call
  <1>2. ASSUME NEW c \in Calls, Acquire(c) PROVE Ownership'
    BY <1>2, HeadWaits DEF Acquire
  <1>3. ASSUME NEW c \in Calls, Insert(c) PROVE Ownership'
    <2> USE <1>3 DEF Insert
    <2>1. PICK id \in Ids : Insert(c)!2!(id)
      OBVIOUS
    <2>2. rid[c] = NoId /\ slot[c] = {} /\ ~ \E r \in routed : r.owner = c
      OBVIOUS
    <2>3. \A i \in DOMAIN items' :
             IF i = id THEN items'[i].owner = c
             ELSE i \in DOMAIN items /\ items'[i] = items[i] /\ items[i].owner # c
      BY <2>1 DEF Retained
    <2>4. ASSUME NEW i \in DOMAIN items'
          PROVE  /\ rid'[items'[i].owner] = i
                 /\ pc'[items'[i].owner] \in InFlight \cup {"abandoned"}
      <3>1. CASE i = id
        BY <2>1, <2>3, <3>1
      <3>2. CASE i # id
        <4>1. /\ i \in DOMAIN items /\ items'[i] = items[i]
              /\ items[i].owner \in Calls \ {c}
          BY <2>3, <3>2
        <4>2. rid'[items[i].owner] = rid[items[i].owner]
              /\ pc'[items[i].owner] = pc[items[i].owner]
          BY <2>1, <4>1
        <4>3. QED
          BY <4>1, <4>2
      <3>3. QED
        BY <3>1, <3>2
    <2>5. \A d \in Calls : Fresh(d)' => rid'[d] = NoId
      BY <2>1
    <2>6. ASSUME NEW d \in Calls, slot'[d] # {} \/ (\E r \in routed' : r.owner = d)
          PROVE  ~Fresh(d)' /\ \A i \in DOMAIN items' : items'[i].owner # d
      <3>1. d # c /\ (slot[d] # {} \/ \E r \in routed : r.owner = d)
        BY <2>2, <2>6
      <3>2. ~Fresh(d) /\ \A i \in DOMAIN items : items[i].owner # d
        BY <3>1
      <3>3. QED
        BY <2>3, <3>1, <3>2
    <2>7. QED
      BY <2>4, <2>5, <2>6
  <1>4. ASSUME NEW c \in Calls, SendOk(c) PROVE Ownership'
    BY <1>4 DEF SendOk
  <1>5. ASSUME NEW c \in Calls, SendFails(c) PROVE Ownership'
    BY <1>5 DEF SendFails
  <1>6. ASSUME NEW c \in Calls, CancelUnsent(c) PROVE Ownership'
    BY <1>6 DEF CancelUnsent, Cancel, Without
  <1>7. ASSUME NEW c \in Calls, Receive(c) PROVE Ownership'
    BY <1>7 DEF Receive
  <1>8. ASSUME NEW c \in Calls, ReceiveClosed(c) PROVE Ownership'
    BY <1>8 DEF ReceiveClosed, SenderAlive
  <1>9. ASSUME NEW c \in Calls, Expire(c) PROVE Ownership'
    BY <1>9 DEF Expire
  <1>10. ASSUME NEW c \in Calls, CancelExpired(c) PROVE Ownership'
    BY <1>10 DEF CancelExpired, Cancel, Without, Diagnosis
  <1>11. ASSUME NEW c \in Calls, AbandonQueued(c) PROVE Ownership'
    BY <1>11 DEF AbandonQueued, Shape
  <1>12. ASSUME NEW c \in Calls, Abandon(c) PROVE Ownership'
    BY <1>12 DEF Abandon
  <1>13. ASSUME NEW id \in Ids, NEW op \in Opcodes, TakeUndeclared(id, op)
         PROVE  Ownership'
    <2> USE <1>13 DEF TakeUndeclared
    <2>1. DOMAIN items' = DOMAIN items
          /\ \A i \in DOMAIN items : items'[i].owner = items[i].owner
      OBVIOUS
    <2>2. QED
      BY <2>1
  <1>14. ASSUME NEW id \in Ids, NEW op \in Opcodes, NEW a \in Addressees(id),
                TakeAnswer(id, [op |-> op, answers |-> a])
         PROVE  Ownership'
    <2> USE <1>14 DEF TakeAnswer, Without
    <2>1. \A r \in routed' : r.owner = items[id].owner
      OBVIOUS
    <2>2. \A i \in DOMAIN items' :
             /\ i \in DOMAIN items /\ items'[i] = items[i]
             /\ items[i].owner # items[id].owner
      OBVIOUS
    <2>3. EntryOwner'
      BY <2>2
    <2>4. \A d \in Calls : slot'[d] # {} \/ (\E r \in routed' : r.owner = d)
             => ~Fresh(d)' /\ \A i \in DOMAIN items' : items'[i].owner # d
      BY <2>1, <2>2
    <2>5. QED
      BY <2>3, <2>4
  <1>15. ASSUME Deliver PROVE Ownership'
    <2> USE <1>15 DEF Deliver
    <2>1. PICK r \in routed : Deliver!(r)
      BY Zenon
    <2>2. \A d \in Calls : slot'[d] # {} => slot[d] # {} \/ d = r.owner
      BY <2>1
    <2>3. QED
      BY <2>1, <2>2
  <1>16. CASE UNCHANGED vars
    BY <1>16 DEF vars
  <1>17. QED
    BY <1>1, <1>2, <1>3, <1>4, <1>5, <1>6, <1>7, <1>8, <1>9, <1>10, <1>11,
       <1>12, <1>13, <1>14, <1>15, <1>16 DEF Next, Progress, Reader

\* A call that has returned holds no id: for every execution, only a call in
\* flight or one whose future was dropped has an entry (EntryOwner).
THEOREM EntryOwnerHolds == Spec => []EntryOwner
  <1>1. TypeOK /\ Shape /\ Ownership /\ [Next]_vars => Ownership'
    BY NextOwnership
  <1>2. Ownership => EntryOwner
    BY DEF Ownership
  <1>3. QED
    BY ShapeInvariant, InitOwnership, <1>1, <1>2, PTL DEF Spec

-----------------------------------------------------------------------------
(* Permits *)

Accounting == IsFiniteSet(Granted) /\ PermitAccounting

LEMMA Finite ==
    ASSUME TypeOK, Shape
    PROVE  /\ IsFiniteSet(DOMAIN items) /\ Cardinality(DOMAIN items) \in Nat
           /\ IsFiniteSet(routed) /\ Cardinality(routed) \in Nat
  <1>1. IsFiniteSet(DOMAIN items)
    BY IdsFinite, FS_Subset DEF TypeOK
  <1>2. IsFiniteSet(routed)
    <2>1. routed = {} \/ \E r : routed = {r}
      BY DEF Shape
    <2>2. QED
      BY <2>1, FS_EmptySet, FS_Singleton, Zenon
  <1>3. QED
    BY <1>1, <1>2, FS_CardinalityType

LEMMA InitAccounting == Init => Accounting
  <1> SUFFICES ASSUME Init PROVE Accounting
    OBVIOUS
  <1>1. Granted = {} /\ DOMAIN items = {} /\ routed = {} /\ permits = Capacity
    BY DEF Init, Granted
  <1>2. QED
    BY <1>1, FS_EmptySet, MaxIdAssumption DEF Accounting, PermitAccounting, Capacity

LEMMA NextAccounting ==
    TypeOK /\ Shape /\ Ownership /\ Accounting /\ [Next]_vars => Accounting'
  <1> SUFFICES ASSUME TypeOK, Shape, Ownership, Accounting, [Next]_vars
               PROVE  Accounting'
    OBVIOUS
  <1>a. /\ IsFiniteSet(Granted) /\ Cardinality(Granted) \in Nat
        /\ IsFiniteSet(DOMAIN items) /\ Cardinality(DOMAIN items) \in Nat
        /\ IsFiniteSet(routed) /\ Cardinality(routed) \in Nat
        /\ permits \in Nat /\ MaxId \in Nat
        /\ permits + Cardinality(Granted) + Cardinality(DOMAIN items)
              + Cardinality(routed) = MaxId
    BY Finite, FS_CardinalityType, MaxIdAssumption
       DEF Accounting, PermitAccounting, TypeOK, Capacity
  <1>b. ASSUME Granted' = Granted, DOMAIN items' = DOMAIN items,
               routed' = routed, permits' = permits
        PROVE  Accounting'
    BY <1>a, <1>b DEF Accounting, PermitAccounting, Capacity
  <1>1. ASSUME NEW c \in Calls, Call(c) PROVE Accounting'
    BY <1>1, <1>b DEF Call, Granted, TypeOK
  <1>2. ASSUME NEW c \in Calls, Acquire(c) PROVE Accounting'
    <2>1. Granted' = Granted \cup {c} /\ c \notin Granted
      BY <1>2, HeadWaits DEF Acquire, Granted, TypeOK
    <2>2. IsFiniteSet(Granted') /\ Cardinality(Granted') = Cardinality(Granted) + 1
      BY <1>a, <2>1, FS_AddElement
    <2>3. items' = items /\ routed' = routed /\ permits' = permits - 1
      BY <1>2 DEF Acquire
    <2>4. QED
      BY <1>a, <2>2, <2>3 DEF Accounting, PermitAccounting, Capacity
  <1>3. ASSUME NEW c \in Calls, Insert(c) PROVE Accounting'
    <2>1. Granted' = Granted \ {c} /\ c \in Granted
      BY <1>3 DEF Insert, Granted, TypeOK
    <2>2. IsFiniteSet(Granted') /\ Cardinality(Granted') = Cardinality(Granted) - 1
      BY <1>a, <2>1, FS_RemoveElement
    <2>3. PICK id \in Ids : id \notin Retained /\ DOMAIN items' = Retained \cup {id}
      BY <1>3 DEF Insert
    <2>4. Retained \subseteq DOMAIN items
      BY DEF Retained
    <2>5. IsFiniteSet(Retained) /\ Cardinality(Retained) \in Nat
      BY <1>a, <2>4, FS_Subset, FS_CardinalityType
    <2>6. Cardinality(DOMAIN items') = Cardinality(Retained) + 1
      BY <2>3, <2>5, FS_AddElement
    <2>7. /\ Cardinality(DOMAIN items \ Retained) \in Nat
          /\ Cardinality(DOMAIN items \ Retained)
                = Cardinality(DOMAIN items) - Cardinality(Retained)
      <3>1. DOMAIN items \cap Retained = Retained
        BY <2>4
      <3>2. QED
        BY <1>a, <3>1, FS_Difference, FS_CardinalityType
    <2>8. routed' = routed
          /\ permits' = permits + Cardinality(DOMAIN items \ Retained)
      BY <1>3 DEF Insert
    <2>9. QED
      BY <1>a, <2>2, <2>5, <2>6, <2>7, <2>8 DEF Accounting, PermitAccounting, Capacity
  <1>4. ASSUME NEW c \in Calls, SendOk(c) PROVE Accounting'
    BY <1>4, <1>b DEF SendOk, Granted, TypeOK, mapVars
  <1>5. ASSUME NEW c \in Calls, SendFails(c) PROVE Accounting'
    BY <1>5, <1>b DEF SendFails, Granted, TypeOK, mapVars
  <1>c. ASSUME NEW c \in Calls, NEW result, Cancel(c, result),
               pc[c] # "granted", result # "granted"
        PROVE  Accounting'
    <2>1. Granted' = Granted
      BY <1>c DEF Cancel, Granted, TypeOK
    <2>2. DOMAIN items' = DOMAIN items \ {rid[c]} /\ routed' = routed
      BY <1>c DEF Cancel, Without
    <2>3. CASE rid[c] \in DOMAIN items
      <3>1. Cardinality(DOMAIN items') = Cardinality(DOMAIN items) - 1
        BY <1>a, <2>2, <2>3, FS_RemoveElement
      <3>2. permits' = permits + 1
        BY <1>c, <2>3 DEF Cancel, FreedBy
      <3>3. QED
        BY <1>a, <2>1, <2>2, <3>1, <3>2 DEF Accounting, PermitAccounting, Capacity
    <2>4. CASE rid[c] \notin DOMAIN items
      <3>1. DOMAIN items' = DOMAIN items
        BY <2>2, <2>4
      <3>2. permits' = permits
        BY <1>a, <1>c, <2>4 DEF Cancel, FreedBy
      <3>3. QED
        BY <1>b, <2>1, <2>2, <3>1, <3>2
    <2>5. QED
      BY <2>3, <2>4
  <1>6. ASSUME NEW c \in Calls, CancelUnsent(c) PROVE Accounting'
    BY <1>6, <1>c DEF CancelUnsent
  <1>7. ASSUME NEW c \in Calls, Receive(c) PROVE Accounting'
    BY <1>7, <1>b DEF Receive, Granted, TypeOK, mapVars
  <1>8. ASSUME NEW c \in Calls, ReceiveClosed(c) PROVE Accounting'
    BY <1>8, <1>b DEF ReceiveClosed, Granted, TypeOK, mapVars
  <1>9. ASSUME NEW c \in Calls, Expire(c) PROVE Accounting'
    BY <1>9, <1>b DEF Expire, Granted, TypeOK, mapVars
  <1>10. ASSUME NEW c \in Calls, CancelExpired(c) PROVE Accounting'
    <2>1. Diagnosis(c) # "granted" /\ pc[c] # "granted"
      BY <1>10 DEF CancelExpired, Diagnosis
    <2>2. QED
      BY <1>10, <1>c, <2>1 DEF CancelExpired
  <1>11. ASSUME NEW c \in Calls, AbandonQueued(c) PROVE Accounting'
    <2>1. pc[c] = "queued"
      BY <1>11 DEF AbandonQueued, Shape
    <2>2. QED
      BY <1>11, <1>b, <2>1 DEF AbandonQueued, Granted, TypeOK
  <1>12. ASSUME NEW c \in Calls, Abandon(c) PROVE Accounting'
    <2>1. items' = items /\ routed' = routed
      BY <1>12 DEF Abandon
    <2>2. CASE pc[c] = "granted"
      <3>1. Granted' = Granted \ {c} /\ c \in Granted
        BY <1>12, <2>2 DEF Abandon, Granted, TypeOK
      <3>2. IsFiniteSet(Granted') /\ Cardinality(Granted') = Cardinality(Granted) - 1
        BY <1>a, <3>1, FS_RemoveElement
      <3>3. permits' = permits + 1
        BY <1>12, <2>2 DEF Abandon
      <3>4. QED
        BY <1>a, <2>1, <3>2, <3>3 DEF Accounting, PermitAccounting, Capacity
    <2>3. CASE pc[c] # "granted"
      <3>1. Granted' = Granted
        BY <1>12, <2>3 DEF Abandon, Granted, TypeOK
      <3>2. permits' = permits
        BY <1>a, <1>12, <2>3 DEF Abandon
      <3>3. QED
        BY <1>b, <2>1, <3>1, <3>2
    <2>4. QED
      BY <2>2, <2>3
  <1>13. ASSUME NEW id \in Ids, NEW op \in Opcodes, TakeUndeclared(id, op)
         PROVE  Accounting'
    BY <1>13, <1>b DEF TakeUndeclared, Granted, TypeOK, callVars
  <1>14. ASSUME NEW id \in Ids, NEW op \in Opcodes, NEW a \in Addressees(id),
                TakeAnswer(id, [op |-> op, answers |-> a])
         PROVE  Accounting'
    <2>1. Granted' = Granted /\ permits' = permits
      BY <1>14 DEF TakeAnswer, Granted, callVars
    <2>2. DOMAIN items' = DOMAIN items \ {id} /\ id \in DOMAIN items
      BY <1>14 DEF TakeAnswer, Without
    <2>3. Cardinality(DOMAIN items') = Cardinality(DOMAIN items) - 1
      BY <1>a, <2>2, FS_RemoveElement
    <2>4. Cardinality(routed) = 0 /\ Cardinality(routed') = 1
      BY <1>14, FS_EmptySet, FS_Singleton DEF TakeAnswer
    <2>5. QED
      BY <1>a, <2>1, <2>3, <2>4 DEF Accounting, PermitAccounting, Capacity
  <1>15. ASSUME Deliver PROVE Accounting'
    <2>1. Granted' = Granted /\ items' = items /\ permits' = permits + 1
      BY <1>15 DEF Deliver, Granted
    <2>2. Cardinality(routed) = 1 /\ Cardinality(routed') = 0
      BY <1>15, FS_EmptySet, FS_Singleton DEF Deliver, Shape
    <2>3. QED
      BY <1>a, <2>1, <2>2 DEF Accounting, PermitAccounting, Capacity
  <1>16. CASE UNCHANGED vars
    BY <1>16, <1>b DEF vars, mapVars, callVars, Granted
  <1>17. QED
    BY <1>1, <1>2, <1>3, <1>4, <1>5, <1>6, <1>7, <1>8, <1>9, <1>10, <1>11,
       <1>12, <1>13, <1>14, <1>15, <1>16 DEF Next, Progress, Reader

LEMMA AccountingInvariant == Spec => [](TypeOK /\ Shape /\ Ownership /\ Accounting)
  <1>1. TypeOK /\ Shape /\ Ownership /\ [Next]_vars => Ownership'
    BY NextOwnership
  <1>2. TypeOK /\ Shape /\ Ownership /\ Accounting /\ [Next]_vars => Accounting'
    BY NextAccounting
  <1>3. QED
    BY ShapeInvariant, InitOwnership, InitAccounting, <1>1, <1>2, PTL DEF Spec

\* The semaphore's count is the number of live requests, always: no sequence
\* of sends, answers, expiries, cancellations and drops leaks or mints a permit.
THEOREM PermitsAccounted == Spec => []PermitAccounting
  <1>1. Accounting => PermitAccounting
    BY DEF Accounting
  <1>2. QED
    BY AccountingInvariant, <1>1, PTL

\* insert's search for a free id always ends, for every size of the id space.
THEOREM FreeIdExists == Spec => []IdAlwaysFree
  <1>1. ASSUME TypeOK, Shape, Accounting
        PROVE  IdAlwaysFree
    <2>1. SUFFICES ASSUME Granted # {}
                   PROVE  \E id \in Ids : id \notin DOMAIN items
      BY DEF IdAlwaysFree
    <2>2. Cardinality(Granted) \in Nat \ {0}
      BY <1>1, <2>1, FS_EmptySet, FS_CardinalityType DEF Accounting
    <2>3. Cardinality(DOMAIN items) < MaxId + 1
      BY <1>1, <2>2, Finite, MaxIdAssumption
         DEF Accounting, PermitAccounting, Capacity, TypeOK
    <2>4. DOMAIN items # Ids
      BY <2>3, IdsFinite, MaxIdAssumption
    <2>5. QED
      BY <1>1, <2>4 DEF TypeOK
  <1>2. QED
    BY AccountingInvariant, <1>1, PTL

-----------------------------------------------------------------------------
(* The cursor's laps *)

\* What the cursor visits on its way from the successor of x to n - 1.
Between(x, n) == {y \in Ids : IF x < n THEN x < y /\ y < n ELSE x < y \/ y < n}

\* A call's history is where the cursor has been since its id was issued: all
\* the way round, or the ids between its own and the next.
Laps ==
    /\ \A c \in Calls : rid[c] = NoId => passed[c] = {}
    /\ \A c \in Calls :
          rid[c] # NoId => passed[c] = Ids \/ passed[c] = Between(rid[c], nextId)
    /\ FullLap
    /\ \A i \in DOMAIN items, d \in Calls :
          rid[d] = i /\ d # items[i].owner => passed[d] = Ids

\* One search either comes past x, and then nothing is left unvisited, or
\* takes the visited interval that starts after x further.
LEMMA WalkExtends ==
    ASSUME NEW x \in Ids, NEW n \in Ids, NEW id \in Ids
    PROVE  /\ Walk(n, id) \subseteq Ids
           /\ id \in Walk(n, id)
           /\ x \in Walk(n, id) => Between(x, n) \cup Walk(n, id) = Ids
           /\ x \notin Walk(n, id)
                 => Between(x, n) \cup Walk(n, id) = Between(x, WrappingSucc(id))
  BY MaxIdAssumption DEF Ids, Walk, Between, WrappingSucc

\* Only insert issues ids, moves the cursor and adds entries.
LEMMA OnlyInsertIssues ==
    ASSUME TypeOK, [Next]_vars, \A c \in Calls : ~Insert(c)
    PROVE  /\ rid' = rid /\ passed' = passed /\ nextId' = nextId
           /\ \A i \in DOMAIN items' :
                 i \in DOMAIN items /\ items'[i].owner = items[i].owner
  <1> USE DEF mapVars, callVars, history
  <1>1. ASSUME NEW id \in Ids, NEW op \in Opcodes, TakeUndeclared(id, op)
        PROVE  /\ rid' = rid /\ passed' = passed /\ nextId' = nextId
               /\ DOMAIN items' = DOMAIN items
               /\ \A i \in DOMAIN items : items'[i].owner = items[i].owner
    BY <1>1 DEF TakeUndeclared, TypeOK, Entry
  <1>2. QED
    BY <1>1 DEF Next, Progress, Reader, vars, Call, Acquire, SendOk, SendFails,
       CancelUnsent, Cancel, Without, Receive, ReceiveClosed, Expire, CancelExpired,
       AbandonQueued, Abandon, TakeAnswer, Deliver

LEMMA InitLaps == Init => Laps
  BY DEF Init, Laps, FullLap

LEMMA InsertLaps ==
    ASSUME TypeOK, Ownership, Laps, NEW c \in Calls, Insert(c)
    PROVE  /\ Laps'
           /\ \A d \in Calls : passed[d] = Ids => passed'[d] = Ids
           /\ \A d \in Calls \ {c} : rid'[d] = rid[d]
           /\ rid[c] = NoId /\ rid'[c] # NoId
  <1>1. PICK id \in Ids : Insert(c)!2!(id)
    BY DEF Insert
  <1>2. /\ rid[c] = NoId
        /\ rid' = [rid EXCEPT ![c] = id]
        /\ nextId' = WrappingSucc(id)
        /\ \A d \in Calls : rid[d] \in Ids \cup {NoId}
        /\ nextId \in Ids
        /\ NoId \notin Ids
        /\ Ids # {}
    BY <1>1, MaxIdAssumption DEF Insert, Ownership, Fresh, TypeOK, Ids, NoId
  <1>3. /\ passed'[c] = {}
        /\ \A d \in Calls \ {c} :
              passed'[d] = IF rid[d] = NoId THEN {} ELSE passed[d] \cup Walk(nextId, id)
    BY <1>1 DEF SearchStart
  <1>4. \A d \in Calls \ {c} : rid'[d] = rid[d]
    BY <1>2 DEF TypeOK
  <1>5. rid'[c] = id
    BY <1>2 DEF TypeOK
  <1>6. ASSUME NEW d \in Calls \ {c}, rid[d] # NoId
        PROVE  /\ passed[d] = Ids => passed'[d] = Ids
               /\ rid[d] \in Walk(nextId, id) => passed'[d] = Ids
               /\ passed'[d] = Ids \/ passed'[d] = Between(rid[d], WrappingSucc(id))
    <2>1. /\ rid[d] \in Ids
          /\ passed[d] = Ids \/ passed[d] = Between(rid[d], nextId)
          /\ passed'[d] = passed[d] \cup Walk(nextId, id)
      BY <1>2, <1>3, <1>6 DEF Laps
    <2>2. QED
      BY <1>2, <2>1, WalkExtends
  <1>7. \A d \in Calls : passed[d] = Ids => passed'[d] = Ids
    BY <1>2, <1>6 DEF Laps
  <1>8. \A d \in Calls \ {c} : rid[d] = id => passed'[d] = Ids
    BY <1>2, <1>6, WalkExtends
  <1>9. \A d \in Calls : rid'[d] = NoId => passed'[d] = {}
    BY <1>2, <1>3, <1>4, <1>5
  <1>10. \A d \in Calls : rid'[d] # NoId
            => passed'[d] = Ids \/ passed'[d] = Between(rid'[d], nextId')
    <2>1. passed'[c] = Between(id, WrappingSucc(id))
      BY <1>3, MaxIdAssumption DEF Between, WrappingSucc, Ids
    <2>2. QED
      BY <1>2, <1>4, <1>5, <1>6, <2>1, MaxIdAssumption
  <1>11. FullLap'
    <2> SUFFICES ASSUME NEW d \in Calls, NEW e \in Calls, d # e,
                        rid'[d] = rid'[e], rid'[d] # NoId
                 PROVE  passed'[d] = Ids \/ passed'[e] = Ids
      BY DEF FullLap, Ids, NoId
    <2>1. CASE d # c /\ e # c
      BY <2>1, <1>4, <1>7 DEF Laps, FullLap
    <2>2. CASE d = c \/ e = c
      BY <2>2, <1>4, <1>5, <1>8
    <2>3. QED
      BY <2>1, <2>2
  <1>12. \A i \in DOMAIN items', d \in Calls :
            rid'[d] = i /\ d # items'[i].owner => passed'[d] = Ids
    <2> TAKE i \in DOMAIN items', d \in Calls
    <2>1. CASE i = id
      BY <1>1, <1>4, <1>5, <1>8, <2>1
    <2>2. CASE i # id
      <3>1. i \in DOMAIN items /\ items'[i] = items[i]
        BY <1>1, <2>2 DEF Retained
      <3>2. QED
        BY <1>4, <1>5, <1>7, <2>2, <3>1 DEF Laps
    <2>3. QED
      BY <2>1, <2>2
  <1>13. QED
    BY <1>2, <1>4, <1>5, <1>7, <1>9, <1>10, <1>11, <1>12 DEF Laps, Ids, NoId

LEMMA NextLaps == TypeOK /\ Ownership /\ Laps /\ [Next]_vars => Laps'
  <1> SUFFICES ASSUME TypeOK, Ownership, Laps, [Next]_vars PROVE Laps'
    OBVIOUS
  <1>1. CASE \E c \in Calls : Insert(c)
    BY <1>1, InsertLaps
  <1>2. CASE \A c \in Calls : ~Insert(c)
    BY <1>2, OnlyInsertIssues DEF Laps, FullLap, Between, Ids, NoId
  <1>3. QED
    BY <1>1, <1>2

\* No id is issued a second time before the cursor has gone over the whole id
\* space, for every size of the id space and every history of the map.
THEOREM FullLapHolds == Spec => []FullLap
  <1>1. TypeOK /\ Ownership /\ Laps /\ [Next]_vars => Laps'
    BY NextLaps
  <1>2. Laps => FullLap
    BY DEF Laps
  <1>3. QED
    BY AccountingInvariant, InitLaps, <1>1, <1>2, PTL DEF Spec

-----------------------------------------------------------------------------
(* Replies *)

Replies ==
    /\ \A r \in routed :
          /\ r.msg.op \in Expected[r.owner]
          /\ r.msg.answers = r.owner \/ passed[r.msg.answers] = Ids
    /\ ReplyIsDeclaredAndOwn

LEMMA InitReplies == Init => Replies
  BY DEF Init, Replies, ReplyIsDeclaredAndOwn

LEMMA NextReplies ==
    TypeOK /\ Shape /\ Ownership /\ Laps /\ Replies /\ [Next]_vars => Replies'
  <1> SUFFICES ASSUME TypeOK, Shape, Ownership, Laps, Replies, [Next]_vars
               PROVE  Replies'
    OBVIOUS
  <1> USE DEF mapVars, callVars, history
  <1>a. ASSUME routed' = routed, slot' = slot,
               \A d \in Calls : passed[d] = Ids => passed'[d] = Ids
        PROVE  Replies'
    BY <1>a DEF Replies, ReplyIsDeclaredAndOwn, TypeOK, Message, Ids
  <1>1. CASE \E c \in Calls : Insert(c)
    <2>1. PICK c \in Calls : Insert(c)
      BY <1>1
    <2>2. routed' = routed /\ slot' = slot
      BY <2>1 DEF Insert
    <2>3. QED
      BY <1>a, <2>1, <2>2, InsertLaps
  <1>2. ASSUME NEW id \in Ids, NEW op \in Opcodes, NEW a \in Addressees(id),
               TakeAnswer(id, [op |-> op, answers |-> a])
        PROVE  Replies'
    <2>1. /\ routed' = {[owner |-> items[id].owner,
                         msg |-> [op |-> op, answers |-> a]]}
          /\ op \in Expected[items[id].owner]
          /\ id \in DOMAIN items
          /\ passed' = passed /\ slot' = slot
      BY <1>2 DEF TakeAnswer, Completes
    <2>2. a \in Calls /\ rid[a] = id
      BY DEF Addressees
    <2>3. a = items[id].owner \/ passed[a] = Ids
      BY <2>1, <2>2 DEF Laps
    <2>4. QED
      BY <2>1, <2>3 DEF Replies, ReplyIsDeclaredAndOwn, Ids
  <1>3. ASSUME Deliver PROVE Replies'
    <2>1. PICK r \in routed : Deliver!(r)
      BY <1>3 DEF Deliver
    <2>2. /\ r.owner \in Calls /\ r.msg.op \in Expected[r.owner]
          /\ r.msg.answers = r.owner \/ passed[r.msg.answers] = Ids
      BY DEF Replies, TypeOK
    <2>3. /\ routed' = {} /\ passed' = passed
          /\ \A d \in Calls : \A m \in slot'[d] :
                m \in slot[d] \/ (d = r.owner /\ m = r.msg)
      BY <2>1, <2>2 DEF TypeOK
    <2>4. QED
      BY <2>2, <2>3 DEF Replies, ReplyIsDeclaredAndOwn, Ids
  <1>4. QED
    <2>1. ASSUME ~ \E c \in Calls : Insert(c),
                 ~ \E id \in Ids, op \in Opcodes : \E a \in Addressees(id) :
                      TakeAnswer(id, [op |-> op, answers |-> a]),
                 ~Deliver
          PROVE  routed' = routed /\ slot' = slot /\ passed' = passed
      BY <2>1 DEF Next, Progress, Reader, vars, Call, Acquire, SendOk, SendFails,
         CancelUnsent, Cancel, Receive, ReceiveClosed, Expire, CancelExpired,
         AbandonQueued, Abandon, TakeUndeclared
    <2>2. QED
      BY <1>a, <1>1, <1>2, <1>3, <2>1

\* Whatever is sent, lost or late, a call is handed an opcode it declared, in
\* a reply that was written for it unless the cursor has lapped its author's id.
THEOREM RepliesAreOwn == Spec => []ReplyIsDeclaredAndOwn
  <1>1. TypeOK /\ Ownership /\ Laps /\ [Next]_vars => Laps'
    BY NextLaps
  <1>2. TypeOK /\ Shape /\ Ownership /\ Laps /\ Replies /\ [Next]_vars => Replies'
    BY NextReplies
  <1>3. Replies => ReplyIsDeclaredAndOwn
    BY DEF Replies
  <1>4. QED
    BY AccountingInvariant, InitLaps, InitReplies, <1>1, <1>2, <1>3, PTL DEF Spec

-----------------------------------------------------------------------------
(* Results *)

\* A call that waits has a sender, a message, or a namesake that cancelled it;
\* what an entry has on record, its owner has suffered.
Waiters ==
    /\ \A c \in Calls : pc[c] \in InFlight \cup {"recv", "invalid"} => rid[c] # NoId
    /\ \A c \in Calls : Open(c) => SenderAlive(c) \/ slot[c] # {} \/ Reissued(c)
    /\ \A i \in DOMAIN items :
          items[i].undeclared # {} => items[i].owner \in collided
    /\ OutcomeIsOwn

LEMMA InitWaiters == Init => Waiters
  BY DEF Init, Waiters, Open, OutcomeIsOwn, InFlight

LEMMA NextWaiters ==
    TypeOK /\ Shape /\ Ownership /\ Waiters /\ [Next]_vars => Waiters'
  <1> SUFFICES ASSUME TypeOK, Shape, Ownership, Waiters, [Next]_vars
               PROVE  Waiters'
    OBVIOUS
  <1> USE DEF mapVars, callVars, history
  <1>a. ASSUME NEW c \in Calls, NEW s \in States, pc' = [pc EXCEPT ![c] = s],
               UNCHANGED <<items, routed, rid, slot, collided>>,
               s \in InFlight \cup {"recv", "invalid"} => rid[c] # NoId,
               s \in {"sending", "sendFailed", "awaiting"} => Open(c),
               s = "recv" => Reissued(c), s # "invalid"
        PROVE  Waiters'
    BY <1>a DEF Waiters, Open, SenderAlive, Reissued, OutcomeIsOwn, TypeOK
  <1>1. ASSUME NEW c \in Calls, Call(c) PROVE Waiters'
    BY <1>1, <1>a DEF Call, States, InFlight
  <1>2. ASSUME NEW c \in Calls, Acquire(c) PROVE Waiters'
    BY <1>2, <1>a DEF Acquire, States, InFlight
  <1>4. ASSUME NEW c \in Calls, SendOk(c) PROVE Waiters'
    BY <1>4, <1>a DEF SendOk, States, InFlight, Open, Waiters
  <1>5. ASSUME NEW c \in Calls, SendFails(c) PROVE Waiters'
    BY <1>5, <1>a DEF SendFails, States, InFlight, Open, Waiters
  <1>7. ASSUME NEW c \in Calls, Receive(c) PROVE Waiters'
    BY <1>7, <1>a DEF Receive, States, Results, InFlight
  <1>8. ASSUME NEW c \in Calls, ReceiveClosed(c) PROVE Waiters'
    <2>1. Open(c) /\ Reissued(c) /\ rid[c] # NoId
      BY <1>8 DEF ReceiveClosed, Open, Waiters, InFlight
    <2>2. QED
      BY <1>8, <1>a, <2>1 DEF ReceiveClosed, States, Results, InFlight
  <1>9. ASSUME NEW c \in Calls, Expire(c) PROVE Waiters'
    BY <1>9, <1>a DEF Expire, States, InFlight, Waiters
  <1>11. ASSUME NEW c \in Calls, AbandonQueued(c) PROVE Waiters'
    BY <1>11, <1>a DEF AbandonQueued, States, Results, InFlight
  <1>12. ASSUME NEW c \in Calls, Abandon(c) PROVE Waiters'
    BY <1>12, <1>a DEF Abandon, States, Results, InFlight
  <1>3. ASSUME NEW c \in Calls, Insert(c) PROVE Waiters'
    <2>1. PICK id \in Ids : Insert(c)!2!(id)
      BY <1>3 DEF Insert
    <2>a. rid[c] = NoId /\ id # NoId
      BY <1>3 DEF Insert, Ownership, Fresh, Ids, NoId
    <2>b. /\ rid' = [rid EXCEPT ![c] = id]
          /\ pc' = [pc EXCEPT ![c] = "sending"]
          /\ UNCHANGED <<routed, slot, collided>>
      BY <1>3, <2>1 DEF Insert
    <2>c. /\ id \notin Retained
          /\ items' = [i \in Retained \cup {id} |->
                          IF i = id THEN [owner |-> c, undeclared |-> {}]
                                    ELSE items[i]]
      BY <2>1
    <2>d. /\ id \in DOMAIN items' /\ items'[id] = [owner |-> c, undeclared |-> {}]
          /\ \A i \in DOMAIN items' \ {id} : i \in DOMAIN items /\ items'[i] = items[i]
          /\ \A i \in DOMAIN items : Open(items[i].owner) =>
                i \in DOMAIN items' \ {id} /\ items'[i] = items[i]
      BY <2>c DEF Retained
    <2>3. ASSUME NEW d \in Calls, Open(d)'
          PROVE  SenderAlive(d)' \/ slot'[d] # {} \/ Reissued(d)'
      <3>1. CASE d = c
        BY <2>a, <2>b, <2>d, <3>1 DEF SenderAlive
      <3>2. CASE d # c
        <4>1. Open(d) /\ rid'[d] = rid[d] /\ rid[d] # NoId
          BY <2>a, <2>b, <2>d, <2>3, <3>2 DEF Open, TypeOK, Waiters, InFlight
        <4>2. Reissued(d) => Reissued(d)'
          BY <2>a, <2>b, <2>d, <4>1 DEF Reissued, TypeOK
        <4>3. SenderAlive(d) => SenderAlive(d)'
          BY <2>a, <2>b, <2>d, <4>1 DEF SenderAlive
        <4>4. QED
          BY <2>a, <2>b, <2>d, <4>1, <4>2, <4>3 DEF Waiters
      <3>3. QED
        BY <3>1, <3>2
    <2>4. ASSUME NEW d \in Calls, pc'[d] \in InFlight \cup {"recv", "invalid"}
          PROVE  rid'[d] # NoId
      BY <2>a, <2>b, <2>d, <2>4 DEF Waiters, TypeOK
    <2>5. \A i \in DOMAIN items' :
             items'[i].undeclared # {} => items'[i].owner \in collided'
      BY <2>a, <2>b, <2>d DEF Waiters
    <2>6. OutcomeIsOwn'
      <3> SUFFICES ASSUME NEW d \in Calls,
                          pc'[d] = "recv" \/ (pc'[d] = "invalid" /\ d \notin collided')
                   PROVE  Reissued(d)'
        BY DEF OutcomeIsOwn
      <3>1. d # c /\ Reissued(d) /\ rid[d] # NoId
        BY <2>a, <2>b, <2>d DEF Waiters, OutcomeIsOwn, TypeOK
      <3>2. QED
        BY <2>a, <2>b, <2>d, <3>1 DEF Reissued, TypeOK
    <2>7. QED
      BY <2>3, <2>4, <2>5, <2>6 DEF Waiters
  <1>c. ASSUME NEW c \in Calls, NEW s \in {"unsent", "timedOut", "invalid"},
               Cancel(c, s), pc[c] \in {"sendFailed", "expired"},
               s = "invalid" => c \in collided \/ Reissued(c)
        PROVE  Waiters'
    <2>1. /\ rid[c] # NoId
          /\ pc' = [pc EXCEPT ![c] = s]
          /\ UNCHANGED <<routed, rid, slot, collided>>
          /\ \A i \in DOMAIN items' : i \in DOMAIN items /\ items'[i] = items[i]
          /\ \A i \in DOMAIN items : i # rid[c] => i \in DOMAIN items' /\ items'[i] = items[i]
      BY <1>c DEF Cancel, Without, Waiters, InFlight
    <2>2. ASSUME NEW d \in Calls, Open(d)'
          PROVE  SenderAlive(d)' \/ slot'[d] # {} \/ Reissued(d)'
      <3>1. d # c /\ Open(d)
        BY <2>1, <2>2 DEF Open, TypeOK
      <3>2. CASE \E i \in DOMAIN items : items[i].owner = d
        <4>1. PICK i \in DOMAIN items : items[i].owner = d
          BY <3>2
        <4>2. rid[d] = i
          BY <4>1 DEF Ownership, EntryOwner
        <4>3. QED
          BY <2>1, <3>1, <4>1, <4>2 DEF SenderAlive, Reissued
      <3>3. CASE ~ \E i \in DOMAIN items : items[i].owner = d
        BY <2>1, <3>1, <3>3 DEF Waiters, SenderAlive, Reissued
      <3>4. QED
        BY <3>2, <3>3
    <2>3. OutcomeIsOwn'
      BY <1>c, <2>1 DEF Waiters, OutcomeIsOwn, Reissued, TypeOK
    <2>4. QED
      BY <1>c, <2>1, <2>2, <2>3 DEF Waiters, TypeOK, InFlight
  <1>6. ASSUME NEW c \in Calls, CancelUnsent(c) PROVE Waiters'
    BY <1>6, <1>c DEF CancelUnsent
  <1>10. ASSUME NEW c \in Calls, CancelExpired(c) PROVE Waiters'
    <2>1. ASSUME Diagnosis(c) = "invalid"
          PROVE  c \in collided \/ Reissued(c)
      <3>1. rid[c] \in DOMAIN items /\ items[rid[c]].undeclared # {}
        BY <2>1 DEF Diagnosis
      <3>2. /\ items[rid[c]].owner \in collided
            /\ rid[items[rid[c]].owner] = rid[c]
            /\ items[rid[c]].owner \in Calls
        BY <3>1 DEF Waiters, Ownership, EntryOwner, TypeOK, Entry
      <3>3. QED
        BY <3>2 DEF Reissued
    <2>2. Diagnosis(c) \in {"unsent", "timedOut", "invalid"}
      BY DEF Diagnosis
    <2>3. QED
      BY <1>10, <1>c, <2>1, <2>2 DEF CancelExpired
  <1>13. ASSUME NEW id \in Ids, NEW op \in Opcodes, TakeUndeclared(id, op)
         PROVE  Waiters'
    <2>1. /\ collided' = collided \cup {items[id].owner}
          /\ UNCHANGED <<routed, pc, rid, slot>>
          /\ DOMAIN items' = DOMAIN items
          /\ \A i \in DOMAIN items : items'[i].owner = items[i].owner
          /\ \A i \in DOMAIN items \ {id} : items'[i] = items[i]
      BY <1>13 DEF TakeUndeclared, TypeOK, Entry
    <2>2. QED
      BY <2>1 DEF Waiters, Open, SenderAlive, Reissued, OutcomeIsOwn
  <1>14. ASSUME NEW id \in Ids, NEW op \in Opcodes, NEW a \in Addressees(id),
                TakeAnswer(id, [op |-> op, answers |-> a])
         PROVE  Waiters'
    <2>1. /\ id \in DOMAIN items
          /\ \A r \in routed' : r.owner = items[id].owner
          /\ routed' # {} /\ routed = {}
          /\ collided' = collided \ {items[id].owner}
          /\ UNCHANGED <<pc, rid, slot>>
          /\ DOMAIN items' = DOMAIN items \ {id}
          /\ \A i \in DOMAIN items \ {id} :
                items'[i] = items[i] /\ items[i].owner # items[id].owner
      BY <1>14 DEF TakeAnswer, Without, Ownership, EntryOwner
    <2>2. pc[items[id].owner] \notin {"invalid", "recv"}
      BY <2>1 DEF Ownership, EntryOwner, InFlight
    <2>3. \A d \in Calls : SenderAlive(d) => SenderAlive(d)'
      BY <2>1 DEF SenderAlive
    <2>4. QED
      BY <2>1, <2>2, <2>3 DEF Waiters, Open, Reissued, OutcomeIsOwn
  <1>15. ASSUME Deliver PROVE Waiters'
    <2>1. PICK r \in routed : Deliver!(r)
      BY <1>15 DEF Deliver
    <2>2. /\ routed = {r} /\ r.owner \in Calls
          /\ UNCHANGED <<items, pc, rid, collided>>
      BY <2>1 DEF Shape, TypeOK
    <2>3. ASSUME NEW d \in Calls, Open(d)'
          PROVE  SenderAlive(d)' \/ slot'[d] # {} \/ Reissued(d)'
      <3>1. Open(d)
        BY <2>2, <2>3 DEF Open
      <3>2. CASE d = r.owner
        BY <2>1, <3>1, <3>2 DEF TypeOK
      <3>3. CASE d # r.owner
        BY <2>1, <2>2, <3>1, <3>3 DEF TypeOK, Waiters, SenderAlive, Reissued
      <3>4. QED
        BY <3>2, <3>3
    <2>4. QED
      BY <2>2, <2>3 DEF Waiters, Reissued, OutcomeIsOwn
  <1>16. CASE UNCHANGED vars
    BY <1>16 DEF vars, Waiters, Open, SenderAlive, Reissued, OutcomeIsOwn
  <1>17. QED
    BY <1>1, <1>2, <1>3, <1>4, <1>5, <1>6, <1>7, <1>8, <1>9, <1>10, <1>11,
       <1>12, <1>13, <1>14, <1>15, <1>16 DEF Next, Progress, Reader

\* While the link is open, only the reissue of its id ends a call with Recv or
\* with a collision that was not recorded against it.
THEOREM OutcomesAreOwn == Spec => []OutcomeIsOwn
  <1>1. TypeOK /\ Shape /\ Ownership /\ Waiters /\ [Next]_vars => Waiters'
    BY NextWaiters
  <1>2. Waiters => OutcomeIsOwn
    BY DEF Waiters
  <1>3. QED
    BY AccountingInvariant, InitWaiters, <1>1, <1>2, PTL DEF Spec

\* No step takes a waiting call's entry except to answer it or to cancel its id.
THEOREM LiveWaitersKept == Spec => LiveWaiterKept
  <1> DEFINE Kept ==
        \A i \in DOMAIN items :
          Open(items[i].owner) /\ i \notin DOMAIN items'
              => \/ \E r \in routed' : r.owner = items[i].owner
                 \/ \E c \in Calls : rid[c] = i /\ pc'[c] # pc[c]
                                     /\ pc'[c] \in {"unsent", "timedOut", "invalid"}
  <1>1. ASSUME TypeOK, Next PROVE Kept
    <2>1. ASSUME NEW i \in DOMAIN items, Open(items[i].owner), i \notin DOMAIN items'
          PROVE  \/ \E c \in Calls : CancelUnsent(c) \/ CancelExpired(c)
                 \/ \E id \in Ids, op \in Opcodes : \E a \in Addressees(id) :
                       TakeAnswer(id, [op |-> op, answers |-> a])
      <3>1. ASSUME NEW c \in Calls PROVE ~Insert(c)
        BY <2>1 DEF Insert, Retained
      <3>2. ASSUME NEW id \in Ids, NEW op \in Opcodes PROVE ~TakeUndeclared(id, op)
        BY <2>1 DEF TakeUndeclared
      <3>3. ~Deliver /\ \A c \in Calls : ~Call(c) /\ ~Acquire(c) /\ ~SendOk(c)
              /\ ~SendFails(c) /\ ~Receive(c) /\ ~ReceiveClosed(c) /\ ~Expire(c)
              /\ ~AbandonQueued(c) /\ ~Abandon(c)
        BY <2>1 DEF Deliver, Call, Acquire, SendOk, SendFails, Receive, ReceiveClosed,
           Expire, AbandonQueued, Abandon, mapVars
      <3>4. QED
        BY <1>1, <3>1, <3>2, <3>3, Zenon DEF Next, Progress, Reader
    <2>2. ASSUME NEW i \in DOMAIN items, Open(items[i].owner), i \notin DOMAIN items',
                 NEW c \in Calls, CancelUnsent(c) \/ CancelExpired(c)
          PROVE  rid[c] = i /\ pc'[c] # pc[c]
                 /\ pc'[c] \in {"unsent", "timedOut", "invalid"}
      BY <1>1, <2>2 DEF CancelUnsent, CancelExpired, Cancel, Without, Diagnosis, TypeOK
    <2>3. ASSUME NEW i \in DOMAIN items, i \notin DOMAIN items',
                 NEW id \in Ids, NEW op \in Opcodes, NEW a \in Addressees(id),
                 TakeAnswer(id, [op |-> op, answers |-> a])
          PROVE  \E r \in routed' : r.owner = items[i].owner
      BY <2>3 DEF TakeAnswer, Without
    <2>4. QED
      BY <2>1, <2>2, <2>3
  <1>2. TypeOK /\ [Next]_vars => [Kept]_vars
    BY <1>1
  <1>3. QED
    BY TypeCorrect, <1>2, PTL DEF Spec, LiveWaiterKept

-----------------------------------------------------------------------------
(* How a recorded collision is lost *)

\* The entry of a call that has suffered a collision has it on record.
Recorded ==
    /\ \A c \in collided : ~Fresh(c)
    /\ \A i \in DOMAIN items : items[i].owner \in collided => items[i].undeclared # {}

LEMMA NextRecorded ==
    TypeOK /\ Shape /\ Ownership /\ Recorded /\ [Next]_vars => Recorded'
  <1> SUFFICES ASSUME TypeOK, Shape, Ownership, Recorded, [Next]_vars PROVE Recorded'
    OBVIOUS
  <1>t. pc \in [Calls -> States] /\ collided \subseteq Calls
    BY DEF TypeOK
  <1> USE DEF mapVars, callVars, history
  <1>a. ASSUME NEW c \in Calls, NEW s \in States, pc' = [pc EXCEPT ![c] = s],
               Fresh(c) \/ s \notin {"idle", "queued", "granted"}, collided' = collided,
               \A i \in DOMAIN items' : i \in DOMAIN items /\ items'[i] = items[i]
        PROVE  Recorded'
    BY <1>t, <1>a DEF Recorded, Fresh
  <1>1. ASSUME NEW c \in Calls, Call(c) \/ SendOk(c) \/ SendFails(c) \/ Expire(c)
        PROVE  Recorded'
    BY <1>1, <1>a DEF Call, SendOk, SendFails, Expire, Fresh, States, InFlight
  <1>9. ASSUME NEW c \in Calls, Acquire(c) PROVE Recorded'
    BY <1>9, <1>a, HeadWaits DEF Acquire, Fresh, States
  <1>2. ASSUME NEW c \in Calls,
               Receive(c) \/ ReceiveClosed(c) \/ AbandonQueued(c) \/ Abandon(c)
        PROVE  Recorded'
    BY <1>2, <1>a DEF Receive, ReceiveClosed, AbandonQueued, Abandon, States, Results
  <1>3. ASSUME NEW c \in Calls, CancelUnsent(c) \/ CancelExpired(c) PROVE Recorded'
    BY <1>3, <1>a DEF CancelUnsent, CancelExpired, Cancel, Without, Diagnosis, States, Results
  <1>4. ASSUME NEW c \in Calls, Insert(c) PROVE Recorded'
    <2>1. /\ \A i \in DOMAIN items' :
                \/ items'[i].owner = c
                \/ i \in DOMAIN items /\ items'[i] = items[i]
          /\ collided' = collided /\ c \notin collided
          /\ pc' = [pc EXCEPT ![c] = "sending"]
      BY <1>4 DEF Insert, Retained, Recorded, Fresh
    <2>2. QED
      BY <1>t, <2>1 DEF Recorded, Fresh
  <1>5. ASSUME NEW id \in Ids, NEW op \in Opcodes, TakeUndeclared(id, op) PROVE Recorded'
    <2>1. /\ id \in DOMAIN items
          /\ ~Fresh(items[id].owner)
          /\ \A i \in DOMAIN items : items[i].owner = items[id].owner => i = id
      BY <1>5 DEF TakeUndeclared, Ownership, EntryOwner, InFlight, Fresh
    <2>2. /\ collided' = collided \cup {items[id].owner}
          /\ DOMAIN items' = DOMAIN items /\ pc' = pc
          /\ items'[id].undeclared = {op}
          /\ \A i \in DOMAIN items : items'[i].owner = items[i].owner
          /\ \A i \in DOMAIN items \ {id} : items'[i] = items[i]
      BY <1>5, <2>1 DEF TakeUndeclared, TypeOK, Entry
    <2>3. QED
      BY <2>1, <2>2 DEF Recorded, Fresh
  <1>6. ASSUME NEW id \in Ids, NEW op \in Opcodes, NEW a \in Addressees(id),
               TakeAnswer(id, [op |-> op, answers |-> a])
        PROVE  Recorded'
    BY <1>6 DEF TakeAnswer, Without, Recorded, Fresh
  <1>7. CASE Deliver \/ UNCHANGED vars
    BY <1>7 DEF Deliver, vars, Recorded, Fresh
  <1>8. QED
    BY <1>1, <1>2, <1>3, <1>4, <1>5, <1>6, <1>7, <1>9 DEF Next, Progress, Reader

\* A collision that is recorded and not reported was lost to another call: its
\* insert, or its cancel of the same id.
THEOREM CollisionsLostToOthers == Spec => CollisionLostToOthers
  <1> DEFINE Ends(c, i) ==
        pc[c] = "expired" /\ pc'[c] = "timedOut" => items[i].owner # c
  <1> DEFINE Goes(c, i) ==
        items[i].owner = c /\ i \notin DOMAIN items' /\ c \in collided' =>
            \/ pc'[c] \in {"unsent", "invalid"}
            \/ \E d \in Calls \ {c} :
                  \/ pc[d] = "granted" /\ pc'[d] = "sending" /\ ~Open(c)
                  \/ rid[d] = i /\ pc'[d] # pc[d]
                                /\ pc'[d] \in {"unsent", "timedOut", "invalid"}
  <1> DEFINE LostToOthers == \A c \in collided : \A i \in DOMAIN items : Ends(c, i) /\ Goes(c, i)
  <1>1. ASSUME TypeOK, Ownership, Recorded, Next,
               NEW c \in collided, NEW i \in DOMAIN items, items[i].owner = c
        PROVE  Ends(c, i) /\ Goes(c, i)
    <2>t. c \in Calls /\ pc \in [Calls -> States] /\ ~Fresh(c) /\ rid[c] = i
          /\ items[i].undeclared # {}
      BY <1>1 DEF TypeOK, Recorded, Ownership, EntryOwner
    <2> USE DEF mapVars, callVars, history
    <2>1. ASSUME NEW d \in Calls, CancelExpired(d) \/ CancelUnsent(d)
          PROVE  Ends(c, i) /\ Goes(c, i)
      <3>1. CASE d = c
        BY <2>t, <2>1, <3>1 DEF CancelExpired, CancelUnsent, Cancel, Diagnosis
      <3>2. CASE d # c
        BY <2>t, <2>1, <3>2 DEF CancelExpired, CancelUnsent, Cancel, Without, Diagnosis
      <3>3. QED
        BY <3>1, <3>2
    <2>2. ASSUME NEW d \in Calls, Insert(d) PROVE Ends(c, i) /\ Goes(c, i)
      <3>1. /\ d # c /\ pc' = [pc EXCEPT ![d] = "sending"] /\ pc[d] = "granted"
            /\ i \notin DOMAIN items' => ~Open(c)
        BY <1>1, <2>t, <2>2 DEF Insert, Retained, Fresh
      <3>2. QED
        BY <2>t, <3>1
    <2>3. ASSUME NEW id \in Ids, NEW op \in Opcodes, NEW a \in Addressees(id),
                 TakeAnswer(id, [op |-> op, answers |-> a])
          PROVE  Ends(c, i) /\ Goes(c, i)
      BY <1>1, <2>t, <2>3 DEF TakeAnswer, Without
    <2>4. ASSUME NEW id \in Ids, NEW op \in Opcodes, TakeUndeclared(id, op)
          PROVE  Ends(c, i) /\ Goes(c, i)
      BY <2>t, <2>4 DEF TakeUndeclared
    <2>5. CASE Deliver
      BY <2>t, <2>5 DEF Deliver
    <2>6. ASSUME NEW d \in Calls,
                 \/ Call(d) \/ Acquire(d) \/ SendOk(d) \/ SendFails(d) \/ Receive(d)
                 \/ ReceiveClosed(d) \/ Expire(d) \/ AbandonQueued(d) \/ Abandon(d)
          PROVE  Ends(c, i) /\ Goes(c, i)
      BY <2>t, <2>6 DEF Call, Acquire, SendOk, SendFails, Receive, ReceiveClosed, Expire,
         AbandonQueued, Abandon
    <2>7. QED
      BY <1>1, <2>1, <2>2, <2>3, <2>4, <2>5, <2>6 DEF Next, Progress, Reader
  <1>2. TypeOK /\ Ownership /\ Recorded /\ [Next]_vars => [LostToOthers]_vars
    <2>1. TypeOK /\ Ownership /\ Recorded /\ Next => LostToOthers
      BY <1>1
    <2>2. QED
      BY <2>1
  <1>3. [LostToOthers]_vars =>
          [\A c \in collided :
              /\ pc[c] = "expired" /\ pc'[c] = "timedOut"
                    => \A i \in DOMAIN items : items[i].owner # c
              /\ \A i \in DOMAIN items : Goes(c, i)]_vars
    OBVIOUS
  <1>4. Init => Recorded
    BY DEF Init, Recorded
  <1>5. QED
    BY AccountingInvariant, NextRecorded, <1>2, <1>3, <1>4, PTL DEF Spec, CollisionLostToOthers

-----------------------------------------------------------------------------
(* Fewer drops than permits leave someone to give one back *)

\* Only a call that may be dropped is.
DroppedMayBe == \A c \in Calls : pc[c] = "abandoned" => c \in Abandoners

LEMMA NextDropped == TypeOK /\ DroppedMayBe /\ [Next]_vars => DroppedMayBe'
  <1> SUFFICES ASSUME TypeOK, DroppedMayBe, [Next]_vars PROVE DroppedMayBe'
    OBVIOUS
  <1>t. pc \in [Calls -> States]
    BY DEF TypeOK
  <1>1. ASSUME NEW c \in Calls, Call(c) \/ Acquire(c) \/ Insert(c) \/ SendOk(c) \/ SendFails(c)
        PROVE  DroppedMayBe'
    BY <1>t, <1>1 DEF Call, Acquire, Insert, SendOk, SendFails, DroppedMayBe
  <1>2. ASSUME NEW c \in Calls, CancelUnsent(c) \/ Receive(c) \/ ReceiveClosed(c) \/ Expire(c)
                                \/ CancelExpired(c)
        PROVE  DroppedMayBe'
    BY <1>t, <1>2 DEF CancelUnsent, Cancel, Receive, ReceiveClosed, Expire, CancelExpired,
       Diagnosis, DroppedMayBe
  <1>3. ASSUME NEW c \in Calls, Abandon(c) \/ AbandonQueued(c) PROVE DroppedMayBe'
    BY <1>t, <1>3 DEF Abandon, AbandonQueued, DroppedMayBe
  <1>4. ASSUME Reader \/ UNCHANGED vars PROVE DroppedMayBe'
    BY <1>4 DEF Reader, TakeUndeclared, TakeAnswer, Deliver, vars, callVars, DroppedMayBe
  <1>5. QED
    BY <1>1, <1>2, <1>3, <1>4 DEF Next, Progress

\* While fewer calls may be dropped than there are permits, a full map has an
\* entry, a hand or a call that gives its permit back without anyone's insert.
\* With as many it has not: the run request_map_saturated shows the way there.
THEOREM SaturationNeedsDrops == Spec => []SomeoneGivesBack
  <1>1. Init => DroppedMayBe
    BY DEF Init, DroppedMayBe
  <1>2. ASSUME TypeOK, Shape, Ownership, Accounting, DroppedMayBe PROVE SomeoneGivesBack
    <2> SUFFICES ASSUME IsFiniteSet(Abandoners), Cardinality(Abandoners) < Capacity, permits = 0,
                        Granted = {}, routed = {},
                        \A i \in DOMAIN items : pc[items[i].owner] \notin InFlight
                 PROVE  FALSE
      BY DEF SomeoneGivesBack
    <2>1. Cardinality(DOMAIN items) = Capacity
      BY <1>2, Finite, FS_EmptySet, MaxIdAssumption
         DEF Accounting, PermitAccounting, Capacity
    <2> DEFINE Owner == [i \in DOMAIN items |-> items[i].owner]
    <2>2. \A i \in DOMAIN items : items[i].owner \in Calls
      BY <1>2 DEF TypeOK, Entry
    <2>3. \A i \in DOMAIN items : items[i].owner \in Abandoners
      BY <1>2, <2>2 DEF Ownership, EntryOwner, DroppedMayBe
    <2>4. \A i, j \in DOMAIN items : items[i].owner = items[j].owner => i = j
      BY <1>2 DEF Ownership, EntryOwner
    <2>5. Owner \in Injection(DOMAIN items, Abandoners)
      BY <2>3, <2>4 DEF Injection, IsInjective
    <2>6. Cardinality(DOMAIN items) <= Cardinality(Abandoners)
      BY <2>5, FS_Injection
    <2>7. Cardinality(Abandoners) \in Nat
      BY FS_CardinalityType
    <2>8. QED
      BY <2>1, <2>6, <2>7, MaxIdAssumption DEF Capacity
  <1>3. QED
    BY AccountingInvariant, <1>1, <1>2, NextDropped, PTL DEF Spec

-----------------------------------------------------------------------------
(* Permits are handed out in turn *)

\* A call's place, as the queue for permits sees it.
StageAt(p) == CASE p = "idle" -> "outside"
                [] p = "queued" -> "queued"
                [] p = "abandoned" -> "gone"
                [] OTHER -> "served"

Staged == [c \in Calls |-> StageAt(pc[c])]

LEMMA SameStage == PermitStage = Staged /\ PermitStage' = Staged'
  BY DEF PermitStage, Staged, StageAt

LEMMA StagedInit == Init => FQ!Init
  <1> SUFFICES ASSUME Init PROVE FQ!Init
    OBVIOUS
  <1>1. Staged = [c \in Calls |-> "outside"] /\ waiting = <<>>
    BY DEF Init, Staged, StageAt
  <1>2. QED
    BY <1>1, SameStage DEF FQ!Init

\* A step of one call, as the queue sees it.
LEMMA StagedStep ==
    ASSUME NEW c \in Calls, NEW p, pc' = [pc EXCEPT ![c] = p], pc \in [Calls -> States]
    PROVE  /\ PermitStage[c] = StageAt(pc[c])
           /\ PermitStage' = [PermitStage EXCEPT ![c] = StageAt(p)]
           /\ StageAt(p) = StageAt(pc[c]) => PermitStage' = PermitStage
  <1>1. Staged[c] = StageAt(pc[c]) /\ Staged' = [Staged EXCEPT ![c] = StageAt(p)]
    BY DEF Staged
  <1>2. StageAt(p) = StageAt(pc[c]) => Staged' = Staged
    BY <1>1 DEF Staged
  <1>3. QED
    BY <1>1, <1>2, SameStage

LEMMA StagedNext == TypeOK /\ Shape /\ [Next]_vars => [FQ!Next]_(FQ!vars)
  <1> SUFFICES ASSUME TypeOK, Shape, [Next]_vars PROVE FQ!Next \/ UNCHANGED FQ!vars
    OBVIOUS
  <1>t. pc \in [Calls -> States]
    BY DEF TypeOK
  <1>q. ASSUME UNCHANGED <<pc, waiting>> PROVE UNCHANGED FQ!vars
    BY <1>q, SameStage DEF Staged, FQ!vars
  <1>1. ASSUME NEW c \in Calls, Call(c) PROVE FQ!Next
    <2>1. pc[c] = "idle" /\ pc' = [pc EXCEPT ![c] = "queued"] /\ waiting' = Append(waiting, c)
      BY <1>1 DEF Call
    <2>2. PermitStage[c] = "outside" /\ PermitStage' = [PermitStage EXCEPT ![c] = "queued"]
      BY <1>t, <2>1, StagedStep DEF StageAt
    <2>3. FQ!Join(c)
      BY <2>1, <2>2 DEF FQ!Join, FQ!Goes
    <2>4. QED
      BY <2>3 DEF FQ!Next
  <1>2. ASSUME NEW c \in Calls, Acquire(c) PROVE FQ!Next
    <2>1. /\ waiting # <<>> /\ Head(waiting) = c /\ waiting' = Tail(waiting)
          /\ pc' = [pc EXCEPT ![c] = "granted"]
      BY <1>2 DEF Acquire
    <2>2. pc[c] = "queued"
      BY <2>1, HeadWaits
    <2>3. StageAt("granted") = "served" /\ StageAt(pc[c]) = "queued"
      BY <2>2 DEF StageAt
    <2>4. PermitStage[c] = "queued" /\ PermitStage' = [PermitStage EXCEPT ![c] = "served"]
      <3>1. pc' = [pc EXCEPT ![c] = "granted"]
        BY <2>1
      <3>2. QED
        BY <1>t, <2>3, <3>1, StagedStep
    <2>5. FQ!Serve(c)
      BY <2>1, <2>4 DEF FQ!Serve, FQ!Goes
    <2>6. QED
      BY <2>5 DEF FQ!Next
  <1>3. ASSUME NEW c \in Calls,
               \/ Insert(c) \/ SendOk(c) \/ SendFails(c) \/ CancelUnsent(c) \/ Receive(c)
               \/ ReceiveClosed(c) \/ Expire(c) \/ CancelExpired(c)
        PROVE  UNCHANGED FQ!vars
    <2>1. PICK p \in {"sending", "awaiting", "sendFailed", "unsent", "replied", "recv", "expired",
                      "timedOut", "invalid"} : pc' = [pc EXCEPT ![c] = p]
      BY <1>3 DEF Insert, SendOk, SendFails, CancelUnsent, Cancel, Receive, ReceiveClosed,
         Expire, CancelExpired, Diagnosis
    <2>2. waiting' = waiting /\ pc[c] \in {"granted", "sending", "sendFailed", "awaiting", "expired"}
      BY <1>3 DEF Insert, SendOk, SendFails, CancelUnsent, Cancel, Receive, ReceiveClosed,
         Expire, CancelExpired, mapVars
    <2>3. StageAt(p) = "served" /\ StageAt(pc[c]) = "served"
      BY <2>2 DEF StageAt
    <2>4. QED
      BY <1>t, <2>1, <2>2, <2>3, StagedStep DEF FQ!vars
  <1>4. ASSUME NEW c \in Calls, AbandonQueued(c) PROVE FQ!Next
    <2>1. PICK k \in 1 .. Len(waiting) :
             /\ waiting[k] = c
             /\ waiting' = SubSeq(waiting, 1, k - 1) \o SubSeq(waiting, k + 1, Len(waiting))
      BY <1>4, Zenon DEF AbandonQueued
    <2>2. pc[c] = "queued" /\ pc' = [pc EXCEPT ![c] = "abandoned"]
      BY <1>4, <2>1 DEF AbandonQueued, Shape
    <2>3. PermitStage[c] = "queued" /\ PermitStage' = [PermitStage EXCEPT ![c] = "gone"]
      BY <1>t, <2>2, StagedStep DEF StageAt
    <2>4. FQ!GiveUp(c)
      BY <2>1, <2>3 DEF FQ!GiveUp, FQ!Goes
    <2>5. QED
      BY <2>4 DEF FQ!Next
  <1>5. ASSUME NEW c \in Calls, Abandon(c) PROVE FQ!Next
    <2>1. /\ pc[c] \in {"granted", "sending", "sendFailed", "awaiting", "expired"}
          /\ pc' = [pc EXCEPT ![c] = "abandoned"] /\ waiting' = waiting
      BY <1>5 DEF Abandon, InFlight
    <2>2. PermitStage[c] = "served" /\ PermitStage' = [PermitStage EXCEPT ![c] = "gone"]
      BY <1>t, <2>1, StagedStep DEF StageAt
    <2>3. FQ!Leave(c)
      BY <2>1, <2>2 DEF FQ!Leave, FQ!Goes
    <2>4. QED
      BY <2>3 DEF FQ!Next
  <1>6. ASSUME Reader \/ UNCHANGED vars PROVE UNCHANGED FQ!vars
    BY <1>q, <1>6 DEF Reader, TakeUndeclared, TakeAnswer, Deliver, vars, mapVars, callVars
  <1>7. QED
    BY <1>1, <1>2, <1>3, <1>4, <1>5, <1>6 DEF Next, Progress

LEMMA PermitsAreQueue == Spec => FQ!Spec
  BY ShapeInvariant, StagedInit, StagedNext, PTL DEF Spec, FQ!Spec

LEMMA SameQueue == /\ FQ!Init <=> Semaphore!Init
                   /\ [FQ!Next]_(FQ!vars) <=> [Semaphore!Next]_(Semaphore!vars)
  BY DEF FQ!Init, Semaphore!Init, FQ!Next, Semaphore!Next, FQ!vars, Semaphore!vars,
         FQ!Join, Semaphore!Join, FQ!Serve, Semaphore!Serve, FQ!GiveUp, Semaphore!GiveUp,
         FQ!Leave, Semaphore!Leave, FQ!Goes, Semaphore!Goes

\* The requests of a map, seen by how they get their permits, are one of the
\* behaviours of FairQueue, for every id space and every pattern of drops.
THEOREM PermitsImplementQueue == Spec => PermitsAreFair
  BY PermitsAreQueue, SameQueue, PTL DEF FQ!Spec, PermitsAreFair, Semaphore!Spec

\* No request overtakes another on its way into a full map, and the queue holds
\* exactly the requests that still wait.
THEOREM PermitsInOrder == Spec => []Semaphore!HoldsTheQueued /\ Semaphore!ServedInOrder
  <1>1. Spec => []FQ!HoldsTheQueued /\ FQ!ServedInOrder
    BY PermitsAreQueue, FQ!OnlyTheQueuedWait, FQ!FirstComeFirstServed
  <1>2. QED
    BY <1>1 DEF FQ!HoldsTheQueued, Semaphore!HoldsTheQueued, FQ!ServedInOrder,
                Semaphore!ServedInOrder, FQ!vars, Semaphore!vars
=============================================================================
