--------------------------- MODULE DigLinkProofs ---------------------------
(***************************************************************************)
(* Proofs about DigLink, for every set of calls, every frame and channel.  *)
(* The link implements RequestMap, so that what RequestMapProofs shows of  *)
(* the map holds in the link; the link's own invariants are built on that, *)
(* up to the refinement of LinkService.                                    *)
(***************************************************************************)
EXTENDS DigLink, SequenceTheorems, TLAPS

\* The map, with its theorems.
MP == INSTANCE RequestMapProofs WITH Expected <- Declared

\* What the link's users are promised.
LP == INSTANCE LinkServiceProofs
        WITH Requests <- Calls, state <- ServiceState, answer <- answeredBy,
             Messages <- {f \in Frames : f.kind = "message"}

\* The requests at the sink, as a fair queue.
FQ == INSTANCE FairQueueProofs WITH Callers <- Calls, stage <- SinkStage, queue <- sinkQueue

-----------------------------------------------------------------------------
(* The link's own types *)

\* The types of the variables that are not the map's, and what the reader's
\* place says of the frame in its hands.
LinkTypeOK ==
    /\ log \in Seq(Frames)
    /\ read \in 0 .. Len(log)
    /\ reader \in ReaderStates
    /\ channel \in Seq(1 .. read)
    /\ receiver \in BOOLEAN
    /\ linked \in BOOLEAN
    /\ sinkQueue \in Seq(Calls)
    /\ stalled \in BOOLEAN
    /\ answeredBy \in [Calls -> 0 .. read]
    /\ published \in Seq(1 .. read)
    /\ lost \subseteq 1 .. read
    /\ reader \in {"decoded", "unmatched"} => read > 0 /\ log[read].kind = "message"
    /\ reader = "decoded" => log[read].id # NoId

\* The map's steps leave the link's own variables alone, and the other way
\* round: most steps change a few of them.
LEMMA Widened ==
    ASSUME NEW m \in Nat, NEW n \in Nat, m <= n, NEW s \in Seq(1 .. m)
    PROVE  s \in Seq(1 .. n)
  <1>1. Len(s) \in Nat /\ \A k \in 1 .. Len(s) : s[k] \in 1 .. n
    BY ElementOfSeq, LenProperties
  <1>2. QED
    BY <1>1, SeqDef, LenProperties, IsASeq

LEMMA InitLinkTypeOK == Init => LinkTypeOK
  <1> SUFFICES ASSUME Init PROVE LinkTypeOK
    OBVIOUS
  <1>1. log \in Seq(Frames) /\ Len(log) = 0 /\ sinkQueue \in Seq(Calls)
    BY EmptySeq DEF Init
  <1>2. channel \in Seq(1 .. read) /\ published \in Seq(1 .. read)
    BY EmptySeq DEF Init
  <1>3. read \in 0 .. Len(log) /\ answeredBy \in [Calls -> 0 .. read] /\ lost \subseteq 1 .. read
    BY <1>1 DEF Init
  <1>4. /\ receiver \in BOOLEAN /\ linked \in BOOLEAN /\ stalled \in BOOLEAN
        /\ reader = "reading" /\ reader \in ReaderStates
    BY DEF Init, ReaderStates
  <1>5. QED
    BY <1>1, <1>2, <1>3, <1>4 DEF LinkTypeOK

LEMMA NextLinkTypeOK == LinkTypeOK /\ [Next]_vars => LinkTypeOK'
  <1> SUFFICES ASSUME LinkTypeOK, [Next]_vars PROVE LinkTypeOK'
    OBVIOUS
  <1> USE LinkAssumption DEF LinkTypeOK, ReaderStates, readerVars, endVars, Frame
  <1>1. ASSUME NEW c \in Calls, Call(c) PROVE LinkTypeOK'
    BY <1>1 DEF Call
  <1>2. ASSUME NEW c \in Calls, RequestStep(c) PROVE LinkTypeOK'
    BY <1>2 DEF RequestStep
  <1>3. ASSUME NEW c \in Calls, LockSink(c) PROVE LinkTypeOK'
    BY <1>3 DEF LockSink
  <1>4. ASSUME NEW c \in Calls, RefuseSend(c) PROVE LinkTypeOK'
    BY <1>4 DEF RefuseSend
  <1>5. ASSUME NEW c \in Calls, FinishSend(c) \/ BreakSend(c) PROVE LinkTypeOK'
    <2>1. sinkQueue' \in Seq(Calls)
      BY <1>5, HeadTailProperties DEF FinishSend, BreakSend, HoldsSink
    <2>2. QED
      BY <1>5, <2>1 DEF FinishSend, BreakSend
  <1>6. ASSUME NEW c \in Calls, Abandon(c) PROVE LinkTypeOK'
    <2>1. Without(c) \in Seq(Calls)
      <3>1. CASE Queued(c)
        <4>1. PICK k \in 1 .. Len(sinkQueue) :
                 Without(c) = SubSeq(sinkQueue, 1, k - 1) \o SubSeq(sinkQueue, k + 1, Len(sinkQueue))
          BY <3>1 DEF Without, Queued
        <4>2. QED
          BY <4>1, FQ!RemovedFromQueue
      <3>2. CASE ~Queued(c)
        BY <3>2 DEF Without
      <3>3. QED
        BY <3>1, <3>2
    <2>2. QED
      BY <1>6, <2>1 DEF Abandon
  <1>7. CASE ReadFrame
    <2>1. read + 1 \in 1 .. Len(log) /\ log[read + 1] \in Frame
      BY <1>7, ElementOfSeq DEF ReadFrame
    <2>2. /\ reader' \in ReaderStates
          /\ reader' \in {"decoded", "unmatched"} => log[read + 1].kind = "message"
          /\ reader' = "decoded" => log[read + 1].id # NoId
      BY <1>7, <2>1 DEF ReadFrame, AfterReading, AfterMalformed
    <2>3. channel' \in Seq(1 .. read') /\ published' \in Seq(1 .. read')
      BY <1>7, Widened DEF ReadFrame
    <2>4. read' \in 0 .. Len(log') /\ log[read'] = log[read + 1]
      BY <1>7, <2>1 DEF ReadFrame
    <2>5. answeredBy' \in [Calls -> 0 .. read'] /\ lost' \subseteq 1 .. read'
      BY <1>7 DEF ReadFrame
    <2>6. QED
      BY <1>7, <2>1, <2>2, <2>3, <2>4, <2>5 DEF ReadFrame
  <1>8. CASE TakeAnswer
    <2>1. /\ reader' = "completing"
          /\ answeredBy' = [answeredBy EXCEPT ![items[log[read].id].owner] = read]
          /\ UNCHANGED <<log, read, channel, published, lost, endVars>>
      BY <1>8 DEF TakeAnswer
    <2>2. answeredBy' \in [Calls -> 0 .. read]
      <3>1. PICK c : answeredBy' = [answeredBy EXCEPT ![c] = read]
        BY <2>1
      <3>2. read \in 0 .. read /\ answeredBy \in [Calls -> 0 .. read]
        OBVIOUS
      <3> HIDE DEF LinkTypeOK
      <3>3. QED
        BY <3>1, <3>2
    <2>3. QED
      BY <2>1, <2>2
  <1>9. CASE TakeUndeclared \/ TakeUnknown \/ Complete
    BY <1>9 DEF TakeUndeclared, AfterUndeclared, TakeUnknown, Complete
  <1>10. CASE TrySend
    <2>1. read \in 1 .. read
      BY <1>10 DEF TrySend
    <2>2. Append(channel, read) \in Seq(1 .. read) /\ Append(published, read) \in Seq(1 .. read)
      BY <2>1, AppendProperties
    <2>3. QED
      BY <1>10, <2>1, <2>2 DEF TrySend
  <1>11. CASE Abort
    BY <1>11 DEF Abort
  <1>12. CASE Receive
    <2>1. Tail(channel) \in Seq(1 .. read)
      BY <1>12, HeadTailProperties DEF Receive
    <2>2. QED
      BY <1>12, <2>1 DEF Receive
  <1>13. CASE DropReceiver \/ DropLink \/ PeerStalls
    BY <1>13, EmptySeq DEF DropReceiver, DropLink, PeerStalls
  <1>14. ASSUME NEW f \in Frames, PeerSends(f) PROVE LinkTypeOK'
    <2>1. /\ log' \in Seq(Frames) /\ Len(log') = Len(log) + 1
          /\ \A k \in 1 .. Len(log) : log'[k] = log[k]
      BY <1>14, AppendProperties DEF PeerSends
    <2>2. QED
      BY <1>14, <2>1 DEF PeerSends
  <1>15. CASE UNCHANGED vars
    BY <1>15 DEF vars
  <1>16. QED
    BY <1>1, <1>2, <1>3, <1>4, <1>5, <1>6, <1>7, <1>8, <1>9, <1>10, <1>11, <1>12,
       <1>13, <1>14, <1>15
    DEF Next, Reader, Requesting, Application, Peer

-----------------------------------------------------------------------------
(* The link implements the map *)

LEMMA MapAssumptions ==
    /\ Declared \in [Calls -> SUBSET Opcodes]
    /\ MaxId \in Nat \ {0}
    /\ Abandoners \subseteq Calls
  <1>1. ASSUME NEW c \in Calls PROVE Declared[c] \subseteq Opcodes
    <2>1. Request[c].replies \in Seq(Opcodes)
      BY RequestAssumption
    <2>2. \A k \in 1 .. Len(Request[c].replies) : Request[c].replies[k] \in Opcodes
      BY <2>1, ElementOfSeq
    <2>3. QED
      BY <2>2 DEF Declared
  <1>2. QED
    BY <1>1, LinkAssumption DEF Declared

LEMMA SameInit == Init => MP!Init
  BY DEF Init, Map!Init, MP!Init, Map!Capacity, MP!Capacity, Map!NoId, MP!NoId

\* A step of a request on the map, here and there.
LEMMA SameRequestStep ==
    ASSUME NEW c \in Calls
    PROVE  /\ Map!Call(c) => MP!Call(c)
           /\ Map!Acquire(c) => MP!Acquire(c)
           /\ Map!SendOk(c) => MP!SendOk(c)
           /\ Map!SendFails(c) => MP!SendFails(c)
           /\ Map!CancelUnsent(c) => MP!CancelUnsent(c)
           /\ Map!Receive(c) => MP!Receive(c)
           /\ Map!ReceiveClosed(c) => MP!ReceiveClosed(c)
           /\ Map!Expire(c) => MP!Expire(c)
           /\ Map!CancelExpired(c) => MP!CancelExpired(c)
           /\ Map!AbandonQueued(c) => MP!AbandonQueued(c)
           /\ Map!Abandon(c) => MP!Abandon(c)
  <1> USE DEF Map!mapVars, MP!mapVars, Map!history, MP!history, Map!callVars, MP!callVars,
              Map!InFlight, MP!InFlight
  <1>1. Map!Call(c) => MP!Call(c)
    BY DEF Map!Call, MP!Call
  <1>2. Map!Acquire(c) => MP!Acquire(c)
    BY DEF Map!Acquire, MP!Acquire
  <1>3. (Map!SendOk(c) => MP!SendOk(c)) /\ (Map!SendFails(c) => MP!SendFails(c))
    BY DEF Map!SendOk, MP!SendOk, Map!SendFails, MP!SendFails
  <1>4. Map!CancelUnsent(c) => MP!CancelUnsent(c)
    BY DEF Map!CancelUnsent, MP!CancelUnsent, Map!Cancel, MP!Cancel, Map!Without, MP!Without,
           Map!FreedBy, MP!FreedBy
  <1>5. Map!Receive(c) => MP!Receive(c)
    BY DEF Map!Receive, MP!Receive
  <1>6. Map!ReceiveClosed(c) => MP!ReceiveClosed(c)
    BY DEF Map!ReceiveClosed, MP!ReceiveClosed, Map!SenderAlive, MP!SenderAlive
  <1>7. Map!Expire(c) => MP!Expire(c)
    BY DEF Map!Expire, MP!Expire, Map!SenderAlive, MP!SenderAlive
  <1>8. Map!CancelExpired(c) => MP!CancelExpired(c)
    BY DEF Map!CancelExpired, MP!CancelExpired, Map!Cancel, MP!Cancel, Map!Without, MP!Without,
           Map!FreedBy, MP!FreedBy, Map!Diagnosis, MP!Diagnosis
  <1>9. Map!AbandonQueued(c) => MP!AbandonQueued(c)
    BY DEF Map!AbandonQueued, MP!AbandonQueued
  <1>10. Map!Abandon(c) => MP!Abandon(c)
    BY DEF Map!Abandon, MP!Abandon
  <1>11. QED
    BY <1>1, <1>2, <1>3, <1>4, <1>5, <1>6, <1>7, <1>8, <1>9, <1>10

LEMMA SameInsert == ASSUME NEW c \in Calls, Map!Insert(c) PROVE MP!Insert(c)
  <1>1. Map!Retained = MP!Retained
    BY DEF Map!Retained, MP!Retained, Map!Open, MP!Open
  <1>2. Map!Ids = MP!Ids /\ Map!NoId = MP!NoId /\ Map!SearchStart = MP!SearchStart
    BY DEF Map!Ids, MP!Ids, Map!NoId, MP!NoId, Map!SearchStart, MP!SearchStart
  <1>3. /\ \A m, n : Map!Walk(m, n) = MP!Walk(m, n)
        /\ \A n : Map!WrappingSucc(n) = MP!WrappingSucc(n)
    BY DEF Map!Walk, MP!Walk, Map!WrappingSucc, MP!WrappingSucc
  <1> HIDE DEF Map!Retained, MP!Retained, Map!Ids, MP!Ids
  <1>4. PICK id \in Map!Ids : Map!Insert(c)!2!(id)
    BY DEF Map!Insert
  <1>5. MP!Insert(c)!2!(id)
    BY <1>1, <1>2, <1>3, <1>4
  <1>6. /\ MP!Insert(c)!1 /\ MP!Insert(c)!3 /\ MP!Insert(c)!4 /\ MP!Insert(c)!5
    <2>1. \A S : Map!Cardinality(S) = MP!Cardinality(S)
      BY Zenon DEF Map!Cardinality, MP!Cardinality
    <2>2. QED
      BY <1>1, <2>1 DEF Map!Insert
  <1>7. QED
    BY <1>2, <1>4, <1>5, <1>6 DEF MP!Insert

\* A step of the reader on the map, here and there.
LEMMA SameReaderStep ==
    /\ \A id, op : Map!TakeUndeclared(id, op) => MP!TakeUndeclared(id, op)
    /\ \A id, m : Map!TakeAnswer(id, m) => MP!TakeAnswer(id, m)
    /\ \A id : Map!Addressees(id) = MP!Addressees(id)
    /\ Map!Deliver => MP!Deliver
  <1>1. \A id, op : Map!TakeUndeclared(id, op) => MP!TakeUndeclared(id, op)
    BY DEF Map!TakeUndeclared, MP!TakeUndeclared, Map!Completes, MP!Completes,
           Map!callVars, MP!callVars
  <1>2. \A id, m : Map!TakeAnswer(id, m) => MP!TakeAnswer(id, m)
    BY DEF Map!TakeAnswer, MP!TakeAnswer, Map!Completes, MP!Completes, Map!Without, MP!Without,
           Map!callVars, MP!callVars
  <1>3. \A id : Map!Addressees(id) = MP!Addressees(id)
    BY DEF Map!Addressees, MP!Addressees
  <1>4. Map!Deliver => MP!Deliver
    BY DEF Map!Deliver, MP!Deliver, Map!Open, MP!Open, Map!history, MP!history
  <1>5. QED
    BY <1>1, <1>2, <1>3, <1>4

LEMMA SameStep == LinkTypeOK /\ [Next]_vars => [MP!Next]_(MP!vars)
  <1> SUFFICES ASSUME LinkTypeOK, [Next]_vars PROVE MP!Next \/ UNCHANGED MP!vars
    OBVIOUS
  <1> DEFINE Stutter == UNCHANGED mapVars
  <1>s. Stutter => UNCHANGED MP!vars
    BY DEF mapVars, MP!vars, MP!mapVars, MP!callVars, MP!history
  <1>r. ASSUME NEW c \in Calls, \/ MP!Call(c) \/ MP!Progress(c)
                                 \/ MP!AbandonQueued(c) \/ MP!Abandon(c)
        PROVE  MP!Next
    BY <1>r DEF MP!Next
  <1>1. ASSUME NEW c \in Calls, Call(c) PROVE MP!Next
    BY <1>1, <1>r, SameRequestStep DEF Call
  <1>2. ASSUME NEW c \in Calls, RequestStep(c) PROVE MP!Next
    BY <1>2, <1>r, SameRequestStep, SameInsert DEF RequestStep, MP!Progress
  <1>3. ASSUME NEW c \in Calls, RefuseSend(c) \/ FinishSend(c) \/ BreakSend(c) PROVE MP!Next
    BY <1>3, <1>r, SameRequestStep DEF RefuseSend, FinishSend, BreakSend, MP!Progress
  <1>4. ASSUME NEW c \in Calls, Abandon(c) PROVE MP!Next
    BY <1>4, <1>r, SameRequestStep DEF Abandon
  <1>5. ASSUME NEW c \in Calls, LockSink(c) PROVE Stutter
    BY <1>5 DEF LockSink
  <1>6. reader = "decoded" => log[read].id \in MP!Ids /\ log[read].op \in Opcodes
    <2>1. reader = "decoded" => read \in 1 .. Len(log)
      BY DEF LinkTypeOK
    <2>2. reader = "decoded" => log[read] \in Frame
      BY <2>1, ElementOfSeq, LinkAssumption DEF LinkTypeOK
    <2>3. QED
      BY <2>2 DEF LinkTypeOK, Frame, Ids, MP!Ids
  <1>7. CASE TakeAnswer
    <2>1. reader = "decoded" /\ \E a \in Map!Addressees(log[read].id) :
             Map!TakeAnswer(log[read].id, [op |-> log[read].op, answers |-> a])
      BY <1>7 DEF TakeAnswer
    <2>2. PICK a \in MP!Addressees(log[read].id) :
             MP!TakeAnswer(log[read].id, [op |-> log[read].op, answers |-> a])
      BY <2>1, SameReaderStep
    <2>3. MP!Reader
      BY <1>6, <2>1, <2>2 DEF MP!Reader
    <2>4. QED
      BY <2>3 DEF MP!Next
  <1>8. CASE TakeUndeclared
    BY <1>6, <1>8, SameReaderStep DEF TakeUndeclared, MP!Reader, MP!Next
  <1>9. CASE Complete
    BY <1>9, SameReaderStep DEF Complete, MP!Reader, MP!Next
  <1>10. ASSUME ReadFrame \/ TakeUnknown \/ TrySend \/ Abort PROVE Stutter
    BY <1>10 DEF ReadFrame, TakeUnknown, TrySend, Abort
  <1>11. ASSUME Application \/ Peer PROVE Stutter
    BY <1>11 DEF Application, Peer, Receive, DropReceiver, DropLink, PeerStalls, PeerSends
  <1>12. ASSUME UNCHANGED vars PROVE Stutter
    BY <1>12 DEF vars
  <1> HIDE DEF Stutter
  <1>13. QED
    BY <1>s, <1>1, <1>2, <1>3, <1>4, <1>5, <1>7, <1>8, <1>9, <1>10, <1>11, <1>12
    DEF Next, Reader, Requesting

LEMMA LinkTypes == Spec => []LinkTypeOK
  BY InitLinkTypeOK, NextLinkTypeOK, PTL DEF Spec

\* What a link does to its map, RequestMap allows: the reader takes the frames
\* off the stream one at a time, and the sink decides when a request is sent.
THEOREM ImplementsMap == Spec => MP!Spec
  BY SameInit, LinkTypes, SameStep, PTL DEF Spec, MP!Spec

\* The map's layered invariant, in the link.
MapInv == MP!TypeOK /\ MP!Shape /\ MP!Ownership

LEMMA MapInvariant == Spec => [](LinkTypeOK /\ MapInv)
  <1>1. Spec => [](MP!TypeOK /\ MP!Shape /\ MP!Ownership /\ MP!Accounting)
    BY ImplementsMap, MapAssumptions, MP!AccountingInvariant
    DEF MP!ExpectedAssumption, MP!MaxIdAssumption, MP!AbandonersAssumption
  <1>2. MP!TypeOK /\ MP!Shape /\ MP!Ownership /\ MP!Accounting => MapInv
    BY DEF MapInv
  <1>3. QED
    BY LinkTypes, <1>1, <1>2, PTL

LEMMA SameTypes == MP!TypeOK => Map!TypeOK
  <1>1. /\ MP!Ids = Map!Ids /\ MP!NoId = Map!NoId /\ MP!States = Map!States
        /\ MP!Entry = Map!Entry /\ MP!Message = Map!Message
    BY DEF MP!Ids, Map!Ids, MP!NoId, Map!NoId, MP!States, Map!States, MP!InFlight, Map!InFlight,
           MP!Results, Map!Results, MP!Entry, Map!Entry, MP!Message, Map!Message
  <1>2. QED
    BY <1>1 DEF MP!TypeOK, Map!TypeOK

\* Every reachable state of the link has its type, whatever the peer sends and
\* however the calls, the reader, the sink and the application take turns.
THEOREM TypeCorrect == Spec => []TypeOK
  <1>1. LinkTypeOK /\ MapInv => TypeOK
    BY SameTypes DEF LinkTypeOK, MapInv, TypeOK
  <1>2. QED
    BY MapInvariant, <1>1, PTL

-----------------------------------------------------------------------------
(* Where every message is *)

Fresh(c) == pc[c] \in {"idle", "queued", "granted"}

\* What a step of the map leaves of entries, calls and replies.
LEMMA MapSteps ==
    ASSUME MapInv, [MP!Next]_(MP!vars)
    PROVE  /\ \A i \in DOMAIN items' :
                 \/ i \in DOMAIN items /\ items'[i].owner = items[i].owner
                 \/ items'[i].owner \in Calls /\ Fresh(items'[i].owner)
           /\ \A c \in Calls : Fresh(c)' => Fresh(c)
           /\ \A c \in Calls :
                 /\ slot[c] # {} => slot'[c] # {}
                 /\ slot'[c] # {} => slot[c] # {} \/ \E r \in routed : r.owner = c
                 /\ pc'[c] = "replied" => pc[c] = "replied" \/ slot[c] # {}
  <1>0. \/ UNCHANGED MP!vars \/ MP!Reader
        \/ \E c \in Calls : \/ MP!Call(c) \/ MP!Progress(c)
                             \/ MP!AbandonQueued(c) \/ MP!Abandon(c)
    BY DEF MP!Next
  <1> USE DEF MapInv, MP!TypeOK, MP!Entry, MP!InFlight, MP!Results, MP!States,
              MP!mapVars, MP!callVars, MP!history
  <1> DEFINE Keeps ==
               /\ \A i \in DOMAIN items' :
                     i \in DOMAIN items /\ items'[i].owner = items[i].owner
               /\ slot' = slot
               /\ \A c \in Calls : Fresh(c)' => Fresh(c)
               /\ \A c \in Calls :
                     pc'[c] = "replied" => pc[c] = "replied" \/ slot[c] # {}
  <1>1. ASSUME NEW c \in Calls,
               \/ MP!Call(c) \/ MP!Acquire(c) \/ MP!SendOk(c) \/ MP!SendFails(c)
               \/ MP!Receive(c) \/ MP!ReceiveClosed(c) \/ MP!Expire(c)
        PROVE  Keeps
    <2>1. UNCHANGED <<items, slot>>
      BY <1>1 DEF MP!Call, MP!Acquire, MP!SendOk, MP!SendFails, MP!Receive,
                  MP!ReceiveClosed, MP!Expire
    <2>2. CASE MP!Call(c) \/ MP!Acquire(c)
      <3>1. Fresh(c) /\ pc[c] # "replied"
        BY <2>2, MapAssumptions, MP!HeadWaits DEF Fresh, MP!Call, MP!Acquire,
           MP!ExpectedAssumption, MP!MaxIdAssumption, MP!AbandonersAssumption
      <3>2. PICK s \in {"queued", "granted"} : pc' = [pc EXCEPT ![c] = s]
        BY <2>2 DEF MP!Call, MP!Acquire
      <3>3. QED
        BY <2>1, <3>1, <3>2 DEF Fresh
    <2>3. CASE \/ MP!SendOk(c) \/ MP!SendFails(c) \/ MP!Receive(c)
               \/ MP!ReceiveClosed(c) \/ MP!Expire(c)
      <3>1. PICK s \in {"awaiting", "sendFailed", "replied", "recv", "expired"} :
               /\ pc' = [pc EXCEPT ![c] = s]
               /\ s = "replied" => slot[c] # {}
        BY <2>3 DEF MP!SendOk, MP!SendFails, MP!Receive, MP!ReceiveClosed, MP!Expire
      <3>2. QED
        BY <2>1, <3>1 DEF Fresh
    <2>4. QED
      BY <1>1, <2>2, <2>3
  <1>2. ASSUME NEW c \in Calls, MP!CancelUnsent(c) \/ MP!CancelExpired(c) PROVE Keeps
    <2>1. /\ DOMAIN items' \subseteq DOMAIN items
          /\ \A i \in DOMAIN items' : items'[i] = items[i]
          /\ slot' = slot
      BY <1>2 DEF MP!CancelUnsent, MP!CancelExpired, MP!Cancel, MP!Without
    <2>2. PICK s \in {"unsent", "timedOut", "invalid"} : pc' = [pc EXCEPT ![c] = s]
      BY <1>2 DEF MP!CancelUnsent, MP!CancelExpired, MP!Cancel, MP!Diagnosis
    <2>3. QED
      BY <2>1, <2>2 DEF Fresh
  <1>3. ASSUME NEW c \in Calls, MP!AbandonQueued(c) \/ MP!Abandon(c) PROVE Keeps
    BY <1>3 DEF Fresh, MP!AbandonQueued, MP!Abandon
  <1>4. ASSUME NEW id, NEW op, MP!TakeUndeclared(id, op) PROVE Keeps
    BY <1>4 DEF Fresh, MP!TakeUndeclared
  <1>5. ASSUME NEW id, NEW m, MP!TakeAnswer(id, m) PROVE Keeps
    BY <1>5 DEF Fresh, MP!TakeAnswer, MP!Without
  <1>6. ASSUME UNCHANGED MP!vars PROVE Keeps
    BY <1>6 DEF Fresh, MP!vars
  <1>7. ASSUME NEW c \in Calls, MP!Insert(c)
        PROVE  /\ \A i \in DOMAIN items' :
                     \/ i \in DOMAIN items /\ items'[i].owner = items[i].owner
                     \/ items'[i].owner = c
               /\ pc[c] = "granted" /\ pc' = [pc EXCEPT ![c] = "sending"] /\ slot' = slot
    BY <1>7 DEF MP!Insert, MP!Retained
  <1>8. ASSUME MP!Deliver
        PROVE  /\ UNCHANGED <<items, pc>>
               /\ \A c \in Calls :
                     /\ slot[c] # {} => slot'[c] # {}
                     /\ slot'[c] # {} => slot[c] # {} \/ \E r \in routed : r.owner = c
    <2>1. PICK r \in routed : MP!Deliver!(r)
      BY <1>8 DEF MP!Deliver
    <2>2. /\ UNCHANGED <<items, pc>>
          /\ slot' = slot \/ slot' = [slot EXCEPT ![r.owner] = {r.msg}]
      BY <2>1
    <2>3. QED
      BY <2>2
  <1> HIDE DEF Keeps
  <1>9. Keeps \/ (\E c \in Calls : MP!Insert(c)) \/ MP!Deliver
    <2>1. CASE MP!Reader
      BY <1>4, <1>5, <2>1, Zenon DEF MP!Reader
    <2>2. ASSUME NEW c \in Calls, \/ MP!Call(c) \/ MP!Progress(c)
                                  \/ MP!AbandonQueued(c) \/ MP!Abandon(c)
          PROVE  Keeps \/ \E d \in Calls : MP!Insert(d)
      BY <1>1, <1>2, <1>3, <2>2, Zenon DEF MP!Progress
    <2>3. CASE UNCHANGED MP!vars
      BY <1>6, <2>3
    <2>4. QED
      BY <1>0, <2>1, <2>2, <2>3, Zenon
  <1>10. QED
    BY <1>7, <1>8, <1>9 DEF Fresh, Keeps

\* A reply has an author from the moment the reader takes it, and none before:
\* calls without an entry yet, and calls that still have theirs, have no reply.
Custody ==
    /\ \A i \in DOMAIN items : answeredBy[items[i].owner] = 0
    /\ \A c \in Calls : Fresh(c) => answeredBy[c] = 0
    /\ \A c \in Calls :
          slot[c] # {} \/ (\E r \in routed : r.owner = c) => answeredBy[c] # 0
    /\ \A c \in Calls : pc[c] = "replied" => slot[c] # {}

\* The steps that move a message; the others leave every message where it is.
Unmoved ==
    /\ UNCHANGED <<read, published, answeredBy, lost>>
    /\ InHand' = InHand
    /\ routed' \subseteq routed
    /\ \/ log' = log
       \/ \E f \in Frames : PeerSends(f)

LEMMA Moves == LinkTypeOK /\ [Next]_vars => Unmoved \/ ReadFrame \/ TakeAnswer \/ TrySend \/ Abort
  <1> SUFFICES ASSUME LinkTypeOK, [Next]_vars,
                      ~(ReadFrame \/ TakeAnswer \/ TrySend \/ Abort)
               PROVE  Unmoved
    OBVIOUS
  <1> USE DEF Unmoved, InHand, mapVars, readerVars, endVars, Map!mapVars
  <1>1. ASSUME NEW c \in Calls, Call(c) PROVE Unmoved
    BY <1>1 DEF Call, Map!Call
  <1>2. ASSUME NEW c \in Calls, RequestStep(c) PROVE Unmoved
    BY <1>2 DEF RequestStep, Map!Acquire, Map!Insert, Map!CancelUnsent, Map!Cancel,
                Map!Receive, Map!ReceiveClosed, Map!Expire, Map!CancelExpired
  <1>3. ASSUME NEW c \in Calls, \/ LockSink(c) \/ RefuseSend(c) \/ FinishSend(c)
                                \/ BreakSend(c) \/ Abandon(c)
        PROVE  Unmoved
    BY <1>3 DEF LockSink, RefuseSend, FinishSend, BreakSend, Abandon, Map!SendOk,
                Map!SendFails, Map!Abandon, Map!AbandonQueued
  <1>4. CASE TakeUndeclared \/ TakeUnknown
    BY <1>4 DEF TakeUndeclared, AfterUndeclared, TakeUnknown, Map!TakeUndeclared
  <1>5. CASE Complete
    BY <1>5 DEF Complete, Map!Deliver
  <1>6. CASE Application \/ PeerStalls
    BY <1>6 DEF Application, Receive, DropReceiver, DropLink, PeerStalls
  <1>7. ASSUME NEW f \in Frames, PeerSends(f) PROVE Unmoved
    BY <1>7 DEF PeerSends
  <1>8. CASE UNCHANGED vars
    BY <1>8 DEF vars
  <1>9. QED
    BY <1>1, <1>2, <1>3, <1>4, <1>5, <1>6, <1>7, <1>8 DEF Next, Reader, Requesting, Peer

LEMMA InitCustody == Init => Custody
  BY DEF Init, Map!Init, Custody, Fresh

LEMMA NextCustody == LinkTypeOK /\ MapInv /\ Custody /\ [Next]_vars => Custody'
  <1> SUFFICES ASSUME LinkTypeOK, MapInv, Custody, [Next]_vars PROVE Custody'
    OBVIOUS
  <1>1. [MP!Next]_(MP!vars)
    BY SameStep
  <1>2. items \in [DOMAIN items -> MP!Entry] /\ routed \in SUBSET [owner : Calls, msg : MP!Message]
    BY DEF MapInv, MP!TypeOK
  <1>3. \A i \in DOMAIN items : items[i].owner \in Calls
    BY <1>2 DEF MP!Entry
  <1>4. ASSUME answeredBy' = answeredBy, routed' \subseteq routed PROVE Custody'
    BY <1>1, <1>3, <1>4, MapSteps DEF Custody, Fresh
  <1>5. CASE Unmoved
    BY <1>4, <1>5 DEF Unmoved
  <1>6. CASE ReadFrame \/ TrySend \/ Abort
    BY <1>4, <1>6 DEF ReadFrame, TrySend, Abort, mapVars
  <1>7. CASE TakeAnswer
    <2>1. /\ reader = "decoded"
          /\ answeredBy' = [answeredBy EXCEPT ![items[log[read].id].owner] = read]
      BY <1>7 DEF TakeAnswer
    <2>2. read # 0 /\ answeredBy \in [Calls -> 0 .. read]
      BY <2>1 DEF LinkTypeOK
    <2>3. PICK a : Map!TakeAnswer(log[read].id, [op |-> log[read].op, answers |-> a])
      BY <1>7 DEF TakeAnswer
    <2>4. /\ log[read].id \in DOMAIN items
          /\ items' = [i \in DOMAIN items \ {log[read].id} |-> items[i]]
          /\ \A r \in routed' : r.owner = items[log[read].id].owner
          /\ UNCHANGED <<pc, slot>>
      BY <2>3 DEF Map!TakeAnswer, Map!Without, Map!callVars
    <2>5. /\ ~Fresh(items[log[read].id].owner)
          /\ \A i \in DOMAIN items \ {log[read].id} :
                items[i].owner # items[log[read].id].owner
      BY <1>3, <2>4 DEF MapInv, MP!Ownership, MP!EntryOwner, MP!InFlight, Fresh
    <2>6. QED
      BY <1>3, <2>1, <2>2, <2>4, <2>5 DEF Custody, Fresh
  <1>8. QED
    BY <1>5, <1>6, <1>7, Moves

LEMMA CustodyInvariant == Spec => [](LinkTypeOK /\ MapInv /\ Custody)
  BY MapInvariant, InitCustody, NextCustody, PTL DEF Spec

LEMMA InitAccounted == Init => EveryMessageAccounted
  <1> SUFFICES ASSUME Init PROVE EveryMessageAccounted
    OBVIOUS
  <1>1. Published = {} /\ Answering = {} /\ InHand = {} /\ lost = {} /\ read = 0
    <2>1. Len(published) = 0
      BY EmptySeq DEF Init
    <2>2. QED
      BY <2>1 DEF Init, Published, Answering, InHand
  <1>2. QED
    BY <1>1 DEF EveryMessageAccounted

LEMMA NextAccounted ==
    LinkTypeOK /\ MapInv /\ Custody /\ EveryMessageAccounted /\ [Next]_vars
        => EveryMessageAccounted'
  <1> SUFFICES ASSUME LinkTypeOK, MapInv, Custody, EveryMessageAccounted, [Next]_vars
               PROVE  EveryMessageAccounted'
    OBVIOUS
  <1> DEFINE Msgs == {n \in 1 .. read : log[n].kind = "message"}
  <1>0. Published \cup Answering \cup lost \cup InHand = Msgs
    BY DEF EveryMessageAccounted
  <1>1. CASE Unmoved
    <2>1. /\ Published' = Published /\ Answering' = Answering
          /\ lost' = lost /\ InHand' = InHand /\ read' = read
      BY <1>1 DEF Unmoved, Published, Answering
    <2>2. \A n \in 1 .. read : log'[n] = log[n]
      <3>1. CASE log' = log
        BY <3>1
      <3>2. CASE \E f \in Frames : PeerSends(f)
        BY <3>2, AppendProperties DEF PeerSends, LinkTypeOK
      <3>3. QED
        BY <1>1, <3>1, <3>2 DEF Unmoved
    <2>3. Msgs' = Msgs
      BY <2>1, <2>2
    <2>4. QED
      BY <2>1, <2>3 DEF EveryMessageAccounted
  <1>2. CASE ReadFrame
    <2>1. /\ InHand = {} /\ log' = log /\ read' = read + 1 /\ read \in Nat
          /\ reader' = AfterReading(log[read + 1]) /\ read + 1 \in 1 .. Len(log)
          /\ Published' = Published /\ Answering' = Answering /\ lost' = lost
      BY <1>2 DEF ReadFrame, InHand, LinkTypeOK, Published, Answering
    <2>2. log[read + 1] \in Frame
      BY <2>1, ElementOfSeq, LinkAssumption DEF LinkTypeOK
    <2>3. InHand' = IF log[read + 1].kind = "message" THEN {read + 1} ELSE {}
      BY <2>1, <2>2 DEF InHand, AfterReading, AfterMalformed, Frame
    <2>4. Msgs' = Msgs \cup InHand' /\ read + 1 \notin Msgs
      BY <2>1, <2>3
    <2>5. QED
      BY <1>0, <2>1, <2>3, <2>4 DEF EveryMessageAccounted
  <1>3. CASE TakeAnswer
    <2>1. /\ reader = "decoded" /\ reader' = "completing"
          /\ answeredBy' = [answeredBy EXCEPT ![items[log[read].id].owner] = read]
          /\ UNCHANGED <<log, read, published, lost>>
      BY <1>3 DEF TakeAnswer
    <2>2. PICK a : Map!TakeAnswer(log[read].id, [op |-> log[read].op, answers |-> a])
      BY <1>3 DEF TakeAnswer
    <2>3. log[read].id \in DOMAIN items
      BY <2>2 DEF Map!TakeAnswer
    <2>4. items[log[read].id].owner \in Calls /\ answeredBy[items[log[read].id].owner] = 0
      BY <2>3 DEF Custody, MapInv, MP!TypeOK, MP!Entry
    <2>5. answeredBy \in [Calls -> 0 .. read] /\ read # 0 /\ read \in Nat
      BY <2>1 DEF LinkTypeOK
    <2>6. Answering' = Answering \cup {read}
      <3>1. PICK c \in Calls : answeredBy[c] = 0 /\ answeredBy' = [answeredBy EXCEPT ![c] = read]
        BY <2>1, <2>4
      <3>2. QED
        BY <2>5, <3>1 DEF Answering
    <2>7. InHand = {read} /\ InHand' = {} /\ Published' = Published /\ Msgs' = Msgs
      BY <2>1 DEF InHand, Published
    <2>8. QED
      BY <2>1, <2>6, <2>7 DEF EveryMessageAccounted
  <1>4. CASE TrySend
    <2>1. /\ InHand = {read} /\ InHand' = {} /\ Answering' = Answering /\ Msgs' = Msgs
      BY <1>4 DEF TrySend, InHand, Answering
    <2>2. CASE HasRoom
      <3>1. published' = Append(published, read) /\ lost' = lost
        BY <1>4, <2>2 DEF TrySend
      <3>2. published \in Seq(1 .. read) /\ read \in 1 .. read
        BY <1>4 DEF LinkTypeOK, TrySend
      <3>3. Published' = Published \cup {read}
        BY <3>1, <3>2, AppendProperties, LenProperties DEF Published
      <3>4. QED
        BY <2>1, <3>1, <3>3 DEF EveryMessageAccounted
    <2>3. CASE ~HasRoom
      <3>1. Published' = Published /\ lost' = lost \cup {read}
        BY <1>4, <2>3 DEF TrySend, Published
      <3>2. QED
        BY <2>1, <3>1 DEF EveryMessageAccounted
    <2>4. QED
      BY <2>2, <2>3
  <1>5. CASE Abort
    <2>1. /\ Published' = Published /\ Answering' = Answering /\ Msgs' = Msgs
          /\ InHand' = {} /\ lost' = lost \cup InHand
      BY <1>5 DEF Abort, Abortable, Published, Answering, InHand
    <2>2. QED
      BY <2>1 DEF EveryMessageAccounted
  <1>6. QED
    BY <1>1, <1>2, <1>3, <1>4, <1>5, Moves

\* No message the reader has taken off the stream disappears or is used twice:
\* for every channel, every order of requests and every peer.
THEOREM MessagesAccounted == Spec => []EveryMessageAccounted
  BY CustodyInvariant, InitAccounted, NextAccounted, PTL DEF Spec

-----------------------------------------------------------------------------
(* The channel *)

\* The end of a sequence that grows at its end, and loses its head.
LEMMA Suffixes ==
    ASSUME NEW S, NEW s \in Seq(S), NEW k \in 0 .. Len(s)
    PROVE  /\ \A x \in S : Append(SubSeq(s, k + 1, Len(s)), x)
                             = SubSeq(Append(s, x), k + 1, Len(s) + 1)
           /\ SubSeq(s, k + 1, Len(s)) # << >> =>
                 k < Len(s) /\ Tail(SubSeq(s, k + 1, Len(s))) = SubSeq(s, k + 2, Len(s))
  <1>n. Len(s) \in Nat
    BY LenProperties
  <1>1. /\ SubSeq(s, k + 1, Len(s)) \in Seq(S)
        /\ Len(SubSeq(s, k + 1, Len(s))) = Len(s) - k
        /\ \A i \in 1 .. Len(s) - k : SubSeq(s, k + 1, Len(s))[i] = s[k + i]
    <2>1. k + 1 \in 1 .. Len(s) + 1 /\ Len(s) \in 0 .. Len(s) /\ k + 1 <= Len(s) + 1
      BY <1>n
    <2>2. /\ SubSeq(s, k + 1, Len(s)) \in Seq(S)
          /\ Len(SubSeq(s, k + 1, Len(s))) = Len(s) - (k + 1) + 1
          /\ \A i \in 1 .. Len(s) - (k + 1) + 1 : SubSeq(s, k + 1, Len(s))[i] = s[k + 1 + i - 1]
      BY <2>1, FQ!PartOfQueue
    <2>3. Len(s) - (k + 1) + 1 = Len(s) - k /\ \A i \in 1 .. Len(s) - k : k + 1 + i - 1 = k + i
      BY <1>n
    <2>4. QED
      BY <2>2, <2>3, Zenon
  <1>2. ASSUME NEW x \in S
        PROVE  Append(SubSeq(s, k + 1, Len(s)), x) = SubSeq(Append(s, x), k + 1, Len(s) + 1)
    <2>1. PICK a : a = SubSeq(s, k + 1, Len(s))
      OBVIOUS
    <2>2. PICK t : t = Append(s, x)
      OBVIOUS
    <2>3. /\ t \in Seq(S) /\ Len(t) = Len(s) + 1 /\ t[Len(s) + 1] = x
          /\ \A i \in 1 .. Len(s) : t[i] = s[i]
      BY <2>2, AppendProperties
    <2>4. /\ SubSeq(t, k + 1, Len(s) + 1) \in Seq(S)
          /\ Len(SubSeq(t, k + 1, Len(s) + 1)) = Len(s) + 1 - k
          /\ \A i \in 1 .. Len(s) + 1 - k : SubSeq(t, k + 1, Len(s) + 1)[i] = t[k + i]
      <3>1. k + 1 \in 1 .. Len(t) + 1 /\ Len(s) + 1 \in 0 .. Len(t) /\ k + 1 <= Len(s) + 1 + 1
        BY <1>n, <2>3
      <3>2. /\ SubSeq(t, k + 1, Len(s) + 1) \in Seq(S)
            /\ Len(SubSeq(t, k + 1, Len(s) + 1)) = Len(s) + 1 - (k + 1) + 1
            /\ \A i \in 1 .. Len(s) + 1 - (k + 1) + 1 :
                  SubSeq(t, k + 1, Len(s) + 1)[i] = t[k + 1 + i - 1]
        BY <2>3, <3>1, FQ!PartOfQueue
      <3>3. /\ Len(s) + 1 - (k + 1) + 1 = Len(s) + 1 - k
            /\ \A i \in 1 .. Len(s) + 1 - k : k + 1 + i - 1 = k + i
        BY <1>n
      <3>4. QED
        BY <3>2, <3>3, Zenon
    <2>5. PICK b : b = SubSeq(t, k + 1, Len(s) + 1)
      OBVIOUS
    <2>6. /\ a \in Seq(S) /\ Len(a) = Len(s) - k
          /\ \A i \in 1 .. Len(s) - k : a[i] = s[k + i]
      BY <1>1, <2>1
    <2>7. /\ Append(a, x) \in Seq(S) /\ Len(Append(a, x)) = Len(s) - k + 1
          /\ \A i \in 1 .. Len(s) - k : Append(a, x)[i] = a[i]
          /\ Append(a, x)[Len(s) - k + 1] = x
      BY <2>6, AppendProperties
    <2>8. /\ b \in Seq(S) /\ Len(b) = Len(s) + 1 - k
          /\ \A i \in 1 .. Len(s) + 1 - k : b[i] = t[k + i]
      BY <2>4, <2>5, Zenon
    <2>9. \A i \in 1 .. Len(s) - k + 1 : Append(a, x)[i] = b[i]
      BY <1>n, <2>3, <2>6, <2>7, <2>8
    <2>10. Append(a, x) = b
      BY <1>n, <2>7, <2>8, <2>9, SeqEqual
    <2>11. QED
      BY <2>1, <2>2, <2>5, <2>10, Zenon
  <1>3. ASSUME SubSeq(s, k + 1, Len(s)) # << >>
        PROVE  k < Len(s) /\ Tail(SubSeq(s, k + 1, Len(s))) = SubSeq(s, k + 2, Len(s))
    <2>1. PICK a : a = SubSeq(s, k + 1, Len(s))
      OBVIOUS
    <2>2. /\ a \in Seq(S) /\ Len(a) = Len(s) - k /\ a # << >>
          /\ \A i \in 1 .. Len(s) - k : a[i] = s[k + i]
      BY <1>1, <1>3, <2>1
    <2>3. k < Len(s)
      BY <1>n, <2>2, EmptySeq
    <2>4. /\ Tail(a) \in Seq(S) /\ Len(Tail(a)) = Len(s) - k - 1
          /\ \A i \in 1 .. Len(s) - k - 1 : Tail(a)[i] = s[k + 1 + i]
      BY <1>n, <2>2, <2>3, HeadTailProperties
    <2>5. /\ SubSeq(s, k + 2, Len(s)) \in Seq(S)
          /\ Len(SubSeq(s, k + 2, Len(s))) = Len(s) - k - 1
          /\ \A i \in 1 .. Len(s) - k - 1 : SubSeq(s, k + 2, Len(s))[i] = s[k + 1 + i]
      <3>1. k + 2 \in 1 .. Len(s) + 1 /\ Len(s) \in 0 .. Len(s) /\ k + 2 <= Len(s) + 1
        BY <1>n, <2>3
      <3>2. /\ SubSeq(s, k + 2, Len(s)) \in Seq(S)
            /\ Len(SubSeq(s, k + 2, Len(s))) = Len(s) - (k + 2) + 1
            /\ \A i \in 1 .. Len(s) - (k + 2) + 1 :
                  SubSeq(s, k + 2, Len(s))[i] = s[k + 2 + i - 1]
        BY <3>1, FQ!PartOfQueue
      <3>3. /\ Len(s) - (k + 2) + 1 = Len(s) - k - 1
            /\ \A i \in 1 .. Len(s) - k - 1 : k + 2 + i - 1 = k + 1 + i
        BY <1>n
      <3>4. QED
        BY <3>2, <3>3, Zenon
    <2>6. PICK b : b = SubSeq(s, k + 2, Len(s))
      OBVIOUS
    <2>7. Tail(a) = b
      BY <2>4, <2>5, <2>6, SeqEqual
    <2>8. QED
      BY <2>1, <2>3, <2>6, <2>7, Zenon
  <1>4. QED
    BY <1>2, <1>3

LEMMA InitInOrder == Init => ChannelInOrder
  <1> SUFFICES ASSUME Init PROVE ChannelInOrder
    OBVIOUS
  <1>1. channel = << >> /\ published = << >> /\ Len(channel) = 0 /\ Len(published) = 0
    BY EmptySeq DEF Init
  <1>2. SubSeq(published, 1, 0) = << >>
    <2>1. published \in Seq({}) /\ 1 \in 1 .. Len(published) + 1 /\ 0 \in 0 .. Len(published)
      BY <1>1, EmptySeq
    <2>2. SubSeq(published, 1, 0) \in Seq({}) /\ Len(SubSeq(published, 1, 0)) = 0
      BY <2>1, FQ!PartOfQueue
    <2>3. QED
      BY <2>2, EmptySeq
  <1>3. QED
    BY <1>1, <1>2, LinkAssumption DEF ChannelInOrder

LEMMA NextInOrder ==
    LinkTypeOK /\ EveryMessageAccounted /\ ChannelInOrder /\ [Next]_vars => ChannelInOrder'
  <1> SUFFICES ASSUME LinkTypeOK, EveryMessageAccounted, ChannelInOrder, [Next]_vars
               PROVE  ChannelInOrder'
    OBVIOUS
  <1>1. CASE TrySend /\ HasRoom
    <2>1. /\ channel' = Append(channel, read) /\ published' = Append(published, read)
          /\ reader = "unmatched" /\ receiver /\ Len(channel) < ChannelCapacity
          /\ receiver' = receiver
      BY <1>1 DEF TrySend, HasRoom, endVars
    <2>2. /\ channel \in Seq(1 .. read) /\ published \in Seq(1 .. read) /\ read \in 1 .. read
      BY <2>1 DEF LinkTypeOK
    <2>3. Len(channel') <= ChannelCapacity
      BY <2>1, <2>2, AppendProperties, LenProperties, LinkAssumption
    <2>4. \A k \in 1 .. Len(published) : published[k] < read
      <3>1. read \notin Published
        BY <2>1 DEF EveryMessageAccounted, InHand
      <3>2. \A k \in 1 .. Len(published) : published[k] \in 1 .. read /\ published[k] # read
        BY <2>2, <3>1, ElementOfSeq DEF Published
      <3>3. QED
        BY <2>2, <3>2
    <2>5. \A j, k \in 1 .. Len(published') : j < k => published'[j] < published'[k]
      <3>1. /\ Len(published') = Len(published) + 1 /\ published'[Len(published) + 1] = read
            /\ \A k \in 1 .. Len(published) : published'[k] = published[k]
            /\ Len(published) \in Nat
        BY <2>1, <2>2, AppendProperties, LenProperties
      <3>2. QED
        BY <2>4, <3>1 DEF ChannelInOrder
    <2>6. \E k \in 0 .. Len(published') : channel' = SubSeq(published', k + 1, Len(published'))
      <3>1. PICK k \in 0 .. Len(published) : channel = SubSeq(published, k + 1, Len(published))
        BY <2>1 DEF ChannelInOrder
      <3>2. channel' = SubSeq(published', k + 1, Len(published) + 1)
        BY <2>1, <2>2, <3>1, Suffixes
      <3>3. Len(published') = Len(published) + 1 /\ Len(published) \in Nat
        BY <2>1, <2>2, AppendProperties, LenProperties
      <3>4. k \in 0 .. Len(published')
        BY <3>3
      <3>5. QED
        BY <3>2, <3>3, <3>4
    <2>7. QED
      BY <2>3, <2>5, <2>6 DEF ChannelInOrder
  <1>2. CASE Receive
    <2>1. /\ channel # << >> /\ channel' = Tail(channel)
          /\ published' = published /\ receiver /\ receiver'
      BY <1>2 DEF Receive, endVars
    <2>2. channel \in Seq(1 .. read) /\ published \in Seq(1 .. read)
      BY DEF LinkTypeOK
    <2>3. Len(channel') <= ChannelCapacity
      BY <2>1, <2>2, HeadTailProperties, LenProperties, LinkAssumption DEF ChannelInOrder
    <2>4. PICK k \in 0 .. Len(published) : channel = SubSeq(published, k + 1, Len(published))
      BY <2>1 DEF ChannelInOrder
    <2>5. k < Len(published) /\ channel' = SubSeq(published, k + 2, Len(published))
      BY <2>1, <2>2, <2>4, Suffixes
    <2>6. k + 1 \in 0 .. Len(published) /\ (k + 1) + 1 = k + 2
      BY <2>2, <2>5, LenProperties
    <2>7. QED
      BY <2>1, <2>3, <2>5, <2>6 DEF ChannelInOrder
  <1>3. CASE DropReceiver
    <2>1. channel' = << >> /\ Len(channel') = 0 /\ published' = published /\ ~receiver'
      BY <1>3, EmptySeq DEF DropReceiver
    <2>2. QED
      BY <2>1, LinkAssumption DEF ChannelInOrder
  <1>4. CASE ~(TrySend /\ HasRoom) /\ ~Receive /\ ~DropReceiver
    <2>1. UNCHANGED <<channel, published, receiver>>
      BY <1>4, Zenon DEF Next, Reader, Requesting, Application, Peer, Call, RequestStep, LockSink,
         RefuseSend, FinishSend, BreakSend, Abandon, ReadFrame, TakeAnswer, TakeUndeclared,
         TakeUnknown, Complete, TrySend, Abort, DropLink, PeerStalls, PeerSends, vars,
         readerVars, endVars
    <2>2. QED
      BY <2>1 DEF ChannelInOrder
  <1>5. QED
    BY <1>1, <1>2, <1>3, <1>4

\* The application receives, in order, what a bounded channel let in, for every
\* capacity and however the reader fares in between.
THEOREM ApplicationInOrder == Spec => []ChannelInOrder
  BY CustodyInvariant, MessagesAccounted, InitInOrder, NextInOrder, PTL DEF Spec

-----------------------------------------------------------------------------
(* The typed methods *)

LEMMA OneMember == ASSUME NEW S, S # {} PROVE (CHOOSE m \in S : TRUE) \in S
  OBVIOUS

\* The last arm of the typed methods is dead code: nothing the peer sends makes
\* a call return InvalidResponse from there.
THEOREM LastArmNeverRuns == Spec => []LastArmUnreachable
  <1>1. Spec => []MP!ReplyIsDeclaredAndOwn
    BY ImplementsMap, MapAssumptions, MP!RepliesAreOwn
    DEF MP!ExpectedAssumption, MP!MaxIdAssumption, MP!AbandonersAssumption
  <1>2. MapInv /\ Custody /\ MP!ReplyIsDeclaredAndOwn => LastArmUnreachable
    <2> SUFFICES ASSUME Custody, MP!ReplyIsDeclaredAndOwn,
                        NEW c \in Calls, pc[c] = "replied"
                 PROVE  "InvalidResponse" \notin Outcomes(c)
      BY DEF LastArmUnreachable
    <2>1. (CHOOSE m \in slot[c] : TRUE) \in slot[c]
      BY OneMember DEF Custody
    <2>2. Reply(c) \in Declared[c]
      BY <2>1 DEF Reply, MP!ReplyIsDeclaredAndOwn
    <2>3. PICK k \in 1 .. Len(Request[c].replies) : Reply(c) = Request[c].replies[k]
      BY <2>2 DEF Declared
    <2>4. CASE Request[c].method = "request_infallible"
      <3>1. k = 1
        BY <2>3, <2>4, RequestAssumption
      <3>2. Outcomes(c) = {"accepted", "Streamable"}
        BY <2>3, <2>4, <3>1 DEF Outcomes, InfallibleOutcomes, Parsed
      <3>3. QED
        BY <3>2
    <2>5. CASE Request[c].method = "request_fallible"
      <3>1. k = 1 \/ k = 2
        BY <2>3, <2>5, RequestAssumption
      <3>2. \/ Outcomes(c) = {"accepted", "Streamable"}
            \/ Outcomes(c) = {"rejected", "Streamable"}
        BY <2>3, <2>5, <3>1 DEF Outcomes, FallibleOutcomes, Parsed
      <3>3. QED
        BY <3>2
    <2>6. CASE Request[c].method \notin {"request_infallible", "request_fallible"}
      BY <2>6 DEF Outcomes, RawOutcomes
    <2>7. QED
      BY <2>4, <2>5, <2>6
  <1>3. QED
    BY CustodyInvariant, <1>1, <1>2, PTL

-----------------------------------------------------------------------------
(* The link implements LinkService *)

\* A call's place, as the service sees it.
StateAt(s) == CASE s = "idle" -> "new"
                [] s = "replied" -> "answered"
                [] s \in {"recv", "unsent", "timedOut", "invalid", "abandoned"} -> "failed"
                [] OTHER -> "asked"

SeenState == [c \in Calls |-> StateAt(pc[c])]

LEMMA SameState == ServiceState = SeenState /\ ServiceState' = SeenState'
  <1>1. Map!Results \ {"replied"} = {"recv", "unsent", "timedOut", "invalid", "abandoned"}
    BY DEF Map!Results
  <1>2. ServiceState = SeenState
    BY <1>1, Zenon DEF ServiceState, SeenState, StateAt
  <1>3. ServiceState' = SeenState'
    BY <1>1, Zenon DEF ServiceState, SeenState, StateAt
  <1>4. QED
    BY <1>2, <1>3

LEMMA SeenInit == Init => Service!Init
  BY SameState DEF ServiceState, Init, Map!Init, Service!Init, SeenState, StateAt

\* A step of one call, as the service sees it.
LEMMA SeenStep ==
    ASSUME NEW c \in Calls, NEW s, pc' = [pc EXCEPT ![c] = s], pc \in [Calls -> MP!States],
           UNCHANGED <<log, answeredBy, published>>
    PROVE  /\ pc[c] = "idle" /\ s = "queued" => Service!Ask(c)
           /\ StateAt(pc[c]) = "asked" /\ StateAt(s) = "failed" => Service!Fail(c)
           /\ StateAt(pc[c]) = "asked" /\ s = "replied" /\ answeredBy[c] # 0 => Service!Answer(c)
           /\ StateAt(pc[c]) = StateAt(s) => UNCHANGED Service!vars
  <1>1. SeenState' = [SeenState EXCEPT ![c] = StateAt(s)]
    BY DEF SeenState
  <1>2. SeenState[c] = StateAt(pc[c])
    BY DEF SeenState
  <1>s. ServiceState = SeenState /\ ServiceState' = SeenState'
    BY SameState
  <1>3. pc[c] = "idle" /\ s = "queued" => Service!Ask(c)
    BY <1>1, <1>2, <1>s DEF ServiceState, Service!Ask, StateAt
  <1>4. StateAt(pc[c]) = "asked" /\ StateAt(s) = "failed" => Service!Fail(c)
    BY <1>1, <1>2, <1>s DEF ServiceState, Service!Fail
  <1>5. StateAt(pc[c]) = "asked" /\ s = "replied" /\ answeredBy[c] # 0 => Service!Answer(c)
    BY <1>1, <1>2, <1>s DEF ServiceState, Service!Answer, StateAt
  <1>6. StateAt(pc[c]) = StateAt(s) => UNCHANGED Service!vars
    <2>1. StateAt(pc[c]) = StateAt(s) => SeenState' = SeenState
      BY <1>1, <1>2 DEF SeenState
    <2>2. QED
      BY <1>s, <2>1 DEF ServiceState, Service!vars
  <1>7. QED
    BY <1>3, <1>4, <1>5, <1>6

LEMMA SeenNext ==
    LinkTypeOK /\ MapInv /\ Custody /\ EveryMessageAccounted
        /\ ChannelInOrder' /\ [Next]_vars
        => [Service!Next]_(Service!vars)
  <1> SUFFICES ASSUME LinkTypeOK, MapInv, Custody, EveryMessageAccounted, ChannelInOrder',
                      [Next]_vars
               PROVE  Service!Next \/ UNCHANGED Service!vars
    OBVIOUS
  <1>s. ServiceState = SeenState /\ ServiceState' = SeenState'
    BY SameState
  <1>t. pc \in [Calls -> MP!States] /\ items \in [DOMAIN items -> MP!Entry]
    BY DEF MapInv, MP!TypeOK
  <1>q. ASSUME UNCHANGED <<pc, log, answeredBy, published>> PROVE UNCHANGED Service!vars
    BY <1>s, <1>q DEF ServiceState, SeenState, Service!vars
  <1> USE DEF readerVars, endVars
  <1>1. ASSUME NEW c \in Calls, Call(c) PROVE Service!Next
    <2>1. pc[c] = "idle" /\ pc' = [pc EXCEPT ![c] = "queued"]
      BY <1>1 DEF Call, Map!Call
    <2>2. Service!Ask(c)
      BY <1>t, <1>1, <2>1, SeenStep DEF Call
    <2>3. QED
      BY <2>2 DEF Service!Next
  <1>2. ASSUME NEW c \in Calls, UNCHANGED <<log, answeredBy, published>>,
               \/ Map!Acquire(c) \/ Map!Insert(c) \/ Map!SendOk(c) \/ Map!SendFails(c)
               \/ Map!Expire(c)
        PROVE  UNCHANGED Service!vars
    <2>1. PICK s \in {"granted", "sending", "awaiting", "sendFailed", "expired"} :
             pc' = [pc EXCEPT ![c] = s]
      BY <1>2 DEF Map!Acquire, Map!Insert, Map!SendOk, Map!SendFails, Map!Expire
    <2>2. pc[c] \in {"queued", "granted", "sending", "awaiting"}
      <3>1. CASE Map!Acquire(c)
        BY <3>1, MapAssumptions, MP!HeadWaits DEF MapInv, Map!Acquire,
           MP!ExpectedAssumption, MP!MaxIdAssumption, MP!AbandonersAssumption
      <3>2. QED
        BY <1>2, <3>1 DEF Map!Insert, Map!SendOk, Map!SendFails, Map!Expire
    <2>3. StateAt(pc[c]) = "asked" /\ StateAt(s) = "asked"
      BY <2>2 DEF StateAt
    <2>4. QED
      BY <1>t, <1>2, <2>1, <2>3, SeenStep
  <1>3. ASSUME NEW c \in Calls, UNCHANGED <<log, answeredBy, published>>,
               \/ Map!CancelUnsent(c) \/ Map!CancelExpired(c) \/ Map!ReceiveClosed(c)
               \/ Map!AbandonQueued(c) \/ Map!Abandon(c)
        PROVE  Service!Next
    <2>1. PICK s \in {"unsent", "timedOut", "invalid", "recv", "abandoned"} :
             pc' = [pc EXCEPT ![c] = s]
      BY <1>3 DEF Map!CancelUnsent, Map!CancelExpired, Map!Cancel, Map!Diagnosis,
         Map!ReceiveClosed, Map!AbandonQueued, Map!Abandon
    <2>2. pc[c] \in {"queued", "granted", "sending", "sendFailed", "awaiting", "expired"}
      <3>1. CASE Map!AbandonQueued(c)
        BY <3>1 DEF MapInv, MP!Shape, Map!AbandonQueued
      <3>2. QED
        BY <1>3, <3>1 DEF Map!CancelUnsent, Map!CancelExpired, Map!ReceiveClosed,
           Map!Abandon, Map!InFlight
    <2>3. StateAt(pc[c]) = "asked" /\ StateAt(s) = "failed"
      BY <2>2 DEF StateAt
    <2>4. Service!Fail(c)
      BY <1>t, <1>3, <2>1, <2>3, SeenStep
    <2>5. QED
      BY <2>4 DEF Service!Next
  <1>4. ASSUME NEW c \in Calls, UNCHANGED <<log, answeredBy, published>>, Map!Receive(c)
        PROVE  Service!Next
    <2>1. pc[c] = "awaiting" /\ slot[c] # {} /\ pc' = [pc EXCEPT ![c] = "replied"]
      BY <1>4 DEF Map!Receive
    <2>2. answeredBy[c] # 0 /\ StateAt(pc[c]) = "asked"
      BY <2>1 DEF Custody, StateAt
    <2>3. Service!Answer(c)
      BY <1>t, <1>4, <2>1, <2>2, SeenStep
    <2>4. QED
      BY <2>3 DEF Service!Next
  <1>5. ASSUME NEW c \in Calls, RequestStep(c) PROVE Service!Next \/ UNCHANGED Service!vars
    BY <1>2, <1>3, <1>4, <1>5 DEF RequestStep
  <1>6. ASSUME NEW c \in Calls, RefuseSend(c) \/ FinishSend(c) \/ BreakSend(c)
        PROVE  UNCHANGED Service!vars
    BY <1>2, <1>6 DEF RefuseSend, FinishSend, BreakSend
  <1>7. ASSUME NEW c \in Calls, Abandon(c) PROVE Service!Next
    BY <1>3, <1>7 DEF Abandon
  <1>8. ASSUME NEW c \in Calls, LockSink(c) PROVE UNCHANGED Service!vars
    BY <1>q, <1>8 DEF LockSink, mapVars
  <1>9. ASSUME ReadFrame \/ TakeUnknown \/ Abort PROVE UNCHANGED Service!vars
    BY <1>q, <1>9 DEF ReadFrame, TakeUnknown, Abort, mapVars
  <1>10. ASSUME TakeUndeclared \/ Complete PROVE UNCHANGED Service!vars
    BY <1>q, <1>10 DEF TakeUndeclared, Complete, Map!TakeUndeclared, Map!Deliver, Map!callVars
  <1>11. ASSUME Application \/ PeerStalls PROVE UNCHANGED Service!vars
    BY <1>q, <1>11 DEF Application, Receive, DropReceiver, DropLink, PeerStalls, mapVars
  <1>12. ASSUME UNCHANGED vars PROVE UNCHANGED Service!vars
    BY <1>q, <1>12 DEF vars, mapVars
  <1>13. ASSUME NEW f \in Frames, PeerSends(f) PROVE Service!Next
    <2>1. log' = Append(log, f) /\ UNCHANGED <<pc, answeredBy, published>>
      BY <1>13 DEF PeerSends, mapVars
    <2>2. SeenState' = SeenState
      BY <2>1 DEF SeenState
    <2>3. Service!Send(f)
      BY <1>s, <2>1, <2>2 DEF ServiceState, Service!Send
    <2>4. QED
      BY <2>3 DEF Service!Next
  <1>14. ASSUME reader \in {"decoded", "unmatched"}
         PROVE  /\ read \in 1 .. Len(log) /\ log[read] \in {f \in Frames : f.kind = "message"}
                /\ Service!Unused(read)
    <2>1. read \in 1 .. Len(log) /\ log[read] \in {f \in Frames : f.kind = "message"}
      BY <1>14, ElementOfSeq DEF LinkTypeOK
    <2>2. read \notin Answering /\ read \notin Published /\ read # 0
      BY <1>14, <2>1 DEF EveryMessageAccounted, InHand
    <2>3. QED
      BY <2>1, <2>2 DEF Answering, Published, Service!Unused
  <1>15. ASSUME TakeAnswer PROVE Service!Next
    <2>1. /\ reader = "decoded"
          /\ answeredBy' = [answeredBy EXCEPT ![items[log[read].id].owner] = read]
          /\ log' = log /\ published' = published
      BY <1>15 DEF TakeAnswer
    <2>2. PICK a : Map!TakeAnswer(log[read].id, [op |-> log[read].op, answers |-> a])
      BY <1>15 DEF TakeAnswer
    <2>3. PICK c : c = items[log[read].id].owner
      OBVIOUS
    <2>4. /\ log[read].id \in DOMAIN items /\ log[read].op \in Declared[c] /\ pc' = pc
      BY <2>2, <2>3 DEF Map!TakeAnswer, Map!Completes, Map!callVars
    <2>5. /\ c \in Calls /\ answeredBy[c] = 0
          /\ pc[c] \in {"sending", "sendFailed", "awaiting", "expired", "abandoned"}
      BY <1>t, <2>3, <2>4 DEF Custody, MP!Entry, MapInv, MP!Ownership, MP!EntryOwner, MP!InFlight
    <2>6. SeenState[c] # "new" /\ SeenState' = SeenState
      BY <2>4, <2>5 DEF SeenState, StateAt
    <2>7. Service!Match(c, read)
      BY <1>s, <1>14, <2>1, <2>3, <2>4, <2>5, <2>6 DEF ServiceState, Service!Match
    <2>8. QED
      BY <1>14, <2>1, <2>5, <2>7 DEF Service!Next
  <1>16. ASSUME TrySend PROVE Service!Next \/ UNCHANGED Service!vars
    <2>1. CASE HasRoom
      <3>1. /\ reader = "unmatched" /\ published' = Append(published, read)
            /\ UNCHANGED <<pc, log, answeredBy>>
        BY <1>16, <2>1 DEF TrySend, mapVars
      <3>2. /\ Len(published') = Len(published) + 1 /\ published'[Len(published) + 1] = read
            /\ \A k \in 1 .. Len(published) : published'[k] = published[k]
            /\ Len(published) \in Nat
        BY <1>14, <3>1, AppendProperties, LenProperties DEF LinkTypeOK
      <3>3. \A k \in 1 .. Len(published) : published[k] < read
        BY <3>2 DEF ChannelInOrder
      <3>4. SeenState' = SeenState
        BY <3>1 DEF SeenState
      <3>5. Service!Publish(read)
        BY <1>s, <1>14, <3>1, <3>3, <3>4 DEF ServiceState, Service!Publish
      <3>6. QED
        BY <1>14, <3>1, <3>5 DEF Service!Next
    <2>2. CASE ~HasRoom
      BY <1>q, <1>16, <2>2 DEF TrySend, mapVars
    <2>3. QED
      BY <2>1, <2>2
  <1>17. QED
    BY <1>1, <1>5, <1>6, <1>7, <1>8, <1>9, <1>10, <1>11, <1>12, <1>13, <1>15, <1>16, Zenon
    DEF Next, Reader, Requesting, Peer

\* The link does what its users see and nothing else: with its map, its reader,
\* its channel and its sink, every behaviour of it is one of LinkService.
THEOREM LinkRefinesService == Spec => ImplementsService
  BY CustodyInvariant, MessagesAccounted, ApplicationInOrder, SeenInit, SeenNext, PTL
  DEF Spec, ImplementsService, Service!Spec

LEMMA SameService == /\ Service!Init <=> LP!Init
                     /\ [Service!Next]_(Service!vars) <=> [LP!Next]_(LP!vars)
  BY DEF LP!Init, Service!Init, LP!Next, Service!Next, LP!vars, Service!vars, LP!Send, Service!Send,
         LP!Ask, Service!Ask, LP!Answer, Service!Answer, LP!Fail, Service!Fail,
         LP!Match, Service!Match, LP!Publish, Service!Publish, LP!Unused, Service!Unused

\* What LinkService promises holds of the link, whose ids, map and reader it does
\* not know: every reply is a message the peer sent, of a declared opcode, that
\* no other request and not the application was given; and neither a result,
\* nor a reply, nor what the application was given is ever undone.
THEOREM PromisesKept == Spec => []Service!EachFrameHasOneUse /\ Service!OutcomesAreFinal
  <1>1. Spec => LP!Spec
    BY LinkRefinesService, SameService, PTL DEF ImplementsService, Service!Spec, LP!Spec
  <1>2. Spec => []LP!EachFrameHasOneUse /\ LP!OutcomesAreFinal
    BY <1>1, LP!FramesUsedOnce, LP!OutcomesStay
  <1>3. QED
    BY <1>2 DEF LP!EachFrameHasOneUse, Service!EachFrameHasOneUse, LP!OutcomesAreFinal,
                Service!OutcomesAreFinal, LP!vars, Service!vars

-----------------------------------------------------------------------------
(* The sink is a fair queue *)

Outside == {"idle", "queued", "granted"}
Gone == {"sendFailed", "unsent", "abandoned"}
Served == {"awaiting", "expired", "replied", "recv", "timedOut", "invalid"}

\* What a call's place is at the sink, before a step and after it.
LEMMA StageOf ==
    ASSUME NEW c \in Calls
    PROVE  /\ pc[c] \in Outside => SinkStage[c] = "outside"
           /\ pc[c] = "sending" /\ Queued(c) => SinkStage[c] = "queued"
           /\ pc[c] = "sending" /\ ~Queued(c) => SinkStage[c] = "outside"
           /\ pc[c] \in Gone => SinkStage[c] = "gone"
           /\ pc[c] \in Served => SinkStage[c] = "served"
  BY DEF SinkStage, Outside, Gone, Served

LEMMA StageOfNext ==
    ASSUME NEW c \in Calls
    PROVE  /\ pc'[c] \in Outside => SinkStage'[c] = "outside"
           /\ pc'[c] = "sending" /\ Queued(c)' => SinkStage'[c] = "queued"
           /\ pc'[c] = "sending" /\ ~Queued(c)' => SinkStage'[c] = "outside"
           /\ pc'[c] \in Gone => SinkStage'[c] = "gone"
           /\ pc'[c] \in Served => SinkStage'[c] = "served"
  BY DEF SinkStage, Outside, Gone, Served

\* A step of one call, as the sink sees it.
LEMMA OneMoves ==
    ASSUME pc \in [Calls -> MP!States], NEW c \in Calls, NEW p, pc' = [pc EXCEPT ![c] = p],
           \A d \in Calls \ {c} : Queued(d)' <=> Queued(d)
    PROVE  SinkStage' = [SinkStage EXCEPT ![c] = SinkStage'[c]]
  <1>1. ASSUME NEW d \in Calls, d # c PROVE SinkStage'[d] = SinkStage[d]
    <2>1. pc'[d] = pc[d] /\ (Queued(d)' <=> Queued(d))
      BY <1>1
    <2>2. QED
      BY <2>1 DEF SinkStage
  <1>2. SinkStage = [d \in Calls |-> SinkStage[d]] /\ SinkStage' = [d \in Calls |-> SinkStage'[d]]
    BY DEF SinkStage
  <1>3. QED
    BY <1>1, <1>2

\* Those in the queue are sending.
LEMMA QueuedSend ==
    ASSUME FQ!QueueInv, NEW c \in Calls, Queued(c)
    PROVE  pc[c] = "sending" /\ SinkStage[c] = "queued"
  <1>1. SinkStage[c] = "queued"
    BY DEF FQ!QueueInv, FQ!HoldsTheQueued, Queued
  <1>2. QED
    BY <1>1 DEF SinkStage

\* Who is in the queue when the head has left it, or when c has.
LEMMA TailQueued ==
    ASSUME FQ!QueueInv, NEW c \in Calls, HoldsSink(c), sinkQueue' = Tail(sinkQueue)
    PROVE  Queued(c) /\ \A d \in Calls \ {c} : Queued(d)' <=> Queued(d)
  <1>1. sinkQueue \in Seq(Calls) /\ sinkQueue # <<>> /\ Head(sinkQueue) = c
    BY DEF FQ!QueueInv, FQ!TypeOK, HoldsSink
  <1>2. /\ Len(sinkQueue) \in Nat \ {0} /\ Len(Tail(sinkQueue)) = Len(sinkQueue) - 1
        /\ \A k \in 1 .. Len(sinkQueue) - 1 : Tail(sinkQueue)[k] = sinkQueue[k + 1]
        /\ Head(sinkQueue) = sinkQueue[1]
    BY <1>1, FQ!Served
  <1>3. Queued(c)
    BY <1>1, <1>2 DEF Queued
  <1>4. ASSUME NEW d \in Calls, d # c, NEW k \in 1 .. Len(sinkQueue), sinkQueue[k] = d
        PROVE  k - 1 \in 1 .. Len(Tail(sinkQueue)) /\ Tail(sinkQueue)[k - 1] = d
    BY <1>1, <1>2, <1>4
  <1>5. ASSUME NEW k \in 1 .. Len(Tail(sinkQueue))
        PROVE  k + 1 \in 1 .. Len(sinkQueue) /\ Tail(sinkQueue)[k] = sinkQueue[k + 1]
    BY <1>2
  <1>6. QED
    BY <1>3, <1>4, <1>5 DEF Queued

LEMMA WithoutQueued ==
    ASSUME FQ!QueueInv, NEW c \in Calls, Queued(c), sinkQueue' = Without(c)
    PROVE  /\ \E k \in 1 .. Len(sinkQueue) :
                  /\ sinkQueue[k] = c
                  /\ sinkQueue' = SubSeq(sinkQueue, 1, k - 1) \o SubSeq(sinkQueue, k + 1, Len(sinkQueue))
           /\ \A d \in Calls \ {c} : Queued(d)' <=> Queued(d)
  <1>1. sinkQueue \in Seq(Calls)
    BY DEF FQ!QueueInv, FQ!TypeOK
  <1>2. PICK i \in 1 .. Len(sinkQueue) :
           /\ sinkQueue[i] = c
           /\ sinkQueue' = SubSeq(sinkQueue, 1, i - 1) \o SubSeq(sinkQueue, i + 1, Len(sinkQueue))
    BY DEF Without, Queued
  <1>3. PICK r : r = SubSeq(sinkQueue, 1, i - 1) \o SubSeq(sinkQueue, i + 1, Len(sinkQueue))
    OBVIOUS
  <1>4. FQ!IsWithout(r, sinkQueue, i)
    BY <1>1, <1>3, FQ!RemovedFromQueue DEF FQ!IsWithout
  <1>5. Len(sinkQueue) \in Nat
    BY <1>1, LenProperties
  <1>6. ASSUME NEW d \in Calls, d # c, NEW k \in 1 .. Len(sinkQueue), sinkQueue[k] = d
        PROVE  \E j \in 1 .. Len(r) : r[j] = d
    <2>1. k # i
      BY <1>2, <1>6
    <2>2. QED
      BY <1>1, <1>4, <1>6, <2>1, FQ!StillThere
  <1>7. ASSUME NEW j \in 1 .. Len(r) PROVE \E k \in 1 .. Len(sinkQueue) : r[j] = sinkQueue[k]
    <2>1. j \in 1 .. Len(sinkQueue) - 1
      BY <1>4 DEF FQ!IsWithout
    <2>2. j \in 1 .. Len(sinkQueue) /\ j + 1 \in 1 .. Len(sinkQueue)
      BY <1>5, <2>1
    <2>3. r[j] = sinkQueue[j] \/ r[j] = sinkQueue[j + 1]
      BY <1>4, <2>1 DEF FQ!IsWithout
    <2>4. QED
      BY <2>2, <2>3
  <1>8. ASSUME NEW d \in Calls, d # c PROVE Queued(d)' <=> Queued(d)
    <2>1. sinkQueue' = r
      BY <1>2, <1>3
    <2>2. Queued(d)' <=> \E j \in 1 .. Len(r) : r[j] = d
      BY <2>1 DEF Queued
    <2>3. Queued(d) => \E j \in 1 .. Len(r) : r[j] = d
      BY <1>6, <1>8 DEF Queued
    <2>4. (\E j \in 1 .. Len(r) : r[j] = d) => Queued(d)
      BY <1>7 DEF Queued
    <2>5. QED
      BY <2>2, <2>3, <2>4
  <1>9. QED
    BY <1>2, <1>8

LEMMA StagedInit == Init => FQ!Init
  <1> SUFFICES ASSUME Init PROVE FQ!Init
    OBVIOUS
  <1>1. \A c \in Calls : pc[c] = "idle"
    BY DEF Init, Map!Init
  <1>2. SinkStage = [c \in Calls |-> "outside"]
    BY <1>1 DEF SinkStage
  <1>3. QED
    BY <1>2 DEF Init, FQ!Init

LEMMA StagedNext ==
    LinkTypeOK /\ MapInv /\ FQ!QueueInv /\ [Next]_vars => [FQ!Next]_(FQ!vars)
  <1> SUFFICES ASSUME LinkTypeOK, MapInv, FQ!QueueInv, [Next]_vars
               PROVE  FQ!Next \/ UNCHANGED FQ!vars
    OBVIOUS
  <1>t. pc \in [Calls -> MP!States]
    BY DEF MapInv, MP!TypeOK
  <1>q. ASSUME UNCHANGED <<pc, sinkQueue>> PROVE UNCHANGED FQ!vars
    BY <1>q DEF SinkStage, Queued, FQ!vars
  <1>s. ASSUME NEW c \in Calls, NEW p, pc' = [pc EXCEPT ![c] = p], sinkQueue' = sinkQueue
        PROVE  /\ SinkStage' = [SinkStage EXCEPT ![c] = SinkStage'[c]]
               /\ SinkStage'[c] = SinkStage[c] => UNCHANGED FQ!vars
               /\ pc'[c] = p /\ (Queued(c)' <=> Queued(c))
    <2>1. \A d \in Calls : Queued(d)' <=> Queued(d)
      BY <1>s DEF Queued
    <2>2. SinkStage' = [SinkStage EXCEPT ![c] = SinkStage'[c]]
      BY <1>t, <1>s, <2>1, OneMoves
    <2>3. SinkStage'[c] = SinkStage[c] => SinkStage' = SinkStage
      BY <2>2 DEF SinkStage
    <2>4. QED
      BY <1>t, <1>s, <2>1, <2>2, <2>3 DEF FQ!vars
  <1>n. ASSUME NEW c \in Calls, pc[c] # "sending" PROVE ~Queued(c)
    BY <1>n, QueuedSend
  <1> USE DEF endVars
  <1>1. ASSUME NEW c \in Calls, Call(c) \/ (RequestStep(c) /\ (Map!Acquire(c) \/ Map!Insert(c)))
        PROVE  UNCHANGED FQ!vars
    <2>1. PICK p \in {"queued", "granted", "sending"} :
             pc' = [pc EXCEPT ![c] = p] /\ sinkQueue' = sinkQueue
      BY <1>1 DEF Call, RequestStep, Map!Call, Map!Acquire, Map!Insert
    <2>2. pc[c] \in Outside
      <3>1. CASE Map!Acquire(c)
        BY <3>1, MapAssumptions, MP!HeadWaits DEF MapInv, Map!Acquire, Outside,
           MP!ExpectedAssumption, MP!MaxIdAssumption, MP!AbandonersAssumption
      <3>2. QED
        BY <1>1, <3>1 DEF Call, RequestStep, Map!Call, Map!Insert, Outside
    <2>3. SinkStage[c] = "outside" /\ ~Queued(c)
      BY <1>n, <2>2, StageOf DEF Outside
    <2>4. SinkStage'[c] = "outside"
      BY <1>s, <2>1, <2>3, StageOfNext DEF Outside
    <2>5. QED
      BY <1>s, <2>1, <2>3, <2>4
  <1>2. ASSUME NEW c \in Calls, RequestStep(c), ~Map!Acquire(c), ~Map!Insert(c)
        PROVE  UNCHANGED FQ!vars
    <2>1. sinkQueue' = sinkQueue
      BY <1>2 DEF RequestStep
    <2>2. CASE Map!CancelUnsent(c)
      <3>1. pc[c] = "sendFailed" /\ pc' = [pc EXCEPT ![c] = "unsent"]
        BY <2>2 DEF Map!CancelUnsent, Map!Cancel
      <3>2. SinkStage[c] = "gone" /\ SinkStage'[c] = "gone"
        BY <1>s, <2>1, <3>1, StageOf, StageOfNext DEF Gone
      <3>3. QED
        BY <1>s, <2>1, <3>1, <3>2
    <2>3. CASE Map!Receive(c) \/ Map!ReceiveClosed(c) \/ Map!Expire(c) \/ Map!CancelExpired(c)
      <3>1. PICK p \in {"replied", "recv", "expired", "timedOut", "invalid"} :
               pc' = [pc EXCEPT ![c] = p]
        BY <2>3 DEF Map!Receive, Map!ReceiveClosed, Map!Expire, Map!CancelExpired, Map!Cancel,
           Map!Diagnosis
      <3>2. pc[c] \in {"awaiting", "expired"}
        BY <2>3 DEF Map!Receive, Map!ReceiveClosed, Map!Expire, Map!CancelExpired
      <3>3. pc[c] \in Served /\ p \in Served
        BY <3>2 DEF Served
      <3>4. SinkStage[c] = "served" /\ SinkStage'[c] = "served"
        BY <1>s, <2>1, <3>1, <3>3, StageOf, StageOfNext
      <3>5. QED
        BY <1>s, <2>1, <3>1, <3>4
    <2>4. QED
      BY <1>2, <2>2, <2>3 DEF RequestStep
  <1>3. ASSUME NEW c \in Calls, LockSink(c) PROVE FQ!Next
    <2>1. pc[c] = "sending" /\ ~Queued(c) /\ sinkQueue' = Append(sinkQueue, c) /\ pc' = pc
      BY <1>3 DEF LockSink, mapVars
    <2>2. sinkQueue \in Seq(Calls)
      BY DEF LinkTypeOK
    <2>3. /\ Len(sinkQueue) \in Nat /\ Len(sinkQueue') = Len(sinkQueue) + 1
          /\ \A k \in 1 .. Len(sinkQueue) : sinkQueue'[k] = sinkQueue[k]
          /\ sinkQueue'[Len(sinkQueue) + 1] = c
      BY <2>1, <2>2, FQ!Joined
    <2>4. Queued(c)'
      <3>1. Len(sinkQueue) + 1 \in 1 .. Len(sinkQueue')
        BY <2>3
      <3>2. QED
        BY <2>3, <3>1 DEF Queued
    <2>5. ASSUME NEW d \in Calls, d # c PROVE Queued(d)' <=> Queued(d)
      <3>1. \A k \in 1 .. Len(sinkQueue') : k = Len(sinkQueue) + 1 \/ k \in 1 .. Len(sinkQueue)
        BY <2>3
      <3>2. \A k \in 1 .. Len(sinkQueue) : k \in 1 .. Len(sinkQueue')
        BY <2>3
      <3>3. QED
        BY <2>3, <2>5, <3>1, <3>2 DEF Queued
    <2>6. SinkStage[c] = "outside" /\ SinkStage'[c] = "queued"
      BY <2>1, <2>4, StageOf, StageOfNext
    <2>7. SinkStage' = [SinkStage EXCEPT ![c] = SinkStage'[c]]
      <3>1. pc' = [pc EXCEPT ![c] = pc[c]]
        BY <1>t, <2>1
      <3>2. QED
        BY <1>t, <2>5, <3>1, OneMoves
    <2>8. FQ!Join(c)
      BY <2>1, <2>6, <2>7 DEF FQ!Join, FQ!Goes
    <2>9. QED
      BY <2>8 DEF FQ!Next
  <1>4. ASSUME NEW c \in Calls, RefuseSend(c) PROVE FQ!Next
    <2>1. /\ pc[c] = "sending" /\ ~Queued(c) /\ sinkQueue' = sinkQueue
          /\ pc' = [pc EXCEPT ![c] = "sendFailed"]
      BY <1>4 DEF RefuseSend, Map!SendFails
    <2>2. SinkStage[c] = "outside" /\ SinkStage'[c] = "gone"
      BY <1>s, <2>1, StageOf, StageOfNext DEF Gone
    <2>3. FQ!Leave(c)
      BY <1>s, <2>1, <2>2 DEF FQ!Leave, FQ!Goes
    <2>4. QED
      BY <2>3 DEF FQ!Next
  <1>5. ASSUME NEW c \in Calls, NEW p, HoldsSink(c), sinkQueue' = Tail(sinkQueue),
               pc[c] = "sending", pc' = [pc EXCEPT ![c] = p]
        PROVE  SinkStage[c] = "queued" /\ SinkStage' = [SinkStage EXCEPT ![c] = SinkStage'[c]]
    BY <1>t, <1>5, TailQueued, OneMoves, StageOf
  <1>6. ASSUME NEW c \in Calls, FinishSend(c) PROVE FQ!Next
    <2>1. /\ pc[c] = "sending" /\ HoldsSink(c) /\ sinkQueue' = Tail(sinkQueue)
          /\ pc' = [pc EXCEPT ![c] = "awaiting"]
      BY <1>6 DEF FinishSend, Map!SendOk
    <2>2. pc'[c] \in Served
      BY <1>t, <2>1 DEF Served
    <2>3. SinkStage'[c] = "served"
      BY <2>2, StageOfNext
    <2>4. FQ!Serve(c)
      BY <1>5, <2>1, <2>3 DEF FQ!Serve, FQ!Goes, HoldsSink
    <2>5. QED
      BY <2>4 DEF FQ!Next
  <1>7. ASSUME NEW c \in Calls, BreakSend(c) PROVE FQ!Next
    <2>1. /\ pc[c] = "sending" /\ HoldsSink(c) /\ sinkQueue' = Tail(sinkQueue)
          /\ pc' = [pc EXCEPT ![c] = "sendFailed"]
      BY <1>7 DEF BreakSend, Map!SendFails
    <2>2. pc'[c] \in Gone
      BY <1>t, <2>1 DEF Gone
    <2>3. SinkStage'[c] = "gone"
      BY <2>2, StageOfNext
    <2>4. sinkQueue \in Seq(Calls) /\ sinkQueue # <<>> /\ Head(sinkQueue) = c
      BY <2>1 DEF LinkTypeOK, HoldsSink
    <2>5. 1 \in 1 .. Len(sinkQueue) /\ sinkQueue[1] = c
      BY <2>4
    <2>6. sinkQueue' = SubSeq(sinkQueue, 1, 1 - 1) \o SubSeq(sinkQueue, 1 + 1, Len(sinkQueue))
      BY <2>1, <2>4, FQ!FirstLeaves
    <2>7. SinkStage[c] = "queued" /\ SinkStage' = [SinkStage EXCEPT ![c] = "gone"]
      BY <1>5, <2>1, <2>3
    <2>8. FQ!GiveUp(c)
      BY <2>5, <2>6, <2>7, Zenon DEF FQ!GiveUp, FQ!Goes
    <2>9. QED
      BY <2>8 DEF FQ!Next
  <1>8. ASSUME NEW c \in Calls, Abandon(c) PROVE FQ!Next \/ UNCHANGED FQ!vars
    <2>1. sinkQueue' = Without(c) /\ pc' = [pc EXCEPT ![c] = "abandoned"]
      BY <1>8 DEF Abandon, Map!Abandon, Map!AbandonQueued
    <2>2. pc[c] \in {"queued", "granted", "sending", "sendFailed", "awaiting", "expired"}
      <3>1. CASE Map!AbandonQueued(c)
        BY <3>1 DEF MapInv, MP!Shape, Map!AbandonQueued
      <3>2. CASE Map!Abandon(c)
        BY <3>2 DEF Map!Abandon, Map!InFlight
      <3>3. QED
        BY <1>8, <3>1, <3>2 DEF Abandon
    <2>3. pc'[c] \in Gone
      BY <1>t, <2>1 DEF Gone
    <2>4. SinkStage'[c] = "gone"
      BY <2>3, StageOfNext
    <2>5. CASE Queued(c)
      <3>1. SinkStage[c] = "queued"
        BY <2>5, QueuedSend
      <3>2. /\ \E k \in 1 .. Len(sinkQueue) :
                  /\ sinkQueue[k] = c
                  /\ sinkQueue' = SubSeq(sinkQueue, 1, k - 1) \o SubSeq(sinkQueue, k + 1, Len(sinkQueue))
            /\ \A d \in Calls \ {c} : Queued(d)' <=> Queued(d)
        BY <2>1, <2>5, WithoutQueued
      <3>3. SinkStage' = [SinkStage EXCEPT ![c] = "gone"]
        BY <1>t, <2>1, <2>4, <3>2, OneMoves
      <3>4. FQ!GiveUp(c)
        BY <3>1, <3>2, <3>3, Zenon DEF FQ!GiveUp, FQ!Goes
      <3>5. QED
        BY <3>4 DEF FQ!Next
    <2>6. CASE ~Queued(c)
      <3>1. sinkQueue' = sinkQueue
        BY <2>1, <2>6 DEF Without
      <3>2. SinkStage[c] \in {"outside", "served", "gone"}
        BY <2>2, <2>6, StageOf DEF Outside, Gone, Served
      <3>3. SinkStage' = [SinkStage EXCEPT ![c] = "gone"]
        BY <1>s, <2>1, <2>4, <3>1
      <3>4. CASE SinkStage[c] = "gone"
        BY <1>s, <2>1, <2>4, <3>1, <3>4
      <3>5. CASE SinkStage[c] \in {"outside", "served"}
        <4>1. FQ!Leave(c)
          BY <3>1, <3>3, <3>5 DEF FQ!Leave, FQ!Goes
        <4>2. QED
          BY <4>1 DEF FQ!Next
      <3>6. QED
        BY <3>2, <3>4, <3>5
    <2>7. QED
      BY <2>5, <2>6
  <1>9. ASSUME ReadFrame \/ TakeUnknown \/ Abort \/ TrySend PROVE UNCHANGED FQ!vars
    BY <1>q, <1>9 DEF ReadFrame, TakeUnknown, Abort, TrySend, mapVars
  <1>10. ASSUME TakeAnswer \/ TakeUndeclared \/ Complete PROVE UNCHANGED FQ!vars
    BY <1>q, <1>10 DEF TakeAnswer, Map!TakeAnswer, TakeUndeclared, Complete, Map!TakeUndeclared,
       Map!Deliver, Map!callVars
  <1>11. ASSUME Application \/ Peer PROVE UNCHANGED FQ!vars
    BY <1>q, <1>11 DEF Application, Receive, DropReceiver, DropLink, Peer, PeerStalls, PeerSends,
       mapVars
  <1>12. ASSUME UNCHANGED vars PROVE UNCHANGED FQ!vars
    BY <1>q, <1>12 DEF vars, mapVars
  <1>13. QED
    BY <1>1, <1>2, <1>3, <1>4, <1>6, <1>7, <1>8, <1>9, <1>10, <1>11, <1>12, Zenon
    DEF Next, Reader, Requesting

LEMMA SinkIsQueue == Spec => FQ!Spec
  <1>1. LinkTypeOK /\ MapInv /\ FQ!QueueInv /\ [Next]_vars => FQ!QueueInv'
    BY StagedNext, FQ!NextQueue
  <1>2. Init => FQ!QueueInv
    BY StagedInit, FQ!InitQueue
  <1>3. Spec => [](LinkTypeOK /\ MapInv /\ FQ!QueueInv)
    BY MapInvariant, <1>1, <1>2, PTL DEF Spec
  <1>4. QED
    BY <1>3, StagedInit, StagedNext, PTL DEF Spec, FQ!Spec

LEMMA SameQueue == /\ FQ!Init <=> Sink!Init
                   /\ [FQ!Next]_(FQ!vars) <=> [Sink!Next]_(Sink!vars)
  BY DEF FQ!Init, Sink!Init, FQ!Next, Sink!Next, FQ!vars, Sink!vars, FQ!Join, Sink!Join,
         FQ!Serve, Sink!Serve, FQ!GiveUp, Sink!GiveUp, FQ!Leave, Sink!Leave, FQ!Goes, Sink!Goes

\* Every behaviour of the link, seen at its sink, is one of FairQueue, as every
\* behaviour of SendPath is: what the link takes send_message to do at the sink
\* and what SendPath finds it to do there keep the same contract.
THEOREM SinkImplementsQueue == Spec => SinkIsFair
  BY SinkIsQueue, SameQueue, PTL DEF FQ!Spec, SinkIsFair, Sink!Spec

\* A request whose future is dropped, or which is done, is not in the sink's
\* queue, and no request sends its frame before one that came to the sink earlier.
THEOREM SinkServesInOrder == Spec => []Sink!HoldsTheQueued /\ Sink!ServedInOrder
  <1>1. Spec => []FQ!HoldsTheQueued /\ FQ!ServedInOrder
    BY SinkIsQueue, FQ!OnlyTheQueuedWait, FQ!FirstComeFirstServed
  <1>2. QED
    BY <1>1 DEF FQ!HoldsTheQueued, Sink!HoldsTheQueued, FQ!ServedInOrder, Sink!ServedInOrder,
                FQ!vars, Sink!vars

-----------------------------------------------------------------------------
(* What the map shows alone holds in the link *)

\* In the link, with its reader, its peer and its sink, a permit is free, about to
\* be used, in an entry or in the reader's hands; insert finds an id; an id is
\* reissued only after a full lap; a reply is declared and its caller's own; an
\* outcome is a call's own unless its id was reissued; no waiter is lost, and a
\* recorded collision is lost to another call only.
THEOREM MapKeepsItsWord ==
    Spec => /\ [](/\ Map!PermitAccounting /\ Map!IdAlwaysFree /\ Map!FullLap /\ Map!EntryOwner
                  /\ Map!ReplyIsDeclaredAndOwn /\ Map!OutcomeIsOwn /\ Map!SomeoneGivesBack)
            /\ Map!LiveWaiterKept
            /\ Map!CollisionLostToOthers
  <1>1. Spec => /\ []MP!PermitAccounting /\ []MP!IdAlwaysFree /\ []MP!FullLap /\ []MP!EntryOwner
                /\ []MP!ReplyIsDeclaredAndOwn /\ []MP!OutcomeIsOwn /\ []MP!SomeoneGivesBack
                /\ MP!LiveWaiterKept /\ MP!CollisionLostToOthers
    BY ImplementsMap, MapAssumptions, MP!PermitsAccounted, MP!FreeIdExists, MP!FullLapHolds,
       MP!EntryOwnerHolds, MP!RepliesAreOwn, MP!OutcomesAreOwn, MP!SaturationNeedsDrops,
       MP!LiveWaitersKept, MP!CollisionsLostToOthers
    DEF MP!ExpectedAssumption, MP!MaxIdAssumption, MP!AbandonersAssumption
  <1>2. /\ MP!PermitAccounting <=> Map!PermitAccounting
        /\ MP!SomeoneGivesBack <=> Map!SomeoneGivesBack
    <2>1. MP!Granted = Map!Granted /\ MP!Capacity = Map!Capacity /\ MP!InFlight = Map!InFlight
      BY DEF MP!Granted, Map!Granted, MP!Capacity, Map!Capacity, MP!InFlight, Map!InFlight
    <2>2. MP!PermitAccounting <=> Map!PermitAccounting
      BY <2>1 DEF MP!PermitAccounting, Map!PermitAccounting, MP!Cardinality, Map!Cardinality,
                  MP!IsFiniteSet, Map!IsFiniteSet
    <2>3. MP!SomeoneGivesBack <=> Map!SomeoneGivesBack
      BY <2>1 DEF MP!SomeoneGivesBack, Map!SomeoneGivesBack, MP!Cardinality, Map!Cardinality,
                  MP!IsFiniteSet, Map!IsFiniteSet
    <2>4. QED
      BY <2>2, <2>3
  <1>3. /\ MP!IdAlwaysFree <=> Map!IdAlwaysFree
        /\ MP!EntryOwner <=> Map!EntryOwner
        /\ MP!FullLap <=> Map!FullLap
        /\ MP!ReplyIsDeclaredAndOwn <=> Map!ReplyIsDeclaredAndOwn
        /\ MP!OutcomeIsOwn <=> Map!OutcomeIsOwn
    <2>1. MP!IdAlwaysFree <=> Map!IdAlwaysFree
      BY DEF MP!IdAlwaysFree, Map!IdAlwaysFree, MP!Granted, Map!Granted, MP!Ids, Map!Ids
    <2>2. MP!EntryOwner <=> Map!EntryOwner
      BY DEF MP!EntryOwner, Map!EntryOwner, MP!InFlight, Map!InFlight
    <2>3. MP!FullLap <=> Map!FullLap
      BY DEF MP!FullLap, Map!FullLap, MP!NoId, Map!NoId, MP!Ids, Map!Ids
    <2>4. MP!ReplyIsDeclaredAndOwn <=> Map!ReplyIsDeclaredAndOwn
      BY DEF MP!ReplyIsDeclaredAndOwn, Map!ReplyIsDeclaredAndOwn, MP!Ids, Map!Ids
    <2>5. MP!OutcomeIsOwn <=> Map!OutcomeIsOwn
      BY DEF MP!OutcomeIsOwn, Map!OutcomeIsOwn, MP!Reissued, Map!Reissued
    <2>6. QED
      BY <2>1, <2>2, <2>3, <2>4, <2>5
  <1>4. MP!LiveWaiterKept => Map!LiveWaiterKept
    BY DEF MP!LiveWaiterKept, Map!LiveWaiterKept, MP!Open, Map!Open, MP!vars, Map!vars,
           MP!mapVars, Map!mapVars, MP!callVars, Map!callVars, MP!history, Map!history
  <1>5. MP!CollisionLostToOthers => Map!CollisionLostToOthers
    BY DEF MP!CollisionLostToOthers, Map!CollisionLostToOthers, MP!Open, Map!Open, MP!vars,
           Map!vars, MP!mapVars, Map!mapVars, MP!callVars, Map!callVars, MP!history, Map!history
  <1>6. QED
    BY <1>1, <1>2, <1>3, <1>4, <1>5, PTL

-----------------------------------------------------------------------------
(* The reader is never stuck *)

Correlates == log[read].id \in DOMAIN items
Declares == Map!Completes(log[read].id, log[read].op)

\* With a frame or a Request in its hands, the guard of one of the reader's steps
\* is true: TakeUnknown, TakeUndeclared or TakeAnswer; Complete; TrySend.
ReaderCanMove ==
    /\ reader = "decoded" =>
          \/ ~Correlates
          \/ routed = {} /\ Correlates /\ ~Declares
          \/ routed = {} /\ Correlates /\ Declares /\ Map!Addressees(log[read].id) # {}
    /\ reader = "completing" => routed # {}
    /\ reader = "unmatched" => CanTrySend

Handover == reader = "completing" <=> routed # {}

LEMMA NextHandover == LinkTypeOK /\ Handover /\ [Next]_vars => Handover'
  <1> SUFFICES ASSUME LinkTypeOK, Handover, [Next]_vars PROVE Handover'
    OBVIOUS
  <1> USE DEF Handover, readerVars, endVars, mapVars
  <1>1. ASSUME NEW c \in Calls, Call(c) PROVE Handover'
    BY <1>1 DEF Call, Map!Call
  <1>2. ASSUME NEW c \in Calls, RequestStep(c) PROVE Handover'
    BY <1>2 DEF RequestStep, Map!Acquire, Map!Insert, Map!CancelUnsent, Map!Cancel, Map!Receive,
       Map!ReceiveClosed, Map!Expire, Map!CancelExpired, Map!mapVars
  <1>3. ASSUME NEW c \in Calls, LockSink(c) \/ RefuseSend(c) \/ FinishSend(c) \/ BreakSend(c)
        PROVE  Handover'
    BY <1>3 DEF LockSink, RefuseSend, FinishSend, BreakSend, Map!SendOk, Map!SendFails, Map!mapVars
  <1>4. ASSUME NEW c \in Calls, Abandon(c) PROVE Handover'
    BY <1>4 DEF Abandon, Map!Abandon, Map!AbandonQueued
  <1>5. CASE ReadFrame
    <2>1. log[read + 1] \in Frame
      BY <1>5, LinkAssumption, ElementOfSeq DEF LinkTypeOK, ReadFrame
    <2>2. AfterReading(log[read + 1]) # "completing"
      BY <2>1 DEF AfterReading, AfterMalformed, Frame
    <2>3. QED
      BY <1>5, <2>2 DEF ReadFrame
  <1>11. CASE TakeUnknown \/ TrySend \/ Abort
    BY <1>11 DEF TakeUnknown, TrySend, Abort, Abortable
  <1>6. CASE TakeUndeclared
    BY <1>6 DEF TakeUndeclared, AfterUndeclared, Map!TakeUndeclared
  <1>7. CASE TakeAnswer
    BY <1>7 DEF TakeAnswer, Map!TakeAnswer
  <1>8. CASE Complete
    BY <1>8 DEF Complete, Map!Deliver
  <1>9. CASE Application \/ Peer \/ UNCHANGED vars
    BY <1>9 DEF Application, Receive, DropReceiver, DropLink, Peer, PeerStalls, PeerSends, vars
  <1>10. QED
    BY <1>1, <1>2, <1>3, <1>4, <1>5, <1>6, <1>7, <1>8, <1>9, <1>11 DEF Next, Reader, Requesting

\* With a frame in its hands the reader can always move on: nothing it does to
\* the map, to a waiter or to the channel waits for the application, the sink
\* or another call.
THEOREM ReaderIsNeverStuck == Spec => []ReaderCanMove
  <1>1. Init => Handover
    BY DEF Init, Map!Init, Handover
  <1>2. LinkTypeOK /\ MapInv /\ Handover => ReaderCanMove
    <2> SUFFICES ASSUME LinkTypeOK, MapInv, Handover PROVE ReaderCanMove
      OBVIOUS
    <2>1. Correlates => Map!Addressees(log[read].id) # {}
      <3> SUFFICES ASSUME Correlates PROVE Map!Addressees(log[read].id) # {}
        OBVIOUS
      <3>1. items[log[read].id].owner \in Calls
        BY DEF Correlates, MapInv, MP!TypeOK, MP!Entry
      <3>2. rid[items[log[read].id].owner] = log[read].id
        BY DEF Correlates, MapInv, MP!Ownership, MP!EntryOwner
      <3>3. QED
        BY <3>1, <3>2 DEF Map!Addressees
    <2>2. QED
      BY <2>1 DEF ReaderCanMove, Handover, CanTrySend
  <1>3. QED
    BY MapInvariant, <1>1, <1>2, NextHandover, PTL DEF Spec
=============================================================================
