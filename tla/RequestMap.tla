----------------------------- MODULE RequestMap -----------------------------
(***************************************************************************)
(* The correlation map of one link (src/src/request_map.rs) together with  *)
(* the requests that use it (DigLink::request_message, src/src/link.rs)    *)
(* and the routing half of the reader task that completes them.            *)
(*                                                                         *)
(* A member of Calls is one call of request_message: one oneshot channel,  *)
(* at most one map entry, one result.  Every critical section of           *)
(* `items: Mutex<HashMap<u16, Request>>` is one action, and so is every    *)
(* step at which a call's future can be suspended, resumed or dropped.     *)
(* The peer may answer any request it may have seen, on time, late, or     *)
(* several times, and may send any opcode on any id on its own account.    *)
(*                                                                         *)
(* How a frame is sent is left to the transport: SendOk and SendFails      *)
(* choose the result of send_message.                                      *)
(***************************************************************************)
EXTENDS Integers, Sequences, FiniteSets

CONSTANTS
    Calls,       \* calls of request_message
    Opcodes,     \* message types
    Expected,    \* Expected[c]: the opcodes that can complete call c
    MaxId,       \* u16::MAX, scaled down: ids are 0..MaxId
    Abandoners   \* the calls whose future the application may drop

ASSUME ExpectedAssumption == Expected \in [Calls -> SUBSET Opcodes]
ASSUME MaxIdAssumption == MaxId \in Nat \ {0}
ASSUME AbandonersAssumption == Abandoners \subseteq Calls

VARIABLES
    items,     \* id -> [owner, undeclared]: the HashMap
    nextId,    \* the allocation cursor
    permits,   \* free permits of the capacity semaphore
    waiting,   \* the semaphore's FIFO queue of calls
    routed,    \* the Request the reader has taken and not yet completed
    pc,        \* where each call is; its last value is the call's result
    rid,       \* the id insert returned to each call
    slot,      \* the message in each call's oneshot channel, if any
    collided,  \* history: calls with a collision on record and no answer since
    passed     \* history: ids the cursor has gone over since rid[c] was issued

mapVars == <<items, nextId, permits, waiting, routed>>
callVars == <<pc, rid, slot>>
history == <<collided, passed>>
vars == <<mapVars, callVars, history>>

Ids == 0 .. MaxId
NoId == -1

\* Mutant of Capacity: two permits more than an id space of MaxId + 1 can bear.
CapacityOversubscribed == MaxId + 2

\* Semaphore::new(u16::MAX): one permit fewer than there are ids.
Capacity == MaxId

\* `answers` names the call a reply was written for.  No program state holds
\* it: it is what the two ends mean by the frame.
Message == [op : Opcodes, answers : Calls]
Entry == [owner : Calls, undeclared : SUBSET Opcodes]

InFlight == {"sending", "sendFailed", "awaiting", "expired"}
Results == {"replied", "recv", "unsent", "timedOut", "invalid", "abandoned"}
States == {"idle", "queued", "granted"} \cup InFlight \cup Results

\* The oneshot receiver is alive: it is a local of request_message until
\* `timeout` consumes it, and `timeout` drops it when the deadline passes.
Open(c) == pc[c] \in {"sending", "sendFailed", "awaiting"}

Granted == {c \in Calls : pc[c] = "granted"}

Init ==
    /\ items = [i \in {} |-> {}]
    /\ nextId = 0
    /\ permits = Capacity
    /\ waiting = <<>>
    /\ routed = {}
    /\ pc = [c \in Calls |-> "idle"]
    /\ rid = [c \in Calls |-> NoId]
    /\ slot = [c \in Calls |-> {}]
    /\ collided = {}
    /\ passed = [c \in Calls |-> {}]

-----------------------------------------------------------------------------
(* insert *)

\* request_message starts: the call queues for a permit.
Call(c) ==
    /\ pc[c] = "idle"
    /\ pc' = [pc EXCEPT ![c] = "queued"]
    /\ waiting' = Append(waiting, c)
    /\ UNCHANGED <<items, nextId, permits, routed, rid, slot, history>>

\* The semaphore is fair: a free permit goes to the call that waited longest.
Acquire(c) ==
    /\ waiting # <<>>
    /\ Head(waiting) = c
    /\ permits > 0
    /\ permits' = permits - 1
    /\ waiting' = Tail(waiting)
    /\ pc' = [pc EXCEPT ![c] = "granted"]
    /\ UNCHANGED <<items, nextId, routed, rid, slot, history>>

\* Mutant of Retained: abandoned entries stay.
RetainsAbandoned == DOMAIN items
\* Mutant of Retained: entries whose request is still being sent go too.
RetainsAwaitingOnly == {i \in DOMAIN items : pc[items[i].owner] = "awaiting"}

\* items.retain(|_, request| !request.sender.is_closed())
Retained == {i \in DOMAIN items : Open(items[i].owner)}

\* Mutant of WrappingSucc: no wrap at the end of the id space.
NonWrappingSucc(i) == i + 1

\* wrapping_add(1)
WrappingSucc(i) == IF i = MaxId THEN 0 ELSE i + 1

\* The ids a wrapping search from n visits up to and including i.
Walk(n, i) == IF n <= i THEN n .. i ELSE (n .. MaxId) \cup (0 .. i)

\* Mutant of SearchStart: the lowest free id rather than the cursor's next.
LowestFreeFirst == 0

SearchStart == nextId

\* Under the items lock: reclaim the entries of dropped receivers, with their
\* permits, then give c the first free id at or after the cursor.
Insert(c) ==
    /\ pc[c] = "granted"
    /\ \E id \in Ids :
        /\ id \notin Retained
        /\ Walk(SearchStart, id) \ {id} \subseteq Retained
        /\ items' = [i \in Retained \cup {id} |->
                        IF i = id THEN [owner |-> c, undeclared |-> {}]
                                  ELSE items[i]]
        /\ nextId' = WrappingSucc(id)
        /\ rid' = [rid EXCEPT ![c] = id]
        /\ passed' = [d \in Calls |->
                         IF d = c \/ rid[d] = NoId THEN {}
                         ELSE passed[d] \cup Walk(SearchStart, id)]
    /\ permits' = permits + Cardinality(DOMAIN items \ Retained)
    /\ pc' = [pc EXCEPT ![c] = "sending"]
    /\ UNCHANGED <<waiting, routed, slot, collided>>

-----------------------------------------------------------------------------
(* send_message and cancel *)

SendOk(c) ==
    /\ pc[c] = "sending"
    /\ pc' = [pc EXCEPT ![c] = "awaiting"]
    /\ UNCHANGED <<mapVars, rid, slot, history>>

SendFails(c) ==
    /\ pc[c] = "sending"
    /\ pc' = [pc EXCEPT ![c] = "sendFailed"]
    /\ UNCHANGED <<mapVars, rid, slot, history>>

\* Mutant of Without: cancel looks the entry up and leaves it in place.
WithoutRemoving(id) == items

\* The map after items.remove(&id).
Without(id) == [i \in DOMAIN items \ {id} |-> items[i]]

\* Mutants of FreedBy: the permit leaks; a permit is returned for no entry.
FreesNothing(id) == 0
FreesAlways(id) == 1

\* The permits that dropping the entry at id, if there is one, gives back.
FreedBy(id) == IF id \in DOMAIN items THEN 1 ELSE 0

\* cancel(id) by a call: it removes whatever entry holds its id.
Cancel(c, result) ==
    /\ items' = Without(rid[c])
    /\ permits' = permits + FreedBy(rid[c])
    /\ pc' = [pc EXCEPT ![c] = result]
    /\ UNCHANGED <<nextId, waiting, routed, rid, slot, history>>

CancelUnsent(c) ==
    /\ pc[c] = "sendFailed"
    /\ Cancel(c, "unsent")

-----------------------------------------------------------------------------
(* take and Request::send, by the reader task *)

\* Mutant of Completes: a frame is matched on its id alone.
CompletesOnId(id, op) == TRUE

\* request.expected.contains(&msg_type)
Completes(id, op) == op \in Expected[items[id].owner]

\* The calls a frame with this id can have been written for: the peer answers
\* a request it has seen, and its frames of other kinds answer nothing.
Addressees(id) == {d \in Calls : rid[d] = id}

\* Correlation::Undeclared: the waiter stays, the opcode is recorded.
TakeUndeclared(id, op) ==
    /\ routed = {}
    /\ id \in DOMAIN items
    /\ ~Completes(id, op)
    /\ items' = [items EXCEPT ![id].undeclared = {op}]
    /\ collided' = collided \cup {items[id].owner}
    /\ UNCHANGED <<nextId, permits, waiting, routed, callVars, passed>>

\* Correlation::Answer: the entry moves to the reader's hands, permit and all.
TakeAnswer(id, msg) ==
    /\ routed = {}
    /\ id \in DOMAIN items
    /\ Completes(id, msg.op)
    /\ items' = Without(id)
    /\ routed' = {[owner |-> items[id].owner, msg |-> msg]}
    /\ collided' = collided \ {items[id].owner}
    /\ UNCHANGED <<nextId, permits, waiting, callVars, passed>>

\* waiter.send(message): a receiver dropped meanwhile loses it.  The Request
\* is consumed, which gives its permit back.
Deliver ==
    \E r \in routed :
        /\ slot' = IF Open(r.owner) THEN [slot EXCEPT ![r.owner] = {r.msg}]
                                    ELSE slot
        /\ routed' = {}
        /\ permits' = permits + 1
        /\ UNCHANGED <<items, nextId, waiting, pc, rid, history>>

-----------------------------------------------------------------------------
(* timeout(request_timeout, receiver), and the end of the call *)

\* The sender of c's channel still exists.
SenderAlive(c) ==
    \/ \E i \in DOMAIN items : items[i].owner = c
    \/ \E r \in routed : r.owner = c

Receive(c) ==
    /\ pc[c] = "awaiting"
    /\ slot[c] # {}
    /\ pc' = [pc EXCEPT ![c] = "replied"]
    /\ UNCHANGED <<mapVars, rid, slot, history>>

\* received? : the channel closed with no message in it.
ReceiveClosed(c) ==
    /\ pc[c] = "awaiting"
    /\ slot[c] = {}
    /\ ~SenderAlive(c)
    /\ pc' = [pc EXCEPT ![c] = "recv"]
    /\ UNCHANGED <<mapVars, rid, slot, history>>

\* The deadline passes: `timeout` polls the receiver once more, then drops it.
Expire(c) ==
    /\ pc[c] = "awaiting"
    /\ slot[c] = {}
    /\ SenderAlive(c)
    /\ pc' = [pc EXCEPT ![c] = "expired"]
    /\ UNCHANGED <<mapVars, rid, slot, history>>

\* into_diagnosis of the entry the call's id holds, if any.
Diagnosis(c) ==
    IF rid[c] \in DOMAIN items /\ items[rid[c]].undeclared # {}
    THEN "invalid" ELSE "timedOut"

CancelExpired(c) ==
    /\ pc[c] = "expired"
    /\ Cancel(c, Diagnosis(c))

\* The application drops the future of a call that waits for a permit: the
\* semaphore takes it out of its queue.
AbandonQueued(c) ==
    /\ c \in Abandoners
    /\ \E k \in 1 .. Len(waiting) :
        /\ waiting[k] = c
        /\ waiting' = SubSeq(waiting, 1, k - 1) \o SubSeq(waiting, k + 1, Len(waiting))
    /\ pc' = [pc EXCEPT ![c] = "abandoned"]
    /\ UNCHANGED <<items, nextId, permits, routed, rid, slot, history>>

\* ... or a call suspended further on: it gives back what it holds as locals,
\* a permit not yet in an entry and its receiver.  Its entry stays in the map.
Abandon(c) ==
    /\ c \in Abandoners
    /\ pc[c] \in {"granted"} \cup InFlight
    /\ permits' = permits + (IF pc[c] = "granted" THEN 1 ELSE 0)
    /\ pc' = [pc EXCEPT ![c] = "abandoned"]
    /\ UNCHANGED <<items, nextId, waiting, routed, rid, slot, history>>

-----------------------------------------------------------------------------

\* The steps a call takes on its own once it has been made.
Progress(c) ==
    \/ Acquire(c)
    \/ Insert(c)
    \/ SendOk(c)
    \/ SendFails(c)
    \/ CancelUnsent(c)
    \/ Receive(c)
    \/ ReceiveClosed(c)
    \/ Expire(c)
    \/ CancelExpired(c)

Reader ==
    \/ \E id \in Ids, op \in Opcodes : TakeUndeclared(id, op)
    \/ \E id \in Ids, op \in Opcodes : \E a \in Addressees(id) :
           TakeAnswer(id, [op |-> op, answers |-> a])
    \/ Deliver

Next ==
    \/ \E c \in Calls : Call(c) \/ Progress(c) \/ AbandonQueued(c) \/ Abandon(c)
    \/ Reader

Spec == Init /\ [][Next]_vars

\* Locks and the semaphore are FIFO and timers fire, so a call that can move
\* does; the transport lets every send end; the reader finishes what it took.
\* Nothing obliges the peer to answer or the application to make or drop calls.
Fairness ==
    /\ \A c \in Calls : WF_vars(Progress(c))
    /\ WF_vars(Deliver)

FairSpec == Spec /\ Fairness

-----------------------------------------------------------------------------
(* Properties *)

\* Every variable stays in its type; a call is queued exactly once.
TypeOK ==
    /\ DOMAIN items \subseteq Ids
    /\ items \in [DOMAIN items -> Entry]
    /\ nextId \in Ids
    /\ permits \in Nat
    /\ waiting \in Seq(Calls)
    /\ routed \in SUBSET [owner : Calls, msg : Message]
    /\ pc \in [Calls -> States]
    /\ rid \in [Calls -> Ids \cup {NoId}]
    /\ slot \in [Calls -> SUBSET Message]
    /\ collided \subseteq Calls
    /\ passed \in [Calls -> SUBSET Ids]

\* "The semaphore's count IS the number of live requests"
\* (request_map.rs:12-13): every permit is free, with a call that is about to
\* insert, in an entry, or in the reader's hands, through every failed send,
\* expiry, cancellation, late answer and dropped future.
PermitAccounting ==
    permits + Cardinality(Granted) + Cardinality(DOMAIN items)
            + Cardinality(routed) = Capacity

\* "The semaphore guarantees at least one free slot" (request_map.rs:125):
\* whenever a call is about to insert, the unbounded search for an id ends.
IdAlwaysFree ==
    Granted # {} => \E id \in Ids : id \notin DOMAIN items

\* A call that has returned, whatever its result, leaves no entry behind: its
\* id "MUST be reclaimed immediately" (SPEC.md 7.3).  Only a call whose future
\* was dropped may, and an entry is always filed under its owner's own id.
EntryOwner ==
    \A i \in DOMAIN items :
        /\ rid[items[i].owner] = i
        /\ pc[items[i].owner] \in InFlight \cup {"abandoned"}

\* "A reclaimed id is not reissued until the id space has wrapped" (SPEC.md
\* 7.3; request_map.rs:85-88): of two calls that were given one id, the cursor
\* has gone over every id since the first of them got it.
FullLap ==
    \A c, d \in Calls :
        c # d /\ rid[c] = rid[d] /\ rid[c] # NoId
            => passed[c] = Ids \/ passed[d] = Ids

\* What a call is handed answers it: the opcode is one it declared (SPEC.md
\* 7.3, C17), and a reply that was written for another call reaches it only if
\* the whole id space has been gone over since that other call got its id.
ReplyIsDeclaredAndOwn ==
    \A c \in Calls : \A m \in slot[c] :
        /\ m.op \in Expected[c]
        /\ m.answers = c \/ passed[m.answers] = Ids

Reissued(c) == \E d \in Calls \ {c} : rid[d] = rid[c]

\* While the link is open no waiter's channel is closed under it, and no call
\* reports a collision it did not suffer - unless its id has been reissued
\* (or is itself a reissued one), and a cancellation hits the other's entry.
OutcomeIsOwn ==
    \A c \in Calls :
        pc[c] = "recv" \/ (pc[c] = "invalid" /\ c \notin collided)
            => Reissued(c)

\* An entry whose caller still waits leaves the map only into the reader's
\* hands, as that caller's answer, or by a cancellation of its id: reclaiming
\* abandoned entries (request_map.rs:120-122) never takes it.
LiveWaiterKept ==
    [][\A i \in DOMAIN items :
          Open(items[i].owner) /\ i \notin DOMAIN items'
              => \/ \E r \in routed' : r.owner = items[i].owner
                 \/ \E c \in Calls : rid[c] = i /\ pc'[c] # pc[c]
                                     /\ pc'[c] \in {"unsent", "timedOut", "invalid"}
      ]_vars

\* No caller hangs: with fewer calls that may be dropped than permits, every
\* call that is made ends with a result, against a peer that never answers
\* ("so a silent peer can neither hang the caller indefinitely nor exhaust the
\* id space", SPEC.md 7.3).
EveryCallResolves ==
    \A c \in Calls : pc[c] = "queued" ~> pc[c] \in Results

\* The entry a dropped call left behind goes once another call is made
\* (request_map.rs:120-121), if that one is not dropped too.
AbandonedReclaimed ==
    \A c \in Abandoners, d \in Calls \ Abandoners :
        pc[c] = "abandoned" /\ SenderAlive(c) /\ pc[d] = "queued"
            ~> ~SenderAlive(c)

\* A collision is recorded in the entry and reported from it (request_map.rs:52-54,
\* 164; link.rs:425-430).  A call that expires with one on record and yet reports
\* RequestTimeout has no entry left, and no step takes the entry of such a call
\* but its own end, its answer, an insert of another call once it has stopped
\* waiting, or a cancel by another holder of its id.
CollisionLostToOthers ==
    [][\A c \in collided :
          /\ pc[c] = "expired" /\ pc'[c] = "timedOut"
                => \A i \in DOMAIN items : items[i].owner # c
          /\ \A i \in DOMAIN items :
                items[i].owner = c /\ i \notin DOMAIN items' /\ c \in collided' =>
                    \/ pc'[c] \in {"unsent", "invalid"}
                    \/ \E d \in Calls \ {c} :
                          \/ pc[d] = "granted" /\ pc'[d] = "sending" /\ ~Open(c)
                          \/ rid[d] = i /\ pc'[d] # pc[d]
                                        /\ pc'[d] \in {"unsent", "timedOut", "invalid"}
      ]_vars

\* When no permit is free, whoever waits for one can count on a call that is
\* about to insert, on the reader, or on an entry whose call is still there to
\* end it: fewer dropped calls than permits cannot fill the map, whose entries
\* of dropped calls are reclaimed only by the next insert (request_map.rs:119-122).
SomeoneGivesBack ==
    IsFiniteSet(Abandoners) /\ Cardinality(Abandoners) < Capacity /\ permits = 0 =>
        \/ Granted # {}
        \/ routed # {}
        \/ \E i \in DOMAIN items : pc[items[i].owner] \in InFlight

\* Where a call is on its way to a permit.
PermitStage ==
    [c \in Calls |-> CASE pc[c] = "idle" -> "outside"
                       [] pc[c] = "queued" -> "queued"
                       [] pc[c] = "abandoned" -> "gone"
                       [] OTHER -> "served"]

Semaphore ==
    INSTANCE FairQueue WITH Callers <- Calls, stage <- PermitStage, queue <- waiting

\* insert "waits here rather than failing to find" an id (request_map.rs:83-84):
\* requests get their permits in the order in which they were made, and one that
\* is dropped while it waits takes none.
PermitsAreFair == Semaphore!Spec

-----------------------------------------------------------------------------
(* Statements of the documentation that the code does not keep *)

\* SPEC.md 7.3: "If the deadline expires with a collision recorded, the
\* request MUST fail with LinkError::InvalidResponse ... rather than with
\* RequestTimeout".
RecordedCollisionIsReported ==
    \A c \in collided : pc[c] # "timedOut"

\* error.rs:32, LinkError::Recv: "The link closed before the awaited reply
\* arrived."  In this model the link never closes.
RecvOnlyWhenClosed ==
    \A c \in Calls : pc[c] # "recv"
=============================================================================
