# dig-peer-protocol: TLA+ specifications

This directory holds the TLA+ models of `dig-peer-protocol`, the DIG Network's
peer wire (`src/` in the paths below is the repository's root, so the crate's
own sources are `src/src/*.rs`), the TLC configurations that check them, and
the TLAPS proofs about them.

## 1. The system

A `DigLink` is one websocket connection to one peer. Every clone shares

* a **sink** behind a mutex, written by every sender;
* a **reader task** that owns the stream half and runs until the stream ends;
* a **RequestMap**: `HashMap<u16, Request>` behind a mutex, an allocation
  cursor behind another, and a semaphore of `u16::MAX` permits;
* an **outbound rate limiter** behind a mutex;
* a **bounded channel** of 32 messages from the reader to the application.

| Component | State | Operations | Interacts with |
|---|---|---|---|
| `RequestMap` (`request_map.rs`) | `items`, `next_id`, `capacity` | `insert`, `take`, `cancel`; `Request::send`, `into_diagnosis` | `request_message` and the reader, through a oneshot channel per request |
| `OpcodeRateLimiter` (`rate_limit.rs`) | period, two sums per opcode, two aggregate sums | `admit`, `allow`, `roll_window` | the wall clock; `send_message` |
| `DigLink` send path (`link.rs`) | sink, limiter | `send`, `send_dig`, `send_message`, `close` | limiter, sink |
| `DigLink` requests (`link.rs`) | one oneshot channel and one deadline per call | `request_raw`, `request_dig`, `request_infallible`, `request_fallible`, all `request_message` | RequestMap, send path |
| `read_inbound` (`link.rs`) | the stream, the message in hand | decode, route, drop | RequestMap, application channel |
| `DigMessage` (`dig_message.rs`) | none | `to_bytes`, `from_bytes`, `from_bytes_owned` | reader, send path |
| `Bytes`, `NodeType`, `DigMessageType`, opcodes, introducer messages | none | encodings and opcode tests | application |
| Construction and TLS | none of its own | `connect`, `from_websocket`, `from_server_websocket` | libraries |

What is hard in it:

* a request is spread over several tasks: its caller, the reader, and any
  other caller whose `insert` reclaims abandoned entries. Each step is under a
  lock, no two steps are;
* a caller can be dropped at any await, and what it holds goes back in parts:
  its receiver at once, its map entry only at someone else's `insert`;
* ids are 16 bits, reused, and chosen by both peers from 0; replies may come
  late, twice or never;
* the limiter's two verdicts of refusal demand opposite behaviour and come
  from two conditions written out separately; its windows are those of a wall
  clock that may be set back.

`PROJECT.json` lists these as hazards, each at its line, with the properties
that watch it.

What makes each component correct:

* RequestMap: permits are neither leaked nor minted; a call that is granted
  finds a free id; an id is not reissued before a full lap of the id space;
  what a caller is handed is a declared opcode and, short of a lap, its own
  reply; a live waiter is never reclaimed; every call ends;
* limiter: budgets hold in every window; a refusal is of the right kind and
  stands for the window; a fresh window refuses nothing it could ever admit;
  refusals are charged inbound and not outbound;
* send path: nothing is written that was not admitted; the budget is charged
  once per admission; a sender gives up only when others took the budget;
  every call ends if writes do;
* reader: every frame is routed whatever the application does; no message is
  used twice or lost but for want of room; one bad frame costs that frame; the
  reader ends with the link;
* the link as a whole: a request ends once, with a frame it declared and no one
  else is given, and the application sees its frames in order;
* codecs: decoding inverts encoding within the cap, both decoders agree, nothing
  is read past the buffer, and an opcode, a role or an introducer's body is never
  taken for another.

## 2. Modules

| Module | What it is | Checked by | Proved in |
|---|---|---|---|
| `RequestMap` | the map, `request_message`, the reader's routing of correlated frames | `MCRequestMap` (five cfg files) | `RequestMapProofs` |
| `OpcodeRateLimiter` | tables, `roll_window`, `admit`, both directions, a movable clock | `MCOpcodeRateLimiter` (two) | `OpcodeRateLimiterProofs` |
| `SendPath` | `send_message` and `close`: several calls over one limiter (an `INSTANCE` of `OpcodeRateLimiter`) and one sink | `MCSendPath` (one) | `SendPathProofs` |
| `LinkService` | what a link promises its users, with no map, reader, locks or sink | through `DigLink` | `LinkServiceProofs` |
| `FairQueue` | what the link relies on from tokio's fair queues, the map's semaphore and the sink's lock | through `SendPath` | `FairQueueProofs` |
| `DigLink` | one link: `RequestMap` (an `INSTANCE`) joined to the reader, the bounded channel and the shared sink | `MCDigLink` (three) | `DigLinkProofs` |
| `DigMessage` | the envelope's encoder and borrowing decoder, `Bytes`' own encoding, as operators over bytes | through `Wire` | |
| `Opcodes` | consensus opcodes, the band, roles of peers | through `Wire` | |
| `Wire` | a frame's way through `from_bytes_owned` and, for the introducer's messages, the body parser | `MCWire` (one) | `WireProofs`, `RegistrationProofs` |

### RequestMap

| Model | Code |
|---|---|
| `items` | the `HashMap`; an entry's `owner` stands for the sender and `expected` it holds |
| `permits`, `waiting` | the semaphore: free permits and its FIFO queue |
| `routed` | the `Request` that `take` returned and `waiter.send` has not consumed |
| `pc`, `rid`, `slot` | a call's position, the id `insert` returned to it, its oneshot channel |
| `Call`, `Acquire`, `Insert` | `insert` up to the semaphore, the acquired permit, everything under the items lock |
| `SendOk`, `SendFails`, `CancelUnsent` | `send_message`'s result and the cancel after a failure |
| `TakeUndeclared`, `TakeAnswer`, `Deliver` | the two outcomes of `take` that touch the map; `Request::send` |
| `Receive`, `ReceiveClosed`, `Expire`, `CancelExpired` | the outcomes of `timeout(.., receiver)` and the cancel after an expiry |
| `AbandonQueued`, `Abandon` | the application drops the call's future |

Each action is one critical section or one resumption of a future. `timeout`
drops the receiver when it expires and `cancel` takes the lock afterwards, so
these are two steps. The cursor's lock is only ever taken inside the items
lock, so it adds no interleaving. `take` on an id nobody holds changes nothing
and is left out. The peer may answer any call that was given the id in question,
any number of times, and send any opcode on any id. `collided` and `passed` are
history variables: what a call suffered, and which ids the cursor has gone over
since the call got its own.

The call's deadline is not measured: it may pass at any moment of the wait,
which includes every moment it really can.

### OpcodeRateLimiter

| Model | Code |
|---|---|
| `period`, `counts`, `cumulativeSizes`, `nonTxCount`, `nonTxSize`, `direction` | the fields of `OpcodeRateLimiter` |
| `clock`, `ClockMoves` | `SystemTime::now()`, which may be set forward or back |
| `Rekey`, `Tx`, `Other`, `Limit` | `OpcodeRateLimits::from` and the table lookup in `admit` |
| `Current`, `Rolled`, `NextPeriod` | `roll_window` |
| `FitsAnEmptyWindow`, `FitsThisWindow`, `Verdict`, `IsCharged`, `Admit` | `admit` |

Budgets are `limit * limit_factor` in `f64`; the model multiplies comparisons
out and takes limits to be natural numbers and the factor a fraction. Every sum
the code makes is of integers far below 2^53, so its additions are exact; the
products `limit * 0.6` are rounded in the code and exact here. The
`u32::try_from(len)` clamp is left out, as no limit comes near 2^32.
`offered`, `admitted`, `refused`, `calls`, `calledIn` and `last` are history:
what has been offered and admitted since a call first fell into the window of
the last call, kept apart from the limiter's own counters.

### SendPath

| Model | Code |
|---|---|
| `Start`, `Deadline` | entering `send_message`, `Instant::now() + send_timeout`; entering `close` |
| `Poll`, `AfterDeferral`, `GivesUp` | one turn of the loop: `admit` under the limiter's lock and what follows from its verdict |
| `Wake` | `sleep(RATE_LIMIT_BACKOFF)` ends, on time or late |
| `sinkQueue`, `LockSink` | the sink's FIFO mutex: holder first, then those waiting |
| `Write`, `Flush`, `WriteFails` | `Sink::send`, which hands the frame over and then flushes it, or fails at either |
| `Drop`, `DropAtSink` | the application drops a call's future; a frame already handed over stays |
| `wire` | the frames handed to the websocket, in order |

The limiter is `OpcodeRateLimiter` with its operators evaluated on `SendPath`'s
variables; what that module keeps for its own properties is given constants.
The wall clock the limiter reads and the `Instant` of the deadline are one
variable `now` here: a clock that is set back is the limiter's own run. A
caller waiting for the limiter's lock is one whose `Poll` has not happened yet,
as the lock is never held across an await. `admittedAt` is history. `send` and
`send_dig` only build the message.

### DigLink and LinkService

| Model | Code |
|---|---|
| `Map!...` | the `RequestMap` and the calls of `request_message`, with all their steps |
| `Request`, `Declared` | the method called and the reply opcodes it passes to `request_message` |
| `log`, `read`, `reader` | the stream, how much of it the reader has taken, and where the reader is |
| `ReadFrame`, `AfterReading` | `stream.next()` and the `match` on what it gives |
| `TakeAnswer`, `TakeUndeclared`, `TakeUnknown`, `Complete` | `requests.take` and its three outcomes; `waiter.send` |
| `channel`, `receiver`, `TrySend` | the bounded channel and `try_send` into it |
| `linked`, `DropLink`, `Abort` | the clones of the link, and `abort()` of the reader once the last is dropped |
| `sinkQueue`, `LockSink`, `FinishSend`, `BreakSend`, `RefuseSend` | the sink's FIFO lock and what `send_message` comes to |
| `Outcomes` | what `request_raw`, `_dig`, `_infallible` and `_fallible` make of a reply |
| `Abandon`, `Receive`, `DropReceiver` | the application drops a request's future, receives, or drops the receiver |

The reader takes effect at its awaits: on the stream and on the map's lock. An
abort is possible there and nowhere else, so a message that was taken for a
request always reaches its oneshot. A frame is what the reader makes of it: a
message with or without an id, one that does not decode, one that is ignored
(ping, pong, text), or the end (Close, an error, the end of the stream). The
limiter is left to `SendPath`; to a request here it is a send that may fail
before it queues for the sink. `answeredBy`, `published` and `lost` are history.

`LinkService` is the same link without the mechanism: a request is asked, may be
matched with a frame it declared that no one has had, and ends once; the
application is given unused messages in their order. It promises no more than
that: a request that has ended may still be matched with a reply, which is then
lost (the reader takes a waiter out of the map before it knows that its caller
gave up).

### FairQueue

Requests wait in two places for their turn: for a permit of the map's semaphore and
for the sink's lock. The code relies at both on the order in which tokio serves
them, and on a dropped future leaving the queue. `FairQueue` is that contract for
any set of callers: one joins at the end, the first is served, any may give up.

| Model | Stage of a call | Queue |
|---|---|---|
| `RequestMap!Semaphore` | `PermitStage`: queued while it waits for a permit, served once it has one | `waiting` |
| `SendPath!Sink` | `SinkStage`: queued from coming to the lock to the end of its write | `sinkQueue`, its holder first |
| `DigLink!Sink` | `SinkStage`, with a request's position in `request_message` | `sinkQueue` |

`DigLink` takes `send_message` to be a call that may fail before it comes to the
sink and otherwise queues there, and `SendPath` has all of `send_message`. That both
implement `FairQueue` at the sink is how the two meet.

### DigMessage, Opcodes and Wire

| Model | Code |
|---|---|
| `ToBytes`, `HeaderBytes`, `U16Bytes`, `U32Bytes` | `to_bytes` |
| `FromBytes`, `LengthOffset` | `from_bytes`, written as one expression over the whole buffer |
| `ReadHeader`, `ReadId`, `ReadLength`, `Drain` | `from_bytes_owned`, one step for each field, each with its own bounds test |
| `CheckedAdd` | `checked_add`, in a `usize` that ends at `UsizeMax` |
| `Stream`, `Parse` | `Bytes`' `Streamable` |
| `ALL`, `Discriminant`, `TryFrom`, `Deserialize`, `Narrowed` | `DigMessageType`, its conversions and its serde visitor |
| `IsDigOpcode`, `IsDigExtension`, `IsChiaStandard`, `AllDigOpcodes` | the band's tests and tables, in two files |
| `ToByte`, `FromByte` | `NodeType` |
| `RegisterPeerMessage`, `RegisterAckMessage` | the two `to_dig_message` |
| `Dispatch`, `ParseIp`, `ParsePort`, `ParseNodeType`, `ParseSuccess`, `ParseEnd` | the two `from_dig_message`, field by field |

The two decoders are two texts in the code and two definitions here; that they
agree is a property and not an assumption. Bytes are numbers and lengths are
taken from them as the code takes them, so a length field that lies, an offset
that overflows and a flag that is neither 0 nor 1 all occur. `touched` is
history: the end of the furthest range the decoder indexed or drained, which
would panic past the buffer. `origin` is history: what the sender encoded.
The parsers of `u8`, `u16`, `bool` and `String` and `Streamable::from_bytes`,
which refuses a body with bytes left over, are the library's and modelled from
how they are used. The byte sequences that are UTF-8 are a constant, `Strings`; all
that is assumed of it is that a registration's `ip` is one, as a Rust `String` is.
`MCWire` gives it the sequences of ASCII bytes and has bodies with a byte above
them, 255, which no UTF-8 text holds.

## 3. Runs

Deadlock checking is on in the limiter's runs and off in the others, where every
call is made once, every frame decoded once, and the system then rightly stops.

| Run | Instance | Shows |
|---|---|---|
| `request_map` | 4 calls, one droppable, 3 ids | every safety property of the map: four calls over three ids make the cursor wrap and an id recur while its earlier holder's reply is still possible, and a dropped call's entry is reclaimed at every point |
| `request_map_liveness` | 3 calls, one droppable, 2 permits | `EveryCallResolves`, `AbandonedReclaimed` |
| `request_map_saturated` | 3 calls, two droppable, 2 permits | violated: finding 1 |
| `request_map_diagnosis` | 2 calls | violated: finding 2 |
| `request_map_recv` | 3 calls, 2 ids | violated: finding 3 |
| `rate_limiter` | 4 opcodes (tx, two of other, default), 3 sizes, 2 windows of 2 s, at most 4 calls in a window | every property of the limiter; budgets of two or three messages a window, so 4 calls exhaust the per-opcode, the size and the aggregate budgets, each on its own and together |
| `rate_limiter_aggregate` | the same | violated: finding 4 |
| `send_path` | 2 senders, one droppable, an oversized message and a `close`; one frame of their opcode per window of 2, `send_timeout` 3, backoff 1 | `ChargedOnce`, `WireBudget`, `TimeoutMeansBusy`, `EveryCallEnds`, and the refinement `SinkIsFair`: the two contend for each window, so one is overtaken until its deadline (that the other needs the same budget is for the proof to tell: here all do); every step can be late, fail or be dropped |
| `dig_link` | a request of each typed kind, one droppable, 3 ids, 2 frames of any kind on ids 0, 1 or none, a channel of 1 | `EveryMessageAccounted`, `ChannelInOrder`, `LastArmUnreachable`, and the refinement `ImplementsService` |
| `dig_link_liveness` | the same requests, none droppable, 2 ids, 2 frames | `EveryFrameRouted`, `DroppedLinkStops`, `EveryCallEnds` |
| `dig_link_stalled` | the same, 3 frames | violated: finding 5 |
| `wire` | all 256 opcodes with and without an id; ids at the ends of `u16`; payloads of 0, 1, 7, 8 and 9 bytes under a cap of 8; every frame of up to 8 bytes with values 0 to 2; cut, padded and overflowing frames; well- and ill-formed introducer bodies; integers from -57 to 480 as opcodes | the nine properties of `Wire` |

Bounds. `MaxId` is `u16::MAX` scaled down to 1 or 2, with the capacity, one
permit fewer than there are ids, scaled with it: one call more than there are
ids is enough for the cursor to lap. `MaxClock` and `MaxCalls` bound the
limiter's runs and nothing else. `LastStart` and `MaxNow` bound `SendPath`'s
time; `MaxNow` is `LastStart + SendTimeout`, so that every deadline falls within
it. Windows of 2, a timeout of 3 and a backoff of 1 keep the code's order: a
backoff shorter than a window, a timeout longer than one. In `DigLink`
`MaxFrames` bounds what the peer sends and `ChannelCapacity` is 1: two frames
fill the channel and find it full, answer one request twice, answer the two in
either order, or put an undeclared reply or a bad frame before a good one.
`MCWire`'s `MaxMessageSize` of 8 and `UsizeMax` of 15 are such that a payload at
the cap behind an id (8 + 8) overflows an offset, one at the cap without an id
does not (6 + 8), and one over the cap (9) fits a buffer; `UsizeMax` also bounds
the frames. The symmetry sets are permutations of calls that are alike, used in
safety runs only.

**Fairness** (`FairSpec` of RequestMap): weak fairness for each call's own steps
and for the reader's hand-over. Tokio's mutexes and semaphore are FIFO, timers
fire, and the runtime polls a woken task; the model's `SendOk`/`SendFails`
assumes that a send ends, which the code does not bound (a stuck sink is
`DigLink`'s finding 5). The peer is never obliged to answer and the
application never to make or drop a call.

`FairSpec` of DigLink: weak fairness for the reader, for its abort once asked
for, and for the steps of each request by itself. A send gets on when its
request holds the sink and the peer reads; as the peer may stop and resume,
this is strong fairness of `FinishSend` or of a failure while the peer reads: a
write that is polled again whenever there is room for it. The application never
has to receive, and the peer neither to read nor to send, so `EveryCallEnds`
there is stated for a peer that reads again and again, and finding 5 is what
happens with one that does not.

`FairSpec` of SendPath: weak fairness for what each call does by itself (polls,
wake-ups, its place in the sink's FIFO lock), for the passing of time, and for
the end of each write, by the peer's reading or by an error. The last is an
assumption on the transport and not the code's doing.

### Findings

1. **Dropped calls can starve the map** (`request_map.rs:111-122`). Abandoned
   entries are reclaimed by `insert` only after it has a permit, and they hold
   permits. When they hold all of them no later call gets that far. With
   fewer droppable calls than permits every call ends (`EveryCallResolves`).
2. **A recorded collision can be lost** (`request_map.rs:122`, `link.rs:423-430`).
   Between the expiry that drops the receiver and the cancel that reads the
   diagnosis another call's `insert` may reclaim the entry; the caller then sees
   `RequestTimeout` where SPEC.md 7.3 demands `InvalidResponse`. The only other way
   to lose one is the cancel of another holder of the id (`CollisionLostToOthers`).
3. **`Recv` on an open link** (`request_map.rs:177`): a cancel by id can remove
   an entry that was since issued to another call. It takes a lap of the id space
   between an expiry, or a failed send, and its cancel (`OutcomeIsOwn`).
4. **The aggregate budget bites transactions** (`rate_limit.rs:221`): inbound,
   refused frames of other kinds exhaust it and it is tested for every opcode.
5. **A request may wait without a deadline** (`link.rs:310-315`): its deadline
   starts once its send has ended, and neither the wait for the sink's lock nor
   the write is bounded. One peer that stops reading holds the request that is
   writing and all behind it; SPEC.md 7.3 gives every request a deadline.

Two statements of SPEC.md are narrower in the code than in their words, and the
properties say how far they hold. C15 has a late reply reach no later waiter:
it does after a full lap of the cursor, and `ReplyIsDeclaredAndOwn` with
`FullLap` is what the code guarantees. Section 2.2 has every encoded message
decode to itself: `to_bytes` has no cap and the decoders have one, so
`RoundTrip` is stated within it.

## 4. Proofs

The proofs hold for every value of the constants under the modules' named
assumptions.

`RequestMapProofs` proves type correctness and every safety property of
`RequestMap`. The invariant is built in layers, each inductive relative to those
before it:

* `Shape`: the reader holds at most one `Request`, and the semaphore's queue lists queued calls, each once;
* `Ownership` (gives `EntryOwner`): entries and the reader's hands hold distinct
  calls, in flight or abandoned, under their own ids;
* `Accounting` (gives `PermitAccounting`): the four places a permit can be in add up to
  the capacity; with `Capacity = MaxId` this leaves an id free whenever a
  permit is out, which is `IdAlwaysFree`;
* `Laps` (gives `FullLap`): the cursor's walk since a call got its id reaches up to the cursor;
* `Replies` (gives `ReplyIsDeclaredAndOwn`) and `Waiters` (gives `OutcomeIsOwn`);
  `LiveWaiterKept` follows from the same facts as an action property.

`OpcodeRateLimiterProofs` proves type correctness and every property of the
limiter from two facts: `Books`, that the counters are exactly what was admitted
(outbound) or offered (inbound) in the window of the last call, and
`AdmissionMonotone`, that a message admitted beside some traffic would also be
admitted, and a smaller one too, beside less of it. `EmptyWindow` shows that the
two conditions the code writes out separately agree on an empty window, for every
table and factor.

`SendPathProofs` proves type correctness, `ChargedOnce`, `WireBudget` and
`TimeoutMeansBusy` for every number of senders and every setting, the last for
a `send_timeout` that spans a window. It cites the limiter's lemmas through
`INSTANCE`; `LimiterHypotheses` shows that what they assume of the limiter's
constants holds here, and `SameTables` that both instances have the same rows.
`TimeoutMeansBusy` rests on `Books`, that each sum in the limiter comes from a sender
admitted in its window that is charged to it, and that the aggregate ones are in
budget; `DeferredForOthers` concludes that a message is deferred only for a sender
that shares a budget with it.
`ChargedOnce` needs that windows are entered in order (`Ordered`) and that no
one is admitted twice (`Unadmitted`); `WireBudget` adds that what is on the wire
was admitted and written once (`Written`) within the budgets (`Rationed`).

`DigLinkProofs` first proves `ImplementsMap`: whatever the reader, the sink and
the application do, the map sees a behaviour of `RequestMap`, so every theorem of
`RequestMapProofs` holds inside a link, with no proof repeated. On top of it:

* `TypeCorrect`, which has one step per action;
* `MessagesAccounted` from `Custody`: a waiter that is still in the map has had no
  reply, and one with a reply in its channel or in the reader's hands has its
  position in the log. Without it the reader could be taken to overwrite the
  position of an earlier reply, and with it a message would be in no place;
* `ApplicationInOrder`: what is published is ordered and ends before the frame in
  hand, and the channel is its tail;
* `LastArmNeverRuns` from the map's `RepliesAreOwn`: a reply is declared, and each
  typed method declares exactly what it matches on;
* `LinkRefinesService`, the refinement: initial states map to initial states, and
  each action of the link to one of the service's or a stutter. The steps that
  carry it are `TakeAnswer` to `Match`, `TrySend` to `Publish`, and the ends of a
  call to `Answer` or `Fail`; the side conditions (the frame is unused, and is a
  message the call declared) come from the two invariants above.

`WireProofs` proves eight of `Wire`'s nine properties, for all frames, every cap
that four bytes can express and every size of the address space. At its core are
four lemmas about bytes:
`Layout` (where each field of an encoding lies), `FromBytesIs` (which frames are
accepted, and as what), `Reencodes` (what is accepted encodes to its frame) and
`Recovers` (a frame that encodes an envelope within the cap is accepted as that
envelope). The invariant then says that the step the decoder has got to
determines its offset, id and length as functions of the frame (`CursorInv`), so
that its last step is `from_bytes`; that a body's cursor stays inside the body,
which is one of the opcode being parsed (`BodyInv`); and that a frame is the
encoding of what was sent (`HistoryInv`). `OneBand` and `TagsReadBack` go through the tables
entry by entry (`OpcodeTable`, `TryFromIs`, `AssignedIs`).

`RegistrationProofs` proves the ninth, `RegistrationExact`. Its invariant,
`ProgressInv`, says what the parser has read so far as a function of the body: the
text, the port and the role are those at the body's own positions, and the cursor is
where the last of them ends. `Rebuilt` then puts an accepted body together again
from what was read of it, and `Delivered` takes a registration that was sent
through every field of the parser (`SentInv`).

That permits and the sink are given in order (`PermitsInOrder`, `SinkServesInOrder`
twice) takes two parts. `FairQueueProofs` has the lemmas about the contract, for any
set of callers: a fair queue holds those that wait, each once (`OnlyTheQueuedWait`,
from `QueueInv`), and where a caller leaves, by being served or by giving up, the
positions of the others keep their order (`FirstComeFirstServed`). They say nothing of
the code; what does is that its queues keep the contract. `RequestMapProofs`, `SendPathProofs`
and `DigLinkProofs` each prove that of theirs (`PermitsImplementQueue`,
`SinkImplementsQueue` twice), and the lemmas then hold of it. `OneWriterAtATime` adds
that whoever is between handing over a frame and the end of its write holds the sink
(`WriterHolds`), so that frames are not interleaved on the wire.

`PromisesKept` says that the link gives no frame twice and that outcomes are final. It
is what the refinement is for: `LinkServiceProofs` has both promises as lemmas about
the contract, where there is no map, reader or lock to think about, and
`LinkRefinesService` carries them over to the link.

Six more theorems say what no run does:

* `MapKeepsItsWord` states the map's properties of the map inside the link, where
  its reader, its peer and its sink are those of `DigLink`;
* `ReaderIsNeverStuck`: whenever the reader has a frame or a `Request` in its
  hands, the guard of one of its steps is true. Its invariant is that it is
  between `take` and `send` exactly when it holds a `Request` (`Handover`); that an
  entry has an owner whose id is the entry's comes from the map's `Ownership`. It is
  the part of `EveryFrameRouted` that needs no fairness, stated on guards as ENABLED
  is out of the prover's reach;
* `SaturationNeedsDrops` (in `RequestMapProofs`) is the same for the first finding: as
  long as fewer calls can be dropped than there are permits, a map without a free one
  has a permit in use by the reader or by a call that is still in flight. With as
  many such calls as permits TLC finds it violated;
* `CollisionsLostToOthers` says how far the statement of the second finding holds: an
  entry has the collision of its owner on record (`Recorded`), so a call that expires
  with one and reports `RequestTimeout` has no entry left, and what took it was another
  call's `insert` after the expiry or another holder's `cancel` of the id;
* `ResultsHold` (in `SendPathProofs`): what a sender is told is so. `Sent` means on the
  wire; refused or timed out means neither on the wire nor charged, so that a second
  call cannot make two frames of one; and `Unsendable` is said only of
  messages that no window would admit;
* `FramesAreUnambiguous` (in `WireProofs`): no envelope is encoded as another is, or as
  the beginning of another.

Proved, and in no run: `PermitsAreFair` and `DigLink`'s `SinkIsFair`, which are
`FairQueue` again, that `send_path` checks at the sink; `SomeoneGivesBack`,
`CollisionLostToOthers` and `ResultsAreTrue`; and the promises of `FairQueue` and
`LinkService`, which `PermitsInOrder`, `SinkServesInOrder` and `PromisesKept` state of
the map, the sink and the link.

Only model-checked: liveness (`EveryCallResolves`, `AbandonedReclaimed`,
`EveryFrameRouted`, `DroppedLinkStops`, `EveryCallEnds`), since it rests on fairness;
and that the code violates the statements of the findings, which takes a
counterexample. Every invariant, action property and refinement that a passing run
checks is a theorem.

## 5. Not modelled

* **Two links joined together.** Each peer is the other's environment in
  `DigLink` and `RequestMap`, where it may send anything at any time on any id,
  which includes all that another link would send; a pair would add no behaviour
  to what the safety properties already cover.
* **TLS, dialling, the websocket handshake, socket addresses**: library I/O. The
  state they leave, that of `from_parts`, is `DigLink`'s `Init`.
* **The limiter inside `DigLink`**: `SendPath` has it; to a request it is a send
  that may fail.
* **Rounding in the limiter's products** (`limit * 0.6`), as said above.
* **Opcodes 63 and 64** of the introducer: structs with a derived encoding and no
  code of their own.
* **Names and views**: `Display`, hex rendering, conversions, the digest of
  `Bytes`, re-exports of the crate root; CI, build and release files.
