------------------------------ MODULE DigLink ------------------------------
(***************************************************************************)
(* One DigLink (src/src/link.rs): the requests and their map, which are    *)
(* RequestMap's, joined to the reader task (read_inbound), the bounded     *)
(* channel to the application and the sink every sender shares.            *)
(*                                                                         *)
(* The peer sends what it likes: correlated frames of any opcode on any    *)
(* id, uncorrelated ones, frames that do not decode, frames the reader     *)
(* ignores, and an end (Close, a stream error, or the end of the stream).  *)
(* It may also stop reading, which blocks whoever holds the sink.  The     *)
(* application may stop receiving, drop its receiver, drop the future of a *)
(* request, and drop the link.                                             *)
(*                                                                         *)
(* The outbound limiter is SendPath's: here a send fails, or waits for the *)
(* sink, of its own accord.                                                *)
(***************************************************************************)
EXTENDS Integers, Sequences, FiniteSets

CONSTANTS
    Calls,             \* calls of the request methods
    Abandoners,        \* the calls whose future the application may drop
    Opcodes,           \* message types
    Request,           \* Request[c]: the method called and its reply opcodes
    MaxId,             \* u16::MAX, scaled down
    ChannelCapacity,   \* INBOUND_CHANNEL_CAPACITY, scaled down
    Frames,            \* what the peer may send
    MaxFrames          \* bound: how many frames it sends

Ids == 0 .. MaxId
NoId == -1
NoOpcode == -1
Methods == {"request_raw", "request_dig", "request_infallible", "request_fallible"}

\* A frame by what the reader makes of it: a message it can decode; a control
\* or text frame; a payload that does not decode; the end of the stream.
Frame == [kind : {"message"}, id : Ids \cup {NoId}, op : Opcodes]
            \cup [kind : {"ignored", "malformed", "end"}, id : {NoId}, op : {NoOpcode}]

\* request_dig takes any reply opcodes, the others the types of one or two.
ASSUME RequestAssumption ==
    /\ Request \in [Calls -> [method : Methods, replies : Seq(Opcodes)]]
    /\ \A c \in Calls :
        /\ Request[c].method \in {"request_raw", "request_infallible"}
               => Len(Request[c].replies) = 1
        /\ Request[c].method = "request_fallible" => Len(Request[c].replies) = 2
ASSUME LinkAssumption ==
    /\ Abandoners \subseteq Calls
    /\ MaxId \in Nat \ {0} /\ ChannelCapacity \in Nat \ {0} /\ MaxFrames \in Nat
    /\ Frames \subseteq Frame

VARIABLES
    items, nextId, permits, waiting, routed,            \* RequestMap's map
    pc, rid, slot, collided, passed,                    \* and its calls
    log,         \* the frames the peer has sent, in order
    read,        \* how many of them the reader has taken off the stream
    reader,      \* where the reader is; it holds frame `read` until it is back
    channel,     \* the positions in log of the messages in the channel
    receiver,    \* the application holds the channel's receiver
    linked,      \* some clone of the link exists
    sinkQueue,   \* the sink's lock: its holder and, in order, those waiting
    stalled,     \* the peer reads nothing
    answeredBy,  \* history: the position in log of each call's reply, or 0
    published,   \* history: everything that has entered the channel
    lost         \* history: the messages that reached no one

mapVars == <<items, nextId, permits, waiting, routed, pc, rid, slot, collided, passed>>
readerVars == <<read, reader, channel, published, answeredBy, lost>>
endVars == <<receiver, linked, sinkQueue, stalled>>
vars == <<mapVars, log, readerVars, endVars>>

\* The opcodes a call declares: those of the reply types, or request_dig's own.
Declared == [c \in Calls |-> {Request[c].replies[k] : k \in 1 .. Len(Request[c].replies)}]

Map == INSTANCE RequestMap WITH Expected <- Declared

ReaderStates == {"reading", "decoded", "unmatched", "completing", "ended"}

\* from_parts
Init ==
    /\ Map!Init
    /\ log = <<>>
    /\ read = 0
    /\ reader = "reading"
    /\ channel = <<>>
    /\ receiver = TRUE
    /\ linked = TRUE
    /\ sinkQueue = <<>>
    /\ stalled = FALSE
    /\ answeredBy = [c \in Calls |-> 0]
    /\ published = <<>>
    /\ lost = {}

-----------------------------------------------------------------------------
(* Requests *)

\* A request borrows the link.
Call(c) ==
    /\ linked
    /\ Map!Call(c)
    /\ UNCHANGED <<log, readerVars, endVars>>

\* The rest of request_message, but for the send.
RequestStep(c) ==
    /\ \/ Map!Acquire(c)
       \/ Map!Insert(c)
       \/ Map!CancelUnsent(c)
       \/ Map!Receive(c)
       \/ Map!ReceiveClosed(c)
       \/ Map!Expire(c)
       \/ Map!CancelExpired(c)
    /\ UNCHANGED <<log, readerVars, endVars>>

Queued(c) == \E k \in 1 .. Len(sinkQueue) : sinkQueue[k] = c
HoldsSink(c) == sinkQueue # <<>> /\ Head(sinkQueue) = c

\* Admitted by the limiter, the call queues for the sink's lock ...
LockSink(c) ==
    /\ pc[c] = "sending"
    /\ ~Queued(c)
    /\ sinkQueue' = Append(sinkQueue, c)
    /\ UNCHANGED <<mapVars, log, readerVars, receiver, linked, stalled>>

\* ... or not admitted, it fails.
RefuseSend(c) ==
    /\ ~Queued(c)
    /\ Map!SendFails(c)
    /\ UNCHANGED <<log, readerVars, endVars>>

\* The frame leaves: the peer has to read for that.
FinishSend(c) ==
    /\ HoldsSink(c)
    /\ ~stalled
    /\ Map!SendOk(c)
    /\ sinkQueue' = Tail(sinkQueue)
    /\ UNCHANGED <<log, readerVars, receiver, linked, stalled>>

\* The websocket fails under the holder of the sink.
BreakSend(c) ==
    /\ HoldsSink(c)
    /\ Map!SendFails(c)
    /\ sinkQueue' = Tail(sinkQueue)
    /\ UNCHANGED <<log, readerVars, receiver, linked, stalled>>

\* The queue of the sink without c, if it is there.
Without(c) ==
    IF Queued(c)
    THEN LET k == CHOOSE k \in 1 .. Len(sinkQueue) : sinkQueue[k] = c
         IN  SubSeq(sinkQueue, 1, k - 1) \o SubSeq(sinkQueue, k + 1, Len(sinkQueue))
    ELSE sinkQueue

\* The application drops a request's future, wherever it waits.
Abandon(c) ==
    /\ Map!Abandon(c) \/ Map!AbandonQueued(c)
    /\ sinkQueue' = Without(c)
    /\ UNCHANGED <<log, readerVars, receiver, linked, stalled>>

-----------------------------------------------------------------------------
(* The reader task *)

\* Mutant of AfterMalformed: a frame that does not decode ends the reader.
MalformedIsFatal == "ended"

AfterMalformed == "reading"

\* stream.next() gives the next frame, and what it is decides what follows.
AfterReading(f) ==
    CASE f.kind = "message" -> IF f.id = NoId THEN "unmatched" ELSE "decoded"
      [] f.kind = "malformed" -> AfterMalformed
      [] f.kind = "ignored" -> "reading"
      [] f.kind = "end" -> "ended"

ReadFrame ==
    /\ reader = "reading"
    /\ read < Len(log)
    /\ read' = read + 1
    /\ reader' = AfterReading(log[read + 1])
    /\ UNCHANGED <<mapVars, log, channel, published, answeredBy, lost, endVars>>

\* requests.take: the frame's id has a waiter that declared its opcode ...
TakeAnswer ==
    /\ reader = "decoded"
    /\ \E a \in Map!Addressees(log[read].id) :
           Map!TakeAnswer(log[read].id, [op |-> log[read].op, answers |-> a])
    /\ reader' = "completing"
    /\ answeredBy' = [answeredBy EXCEPT ![items[log[read].id].owner] = read]
    /\ UNCHANGED <<log, read, channel, published, lost, endVars>>

\* Mutant of AfterUndeclared: the frame is recorded and not passed on.
UndeclaredIsDropped == "reading"

AfterUndeclared == "unmatched"

\* ... or one that did not ...
TakeUndeclared ==
    /\ reader = "decoded"
    /\ Map!TakeUndeclared(log[read].id, log[read].op)
    /\ reader' = AfterUndeclared
    /\ UNCHANGED <<log, read, channel, published, answeredBy, lost, endVars>>

\* ... or none.
TakeUnknown ==
    /\ reader = "decoded"
    /\ log[read].id \notin DOMAIN items
    /\ reader' = "unmatched"
    /\ UNCHANGED <<mapVars, log, read, channel, published, answeredBy, lost, endVars>>

\* waiter.send(message); continue
Complete ==
    /\ reader = "completing"
    /\ Map!Deliver
    /\ reader' = "reading"
    /\ UNCHANGED <<log, read, channel, published, answeredBy, lost, endVars>>

\* Mutant of CanTrySend: the reader waits for room in the channel.
WaitsForRoom == ~receiver \/ Len(channel) < ChannelCapacity

\* try_send never waits.
CanTrySend == TRUE

\* Mutant of HasRoom: the channel is unbounded.
HasReceiver == receiver

HasRoom == receiver /\ Len(channel) < ChannelCapacity

\* sender.try_send(unmatched): a full channel, or no receiver, loses the frame.
TrySend ==
    /\ reader = "unmatched"
    /\ CanTrySend
    /\ channel' = IF HasRoom THEN Append(channel, read) ELSE channel
    /\ published' = IF HasRoom THEN Append(published, read) ELSE published
    /\ lost' = IF HasRoom THEN lost ELSE lost \cup {read}
    /\ reader' = "reading"
    /\ UNCHANGED <<mapVars, log, read, answeredBy, endVars>>

\* Mutant of Abortable: dropping the link leaves the reader alone.
NeverAborted == {}

\* The two awaits of the loop, on the stream and on the map's lock.
Abortable == {"reading", "decoded"}

\* inbound_handle.abort() takes effect at an await.
Abort ==
    /\ ~linked
    /\ reader \in Abortable
    /\ reader' = "ended"
    /\ lost' = IF reader = "decoded" THEN lost \cup {read} ELSE lost
    /\ UNCHANGED <<mapVars, log, read, channel, published, answeredBy, endVars>>

-----------------------------------------------------------------------------
(* The application and the peer *)

Receive ==
    /\ receiver
    /\ channel # <<>>
    /\ channel' = Tail(channel)
    /\ UNCHANGED <<mapVars, log, read, reader, published, answeredBy, lost, endVars>>

DropReceiver ==
    /\ receiver
    /\ receiver' = FALSE
    /\ channel' = <<>>
    /\ UNCHANGED <<mapVars, log, read, reader, published, answeredBy, lost,
                   linked, sinkQueue, stalled>>

\* The last clone goes, which no request that runs allows.
DropLink ==
    /\ linked
    /\ \A c \in Calls : pc[c] \in {"idle"} \cup Map!Results
    /\ linked' = FALSE
    /\ UNCHANGED <<mapVars, log, readerVars, receiver, sinkQueue, stalled>>

PeerSends(f) ==
    /\ Len(log) < MaxFrames
    /\ \A k \in 1 .. Len(log) : log[k].kind # "end"
    /\ log' = Append(log, f)
    /\ UNCHANGED <<mapVars, readerVars, endVars>>

PeerStalls ==
    /\ stalled' = ~stalled
    /\ UNCHANGED <<mapVars, log, readerVars, receiver, linked, sinkQueue>>

-----------------------------------------------------------------------------

Reader == ReadFrame \/ TakeAnswer \/ TakeUndeclared \/ TakeUnknown \/ Complete \/ TrySend

Requesting(c) ==
    \/ Call(c) \/ RequestStep(c) \/ LockSink(c) \/ RefuseSend(c)
    \/ FinishSend(c) \/ BreakSend(c) \/ Abandon(c)

Application == Receive \/ DropReceiver \/ DropLink
Peer == PeerStalls \/ \E f \in Frames : PeerSends(f)

Next == Reader \/ Abort \/ (\E c \in Calls : Requesting(c)) \/ Application \/ Peer

Spec == Init /\ [][Next]_vars

\* The runtime polls the reader and aborts it once asked, locks are fair and
\* timers fire; whenever the peer reads, more of the frame being sent leaves.
\* The application need not receive, nor the peer read or send anything.
Fairness ==
    /\ WF_vars(Reader)
    /\ WF_vars(Abort)
    /\ \A c \in Calls :
        /\ WF_vars(RequestStep(c))
        /\ WF_vars(LockSink(c) \/ RefuseSend(c))
        /\ SF_vars(FinishSend(c) \/ (~stalled /\ BreakSend(c)))

FairSpec == Spec /\ Fairness

-----------------------------------------------------------------------------
(* What the typed methods make of a reply *)

Reply(c) == (CHOOSE m \in slot[c] : TRUE).op

\* T::from_bytes, of a body that may be no T.
Parsed(as) == {as, "Streamable"}

\* request_raw, request_dig: the message, unparsed.
RawOutcomes(c) == {"message"}

InfallibleOutcomes(c) ==
    IF Reply(c) # Request[c].replies[1] THEN {"InvalidResponse"} ELSE Parsed("accepted")

FallibleOutcomes(c) ==
    IF Reply(c) = Request[c].replies[1] THEN Parsed("accepted")
    ELSE IF Reply(c) = Request[c].replies[2] THEN Parsed("rejected")
    ELSE {"InvalidResponse"}

\* What a call that was handed a reply may return.
Outcomes(c) ==
    CASE Request[c].method = "request_infallible" -> InfallibleOutcomes(c)
      [] Request[c].method = "request_fallible" -> FallibleOutcomes(c)
      [] OTHER -> RawOutcomes(c)

-----------------------------------------------------------------------------
(* Properties *)

\* Every variable stays in its type.
TypeOK ==
    /\ Map!TypeOK
    /\ log \in Seq(Frames)
    /\ read \in 0 .. Len(log)
    /\ reader \in ReaderStates
    /\ channel \in Seq(1 .. read)
    /\ receiver \in BOOLEAN
    /\ linked \in BOOLEAN
    /\ sinkQueue \in Seq(Calls)
    /\ stalled \in BOOLEAN
    /\ answeredBy \in [Calls -> 0 .. read]
    /\ published \in Seq(1 .. read)
    /\ lost \subseteq 1 .. read

Published == {published[k] : k \in 1 .. Len(published)}
Answering == {answeredBy[c] : c \in Calls} \ {0}
InHand == IF reader \in {"decoded", "unmatched"} THEN {read} ELSE {}

\* "Anything not matching a live waiter goes to the application" (link.rs:484):
\* of the messages the reader has taken off the stream, each is in its hands,
\* has gone to one request, has gone to the application, or was dropped for
\* want of room or of a receiver, and none is in two of these places.
EveryMessageAccounted ==
    /\ Published \cup Answering \cup lost \cup InHand = {n \in 1 .. read : log[n].kind = "message"}
    /\ Published \cap Answering = {} /\ Published \cap lost = {}
    /\ Answering \cap lost = {} /\ InHand \cap (Published \cup Answering \cup lost) = {}

\* The channel is bounded, and the application receives what is in it in the
\* order in which the peer sent it, whatever the reader did in between.
ChannelInOrder ==
    /\ Len(channel) <= ChannelCapacity
    /\ \A j, k \in 1 .. Len(published) : j < k => published[j] < published[k]
    /\ receiver => \E k \in 0 .. Len(published) :
                       channel = SubSeq(published, k + 1, Len(published))

\* "`request_message` only resolves on a declared opcode, so this cannot fire
\* today" (link.rs:362-363): the last arm of request_infallible and of
\* request_fallible is unreachable, although what keeps it so is in the map
\* and in what the reader does with it.
LastArmUnreachable ==
    \A c \in Calls : pc[c] = "replied" => "InvalidResponse" \notin Outcomes(c)

\* Where a request is, as its caller sees it.
ServiceState ==
    [c \in Calls |-> CASE pc[c] = "idle" -> "new"
                       [] pc[c] = "replied" -> "answered"
                       [] pc[c] \in Map!Results \ {"replied"} -> "failed"
                       [] OTHER -> "asked"]

\* The link as its users see it.
Service ==
    INSTANCE LinkService
        WITH Requests <- Calls, state <- ServiceState, answer <- answeredBy,
             Messages <- {f \in Frames : f.kind = "message"}

\* The two sides' ids collide; still a request ends once, with a frame it
\* declared and no one else is given, and the application sees the rest in
\* order: the link implements LinkService.
ImplementsService == Service!Spec

\* Where a call is on its way through the sink.
SinkStage ==
    [c \in Calls |-> CASE pc[c] \in {"idle", "queued", "granted"} -> "outside"
                       [] pc[c] = "sending" -> IF Queued(c) THEN "queued" ELSE "outside"
                       [] pc[c] \in {"sendFailed", "unsent", "abandoned"} -> "gone"
                       [] OTHER -> "served"]

Sink == INSTANCE FairQueue WITH Callers <- Calls, stage <- SinkStage, queue <- sinkQueue

\* The requests go through the sink as SendPath's calls do: one at a time, in the
\* order in which they came to it, and a request that is dropped there, whatever
\* the peer and the map do meanwhile, does not keep it (link.rs:310-315).
SinkIsFair == Sink!Spec

Ends(n) == \E k \in 1 .. Len(log) : k <= n /\ log[k].kind = "end"

\* The reader has read frame n and put it where it belongs.
Routed(n) == read > n \/ (read = n /\ reader \in {"reading", "ended"})

\* "A full inbound channel drops the frame instead of parking the loop" and
\* "a frame that does not decode is skipped, not fatal" (link.rs:505-517): the
\* reader gets done with every frame sent before the stream's end, whatever
\* came before it and though the application receives nothing and the sink is
\* stuck, until the link is dropped.
EveryFrameRouted ==
    \A n \in 1 .. MaxFrames :
        n <= Len(log) ~> Routed(n) \/ Ends(n) \/ ~linked

\* Dropping the last clone stops the reader (link.rs:148-152), though the peer
\* sends no end.
DroppedLinkStops == ~linked ~> reader = "ended"

\* "The wait is bounded by request_timeout" (link.rs:403): every request that
\* is made ends, before the end of the stream or after it, with the map full
\* or not, provided that the peer does not stop reading for good.
EveryCallEnds ==
    []<>~stalled => \A c \in Calls : pc[c] = "queued" ~> pc[c] \in Map!Results

\* SPEC.md 7.3: "Every request MUST carry a deadline ... so a silent peer can
\* neither hang the caller indefinitely nor exhaust the id space".
EveryRequestHasDeadline ==
    \A c \in Calls : pc[c] = "queued" ~> pc[c] \in Map!Results
=============================================================================
