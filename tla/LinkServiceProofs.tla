------------------------- MODULE LinkServiceProofs -------------------------
(***************************************************************************)
(* Proofs about LinkService, for every set of requests and frames: what    *)
(* the users of a link are promised follows from the actions alone.  These *)
(* are lemmas about the contract; that the link keeps it, and them, is     *)
(* proved in DigLinkProofs.                                                *)
(***************************************************************************)
EXTENDS LinkService, SequenceTheorems, TLAPS

\* Every variable stays in its type.
TypeOK ==
    /\ log \in Seq(Frames)
    /\ state \in [Requests -> {"new", "asked", "answered", "failed"}]
    /\ answer \in [Requests -> Nat]
    /\ published \in Seq(Nat)

PromiseInv == TypeOK /\ EachFrameHasOneUse

LEMMA InitPromise == Init => PromiseInv
<1> SUFFICES ASSUME Init PROVE PromiseInv
  OBVIOUS
<1>1. log \in Seq(Frames) /\ published \in Seq(Nat) /\ Len(published) = 0
  BY EmptySeq DEF Init
<1>2. QED
  BY <1>1 DEF Init, PromiseInv, TypeOK, EachFrameHasOneUse

LEMMA NextPromise == PromiseInv /\ [Next]_vars => PromiseInv'
<1> SUFFICES ASSUME PromiseInv, [Next]_vars PROVE PromiseInv'
  OBVIOUS
<1>t. TypeOK /\ EachFrameHasOneUse
  BY DEF PromiseInv
<1>1. ASSUME NEW f \in Frames, Send(f) PROVE PromiseInv'
  <2>1. /\ log' \in Seq(Frames) /\ Len(log) \in Nat /\ Len(log') = Len(log) + 1
        /\ \A n \in 1 .. Len(log) : log'[n] = log[n]
    BY <1>t, <1>1, AppendProperties, LenProperties DEF Send, TypeOK
  <2>2. state' = state /\ answer' = answer /\ published' = published
    BY <1>1 DEF Send
  <2>3. \A n \in 1 .. Len(log) : n \in 1 .. Len(log')
    BY <2>1
  <2>4. QED
    BY <1>t, <2>1, <2>2, <2>3 DEF PromiseInv, TypeOK, EachFrameHasOneUse
<1>2. ASSUME NEW r \in Requests, Ask(r) \/ Fail(r) \/ Answer(r) PROVE PromiseInv'
  BY <1>t, <1>2 DEF Ask, Fail, Answer, PromiseInv, TypeOK, EachFrameHasOneUse
<1>3. ASSUME NEW r \in Requests, NEW n \in 1 .. Len(log), Match(r, n) PROVE PromiseInv'
  <2>1. /\ answer' = [answer EXCEPT ![r] = n] /\ answer[r] = 0 /\ n # 0 /\ n \in Nat
        /\ log[n] \in Messages /\ log[n].op \in Declared[r]
        /\ log' = log /\ state' = state /\ published' = published
    BY <1>t, <1>3, LenProperties DEF Match, TypeOK
  <2>2. /\ \A s \in Requests : answer[s] # n
        /\ \A k \in 1 .. Len(published) : published[k] # n
    BY <1>3 DEF Match, Unused
  <2>3. TypeOK'
    BY <1>t, <2>1 DEF TypeOK
  <2>4. answer'[r] = n /\ \A s \in Requests \ {r} : answer'[s] = answer[s]
    BY <1>t, <2>1 DEF TypeOK
  <2>5. EachFrameHasOneUse'
    BY <1>t, <2>1, <2>2, <2>4 DEF EachFrameHasOneUse
  <2>6. QED
    BY <2>3, <2>5 DEF PromiseInv
<1>4. ASSUME NEW n \in 1 .. Len(log), Publish(n) PROVE PromiseInv'
  <2>1. /\ published' = Append(published, n) /\ log[n] \in Messages /\ n \in Nat
        /\ \A k \in 1 .. Len(published) : published[k] < n
        /\ \A r \in Requests : answer[r] # n
        /\ log' = log /\ state' = state /\ answer' = answer
    BY <1>t, <1>4, LenProperties DEF Publish, Unused, TypeOK
  <2>2. /\ published' \in Seq(Nat) /\ Len(published) \in Nat
        /\ Len(published') = Len(published) + 1 /\ published'[Len(published) + 1] = n
        /\ \A k \in 1 .. Len(published) : published'[k] = published[k]
    BY <1>t, <2>1, AppendProperties, LenProperties DEF TypeOK
  <2>3. \A k \in 1 .. Len(published') : k = Len(published) + 1 \/ k \in 1 .. Len(published)
    BY <2>2
  <2>4. ASSUME NEW k \in 1 .. Len(published')
        PROVE  /\ published'[k] \in 1 .. Len(log) /\ log[published'[k]] \in Messages
               /\ \A j \in 1 .. k - 1 : published'[j] < published'[k]
               /\ \A r \in Requests : answer[r] # 0 => answer[r] # published'[k]
    <3>1. CASE k = Len(published) + 1
      <4>1. \A j \in 1 .. k - 1 : j \in 1 .. Len(published)
        BY <2>2, <3>1
      <4>2. QED
        BY <2>1, <2>2, <3>1, <4>1
    <3>2. CASE k \in 1 .. Len(published)
      <4>1. \A j \in 1 .. k - 1 : j \in 1 .. Len(published)
        BY <2>2, <3>2
      <4>2. QED
        BY <1>t, <2>2, <3>2, <4>1 DEF EachFrameHasOneUse
    <3>3. QED
      BY <2>3, <3>1, <3>2
  <2>5. TypeOK'
    BY <1>t, <2>1, <2>2 DEF TypeOK
  <2>6. EachFrameHasOneUse'
    BY <1>t, <2>1, <2>4 DEF EachFrameHasOneUse
  <2>7. QED
    BY <2>5, <2>6 DEF PromiseInv
<1>5. CASE UNCHANGED vars
  BY <1>t, <1>5 DEF vars, PromiseInv, TypeOK, EachFrameHasOneUse
<1>6. QED
  BY <1>1, <1>2, <1>3, <1>4, <1>5 DEF Next

LEMMA PromiseInvariant == Spec => []PromiseInv
  BY InitPromise, NextPromise, PTL DEF Spec

\* No frame answers two requests, or a request and the application, and every
\* answer is a frame that was sent for an opcode its request declared.
LEMMA FramesUsedOnce == Spec => []EachFrameHasOneUse
  BY PromiseInvariant, PTL DEF PromiseInv

\* How a request ended and what the application was given are not undone.
LEMMA OutcomesStay == Spec => OutcomesAreFinal
<1> DEFINE Final ==
        /\ \A r \in Requests :
             /\ state[r] \in {"answered", "failed"} => state'[r] = state[r]
             /\ answer[r] # 0 => answer'[r] = answer[r]
        /\ Len(published) <= Len(published')
        /\ \A k \in 1 .. Len(published) : published'[k] = published[k]
<1>1. ASSUME TypeOK, Next PROVE Final
  <2>1. Len(published) \in Nat
    BY <1>1, LenProperties DEF TypeOK
  <2>2. ASSUME NEW f \in Frames, Send(f) PROVE Final
    BY <2>1, <2>2 DEF Send
  <2>3. ASSUME NEW r \in Requests, Ask(r) \/ Answer(r) \/ Fail(r) PROVE Final
    BY <1>1, <2>1, <2>3 DEF Ask, Answer, Fail, TypeOK
  <2>4. ASSUME NEW r \in Requests, NEW n \in 1 .. Len(log), Match(r, n) PROVE Final
    BY <1>1, <2>1, <2>4 DEF Match, TypeOK
  <2>5. ASSUME NEW n \in 1 .. Len(log), Publish(n) PROVE Final
    <3>1. published' = Append(published, n) /\ published \in Seq(Nat) /\ n \in Nat
      BY <1>1, <2>5, LenProperties DEF Publish, TypeOK
    <3>2. /\ Len(published') = Len(published) + 1
          /\ \A k \in 1 .. Len(published) : published'[k] = published[k]
      BY <3>1, AppendProperties
    <3>3. state' = state /\ answer' = answer
      BY <2>5 DEF Publish
    <3>4. QED
      BY <2>1, <3>2, <3>3
  <2>6. QED
    BY <1>1, <2>2, <2>3, <2>4, <2>5 DEF Next
<1>2. TypeOK /\ [Next]_vars => [Final]_vars
  BY <1>1
<1>3. QED
  BY PromiseInvariant, <1>2, PTL DEF Spec, OutcomesAreFinal, PromiseInv
=============================================================================
