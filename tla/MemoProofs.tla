------------------------------ MODULE MemoProofs ------------------------------
(***************************************************************************)
(* The query path implements Memo: every step of ServeDNS is a step of the *)
(* memory or leaves it alone, for every routing, hash, limit, cache size   *)
(* and number of queries. What is known of the phases is in ServeDNSProofs *)
(* (TypeInv, IsolationInv); here is what the mapping needs besides.        *)
(***************************************************************************)
EXTENDS ServeDNSProofs

\* A query that is not running has nothing left over, one that has not been
\* answered has been given nothing, and an entry about to be added holds the
\* message just received.
MemoInv ==
  \A q \in Queries :
    /\ pc[q] = "idle" => asked[q] = NoRequest
    /\ pc[q] \notin {"return", "done"} => reply[q].msg = NoMsg
    /\ pc[q] = "add" => held[q].msg = resp[q]

MemoInvs == TypeInv /\ IsolationInv /\ MemoInv

\* The steps a query takes itself, or NextDNS and the deadline for it.
StepOf(q) ==
  \/ \E r \in Request : Arrive(q, r)
  \/ PassOn(q) \/ GetEntry(q) \/ CheckEntry(q) \/ TakeSlot(q)
  \/ \E x \in Questions, ttl \in RecordTTLs, cacheable, told \in BOOLEAN :
       UpstreamAnswers(q, x, ttl, cacheable, told)
  \/ DeadlinePasses(q) \/ DoFails(q) \/ PackFails(q) \/ DoSucceeds(q) \/ Learn(q)
  \/ Accept(q) \/ AddEntry(q) \/ CountEntry(q) \/ Return(q) \/ QueryEnds(q)

\* A step changes the fields of its own query only.
SameFields(p) ==
  /\ pc'[p] = pc[p] /\ asked'[p] = asked[p] /\ resp'[p] = resp[p]
  /\ held'[p] = held[p] /\ reply'[p] = reply[p]

\* A query's step leaves what the other queries hold.
LEMMA StepFrame ==
  ASSUME TypeInv, NEW q \in Queries, StepOf(q), NEW p \in Queries, p # q
  PROVE  SameFields(p)
<1> USE DEF SameFields, TypeInv, TypeOK, sharedVars, storeVars, exchangeVars, Goto, Replies
<1>1. CASE (\E r \in Request : Arrive(q, r)) \/ PassOn(q) \/ GetEntry(q) \/ CheckEntry(q)
  BY <1>1 DEF Arrive, PassOn, GetEntry, CheckEntry
<1>2. CASE TakeSlot(q)
  BY <1>2 DEF TakeSlot
<1>3. ASSUME NEW x \in Questions, NEW ttl \in RecordTTLs, NEW cacheable \in BOOLEAN,
             NEW told \in BOOLEAN, UpstreamAnswers(q, x, ttl, cacheable, told)
      PROVE  SameFields(p)
  BY <1>3 DEF UpstreamAnswers
<1>4. CASE DeadlinePasses(q) \/ DoFails(q) \/ PackFails(q) \/ DoSucceeds(q) \/ Learn(q)
  BY <1>4 DEF DeadlinePasses, DoFails, PackFails, DoSucceeds, Learn
<1>5. CASE Accept(q) \/ AddEntry(q) \/ CountEntry(q)
  BY <1>5 DEF Accept, AddEntry, CountEntry
<1>6. CASE Return(q) \/ QueryEnds(q)
  BY <1>6 DEF Return, ReturnBy, QueryEnds
<1>7. QED
  BY <1>1, <1>2, <1>3, <1>4, <1>5, <1>6 DEF StepOf

\* Every step keeps it that nothing is left over, and given too early.
LEMMA NextMemoInv ==
  ASSUME TypeInv, MemoInv, [Next]_vars
  PROVE  MemoInv'
<1> DEFINE Holds(p) == /\ pc[p] = "idle" => asked[p] = NoRequest
                       /\ pc[p] \notin {"return", "done"} => reply[p].msg = NoMsg
                       /\ pc[p] = "add" => held[p].msg = resp[p]
<1>1. ASSUME NEW q \in Queries, StepOf(q) PROVE MemoInv'
  <2>1. ASSUME NEW p \in Queries, p # q PROVE Holds(p)'
    BY <1>1, <2>1, StepFrame DEF SameFields, MemoInv
  <2>2. Holds(q)'
    <3> USE DEF TypeInv, TypeOK, MemoInv, sharedVars, storeVars, exchangeVars, Goto, Replies, Bare
    <3>1. CASE (\E r \in Request : Arrive(q, r)) \/ PassOn(q) \/ GetEntry(q) \/ CheckEntry(q)
      BY <3>1 DEF Arrive, PassOn, GetEntry, CheckEntry
    <3>2. CASE TakeSlot(q)
      BY <3>2 DEF TakeSlot
    <3>3. ASSUME NEW x \in Questions, NEW ttl \in RecordTTLs, NEW cacheable \in BOOLEAN,
                 NEW told \in BOOLEAN, UpstreamAnswers(q, x, ttl, cacheable, told)
          PROVE  Holds(q)'
      BY <3>3 DEF UpstreamAnswers
    <3>4. CASE DeadlinePasses(q) \/ DoFails(q) \/ PackFails(q) \/ DoSucceeds(q) \/ Learn(q)
      BY <3>4 DEF DeadlinePasses, DoFails, PackFails, DoSucceeds, Learn
    <3>5. CASE Accept(q)
      BY <3>5 DEF Accept
    <3>6. CASE AddEntry(q) \/ CountEntry(q)
      BY <3>6 DEF AddEntry, CountEntry
    <3>7. CASE Return(q) \/ QueryEnds(q)
      BY <3>7 DEF Return, ReturnBy, QueryEnds, NoReply
    <3>8. QED
      BY <1>1, <3>1, <3>2, <3>3, <3>4, <3>5, <3>6, <3>7 DEF StepOf
  <2>3. QED
    BY <2>1, <2>2 DEF MemoInv
<1>2. CASE Tick \/ (\E p \in Profiles : ConfChanges(p)) \/ UNCHANGED vars
  BY <1>2 DEF Tick, ConfChanges, vars, exchangeVars, MemoInv
<1>3. QED
  BY <1>1, <1>2 DEF Next, StepOf

\* In every reachable state.
LEMMA MemoInvsHold == Spec => []MemoInvs
<1>1. Init => MemoInv
  BY DEF Init, MemoInv, NoReply, Bare
<1>2. QED
  BY <1>1, NextMemoInv, TypeInvHolds, IsolationHolds, PTL DEF Spec, MemoInvs

-----------------------------------------------------------------------------
(***************************************************************************)
(* What the memory sees of a query, before and after a step.               *)
(***************************************************************************)
Receiving == {"exchange", "learn", "match", "add", "count"}

Seen(q) ==
  /\ Calls[q].state = CallState(pc[q]) /\ Calls[q].request = asked[q] /\ Calls[q].msg = reply[q].msg
  /\ pc[q] = "check" => Hands[q] = held[q].msg
  /\ pc[q] \notin Receiving \cup {"check"} => Hands[q] = NoMsg
  /\ pc[q] \in Receiving /\ resp[q] = NoMsg => Hands[q] = NoMsg
  /\ pc[q] \in Receiving /\ resp[q] # NoMsg /\ Match(resp[q], asked[q])
       => Hands[q] = resp[q]
  /\ pc[q] \in Receiving /\ resp[q] # NoMsg /\ ~Match(resp[q], asked[q])
       => Hands[q] = NoMsg

\* What a query has in hand, before and after a step.
LEMMA SeenHolds == ASSUME NEW q \in Queries PROVE Seen(q) /\ Seen(q)'
<1>1. Hands[q] = InHand(q) /\ Hands'[q] = InHand(q)'
  BY DEF Hands
<1>2. Seen(q)
  BY <1>1 DEF Seen, InHand, Calls, Receiving, Match
<1>3. Seen(q)'
  BY <1>1 DEF Seen, InHand, Calls, Receiving, Match
<1>4. QED
  BY <1>2, <1>3

\* The state of a call, by the place its query is at.
LEMMA CallStates ==
  /\ CallState("idle") = "idle"
  /\ CallState("return") = "answered" /\ CallState("done") = "answered"
  /\ \A label \in Receiving \cup {"get", "check", "identify"} : CallState(label) = "asking"
BY DEF CallState, Receiving

\* The rest of the calls and hands stay as they are.
LEMMA OthersStay ==
  ASSUME TypeInv, NEW q \in Queries, StepOf(q)
  PROVE  /\ Calls' = [Calls EXCEPT ![q] = Calls'[q]]
         /\ Hands' = [Hands EXCEPT ![q] = Hands'[q]]
<1>1. ASSUME NEW p \in Queries, p # q
      PROVE  Calls'[p] = Calls[p] /\ Hands'[p] = Hands[p]
  BY <1>1, StepFrame DEF SameFields, Calls, Hands, InHand, Match
<1>2. QED
  BY <1>1 DEF Calls, Hands

-----------------------------------------------------------------------------
(***************************************************************************)
(* The steps, one memory action each                                       *)
(***************************************************************************)
LEMMA ArrivalMaps ==
  ASSUME MemoInvs, NEW q \in Queries, (\E r \in Request : Arrive(q, r)) \/ PassOn(q)
  PROVE  (\E r \in Request : Memory!Asks(q, r)) \/ Memory!Passes(q)
<1> USE DEF MemoInvs, TypeInv, TypeOK, Goto, Replies, Bare
<1>1. pc[q] = "idle" /\ asked[q] = NoRequest /\ reply[q].msg = NoMsg /\ Memos' = Memos
  BY DEF MemoInv, Arrive, PassOn, Memos, Remembered, sharedVars, storeVars
<1>2. /\ Calls' = [Calls EXCEPT ![q] = Calls'[q]] /\ Hands' = [Hands EXCEPT ![q] = Hands'[q]]
  BY OthersStay DEF StepOf
<1>3. Seen(q) /\ Seen(q)'
  BY SeenHolds
<1>4. ASSUME NEW r \in Request, Arrive(q, r) PROVE Memory!Asks(q, r)
  <2>1. pc'[q] \in {"get", "identify"} /\ asked'[q] = r /\ reply'[q].msg = NoMsg
    BY <1>1, <1>4 DEF Arrive
  <2>2. Hands' = Hands
    <3>1. Hands[q] = NoMsg /\ Hands'[q] = NoMsg
      BY <1>1, <1>3, <2>1 DEF Seen, Receiving
    <3>2. QED
      BY <1>2, <3>1 DEF Hands
  <2>3. Calls'[q] = [state |-> "asking", request |-> r, msg |-> NoMsg]
    BY <2>1, CallStates DEF Calls
  <2>4. QED
    BY <1>1, <1>2, <1>3, <2>2, <2>3, CallStates DEF Memory!Asks, Seen
<1>5. CASE PassOn(q)
  <2>1. pc'[q] = "done" /\ asked'[q] = NoRequest /\ reply'[q].msg = NoMsg
    BY <1>1, <1>5 DEF PassOn
  <2>2. Hands' = Hands
    <3>1. Hands[q] = NoMsg /\ Hands'[q] = NoMsg
      BY <1>1, <1>3, <2>1 DEF Seen, Receiving
    <3>2. QED
      BY <1>2, <3>1 DEF Hands
  <2>3. Calls'[q] = [state |-> "answered", request |-> NoRequest, msg |-> NoMsg]
    BY <2>1, CallStates DEF Calls
  <2>4. QED
    BY <1>1, <1>2, <1>3, <2>2, <2>3, CallStates DEF Memory!Passes, Memory!Given, Seen
<1>6. QED
  BY <1>4, <1>5

\* What each of the memory's actions on one query comes down to.
LEMMA Mapped ==
  ASSUME TypeInv, NEW q \in Queries, StepOf(q), CallState(pc[q]) = "asking"
  PROVE  /\ Memos' = Memos /\ Calls'[q] = Calls[q] /\ Hands'[q] = Hands[q]
              => UNCHANGED Memory!vars
         /\ Memos' = Memos /\ Calls'[q] = Calls[q] /\ Hands'[q] = NoMsg => Memory!Drops(q)
         /\ Calls'[q] = Memory!Given(asked[q], NoMsg) /\ Hands'[q] = NoMsg /\ Memos' = Memos
              => Memory!Fails(q)
         /\ Calls'[q] = Memory!Given(asked[q], Hands[q]) /\ Hands'[q] = NoMsg /\ Hands[q] # NoMsg
              => Memory!Answers(q)
<1>1. /\ Calls' = [Calls EXCEPT ![q] = Calls'[q]] /\ Hands' = [Hands EXCEPT ![q] = Hands'[q]]
  BY OthersStay
<1>2. Calls[q].state = "asking" /\ Calls[q].request = asked[q]
  BY SeenHolds DEF Seen
<1>3. Calls'[q] = Calls[q] => Calls' = Calls
  BY <1>1 DEF Calls
<1>4. Hands'[q] = Hands[q] => Hands' = Hands
  BY <1>1 DEF Hands
<1>5. QED
  BY <1>1, <1>2, <1>3, <1>4
  DEF Memory!vars, Memory!Drops, Memory!Fails, Memory!Answers, Memory!Asking

\* The cache recalls a message kept for this very request, or none.
LEMMA CacheMaps ==
  ASSUME MemoInvs, NEW q \in Queries, GetEntry(q) \/ CheckEntry(q)
  PROVE  \/ Memory!Recalls(q) \/ Memory!Drops(q) \/ (Memory!Answers(q) /\ UNCHANGED Memos)
         \/ UNCHANGED Memory!vars
<1> USE DEF MemoInvs, TypeInv, TypeOK, Goto, Replies
<1>1. /\ Calls' = [Calls EXCEPT ![q] = Calls'[q]] /\ Hands' = [Hands EXCEPT ![q] = Hands'[q]]
  BY OthersStay DEF StepOf
<1>2. Seen(q) /\ Seen(q)'
  BY SeenHolds
<1>3. Memos' = Memos
  BY DEF GetEntry, CheckEntry, Memos, Remembered, sharedVars, storeVars
<1>4. StepOf(q) /\ CallState(pc[q]) = "asking"
  BY CallStates DEF StepOf, GetEntry, CheckEntry
<1>5. CASE GetEntry(q)
  <2>1. /\ pc[q] = "get" /\ asked'[q] = asked[q] /\ reply'[q] = reply[q]
        /\ pc'[q] \in {"check", "identify"} /\ resp' = resp /\ reply[q].msg = NoMsg
    BY <1>5 DEF GetEntry, exchangeVars, MemoInv
  <2>2. Calls'[q] = Calls[q]
    BY <2>1, CallStates DEF Calls
  <2>3. CASE pc'[q] = "identify"
    <3>1. Hands'[q] = Hands[q]
      BY <1>2, <2>1, <2>3 DEF Seen, Receiving
    <3>2. QED
      BY <1>3, <1>4, <2>2, <3>1, Mapped
  <2>4. CASE pc'[q] = "check"
    <3>1. /\ items[Hash[asked[q]]] # NoItem /\ items[Hash[asked[q]]].asked = asked[q]
          /\ held'[q] = items[Hash[asked[q]]] /\ asked[q] \in Request
      BY <1>5, <2>4 DEF GetEntry, Matches
    <3>2. Memos[asked[q]] = items[Hash[asked[q]]].msg /\ Hands'[q] = items[Hash[asked[q]]].msg
      BY <1>2, <2>4, <3>1 DEF Seen, Memos, Remembered
    <3>3. items[Hash[asked[q]]].msg # NoMsg
      <4>1. Hash[asked[q]] \in Keys
        BY <3>1, ServeDNSAssumption
      <4>2. items[Hash[asked[q]]] \in Item
        BY <3>1, <4>1
      <4>3. QED
        BY <4>2, ServeDNSAssumption DEF Item
    <3>4. Calls[q].state = "asking" /\ Calls[q].request = asked[q]
      BY <1>2, <1>4 DEF Seen
    <3>5. Calls' = Calls
      BY <1>1, <2>2 DEF Calls
    <3>6. QED
      BY <1>1, <1>3, <3>2, <3>3, <3>4, <3>5 DEF Memory!Recalls, Memory!Asking
  <2>5. QED
    BY <2>1, <2>3, <2>4
<1>6. CASE CheckEntry(q)
  <2>1. /\ pc[q] = "check" /\ asked'[q] = asked[q] /\ pc'[q] \in {"done", "identify"}
        /\ held[q] \in Item /\ reply[q].msg = NoMsg
    BY <1>6 DEF CheckEntry, MemoInv, Carries
  <2>2. Hands[q] = held[q].msg /\ Hands[q] # NoMsg /\ Hands'[q] = NoMsg
    BY <1>2, <2>1, ServeDNSAssumption DEF Seen, Receiving, Item
  <2>3. CASE pc'[q] = "done"
    <3>1. reply'[q].msg = held[q].msg
      BY <1>6, <2>1, <2>3 DEF CheckEntry
    <3>2. Calls'[q] = Memory!Given(asked[q], Hands[q])
      BY <2>1, <2>2, <2>3, <3>1, CallStates DEF Calls, Memory!Given
    <3>3. QED
      BY <1>3, <1>4, <2>2, <3>2, Mapped
  <2>4. CASE pc'[q] = "identify"
    <3>1. reply'[q] = reply[q]
      BY <1>6, <2>1, <2>4 DEF CheckEntry
    <3>2. Calls'[q] = Calls[q]
      BY <2>1, <2>4, <3>1, CallStates DEF Calls
    <3>3. QED
      BY <1>3, <1>4, <2>2, <3>2, Mapped
  <2>5. QED
    BY <2>1, <2>3, <2>4
<1>7. QED
  BY <1>5, <1>6

\* A query is admitted with nothing in hand, or refused.
LEMMA SlotMaps ==
  ASSUME MemoInvs, NEW q \in Queries, TakeSlot(q)
  PROVE  Memory!Fails(q) \/ UNCHANGED Memory!vars
<1> USE DEF MemoInvs, TypeInv, TypeOK, Goto, Replies, Bare
<1>1. Seen(q) /\ Seen(q)'
  BY SeenHolds
<1>2. Memos' = Memos /\ StepOf(q) /\ CallState(pc[q]) = "asking"
  BY CallStates DEF TakeSlot, StepOf, Memos, Remembered, storeVars
<1>3. /\ pc[q] = "identify" /\ resp[q] = NoMsg /\ resp' = resp /\ asked'[q] = asked[q]
      /\ reply[q].msg = NoMsg
  BY DEF TakeSlot, IsolationInv, MemoInv, exchangeVars
<1>4. Hands[q] = NoMsg
  BY <1>1, <1>3 DEF Seen, Receiving
<1>5. CASE pc'[q] = "exchange" /\ reply' = reply
  <2>1. Hands'[q] = NoMsg
    BY <1>1, <1>3, <1>5 DEF Seen, Receiving
  <2>2. Calls'[q] = Calls[q]
    BY <1>3, <1>5, CallStates DEF Calls, Receiving
  <2>3. QED
    BY <1>2, <1>4, <2>1, <2>2, Mapped
<1>6. CASE pc'[q] = "return" /\ reply'[q].msg = NoMsg
  <2>1. Hands'[q] = NoMsg
    BY <1>1, <1>6 DEF Seen, Receiving
  <2>2. Calls'[q] = Memory!Given(asked[q], NoMsg)
    BY <1>3, <1>6, CallStates DEF Calls, Memory!Given
  <2>3. QED
    BY <1>2, <2>1, <2>2, Mapped
<1>7. QED
  BY <1>5, <1>6 DEF TakeSlot

\* A message that matches the request is obtained; another one is not in hand.
LEMMA UpstreamMaps ==
  ASSUME MemoInvs, NEW q \in Queries, NEW x \in Questions, NEW ttl \in RecordTTLs,
         NEW cacheable \in BOOLEAN, NEW told \in BOOLEAN,
         UpstreamAnswers(q, x, ttl, cacheable, told)
  PROVE  Memory!Obtains(q) \/ UNCHANGED Memory!vars
<1> USE DEF MemoInvs, TypeInv, TypeOK
<1>1. Seen(q) /\ Seen(q)'
  BY SeenHolds
<1>2. Memos' = Memos /\ StepOf(q) /\ CallState(pc[q]) = "asking"
  BY CallStates DEF UpstreamAnswers, StepOf, Memos, Remembered, sharedVars, storeVars, Receiving
<1>3. /\ pc[q] = "exchange" /\ pc'[q] = "exchange" /\ resp[q] = NoMsg
      /\ asked'[q] = asked[q] /\ reply' = reply /\ asked[q] \in Request
      /\ resp'[q] = [for |-> asked[q], question |-> x, conf |-> conf[asked[q].profile],
                     ttl |-> ttl, cacheable |-> cacheable]
  BY DEF UpstreamAnswers
<1>4. resp'[q] \in Msg /\ resp'[q] # NoMsg
  BY <1>3, ServeDNSAssumption DEF Msg, Request
<1>5. Calls'[q] = Calls[q] /\ Hands[q] = NoMsg
  BY <1>1, <1>3 DEF Calls, Seen, Receiving
<1>6. CASE ~Match(resp'[q], asked[q])
  <2>1. Hands'[q] = NoMsg
    BY <1>1, <1>3, <1>4, <1>6 DEF Seen, Receiving
  <2>2. QED
    BY <1>2, <1>5, <2>1, Mapped
<1>7. CASE Match(resp'[q], asked[q])
  <2>1. Hands'[q] = resp'[q]
    BY <1>1, <1>3, <1>4, <1>7 DEF Seen, Receiving
  <2>2. Memory!AnswersTo(Hands'[q], asked[q])
    BY <1>3, <1>4, <1>7, <2>1 DEF Memory!AnswersTo, Match
  <2>3. /\ Calls' = [Calls EXCEPT ![q] = Calls'[q]] /\ Hands' = [Hands EXCEPT ![q] = Hands'[q]]
    BY <1>2, OthersStay
  <2>4. Calls' = Calls
    BY <1>5, <2>3 DEF Calls
  <2>5. Calls[q].state = "asking" /\ Calls[q].request = asked[q]
    BY <1>1, <1>2 DEF Seen
  <2>6. QED
    BY <1>2, <2>2, <2>3, <2>4, <2>5 DEF Memory!Obtains, Memory!Asking
<1>8. QED
  BY <1>6, <1>7

\* An attempt that fails drops what it received; the last one fails the query.
LEMMA ExchangeMaps ==
  ASSUME MemoInvs, NEW q \in Queries,
         DeadlinePasses(q) \/ DoFails(q) \/ PackFails(q) \/ DoSucceeds(q) \/ Learn(q)
  PROVE  Memory!Drops(q) \/ Memory!Fails(q) \/ UNCHANGED Memory!vars
<1> USE DEF MemoInvs, TypeInv, TypeOK, Goto, Replies, Bare
<1>1. Seen(q) /\ Seen(q)'
  BY SeenHolds
<1>2. Memos' = Memos /\ StepOf(q) /\ CallState(pc[q]) = "asking"
  BY CallStates DEF DeadlinePasses, DoFails, PackFails, DoSucceeds, Learn, StepOf, Memos, Remembered,
                    sharedVars, storeVars, Receiving
<1>3. asked'[q] = asked[q] /\ pc[q] \in {"exchange", "learn"} /\ reply[q].msg = NoMsg
  BY DEF DeadlinePasses, DoFails, PackFails, DoSucceeds, Learn, MemoInv
<1>4. CASE DeadlinePasses(q) \/ DoSucceeds(q) \/ Learn(q)
  <2>1. resp' = resp /\ pc'[q] \in {"exchange", "learn", "match"} /\ reply' = reply
    BY <1>4 DEF DeadlinePasses, DoSucceeds, Learn, exchangeVars
  <2>2. Hands'[q] = Hands[q]
    BY <1>1, <1>3, <2>1 DEF Seen, Receiving
  <2>3. Calls'[q] = Calls[q]
    BY <1>3, <2>1, CallStates DEF Calls, Receiving
  <2>4. QED
    BY <1>2, <2>2, <2>3, Mapped
<1>5. CASE DoFails(q) /\ pc'[q] = "exchange" /\ reply' = reply
  <2>1. resp'[q] = NoMsg /\ pc[q] = "exchange"
    BY <1>5 DEF DoFails
  <2>2. Hands'[q] = NoMsg
    BY <1>1, <1>5, <2>1 DEF Seen, Receiving
  <2>3. Calls'[q] = Calls[q]
    BY <1>3, <1>5, <2>1 DEF Calls
  <2>4. QED
    BY <1>2, <2>2, <2>3, Mapped
<1>6. CASE pc'[q] = "return" /\ reply'[q].msg = NoMsg
  <2>1. Hands'[q] = NoMsg
    BY <1>1, <1>6 DEF Seen, Receiving
  <2>2. Calls'[q] = Memory!Given(asked[q], NoMsg)
    BY <1>3, <1>6, CallStates DEF Calls, Memory!Given
  <2>3. QED
    BY <1>2, <2>1, <2>2, Mapped
<1>7. QED
  BY <1>4, <1>5, <1>6 DEF DoFails, PackFails

\* The answer is checked against the question, and given or put in the cache.
LEMMA AcceptMaps ==
  ASSUME MemoInvs, NEW q \in Queries, Accept(q)
  PROVE  Memory!Fails(q) \/ (Memory!Answers(q) /\ UNCHANGED Memos) \/ UNCHANGED Memory!vars
<1> USE DEF MemoInvs, TypeInv, TypeOK, Goto, Replies, Bare, AnswerOf
<1>1. Seen(q) /\ Seen(q)'
  BY SeenHolds
<1>2. Memos' = Memos /\ StepOf(q) /\ CallState(pc[q]) = "asking"
  BY CallStates DEF Accept, StepOf, Memos, Remembered, sharedVars, storeVars, Receiving
<1>3. /\ pc[q] = "match" /\ resp' = resp /\ asked'[q] = asked[q] /\ reply[q].msg = NoMsg
      /\ resp[q] # NoMsg
  BY ServeDNSAssumption DEF Accept, exchangeVars, MemoInv, Carries
<1>4. CASE ~Match(resp[q], asked[q])
  <2>1. pc'[q] = "return" /\ reply'[q].msg = NoMsg
    BY <1>4 DEF Accept
  <2>2. Hands'[q] = NoMsg
    BY <1>1, <2>1 DEF Seen, Receiving
  <2>3. Calls'[q] = Memory!Given(asked[q], NoMsg)
    BY <1>3, <2>1, CallStates DEF Calls, Memory!Given
  <2>4. QED
    BY <1>2, <2>2, <2>3, Mapped
<1>5. CASE Match(resp[q], asked[q]) /\ Cacheable(q)
  <2>1. pc'[q] = "add" /\ reply' = reply
    BY <1>5 DEF Accept
  <2>2. Hands'[q] = Hands[q]
    BY <1>1, <1>3, <1>5, <2>1 DEF Seen, Receiving
  <2>3. Calls'[q] = Calls[q]
    BY <1>3, <2>1, CallStates DEF Calls, Receiving
  <2>4. QED
    BY <1>2, <2>2, <2>3, Mapped
<1>6. CASE Match(resp[q], asked[q]) /\ ~Cacheable(q)
  <2>1. pc'[q] = "return" /\ reply'[q].msg = resp[q]
    BY <1>6 DEF Accept
  <2>2. Hands[q] = resp[q] /\ Hands'[q] = NoMsg
    BY <1>1, <1>3, <1>6, <2>1 DEF Seen, Receiving
  <2>3. Calls'[q] = Memory!Given(asked[q], Hands[q])
    BY <1>3, <2>1, <2>2, CallStates DEF Calls, Memory!Given
  <2>4. QED
    BY <1>2, <1>3, <2>2, <2>3, Mapped
<1>7. QED
  BY <1>4, <1>5, <1>6

\* An insertion writes one key and clears another, if any.
LEMMA AddWritesOne ==
  ASSUME NEW q \in Queries, AddEntry(q)
  PROVE  \E victim : items' = [j \in Keys |-> IF j = Hash[asked[q]] THEN held[q]
                                              ELSE IF j = victim THEN NoItem ELSE items[j]]
<1>1. PICK victim \in IF Full(Hash[asked[q]]) THEN InShard(Shard(Hash[asked[q]]))
                                              ELSE {Hash[asked[q]]} :
        items' = [j \in Keys |-> IF j = Hash[asked[q]] THEN held[q]
                                 ELSE IF j = victim THEN NoItem ELSE items[j]]
  BY Zenon DEF AddEntry, Insert
<1>2. QED
  BY ONLY <1>1, Zenon

\* The entry added is kept for its request; what its key held for another
\* request, and what the victim's key held, is lost.
LEMMA AddMaps ==
  ASSUME MemoInvs, NEW q \in Queries, AddEntry(q)
  PROVE  Memory!Keeps(q) /\ (UNCHANGED <<Hands, Calls>> \/ Memory!Answers(q))
<1> USE DEF MemoInvs, TypeInv, TypeOK, Goto, Replies, AnswerOf
<1>1. Seen(q) /\ Seen(q)'
  BY SeenHolds
<1>2. StepOf(q) /\ CallState(pc[q]) = "asking"
  BY CallStates DEF AddEntry, StepOf, Receiving
<1>3. /\ pc[q] = "add" /\ resp' = resp /\ asked'[q] = asked[q] /\ reply[q].msg = NoMsg
      /\ held[q].msg = resp[q] /\ held[q] \in Item /\ asked[q] \in Request
      /\ resp[q] \in Msg /\ resp[q] # NoMsg /\ held[q] # NoItem
  BY ServeDNSAssumption DEF AddEntry, exchangeVars, MemoInv, Carries
<1>4. Match(resp[q], asked[q]) /\ held[q].asked = asked[q]
  BY <1>3 DEF IsolationInv
<1>5. Hands[q] = resp[q]
  BY <1>1, <1>3, <1>4 DEF Seen, Receiving
<1>6. Memory!Keeps(q)
  <2>1. PICK victim : items' = [j \in Keys |-> IF j = Hash[asked[q]] THEN held[q]
                                              ELSE IF j = victim THEN NoItem ELSE items[j]]
    BY AddWritesOne
  <2>2. ASSUME NEW r \in Request
        PROVE  Memos'[r] = IF r = asked[q] THEN Hands[q]
                           ELSE IF r \in {s \in Request : Hash[s] \in {Hash[asked[q]], victim}}
                             THEN NoMsg ELSE Memos[r]
    <3>1. Hash[r] \in Keys
      BY ServeDNSAssumption
    <3>2. CASE Hash[r] = Hash[asked[q]]
      <4>1. items'[Hash[r]] = held[q]
        BY <2>1, <3>1, <3>2
      <4>2. Memos'[r] = IF asked[q] = r THEN resp[q] ELSE NoMsg
        BY <1>3, <1>4, <4>1 DEF Memos, Remembered
      <4>3. QED
        BY <1>5, <3>2, <4>2
    <3>3. CASE Hash[r] # Hash[asked[q]] /\ Hash[r] = victim
      <4>1. items'[Hash[r]] = NoItem
        BY <2>1, <3>1, <3>3
      <4>2. Memos'[r] = NoMsg
        BY <4>1 DEF Memos, Remembered
      <4>3. QED
        BY <3>3, <4>2
    <3>4. CASE Hash[r] # Hash[asked[q]] /\ Hash[r] # victim
      <4>1. items'[Hash[r]] = items[Hash[r]]
        BY <2>1, <3>1, <3>4
      <4>2. Memos'[r] = Memos[r]
        BY <4>1 DEF Memos, Remembered
      <4>3. QED
        BY <3>4, <4>2
    <3>5. QED
      BY <3>2, <3>3, <3>4
  <2>3. Calls[q].state = "asking" /\ Calls[q].request = asked[q]
    BY <1>1, <1>2 DEF Seen
  <2>4. Memos' = [r \in Request |->
                    IF r = Calls[q].request THEN Hands[q]
                    ELSE IF r \in {s \in Request : Hash[s] \in {Hash[asked[q]], victim}}
                      THEN NoMsg ELSE Memos[r]]
    BY <2>2, <2>3 DEF Memos
  <2>5. QED
    BY <1>3, <1>5, <2>3, <2>4 DEF Memory!Keeps, Memory!Asking
<1>7. /\ Calls' = [Calls EXCEPT ![q] = Calls'[q]] /\ Hands' = [Hands EXCEPT ![q] = Hands'[q]]
  BY <1>2, OthersStay
<1>8. CASE pc'[q] = "count" /\ reply' = reply
  <2>1. Hands'[q] = Hands[q]
    BY <1>1, <1>3, <1>4, <1>5, <1>8 DEF Seen, Receiving
  <2>2. Calls'[q] = Calls[q]
    BY <1>3, <1>8, CallStates DEF Calls, Receiving
  <2>3. Hands' = Hands /\ Calls' = Calls
    BY <1>7, <2>1, <2>2 DEF Hands, Calls
  <2>4. QED
    BY <1>6, <2>3
<1>9. CASE pc'[q] = "return" /\ reply'[q].msg = resp[q]
  <2>1. Hands'[q] = NoMsg
    BY <1>1, <1>9 DEF Seen, Receiving
  <2>2. Calls'[q] = Memory!Given(asked[q], Hands[q])
    BY <1>3, <1>5, <1>9, CallStates DEF Calls, Memory!Given
  <2>3. Memory!Answers(q)
    BY <1>2, <1>3, <1>5, <2>1, <2>2, Mapped
  <2>4. QED
    BY <1>6, <2>3
<1>10. QED
  BY <1>8, <1>9 DEF AddEntry

\* The entry counted, the answer is given; then the query is over.
LEMMA EndMaps ==
  ASSUME MemoInvs, NEW q \in Queries, CountEntry(q) \/ Return(q) \/ QueryEnds(q)
  PROVE  \/ (Memory!Answers(q) /\ UNCHANGED Memos)
         \/ Memory!Leaves(q)
         \/ UNCHANGED Memory!vars
<1> USE DEF MemoInvs, TypeInv, TypeOK, Goto, Replies, AnswerOf
<1>1. Seen(q) /\ Seen(q)'
  BY SeenHolds
<1>2. Memos' = Memos /\ StepOf(q)
  BY DEF CountEntry, Return, ReturnBy, QueryEnds, StepOf, Memos, Remembered, sharedVars, storeVars
<1>3. /\ Calls' = [Calls EXCEPT ![q] = Calls'[q]] /\ Hands' = [Hands EXCEPT ![q] = Hands'[q]]
  BY <1>2, OthersStay
<1>4. CASE CountEntry(q)
  <2>1. /\ pc[q] = "count" /\ pc'[q] = "return" /\ reply'[q].msg = resp[q]
        /\ resp[q] \in Msg /\ resp[q] # NoMsg /\ asked' = asked
        /\ Match(resp[q], asked[q])
    BY <1>4, ServeDNSAssumption DEF CountEntry, Carries, IsolationInv
  <2>2. Hands[q] = resp[q] /\ Hands'[q] = NoMsg
    BY <1>1, <2>1 DEF Seen, Receiving
  <2>3. Calls'[q] = Memory!Given(asked[q], Hands[q])
    BY <2>1, <2>2, CallStates DEF Calls, Memory!Given
  <2>4. CallState(pc[q]) = "asking"
    BY <2>1, CallStates DEF Receiving
  <2>5. QED
    BY <1>2, <2>1, <2>2, <2>3, <2>4, Mapped
<1>5. CASE Return(q)
  <2>1. pc[q] = "return" /\ pc'[q] = "done" /\ reply' = reply /\ asked' = asked
    BY <1>5 DEF Return, ReturnBy
  <2>2. Hands'[q] = Hands[q]
    BY <1>1, <2>1 DEF Seen, Receiving
  <2>3. Calls'[q] = Calls[q]
    BY <2>1, CallStates DEF Calls
  <2>4. Hands' = Hands /\ Calls' = Calls
    BY <1>3, <2>2, <2>3 DEF Hands, Calls
  <2>5. QED
    BY <1>2, <2>4 DEF Memory!vars
<1>6. CASE QueryEnds(q)
  <2>1. pc[q] = "done" /\ pc'[q] = "idle" /\ reply'[q].msg = NoMsg /\ asked'[q] = NoRequest
    BY <1>6 DEF QueryEnds, NoReply, Bare
  <2>2. Hands'[q] = Hands[q]
    BY <1>1, <2>1 DEF Seen, Receiving
  <2>3. Calls'[q] = Memory!NoCall
    BY <2>1, CallStates DEF Calls, Memory!NoCall
  <2>4. Calls[q].state = "answered"
    BY <1>1, <2>1, CallStates DEF Seen
  <2>5. Hands' = Hands
    BY <1>3, <2>2 DEF Hands
  <2>6. QED
    BY <1>2, <1>3, <2>3, <2>4, <2>5 DEF Memory!Leaves
<1>7. QED
  BY <1>4, <1>5, <1>6

-----------------------------------------------------------------------------
\* Every step of the query path is one of the memory, or a stutter.
LEMMA NextMapsMemo ==
  ASSUME MemoInvs, [Next]_vars
  PROVE  [Memory!Next]_Memory!vars
<1>1. ASSUME NEW q \in Queries, StepOf(q) PROVE [Memory!Next]_Memory!vars
  <2>1. CASE (\E r \in Request : Arrive(q, r)) \/ PassOn(q)
    BY <2>1, ArrivalMaps DEF Memory!Next
  <2>2. CASE GetEntry(q) \/ CheckEntry(q)
    BY <2>2, CacheMaps DEF Memory!Next
  <2>3. CASE TakeSlot(q)
    BY <2>3, SlotMaps DEF Memory!Next
  <2>4. ASSUME NEW x \in Questions, NEW ttl \in RecordTTLs, NEW cacheable \in BOOLEAN,
               NEW told \in BOOLEAN, UpstreamAnswers(q, x, ttl, cacheable, told)
        PROVE  [Memory!Next]_Memory!vars
    BY <2>4, UpstreamMaps DEF Memory!Next
  <2>5. CASE DeadlinePasses(q) \/ DoFails(q) \/ PackFails(q) \/ DoSucceeds(q) \/ Learn(q)
    BY <2>5, ExchangeMaps DEF Memory!Next
  <2>6. CASE Accept(q)
    BY <2>6, AcceptMaps DEF Memory!Next
  <2>7. CASE AddEntry(q)
    BY <2>7, AddMaps DEF Memory!Next
  <2>8. CASE CountEntry(q) \/ Return(q) \/ QueryEnds(q)
    BY <2>8, EndMaps DEF Memory!Next
  <2>9. QED
    BY <1>1, <2>1, <2>2, <2>3, <2>4, <2>5, <2>6, <2>7, <2>8 DEF StepOf
<1>2. CASE Tick \/ (\E p \in Profiles : ConfChanges(p)) \/ UNCHANGED vars
  <2>1. items' = items /\ pc' = pc /\ asked' = asked /\ resp' = resp /\ held' = held /\ reply' = reply
    BY <1>2 DEF Tick, ConfChanges, vars, sharedVars, storeVars, exchangeVars
  <2>2. QED
    BY <2>1 DEF Memory!vars, Memos, Remembered, Hands, InHand, Match, Calls
<1>3. QED
  BY <1>1, <1>2 DEF Next, StepOf

\* For every number of queries, endpoints, keys and shards, every limit and
\* every hash, collisions included, and whatever questions NextDNS answers: what
\* the clients see of ServeDNS is what the memory of Memo could have given them.
THEOREM ImplementsMemo == Spec => KeepsMemory
<1>1. Init => Memory!Init
  <2> SUFFICES ASSUME Init PROVE Memory!Init
    OBVIOUS
  <2>1. Memos = [r \in Request |-> NoMsg]
    BY ServeDNSAssumption DEF Init, StoreInit, Memos, Remembered
  <2>2. Hands = [q \in Queries |-> NoMsg]
    BY DEF Init, Hands, InHand
  <2>3. Calls = [q \in Queries |-> Memory!NoCall]
    BY CallStates DEF Init, Calls, Memory!NoCall, NoReply, Bare
  <2>4. QED
    BY <2>1, <2>2, <2>3 DEF Memory!Init
<1>2. MemoInvs /\ [Next]_vars => [Memory!Next]_Memory!vars
  BY NextMapsMemo
<1>3. QED
  BY <1>1, <1>2, MemoInvsHold, PTL DEF Spec, KeepsMemory, Memory!Spec
=============================================================================
