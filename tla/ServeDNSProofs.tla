--------------------------- MODULE ServeDNSProofs ---------------------------
(***************************************************************************)
(* The safety properties of ServeDNS, for every routing, hash, limit,      *)
(* cache size and number of queries, over unbounded time.                  *)
(***************************************************************************)
EXTENDS ServeDNS, FiniteSetTheorems, TLAPS

\* What a query's phase says of the message and the entry it holds.
Carries ==
  \A q \in Queries :
    /\ pc[q] \in {"learn", "match", "add", "count"} => resp[q] \in Msg
    /\ pc[q] \in {"check", "add"} => held[q] \in Item

\* The counter never drops below zero because it counts the queries that hold
\* a slot: the type invariant is inductive only together with that.
TypeInv == TypeOK /\ Carries /\ CounterExact

\* Sets of queries and of keys are finite, so they have a cardinality.
LEMMA FiniteSubsets ==
  /\ \A S \in SUBSET Queries : IsFiniteSet(S) /\ Cardinality(S) \in Nat
  /\ \A S \in SUBSET Keys : IsFiniteSet(S) /\ Cardinality(S) \in Nat
BY ServeDNSAssumption, StoreAssumption, FS_Subset, FS_CardinalityType

\* Replies without an answer are replies.
LEMMA BareTyped ==
  \A kind \in {"none", "below", "refused", "servfail", "formerr"} : Bare(kind) \in Reply
BY DEF Bare, Reply

\* The request of an identity without a query is a request.
LEMMA NoRequestTyped == NoRequest \in Request
<1>1. PICK p \in Profiles, x \in Questions : TRUE
  BY ServeDNSAssumption
<1>2. [profile |-> p, question |-> x] \in Request
  BY DEF Request
<1>3. QED
  BY <1>2 DEF NoRequest

\* The number of queries holding a slot, when one of them changes phase.
LEMMA HoldingStep ==
  ASSUME TypeOK, NEW q \in Queries, NEW label, Goto(q, label)
  PROVE  /\ pc[q] \notin SlotPC /\ label \in SlotPC
              => Cardinality(Holding') = Cardinality(Holding) + 1
         /\ pc[q] \in SlotPC /\ label \notin SlotPC
              => Cardinality(Holding') = Cardinality(Holding) - 1
         /\ (pc[q] \in SlotPC <=> label \in SlotPC) => Holding' = Holding
<1>1. IsFiniteSet(Holding)
  BY FiniteSubsets DEF Holding
<1>2. pc' = [pc EXCEPT ![q] = label] /\ pc \in [Queries -> SlotPC \cup {"idle", "get", "check", "identify", "done"}]
  BY DEF Goto, TypeOK
<1>3. ASSUME pc[q] \notin SlotPC, label \in SlotPC
      PROVE  Cardinality(Holding') = Cardinality(Holding) + 1
  <2>1. Holding' = Holding \cup {q} /\ q \notin Holding
    BY <1>2, <1>3 DEF Holding
  <2>2. QED
    BY <1>1, <2>1, FS_AddElement
<1>4. ASSUME pc[q] \in SlotPC, label \notin SlotPC
      PROVE  Cardinality(Holding') = Cardinality(Holding) - 1
  <2>1. Holding' = Holding \ {q} /\ q \in Holding
    BY <1>2, <1>4 DEF Holding
  <2>2. QED
    BY <1>1, <2>1, FS_RemoveElement
<1>5. ASSUME pc[q] \in SlotPC <=> label \in SlotPC
      PROVE  Holding' = Holding
  BY <1>2, <1>5 DEF Holding
<1>6. QED
  BY <1>3, <1>4, <1>5

-----------------------------------------------------------------------------
\* The initial state has the types, and no query counted.
LEMMA InitTypeInv == Init => TypeInv
<1> SUFFICES ASSUME Init PROVE TypeInv
  OBVIOUS
<1>1. TypeOK
  BY NoRequestTyped, BareTyped, ServeDNSAssumption
  DEF Init, StoreInit, TypeOK, NoReply, Reply
<1>2. Carries
  BY DEF Init, Carries
<1>3. CounterExact
  <2>1. Holding = {}
    BY DEF Init, Holding, SlotPC
  <2>2. QED
    BY <2>1, FS_EmptySet DEF Init, CounterExact
<1>4. QED
  BY <1>1, <1>2, <1>3 DEF TypeInv

\* Arriving, reading the cache and going back keep the types.
LEMMA CacheTypeInv ==
  ASSUME TypeInv, NEW q \in Queries,
         \/ \E r \in Request : Arrive(q, r)
         \/ PassOn(q) \/ GetEntry(q) \/ CheckEntry(q)
  PROVE  TypeInv'
<1> USE DEF TypeInv, sharedVars, exchangeVars, storeVars, Goto, Replies
<1>1. ASSUME NEW r \in Request, Arrive(q, r) PROVE TypeInv'
  <2>1. Holding' = Holding
    BY <1>1 DEF Arrive, Holding, SlotPC, TypeOK
  <2>2. lastMod[r.profile] \in Nat
    BY DEF TypeOK, Request
  <2>3. TypeOK' /\ Carries'
    BY <1>1, <2>2 DEF Arrive, TypeOK, Carries
  <2>4. QED
    BY <1>1, <2>1, <2>3 DEF Arrive, CounterExact
<1>2. CASE PassOn(q)
  <2>1. Holding' = Holding
    BY <1>2 DEF PassOn, Holding, SlotPC, TypeOK
  <2>2. TypeOK' /\ Carries'
    BY <1>2, BareTyped DEF PassOn, TypeOK, Carries
  <2>3. QED
    BY <1>2, <2>1, <2>2 DEF PassOn, CounterExact
<1>3. CASE GetEntry(q)
  <2>1. Holding' = Holding
    BY <1>3 DEF GetEntry, Holding, SlotPC, TypeOK
  <2>2. items[Hash[asked[q]]] \in Item \cup {NoItem}
    BY ServeDNSAssumption DEF TypeOK
  <2>3. TypeOK' /\ Carries'
    BY <1>3, <2>2 DEF GetEntry, TypeOK, Carries
  <2>4. QED
    BY <1>3, <2>1, <2>3 DEF GetEntry, CounterExact
<1>4. CASE CheckEntry(q)
  <2>1. Holding' = Holding
    BY <1>4 DEF CheckEntry, Holding, SlotPC, TypeOK
  <2>2. held[q] \in Item /\ held[q].msg \in Msg /\ Remaining(held[q]) \in Int
    BY <1>4 DEF CheckEntry, Carries, Item, TypeOK, Remaining
  <2>3. CeilSeconds(Remaining(held[q])) \in Int
    BY <2>2, ServeDNSAssumption DEF CeilSeconds
  <2>4. [kind |-> "hit", msg |-> held[q].msg,
         ttl |-> CeilSeconds(Remaining(held[q])), at |-> clock] \in Reply
    BY <2>2, <2>3 DEF Reply, TypeOK
  <2>5. TypeOK' /\ Carries'
    BY <1>4, <2>4 DEF CheckEntry, TypeOK, Carries
  <2>6. QED
    BY <1>4, <2>1, <2>5 DEF CheckEntry, CounterExact
<1>5. QED
  BY <1>1, <1>2, <1>3, <1>4

\* Taking a slot and giving it back move the counter with the queries counted.
LEMMA SlotTypeInv ==
  ASSUME TypeInv, NEW q \in Queries, TakeSlot(q) \/ Return(q)
  PROVE  TypeInv'
<1> USE DEF TypeInv, exchangeVars, storeVars, Replies
<1>0. Cardinality(Holding) \in Nat /\ Cardinality(Holding') \in Nat
  BY FiniteSubsets DEF Holding
<1>1. CASE TakeSlot(q)
  <2>1. PICK label \in {"return", "exchange"} : Goto(q, label)
    BY <1>1 DEF TakeSlot
  <2>2. Cardinality(Holding') = Cardinality(Holding) + 1
    BY <1>1, <2>1, HoldingStep DEF TakeSlot, SlotPC
  <2>3. CounterExact' /\ concurrent' \in Nat
    BY <1>0, <1>1, <2>2, ServeDNSAssumption DEF TakeSlot, CounterExact, TypeOK
  <2>4. reply' \in [Queries -> Reply]
    BY <1>1, BareTyped DEF TakeSlot, TypeOK
  <2>5. pc' = [pc EXCEPT ![q] = label]
    BY <2>1 DEF Goto
  <2>6. TypeOK'
    BY <1>1, <2>3, <2>4, <2>5 DEF TakeSlot, TypeOK, SlotPC
  <2>7. Carries'
    BY <1>1, <2>5 DEF TakeSlot, Carries, TypeOK
  <2>8. QED
    BY <2>3, <2>6, <2>7
<1>2. CASE Return(q)
  <2>1. Cardinality(Holding') = Cardinality(Holding) - 1
    BY <1>2, HoldingStep DEF Return, ReturnBy, SlotPC
  <2>2. CounterExact' /\ concurrent' \in Nat
    BY <1>0, <1>2, <2>1, ServeDNSAssumption
    DEF Return, ReturnBy, OneSlot, CounterExact, TypeOK
  <2>3. TypeOK' /\ Carries'
    BY <1>2, <2>2 DEF Return, ReturnBy, Goto, TypeOK, Carries
  <2>4. QED
    BY <2>2, <2>3
<1>3. QED
  BY <1>1, <1>2

\* NextDNS's message is one, and the exchange only moves between phases that
\* hold the slot.
LEMMA ExchangeTypeInv ==
  ASSUME TypeInv, NEW q \in Queries,
         \/ \E x \in Questions, ttl \in RecordTTLs, cacheable, told \in BOOLEAN :
              UpstreamAnswers(q, x, ttl, cacheable, told)
         \/ DeadlinePasses(q) \/ DoFails(q) \/ PackFails(q) \/ DoSucceeds(q) \/ Learn(q)
  PROVE  TypeInv'
<1> USE DEF TypeInv, sharedVars, exchangeVars, storeVars, Goto, Replies
<1>1. Holding' = Holding /\ concurrent' = concurrent
  BY DEF UpstreamAnswers, DeadlinePasses, DoFails, PackFails, DoSucceeds, Learn, Holding,
         SlotPC, TypeOK
<1>2. CounterExact'
  BY <1>1 DEF CounterExact
<1>3. ASSUME NEW x \in Questions, NEW ttl \in RecordTTLs, NEW cacheable \in BOOLEAN,
             NEW told \in BOOLEAN, UpstreamAnswers(q, x, ttl, cacheable, told)
      PROVE  TypeInv'
  <2>1. asked[q].profile \in Profiles /\ conf[asked[q].profile] \in Nat
    BY DEF TypeOK, Request
  <2>2. ToTheSecond(conf[asked[q].profile]) \in Nat
    BY <2>1, ServeDNSAssumption DEF ToTheSecond
  <2>3. [for |-> asked[q], question |-> x, conf |-> conf[asked[q].profile],
         ttl |-> ttl, cacheable |-> cacheable] \in Msg
    BY <2>1, ServeDNSAssumption DEF Msg, TypeInv, TypeOK
  <2>4. TypeOK' /\ Carries'
    BY <1>3, <2>2, <2>3 DEF UpstreamAnswers, TypeOK, Carries
  <2>5. QED
    BY <1>2, <2>4
<1>4. CASE DeadlinePasses(q)
  BY <1>2, <1>4 DEF DeadlinePasses, TypeOK, Carries
<1>5. CASE DoFails(q)
  <2>1. /\ pc' \in [Queries -> SlotPC \cup {"idle", "get", "check", "identify", "done"}]
        /\ reply' \in [Queries -> Reply]
    BY <1>5, BareTyped DEF DoFails, TypeOK, SlotPC
  <2>2. ep' \in [Queries -> 1 .. Endpoints]
    BY <1>5, ServeDNSAssumption DEF DoFails, TypeOK
  <2>3. TypeOK' /\ Carries'
    BY <1>5, <2>1, <2>2 DEF DoFails, TypeOK, Carries
  <2>4. QED
    BY <1>2, <2>3
<1>6. CASE PackFails(q)
  BY <1>2, <1>6, BareTyped DEF PackFails, TypeOK, Carries, SlotPC
<1>7. CASE DoSucceeds(q)
  BY <1>2, <1>7 DEF DoSucceeds, TypeOK, Carries, SlotPC
<1>8. CASE Learn(q)
  <2>1. lastMod' \in [Profiles -> Nat]
    BY <1>8 DEF Learn, TypeOK
  <2>2. TypeOK' /\ Carries'
    BY <1>8, <2>1 DEF Learn, TypeOK, Carries, SlotPC
  <2>3. QED
    BY <1>2, <2>2
<1>9. QED
  BY <1>3, <1>4, <1>5, <1>6, <1>7, <1>8

\* The entry stamped is an entry, and so is what the store then holds.
LEMMA PutTypeInv ==
  ASSUME TypeInv, NEW q \in Queries, Accept(q) \/ AddEntry(q) \/ CountEntry(q)
  PROVE  TypeInv'
<1> USE DEF TypeInv, sharedVars, exchangeVars, storeVars, Goto, Replies
<1>1. Holding' = Holding /\ concurrent' = concurrent
  BY DEF Accept, AddEntry, CountEntry, Holding, SlotPC, TypeOK
<1>2. CounterExact'
  BY <1>1 DEF CounterExact
<1>3. resp[q] \in Msg /\ AnswerOf(q) \in Reply
  BY DEF Accept, AddEntry, CountEntry, Carries, AnswerOf, Reply, TypeOK
<1>4. CASE Accept(q)
  <2>1. Clamp(resp[q].ttl) \in Nat
    BY <1>3, ServeDNSAssumption DEF Clamp, Msg
  <2>2. [stored |-> clock, ttl |-> Clamp(resp[q].ttl), msg |-> resp[q], asked |-> asked[q]] \in Item
    BY <1>3, <2>1 DEF Item, TypeOK
  <2>3. /\ reply' \in [Queries -> Reply]
        /\ held' \in [Queries -> Item \cup {NoItem}]
    BY <1>3, <1>4, <2>2, BareTyped DEF Accept, TypeOK
  <2>4. TypeOK'
    BY <1>4, <2>3 DEF Accept, TypeOK, SlotPC
  <2>5. Carries'
    BY <1>3, <1>4, <2>2 DEF Accept, Carries, TypeOK
  <2>6. QED
    BY <1>2, <2>4, <2>5
<1>5. CASE AddEntry(q)
  <2>1. held[q] \in Item
    BY <1>5 DEF AddEntry, Carries
  <2>2. items' \in [Keys -> Item \cup {NoItem}]
    BY <1>5, <2>1 DEF AddEntry, Insert, TypeOK
  <2>3. TypeOK'
    BY <1>3, <1>5, <2>2 DEF AddEntry, TypeOK, SlotPC
  <2>4. Carries'
    BY <1>3, <1>5 DEF AddEntry, Carries, TypeOK
  <2>5. QED
    BY <1>2, <2>3, <2>4
<1>6. CASE CountEntry(q)
  BY <1>2, <1>3, <1>6 DEF CountEntry, TypeOK, Carries, SlotPC
<1>7. QED
  BY <1>4, <1>5, <1>6

\* The end of a query, time and NextDNS's owners change no count.
LEMMA RestTypeInv ==
  ASSUME TypeInv,
         \/ \E q \in Queries : QueryEnds(q)
         \/ Tick
         \/ \E p \in Profiles : ConfChanges(p)
  PROVE  TypeInv'
<1> USE DEF TypeInv, sharedVars, exchangeVars, storeVars, Goto, Replies
<1>1. Holding' = Holding /\ concurrent' = concurrent
  BY DEF QueryEnds, Tick, ConfChanges, Holding, SlotPC, TypeOK
<1>2. CounterExact'
  BY <1>1 DEF CounterExact
<1>3. ASSUME NEW q \in Queries, QueryEnds(q) PROVE TypeInv'
  <2>1. NoReply \in Reply
    BY BareTyped DEF NoReply
  <2>2. TypeOK'
    BY <1>3, <2>1, NoRequestTyped, ServeDNSAssumption DEF QueryEnds, TypeOK
  <2>3. Carries'
    BY <1>3 DEF QueryEnds, Carries, TypeOK
  <2>4. QED
    BY <1>2, <2>2, <2>3
<1>4. CASE Tick
  BY <1>2, <1>4 DEF Tick, TypeOK, Carries
<1>5. ASSUME NEW p \in Profiles, ConfChanges(p) PROVE TypeInv'
  BY <1>2, <1>5 DEF ConfChanges, TypeOK, Carries
<1>6. QED
  BY <1>3, <1>4, <1>5

\* Every step keeps the inductive part.
LEMMA NextTypeInv ==
  ASSUME TypeInv, [Next]_vars
  PROVE  TypeInv'
<1>1. CASE UNCHANGED vars
  BY <1>1 DEF vars, sharedVars, exchangeVars, storeVars, TypeInv, TypeOK, Carries,
              CounterExact, Holding
<1>2. QED
  BY <1>1, CacheTypeInv, SlotTypeInv, ExchangeTypeInv, PutTypeInv, RestTypeInv DEF Next

\* In every reachable state.
LEMMA TypeInvHolds == Spec => []TypeInv
BY InitTypeInv, NextTypeInv, PTL DEF Spec

\* The variables have their types in every reachable state.
THEOREM TypeCorrect == Spec => []TypeOK
BY TypeInvHolds, PTL DEF TypeInv

\* No outcome of a query leaks a place under max_concurrent.
THEOREM NoSlotLeaks == Spec => []CounterExact
BY TypeInvHolds, PTL DEF TypeInv

-----------------------------------------------------------------------------
(***************************************************************************)
(* The limit. A query is admitted only with the count, its own included,   *)
(* within the limit; and the count covers every admitted query.            *)
(***************************************************************************)
LEMMA NextExchangesBounded ==
  ASSUME TypeInv, TypeInv', ExchangesBounded, [Next]_vars
  PROVE  ExchangesBounded'
<1> SUFFICES ASSUME MaxConcurrent > 0 PROVE Cardinality(Admitted') <= MaxConcurrent
  BY DEF ExchangesBounded
<1>0. /\ Cardinality(Admitted) \in Nat /\ Cardinality(Admitted') \in Nat
      /\ IsFiniteSet(Admitted) /\ Cardinality(Admitted) <= MaxConcurrent
  BY FiniteSubsets DEF Admitted, ExchangesBounded
<1>1. CASE Admitted' \subseteq Admitted
  <2>1. Cardinality(Admitted') <= Cardinality(Admitted)
    BY <1>0, <1>1, FS_Subset
  <2>2. QED
    BY <1>0, <2>1, ServeDNSAssumption
<1>2. ASSUME NEW q \in Queries, TakeSlot(q) PROVE Cardinality(Admitted') <= MaxConcurrent
  <2>1. CASE Refuses(concurrent')
    <3>1. Admitted' \subseteq Admitted
      BY <1>2, <2>1, ServeDNSAssumption DEF TakeSlot, Goto, Admitted, SlotPC, TypeInv, TypeOK
    <3>2. QED
      BY <1>1, <3>1
  <2>2. CASE ~Refuses(concurrent')
    <3>1. concurrent' \in Nat /\ concurrent' <= MaxConcurrent
      BY <2>2, ServeDNSAssumption DEF Refuses, TypeInv, TypeOK
    <3>2. concurrent' = Cardinality(Holding')
      BY DEF TypeInv, CounterExact
    <3>3. Admitted' \in SUBSET (Holding') /\ IsFiniteSet(Holding')
      BY FiniteSubsets DEF Admitted, Holding
    <3>4. Cardinality(Admitted') <= Cardinality(Holding')
      BY <3>3, FS_Subset
    <3>5. QED
      BY <1>0, <3>1, <3>2, <3>4, ServeDNSAssumption
  <2>3. QED
    BY <2>1, <2>2
<1>3. ASSUME NEW q \in Queries,
             \/ \E r \in Request : Arrive(q, r)
             \/ PassOn(q) \/ GetEntry(q) \/ CheckEntry(q) \/ DeadlinePasses(q) \/ DoFails(q)
             \/ \E x \in Questions, ttl \in RecordTTLs, cacheable, told \in BOOLEAN :
                  UpstreamAnswers(q, x, ttl, cacheable, told)
      PROVE  Admitted' \subseteq Admitted
  BY <1>3 DEF Arrive, PassOn, GetEntry, CheckEntry, DeadlinePasses, DoFails, UpstreamAnswers,
              Goto, Admitted, SlotPC, TypeInv, TypeOK
<1>4. ASSUME NEW q \in Queries,
             \/ PackFails(q) \/ DoSucceeds(q) \/ Learn(q) \/ Accept(q) \/ AddEntry(q)
             \/ CountEntry(q) \/ Return(q) \/ QueryEnds(q)
      PROVE  Admitted' \subseteq Admitted
  BY <1>4 DEF PackFails, DoSucceeds, Learn, Accept, AddEntry, CountEntry, Return, ReturnBy,
              QueryEnds, Goto, Admitted, SlotPC, TypeInv, TypeOK
<1>5. CASE Tick \/ (\E p \in Profiles : ConfChanges(p)) \/ UNCHANGED vars
  <2>1. Admitted' \subseteq Admitted
    BY <1>5 DEF Tick, ConfChanges, vars, Admitted
  <2>2. QED
    BY <1>1, <2>1
<1>6. QED
  BY <1>1, <1>2, <1>3, <1>4, <1>5 DEF Next

\* max_concurrent bounds the exchanges under way, however queries interleave
\* between raising the count and looking at it.
THEOREM ExchangesWithinLimit == Spec => []ExchangesBounded
<1>1. Init => ExchangesBounded
  <2>1. Init => Admitted = {}
    BY DEF Init, Admitted, SlotPC
  <2>2. QED
    BY <2>1, FS_EmptySet, ServeDNSAssumption DEF ExchangesBounded
<1>2. QED
  BY <1>1, NextExchangesBounded, TypeInvHolds, PTL DEF Spec

-----------------------------------------------------------------------------
(***************************************************************************)
(* Isolation. Every entry, wherever it is, holds a matching message that   *)
(* was obtained for the request it is stored under, and a query only keeps *)
(* entries stored for its own.                                             *)
(***************************************************************************)
Answers(msg, r) == msg.for = r /\ Match(msg, r)

IsolationInv ==
  /\ \A k \in Keys : items[k] # NoItem => Answers(items[k].msg, items[k].asked)
  /\ \A q \in Queries :
       /\ held[q] # NoItem => Answers(held[q].msg, asked[q]) /\ held[q].asked = asked[q]
       /\ resp[q] # NoMsg => resp[q].for = asked[q]
       /\ pc[q] \in {"add", "count"} => Match(resp[q], asked[q])
       /\ pc[q] \in {"idle", "get", "identify"} => held[q] = NoItem
       /\ pc[q] \in {"idle", "get", "check", "identify"} => resp[q] = NoMsg
       /\ pc[q] = "idle" => reply[q] = NoReply
  /\ AnswersOwnQuestion

\* Before the first query there is nothing to mix up.
LEMMA InitIsolation == Init => IsolationInv
BY DEF Init, StoreInit, IsolationInv, AnswersOwnQuestion, NoReply, Bare

\* The cache gives a query only what matches its own request.
LEMMA CacheIsolation ==
  ASSUME TypeInv, IsolationInv, NEW q \in Queries,
         \/ \E r \in Request : Arrive(q, r)
         \/ PassOn(q) \/ GetEntry(q) \/ CheckEntry(q)
  PROVE  IsolationInv'
<1> USE DEF TypeInv, TypeOK, IsolationInv, AnswersOwnQuestion, Match, sharedVars, storeVars,
            exchangeVars, Goto, Replies
<1>1. ASSUME NEW r \in Request, Arrive(q, r) PROVE IsolationInv'
  BY <1>1 DEF Arrive, NoReply, Bare
<1>2. CASE PassOn(q)
  BY <1>2 DEF PassOn, Bare
<1>3. CASE GetEntry(q)
  <2>1. Hash[asked[q]] \in Keys
    BY ServeDNSAssumption
  <2>2. QED
    BY <1>3, <2>1 DEF GetEntry, Matches
<1>4. CASE CheckEntry(q)
  <2>1. held[q] # NoItem
    BY <1>4, ServeDNSAssumption DEF CheckEntry, Carries
  <2>2. QED
    BY <1>4, <2>1 DEF CheckEntry, Answers
<1>5. QED
  BY <1>1, <1>2, <1>3, <1>4

\* An answer is accepted for the question asked, or not at all.
LEMMA ExchangeIsolation ==
  ASSUME TypeInv, IsolationInv, NEW q \in Queries,
         \/ TakeSlot(q)
         \/ \E x \in Questions, ttl \in RecordTTLs, cacheable, told \in BOOLEAN :
              UpstreamAnswers(q, x, ttl, cacheable, told)
         \/ DeadlinePasses(q) \/ DoFails(q) \/ PackFails(q) \/ DoSucceeds(q) \/ Learn(q)
         \/ Return(q) \/ QueryEnds(q)
  PROVE  IsolationInv'
<1> USE DEF TypeInv, TypeOK, IsolationInv, AnswersOwnQuestion, Match, sharedVars, storeVars,
            exchangeVars, Goto, Replies, Bare
<1>1. CASE TakeSlot(q)
  BY <1>1 DEF TakeSlot
<1>2. ASSUME NEW x \in Questions, NEW ttl \in RecordTTLs, NEW cacheable \in BOOLEAN,
             NEW told \in BOOLEAN, UpstreamAnswers(q, x, ttl, cacheable, told)
      PROVE  IsolationInv'
  BY <1>2 DEF UpstreamAnswers
<1>3. CASE DeadlinePasses(q) \/ DoSucceeds(q) \/ Learn(q)
  BY <1>3 DEF DeadlinePasses, DoSucceeds, Learn
<1>4. CASE DoFails(q) \/ PackFails(q)
  <2>1. CASE DoFails(q)
    BY <2>1 DEF DoFails
  <2>2. CASE PackFails(q)
    BY <2>2 DEF PackFails
  <2>3. QED
    BY <1>4, <2>1, <2>2
<1>5. CASE Return(q)
  BY <1>5 DEF Return, ReturnBy
<1>6. CASE QueryEnds(q)
  BY <1>6 DEF QueryEnds, NoReply
<1>7. QED
  BY <1>1, <1>2, <1>3, <1>4, <1>5, <1>6

\* What is stored under a key is what its own query accepted.
LEMMA PutIsolation ==
  ASSUME TypeInv, IsolationInv, NEW q \in Queries, Accept(q) \/ AddEntry(q) \/ CountEntry(q)
  PROVE  IsolationInv'
<1> USE DEF TypeInv, TypeOK, IsolationInv, AnswersOwnQuestion, Match, sharedVars, storeVars,
            exchangeVars, Goto, Replies, Bare
<1>0. resp[q] \in Msg /\ resp[q] # NoMsg
  BY ServeDNSAssumption DEF Accept, AddEntry, CountEntry, Carries
<1>1. CASE Accept(q)
  BY <1>0, <1>1 DEF Accept, AnswerOf, Answers
<1>2. CASE AddEntry(q)
  <2>1. held[q] # NoItem
    BY <1>2, ServeDNSAssumption DEF AddEntry, Carries
  <2>2. \A k \in Keys : items'[k] \in {items[k], held[q], NoItem}
    BY <1>2 DEF AddEntry, Insert
  <2>3. \A k \in Keys : items'[k] # NoItem => Answers(items'[k].msg, items'[k].asked)
    BY <2>1, <2>2
  <2>4. UNCHANGED <<asked, held, resp>>
    BY <1>2 DEF AddEntry
  <2>5. AnswersOwnQuestion'
    BY <1>0, <1>2 DEF AddEntry, AnswerOf
  <2>6. QED
    BY <1>2, <2>3, <2>4, <2>5 DEF AddEntry
<1>3. CASE CountEntry(q)
  BY <1>0, <1>3 DEF CountEntry, AnswerOf
<1>4. QED
  BY <1>1, <1>2, <1>3

\* In every reachable state.
LEMMA IsolationHolds == Spec => []IsolationInv
<1>1. TypeInv /\ IsolationInv /\ [Next]_vars => IsolationInv'
  <2> SUFFICES ASSUME TypeInv, IsolationInv, [Next]_vars PROVE IsolationInv'
    OBVIOUS
  <2>1. CASE Tick \/ (\E p \in Profiles : ConfChanges(p)) \/ UNCHANGED vars
    BY <2>1 DEF Tick, ConfChanges, vars, sharedVars, storeVars, exchangeVars, IsolationInv,
                AnswersOwnQuestion, Answers, Match
  <2>2. QED
    BY <2>1, CacheIsolation, ExchangeIsolation, PutIsolation DEF Next
<1>2. QED
  BY <1>1, InitIsolation, TypeInvHolds, PTL DEF Spec

\* For every hash and every behaviour of NextDNS: no client is given a message
\* obtained for another request, another profile's included, or one about a name
\* or type it did not ask for.
THEOREM NoAnswerCrosses == Spec => []AnswersOwnQuestion
BY IsolationHolds, PTL DEF IsolationInv

-----------------------------------------------------------------------------
(***************************************************************************)
(* Configuration changes. lastMod only grows, so what a query knew when it *)
(* arrived still bounds what it finds when it checks an entry.             *)
(***************************************************************************)

\* One step moves no profile's time back.
LEMMA StepMonotone ==
  ASSUME TypeInv, [Next]_vars
  PROVE  \A p \in Profiles : lastMod'[p] >= lastMod[p]
<1>1. CASE UNCHANGED lastMod
  BY <1>1 DEF TypeInv, TypeOK
<1>2. ASSUME NEW q \in Queries, Learn(q)
      PROVE  \A p \in Profiles : lastMod'[p] >= lastMod[p]
  BY <1>2 DEF Learn, TypeInv, TypeOK
<1>3. UNCHANGED lastMod \/ \E q \in Queries : Learn(q)
  BY DEF Next, vars, sharedVars, Arrive, PassOn, GetEntry, CheckEntry, TakeSlot,
         UpstreamAnswers, DeadlinePasses, DoFails, PackFails, DoSucceeds, Accept, AddEntry,
         CountEntry, Return, ReturnBy, QueryEnds, Tick, ConfChanges
<1>4. QED
  BY <1>1, <1>2, <1>3

\* Reports applied out of order never move a profile's time back.
THEOREM ReportsMonotone == Spec => LastModMonotone
BY StepMonotone, TypeInvHolds, PTL DEF Spec, LastModMonotone

\* What a query knew of its profile is no later than what is known now.
KnownInv == \A q \in Queries : known[q] <= lastMod[asked[q].profile]

\* Every step keeps it that a query knows no later change than there was.
LEMMA NextKnownInv ==
  ASSUME TypeInv, KnownInv, [Next]_vars
  PROVE  KnownInv'
<1>0. /\ \A p \in Profiles : lastMod'[p] >= lastMod[p] /\ lastMod[p] \in Nat /\ lastMod'[p] \in Nat
      /\ \A q \in Queries : asked[q].profile \in Profiles /\ known[q] \in Nat
  <2>1. TypeInv'
    BY NextTypeInv
  <2>2. QED
    BY <2>1, StepMonotone DEF TypeInv, TypeOK, Request
<1>1. CASE UNCHANGED <<known, asked>>
  BY <1>0, <1>1 DEF KnownInv
<1>2. ASSUME NEW q \in Queries, NEW r \in Request, Arrive(q, r) PROVE KnownInv'
  <2>1. /\ known' = [known EXCEPT ![q] = lastMod[r.profile]]
        /\ asked' = [asked EXCEPT ![q] = r] /\ lastMod' = lastMod
    BY <1>2 DEF Arrive, sharedVars
  <2>2. r.profile \in Profiles
    BY DEF Request
  <2>3. QED
    BY <1>0, <2>1, <2>2 DEF KnownInv, TypeInv, TypeOK
<1>3. ASSUME NEW q \in Queries, QueryEnds(q) PROVE KnownInv'
  <2>1. /\ known' = [known EXCEPT ![q] = 0]
        /\ asked' = [asked EXCEPT ![q] = NoRequest] /\ lastMod' = lastMod
    BY <1>3 DEF QueryEnds, sharedVars
  <2>2. NoRequest.profile \in Profiles
    BY NoRequestTyped DEF Request
  <2>3. QED
    BY <1>0, <2>1, <2>2 DEF KnownInv, TypeInv, TypeOK
<1>4. \/ UNCHANGED <<known, asked>>
      \/ \E q \in Queries : QueryEnds(q) \/ \E r \in Request : Arrive(q, r)
  BY DEF Next, vars, PassOn, GetEntry, CheckEntry, TakeSlot, UpstreamAnswers, DeadlinePasses,
         DoFails, PackFails, DoSucceeds, Learn, Accept, AddEntry, CountEntry, Return, ReturnBy,
         Tick, ConfChanges
<1>5. QED
  BY <1>1, <1>2, <1>3, <1>4

\* Every entry was stored in the past and lives no longer than the maximum.
InBounds(item, now) == item # NoItem => item.stored <= now /\ item.ttl <= MaxTTL

LifeInv ==
  /\ \A k \in Keys : InBounds(items[k], clock)
  /\ \A q \in Queries : InBounds(held[q], clock)

\* Every step keeps it that entries are of the past, and their lifetime bounded.
LEMMA NextLifeInv ==
  ASSUME TypeInv, LifeInv, [Next]_vars
  PROVE  LifeInv'
<1>0. clock' >= clock /\ clock \in Nat /\ clock' \in Nat
  <2>1. clock' = clock \/ clock' = clock + 1
    BY DEF Next, vars, sharedVars, Arrive, PassOn, GetEntry, CheckEntry, TakeSlot,
           UpstreamAnswers, DeadlinePasses, DoFails, PackFails, DoSucceeds, Learn, Accept,
           AddEntry, CountEntry, Return, ReturnBy, QueryEnds, Tick, ConfChanges
  <2>2. QED
    BY <2>1 DEF TypeInv, TypeOK
<1>1. ASSUME NEW item \in Item \cup {NoItem}, InBounds(item, clock)
      PROVE  InBounds(item, clock')
  BY <1>0, <1>1, ServeDNSAssumption DEF InBounds, Item
<1>2. /\ \A q \in Queries : InBounds(held[q], clock')
      /\ \A k \in Keys : InBounds(items[k], clock')
  BY <1>1 DEF LifeInv, TypeInv, TypeOK
<1>3. ASSUME NEW q \in Queries, GetEntry(q) PROVE LifeInv'
  <2>1. \A r \in Queries : held'[r] \in {held[r], items[Hash[asked[q]]]}
    BY <1>3 DEF GetEntry, TypeInv, TypeOK
  <2>2. Hash[asked[q]] \in Keys /\ items' = items
    BY <1>3, ServeDNSAssumption DEF GetEntry, sharedVars, storeVars, TypeInv, TypeOK
  <2>3. QED
    BY <1>2, <2>1, <2>2 DEF LifeInv
<1>4. ASSUME NEW q \in Queries, CheckEntry(q) \/ QueryEnds(q) PROVE LifeInv'
  <2>1. \A r \in Queries : held'[r] \in {held[r], NoItem}
    BY <1>4 DEF CheckEntry, QueryEnds, TypeInv, TypeOK
  <2>2. items' = items
    BY <1>4 DEF CheckEntry, QueryEnds, sharedVars, storeVars
  <2>3. QED
    BY <1>2, <2>1, <2>2 DEF LifeInv, InBounds
<1>5. ASSUME NEW q \in Queries, Accept(q) PROVE LifeInv'
  <2> DEFINE new == [stored |-> clock, ttl |-> Clamp(resp[q].ttl), msg |-> resp[q], asked |-> asked[q]]
  <2>1. resp[q].ttl \in Nat
    BY <1>5 DEF Accept, TypeInv, Carries, Msg
  <2>2. InBounds(new, clock')
    BY <1>0, <2>1, ServeDNSAssumption DEF InBounds, Clamp
  <2>3. \A r \in Queries : held'[r] \in {held[r], new}
    BY <1>5 DEF Accept, TypeInv, TypeOK
  <2>4. items' = items
    BY <1>5 DEF Accept, sharedVars, storeVars
  <2>5. QED
    BY <1>2, <2>2, <2>3, <2>4 DEF LifeInv
<1>6. ASSUME NEW q \in Queries, AddEntry(q) PROVE LifeInv'
  <2>1. \A k \in Keys : items'[k] \in {items[k], held[q], NoItem}
    BY <1>6 DEF AddEntry, Insert
  <2>2. held' = held
    BY <1>6 DEF AddEntry
  <2>3. QED
    BY <1>2, <2>1, <2>2 DEF LifeInv, InBounds
<1>7. CASE UNCHANGED <<items, held>>
  BY <1>2, <1>7 DEF LifeInv
<1>8. \/ UNCHANGED <<items, held>>
      \/ \E q \in Queries : GetEntry(q) \/ CheckEntry(q) \/ QueryEnds(q) \/ Accept(q) \/ AddEntry(q)
  BY DEF Next, vars, sharedVars, storeVars, Arrive, PassOn, TakeSlot, UpstreamAnswers,
         DeadlinePasses, DoFails, PackFails, DoSucceeds, Learn, CountEntry, Return, ReturnBy,
         Tick, ConfChanges
<1>9. QED
  BY <1>3, <1>4, <1>5, <1>6, <1>7, <1>8

\* Rounding up gives at least one second, and less than one too many.
LEMMA CeilBounds ==
  ASSUME NEW t \in Nat \ {0}
  PROVE  /\ CeilSeconds(t) \in Nat \ {0}
         /\ CeilSeconds(t) * Second < t + Second
<1> DEFINE a == t + Second - 1
           c == a \div Second
           r == a % Second
<1>1. a \in Nat /\ Second \in Nat \ {0} /\ a >= Second
  BY ServeDNSAssumption
<1>2. c \in Int /\ r \in 0 .. (Second - 1) /\ a = Second * c + r
  BY <1>1
<1>3. Second * c <= a
  BY <1>1, <1>2
<1>4. c >= 1
  <2>1. SUFFICES ASSUME c <= 0 PROVE FALSE
    BY <1>2
  <2>2. Second * c <= 0
    BY <1>1, <1>2, <2>1
  <2>3. QED
    BY <1>1, <1>2, <2>2
<1>5. c * Second = Second * c
  BY <1>1, <1>2
<1>6. QED
  BY <1>1, <1>2, <1>3, <1>4, <1>5 DEF CeilSeconds

\* A hit is a reply of its own, made in one step, that nothing changes until
\* the query ends.
HitInv ==
  /\ HitsSinceKnownChange
  /\ HitLifeBounded
  /\ \A q \in Queries :
       /\ reply[q].kind = "hit" => pc[q] = "done"
       /\ pc[q] = "idle" => reply[q].kind = "none"

\* A step of one query that ends in no hit.
LEMMA NoHitStep ==
  ASSUME HitInv, NEW q \in Queries,
         \A r \in Queries \ {q} : /\ pc'[r] = pc[r] /\ reply'[r] = reply[r]
                                  /\ held'[r] = held[r] /\ known'[r] = known[r],
         reply'[q].kind # "hit",
         pc'[q] = "idle" => reply'[q].kind = "none"
  PROVE  HitInv'
BY DEF HitInv, HitsSinceKnownChange, HitLifeBounded

\* Every step keeps what is said of hits.
LEMMA NextHitInv ==
  ASSUME TypeInv, KnownInv, LifeInv, HitInv, [Next]_vars
  PROVE  HitInv'
<1> USE DEF Goto, Replies, Bare
<1>0. ASSUME NEW q \in Queries, pc[q] # "done" PROVE reply[q].kind # "hit"
  BY <1>0 DEF HitInv
<1>1. ASSUME NEW q \in Queries,
             \/ \E r \in Request : Arrive(q, r)
             \/ GetEntry(q) \/ TakeSlot(q)
      PROVE  HitInv'
  <2>1. pc[q] # "done" /\ pc'[q] # "idle" /\ reply'[q].kind # "hit"
    BY <1>0, <1>1 DEF Arrive, GetEntry, TakeSlot, TypeInv, TypeOK
  <2>2. \A r \in Queries \ {q} : /\ pc'[r] = pc[r] /\ reply'[r] = reply[r]
                                 /\ held'[r] = held[r] /\ known'[r] = known[r]
    BY <1>1 DEF Arrive, GetEntry, TakeSlot, TypeInv, TypeOK
  <2>3. QED
    BY <2>1, <2>2, NoHitStep
<1>2. ASSUME NEW q \in Queries, PassOn(q) \/ PackFails(q) PROVE HitInv'
  <2>1. pc'[q] # "idle" /\ reply'[q].kind # "hit"
    BY <1>2 DEF PassOn, PackFails, TypeInv, TypeOK
  <2>2. \A r \in Queries \ {q} : /\ pc'[r] = pc[r] /\ reply'[r] = reply[r]
                                 /\ held'[r] = held[r] /\ known'[r] = known[r]
    BY <1>2 DEF PassOn, PackFails, TypeInv, TypeOK
  <2>3. QED
    BY <2>1, <2>2, NoHitStep
<1>3. ASSUME NEW q \in Queries, CheckEntry(q) PROVE HitInv'
  <2>1. CASE Current(held[q], asked[q].profile) /\ Remaining(held[q]) > 0
    <3>1. held[q] \in Item /\ held[q].stored \in Nat /\ known[q] <= lastMod[asked[q].profile]
      BY <1>3 DEF CheckEntry, TypeInv, Carries, Item, KnownInv
    <3>2. lastMod[asked[q].profile] \in Nat /\ known[q] \in Nat
      BY DEF TypeInv, TypeOK, Request
    <3>3. held[q].stored >= known[q]
      BY <2>1, <3>1, <3>2 DEF Current
    <3>4. UNCHANGED <<held, known>> /\ pc'[q] = "done"
      BY <1>3, <2>1 DEF CheckEntry, TypeInv, TypeOK
    <3>5. \A r \in Queries \ {q} : pc'[r] = pc[r] /\ reply'[r] = reply[r]
      BY <1>3, <2>1 DEF CheckEntry, TypeInv, TypeOK
    <3>6. reply'[q].at = clock /\ reply'[q].ttl = CeilSeconds(Remaining(held[q]))
      BY <1>3, <2>1 DEF CheckEntry, TypeInv, TypeOK
    <3>7. /\ held[q].stored <= clock /\ held[q].ttl <= MaxTTL /\ held[q].ttl \in Nat
          /\ clock \in Nat
      BY <3>1, ServeDNSAssumption DEF LifeInv, InBounds, Item, TypeInv, TypeOK
    <3>8. Remaining(held[q]) \in Nat \ {0}
      BY <2>1, <3>1, <3>7 DEF Remaining
    <3>9. /\ CeilSeconds(Remaining(held[q])) \in Nat \ {0}
          /\ CeilSeconds(Remaining(held[q])) * Second < Remaining(held[q]) + Second
      BY <3>8, CeilBounds
    <3>10. CeilSeconds(Remaining(held[q])) * Second \in Int
      BY <3>9, ServeDNSAssumption
    <3>11. clock + CeilSeconds(Remaining(held[q])) * Second < held[q].stored + MaxTTL + Second
      <4> DEFINE whole == CeilSeconds(Remaining(held[q])) * Second
      <4>1. whole < held[q].stored + held[q].ttl - clock + Second
        BY <3>9 DEF Remaining
      <4>2. whole \in Int /\ Second \in Nat /\ MaxTTL \in Nat
        BY <3>10, ServeDNSAssumption
      <4> HIDE DEF whole
      <4>3. clock + whole < held[q].stored + MaxTTL + Second
        BY <3>1, <3>7, <4>1, <4>2
      <4>4. QED
        BY <4>3 DEF whole
    <3>12. QED
      BY <3>3, <3>4, <3>5, <3>6, <3>9, <3>11 DEF HitInv, HitsSinceKnownChange, HitLifeBounded
  <2>2. CASE ~(Current(held[q], asked[q].profile) /\ Remaining(held[q]) > 0)
    <3>1. pc[q] # "done" /\ pc'[q] # "idle" /\ reply'[q].kind # "hit"
      BY <1>0, <1>3, <2>2 DEF CheckEntry, TypeInv, TypeOK
    <3>2. \A r \in Queries \ {q} : /\ pc'[r] = pc[r] /\ reply'[r] = reply[r]
                                   /\ held'[r] = held[r] /\ known'[r] = known[r]
      BY <1>3, <2>2 DEF CheckEntry, TypeInv, TypeOK
    <3>3. QED
      BY <3>1, <3>2, NoHitStep
  <2>3. QED
    BY <2>1, <2>2
<1>4. ASSUME NEW q \in Queries, DoFails(q) \/ DoSucceeds(q) \/ Learn(q) PROVE HitInv'
  <2>1. pc[q] # "done" /\ pc'[q] # "idle" /\ reply'[q].kind # "hit"
    BY <1>0, <1>4 DEF DoFails, DoSucceeds, Learn, TypeInv, TypeOK
  <2>2. \A r \in Queries \ {q} : /\ pc'[r] = pc[r] /\ reply'[r] = reply[r]
                                 /\ held'[r] = held[r] /\ known'[r] = known[r]
    BY <1>4 DEF DoFails, DoSucceeds, Learn, TypeInv, TypeOK
  <2>3. QED
    BY <2>1, <2>2, NoHitStep
<1>5. ASSUME NEW q \in Queries, Accept(q) \/ AddEntry(q) \/ CountEntry(q) PROVE HitInv'
  <2>1. pc[q] # "done" /\ pc'[q] # "idle" /\ reply'[q].kind # "hit"
    BY <1>0, <1>5 DEF Accept, AddEntry, CountEntry, AnswerOf, TypeInv, TypeOK
  <2>2. \A r \in Queries \ {q} : /\ pc'[r] = pc[r] /\ reply'[r] = reply[r]
                                 /\ held'[r] = held[r] /\ known'[r] = known[r]
    BY <1>5 DEF Accept, AddEntry, CountEntry, TypeInv, TypeOK
  <2>3. QED
    BY <2>1, <2>2, NoHitStep
<1>6. ASSUME NEW q \in Queries, Return(q) \/ QueryEnds(q) PROVE HitInv'
  <2>1. reply'[q].kind # "hit" /\ (pc'[q] = "idle" => reply'[q].kind = "none")
    BY <1>0, <1>6 DEF Return, ReturnBy, QueryEnds, NoReply, TypeInv, TypeOK
  <2>2. \A r \in Queries \ {q} : /\ pc'[r] = pc[r] /\ reply'[r] = reply[r]
                                 /\ held'[r] = held[r] /\ known'[r] = known[r]
    BY <1>6 DEF Return, ReturnBy, QueryEnds, TypeInv, TypeOK
  <2>3. QED
    BY <2>1, <2>2, NoHitStep
<1>7. CASE UNCHANGED <<pc, reply, held, known>>
  BY <1>7 DEF HitInv, HitsSinceKnownChange, HitLifeBounded
<1>8. ASSUME NEW q \in Queries,
             \/ DeadlinePasses(q)
             \/ \E x \in Questions, ttl \in RecordTTLs, cacheable, told \in BOOLEAN :
                  UpstreamAnswers(q, x, ttl, cacheable, told)
      PROVE  HitInv'
  BY <1>7, <1>8 DEF DeadlinePasses, UpstreamAnswers
<1>9. CASE Tick \/ (\E p \in Profiles : ConfChanges(p)) \/ UNCHANGED vars
  BY <1>7, <1>9 DEF Tick, ConfChanges, vars
<1>10. QED
  BY <1>1, <1>2, <1>3, <1>4, <1>5, <1>6, <1>8, <1>9 DEF Next

\* In every reachable state.
LEMMA HitInvHolds == Spec => []HitInv
<1>1. Init => KnownInv /\ LifeInv /\ HitInv
  BY NoRequestTyped
  DEF Init, StoreInit, KnownInv, LifeInv, InBounds, HitInv, HitsSinceKnownChange,
      HitLifeBounded, NoReply, Bare, Request
<1>2. QED
  BY <1>1, NextKnownInv, NextLifeInv, NextHitInv, TypeInvHolds, PTL DEF Spec

\* A change known when a query arrived is honoured by the hit it may get.
THEOREM ChangesHonoured == Spec => []HitsSinceKnownChange
BY HitInvHolds, PTL DEF HitInv

\* A hit's TTL is never zero nor longer than what the entry may still live.
THEOREM HitsExpire == Spec => []HitLifeBounded
BY HitInvHolds, PTL DEF HitInv

-----------------------------------------------------------------------------
(***************************************************************************)
(* The store. Inserting one item makes the store one larger or leaves its  *)
(* size alone, and no shard outgrows its share.                            *)
(***************************************************************************)

\* newStore gives every shard room for at least one item.
LEMMA ShardSizeType == ShardSize \in Nat \ {0}
<1> DEFINE asked0 == IF Capacity <= 0 THEN DefaultCapacity ELSE Capacity
           size == (asked0 + Shards - 1) \div Shards
<1>1. asked0 + Shards - 1 \in Int /\ Shards \in Nat \ {0}
  BY StoreAssumption
<1>2. size \in Int
  BY <1>1
<1>3. QED
  BY <1>2 DEF ShardSize

\* Where the items are after an insertion.
LEMMA InsertPresent ==
  ASSUME NEW k \in Keys, NEW item, item # NoItem, Insert(k, item)
  PROVE  /\ k \in Present => Present' = Present
         /\ Grows(k) => Present' = Present \cup {k}
         /\ Full(k) => \E victim \in InShard(Shard(k)) : Present' = (Present \ {victim}) \cup {k}
<1>1. PICK victim \in IF Full(k) THEN InShard(Shard(k)) ELSE {k} :
        items' = [j \in Keys |-> IF j = k THEN item ELSE IF j = victim THEN NoItem ELSE items[j]]
  BY DEF Insert
<1>2. Present' = (Present \ {victim}) \cup {k}
  BY <1>1 DEF Present
<1>3. ~Full(k) => victim = k
  BY <1>1
<1>4. QED
  BY <1>1, <1>2, <1>3 DEF Grows, Full, Present

\* One out, one in: the store grows by one exactly when Grows says so.
LEMMA InsertSize ==
  ASSUME NEW k \in Keys, NEW item, item # NoItem, Insert(k, item)
  PROVE  Cardinality(Present') = IF Grows(k) THEN Cardinality(Present) + 1
                                             ELSE Cardinality(Present)
<1>1. IsFiniteSet(Present) /\ Cardinality(Present) \in Nat
  BY FiniteSubsets DEF Present
<1>2. CASE k \in Present
  BY <1>2, InsertPresent DEF Grows
<1>3. CASE Grows(k)
  <2>1. Present' = Present \cup {k} /\ k \notin Present
    BY <1>3, InsertPresent DEF Grows
  <2>2. QED
    BY <1>1, <1>3, <2>1, FS_AddElement
<1>4. CASE Full(k)
  <2>1. PICK victim \in InShard(Shard(k)) : Present' = (Present \ {victim}) \cup {k}
    BY <1>4, InsertPresent
  <2>2. victim \in Present /\ k \notin Present
    BY <1>4, <2>1 DEF InShard, Full
  <2>3. /\ IsFiniteSet(Present \ {victim})
        /\ Cardinality(Present \ {victim}) = Cardinality(Present) - 1
    BY <1>1, <2>2, FS_RemoveElement
  <2>4. Cardinality(Present') = Cardinality(Present \ {victim}) + 1
    BY <2>1, <2>2, <2>3, FS_AddElement
  <2>5. QED
    BY <1>1, <1>4, <2>3, <2>4 DEF Grows
<1>5. QED
  BY <1>2, <1>3, <1>4 DEF Grows

\* A shard keeps within its share.
LEMMA InsertShards ==
  ASSUME ShardsBounded, NEW k \in Keys, NEW item, item # NoItem, Insert(k, item)
  PROVE  ShardsBounded'
<1> SUFFICES ASSUME NEW j \in Keys PROVE Cardinality(InShard(Shard(j))') <= ShardSize
  BY DEF ShardsBounded
<1> DEFINE before == InShard(Shard(j))
           after  == InShard(Shard(j))'
<1>1. /\ IsFiniteSet(before) /\ Cardinality(before) \in Nat
      /\ Cardinality(after) \in Nat
      /\ Cardinality(before) <= ShardSize
  BY FiniteSubsets DEF InShard, Present, ShardsBounded
<1>2. CASE after \subseteq before
  <2>1. Cardinality(after) <= Cardinality(before)
    BY <1>1, <1>2, FS_Subset
  <2>2. QED
    BY <1>1, <2>1, ShardSizeType
<1>3. CASE Grows(k) /\ Shard(j) = Shard(k)
  <2>1. after = before \cup {k} /\ k \notin before
    BY <1>3, InsertPresent DEF InShard, Grows
  <2>2. Cardinality(after) = Cardinality(before) + 1
    BY <1>1, <2>1, FS_AddElement
  <2>3. Cardinality(before) < ShardSize
    BY <1>1, <1>3, ShardSizeType DEF Grows, Full
  <2>4. QED
    BY <1>1, <2>2, <2>3, ShardSizeType
<1>4. CASE Full(k) /\ Shard(j) = Shard(k)
  <2>1. PICK victim \in InShard(Shard(k)) : Present' = (Present \ {victim}) \cup {k}
    BY <1>4, InsertPresent
  <2>2. after = (before \ {victim}) \cup {k} /\ victim \in before /\ k \notin before
    BY <1>4, <2>1 DEF InShard, Full
  <2>3. /\ IsFiniteSet(before \ {victim})
        /\ Cardinality(before \ {victim}) = Cardinality(before) - 1
    BY <1>1, <2>2, FS_RemoveElement
  <2>4. k \notin before \ {victim}
    BY <2>2
  <2>5. Cardinality(after) = Cardinality(before \ {victim}) + 1
    BY <2>2, <2>3, <2>4, FS_AddElement
  <2>6. QED
    BY <1>1, <2>3, <2>5
<1>5. k \in Present \/ Shard(j) # Shard(k) => after \subseteq before
  BY InsertPresent DEF InShard, Grows
<1>6. QED
  BY <1>2, <1>3, <1>4, <1>5 DEF Grows

\* Only AddEntry changes the items, and it inserts an entry under a key.
LEMMA ItemsStep ==
  ASSUME TypeInv, [Next]_vars
  PROVE  \/ UNCHANGED items
         \/ \E q \in Queries : /\ AddEntry(q)
                               /\ Insert(Hash[asked[q]], held[q])
                               /\ Hash[asked[q]] \in Keys /\ held[q] # NoItem
<1>1. UNCHANGED items \/ \E q \in Queries : AddEntry(q)
  BY DEF Next, vars, sharedVars, storeVars, Arrive, PassOn, GetEntry, CheckEntry, TakeSlot,
         UpstreamAnswers, DeadlinePasses, DoFails, PackFails, DoSucceeds, Learn, Accept,
         CountEntry, Return, ReturnBy, QueryEnds, Tick, ConfChanges
<1>2. ASSUME NEW q \in Queries, AddEntry(q)
      PROVE  /\ Insert(Hash[asked[q]], held[q])
             /\ Hash[asked[q]] \in Keys /\ held[q] # NoItem
  BY <1>2, ServeDNSAssumption DEF AddEntry, TypeInv, TypeOK, Carries
<1>3. QED
  BY <1>1, <1>2

\* The cache never outgrows its capacity, whatever is added at once.
THEOREM CacheWithinCapacity == Spec => []ShardsBounded
<1>1. Init => ShardsBounded
  <2>1. ASSUME Init, NEW k \in Keys PROVE InShard(Shard(k)) = {}
    BY <2>1 DEF Init, StoreInit, InShard, Present
  <2>2. QED
    BY <2>1, FS_EmptySet, ShardSizeType DEF ShardsBounded
<1>2. TypeInv /\ ShardsBounded /\ [Next]_vars => ShardsBounded'
  <2>1. UNCHANGED items /\ ShardsBounded => ShardsBounded'
    BY DEF ShardsBounded, InShard, Present
  <2>2. QED
    BY <2>1, ItemsStep, InsertShards
<1>3. QED
  BY <1>1, <1>2, TypeInvHolds, PTL DEF Spec

\* n and the adds yet to be counted make up the number of items.
LEMMA NextLenExact ==
  ASSUME TypeInv, LenExact, [Next]_vars
  PROVE  LenExact'
<1>0. IsFiniteSet(Counting) /\ Cardinality(Counting) \in Nat /\ Cardinality(Present) \in Nat /\ n \in Nat
  BY FiniteSubsets DEF Counting, Present, TypeInv, TypeOK
<1>1. ASSUME NEW q \in Queries, AddEntry(q) PROVE LenExact'
  <2>1. /\ Hash[asked[q]] \in Keys /\ held[q] # NoItem
        /\ Insert(Hash[asked[q]], held[q]) /\ n' = n
    BY <1>1, ServeDNSAssumption DEF AddEntry, TypeInv, TypeOK, Carries
  <2>2. CASE Grows(Hash[asked[q]])
    <3>1. Counting' = Counting \cup {q} /\ q \notin Counting
      BY <1>1, <2>2 DEF AddEntry, Goto, Counting, TypeInv, TypeOK
    <3>2. Cardinality(Counting') = Cardinality(Counting) + 1
      BY <1>0, <3>1, FS_AddElement
    <3>3. Cardinality(Present') = Cardinality(Present) + 1
      BY <2>1, <2>2, InsertSize
    <3>4. QED
      BY <1>0, <2>1, <3>2, <3>3 DEF LenExact
  <2>3. CASE ~Grows(Hash[asked[q]])
    <3>1. Counting' = Counting
      BY <1>1, <2>3 DEF AddEntry, Goto, Counting, TypeInv, TypeOK
    <3>2. Cardinality(Present') = Cardinality(Present)
      BY <2>1, <2>3, InsertSize
    <3>3. QED
      BY <2>1, <3>1, <3>2 DEF LenExact
  <2>4. QED
    BY <2>2, <2>3
<1>2. ASSUME NEW q \in Queries, CountEntry(q) PROVE LenExact'
  <2>1. Counting' = Counting \ {q} /\ q \in Counting
    BY <1>2 DEF CountEntry, Goto, Counting, TypeInv, TypeOK
  <2>2. Cardinality(Counting') = Cardinality(Counting) - 1
    BY <1>0, <2>1, FS_RemoveElement
  <2>3. n' = n + 1 /\ Present' = Present
    BY <1>2 DEF CountEntry, Present
  <2>4. QED
    BY <1>0, <2>2, <2>3 DEF LenExact
<1>3. CASE UNCHANGED <<items, n>> /\ Counting' = Counting
  BY <1>3 DEF LenExact, Present
<1>4. ASSUME NEW q \in Queries,
             \/ \E r \in Request : Arrive(q, r)
             \/ PassOn(q) \/ GetEntry(q) \/ CheckEntry(q) \/ TakeSlot(q) \/ DeadlinePasses(q)
             \/ \E x \in Questions, ttl \in RecordTTLs, cacheable, told \in BOOLEAN :
                  UpstreamAnswers(q, x, ttl, cacheable, told)
      PROVE  UNCHANGED <<items, n>> /\ Counting' = Counting
  BY <1>4 DEF Arrive, PassOn, GetEntry, CheckEntry, TakeSlot, DeadlinePasses, UpstreamAnswers,
              Goto, Counting, sharedVars, storeVars, TypeInv, TypeOK
<1>5. ASSUME NEW q \in Queries,
             \/ DoFails(q) \/ PackFails(q) \/ DoSucceeds(q) \/ Learn(q) \/ Accept(q)
             \/ Return(q) \/ QueryEnds(q)
      PROVE  UNCHANGED <<items, n>> /\ Counting' = Counting
  BY <1>5 DEF DoFails, PackFails, DoSucceeds, Learn, Accept, Return, ReturnBy, QueryEnds,
              Goto, Counting, sharedVars, storeVars, TypeInv, TypeOK
<1>6. CASE Tick \/ (\E p \in Profiles : ConfChanges(p)) \/ UNCHANGED vars
  BY <1>3, <1>6 DEF Tick, ConfChanges, vars, sharedVars, storeVars, Counting
<1>7. QED
  BY <1>1, <1>2, <1>3, <1>4, <1>5, <1>6 DEF Next

\* Store.Len never drifts from the number of entries.
THEOREM LenNeverDrifts == Spec => []LenExact
<1>1. Init => LenExact
  <2>1. Init => Counting = {} /\ Present = {} /\ n = 0
    BY DEF Init, StoreInit, Counting, Present
  <2>2. QED
    BY <2>1, FS_EmptySet DEF LenExact
<1>2. QED
  BY <1>1, NextLenExact, TypeInvHolds, PTL DEF Spec
=============================================================================
