--------------------------- MODULE DiscoveryProofs ---------------------------
(***************************************************************************)
(* The safety properties of Discovery, for every number of addresses,      *)
(* queries, lookups and drains, and every limit.                           *)
(***************************************************************************)
EXTENDS Discovery, FiniteSetTheorems, TLAPS

\* A query in hold or just released is about an address, and waits on a lookup.
HeldTyped ==
  \A q \in Queries :
    /\ qpc[q] \in {"hold", "released"} => qaddr[q] \in Addrs
    /\ qpc[q] = "hold" => qchan[q] \in Lookups

\* wg is an integer that never drops below zero because it counts the live
\* lookups: the type invariant is inductive only together with that.
TypeInv == TypeOK /\ HeldTyped /\ WgCountsLookups

\* Only a drain waits, and only once it has forbidden new lookups.
DrainOrder ==
  \A d \in Drainers :
    /\ wpc[d] # "none" => dpc[d] # "idle"
    /\ dpc[d] # "idle" => closing

\* Sets of addresses and of lookups are finite, so they have a cardinality.
LEMMA FiniteSubsets ==
  /\ \A S \in SUBSET Addrs : IsFiniteSet(S) /\ Cardinality(S) \in Nat
  /\ \A S \in SUBSET Lookups : IsFiniteSet(S) /\ Cardinality(S) \in Nat
BY ConstantsAssumption, FS_Subset, FS_CardinalityType

-----------------------------------------------------------------------------
\* The initial state has the types, and no lookup to count.
LEMMA InitTypeInv == Init => TypeInv
<1> SUFFICES ASSUME Init PROVE TypeInv
  OBVIOUS
<1>1. TypeOK
  BY DEF Init, TypeOK, NoEntry, Entry, LookupPC, Slotted
<1>2. HeldTyped
  BY DEF Init, HeldTyped
<1>3. WgCountsLookups
  <2>1. Live = {}
    BY DEF Init, Live
  <2>2. QED
    BY <2>1, FS_EmptySet DEF Init, WgCountsLookups
<1>4. QED
  BY <1>1, <1>2, <1>3 DEF TypeInv

\* What name does to the table, the slots and the callers keeps the types.
LEMMA NameTypeInv ==
  ASSUME TypeInv, NEW q \in Queries, NEW a \in Addrs,
         \/ NameOnRecord(q, a)
         \/ \E mayHold \in BOOLEAN : NameShared(q, a, mayHold)
         \/ \E mayHold \in BOOLEAN, l \in Lookups : NameStarts(q, a, mayHold, l)
  PROVE  TypeInv'
<1> USE DEF TypeInv
<1>0. entries[a].name \in Names \cup {NoName}
  BY DEF TypeOK, Entry
<1>1. CASE NameOnRecord(q, a)
  <2>1. Live' = Live /\ wg' = wg
    BY <1>1 DEF NameOnRecord, lookupVars, Live
  <2>2. TypeOK' /\ HeldTyped'
    BY <1>0, <1>1 DEF NameOnRecord, Return, TypeOK, HeldTyped, lookupVars, drainVars
  <2>3. QED
    BY <2>1, <2>2 DEF WgCountsLookups
<1>2. ASSUME NEW mayHold \in BOOLEAN, NameShared(q, a, mayHold) PROVE TypeInv'
  <2>1. Live' = Live /\ wg' = wg
    BY <1>2 DEF NameShared, lookupVars, Live
  <2>2. inflight[a] \in Lookups
    BY <1>2 DEF NameShared, Busy, BusyAddrs, TypeOK
  <2>3. CASE MustHold(a, mayHold)
    <3>1. TypeOK' /\ HeldTyped'
      BY <1>2, <2>2, <2>3 DEF NameShared, HoldOn, TypeOK, HeldTyped, lookupVars, drainVars
    <3>2. QED
      BY <2>1, <3>1 DEF WgCountsLookups
  <2>4. CASE ~MustHold(a, mayHold)
    <3>1. TypeOK' /\ HeldTyped'
      BY <1>0, <1>2, <2>4 DEF NameShared, Return, TypeOK, HeldTyped, lookupVars, drainVars
    <3>2. QED
      BY <2>1, <3>1 DEF WgCountsLookups
  <2>5. QED
    BY <2>3, <2>4
<1>3. ASSUME NEW mayHold \in BOOLEAN, NEW l \in Lookups, NameStarts(q, a, mayHold, l)
      PROVE  TypeInv'
  <2>1. Live' = Live \cup {l} /\ l \notin Live
    BY <1>3 DEF NameStarts, Free, Live, TypeOK
  <2>2. Cardinality(Live') = Cardinality(Live) + 1
    <3>1. IsFiniteSet(Live)
      BY FiniteSubsets DEF Live
    <3>2. QED
      BY <2>1, <3>1, FS_AddElement
  <2>3. WgCountsLookups'
    BY <1>3, <2>2 DEF NameStarts, WgCountsLookups
  <2>4. /\ entries' \in [Addrs -> Entry]
        /\ inflight' \in [Addrs -> Lookups \cup {NoLookup}]
        /\ wg' \in Nat
        /\ lpc' \in [Lookups -> LookupPC]
        /\ laddr' \in [Lookups -> Addrs \cup {NoAddr}]
        /\ closed' \in SUBSET Lookups
    BY <1>3 DEF NameStarts, TypeOK, LookupPC, Slotted
  <2>5. CASE MustHold(a, mayHold)
    <3>1. TypeOK' /\ HeldTyped'
      BY <1>3, <2>4, <2>5 DEF NameStarts, HoldOn, TypeOK, HeldTyped, drainVars
    <3>2. QED
      BY <2>3, <3>1
  <2>6. CASE ~MustHold(a, mayHold)
    <3>1. TypeOK' /\ HeldTyped'
      BY <1>0, <1>3, <2>4, <2>6 DEF NameStarts, Return, TypeOK, HeldTyped, drainVars
    <3>2. QED
      BY <2>3, <3>1
  <2>7. QED
    BY <2>5, <2>6
<1>4. QED
  BY <1>1, <1>2, <1>3

\* So does what a query does once it is held.
LEMMA HoldTypeInv ==
  ASSUME TypeInv, NEW q \in Queries,
         HoldReleased(q) \/ HoldReadsName(q) \/ HoldGivesUp(q) \/ QueryEnds(q)
  PROVE  TypeInv'
<1>1. Live' = Live /\ wg' = wg
  BY DEF HoldReleased, HoldReadsName, HoldGivesUp, QueryEnds, lookupVars, Live
<1>2. WgCountsLookups'
  BY <1>1 DEF TypeInv, WgCountsLookups
<1>3. CASE HoldReleased(q)
  BY <1>2, <1>3
  DEF HoldReleased, TypeInv, TypeOK, HeldTyped, lookupVars, drainVars
<1>4. CASE HoldReadsName(q)
  <2>1. entries[qaddr[q]].name \in Names \cup {NoName}
    BY <1>4 DEF HoldReadsName, TypeInv, TypeOK, HeldTyped, Entry
  <2>2. QED
    BY <1>2, <1>4, <2>1
    DEF HoldReadsName, Return, TypeInv, TypeOK, HeldTyped, lookupVars, drainVars
<1>5. CASE HoldGivesUp(q)
  BY <1>2, <1>5
  DEF HoldGivesUp, Return, TypeInv, TypeOK, HeldTyped, lookupVars, drainVars
<1>6. CASE QueryEnds(q)
  BY <1>2, <1>6
  DEF QueryEnds, TypeInv, TypeOK, HeldTyped, lookupVars, drainVars
<1>7. QED
  BY <1>3, <1>4, <1>5, <1>6

\* A stored entry is well formed, and the table stays finite.
LEMMA RecordTypes ==
  ASSUME TypeOK, NEW l \in Lookups, NEW name \in Names \cup {NoName}, Record(l, name)
  PROVE  entries' \in [Addrs -> Entry] /\ lcount' \in [Lookups -> Nat]
<1>1. entries' \in [Addrs -> Entry]
  BY DEF Record, TypeOK, Entry, NoEntry
<1>2. Cardinality(Known') \in Nat
  BY FiniteSubsets DEF Known
<1>3. QED
  BY <1>1, <1>2 DEF Record, TypeOK

\* And so does every step of a lookup that does not end it.
LEMMA LookupTypeInv ==
  ASSUME TypeInv, NEW l \in Lookups, NEW n \in Names \cup {NoName},
         \/ Resolve(l, n) \/ ResolvePanics(l) \/ StoreResult(l) \/ StoreAfterPanic(l)
         \/ SetGauge(l) \/ Cleanup(l) \/ CloseDone(l)
  PROVE  TypeInv'
<1> USE DEF TypeInv, LookupPC, Slotted
<1>1. Live' = Live /\ wg' = wg
  BY DEF Resolve, ResolvePanics, StoreResult, StoreAfterPanic, SetGauge, Cleanup,
         CloseDone, Live, TypeOK
<1>2. WgCountsLookups'
  BY <1>1 DEF WgCountsLookups
<1>3. HeldTyped'
  BY DEF Resolve, ResolvePanics, StoreResult, StoreAfterPanic, SetGauge, Cleanup,
         CloseDone, HeldTyped, queryVars
<1>4. CASE Resolve(l, n)
  BY <1>2, <1>3, <1>4 DEF Resolve, TypeOK, queryVars, drainVars
<1>5. CASE ResolvePanics(l)
  BY <1>2, <1>3, <1>5 DEF ResolvePanics, TypeOK, queryVars, drainVars
<1>6. CASE StoreResult(l)
  <2>1. entries' \in [Addrs -> Entry] /\ lcount' \in [Lookups -> Nat]
    BY <1>6, RecordTypes DEF StoreResult, TypeOK
  <2>2. QED
    BY <1>2, <1>3, <1>6, <2>1 DEF StoreResult, TypeOK, queryVars, drainVars
<1>7. CASE StoreAfterPanic(l)
  <2>1. entries' \in [Addrs -> Entry] /\ lcount' \in [Lookups -> Nat]
    BY <1>7, RecordTypes DEF StoreAfterPanic
  <2>2. QED
    BY <1>2, <1>3, <1>7, <2>1 DEF StoreAfterPanic, TypeOK, queryVars, drainVars
<1>8. CASE SetGauge(l)
  BY <1>2, <1>3, <1>8 DEF SetGauge, TypeOK, queryVars, drainVars
<1>9. CASE Cleanup(l)
  BY <1>2, <1>3, <1>9 DEF Cleanup, TypeOK, queryVars, drainVars
<1>10. CASE CloseDone(l)
  BY <1>2, <1>3, <1>10 DEF CloseDone, TypeOK, queryVars, drainVars
<1>11. QED
  BY <1>4, <1>5, <1>6, <1>7, <1>8, <1>9, <1>10

\* wg.Done takes the counter down by the one lookup that ends.
LEMMA LookupEndsTypeInv ==
  ASSUME TypeInv, NEW l \in Lookups, LookupEnds(l)
  PROVE  TypeInv'
<1> USE DEF TypeInv, LookupEnds, LookupEndsBy
<1>1. Live' = Live \ {l} /\ l \in Live
  BY DEF Live, TypeOK
<1>2. IsFiniteSet(Live) /\ Cardinality(Live) \in Nat /\ Cardinality(Live') \in Nat
  BY FiniteSubsets DEF Live
<1>3. Cardinality(Live') = Cardinality(Live) - 1
  BY <1>1, <1>2, FS_RemoveElement
<1>4. WgCountsLookups' /\ wg' \in Nat
  BY <1>2, <1>3 DEF WgCountsLookups
<1>5. HeldTyped'
  BY DEF HeldTyped, queryVars
<1>6. TypeOK'
  BY <1>4 DEF TypeOK, LookupPC, queryVars, drainVars
<1>7. QED
  BY <1>4, <1>5, <1>6

\* Time and shutdown touch neither lookups nor queries.
LEMMA RestTypeInv ==
  ASSUME TypeInv,
         \/ \E a \in Addrs : Expire(a)
         \/ \E d \in Drainers :
              \/ DrainBegins(d) \/ WaitBegins(d) \/ WaitReturns(d)
              \/ DrainJoins(d) \/ DrainAbandons(d)
  PROVE  TypeInv'
<1> USE DEF TypeInv, lookupVars, queryVars
<1>1. Live' = Live /\ wg' = wg
  BY DEF Expire, DrainBegins, WaitBegins, WaitReturns, DrainJoins, DrainAbandons, Live
<1>2. WgCountsLookups' /\ HeldTyped'
  BY <1>1 DEF Expire, DrainBegins, WaitBegins, WaitReturns, DrainJoins, DrainAbandons,
              HeldTyped, WgCountsLookups
<1>3. ASSUME NEW a \in Addrs, Expire(a) PROVE TypeOK'
  BY <1>3 DEF Expire, TypeOK, Entry, drainVars
<1>4. ASSUME NEW d \in Drainers,
             \/ DrainBegins(d) \/ WaitBegins(d) \/ WaitReturns(d)
             \/ DrainJoins(d) \/ DrainAbandons(d)
      PROVE TypeOK'
  BY <1>4 DEF DrainBegins, WaitBegins, WaitReturns, DrainJoins, DrainAbandons, TypeOK
<1>5. QED
  BY <1>2, <1>3, <1>4

\* Every step of the discoverer keeps the inductive part.
LEMMA NextTypeInv ==
  ASSUME TypeInv, [Next]_vars
  PROVE  TypeInv'
<1>1. ASSUME NEW q \in Queries, NEW a \in Addrs,
             \/ NameOnRecord(q, a)
             \/ \E mayHold \in BOOLEAN : NameShared(q, a, mayHold)
             \/ \E mayHold \in BOOLEAN, l \in Lookups : NameStarts(q, a, mayHold, l)
      PROVE  TypeInv'
  BY <1>1, NameTypeInv
<1>2. ASSUME NEW q \in Queries,
             HoldReleased(q) \/ HoldReadsName(q) \/ HoldGivesUp(q) \/ QueryEnds(q)
      PROVE  TypeInv'
  BY <1>2, HoldTypeInv
<1>3. ASSUME NEW l \in Lookups,
             \/ \E n \in Names \cup {NoName} : Resolve(l, n)
             \/ ResolvePanics(l) \/ StoreResult(l) \/ StoreAfterPanic(l)
             \/ SetGauge(l) \/ Cleanup(l) \/ CloseDone(l) \/ LookupEnds(l)
      PROVE  TypeInv'
  BY <1>3, LookupTypeInv, LookupEndsTypeInv
<1>4. CASE \/ \E a \in Addrs : Expire(a)
           \/ \E d \in Drainers :
                \/ DrainBegins(d) \/ WaitBegins(d) \/ WaitReturns(d)
                \/ DrainJoins(d) \/ DrainAbandons(d)
  BY <1>4, RestTypeInv
<1>5. CASE UNCHANGED vars
  BY <1>5 DEF vars, lookupVars, queryVars, drainVars, TypeInv, TypeOK, HeldTyped,
              WgCountsLookups, Live
<1>6. QED
  BY <1>1, <1>2, <1>3, <1>4, <1>5 DEF Next

\* In every reachable state.
LEMMA TypeInvHolds == Spec => []TypeInv
BY InitTypeInv, NextTypeInv, PTL DEF Spec

\* The variables have their types in every reachable state.
THEOREM TypeCorrect == Spec => []TypeOK
BY TypeInvHolds, PTL DEF TypeInv

\* No path through lookup, a recovered panic included, loses or repeats a Done.
THEOREM WaitGroupExact == Spec => []WgCountsLookups
BY TypeInvHolds, PTL DEF TypeInv

-----------------------------------------------------------------------------
(***************************************************************************)
(* Slots. The inflight map is inductive once every running lookup, slotted *)
(* or not, is known to have an address.                                    *)
(***************************************************************************)
SlotInv == SlotOwned /\ \A l \in Live : laddr[l] \in Addrs

\* Steps that touch neither the slots nor the lookups' phases.
LEMMA SlotInvFrame ==
  ASSUME SlotInv, UNCHANGED <<inflight, lpc, laddr>>
  PROVE  SlotInv'
BY DEF SlotInv, SlotOwned, Busy, BusyAddrs, Live

\* A lookup's own steps keep its slot its own until it deletes it.
LEMMA LookupSlotInv ==
  ASSUME TypeOK, SlotInv, NEW l \in Lookups, NEW n \in Names \cup {NoName},
         \/ Resolve(l, n) \/ ResolvePanics(l) \/ StoreResult(l) \/ StoreAfterPanic(l)
         \/ SetGauge(l) \/ Cleanup(l) \/ CloseDone(l) \/ LookupEnds(l)
  PROVE  SlotInv'
<1> USE DEF SlotInv, SlotOwned, Busy, BusyAddrs, Live, Slotted, TypeOK
<1>1. CASE Resolve(l, n) \/ ResolvePanics(l)
  BY <1>1 DEF Resolve, ResolvePanics
<1>2. CASE StoreResult(l) \/ StoreAfterPanic(l)
  BY <1>2 DEF StoreResult, StoreAfterPanic
<1>3. CASE SetGauge(l) \/ CloseDone(l)
  BY <1>3 DEF SetGauge, CloseDone
<1>4. CASE Cleanup(l)
  <2>1. laddr[l] \in Addrs /\ inflight[laddr[l]] = l
    BY <1>4 DEF Cleanup
  <2>2. QED
    BY <1>4, <2>1, ConstantsAssumption DEF Cleanup
<1>5. CASE LookupEnds(l)
  BY <1>5 DEF LookupEnds, LookupEndsBy
<1>6. QED
  BY <1>1, <1>2, <1>3, <1>4, <1>5

\* A new lookup takes a slot nobody has, under an identity nobody uses.
LEMMA StartSlotInv ==
  ASSUME TypeOK, SlotInv, NEW q \in Queries, NEW a \in Addrs, NEW mayHold \in BOOLEAN,
         NEW l \in Lookups, NameStarts(q, a, mayHold, l)
  PROVE  SlotInv'
BY ConstantsAssumption
DEF NameStarts, Free, SlotInv, SlotOwned, Busy, BusyAddrs, Live, Slotted, TypeOK

\* Every step keeps it that a slot is owned by one lookup.
LEMMA NextSlotInv ==
  ASSUME TypeOK, SlotInv, [Next]_vars
  PROVE  SlotInv'
<1>1. ASSUME NEW q \in Queries, NEW a \in Addrs,
             NameOnRecord(q, a) \/ \E mayHold \in BOOLEAN : NameShared(q, a, mayHold)
      PROVE  SlotInv'
  BY <1>1, SlotInvFrame DEF NameOnRecord, NameShared, lookupVars
<1>2. ASSUME NEW q \in Queries,
             HoldReleased(q) \/ HoldReadsName(q) \/ HoldGivesUp(q) \/ QueryEnds(q)
      PROVE  SlotInv'
  BY <1>2, SlotInvFrame DEF HoldReleased, HoldReadsName, HoldGivesUp, QueryEnds, lookupVars
<1>3. ASSUME NEW l \in Lookups,
             \/ \E n \in Names \cup {NoName} : Resolve(l, n)
             \/ ResolvePanics(l) \/ StoreResult(l) \/ StoreAfterPanic(l)
             \/ SetGauge(l) \/ Cleanup(l) \/ CloseDone(l) \/ LookupEnds(l)
      PROVE  SlotInv'
  BY <1>3, LookupSlotInv
<1>4. CASE \/ \E a \in Addrs : Expire(a)
           \/ \E d \in Drainers :
                \/ DrainBegins(d) \/ WaitBegins(d) \/ WaitReturns(d)
                \/ DrainJoins(d) \/ DrainAbandons(d)
  BY <1>4, SlotInvFrame
  DEF Expire, DrainBegins, WaitBegins, WaitReturns, DrainJoins, DrainAbandons, lookupVars
<1>5. CASE UNCHANGED vars
  BY <1>5, SlotInvFrame DEF vars, lookupVars
<1>6. QED
  BY <1>1, <1>2, <1>3, <1>4, <1>5, StartSlotInv DEF Next

\* In every reachable state.
LEMMA SlotInvHolds == Spec => []SlotInv
<1>1. Init => SlotInv
  BY ConstantsAssumption DEF Init, SlotInv, SlotOwned, Busy, BusyAddrs, Live, Slotted
<1>2. QED
  BY <1>1, NextSlotInv, TypeCorrect, PTL DEF Spec

\* A slot always belongs to a running lookup of its address that will free it.
THEOREM SlotsOwned == Spec => []SlotOwned
BY SlotInvHolds, PTL DEF SlotInv

\* Two resolvers are never asked about one address at the same time.
THEOREM OneFlightPerAddress == Spec => []SingleFlight
<1>1. SlotOwned => SingleFlight
  BY DEF SlotOwned, SingleFlight, Resolving, Slotted
<1>2. QED
  BY <1>1, SlotsOwned, PTL

\* The map of slots never outgrows the limit name checks before taking one.
SlotsLimited == Cardinality(BusyAddrs) <= MaxInflight

\* Fewer slots, within the limit.
LEMMA FewerSlots ==
  ASSUME SlotsLimited, BusyAddrs' \subseteq BusyAddrs
  PROVE  SlotsLimited'
<1>1. BusyAddrs \in SUBSET Addrs /\ BusyAddrs' \in SUBSET BusyAddrs
  BY DEF BusyAddrs
<1>2. IsFiniteSet(BusyAddrs) /\ Cardinality(BusyAddrs) \in Nat /\ Cardinality(BusyAddrs') \in Nat
  BY <1>1, FiniteSubsets DEF BusyAddrs
<1>3. Cardinality(BusyAddrs') <= Cardinality(BusyAddrs)
  BY <1>1, <1>2, FS_Subset
<1>4. QED
  BY <1>2, <1>3, ConstantsAssumption DEF SlotsLimited

\* No step takes a slot beyond the limit.
LEMMA NextSlotsLimited ==
  ASSUME TypeOK, SlotsLimited, [Next]_vars
  PROVE  SlotsLimited'
<1>1. ASSUME NEW q \in Queries, NEW a \in Addrs, NEW mayHold \in BOOLEAN,
             NEW l \in Lookups, NameStarts(q, a, mayHold, l)
      PROVE  SlotsLimited'
  <2>1. BusyAddrs' \subseteq BusyAddrs \cup {a}
    BY <1>1 DEF NameStarts, BusyAddrs, TypeOK
  <2>2. IsFiniteSet(BusyAddrs \cup {a}) /\ Cardinality(BusyAddrs) \in Nat
        /\ Cardinality(BusyAddrs \cup {a}) <= Cardinality(BusyAddrs) + 1
    <3>1. IsFiniteSet(BusyAddrs) /\ Cardinality(BusyAddrs) \in Nat
      BY FiniteSubsets DEF BusyAddrs
    <3>2. /\ IsFiniteSet(BusyAddrs \cup {a})
          /\ Cardinality(BusyAddrs \cup {a})
               = IF a \in BusyAddrs THEN Cardinality(BusyAddrs) ELSE Cardinality(BusyAddrs) + 1
      BY <3>1, FS_AddElement
    <3>3. QED
      BY <3>1, <3>2
  <2>3. Cardinality(BusyAddrs') <= Cardinality(BusyAddrs) + 1 /\ Cardinality(BusyAddrs') \in Nat
    <3>1. Cardinality(BusyAddrs \cup {a}) \in Nat
      BY <2>2, FS_CardinalityType
    <3>2. Cardinality(BusyAddrs') <= Cardinality(BusyAddrs \cup {a})
      BY <2>1, <2>2, FS_Subset
    <3>3. Cardinality(BusyAddrs') \in Nat
      BY FiniteSubsets DEF BusyAddrs
    <3>4. QED
      BY <2>2, <3>1, <3>2, <3>3
  <2>4. Cardinality(BusyAddrs) < MaxInflight
    BY <1>1, <2>2, ConstantsAssumption DEF NameStarts, Admits, Saturated
  <2>5. QED
    BY <2>2, <2>3, <2>4, ConstantsAssumption DEF SlotsLimited
<1>2. ASSUME NEW l \in Lookups, Cleanup(l)
      PROVE  SlotsLimited'
  <2>1. BusyAddrs' \subseteq BusyAddrs
    BY <1>2 DEF Cleanup, BusyAddrs, TypeOK
  <2>2. QED
    BY <2>1, FewerSlots
<1>3. CASE UNCHANGED inflight
  BY <1>3 DEF SlotsLimited, BusyAddrs
<1>4. ASSUME NEW l \in Lookups, NEW n \in Names \cup {NoName},
             \/ Resolve(l, n) \/ ResolvePanics(l) \/ StoreResult(l) \/ StoreAfterPanic(l)
             \/ SetGauge(l) \/ CloseDone(l) \/ LookupEnds(l)
      PROVE  UNCHANGED inflight
  BY <1>4 DEF Resolve, ResolvePanics, StoreResult, StoreAfterPanic, SetGauge, CloseDone,
              LookupEnds, LookupEndsBy
<1>5. ASSUME NEW q \in Queries,
             \/ \E a \in Addrs, mayHold \in BOOLEAN : NameOnRecord(q, a) \/ NameShared(q, a, mayHold)
             \/ HoldReleased(q) \/ HoldReadsName(q) \/ HoldGivesUp(q) \/ QueryEnds(q)
      PROVE  UNCHANGED inflight
  BY <1>5 DEF NameOnRecord, NameShared, HoldReleased, HoldReadsName, HoldGivesUp, QueryEnds
<1>6. CASE \/ \E a \in Addrs : Expire(a)
           \/ \E d \in Drainers :
                \/ DrainBegins(d) \/ WaitBegins(d) \/ WaitReturns(d)
                \/ DrainJoins(d) \/ DrainAbandons(d)
  BY <1>3, <1>6 DEF Expire, DrainBegins, WaitBegins, WaitReturns, DrainJoins, DrainAbandons
<1>7. CASE UNCHANGED vars
  BY <1>3, <1>7 DEF vars
<1>8. QED
  BY <1>1, <1>2, <1>3, <1>4, <1>5, <1>6, <1>7 DEF Next

\* Distinct running resolvers have distinct slots, and slots are limited.
THEOREM InflightBounded == Spec => []LookupsBounded
<1>1. Init => SlotsLimited
  <2>1. Init => BusyAddrs = {}
    BY DEF Init, BusyAddrs
  <2>2. QED
    BY <2>1, FS_EmptySet, ConstantsAssumption DEF SlotsLimited
<1>2. Spec => []SlotsLimited
  BY <1>1, NextSlotsLimited, TypeCorrect, PTL DEF Spec
<1>3. ASSUME TypeOK, SlotOwned, SlotsLimited PROVE LookupsBounded
  <2> DEFINE slot == [l \in Resolving |-> laddr[l]]
  <2>1. slot \in Injection(Resolving, BusyAddrs)
    <3>1. \A l \in Resolving : laddr[l] \in BusyAddrs /\ inflight[laddr[l]] = l
      BY <1>3, ConstantsAssumption DEF SlotOwned, Resolving, BusyAddrs, Slotted
    <3>2. QED
      BY <3>1 DEF Injection, IsInjective
  <2>2. IsFiniteSet(BusyAddrs) /\ Cardinality(BusyAddrs) \in Nat
        /\ Cardinality(Resolving) \in Nat
    BY FiniteSubsets DEF BusyAddrs, Resolving
  <2>3. Cardinality(Resolving) <= Cardinality(BusyAddrs)
    BY <2>1, <2>2, FS_Injection
  <2>4. QED
    BY <1>3, <2>2, <2>3, ConstantsAssumption DEF SlotsLimited, LookupsBounded
<1>4. QED
  BY <1>2, <1>3, SlotsOwned, TypeCorrect, PTL

-----------------------------------------------------------------------------
(***************************************************************************)
(* Shutdown. Once a drain waits, closing is set for good, so the counter   *)
(* only falls, and zero means the lookups are gone.                        *)
(***************************************************************************)
JoinInv == DrainOrder /\ JoinedMeansQuiet

\* Steps of the drains, and of lookups that end or go on, keep the join sound.
LEMMA NextJoinInv ==
  ASSUME TypeInv, JoinInv, [Next]_vars
  PROVE  JoinInv'
<1> USE DEF JoinInv, DrainOrder, JoinedMeansQuiet
<1>1. ASSUME UNCHANGED <<closing, dpc, wpc>>, Live' \subseteq Live
      PROVE  JoinInv'
  BY <1>1
<1>2. ASSUME NEW q \in Queries,
             \/ \E a \in Addrs, mayHold \in BOOLEAN : NameOnRecord(q, a) \/ NameShared(q, a, mayHold)
             \/ HoldReleased(q) \/ HoldReadsName(q) \/ HoldGivesUp(q) \/ QueryEnds(q)
      PROVE  JoinInv'
  BY <1>1, <1>2 DEF NameOnRecord, NameShared, HoldReleased, HoldReadsName, HoldGivesUp,
                    QueryEnds, lookupVars, drainVars, Live
<1>3. ASSUME NEW q \in Queries, NEW a \in Addrs, NEW mayHold \in BOOLEAN,
             NEW l \in Lookups, NameStarts(q, a, mayHold, l)
      PROVE  JoinInv'
  BY <1>3 DEF NameStarts, Admits, drainVars, TypeInv, TypeOK
<1>4. ASSUME NEW l \in Lookups, NEW n \in Names \cup {NoName},
             \/ Resolve(l, n) \/ ResolvePanics(l) \/ StoreResult(l) \/ StoreAfterPanic(l)
             \/ SetGauge(l) \/ Cleanup(l) \/ CloseDone(l) \/ LookupEnds(l)
      PROVE  JoinInv'
  <2>1. UNCHANGED <<closing, dpc, wpc>>
    BY <1>4 DEF Resolve, ResolvePanics, StoreResult, StoreAfterPanic, SetGauge, Cleanup,
                CloseDone, LookupEnds, LookupEndsBy, drainVars
  <2>2. Live' \subseteq Live
    BY <1>4 DEF Resolve, ResolvePanics, StoreResult, StoreAfterPanic, SetGauge, Cleanup,
                CloseDone, LookupEnds, LookupEndsBy, Live, TypeInv, TypeOK
  <2>3. QED
    BY <1>1, <2>1, <2>2
<1>5. ASSUME NEW a \in Addrs, Expire(a) PROVE JoinInv'
  BY <1>1, <1>5 DEF Expire, lookupVars, drainVars, Live
<1>6. ASSUME NEW d \in Drainers, WaitReturns(d) PROVE JoinInv'
  <2>1. Live = {}
    <3>1. IsFiniteSet(Live) /\ Cardinality(Live) = 0
      BY <1>6, FiniteSubsets DEF WaitReturns, TypeInv, WgCountsLookups, Live
    <3>2. QED
      BY <3>1, FS_EmptySet
  <2>2. Live' = {}
    BY <1>6, <2>1 DEF WaitReturns, lookupVars, Live
  <2>3. QED
    BY <1>6, <2>2 DEF WaitReturns, TypeInv, TypeOK
<1>7. ASSUME NEW d \in Drainers,
             DrainBegins(d) \/ WaitBegins(d) \/ DrainJoins(d) \/ DrainAbandons(d)
      PROVE  JoinInv'
  BY <1>7 DEF DrainBegins, WaitBegins, DrainJoins, DrainAbandons, lookupVars, Live, TypeInv, TypeOK
<1>8. CASE UNCHANGED vars
  BY <1>1, <1>8 DEF vars, lookupVars, drainVars, Live
<1>9. QED
  BY <1>2, <1>3, <1>4, <1>5, <1>6, <1>7, <1>8 DEF Next

\* In every reachable state.
LEMMA JoinInvHolds == Spec => []JoinInv
<1>1. Init => JoinInv
  BY DEF Init, JoinInv, DrainOrder, JoinedMeansQuiet
<1>2. QED
  BY <1>1, NextJoinInv, TypeInvHolds, PTL DEF Spec

\* When wg.Wait has returned no lookup runs, then or later.
THEOREM JoinIsQuiet == Spec => []JoinedMeansQuiet
BY JoinInvHolds, PTL DEF JoinInv

\* The Add/Wait race the WaitGroup forbids cannot happen.
THEOREM AddBeforeWait == Spec => NoAddAfterWait
<1>1. ASSUME TypeOK, JoinInv, [Next]_vars, \E d \in Drainers : wpc[d] # "none"
      PROVE  wg' <= wg
  <2>1. closing
    BY <1>1 DEF JoinInv, DrainOrder
  <2>2. \/ wg' = wg
        \/ \E l \in Lookups : LookupEnds(l)
    BY <1>1, <2>1
    DEF Next, vars, NameOnRecord, NameShared, NameStarts, Admits, HoldReleased, HoldReadsName,
        HoldGivesUp, QueryEnds, Resolve, ResolvePanics, StoreResult, StoreAfterPanic, SetGauge,
        Cleanup, CloseDone, Expire, DrainBegins, WaitBegins, WaitReturns, DrainJoins, DrainAbandons
  <2>3. QED
    BY <1>1, <2>2 DEF LookupEnds, LookupEndsBy, TypeOK
<1>2. QED
  BY <1>1, TypeCorrect, JoinInvHolds, PTL DEF Spec, NoAddAfterWait

-----------------------------------------------------------------------------
(***************************************************************************)
(* The table. Only the locked part of store adds an entry, and it makes    *)
(* room first.                                                             *)
(***************************************************************************)

\* Storing one more result keeps the table within discovery_max.
LEMMA RecordBounded ==
  ASSUME TypeOK, TableBounded, NEW l \in Lookups, NEW name \in Names \cup {NoName},
         laddr[l] \in Addrs, Record(l, name)
  PROVE  TableBounded'
<1> DEFINE a == laddr[l]
<1>1. /\ IsFiniteSet(Known) /\ Cardinality(Known) \in Nat
      /\ Cardinality(Known') \in Nat
  BY FiniteSubsets DEF Known
<1>2. CASE entries[a].known
  <2>1. Known' \subseteq Known
    BY <1>2 DEF Record, Overflows, Known, TypeOK
  <2>2. Cardinality(Known') <= Cardinality(Known)
    BY <1>1, <2>1, FS_Subset
  <2>3. QED
    BY <1>1, <2>2, ConstantsAssumption DEF TableBounded
<1>3. CASE ~entries[a].known /\ ~Overflows(a)
  <2>1. Known' = Known \cup {a} /\ a \notin Known
    BY <1>3 DEF Record, Known, TypeOK
  <2>2. Cardinality(Known') = Cardinality(Known) + 1
    BY <1>1, <2>1, FS_AddElement
  <2>3. Cardinality(Known) < MaxEntries
    BY <1>1, <1>3, ConstantsAssumption DEF Overflows
  <2>4. QED
    BY <1>1, <2>2, <2>3, ConstantsAssumption DEF TableBounded
<1>4. CASE Overflows(a)
  <2>1. PICK victim \in Known : Known' = (Known \ {victim}) \cup {a}
    BY <1>4 DEF Record, Known, TypeOK, NoEntry
  <2>2. /\ IsFiniteSet(Known \ {victim})
        /\ Cardinality(Known \ {victim}) = Cardinality(Known) - 1
    BY <1>1, FS_RemoveElement
  <2>3. a \notin Known \ {victim}
    BY <1>4 DEF Overflows, Known
  <2>4. Cardinality(Known') = Cardinality(Known \ {victim}) + 1
    BY <2>1, <2>2, <2>3, FS_AddElement
  <2>5. QED
    BY <1>1, <2>2, <2>4 DEF TableBounded
<1>5. QED
  BY <1>2, <1>3, <1>4 DEF Overflows

\* A running lookup has an address, so its stores are the case above.
LEMMA NextTableBounded ==
  ASSUME TypeOK, SlotInv, TableBounded, [Next]_vars
  PROVE  TableBounded'
<1>1. ASSUME NEW l \in Lookups, StoreResult(l) PROVE TableBounded'
  BY <1>1, RecordBounded DEF StoreResult, SlotInv, Live, TypeOK
<1>2. ASSUME NEW l \in Lookups, StoreAfterPanic(l) PROVE TableBounded'
  BY <1>2, RecordBounded DEF StoreAfterPanic, SlotInv, Live
<1>3. ASSUME Known' = Known PROVE TableBounded'
  BY <1>3 DEF TableBounded
<1>4. CASE UNCHANGED entries
  BY <1>3, <1>4 DEF Known
<1>5. ASSUME NEW a \in Addrs, Expire(a) PROVE TableBounded'
  BY <1>3, <1>5 DEF Expire, Known, TypeOK, Entry
<1>6. \/ UNCHANGED entries
      \/ \E l \in Lookups : StoreResult(l) \/ StoreAfterPanic(l)
      \/ \E a \in Addrs : Expire(a)
  BY DEF Next, vars, NameOnRecord, NameShared, NameStarts, HoldReleased, HoldReadsName,
         HoldGivesUp, QueryEnds, Resolve, ResolvePanics, SetGauge, Cleanup, CloseDone,
         LookupEnds, LookupEndsBy, DrainBegins, WaitBegins, WaitReturns, DrainJoins, DrainAbandons
<1>7. QED
  BY <1>1, <1>2, <1>4, <1>5, <1>6

\* discovery_max bounds the table whatever the interleaving of stores.
THEOREM TableWithinMax == Spec => []TableBounded
<1>1. Init => TableBounded
  <2>1. Init => Known = {}
    BY DEF Init, Known, NoEntry
  <2>2. QED
    BY <2>1, FS_EmptySet, ConstantsAssumption DEF TableBounded
<1>2. QED
  BY <1>1, NextTableBounded, TypeCorrect, SlotInvHolds, PTL DEF Spec

-----------------------------------------------------------------------------
(***************************************************************************)
(* Release after store. With room for every address nothing is evicted, so *)
(* what a lookup has stored is still there when its waiters run.           *)
(***************************************************************************)
Roomy == Cardinality(Addrs) <= MaxEntries

\* What close(done) may be relied on for: the channel is closed last, the
\* stored entry stays, and a query waits on a lookup of its own address or on
\* one that is over.
StoreInv ==
  /\ \A l \in closed : lpc[l] \in {"idle", "done"}
  /\ \A l \in Lookups : lpc[l] \in StoredPC => entries[laddr[l]].known
  /\ \A q \in Queries :
       /\ qpc[q] = "hold" /\ lpc[qchan[q]] # "idle" => laddr[qchan[q]] = qaddr[q]
       /\ qpc[q] = "hold" /\ lpc[qchan[q]] = "idle" => entries[qaddr[q]].known
       /\ qpc[q] = "released" => entries[qaddr[q]].known

\* With room for all, a store leaves every other entry alone.
LEMMA RoomyRecord ==
  ASSUME Roomy, TypeOK, NEW l \in Lookups, NEW name \in Names \cup {NoName},
         laddr[l] \in Addrs, Record(l, name)
  PROVE  entries'[laddr[l]].known /\ Known \subseteq Known'
<1>1. ~Overflows(laddr[l])
  <2>1. SUFFICES ASSUME ~entries[laddr[l]].known PROVE Cardinality(Known) < MaxEntries
    BY FiniteSubsets, ConstantsAssumption DEF Overflows, Known
  <2>2. Known \in SUBSET Addrs /\ Known # Addrs
    BY <2>1 DEF Known
  <2>3. Cardinality(Known) \in Nat /\ Cardinality(Addrs) \in Nat
    BY FiniteSubsets DEF Known
  <2>4. Cardinality(Known) <= Cardinality(Addrs) /\ Cardinality(Known) # Cardinality(Addrs)
    BY <2>2, ConstantsAssumption, FS_Subset
  <2>5. QED
    BY <2>3, <2>4, ConstantsAssumption DEF Roomy
<1>2. QED
  BY <1>1 DEF Record, Known, TypeOK, Overflows

\* A store, of a result or after a panic, keeps the promise to the waiters.
LEMMA RecordStoreInv ==
  ASSUME Roomy, TypeInv, SlotInv, StoreInv, NEW l \in Lookups,
         StoreResult(l) \/ StoreAfterPanic(l)
  PROVE  StoreInv'
<1>1. /\ laddr[l] \in Addrs /\ lpc[l] \in {"store", "recover"}
      /\ lpc' = [lpc EXCEPT ![l] = IF lpc[l] = "store" THEN "gauge" ELSE "regauge"]
      /\ UNCHANGED <<laddr, closed, qpc, qaddr, qchan>>
  BY DEF StoreResult, StoreAfterPanic, SlotInv, Live, queryVars
<1>2. entries'[laddr[l]].known /\ Known \subseteq Known'
  BY <1>1, RoomyRecord DEF StoreResult, StoreAfterPanic, TypeInv, TypeOK
<1>3. \A a \in Addrs : entries[a].known => entries'[a].known
  BY <1>2 DEF Known
<1>4. \A m \in Lookups : lpc[m] # "idle" => laddr[m] \in Addrs
  BY DEF SlotInv, Live
<1>5. lpc \in [Lookups -> LookupPC] /\ closed \subseteq Lookups
  BY DEF TypeInv, TypeOK
<1>6. QED
  BY <1>1, <1>2, <1>3, <1>4, <1>5 DEF StoreInv, StoredPC, TypeInv, HeldTyped

\* A query is held on a lookup of its own address, shared or just started.
LEMMA NameStoreInv ==
  ASSUME TypeInv, SlotInv, StoreInv, NEW q \in Queries, NEW a \in Addrs,
         \/ NameOnRecord(q, a)
         \/ \E mayHold \in BOOLEAN : NameShared(q, a, mayHold)
         \/ \E mayHold \in BOOLEAN, l \in Lookups : NameStarts(q, a, mayHold, l)
  PROVE  StoreInv'
<1> USE DEF StoreInv, StoredPC, TypeInv, TypeOK, HeldTyped
<1>1. CASE NameOnRecord(q, a)
  BY <1>1 DEF NameOnRecord, Return, lookupVars
<1>2. ASSUME NEW mayHold \in BOOLEAN, NameShared(q, a, mayHold) PROVE StoreInv'
  <2>1. /\ inflight[a] \in Lookups
        /\ lpc[inflight[a]] # "idle"
        /\ laddr[inflight[a]] = a
    BY <1>2 DEF NameShared, SlotInv, SlotOwned, Slotted, Busy, BusyAddrs
  <2>2. CASE MustHold(a, mayHold)
    BY <1>2, <2>1, <2>2 DEF NameShared, HoldOn, lookupVars
  <2>3. CASE ~MustHold(a, mayHold)
    BY <1>2, <2>3 DEF NameShared, Return, lookupVars
  <2>4. QED
    BY <2>2, <2>3
<1>3. ASSUME NEW mayHold \in BOOLEAN, NEW l \in Lookups, NameStarts(q, a, mayHold, l)
      PROVE  StoreInv'
  <2>1. /\ \A r \in Queries : qpc[r] = "hold" => qchan[r] # l
        /\ lpc' = [lpc EXCEPT ![l] = "resolve"] /\ laddr' = [laddr EXCEPT ![l] = a]
        /\ closed' = closed \ {l} /\ entries' = entries
        /\ qaddr' = [qaddr EXCEPT ![q] = a]
    BY <1>3 DEF NameStarts, Free
  <2>2. CASE MustHold(a, mayHold)
    BY <1>3, <2>1, <2>2 DEF NameStarts, HoldOn
  <2>3. CASE ~MustHold(a, mayHold)
    BY <1>3, <2>1, <2>3 DEF NameStarts, Return
  <2>4. QED
    BY <2>2, <2>3
<1>4. QED
  BY <1>1, <1>2, <1>3

\* A query leaves hold through the closed channel only after the store.
LEMMA HoldStoreInv ==
  ASSUME TypeInv, StoreInv, NEW q \in Queries,
         HoldReleased(q) \/ HoldReadsName(q) \/ HoldGivesUp(q) \/ QueryEnds(q)
  PROVE  StoreInv'
<1> USE DEF StoreInv, StoredPC, TypeInv, TypeOK, HeldTyped, lookupVars
<1>1. CASE HoldReleased(q)
  <2>1. entries[qaddr[q]].known
    BY <1>1 DEF HoldReleased
  <2>2. QED
    BY <1>1, <2>1 DEF HoldReleased
<1>2. CASE HoldReadsName(q) \/ HoldGivesUp(q) \/ QueryEnds(q)
  BY <1>2 DEF HoldReadsName, HoldGivesUp, QueryEnds, Return
<1>3. QED
  BY <1>1, <1>2

\* The other steps of a lookup move it along without touching the table.
LEMMA LookupStoreInv ==
  ASSUME TypeInv, StoreInv, NEW l \in Lookups, NEW n \in Names \cup {NoName},
         \/ Resolve(l, n) \/ ResolvePanics(l) \/ SetGauge(l) \/ Cleanup(l)
         \/ CloseDone(l) \/ LookupEnds(l)
  PROVE  StoreInv'
<1> USE DEF StoreInv, StoredPC, TypeInv, TypeOK, HeldTyped, queryVars
<1>1. CASE Resolve(l, n) \/ ResolvePanics(l)
  BY <1>1 DEF Resolve, ResolvePanics
<1>2. CASE SetGauge(l)
  BY <1>2 DEF SetGauge
<1>3. CASE Cleanup(l)
  BY <1>3 DEF Cleanup
<1>4. CASE CloseDone(l)
  BY <1>4 DEF CloseDone
<1>5. CASE LookupEnds(l)
  BY <1>5 DEF LookupEnds, LookupEndsBy
<1>6. QED
  BY <1>1, <1>2, <1>3, <1>4, <1>5

\* Every step keeps what close(done) may be relied on for.
LEMMA NextStoreInv ==
  ASSUME Roomy, TypeInv, SlotInv, StoreInv, [Next]_vars
  PROVE  StoreInv'
<1>1. ASSUME UNCHANGED <<entries, lookupVars, queryVars>> PROVE StoreInv'
  BY <1>1 DEF StoreInv, StoredPC, lookupVars, queryVars
<1>2. ASSUME NEW a \in Addrs, Expire(a) PROVE StoreInv'
  <2>1. \A b \in Addrs : entries'[b].known = entries[b].known
    BY <1>2 DEF Expire, TypeInv, TypeOK, Entry
  <2>2. \A m \in Lookups : lpc[m] # "idle" => laddr[m] \in Addrs
    BY DEF SlotInv, Live
  <2>3. QED
    BY <1>2, <2>1, <2>2 DEF Expire, StoreInv, StoredPC, TypeInv, HeldTyped, lookupVars, queryVars
<1>3. ASSUME NEW d \in Drainers,
             \/ DrainBegins(d) \/ WaitBegins(d) \/ WaitReturns(d)
             \/ DrainJoins(d) \/ DrainAbandons(d)
      PROVE  StoreInv'
  BY <1>1, <1>3 DEF DrainBegins, WaitBegins, WaitReturns, DrainJoins, DrainAbandons
<1>4. CASE UNCHANGED vars
  BY <1>1, <1>4 DEF vars
<1>5. ASSUME NEW l \in Lookups,
             \/ \E n \in Names \cup {NoName} : Resolve(l, n)
             \/ ResolvePanics(l) \/ StoreResult(l) \/ StoreAfterPanic(l)
             \/ SetGauge(l) \/ Cleanup(l) \/ CloseDone(l) \/ LookupEnds(l)
      PROVE  StoreInv'
  BY <1>5, LookupStoreInv, RecordStoreInv
<1>6. QED
  BY <1>2, <1>3, <1>4, <1>5, NameStoreInv, HoldStoreInv DEF Next

\* "By the time the waiters are released the entry is already stored."
THEOREM StoredBeforeRelease == Spec => []ReleasedAfterStore
<1>1. Init => StoreInv
  BY DEF Init, StoreInv, StoredPC
<1>2. Roomy /\ TypeInv /\ SlotInv /\ StoreInv /\ [Next]_vars => StoreInv'
  BY NextStoreInv
<1>3. CASE Roomy
  <2>1. Spec => []StoreInv
    BY <1>1, <1>2, <1>3, TypeInvHolds, SlotInvHolds, PTL DEF Spec
  <2>2. StoreInv => ReleasedAfterStore
    BY DEF StoreInv, ReleasedAfterStore
  <2>3. QED
    BY <2>1, <2>2, PTL
<1>4. CASE ~Roomy
  <2>1. ReleasedAfterStore
    BY <1>4 DEF Roomy, ReleasedAfterStore
  <2>2. QED
    BY <2>1, PTL
<1>5. QED
  BY <1>3, <1>4

-----------------------------------------------------------------------------
(***************************************************************************)
(* The directory of Naming. Every step of the discoverer is a step of the  *)
(* directory or leaves it alone. It takes what is known of the slots, and  *)
(* that a query or a lookup which is not running has nothing left over.    *)
(***************************************************************************)
CallInv ==
  /\ \A l \in closed : lpc[l] \in {"idle", "done"}
  /\ \A l \in Lookups : lpc[l] = "idle" => laddr[l] = NoAddr
  /\ \A q \in Queries :
       /\ qpc[q] # "hold" => qchan[q] = NoLookup
       /\ qpc[q] = "idle" => qaddr[q] = NoAddr
       /\ qpc[q] # "done" => qname[q] = NoName

\* Every step keeps it that what is not running has nothing left over.
LEMMA NextCallInv ==
  ASSUME TypeInv, SlotInv, CallInv, [Next]_vars
  PROVE  CallInv'
<1> USE DEF TypeInv, TypeOK, CallInv
<1>1. ASSUME NEW q \in Queries, NEW a \in Addrs, NameOnRecord(q, a) PROVE CallInv'
  BY <1>1 DEF NameOnRecord, Return, lookupVars
<1>2. ASSUME NEW q \in Queries, NEW a \in Addrs, NEW mayHold \in BOOLEAN,
             NameShared(q, a, mayHold)
      PROVE  CallInv'
  BY <1>2 DEF NameShared, HoldOn, Return, lookupVars
<1>3. ASSUME NEW q \in Queries, NEW a \in Addrs, NEW mayHold \in BOOLEAN,
             NEW l \in Lookups, NameStarts(q, a, mayHold, l)
      PROVE  CallInv'
  BY <1>3 DEF NameStarts, HoldOn, Return
<1>4. ASSUME NEW q \in Queries,
             HoldReleased(q) \/ HoldReadsName(q) \/ HoldGivesUp(q) \/ QueryEnds(q)
      PROVE  CallInv'
  BY <1>4 DEF HoldReleased, HoldReadsName, HoldGivesUp, QueryEnds, Return, lookupVars
<1>5. ASSUME NEW l \in Lookups,
             \/ \E n \in Names \cup {NoName} : Resolve(l, n)
             \/ ResolvePanics(l) \/ StoreResult(l) \/ StoreAfterPanic(l)
             \/ SetGauge(l) \/ Cleanup(l) \/ CloseDone(l) \/ LookupEnds(l)
      PROVE  CallInv'
  BY <1>5 DEF Resolve, ResolvePanics, StoreResult, StoreAfterPanic, SetGauge, Cleanup,
              CloseDone, LookupEnds, LookupEndsBy, queryVars
<1>6. CASE \/ \E a \in Addrs : Expire(a)
           \/ \E d \in Drainers :
                \/ DrainBegins(d) \/ WaitBegins(d) \/ WaitReturns(d)
                \/ DrainJoins(d) \/ DrainAbandons(d)
           \/ UNCHANGED vars
  BY <1>6 DEF Expire, DrainBegins, WaitBegins, WaitReturns, DrainJoins, DrainAbandons,
              lookupVars, queryVars, vars
<1>7. QED
  BY <1>1, <1>2, <1>3, <1>4, <1>5, <1>6 DEF Next

\* In every reachable state.
LEMMA CallInvHolds == Spec => []CallInv
<1>1. Init => CallInv
  BY DEF Init, CallInv
<1>2. QED
  BY <1>1, NextCallInv, TypeInvHolds, SlotInvHolds, PTL DEF Spec

\* A query that neither starts a lookup nor waits asks the directory.
LEMMA RecordOrShareMaps ==
  ASSUME TypeInv, SlotInv, CallInv, NEW q \in Queries, NEW a \in Addrs,
         NameOnRecord(q, a) \/ \E mayHold \in BOOLEAN : NameShared(q, a, mayHold)
  PROVE  Directory!Asks(q, a)
<1>1. Calls[q].state = "idle" /\ qpc[q] = "idle" /\ qchan[q] = NoLookup /\ qname[q] = NoName
  BY DEF NameOnRecord, NameShared, Calls, CallState, CallInv
<1>2. Jobs' = Jobs /\ Facts' = Facts
  BY DEF NameOnRecord, NameShared, Jobs, Facts, lookupVars
<1>3. Facts[a] = entries[a].name
  BY DEF Facts
<1>4. ASSUME Return(q, entries[a].name), qchan' = qchan, qaddr' = [qaddr EXCEPT ![q] = a]
      PROVE  Directory!Asks(q, a)
  <2>1. qchan' = [qchan EXCEPT ![q] = NoLookup]
    BY <1>1, <1>4 DEF TypeInv, TypeOK
  <2>2. Calls' = [Calls EXCEPT ![q] = [state |-> CallState("done"), addr |-> a,
                                       on |-> NoLookup, name |-> Facts[a]]]
    BY <1>3, <1>4, <2>1 DEF Return, Calls, TypeInv, TypeOK
  <2>3. CallState("done") = "answered"
    BY DEF CallState
  <2>4. QED
    BY <1>1, <1>2, <2>2, <2>3 DEF Directory!Asks, Directory!MayBegin, Directory!Given
<1>5. CASE NameOnRecord(q, a)
  BY <1>4, <1>5 DEF NameOnRecord
<1>6. ASSUME NEW mayHold \in BOOLEAN, NameShared(q, a, mayHold) PROVE Directory!Asks(q, a)
  <2>1. inflight[a] \in Lookups /\ Jobs[inflight[a]].addr = a
    BY <1>6 DEF NameShared, SlotInv, SlotOwned, Busy, BusyAddrs, Jobs, TypeInv, TypeOK
  <2>2. CASE MustHold(a, mayHold)
    <3>1. HoldOn(q, inflight[a]) /\ qaddr' = [qaddr EXCEPT ![q] = a] /\ Facts[a] = NoName
      BY <1>3, <1>6, <2>2 DEF NameShared, MustHold
    <3>2. qname' = [qname EXCEPT ![q] = NoName]
      BY <1>1, <3>1 DEF HoldOn, TypeInv, TypeOK
    <3>3. Calls' = [Calls EXCEPT ![q] = [state |-> CallState("hold"), addr |-> a,
                                         on |-> inflight[a], name |-> NoName]]
      BY <3>1, <3>2 DEF HoldOn, Calls, TypeInv, TypeOK
    <3>4. CallState("hold") = "waiting"
      BY DEF CallState
    <3>5. QED
      BY <1>1, <1>2, <2>1, <3>1, <3>3, <3>4 DEF Directory!Asks, Directory!MayBegin
  <2>3. CASE ~MustHold(a, mayHold)
    BY <1>4, <1>6, <2>3 DEF NameShared
  <2>4. QED
    BY <2>2, <2>3
<1>7. QED
  BY <1>5, <1>6

\* A query that starts a lookup asks, and has the lookup begin.
LEMMA StartMaps ==
  ASSUME TypeInv, SlotInv, CallInv, NEW q \in Queries, NEW a \in Addrs,
         NEW mayHold \in BOOLEAN, NEW l \in Lookups, NameStarts(q, a, mayHold, l)
  PROVE  Directory!Asks(q, a)
<1>1. Calls[q].state = "idle" /\ qpc[q] = "idle" /\ qchan[q] = NoLookup /\ qname[q] = NoName
  BY DEF NameStarts, Calls, CallState, CallInv
<1>2. Facts' = Facts /\ Facts[a] = entries[a].name
  BY DEF NameStarts, Facts
<1>3. JobState("idle") = "none" /\ JobState("resolve") = "busy"
  BY DEF JobState, StoredPC
<1>4. Jobs[l].state = "none"
  BY <1>3 DEF NameStarts, Free, Jobs
<1>5. Jobs' = [Jobs EXCEPT ![l] = [state |-> "busy", addr |-> a]]
  BY <1>3 DEF NameStarts, Jobs, TypeInv, TypeOK
<1>6. Jobs'[l].addr = a
  BY <1>5 DEF Jobs
<1>7. CASE MustHold(a, mayHold)
  <2>1. HoldOn(q, l) /\ qaddr' = [qaddr EXCEPT ![q] = a] /\ Facts[a] = NoName
    BY <1>2, <1>7 DEF NameStarts, MustHold
  <2>2. qname' = [qname EXCEPT ![q] = NoName]
    BY <1>1, <2>1 DEF HoldOn, TypeInv, TypeOK
  <2>3. Calls' = [Calls EXCEPT ![q] = [state |-> CallState("hold"), addr |-> a,
                                       on |-> l, name |-> NoName]]
    BY <2>1, <2>2 DEF HoldOn, Calls, TypeInv, TypeOK
  <2>4. CallState("hold") = "waiting"
    BY DEF CallState
  <2>5. QED
    BY <1>1, <1>2, <1>4, <1>5, <1>6, <2>1, <2>3, <2>4 DEF Directory!Asks, Directory!MayBegin
<1>8. CASE ~MustHold(a, mayHold)
  <2>1. /\ Return(q, entries[a].name) /\ qchan' = [qchan EXCEPT ![q] = NoLookup]
        /\ qaddr' = [qaddr EXCEPT ![q] = a]
    BY <1>1, <1>8 DEF NameStarts, TypeInv, TypeOK
  <2>2. Calls' = [Calls EXCEPT ![q] = [state |-> CallState("done"), addr |-> a,
                                       on |-> NoLookup, name |-> Facts[a]]]
    BY <1>2, <2>1 DEF Return, Calls, TypeInv, TypeOK
  <2>3. CallState("done") = "answered"
    BY DEF CallState
  <2>4. QED
    BY <1>1, <1>2, <1>4, <1>5, <2>2, <2>3
    DEF Directory!Asks, Directory!MayBegin, Directory!Given
<1>9. QED
  BY <1>7, <1>8

\* A held query wakes after its lookup has settled, reads, or gives up.
LEMMA HoldMaps ==
  ASSUME TypeInv, SlotInv, CallInv, NEW q \in Queries,
         HoldReleased(q) \/ HoldReadsName(q) \/ HoldGivesUp(q) \/ QueryEnds(q)
  PROVE  Directory!Wakes(q) \/ Directory!Answers(q) \/ Directory!Leaves(q)
<1>1. /\ Calls[q].state = CallState(qpc[q]) /\ Calls[q].addr = qaddr[q]
      /\ Calls[q].on = qchan[q] /\ Calls[q].name = qname[q]
  BY DEF Calls
<1>2. Jobs' = Jobs /\ Facts' = Facts
  BY DEF HoldReleased, HoldReadsName, HoldGivesUp, QueryEnds, Jobs, Facts, lookupVars
<1>3. CASE HoldReleased(q)
  <2>1. qpc[q] = "hold" /\ qchan[q] \in closed /\ qchan[q] \in Lookups
    BY <1>3 DEF HoldReleased, TypeInv, HeldTyped
  <2>2. Jobs[qchan[q]].state # "busy"
    BY <2>1 DEF CallInv, Jobs, JobState, StoredPC
  <2>3. qaddr' = [qaddr EXCEPT ![q] = qaddr[q]] /\ qname' = [qname EXCEPT ![q] = qname[q]]
    BY <1>3 DEF HoldReleased, TypeInv, TypeOK
  <2>4. Calls' = [Calls EXCEPT ![q] = [state |-> CallState("released"), addr |-> qaddr[q],
                                       on |-> NoLookup, name |-> qname[q]]]
    BY <1>3, <2>3 DEF HoldReleased, Calls, TypeInv, TypeOK
  <2>5. CallState("released") = "waiting" /\ CallState("hold") = "waiting"
    BY DEF CallState
  <2>6. [Calls[q] EXCEPT !.on = NoLookup]
          = [state |-> CallState("released"), addr |-> qaddr[q], on |-> NoLookup, name |-> qname[q]]
    BY <2>1, <2>5 DEF Calls
  <2>7. QED
    BY <1>1, <1>2, <2>1, <2>2, <2>4, <2>5, <2>6 DEF Directory!Wakes
<1>4. CASE HoldReadsName(q)
  <2>1. qpc[q] = "released" /\ qchan[q] = NoLookup /\ qaddr[q] \in Addrs
    BY <1>4 DEF HoldReadsName, CallInv, TypeInv, HeldTyped
  <2>2. /\ qaddr' = [qaddr EXCEPT ![q] = qaddr[q]]
        /\ qchan' = [qchan EXCEPT ![q] = NoLookup]
        /\ qname' = [qname EXCEPT ![q] = Facts[qaddr[q]]]
    BY <1>4, <2>1 DEF HoldReadsName, Return, Facts, TypeInv, TypeOK
  <2>3. Calls' = [Calls EXCEPT ![q] = [state |-> CallState("done"), addr |-> qaddr[q],
                                       on |-> NoLookup, name |-> Facts[qaddr[q]]]]
    BY <1>4, <2>2 DEF HoldReadsName, Return, Calls, TypeInv, TypeOK
  <2>4. CallState("done") = "answered" /\ CallState("released") = "waiting"
    BY DEF CallState
  <2>5. QED
    BY <1>1, <1>2, <2>1, <2>3, <2>4 DEF Directory!Answers, Directory!Given
<1>5. CASE HoldGivesUp(q)
  <2>1. qpc[q] = "hold" /\ qchan[q] # NoLookup
    BY <1>5, ConstantsAssumption DEF HoldGivesUp, TypeInv, HeldTyped
  <2>2. qaddr' = [qaddr EXCEPT ![q] = qaddr[q]]
    BY <1>5 DEF HoldGivesUp, TypeInv, TypeOK
  <2>3. Calls' = [Calls EXCEPT ![q] = [state |-> CallState("done"), addr |-> qaddr[q],
                                       on |-> NoLookup, name |-> NoName]]
    BY <1>5, <2>2 DEF HoldGivesUp, Return, Calls, TypeInv, TypeOK
  <2>4. CallState("done") = "answered" /\ CallState("hold") = "waiting"
    BY DEF CallState
  <2>5. QED
    BY <1>1, <1>2, <2>1, <2>3, <2>4 DEF Directory!Answers, Directory!Given
<1>6. CASE QueryEnds(q)
  <2>1. qpc[q] = "done" /\ qchan[q] = NoLookup
    BY <1>6 DEF QueryEnds, CallInv
  <2>2. qchan' = [qchan EXCEPT ![q] = NoLookup]
    BY <1>6, <2>1 DEF QueryEnds, TypeInv, TypeOK
  <2>3. Calls' = [Calls EXCEPT ![q] = [state |-> CallState("idle"), addr |-> NoAddr,
                                       on |-> NoLookup, name |-> NoName]]
    BY <1>6, <2>2 DEF QueryEnds, Calls, TypeInv, TypeOK
  <2>4. CallState("done") = "answered" /\ CallState("idle") = "idle"
    BY DEF CallState
  <2>5. QED
    BY <1>1, <1>2, <2>1, <2>3, <2>4 DEF Directory!Leaves, Directory!NoCall
<1>7. QED
  BY <1>3, <1>4, <1>5, <1>6

\* The store of a lookup settles the name of its address; what the table drops
\* to make room is a name lost. Its other steps are not seen, but its end.
LEMMA LookupMaps ==
  ASSUME TypeInv, SlotInv, CallInv, NEW l \in Lookups, NEW n \in Names \cup {NoName},
         \/ Resolve(l, n) \/ ResolvePanics(l) \/ StoreResult(l) \/ StoreAfterPanic(l)
         \/ SetGauge(l) \/ Cleanup(l) \/ CloseDone(l) \/ LookupEnds(l)
  PROVE  \/ \E m \in Names \cup {NoName} : Directory!Settles(l, m)
         \/ Directory!Ends(l)
         \/ UNCHANGED Directory!vars
<1>1. Calls' = Calls
  BY DEF Resolve, ResolvePanics, StoreResult, StoreAfterPanic, SetGauge, Cleanup,
         CloseDone, LookupEnds, LookupEndsBy, queryVars, Calls
<1>2. CASE StoreResult(l) \/ StoreAfterPanic(l)
  <2>1. PICK name \in Names \cup {NoName} : Record(l, name)
    BY <1>2 DEF StoreResult, StoreAfterPanic, TypeInv, TypeOK
  <2>2. laddr[l] \in Addrs /\ lpc[l] \in {"store", "recover"}
    BY <1>2 DEF StoreResult, StoreAfterPanic, SlotInv, Live
  <2>3. PICK lost \in Addrs :
          entries' = [b \in Addrs |->
                        IF b = laddr[l] THEN [known |-> TRUE, name |-> name, fresh |-> TRUE]
                        ELSE IF b = lost THEN NoEntry ELSE entries[b]]
    BY <2>1, <2>2 DEF Record, Known
  <2>4. Facts' = [a \in Addrs |-> IF a = laddr[l] THEN name
                                  ELSE IF a = lost THEN NoName ELSE Facts[a]]
    BY <2>3 DEF Facts, NoEntry
  <2>5. /\ Jobs[l].state = JobState(lpc[l]) /\ Jobs[l].addr = laddr[l]
        /\ JobState("store") = "busy" /\ JobState("recover") = "busy"
        /\ JobState("gauge") = "settled" /\ JobState("regauge") = "settled"
    BY DEF Jobs, JobState, StoredPC
  <2>6. \/ lpc' = [lpc EXCEPT ![l] = "gauge"] /\ laddr' = laddr
        \/ lpc' = [lpc EXCEPT ![l] = "regauge"] /\ laddr' = laddr
    BY <1>2 DEF StoreResult, StoreAfterPanic
  <2>7. Jobs' = [Jobs EXCEPT ![l] = [state |-> "settled", addr |-> Jobs[l].addr]]
    BY <2>5, <2>6 DEF Jobs, TypeInv, TypeOK
  <2>8. Directory!Settles(l, name)
    BY <1>1, <2>2, <2>4, <2>5, <2>7 DEF Directory!Settles
  <2>9. QED
    BY <2>8
<1>3. CASE LookupEnds(l)
  <2>1. lpc[l] = "done" /\ lpc' = [lpc EXCEPT ![l] = "idle"] /\ laddr' = [laddr EXCEPT ![l] = NoAddr]
    BY <1>3 DEF LookupEnds, LookupEndsBy
  <2>2. Jobs[l].state = JobState(lpc[l]) /\ JobState("done") = "settled" /\ JobState("idle") = "none"
    BY DEF Jobs, JobState, StoredPC
  <2>3. Jobs' = [Jobs EXCEPT ![l] = [state |-> "none", addr |-> NoAddr]]
    BY <2>1, <2>2 DEF Jobs, TypeInv, TypeOK
  <2>4. Facts' = Facts
    BY <1>3 DEF LookupEnds, LookupEndsBy, Facts
  <2>5. QED
    BY <1>1, <2>1, <2>2, <2>3, <2>4 DEF Directory!Ends, Directory!NoJob
<1>4. CASE Resolve(l, n) \/ ResolvePanics(l) \/ SetGauge(l) \/ Cleanup(l) \/ CloseDone(l)
  <2>1. Facts' = Facts
    BY <1>4 DEF Resolve, ResolvePanics, SetGauge, Cleanup, CloseDone, Facts
  <2>2. \A pc : pc \in {"resolve", "store", "panicked", "recover"} => JobState(pc) = "busy"
    BY DEF JobState, StoredPC
  <2>3. \A pc \in StoredPC : JobState(pc) = "settled"
    BY DEF JobState, StoredPC
  <2>4. laddr' = laddr /\ \A m \in Lookups : JobState(lpc'[m]) = JobState(lpc[m])
    BY <1>4, <2>2, <2>3
    DEF Resolve, ResolvePanics, SetGauge, Cleanup, CloseDone, StoredPC, TypeInv, TypeOK
  <2>5. Jobs' = Jobs
    BY <2>4 DEF Jobs
  <2>6. QED
    BY <1>1, <2>1, <2>5 DEF Directory!vars
<1>5. QED
  BY <1>2, <1>3, <1>4

\* Every step of the discoverer is one of the directory, or a stutter.
LEMMA NextMaps ==
  ASSUME TypeInv, SlotInv, CallInv, [Next]_vars
  PROVE  [Directory!Next]_Directory!vars
<1>1. ASSUME NEW q \in Queries, NEW a \in Addrs,
             \/ NameOnRecord(q, a)
             \/ \E mayHold \in BOOLEAN : NameShared(q, a, mayHold)
             \/ \E mayHold \in BOOLEAN, l \in Lookups : NameStarts(q, a, mayHold, l)
      PROVE  Directory!Next
  BY <1>1, RecordOrShareMaps, StartMaps DEF Directory!Next
<1>2. ASSUME NEW q \in Queries,
             HoldReleased(q) \/ HoldReadsName(q) \/ HoldGivesUp(q) \/ QueryEnds(q)
      PROVE  Directory!Next
  BY <1>2, HoldMaps DEF Directory!Next
<1>3. ASSUME NEW l \in Lookups,
             \/ \E n \in Names \cup {NoName} : Resolve(l, n)
             \/ ResolvePanics(l) \/ StoreResult(l) \/ StoreAfterPanic(l)
             \/ SetGauge(l) \/ Cleanup(l) \/ CloseDone(l) \/ LookupEnds(l)
      PROVE  [Directory!Next]_Directory!vars
  BY <1>3, LookupMaps DEF Directory!Next
<1>4. ASSUME NEW a \in Addrs, Expire(a) PROVE UNCHANGED Directory!vars
  <2>1. entries' = [entries EXCEPT ![a].fresh = FALSE]
    BY <1>4 DEF Expire
  <2>2. \A b \in Addrs : entries'[b].name = entries[b].name
    BY <2>1 DEF TypeInv, TypeOK, Entry
  <2>3. QED
    BY <1>4, <2>2 DEF Expire, Directory!vars, Facts, Jobs, Calls, lookupVars, queryVars
<1>5. CASE \/ \E d \in Drainers :
                \/ DrainBegins(d) \/ WaitBegins(d) \/ WaitReturns(d)
                \/ DrainJoins(d) \/ DrainAbandons(d)
           \/ UNCHANGED vars
  BY <1>5 DEF DrainBegins, WaitBegins, WaitReturns, DrainJoins, DrainAbandons, vars,
              Directory!vars, Facts, Jobs, Calls, lookupVars, queryVars
<1>6. QED
  BY <1>1, <1>2, <1>3, <1>4, <1>5 DEF Next

\* The discoverer implements the directory its callers rely on.
THEOREM ImplementsNaming == Spec => KeepsDirectory
<1>1. Init => Directory!Init
  <2>1. CallState("idle") = "idle" /\ JobState("idle") = "none"
    BY DEF CallState, JobState
  <2>2. QED
    BY <2>1 DEF Init, Facts, Jobs, Calls, NoEntry, Directory!Init, Directory!NoJob, Directory!NoCall
<1>2. QED
  BY <1>1, NextMaps, TypeInvHolds, SlotInvHolds, CallInvHolds, PTL
  DEF Spec, KeepsDirectory, Directory!Spec
=============================================================================
