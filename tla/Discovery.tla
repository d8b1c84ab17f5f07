------------------------------ MODULE Discovery ------------------------------
(***************************************************************************)
(* The discoverer of src/discovery.go: an expiring, bounded table from     *)
(* client address to device name, filled by detached reverse lookups.      *)
(*                                                                         *)
(* Three kinds of goroutine share it under d.mu:                           *)
(*   - a query calls name, which may start a lookup and hold the query;    *)
(*   - a lookup resolves, stores, gives up its slot, wakes its waiters;    *)
(*   - shutdown calls drain, which forbids new lookups and joins the rest. *)
(* Every critical section of d.mu is one action; so is every channel,      *)
(* WaitGroup and gauge operation outside it.                               *)
(*                                                                         *)
(* Data kept: a name is a model value, NoName is the empty string. Time is *)
(* kept only as the freshness of an entry, lost at any moment after it was *)
(* stored (Expire), so every ttl and retry interval is covered.            *)
(* dns.ReverseAddr cannot fail: addresses come from netip, without a zone. *)
(***************************************************************************)
EXTENDS Integers, FiniteSets

CONSTANTS
  Addrs,        \* client addresses
  NoAddr,       \* address of a goroutine that is not running
  Names,        \* names a PTR record can hold
  NoName,       \* the empty name
  Queries,      \* goroutines calling name
  Lookups,      \* identities of detached lookups, reused once forgotten
  NoLookup,     \* no lookup
  Drainers,     \* calls of drain
  MaxInflight,  \* maxDiscoveryInflight
  MaxEntries,   \* discoverer.max
  Holding       \* discoverer.wait > 0

ASSUME ConstantsAssumption ==
  /\ NoName \notin Names
  /\ NoAddr \notin Addrs
  /\ NoLookup \notin Lookups
  /\ IsFiniteSet(Addrs)
  /\ IsFiniteSet(Lookups)
  /\ MaxInflight \in Nat \ {0}
  /\ MaxEntries \in Nat \ {0}
  /\ Holding \in BOOLEAN

VARIABLES
  \* fields of the discoverer
  entries,   \* table; an absent address maps to NoEntry, Go's zero value
  inflight,  \* lookup whose done channel the inflight map holds, per address
  closing,   \* no lookup may start once set
  wg,        \* counter of the WaitGroup
  gauge,     \* the discovery_entries gauge
  \* lookup goroutines
  lpc,       \* program counter
  laddr,     \* address looked up
  lname,     \* name resolved
  lcount,    \* table size read under the lock, written to the gauge later
  closed,    \* lookups whose done channel is closed
  \* query goroutines
  qpc,       \* program counter
  qaddr,     \* client address
  qchan,     \* lookup whose channel the query is held on
  qname,     \* name returned
  \* drain calls
  dpc,       \* program counter of drain
  wpc        \* program counter of the goroutine blocked in wg.Wait

lookupVars == <<lpc, laddr, lname, lcount, closed>>
queryVars  == <<qpc, qaddr, qchan, qname>>
drainVars  == <<dpc, wpc>>
vars == <<entries, inflight, closing, wg, gauge, lookupVars, queryVars, drainVars>>

NoEntry == [known |-> FALSE, name |-> NoName, fresh |-> FALSE]

Entry == [known : BOOLEAN, name : Names \cup {NoName}, fresh : BOOLEAN]

\* From the start of a lookup to the end of its cleanup it owns its slot.
Slotted == {"resolve", "store", "gauge", "cleanup", "panicked"}

LookupPC == Slotted \cup {"idle", "recover", "regauge", "close", "done"}

Known == {a \in Addrs : entries[a].known}

Init ==
  /\ entries  = [a \in Addrs |-> NoEntry]
  /\ inflight = [a \in Addrs |-> NoLookup]
  /\ closing  = FALSE
  /\ wg       = 0
  /\ gauge    = 0
  /\ lpc      = [l \in Lookups |-> "idle"]
  /\ laddr    = [l \in Lookups |-> NoAddr]
  /\ lname    = [l \in Lookups |-> NoName]
  /\ lcount   = [l \in Lookups |-> 0]
  /\ closed   = {}
  /\ qpc      = [q \in Queries |-> "idle"]
  /\ qaddr    = [q \in Queries |-> NoAddr]
  /\ qchan    = [q \in Queries |-> NoLookup]
  /\ qname    = [q \in Queries |-> NoName]
  /\ dpc      = [d \in Drainers |-> "idle"]
  /\ wpc      = [d \in Drainers |-> "none"]

-----------------------------------------------------------------------------
(***************************************************************************)
(* name                                                                    *)
(***************************************************************************)

Fresh(a) == entries[a].known /\ entries[a].fresh

BusyAddrs == {a \in Addrs : inflight[a] # NoLookup}

NoBusyCheck(a) == FALSE

Busy(a) == a \in BusyAddrs

SaturatedLate == Cardinality(BusyAddrs) > MaxInflight

Saturated == Cardinality(BusyAddrs) >= MaxInflight

AdmitsWhileClosing == ~Saturated

Admits == ~closing /\ ~Saturated

\* The query waits only when it may and there is no name to show meanwhile.
MustHold(a, mayHold) == mayHold /\ Holding /\ entries[a].name = NoName

\* A lookup identity nobody holds a channel of.
Free(l) ==
  /\ lpc[l] = "idle"
  /\ \A q \in Queries : qpc[q] = "hold" => qchan[q] # l

Return(q, name) ==
  /\ qpc'   = [qpc EXCEPT ![q] = "done"]
  /\ qname' = [qname EXCEPT ![q] = name]

HoldOn(q, l) ==
  /\ qpc'   = [qpc EXCEPT ![q] = "hold"]
  /\ qchan' = [qchan EXCEPT ![q] = l]
  /\ UNCHANGED qname

\* name finds an unexpired entry, or may not start a lookup: it returns what
\* the table holds, which is the empty name for an absent address.
NameOnRecord(q, a) ==
  /\ qpc[q] = "idle"
  /\ Fresh(a) \/ (~Busy(a) /\ ~Admits)
  /\ Return(q, entries[a].name)
  /\ qaddr' = [qaddr EXCEPT ![q] = a]
  /\ UNCHANGED <<entries, inflight, closing, wg, gauge, lookupVars, qchan, drainVars>>

\* name finds a lookup for the address under way and shares it.
NameShared(q, a, mayHold) ==
  /\ qpc[q] = "idle"
  /\ ~Fresh(a)
  /\ Busy(a)
  /\ IF MustHold(a, mayHold)
       THEN HoldOn(q, inflight[a])
       ELSE Return(q, entries[a].name) /\ UNCHANGED qchan
  /\ qaddr' = [qaddr EXCEPT ![q] = a]
  /\ UNCHANGED <<entries, inflight, closing, wg, gauge, lookupVars, drainVars>>

\* name takes the slot, counts the lookup and detaches it.
NameStarts(q, a, mayHold, l) ==
  /\ qpc[q] = "idle"
  /\ ~Fresh(a)
  /\ ~Busy(a)
  /\ Admits
  /\ Free(l)
  /\ inflight' = [inflight EXCEPT ![a] = l]
  /\ wg'       = wg + 1
  /\ lpc'      = [lpc EXCEPT ![l] = "resolve"]
  /\ laddr'    = [laddr EXCEPT ![l] = a]
  /\ closed'   = closed \ {l}
  /\ IF MustHold(a, mayHold)
       THEN HoldOn(q, l)
       ELSE Return(q, entries[a].name) /\ UNCHANGED qchan
  /\ qaddr' = [qaddr EXCEPT ![q] = a]
  /\ UNCHANGED <<entries, closing, gauge, lname, lcount, drainVars>>

(***************************************************************************)
(* hold                                                                    *)
(***************************************************************************)

\* The done channel is closed; the name is read under the lock afterwards.
HoldReleased(q) ==
  /\ qpc[q] = "hold"
  /\ qchan[q] \in closed
  /\ qpc'   = [qpc EXCEPT ![q] = "released"]
  /\ qchan' = [qchan EXCEPT ![q] = NoLookup]
  /\ UNCHANGED <<entries, inflight, closing, wg, gauge, lookupVars, qaddr, qname, drainVars>>

HoldReadsName(q) ==
  /\ qpc[q] = "released"
  /\ Return(q, entries[qaddr[q]].name)
  /\ UNCHANGED <<entries, inflight, closing, wg, gauge, lookupVars, qaddr, qchan, drainVars>>

\* The wait elapsed, or the caller's context ended: select may take this
\* branch even when the channel is closed too.
HoldGivesUp(q) ==
  /\ qpc[q] = "hold"
  /\ Return(q, NoName)
  /\ qchan' = [qchan EXCEPT ![q] = NoLookup]
  /\ UNCHANGED <<entries, inflight, closing, wg, gauge, lookupVars, qaddr, drainVars>>

\* The caller has the name; the goroutine may carry another query.
QueryEnds(q) ==
  /\ qpc[q] = "done"
  /\ qpc'   = [qpc EXCEPT ![q] = "idle"]
  /\ qaddr' = [qaddr EXCEPT ![q] = NoAddr]
  /\ qname' = [qname EXCEPT ![q] = NoName]
  /\ UNCHANGED <<entries, inflight, closing, wg, gauge, lookupVars, qchan, drainVars>>

-----------------------------------------------------------------------------
(***************************************************************************)
(* lookup and store                                                        *)
(***************************************************************************)

ResolveClosesEarly(l, n) ==
  /\ lpc[l] = "resolve"
  /\ lpc'    = [lpc EXCEPT ![l] = "store"]
  /\ lname'  = [lname EXCEPT ![l] = n]
  /\ closed' = closed \cup {l}
  /\ UNCHANGED <<entries, inflight, closing, wg, gauge, laddr, lcount, queryVars, drainVars>>

\* resolve returned: a name, no PTR record, or an error (both an empty name).
Resolve(l, n) ==
  /\ lpc[l] = "resolve"
  /\ lpc'   = [lpc EXCEPT ![l] = "store"]
  /\ lname' = [lname EXCEPT ![l] = n]
  /\ UNCHANGED <<entries, inflight, closing, wg, gauge, laddr, lcount, closed, queryVars, drainVars>>

PanicKeepsSlot(l) ==
  /\ lpc[l] = "resolve"
  /\ lpc' = [lpc EXCEPT ![l] = "recover"]
  /\ UNCHANGED <<entries, inflight, closing, wg, gauge, laddr, lname, lcount, closed, queryVars, drainVars>>

\* resolve panicked: nothing is stored yet, the deferred cleanup runs next.
ResolvePanics(l) ==
  /\ lpc[l] = "resolve"
  /\ lpc' = [lpc EXCEPT ![l] = "panicked"]
  /\ UNCHANGED <<entries, inflight, closing, wg, gauge, laddr, lname, lcount, closed, queryVars, drainVars>>

OverflowsLate(a) == ~entries[a].known /\ Cardinality(Known) > MaxEntries

Overflows(a) == ~entries[a].known /\ Cardinality(Known) >= MaxEntries

\* The locked part of store: make room by dropping any entry, then write.
Record(l, name) ==
  LET a == laddr[l] IN
  /\ \E victim \in IF Overflows(a) THEN Known ELSE {a} :
       entries' = [b \in Addrs |->
                     IF b = a THEN [known |-> TRUE, name |-> name, fresh |-> TRUE]
                     ELSE IF b = victim THEN NoEntry ELSE entries[b]]
  /\ lcount' = [lcount EXCEPT ![l] = Cardinality(Known')]

StoreResult(l) ==
  /\ lpc[l] = "store"
  /\ Record(l, lname[l])
  /\ lpc' = [lpc EXCEPT ![l] = "gauge"]
  /\ UNCHANGED <<inflight, closing, wg, gauge, laddr, lname, closed, queryVars, drainVars>>

\* store after a recovered panic: the empty name, for the retry interval.
StoreAfterPanic(l) ==
  /\ lpc[l] = "recover"
  /\ Record(l, NoName)
  /\ lpc' = [lpc EXCEPT ![l] = "regauge"]
  /\ UNCHANGED <<inflight, closing, wg, gauge, laddr, lname, closed, queryVars, drainVars>>

\* The tail of store, after the unlock: the size read under the lock is
\* written to the gauge.
SetGauge(l) ==
  /\ lpc[l] \in {"gauge", "regauge"}
  /\ gauge' = lcount[l]
  /\ lpc'   = [lpc EXCEPT ![l] = IF lpc[l] = "gauge" THEN "cleanup" ELSE "close"]
  /\ UNCHANGED <<entries, inflight, closing, wg, laddr, lname, lcount, closed, queryVars, drainVars>>

\* The deferred function deletes the slot, then recovers from a panic.
Cleanup(l) ==
  /\ lpc[l] \in {"cleanup", "panicked"}
  /\ inflight' = [inflight EXCEPT ![laddr[l]] = NoLookup]
  /\ lpc'      = [lpc EXCEPT ![l] = IF lpc[l] = "cleanup" THEN "close" ELSE "recover"]
  /\ UNCHANGED <<entries, closing, wg, gauge, laddr, lname, lcount, closed, queryVars, drainVars>>

CloseForgotten(l) ==
  /\ lpc[l] = "close"
  /\ lpc' = [lpc EXCEPT ![l] = "done"]
  /\ UNCHANGED <<entries, inflight, closing, wg, gauge, laddr, lname, lcount, closed, queryVars, drainVars>>

\* close(done) releases every query held on this lookup.
CloseDone(l) ==
  /\ lpc[l] = "close"
  /\ closed' = closed \cup {l}
  /\ lpc'    = [lpc EXCEPT ![l] = "done"]
  /\ UNCHANGED <<entries, inflight, closing, wg, gauge, laddr, lname, lcount, queryVars, drainVars>>

LookupEndsBy(l, delta) ==
  /\ lpc[l] = "done"
  /\ wg'     = wg - delta
  /\ lpc'    = [lpc EXCEPT ![l] = "idle"]
  /\ laddr'  = [laddr EXCEPT ![l] = NoAddr]
  /\ lname'  = [lname EXCEPT ![l] = NoName]
  /\ lcount' = [lcount EXCEPT ![l] = 0]
  /\ UNCHANGED <<entries, inflight, closing, gauge, closed, queryVars, drainVars>>

DoneTwice(l) == LookupEndsBy(l, 2)

DoneForgotten(l) == LookupEndsBy(l, 0)

\* The first deferred call runs last: wg.Done, and the goroutine is gone.
LookupEnds(l) == LookupEndsBy(l, 1)

\* Time passes the entry's expiry.
Expire(a) ==
  /\ Fresh(a)
  /\ entries' = [entries EXCEPT ![a].fresh = FALSE]
  /\ UNCHANGED <<inflight, closing, wg, gauge, lookupVars, queryVars, drainVars>>

-----------------------------------------------------------------------------
(***************************************************************************)
(* drain                                                                   *)
(***************************************************************************)

\* Under the lock: no lookup starts from here on.
DrainBegins(d) ==
  /\ dpc[d] = "idle"
  /\ closing' = TRUE
  /\ dpc'     = [dpc EXCEPT ![d] = "closed"]
  /\ UNCHANGED <<entries, inflight, wg, gauge, lookupVars, queryVars, wpc>>

\* The goroutine drain spawned enters wg.Wait.
WaitBegins(d) ==
  /\ dpc[d] # "idle"
  /\ wpc[d] = "none"
  /\ wpc' = [wpc EXCEPT ![d] = "waiting"]
  /\ UNCHANGED <<entries, inflight, closing, wg, gauge, lookupVars, queryVars, dpc>>

\* wg.Wait returns once the counter is zero, and closes drain's channel.
WaitReturns(d) ==
  /\ wpc[d] = "waiting"
  /\ wg = 0
  /\ wpc' = [wpc EXCEPT ![d] = "returned"]
  /\ UNCHANGED <<entries, inflight, closing, wg, gauge, lookupVars, queryVars, dpc>>

DrainJoins(d) ==
  /\ dpc[d] = "closed"
  /\ wpc[d] = "returned"
  /\ dpc' = [dpc EXCEPT ![d] = "joined"]
  /\ UNCHANGED <<entries, inflight, closing, wg, gauge, lookupVars, queryVars, wpc>>

DrainStuck(d) == FALSE /\ UNCHANGED vars

\* The grace period ran out first.
DrainAbandons(d) ==
  /\ dpc[d] = "closed"
  /\ dpc' = [dpc EXCEPT ![d] = "abandoned"]
  /\ UNCHANGED <<entries, inflight, closing, wg, gauge, lookupVars, queryVars, wpc>>

-----------------------------------------------------------------------------
Next ==
  \/ \E q \in Queries, a \in Addrs :
       \/ NameOnRecord(q, a)
       \/ \E mayHold \in BOOLEAN : NameShared(q, a, mayHold)
       \/ \E mayHold \in BOOLEAN, l \in Lookups : NameStarts(q, a, mayHold, l)
  \/ \E q \in Queries :
       HoldReleased(q) \/ HoldReadsName(q) \/ HoldGivesUp(q) \/ QueryEnds(q)
  \/ \E l \in Lookups :
       \/ \E n \in Names \cup {NoName} : Resolve(l, n)
       \/ ResolvePanics(l) \/ StoreResult(l) \/ StoreAfterPanic(l)
       \/ SetGauge(l) \/ Cleanup(l) \/ CloseDone(l) \/ LookupEnds(l)
  \/ \E a \in Addrs : Expire(a)
  \/ \E d \in Drainers :
       \/ DrainBegins(d) \/ WaitBegins(d) \/ WaitReturns(d)
       \/ DrainJoins(d) \/ DrainAbandons(d)

Spec == Init /\ [][Next]_vars

\* What a lookup does once its resolver has returned or panicked.
LookupContinues(l) ==
  \/ StoreResult(l) \/ StoreAfterPanic(l) \/ SetGauge(l)
  \/ Cleanup(l) \/ CloseDone(l) \/ LookupEnds(l)

\* A resolver returns, because its context carries discovery_timeout.
ResolverAnswers(l) == ResolvePanics(l) \/ \E n \in Names \cup {NoName} : Resolve(l, n)

(***************************************************************************)
(* Fairness: a goroutine that can run does, and the timer of a shutdown    *)
(* fires. A query's own timer and the resolver, which is code outside the  *)
(* discoverer, are premises of the properties that need one of them. None  *)
(* on clients, on expiry or on the start of a shutdown.                    *)
(***************************************************************************)
Fairness ==
  /\ \A q \in Queries : WF_vars(HoldReleased(q)) /\ WF_vars(HoldReadsName(q))
  /\ \A l \in Lookups : WF_vars(LookupContinues(l))
  /\ \A d \in Drainers :
       /\ WF_vars(WaitBegins(d))
       /\ WF_vars(WaitReturns(d))
       /\ WF_vars(DrainJoins(d) \/ DrainAbandons(d))

FairSpec == Spec /\ Fairness

-----------------------------------------------------------------------------
(***************************************************************************)
(* Safety                                                                  *)
(***************************************************************************)

Live == {l \in Lookups : lpc[l] # "idle"}

Resolving == {l \in Lookups : lpc[l] = "resolve"}

\* The variables have their types.
TypeOK ==
  /\ entries  \in [Addrs -> Entry]
  /\ inflight \in [Addrs -> Lookups \cup {NoLookup}]
  /\ closing  \in BOOLEAN
  /\ wg       \in Nat
  /\ gauge    \in Nat
  /\ lpc      \in [Lookups -> LookupPC]
  /\ laddr    \in [Lookups -> Addrs \cup {NoAddr}]
  /\ lname    \in [Lookups -> Names \cup {NoName}]
  /\ lcount   \in [Lookups -> Nat]
  /\ closed   \in SUBSET Lookups
  /\ qpc      \in [Queries -> {"idle", "hold", "released", "done"}]
  /\ qaddr    \in [Queries -> Addrs \cup {NoAddr}]
  /\ qchan    \in [Queries -> Lookups \cup {NoLookup}]
  /\ qname    \in [Queries -> Names \cup {NoName}]
  /\ dpc      \in [Drainers -> {"idle", "closed", "joined", "abandoned"}]
  /\ wpc      \in [Drainers -> {"none", "waiting", "returned"}]

\* The inflight map and the running lookups agree: a slot belongs to a lookup
\* of that address that will free it, and a lookup holds its slot until its
\* cleanup. A slot left behind would bar that address from discovery for good
\* and use up one of the maxDiscoveryInflight places.
SlotOwned ==
  /\ \A a \in Addrs : Busy(a) => lpc[inflight[a]] \in Slotted /\ laddr[inflight[a]] = a
  /\ \A l \in Lookups : lpc[l] \in Slotted => laddr[l] \in Addrs /\ inflight[laddr[l]] = l

\* name starts no second lookup for an address whose resolver is still being
\* asked, whatever the interleaving of queries ("share the single lookup").
SingleFlight ==
  \A l, m \in Resolving : laddr[l] = laddr[m] => l = m

\* maxDiscoveryInflight bounds the lookups running at once, although slots are
\* taken by queries and freed by other goroutines.
LookupsBounded == Cardinality(Resolving) <= MaxInflight

\* discovery_max bounds the table however stores of different lookups meet.
TableBounded == Cardinality(Known) <= MaxEntries

\* The WaitGroup counts exactly the lookups whose goroutine has not ended: no
\* path through lookup, the panicking one included, loses or repeats a Done.
WgCountsLookups == wg = Cardinality(Live)

\* wg.Wait returning means what shutdown takes it to mean: no lookup runs, and
\* none will, since this is an invariant.
JoinedMeansQuiet ==
  \A d \in Drainers : wpc[d] = "returned" => Live = {}

\* "By the time the waiters are released the entry is already stored": a query
\* released by its lookup finds its address in the table, unless the table was
\* full and the entry made room for another.
ReleasedAfterStore ==
  Cardinality(Addrs) <= MaxEntries =>
    \A q \in Queries : qpc[q] = "released" => entries[qaddr[q]].known

\* No wg.Add happens once some wg.Wait has begun: the sequence that makes the
\* runtime panic with "WaitGroup is reused before previous Wait has returned".
NoAddAfterWait ==
  [][(\E d \in Drainers : wpc[d] # "none") => wg' <= wg]_vars

(***************************************************************************)
(* Liveness                                                                *)
(***************************************************************************)

ResolversAnswer == \A l \in Lookups : WF_vars(ResolverAnswers(l))

HoldTimersFire == \A q \in Queries : WF_vars(HoldGivesUp(q))

\* A held query goes on by either of two ways alone: its timer, even when the
\* resolver never answers, or the end of the lookup, which closes the channel
\* after a panic, an eviction or a shutdown too, even when no timer ever fires.
HeldQueryReleased ==
  HoldTimersFire \/ ResolversAnswer =>
    \A q \in Queries : qpc[q] = "hold" ~> qpc[q] = "done"

\* Shutdown ends, even when a resolver never answers.
DrainReturns ==
  \A d \in Drainers : dpc[d] = "closed" ~> dpc[d] \in {"joined", "abandoned"}

\* If resolvers do answer, the goroutine blocked in wg.Wait gets out (nothing
\* leaks), although queries keep arriving during and after the shutdown.
WaiterGetsOut ==
  ResolversAnswer =>
    \A d \in Drainers : wpc[d] = "waiting" ~> wpc[d] = "returned"

-----------------------------------------------------------------------------
(***************************************************************************)
(* The directory of Naming, as the discoverer keeps it                     *)
(***************************************************************************)

\* The lookup has stored its result and not ended yet.
StoredPC == {"gauge", "regauge", "cleanup", "close", "done"}

Facts == [a \in Addrs |-> entries[a].name]

JobState(pc) ==
  IF pc = "idle" THEN "none" ELSE IF pc \in StoredPC THEN "settled" ELSE "busy"

Jobs == [l \in Lookups |-> [state |-> JobState(lpc[l]), addr |-> laddr[l]]]

CallState(state) ==
  CASE state = "idle" -> "idle" [] state = "done" -> "answered" [] OTHER -> "waiting"

Calls ==
  [q \in Queries |-> [state |-> CallState(qpc[q]), addr |-> qaddr[q],
                      on |-> qchan[q], name |-> qname[q]]]

Directory == INSTANCE Naming WITH fact <- Facts, job <- Jobs, call <- Calls

\* To its callers the discoverer is that directory: the table, the shared slots,
\* the channels, the panics, the evictions and the shutdown never make a query
\* read the name of another address, a name nobody resolved, or, once released,
\* a table that its lookup has yet to settle.
KeepsDirectory == Directory!Spec

(***************************************************************************)
(* What the documentation says and the code does not do                    *)
(***************************************************************************)

\* README, discovery_retry: "Delay before retrying an address that produced no
\* name - no PTR record, a resolver error, or a failed lookup." While a failed
\* lookup has yet to record its failure, nobody asks again.
RetryIsDelayed ==
  \A l, m \in Lookups : lpc[l] = "recover" /\ lpc[m] = "resolve" => laddr[l] # laddr[m]
=============================================================================
