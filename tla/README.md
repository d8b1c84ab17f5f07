# A TLA+ model of coredns-nextdns

The repository is a CoreDNS plugin, in Go, that answers queries through NextDNS
over HTTPS and attaches to each query what it knows of the device that asked.
This directory holds TLA+ modules that model its concurrent parts, TLC
configurations that check them on small instances, and proofs, checked by
TLAPS, that hold for every instance. File and line references are to `src/`.

## 1. Inventory

| Component | State | Operations | Talks to |
|---|---|---|---|
| Query path (`nextdns.go`) | `concurrent` | `ServeDNS`, `profileFor`, `reply`, `publish` | cache, device database, DoH client, next plugin |
| Response cache (`cache.go`, `store.go`) | 256 sharded maps, the total `n` | `get`, `put`, `Get`, `Add`, `Len` | reads the DoH client's `lastMod` |
| DoH client (`doh.go`) | `lastMod` per profile; per endpoint a rotating counter; `bootFailing` | `exchange`, `do`, `updateLastMod`, `confChangedAt`, `dial`, `addrs`, `noteBootstrap` | NextDNS, the network |
| Device database (`device.go`) | `learned` (rebuilt), `bindings` (kept), the refresh goroutine | `start`, `stop`, `refresh`, `merge`, `lookup`, `deviceID` | source parsers, discovery |
| Source parsers (`sources.go`) | none | `parseHosts`, `parseDnsmasqLeases`, `parseDHCPDLeases`, `readARP` | files |
| Discovery (`discovery.go`) | `entries`, `inflight`, `closing`, a WaitGroup, a channel per lookup | `name`, `hold`, `lookup`, `store`, `drain` | a resolver, perhaps CoreDNS itself |
| Set-up and routing (`setup.go`, `nextdns.go`) | the configuration, constant once parsed | `parseNextDNS`, `applyBootstrap`, `reachableRoutes` | CoreDNS start, reload and stop callbacks |
| Metrics (`metrics.go`, `nextdns.go`) | gauges labelled by instance | `set`, `delete`, `deleteGauges`, `republishGauges` | written by all of the above |

**How they interact.** A query is routed to a profile. The cache is asked first;
a hit identifies the device without waiting and is the reply. A miss identifies
the device (table, remembered binding, static name, and last a reverse lookup
that may hold the query), takes a concurrency slot, and goes to NextDNS, each
endpoint in turn under one timeout. The reply may carry the time the profile's
configuration last changed; later hits are checked against it. The reply is
matched with the question, stored, and written. A reverse lookup may be
resolved through CoreDNS's own plugin chain and so come back to `ServeDNS`,
marked. In the background the device table is rebuilt every reload interval;
shutdown stops that and joins the lookups.

**What is hard here.** Lookups outlive the query that started them, are shared
by others, may panic, and race a shutdown. Every map has its own lock and the
code between two locked sections uses what it read in the first. Counters are
raised before they are compared and totals after the lock that would protect
them. Reports of configuration changes overtake each other and the answers
they concern. Every table is bounded and drops arbitrary entries.
`PROJECT.json` lists these hazards at their lines, with the properties that
cover them.

**What makes each component correct.**

- Discovery: one lookup per address; bounded lookups and table; slots, channels
  and WaitGroup settled on every path; nobody waits for ever; no `Add` after
  `Wait`.
- Query path: an answer only ever reaches the question and profile it is for;
  slots limited and given back; every query returns.
- Cache: nothing older than a known configuration change is served; lifetimes
  bounded; size bounded and counted.
- DoH client: the configuration time never goes back; endpoints share one
  timeout; a host that was given an address is never dialled by name; every
  usable address is tried.
- Devices: sources merged field by field; a device keeps its ID while its
  binding lasts; bindings bounded, and dropped only for lack of room.
- Set-up: the result does not depend on the order of the options; the longest
  prefix wins; every route a query can take is one `reachableRoutes` names.
- Gauges: they show the instance that serves, and disappear with it.

## 2. Plan

| # | Module | Contents | State |
|---|---|---|---|
| 1 | `Discovery` | discoverer, lookups, drain | done, proved |
| 2 | `Store`, `ServeDNS` | cache store; query path, cache, limit, exchange | done, proved |
| 3 | `Devices` | refresh, merging, bindings, device ID | done, proved |
| 4 | `Bootstrap` | endpoint addresses, rotation, dial, `noteBootstrap` | done, proved |
| 5 | `Naming` | what the discoverer promises to queries; `Discovery` implements it | done, proved |
| 6 | `Memo` | what the query path promises to clients; `ServeDNS` implements it | done, proved |
| 7 | `SourceFiles` | the parsers of `sources.go`, feeding `Devices` | done, proved |
| 8 | `Corefile` | the block's options, the order of subnets, `profileFor`, `reachableRoutes` | done, proved |
| 9 | `Plugin` | instances from reload to reload, with their gauges, queries, lookups and refreshers | done, proved but for its liveness |

Left for later: the choice of a device's name among its sources; the values of
the gauges across a reload.

## 3. Modules

One action models one critical section, one atomic operation, or one channel,
WaitGroup or timer operation; what a goroutine does alone between two of them
belongs to the step before it. Definitions keep the names of the code where
there is one. `PROJECT.json` maps every definition to its lines.

### Discovery

State: `entries`, `inflight`, `closing`, the WaitGroup counter `wg` and the
gauge; per lookup goroutine a program counter, the address, the resolved name
and the size read for the gauge; the set `closed` of closed channels; per query
goroutine what `name` is doing; per `drain` call its own counter and that of the
goroutine blocked in `Wait`.

| Code | Actions |
|---|---|
| `name` | `NameOnRecord` (fresh entry, or nothing may start), `NameShared` (lookup under way), `NameStarts` |
| `hold` | `HoldReleased`, then `HoldReadsName`; `HoldGivesUp` (timer or context); `QueryEnds` |
| `lookup` | `Resolve`, `ResolvePanics`, `Cleanup`, `CloseDone`, `LookupEnds`: the deferred calls in the order they run |
| `store` | `StoreResult` or `StoreAfterPanic` (locked part), `SetGauge` |
| `drain` | `DrainBegins`, `WaitBegins`, `WaitReturns`, `DrainJoins`, `DrainAbandons` |

An entry's expiry is kept as `fresh`, lost at any moment after it was stored
(`Expire`), which covers every ttl and retry interval. Closing a channel is
modelled by the lookup's identity; an identity is reused once no query holds its
channel (`Free`). `dns.ReverseAddr` cannot fail on an address that comes from
`netip` without a zone, so the early return at discovery.go:240 is left out.

### Store and ServeDNS

`Store` is the state of `store.go` and what the locked part of `Add` does to it;
`ServeDNS` extends it and has the goroutines. State of `ServeDNS`: a clock, the
configuration times (`conf`, external, and `lastMod`), `concurrent`, and per
query its place, its request, the endpoint it tries, whether its deadline has
passed, the message and report received, the cache entry it holds and its reply.
`known` is history: `lastMod` of the profile when the query arrived.

| Code | Actions |
|---|---|
| `ServeDNS` to the routing decision | `Arrive`, `PassOn` |
| `get` | `GetEntry` (shard read, `matches`), `CheckEntry` (clock, `confChangedAt`, rounding) |
| limit | `TakeSlot`, `Return` (the deferred decrement) |
| `exchange`, `do` | `PackFails`, `DeadlinePasses`, `DoFails`, `DoSucceeds`; `UpstreamAnswers` is external |
| `updateLastMod` | the read-locked test in `DoSucceeds`, the write-locked one in `Learn` |
| `state.Match`, `put` | `Accept`, `AddEntry`, `CountEntry` |

CoreDNS's `state.Match` compares the name and the type of a reply's question with
those asked for; `Subject` gives both as one value, and `Match` compares that. A
message is thus about the name and type asked for, but may be of another class;
`for` says which request it was obtained for.

Left out: metric counters, metadata, the gauge of the cache, and what
identifying the device does (it delays the query, as any interleaving does, and
is not an input of anything modelled here). `Hash` stands for `cacheKey`: a
function given as a constant, so collisions are an instance. One clock stands
for the client's and for NextDNS's: with clocks that disagree, comparing the
reported time with the time of storing means little, in the code as well.

### Devices

State: `learned`, `bindings`; of the refresh goroutine its place, the source it
reads next, the table it builds, and the addresses whose binding is still to be
updated. History: what each source contributed (`got`), the hardware address a
refresh last showed for an address (`seen`), the addresses whose binding made
room for another (`evicted`).

| Code | Actions |
|---|---|
| `start`, `stop` | `Start`, `TickerFires`, `RefresherEnds`, `Stop` |
| `refresh` | `ReadFile`, `FileFails`, `ReadARP` (whole or in part), `Swap` (takes the lock), `Bind` (one turn of the loop, under the lock), `Unlock` |
| `lookup` (identity), `deviceID` | `Lookup`, `LookupEnds` |

An address a table does not hold and one it holds with both fields blank are the
same: no reader tells them apart but the gauge, which is left out. The key of a
device ID stands for the ID; that `shortID` keeps different keys apart is a
matter of its hash.

### Bootstrap

State: the configuration (`written`, `shared`, fixed at start), from which
`endpoints` computes what `applyBootstrap`, `parseEndpoint` and `newDOHClient`
make of it; the counter of each endpoint; `bootFailing`; and per dial its place
and `dial`'s locals. History: `begun`, `started` (where rotations started) and
`logged` (warnings less recoveries, per host).

| Code | Actions |
|---|---|
| `dial`, the loop over endpoints | `DialBegins`, `Skip`, `Collect` (`addrs`: the atomic add, the rotation, the family filter), `Decide` |
| `dial`, the attempts | `Connects`, `AttemptFails`, `DialEnds` |
| `noteBootstrap` | `Note` (locked part), `Log` (the line, after the unlock) |

`Counters` and `IntMax` are the number of values of the counter's type and the
largest `int`, and `ToInt`, `Sum` and `Remainder` are Go's: an index below zero
is a panic, which `Collect` would reach with a narrow `int`. An `int` has at least
32 bits (`BootstrapAssumption`). The filter on families is a fold over the rotated
list, as `addrs` appends in its loop (`Usable`). The transport asks
for network `tcp`; the code filters for the others, and so does the model. An
attempt fails for any reason, so a cancelled context is one of them.

### Naming and Memo

The abstract specifications. `Naming` is a directory with one name per address,
which may lose names but never mixes them up; a call that waits does so for a
lookup of its own address and wakes no sooner than that lookup has settled.
`Discovery!Directory` maps `entries`, the lookups and the queries to it; the slots,
the channels, the limit, panics and shutdown are hidden. `Memo` is a memory with
one message per request: a query is answered once, with nothing, with what was
obtained for it, or with what was remembered for its own request; in both cases a
message obtained for just that request, about its name and type (`AnswersTo`).
`ServeDNS!Memory` maps the cache to it by what a hit would be verified to give;
keys, shards, lifetimes, limits and endpoints are hidden.

### SourceFiles

The parsers as folds over the lines of a file, a line being its kind and the
fields used. `parseDHCPDLeases` keeps the state of the loop (`cur`, `info`,
`inTag`) and `ReadLease` is one turn of it, in the order of the switch.
`SourceFiles` extends `Devices`, so that what `refresh` merges in a run is what the
parsers return, and `WrittenFor` says whose each name is.

### Corefile

`parseNextDNS` as a fold of `Apply` over the lines, with the checks of each
(`Accepts`), those after the last (`Complete`) and the sort (`LongestFirst`, where
a subnet's place is the number of those that come before it: longer ones, and equal ones
written earlier); `profileFor` and `reachableRoutes` on the result. A block that is
refused comes to one without a profile (`NoConf`). An address is `Width` bits;
`parsePrefix` clears host bits and finds a length that is too long unusable, as
`netip.PrefixFrom` does for a v4-mapped subnet. `OrderFree` and `RoutedAsWritten` say
what is expected of a file, from its lines alone. A file is `WellFormed`: a
sequence of lines, with a view and a subnet where the option takes one.

### Plugin

One server block, from reload to reload. State: what caddy is about to do, the
file read, the instance that serves and the one that replaces it (external); per
instance its configuration, its phase and its refresher; which gauges have a
series; per query and per lookup its place, its instance and its device.
History: the gauges each instance has written until it is told to stop or dropped.

| Code | Actions |
|---|---|
| `setup`, `parseNextDNS` | `Load` (or a refusal) |
| OnRestart, `deleteGauges` | `ReloadBegins`, `DeleteSeries` (one gauge at a time) |
| OnRestartFailed, `republishGauges` | `Abandons` (before OnStartup of the new instance), `AbandonsLate` (after it), `RestoreSeries` |
| OnStartup, `setMetricLabels`, `start` | `Start`, the first `SetDevices` |
| caddy, once all plugins have started | `ServersStart` |
| OnShutdown, `stop` | `StopBegins`, `StopEnds` (drain joined or gave up) |
| the refresher | `TickerFires`, `SetDevices`, `RefresherEnds` |
| `ServeDNS` | `Arrive`, `Serve`, `BelowReturns`, `Get`, `ExchangeEnds`, `Put`, `SetSize` |
| `name`, `hold` | `IdentifyNow`, `IdentifyShared`, `IdentifyStarts`, `HoldEnds` |
| a reverse lookup, `internalResolver` | `ComesBack` (to `Serve`), `AnsweredElsewhere`, `SetEntries`, `LookupEnds` |

A query, a lookup and a refresh are reduced to the steps that show here; their
own modules have the rest. The labels of a gauge are those of the block, the same
for the old and the new instance, so a gauge is one series or none. A start may
fail before OnStartup of the new instance, or after it, when another plugin or a
listener fails: then its refresher is running. Whether caddy calls OnShutdown of
such an instance is not in the repository, so it may (phase "shut") or may not
("dropped"), and in the second case the refresher goes on for good.

### The other modules

`MCDiscovery`, `MCServeDNS`, `MCDevices`, `MCBootstrap` and `MCPlugin` give TLC its
symmetry sets, the hash functions, the files and the configurations.
`DiscoveryProofs`, `ServeDNSProofs`, `MemoProofs`, `DevicesProofs`,
`BootstrapProofs`, `CorefileProofs` and `PluginProofs` hold the theorems, and
`FoldProofs` a lemma about folds that three of them instantiate.

## 4. Runs

| Run | Instance | Question |
|---|---|---|
| DiscoverySafety | 2 addresses, 2 queries, 2 lookup identities, 1 lookup at once, 1 drain | do slots, WaitGroup, channel and shutdown stay consistent in every interleaving, and is it the directory of `Naming`? |
| DiscoveryLive | 2 addresses, 1 query, 2 lookups at once, table of 1 | one lookup per address, bounded table, nobody waits for ever? |
| ServeDNSSafety | 2 profiles, 3 questions (one PTR, two that differ in class only), 2 keys, cache of 1, 2 queries, limit 1, 2 endpoints | does an answer ever cross, or a slot leak, and is it the memory of `Memo`? |
| ServeDNSFresh | 1 profile, 1 question, 2 queries, 4 ticks, 2 to the second | is a hit ever older than a known change, or too long-lived? |
| ServeDNSLive | 2 questions, cache of 1, 2 queries, 2 endpoints, fairness | does every query return? does the count drift? |
| DevicesSafety | 3 addresses, 2 hardware addresses, 3 names, 2 bindings, a file in any of three formats and the ARP table | does a name reach another device, does merging lose fields, does an ID flip, are bindings capped? |
| BootstrapSafety | 2 hosts, 3 addresses, 10 configurations, 2 dials at once, 5 in all, a counter of 4 values | is a host ever resolved by name that need not be, an address left untried, a change logged twice? |
| PluginSafety | 2 instances, 1 query, 1 lookup, 3 Corefiles to reload, some 3000 to parse, fairness | do options depend on their order, routes on it; does a lookup recurse; do gauges survive a reload; does a stopped instance come to rest? |
| DiscoveryRetry, ServeDNSStale, ServeDNSClass, PluginFrozen | as the passing runs, smaller | see section 7 |

**Why the bounds are enough to be interesting.** Two queries and two lookups are
needed to share a lookup, to find the limit reached and to race a drain; more
add no new pair of steps, and the theorems do not depend on the number. A cache
of one entry with two keys evicts on every second add; a shard of one entry is
as full as one of many. The keys of `ServeDNSSafety` collide in three ways: the same
question under two profiles, two questions under one, and two of one name and type
in different classes. Four ticks of half a second let an answer be resolved,
the configuration change, the report be cut to its second, the answer be stored,
and a later hit expire. Three addresses for two bindings let an eviction hit a
binding in use; the lease files are all those of up to five lines, with blocks of
two addresses and of none, which is what it takes to open a block, name it, and
meet one that does not parse before the close; the ARP tables are all there are. The configurations of `BootstrapSafety` are every way an
endpoint comes by its addresses or by none, and a host two endpoints share; five
dials take a counter of four values past its wrap, for lists whose length
divides it and for one of three addresses, whose length does not. The Corefiles of `PluginSafety` are a profile and up to
three more lines, from ten that route (nested subnets, two of one length, a host,
everybody, a length no address has, two views) and twelve that switch features on,
tune them or are refused: every pair of neighbours meets in both orders. Two
instances are an old and a new one, one that is dropped, before or after its start,
with the one that goes on serving, or one that goes and one that comes back. One query and one lookup suffice there: what races is a write with the
callbacks. `MaxClock`, `MaxInstances` and
`MaxDials` are the only bounds of counters (`Finished` lets a run stop there
without a deadlock); everything else is bounded by the sets. Symmetry is used only in runs without liveness, and only
over values no constant tells apart. Every property has a mutant: a definition
changed as a bug would change it, which TLC finds to violate the property.
Deadlock is checked in every run but
Plugin's, which stop when no instance is left to load.

**Fairness.** `Discovery!FairSpec`: a goroutine that can run does (a lookup after
its resolver returned, a released query, the steps of a drain), and the timer of the
grace period fires; the Go runtime gives both. No fairness is assumed of resolvers,
clients, expiry or the start of a shutdown. What else a property needs is its
premise: `WaiterGetsOut` that resolvers return (`ResolversAnswer`), which
`discovery_timeout` is for; `HeldQueryReleased` that resolvers return or that the
hold's timer fires (`HoldTimersFire`), either being enough. Without the timer a query
is released only by the channel of its lookup, so a channel that is never closed
would show. `ServeDNS!FairSpec`: a query's goroutine runs, and
the exchange's deadline passes; after it `do` fails, because the HTTP client
honours its context. Nothing is assumed of NextDNS. `Plugin!FairSpec`: the
goroutine of a query or a lookup goes on, what it waits for being bounded by
`timeout`, `discovery_timeout`, `discovery_wait` or, below this plugin, by the
plugins there; a refresh ends; and a refresher that is told to stop over and over
gets out (strong fairness), because Go's `select` picks at random among what is
ready. Nothing is assumed of caddy, clients or tickers.

## 5. What is proved

TLAPS checks the following for all values of the constants that satisfy the
modules' assumptions (finite sets of addresses and queries, positive limits,
model values distinct from real ones). Each is `Spec => []Inv`, or an action
property.

**`DiscoveryProofs`.** `TypeInv` joins the types with the exactness of the
WaitGroup: that `wg` never drops below zero *is* that it counts the live
lookups. `SlotInv` adds to `SlotOwned` that a lookup that has not ended has an
address and a query's channel is a lookup's; `SingleFlight` follows, since a
slot names one lookup, and so does `LookupsBounded`, through an injection of
resolving lookups into busy addresses. `JoinInv` orders a drain (`closing`
before `Wait`), from which `NoAddAfterWait` follows: an `Add` needs `closing`
false. `TableBounded` is inductive by the locked test of `store` alone.
`ReleasedAfterStore` needs `StoreInv`: past its store a lookup's entry exists,
its channel is closed last, and a held query waits on a lookup of its own
address or on one that is over; it holds when the table has room for every
address, since otherwise the entry may make room for another.

**`ServeDNSProofs`.** `TypeInv` joins the types with `CounterExact` and with what
a query carries at each place. `ExchangesBounded` follows from the counter:
the query that finds the count above the limit is counted and not admitted.
`IsolationInv` says of every message and entry, wherever it is, which request it was
obtained for, and that past `Match` it is about that request's name and type;
`AnswersOwnQuestion` is its end. Nothing is said of the class of the message, which
`Match` leaves out (section 7). `KnownInv` says what a query knew is
at most the client's `lastMod`, which only grows, so the check of `get` covers
it (`HitsSinceKnownChange`). `LifeInv` bounds each entry's lifetime, from which
and the properties of rounding up comes `HitLifeBounded`. The lemmas on `Insert`
give `ShardsBounded` and `LenExact`.

**`FoldProofs`.** Parsers and filters are folds over a sequence (`FoldLeft`).
The lemma `LoopInvariant`, which by itself says nothing of this program, says of a
fold what a loop invariant says of a loop: what holds of the first value, and is kept
by each turn, holds of the result, for sequences of any length. The library's induction theorems take an operator as a parameter, which
the provers cannot instantiate, so the proof is by least counterexample: among the
turns after which the invariant would fail there is a first (`LeastNat`), and it is
not turn 0. The turn and the invariant are constants of the module; the module that
folds instantiates it with its own.

**`DevicesProofs`.** `MergeInv` adds to `MergeKeepsFields` that the sources still
to come have contributed nothing. `MemoryInv`: what a refresh showed is
remembered once the loop has passed the address, until it is evicted; as no
lookup runs inside the loop, `IdentitySticks` follows. That the remembered
addresses are among those seen, and one more is being added, gives
`NothingDroppedWithRoom`.
`NamesAtHome` takes `NamesStayHome` from the files to the table that queries
read. `LeaseInv`, by `LoopInvariant` for a dhcpd file of any length: the table so far
has its names in place, and while a block is open `cur` is the address of the last
line that opened one, and `info.name` a name of that address; so neither an abandoned
block nor one that is opened again lends its name. `HomeInv` adds the table that
`refresh` is building, since `merge` takes each name from one of its two sides. The
premise `SourcesInPlace` is that every file read has its names in place (`NamesInPlace`) and that
the ARP table names nobody; the files of the run are exactly such ones.

**`BootstrapProofs`.** `DialInv`: a dial is for the host of an endpoint, and while
it looks at the endpoints `declared` holds if one of those behind it has
addresses; so a dial by name means that none has. The lemmas on `endpoints` say
what that means for the configuration, from which `NeverByName` follows. For
`LinesBalance` the lines under way are counted: a change begins one line and
moves `bootFailing`, a written line ends one and moves the count.
What a dial collects is in `Usable`, a fold, so the next two rest on `LoopInvariant`
as well. `TypeCorrect`. `FailsAfterAll`: `Progress` says that a dial past an endpoint
of its host has all the addresses it can use there, and that it fails at the end of
the list; a rotation by any start visits every position. Its premise `IntIsWide`, that
an `int` holds the counter plus a position in a list, is what 64 bits give; without
it a dial panics, which the mutant of the run shows.
`StartsSpread` needs no such premise. `SpreadInv` counts the wraps `w` of a counter:
position `i` leads `j` by at most `w`, and by one where this round has passed the one and not
the other; and the turns of the counter, wraps included, are no more than the dials
begun less those that have still to come by, so `w` is at most `begun \div Counters`.
With a narrow `int` the counter goes on without a rotation, and the bound still holds.

**Refinement.** `ImplementsNaming`: each action of `Discovery` is one of `Naming` or
changes nothing there (`NextMaps` and the lemmas before it). A released query needs that
its lookup is past its store: besides `TypeInv` and `SlotInv` the argument takes
`CallInv` (a closed channel is that of a lookup which is over or about to be, an
idle lookup has no address, and a query carries a call only between `name` and its
return). `ReleasedAfterStore` needs a table with room for every address, this does
not: an evicted name is a lost one.
`ImplementsMemo`: each action of `ServeDNS` is one of `Memo`, by `IsolationInv`, for
any `Subject`; an
insertion remembers one request and loses those that share its key or the
victim's.

**`CorefileProofs`**, for files of any length and addresses of any width.
`ConfInv` says what the first `k` lines have set: the last profile, the last route of
each view, the subnets in the order of their lines, the features switched on. The
sort is a bijection of places (`Sorted`: ranks of a strict total order are
distinct, by `BeforeOrders` and `RankGrows`), so the first subnet that covers a client
is the longest, and the first written of those (`FirstIsClosest`):
`RoutesFollowLines`. `LinesChangePlaces`: exchanging two neighbouring lines that set
different things leaves the last line of each kind the same line, and the checks
the same; two subnets that cover one client and differ differ in length, so the
sort puts them back.

**`PluginProofs`**, for any number of instances, queries, lookups and Corefiles.
`PhaseInv` says where each instance is in a reload; it carries the types.
`TaskInv` keeps every lookup at one of six places, none of them in the cache, the
identification or the exchange (`NeverRecurses`), and ties every query and lookup
to an instance that has served: it keeps its configuration for good. `GaugeInv`
makes `SeriesKept` inductive: while `republishGauges` runs, what is missing is still
in `left`, which needs that an instance writes only the gauges that `Restores`
lists for its configuration; and what the new instance wrote when it started, or
while the old one stops, is kept, since nothing is deleted between its start and the
end of the reload. A start abandoned late is a step like the others: what the dropped
instance's refresher writes only adds series. The text read is always one of `Corefiles`, so `CorefileProofs` gives
`OptionsInAnyOrder` and `RoutesAsWritten` for whatever file is read, `PluginAssumption`
saying that each is `WellFormed`.

**Only model-checked.** Every invariant and action property of a passing run is
stated by a theorem. What is left is liveness (`OldWorkEnds`, `HeldQueryReleased`,
`DrainReturns`, `WaiterGetsOut`, `EveryQueryReturns`): the proof system does not
handle fairness. No RECURSIVE operator occurs.

## 6. What is not modelled

- The choice of a device's name (static, learned, discovered) in `lookup`: a few
  lines without state of their own; what they call is modelled.
- Options that only fill a field, and the syntax of arguments and of lines.
- Whether caddy calls OnShutdown of an instance that it drops after its OnStartup
  (hazard at `setup.go:60`): both are allowed.
- The values of the gauges: `discovery_entries` has one, but nothing is claimed of
  it. The table size is read under the lock and written after it (`discovery.go:277`,
  `280`), and so is the cache's (`cache.go:176`), so that of two that end together the
  older size may stay until the next one.
- Metric counters, metadata, and log lines other than `noteBootstrap`'s: nothing
  reads them back.
- The wire format, TLS and HTTP details: an exchange yields a message or fails.
- The text of names (`normalizeName`) and the hash of `shortID`.

## 7. Where the code and its documentation disagree

- **DiscoveryRetry** (`discovery.go:224`, `README.md:194`). A lookup that panics
  frees its slot before it records the failure. A query for the same address in
  between starts another lookup at once, although a failed lookup is to be
  retried after `discovery_retry`.
- **ServeDNSStale** (`cache.go:155`, `doh.go:132-134`, `README.md:175-176`). An entry
  carries the time it was stored. An answer resolved before a configuration
  change and stored after it passes the check of `get`, and is served until it
  expires although the client knows of the change. What does hold is
  `HitsSinceKnownChange`: nothing *stored* before the change is served.
- **ServeDNSClass** (`nextdns.go:169`, `nextdns.go:166-167`). "A reply that does not
  answer the question we asked is not usable, and must never reach the cache", but the
  test is CoreDNS's `state.Match`, which leaves out the class. A reply to the same
  name and type in another class is given to the client and kept under the class
  asked for. `AnswersOwnQuestion` says what does hold.
- **PluginFrozen** (`nextdns.go:319`, `metrics.go:144-145`, `nextdns.go:316-318`). The
  gauges are deleted in OnRestart, while the instance goes on: a refresh, a lookup
  or a cached answer after it writes them again. When the block is gone from the
  new Corefile nothing deletes them any more, and the value is frozen. The property
  speaks of instances that have served; one dropped late leaves a series as well.

Two things that are no disagreement but surprise: a later dhcpd block of an address
replaces an earlier one only if it has a name or a hardware address
(`sources.go:140`; the comment above it says that later blocks overwrite earlier
ones), and what `reachableRoutes` calls exact is so for queries without metadata,
which `profileFor` puts first.
