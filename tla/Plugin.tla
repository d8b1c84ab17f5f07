-------------------------------- MODULE Plugin --------------------------------
(***************************************************************************)
(* One server block of CoreDNS that has the plugin, from reload to reload: *)
(* the instances setup.go makes of its Corefile, the queries and lookups   *)
(* that ServeDNS sees, and the gauges all of them write (metrics.go).      *)
(*                                                                         *)
(* The parts modelled in detail elsewhere are reduced to what shows here.  *)
(* The cache (ServeDNS) has an answer or has not; a lookup (Discovery) is  *)
(* what it does until its slot is free; a refresh (Devices) is the write   *)
(* that ends it. The gauges of all instances carry the same labels, those  *)
(* of the block, so there is at most one series per gauge; its value is    *)
(* left out, as are metric counters, published metadata and the limit of   *)
(* concurrent exchanges.                                                   *)
(*                                                                         *)
(* External: caddy, which loads, starts and stops instances and calls back *)
(* as setup.go expects, and the plugins around this one. Whether caddy     *)
(* calls OnShutdown of an instance that it drops is left open.             *)
(***************************************************************************)
EXTENDS Corefile

CONSTANTS
  MaxInstances,  \* bound: instances ever made
  Queries,     \* goroutines that serve clients
  Lookups,     \* goroutines of reverse lookups
  Devices,     \* addresses that ask
  Overrides,   \* metadata that another plugin may set
  View,        \* view bound to the block
  Corefiles,   \* what the block may read when the server starts
  Reloads      \* bound: those that are taken into service, then or by a reload

ASSUME PluginAssumption ==
  /\ MaxInstances \in Nat
  /\ Queries \cap Lookups = {}
  /\ Devices \subseteq Clients
  /\ \A file \in Corefiles : WellFormed(file)
  /\ Reloads \subseteq Corefiles
  /\ View \in Views \cup {NoView}

VARIABLES
  caddy,    \* external: what a reload is about to do
  text,     \* Corefile being read
  current,  \* external: instance that serves, old one during a reload
  loading,  \* external: instance being put in its place
  left,     \* gauges still to delete, or to write again
  conf,     \* per instance
  phase,
  rpc,      \* goroutine that refreshes the device table
  series,   \* gauges that have a series
  task,     \* per query and lookup: place, instance, device
  shown     \* history: gauges each instance has written, until stopped or dropped

caddyVars == <<caddy, text, current, loading, left>>
vars == <<caddyVars, conf, phase, rpc, series, task, shown>>

\* Numbered as they are made.
Instances == 1 .. MaxInstances
NoInstance == 0

Gauges == {"devices", "discovery", "cache"}

Goroutines == Queries \cup Lookups

NoDevice == <<>>

Idle == [pc |-> "idle", at |-> NoInstance, from |-> NoDevice]

Init ==
  /\ caddy = "idle" /\ text = <<>> /\ current = NoInstance /\ loading = NoInstance /\ left = <<>>
  /\ conf = [i \in Instances |-> NoConf]
  /\ phase = [i \in Instances |-> "unused"]
  /\ rpc = [i \in Instances |-> "off"]
  /\ series = {}
  /\ task = [g \in Goroutines |-> Idle]
  /\ shown = [i \in Instances |-> {}]

\* done is closed.
Stopped(i) == phase[i] \in {"stopping", "stopped", "shut"}

\* labels.set of instance i.
Shows(i, gauge) ==
  /\ series' = series \cup {gauge}
  /\ shown' = IF Stopped(i) \/ phase[i] = "dropped" THEN shown ELSE [shown EXCEPT ![i] = @ \cup {gauge}]

-----------------------------------------------------------------------------
(***************************************************************************)
(* A start or a reload, in the order that setup.go registers for           *)
(***************************************************************************)

\* Before anything is read, OnRestart of the instance that serves.
ReloadBegins ==
  /\ caddy = "idle"
  /\ IF current = NoInstance
       THEN caddy' = "loading" /\ UNCHANGED left
       ELSE caddy' = "deleting" /\ left' = <<"devices", "discovery", "cache">>
  /\ UNCHANGED <<text, current, loading, conf, phase, rpc, series, task, shown>>

\* deleteGauges, one series after the other.
DeleteSeries ==
  /\ caddy = "deleting"
  /\ series' = series \ {Head(left)}
  /\ left' = Tail(left)
  /\ caddy' = IF Tail(left) = <<>> THEN "loading" ELSE "deleting"
  /\ UNCHANGED <<text, current, loading, conf, phase, rpc, task, shown>>

\* What the parser returned with its error is used.
IgnoresErrors(i, file) ==
  /\ caddy = "loading"
  /\ phase[i] = "unused" /\ \A j \in 1 .. i - 1 : phase[j] # "unused"
  /\ text' = file
  /\ caddy' = "starting" /\ loading' = i
  /\ conf' = [conf EXCEPT ![i] = parseNextDNS(file)]
  /\ phase' = [phase EXCEPT ![i] = "loaded"]
  /\ UNCHANGED <<current, left, rpc, series, task, shown>>

\* setup: the block is parsed, or refused.
Load(i, file) ==
  /\ caddy = "loading"
  /\ phase[i] = "unused" /\ \A j \in 1 .. i - 1 : phase[j] # "unused"
  /\ text' = file
  /\ IF parseNextDNS(file) = NoConf
       THEN caddy' = "failed" /\ UNCHANGED <<loading, conf, phase>>
       ELSE /\ caddy' = "starting" /\ loading' = i
            /\ conf' = [conf EXCEPT ![i] = parseNextDNS(file)]
            /\ phase' = [phase EXCEPT ![i] = "loaded"]
  /\ UNCHANGED <<current, left, rpc, series, task, shown>>

\* The new Corefile is without the block: only the old instance is stopped.
LoadNothing ==
  /\ caddy = "loading"
  /\ caddy' = IF current = NoInstance THEN "idle" ELSE "stopping"
  /\ UNCHANGED <<text, current, loading, left, conf, phase, rpc, series, task, shown>>

RestoresNothing(c) == <<>>

\* What republishGauges writes.
Restores(c) ==
  <<"devices">> \o (IF "discovery" \in c.on THEN <<"discovery">> ELSE <<>>)
                \o (IF "cache" \in c.on THEN <<"cache">> ELSE <<>>)

\* OnRestartFailed of the instance that goes on serving, if there is one.
GoesBack ==
  /\ loading' = NoInstance /\ text' = <<>>
  /\ left' = IF current = NoInstance THEN <<>> ELSE Restores(conf[current])
  /\ caddy' = IF left' = <<>> THEN "idle" ELSE "restoring"
  /\ UNCHANGED <<current, rpc, series, task>>

\* The block was refused, or another plugin's, or OnStartup of another plugin
\* failed first. An instance not started leaves nothing behind.
Abandons ==
  /\ \/ caddy = "failed"
     \/ caddy = "starting" /\ phase[loading] = "loaded"
  /\ conf' = [i \in Instances |-> IF i = loading THEN NoConf ELSE conf[i]]
  /\ phase' = [i \in Instances |-> IF i = loading THEN "unused" ELSE phase[i]]
  /\ GoesBack
  /\ UNCHANGED shown

\* OnStartup of a later plugin failed, or a listener: this instance is started,
\* and dropped as it is, or after its OnShutdown.
AbandonsLate ==
  /\ caddy = "starting" /\ phase[loading] = "ready"
  /\ \E end \in {"dropped", "shut"} : phase' = [phase EXCEPT ![loading] = end]
  /\ shown' = [shown EXCEPT ![loading] = {}]
  /\ GoesBack
  /\ UNCHANGED conf

\* republishGauges, one series after the other.
RestoreSeries ==
  /\ caddy = "restoring"
  /\ Shows(current, Head(left))
  /\ left' = Tail(left)
  /\ caddy' = IF Tail(left) = <<>> THEN "idle" ELSE "restoring"
  /\ UNCHANGED <<text, current, loading, conf, phase, rpc, task>>

\* OnStartup: the labels are set, and start refreshes first if it has sources.
Start(i) ==
  /\ caddy = "starting" /\ i = loading /\ phase[i] = "loaded"
  /\ text \in Reloads
  /\ text' = <<>>
  /\ IF HasSources(conf[i])
       THEN phase' = [phase EXCEPT ![i] = "starting"] /\ rpc' = [rpc EXCEPT ![i] = "set"]
       ELSE phase' = [phase EXCEPT ![i] = "ready"] /\ UNCHANGED rpc
  /\ UNCHANGED <<caddy, current, loading, left, conf, series, task, shown>>

\* Every plugin has started and the servers listen: the new instance takes
\* queries; the old one, if any, is to stop.
ServersStart ==
  /\ caddy = "starting" /\ phase[loading] = "ready"
  /\ phase' = [phase EXCEPT ![loading] = "serving"]
  /\ IF current = NoInstance
       THEN caddy' = "idle" /\ current' = loading /\ loading' = NoInstance
       ELSE caddy' = "stopping" /\ UNCHANGED <<current, loading>>
  /\ UNCHANGED <<text, left, conf, rpc, series, task, shown>>

\* OnShutdown of the old instance: done is closed, no lookup starts any more.
StopBegins ==
  /\ caddy = "stopping" /\ phase[current] = "serving"
  /\ phase' = [phase EXCEPT ![current] = "stopping"]
  /\ shown' = [shown EXCEPT ![current] = {}]
  /\ UNCHANGED <<caddyVars, conf, rpc, series, task>>

\* drain has joined the lookups or given up on them, and no query comes in any
\* more; those that are running go on.
StopEnds ==
  /\ caddy = "stopping" /\ phase[current] = "stopping"
  /\ phase' = [phase EXCEPT ![current] = "stopped"]
  /\ caddy' = "idle" /\ current' = loading /\ loading' = NoInstance
  /\ UNCHANGED <<text, left, conf, rpc, series, task, shown>>

-----------------------------------------------------------------------------
(***************************************************************************)
(* The goroutine that refreshes the device table                           *)
(***************************************************************************)

TickerFires(i) ==
  /\ rpc[i] = "wait"
  /\ rpc' = [rpc EXCEPT ![i] = "set"]
  /\ UNCHANGED <<caddyVars, conf, phase, series, task, shown>>

\* The end of refresh; the first one lets start, and OnStartup, return.
SetDevices(i) ==
  /\ rpc[i] = "set"
  /\ Shows(i, "devices")
  /\ rpc' = [rpc EXCEPT ![i] = "wait"]
  /\ phase' = IF phase[i] = "starting" THEN [phase EXCEPT ![i] = "ready"] ELSE phase
  /\ UNCHANGED <<caddyVars, conf, task>>

\* The loop goes around once more.
RefresherStays(i) ==
  /\ rpc[i] = "wait" /\ Stopped(i)
  /\ rpc' = [rpc EXCEPT ![i] = "set"]
  /\ UNCHANGED <<caddyVars, conf, phase, series, task, shown>>

RefresherEnds(i) ==
  /\ rpc[i] = "wait" /\ Stopped(i)
  /\ rpc' = [rpc EXCEPT ![i] = "ended"]
  /\ UNCHANGED <<caddyVars, conf, phase, series, task, shown>>

-----------------------------------------------------------------------------
(***************************************************************************)
(* ServeDNS, for a client's query and for a lookup come back around        *)
(***************************************************************************)

At(g, label) == task[g].pc = label

Conf(g) == conf[task[g].at]

Goes(g, label) ==
  task' = [task EXCEPT ![g] = IF label = "idle" THEN Idle ELSE [@ EXCEPT !.pc = label]]

\* A query is over; a lookup has its answer, or none.
Returned(g) == IF g \in Lookups THEN "store" ELSE "idle"

instanceVars == <<conf, phase, rpc>>
rest == <<caddyVars, instanceVars, series, shown>>

\* Server shutdown ends only after OnShutdown.
Arrive(q, i, a) ==
  /\ At(q, "idle") /\ phase[i] \in {"serving", "stopping"}
  /\ task' = [task EXCEPT ![q] = [pc |-> "serve", at |-> i, from |-> a]]
  /\ UNCHANGED rest

NotRecognised(g) == FALSE

\* The context of a lookup carries the mark.
isDiscovery(g) == g \in Lookups

\* To the decision: below, to the cache, or upstream.
Serve(g, override) ==
  LET route == profileFor(Conf(g), override, View, task[g].from)
      label == IF isDiscovery(g) \/ route = Passthrough THEN "below"
               ELSE IF "cache" \in Conf(g).on THEN "get" ELSE "miss"
  IN  /\ At(g, "serve")
      /\ Goes(g, label)
      /\ UNCHANGED rest

\* Whatever the next plugin makes of it: for a lookup, NXDOMAIN if nothing.
BelowReturns(g) ==
  /\ At(g, "below")
  /\ Goes(g, Returned(g))
  /\ UNCHANGED rest

Get(g, found) ==
  /\ At(g, "get")
  /\ Goes(g, IF found THEN "hit" ELSE "miss")
  /\ UNCHANGED rest

\* What follows the lookup of the device, for a hit and for a miss.
Onward(g) == IF At(g, "hit") THEN Returned(g) ELSE "upstream"

\* Only a miss waits for a name.
Waits(g) == At(g, "miss")

LookupOf(i, a) == {l \in Lookups : task[l].pc # "idle" /\ task[l].at = i /\ task[l].from = a}

\* A name is known, or no lookup may start.
IdentifyNow(g) ==
  /\ At(g, "hit") \/ At(g, "miss")
  /\ Goes(g, Onward(g))
  /\ UNCHANGED rest

\* A lookup of the device is under way.
IdentifyShared(g) ==
  /\ At(g, "hit") \/ At(g, "miss")
  /\ LookupOf(task[g].at, task[g].from) # {}
  /\ Goes(g, IF Waits(g) THEN "held" ELSE Onward(g))
  /\ UNCHANGED rest

\* A lookup starts, in the name of the device.
IdentifyStarts(g, l) ==
  LET i == task[g].at  a == task[g].from
      next == IF Waits(g) THEN "held" ELSE Onward(g) IN
  /\ At(g, "hit") \/ At(g, "miss")
  /\ "discovery" \in Conf(g).on /\ ~Stopped(i)
  /\ LookupOf(i, a) = {} /\ At(l, "idle")
  /\ task' = [task EXCEPT ![g] = IF next = "idle" THEN Idle ELSE [@ EXCEPT !.pc = next],
                          ![l] = [pc |-> "asks", at |-> i, from |-> a]]
  /\ UNCHANGED rest

\* The lookup is over, or the query has waited long enough.
HoldEnds(g) ==
  /\ At(g, "held")
  /\ Goes(g, "upstream")
  /\ UNCHANGED rest

\* No answer, or one that is not kept.
ExchangeEnds(g) ==
  /\ At(g, "upstream")
  /\ Goes(g, Returned(g))
  /\ UNCHANGED rest

\* put stores the answer, and reads the size.
Put(g) ==
  /\ At(g, "upstream") /\ "cache" \in Conf(g).on
  /\ Goes(g, "size")
  /\ UNCHANGED <<caddyVars, instanceVars, series, shown>>

SetSize(g) ==
  /\ At(g, "size")
  /\ Shows(task[g].at, "cache")
  /\ Goes(g, Returned(g))
  /\ UNCHANGED <<caddyVars, instanceVars>>

-----------------------------------------------------------------------------
(***************************************************************************)
(* A reverse lookup, on a goroutine of its own                             *)
(***************************************************************************)

\* internalResolver: nothing ahead of this plugin answers, so it comes back.
ComesBack(l) ==
  /\ At(l, "asks")
  /\ Goes(l, "serve")
  /\ UNCHANGED rest

\* A plugin ahead, or a resolver of externalResolver, answers; or there is no
\* answer in time.
AnsweredElsewhere(l) ==
  /\ At(l, "asks")
  /\ Goes(l, "store")
  /\ UNCHANGED rest

\* store, after the unlock.
SetEntries(l) ==
  /\ At(l, "store")
  /\ Shows(task[l].at, "discovery")
  /\ Goes(l, "cleanup")
  /\ UNCHANGED <<caddyVars, instanceVars>>

LookupEnds(l) ==
  /\ At(l, "cleanup")
  /\ Goes(l, "idle")
  /\ UNCHANGED rest

-----------------------------------------------------------------------------
\* What is read by a server that starts, and by one that reloads.
Read == IF \A i \in Instances : phase[i] = "unused" THEN Corefiles ELSE Reloads

Caddy ==
  \/ ReloadBegins \/ DeleteSeries \/ LoadNothing \/ Abandons \/ AbandonsLate \/ RestoreSeries
  \/ ServersStart \/ StopBegins \/ StopEnds
  \/ \E i \in Instances :
       \/ \E file \in Read : Load(i, file)
       \/ Start(i)

\* What the goroutine of a query or of a lookup does next.
Proceeds(g) ==
  \/ \E override \in Overrides : Serve(g, override)
  \/ \E found \in BOOLEAN : Get(g, found)
  \/ BelowReturns(g) \/ IdentifyNow(g) \/ IdentifyShared(g) \/ HoldEnds(g)
  \/ ExchangeEnds(g) \/ Put(g) \/ SetSize(g)
  \/ \E l \in Lookups : IdentifyStarts(g, l)
  \/ g \in Lookups /\ (ComesBack(g) \/ AnsweredElsewhere(g) \/ SetEntries(g) \/ LookupEnds(g))

Next ==
  \/ Caddy
  \/ \E i \in Instances : TickerFires(i) \/ SetDevices(i) \/ RefresherEnds(i)
  \/ \E q \in Queries, i \in Instances, a \in Devices : Arrive(q, i, a)
  \/ \E g \in Goroutines : Proceeds(g)

Spec == Init /\ [][Next]_vars

\* Exchanges, lookups and the plugins below end, by their timeouts. A refresher
\* whose ticker keeps firing gets out all the same: select is random.
Fairness ==
  /\ \A g \in Goroutines : WF_vars(Proceeds(g))
  /\ \A i \in Instances : WF_vars(SetDevices(i)) /\ SF_vars(RefresherEnds(i))

FairSpec == Spec /\ Fairness

-----------------------------------------------------------------------------
(***************************************************************************)
(* Properties                                                              *)
(***************************************************************************)

Places == {"idle", "serve", "below", "get", "hit", "miss", "held", "upstream", "size",
           "asks", "store", "cleanup"}

Phases == {"unused", "loaded", "starting", "ready", "serving", "stopping", "stopped", "dropped", "shut"}

\* Types of the variables. An instance has a configuration once it is loaded, and
\* the one that serves between reloads was not told to stop (setup.go, setup).
TypeOK ==
  /\ caddy \in {"idle", "deleting", "loading", "starting", "failed", "restoring", "stopping"}
  /\ text = <<>> \/ text \in Corefiles
  /\ {current, loading} \subseteq Instances \cup {NoInstance}
  /\ left \in Seq(Gauges)
  /\ \A i \in Instances : conf[i] = NoConf <=> phase[i] = "unused"
  /\ phase \in [Instances -> Phases]
  /\ rpc \in [Instances -> {"off", "set", "wait", "ended"}]
  /\ series \subseteq Gauges
  /\ task \in [Goroutines -> [pc : Places, at : Instances \cup {NoInstance},
                              from : Devices \cup {NoDevice}]]
  /\ shown \in [Instances -> SUBSET Gauges]
  /\ caddy = "idle" /\ current # NoInstance => phase[current] = "serving"

\* A reverse lookup that comes back around to this plugin is passed on: it is
\* never looked up in the cache, never identified, which could start or wait for
\* a lookup of its own, and never sent to NextDNS (nextdns.go, ServeDNS).
NeverRecurses ==
  \A l \in Lookups : ~ (At(l, "get") \/ At(l, "hit") \/ At(l, "miss") \/ At(l, "held")
                        \/ At(l, "upstream") \/ At(l, "size"))

\* Between reloads, whether they were completed, or abandoned before or after the
\* new instance started, the instance that serves still has every series that it
\* has ever written, and one of its devices if it has sources: deleteGauges
\* removed none of the new instance's, and republishGauges put back all of the
\* old one's (setup.go, setup).
SeriesKept ==
  caddy = "idle" /\ current # NoInstance =>
    /\ shown[current] \subseteq series
    /\ HasSources(conf[current]) => "devices" \in series

\* An instance whose OnShutdown has run comes to rest: its refresher ends, and so does every query
\* and lookup that it has left (setup.go, OnShutdown; device.go, start).
OldWorkEnds ==
  \A i \in Instances :
    phase[i] \in {"stopped", "shut"} ~>
      rpc[i] \in {"off", "ended"} /\ \A g \in Goroutines : task[g].at # i

\* The options of the block may appear in any order (setup.go, parseNextDNS).
OptionsInAnyOrder == text # <<>> => OrderFree(text)

\* A query takes the route that the Corefile's lines name for it, the longest
\* subnet first, and one that reachableRoutes counts (nextdns.go, profileFor).
RoutesAsWritten == text # <<>> => RoutedAsWritten(text)

\* A block that goes away in a reload does not leave a frozen value behind
\* (metrics.go, delete): when nothing of it runs any more it has no series.
\* (No start of the block was abandoned late: its refresher writes on its own.)
NothingFrozen ==
  /\ caddy = "idle" /\ \A i \in Instances : phase[i] \in {"unused", "stopped"}
  /\ \A g \in Goroutines : At(g, "idle")
  /\ \A i \in Instances : rpc[i] \in {"off", "ended"}
  => series = {}
=============================================================================
