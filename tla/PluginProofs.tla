----------------------------- MODULE PluginProofs -----------------------------
(***************************************************************************)
(* Theorems of Plugin: types, lookups that do not recurse, the gauges of   *)
(* the instance that serves, and what any Corefile it is given comes to.   *)
(***************************************************************************)
EXTENDS Plugin, CorefileProofs, SequenceTheorems, TLAPS

\* An instance on its way into service.
ComingUp == {"loaded", "starting", "ready"}

\* Where each instance is in a reload. An instance is new, then serves, and is
\* told to stop only in favour of one that serves already or of none.
PhaseInv ==
  /\ caddy = "starting" => loading \in Instances
  /\ \A i \in Instances :
       /\ phase[i] \in ComingUp => caddy = "starting" /\ i = loading
       /\ rpc[i] # "off" => phase[i] \notin {"unused", "loaded"}
  /\ caddy \notin {"starting", "stopping"} => loading = NoInstance
  /\ caddy = "starting" => phase[loading] \in ComingUp
  /\ caddy = "stopping" => /\ current \in Instances /\ phase[current] \in {"serving", "stopping"}
                           /\ loading # current
                           /\ loading # NoInstance => phase[loading] = "serving"
  /\ caddy # "stopping" /\ current # NoInstance => phase[current] = "serving"
  /\ caddy \in {"deleting", "restoring"} => current # NoInstance /\ left # <<>>

TypeInv == TypeOK /\ conf = [i \in Instances |-> conf[i]] /\ PhaseInv

\* What a lookup does; it asks on behalf of an instance that has discovery.
LookupPlaces == {"idle", "asks", "serve", "below", "store", "cleanup"}

\* What the goroutines do, and for which instances.
TaskInv ==
  \A g \in Goroutines :
    /\ task[g].pc # "idle" => /\ task[g].at \in Instances
                              /\ phase[task[g].at] \in {"serving", "stopping", "stopped"}
    /\ g \in Lookups => task[g].pc \in LookupPlaces
    /\ g \in Lookups /\ task[g].pc # "idle" => "discovery" \in Conf(g).on
    /\ g \in Queries => task[g].pc \notin {"asks", "store", "cleanup"}
    /\ task[g].pc = "size" => "cache" \in Conf(g).on

\* Gauges still to be written again.
Missing == {left[k] : k \in DOMAIN left}

\* A gauge that instance i may write.
Writes(i, gauge) == gauge = "devices" \/ gauge \in conf[i].on

Keeps(i, written) ==
  shown[i] \subseteq written /\ (HasSources(conf[i]) => "devices" \in written)

\* Only a feature writes its gauge, and only of an instance that has started; the
\* serving one's gauges are there, or deleteGauges or republishGauges is not done.
GaugeInv ==
  /\ \A i \in Instances :
       /\ \A gauge \in shown[i] : Writes(i, gauge)
       /\ phase[i] \in {"unused", "loaded", "starting"} => shown[i] = {}
       /\ phase[i] = "ready" => Keeps(i, series)
  /\ caddy = "idle" /\ current # NoInstance => Keeps(current, series)
  /\ caddy = "restoring" => /\ Keeps(current, series \cup Missing)
                            /\ \A m \in Missing : Writes(current, m)
  /\ caddy = "stopping" /\ loading # NoInstance => Keeps(loading, series)

-----------------------------------------------------------------------------
(***************************************************************************)
(* Types and phases                                                        *)
(***************************************************************************)

TaskType == [pc : Places, at : Instances \cup {NoInstance}, from : Devices \cup {NoDevice}]

\* No instance has the number that stands for none.
LEMMA InstanceIds == NoInstance \notin Instances
BY PluginAssumption DEF Instances, NoInstance

\* Goes leaves every goroutine at one of the places.
LEMMA GoesType ==
  ASSUME TypeOK, NEW g \in Goroutines, NEW label \in Places, Goes(g, label)
  PROVE  task' \in [Goroutines -> TaskType]
<1>1. Idle \in TaskType
  BY DEF Idle, TaskType, Places
<1>2. [task[g] EXCEPT !.pc = label] \in TaskType
  BY DEF TypeOK, TaskType
<1>3. QED
  BY <1>1, <1>2 DEF TypeOK, TaskType, Goes

\* A step of a goroutine's own changes no more than its task.
LEMMA OwnStepType ==
  ASSUME TypeInv, UNCHANGED rest, task' \in [Goroutines -> TaskType]
  PROVE  TypeInv'
BY DEF TypeInv, TypeOK, PhaseInv, TaskType, rest, caddyVars, instanceVars

\* A gauge written by an instance.
LEMMA ShowsType ==
  ASSUME TypeOK, NEW i, NEW gauge \in Gauges, Shows(i, gauge)
  PROVE  series' \subseteq Gauges /\ shown' \in [Instances -> SUBSET Gauges]
BY DEF TypeOK, Shows

\* The server before its first start.
LEMMA InitType == Init => TypeInv /\ TaskInv /\ GaugeInv
<1> SUFFICES ASSUME Init PROVE TypeInv /\ TaskInv /\ GaugeInv
  OBVIOUS
<1> USE InstanceIds DEF Init, ComingUp, Phases
<1>1. task \in [Goroutines -> TaskType]
  BY DEF Idle, TaskType, Places
<1>2. TypeOK
  BY <1>1 DEF TypeOK, TaskType
<1>3. PhaseInv
  BY DEF PhaseInv
<1>4. TaskInv
  BY DEF TaskInv, Idle, LookupPlaces
<1>5. GaugeInv
  BY DEF GaugeInv
<1>6. QED
  BY <1>2, <1>3, <1>4, <1>5 DEF TypeInv

\* republishGauges writes the devices, and what the features that are on write.
LEMMA RestoresSeq ==
  ASSUME NEW c
  PROVE  /\ Restores(c) \in Seq(Gauges) /\ Restores(c) # <<>>
         /\ "devices" \in {Restores(c)[k] : k \in DOMAIN Restores(c)}
         /\ "discovery" \in c.on => "discovery" \in {Restores(c)[k] : k \in DOMAIN Restores(c)}
         /\ "cache" \in c.on => "cache" \in {Restores(c)[k] : k \in DOMAIN Restores(c)}
         /\ \A k \in DOMAIN Restores(c) : Restores(c)[k] = "devices" \/ Restores(c)[k] \in c.on
<1> DEFINE a == <<"devices">>
           d == IF "discovery" \in c.on THEN <<"discovery">> ELSE <<>>
           e == IF "cache" \in c.on THEN <<"cache">> ELSE <<>>
           r == (a \o d) \o e
<1>1. a \in Seq(Gauges) /\ d \in Seq(Gauges) /\ e \in Seq(Gauges)
  <2>1. /\ <<"devices">> \in Seq(Gauges) /\ <<"discovery">> \in Seq(Gauges)
        /\ <<"cache">> \in Seq(Gauges) /\ <<>> \in Seq(Gauges)
    BY DEF Gauges
  <2>2. d = <<"discovery">> \/ d = <<>>
    OBVIOUS
  <2>3. e = <<"cache">> \/ e = <<>>
    OBVIOUS
  <2> HIDE DEF d, e
  <2>4. QED
    BY <2>1, <2>2, <2>3
<1>2. Len(a) = 1 /\ Len(d) \in Nat /\ Len(e) \in Nat
  BY <1>1
<1>3. /\ a \o d \in Seq(Gauges) /\ Len(a \o d) = 1 + Len(d)
      /\ \A i \in 1 .. 1 + Len(d) : (a \o d)[i] = IF i <= 1 THEN a[i] ELSE d[i - 1]
  BY <1>1, <1>2, ConcatProperties
<1>4. /\ r \in Seq(Gauges) /\ Len(r) = 1 + Len(d) + Len(e)
      /\ \A i \in 1 .. 1 + Len(d) + Len(e) :
           r[i] = IF i <= 1 + Len(d) THEN (a \o d)[i] ELSE e[i - (1 + Len(d))]
  BY <1>1, <1>2, <1>3, ConcatProperties
<1>5. r[1] = "devices" /\ 1 \in DOMAIN r
  BY <1>2, <1>3, <1>4
<1>6. "discovery" \in c.on => r[2] = "discovery" /\ 2 \in DOMAIN r
  BY <1>2, <1>3, <1>4
<1>7. "cache" \in c.on => r[Len(r)] = "cache" /\ Len(r) \in DOMAIN r
  BY <1>2, <1>3, <1>4
<1>8. r # <<>>
  BY <1>5
<1>9. Restores(c) = r
  BY DEF Restores
<1>10. \A k \in DOMAIN r : r[k] = "devices" \/ r[k] \in c.on
  <2> SUFFICES ASSUME NEW k \in 1 .. 1 + Len(d) + Len(e)
               PROVE  r[k] = "devices" \/ r[k] \in c.on
    BY <1>4
  <2>1. CASE k <= 1
    BY <1>2, <1>3, <1>4, <2>1
  <2>2. CASE k > 1 /\ k <= 1 + Len(d)
    BY <1>2, <1>3, <1>4, <2>2
  <2>3. CASE k > 1 + Len(d)
    BY <1>2, <1>4, <2>3
  <2>4. QED
    BY <1>2, <2>1, <2>2, <2>3
<1> HIDE DEF r
<1>11. QED
  BY <1>4, <1>5, <1>6, <1>7, <1>8, <1>9, <1>10

\* What a start that is abandoned leaves to do.
LEMMA GoesBackType ==
  ASSUME TypeInv, GoesBack
  PROVE  /\ caddy' \in {"idle", "restoring"} /\ text' = <<>> /\ loading' = NoInstance
         /\ left' \in Seq(Gauges)
         /\ caddy' = "restoring" => current # NoInstance /\ left' # <<>>
         /\ UNCHANGED <<current, rpc, series, task>>
<1>1. left' \in Seq(Gauges)
  BY RestoresSeq DEF GoesBack
<1>2. caddy' = "restoring" => current # NoInstance /\ left' # <<>>
  BY DEF GoesBack
<1>3. QED
  BY <1>1, <1>2 DEF GoesBack

\* The steps of a reload keep types and phases.
LEMMA CaddyType ==
  ASSUME TypeInv, Caddy
  PROVE  TypeInv'
<1> USE InstanceIds DEF TypeInv, TypeOK, PhaseInv, ComingUp, Phases
<1>1. CASE ReloadBegins
  <2>1. /\ <<"devices", "discovery", "cache">> \in Seq(Gauges)
        /\ <<"devices", "discovery", "cache">> # <<>>
    BY DEF Gauges
  <2>2. CASE current = NoInstance
    BY <1>1, <2>2 DEF ReloadBegins
  <2>3. CASE current # NoInstance
    BY <1>1, <2>1, <2>3 DEF ReloadBegins
  <2>4. QED
    BY <2>2, <2>3
<1>2. CASE DeleteSeries
  <2>1. left \in Seq(Gauges) /\ left # <<>>
    BY <1>2 DEF DeleteSeries
  <2>2. Head(left) \in Gauges /\ Tail(left) \in Seq(Gauges)
    BY <2>1
  <2>3. QED
    BY <1>2, <2>2 DEF DeleteSeries
<1>3. CASE LoadNothing
  BY <1>3 DEF LoadNothing
<1>4. CASE Abandons
  <2>1. /\ conf' = [i \in Instances |-> conf'[i]]
        /\ \A i \in Instances : conf'[i] = NoConf <=> phase'[i] = "unused"
    BY <1>4 DEF Abandons
  <2>2. phase' \in [Instances -> Phases]
    BY <1>4 DEF Abandons
  <2>3. \A i \in Instances :
          /\ phase'[i] \notin ComingUp
          /\ rpc'[i] # "off" => phase'[i] \notin {"unused", "loaded"}
    BY <1>4 DEF Abandons, GoesBack
  <2>4. current # NoInstance => phase'[current] = "serving"
    BY <1>4 DEF Abandons
  <2>5. GoesBack /\ shown' = shown /\ caddy # "stopping"
    BY <1>4 DEF Abandons
  <2>6. QED
    BY <2>1, <2>2, <2>3, <2>4, <2>5, GoesBackType
<1>5. CASE AbandonsLate
  <2>1. /\ GoesBack /\ UNCHANGED conf /\ caddy = "starting" /\ loading \in Instances
        /\ phase[loading] = "ready" /\ shown' = [shown EXCEPT ![loading] = {}]
    BY <1>5 DEF AbandonsLate
  <2>2. PICK end \in {"dropped", "shut"} : phase' = [phase EXCEPT ![loading] = end]
    BY <1>5 DEF AbandonsLate
  <2>3. /\ conf' = [i \in Instances |-> conf'[i]]
        /\ \A i \in Instances : conf'[i] = NoConf <=> phase'[i] = "unused"
    BY <2>1, <2>2
  <2>4. phase' \in [Instances -> Phases] /\ shown' \in [Instances -> SUBSET Gauges]
    BY <2>1, <2>2
  <2>5. \A i \in Instances :
          /\ phase'[i] \notin ComingUp
          /\ rpc'[i] # "off" => phase'[i] \notin {"unused", "loaded"}
    BY <2>1, <2>2 DEF GoesBack
  <2>6. current # NoInstance => phase'[current] = "serving"
    BY <2>1, <2>2
  <2>7. QED
    BY <2>1, <2>3, <2>4, <2>5, <2>6, GoesBackType
<1>6. CASE RestoreSeries
  <2>1. left \in Seq(Gauges) /\ left # <<>> /\ current \in Instances
    BY <1>6 DEF RestoreSeries
  <2>2. Head(left) \in Gauges /\ Tail(left) \in Seq(Gauges)
    BY <2>1
  <2>3. series' \subseteq Gauges /\ shown' \in [Instances -> SUBSET Gauges]
    BY <1>6, <2>1, <2>2, ShowsType DEF RestoreSeries
  <2>4. QED
    BY <1>6, <2>2, <2>3 DEF RestoreSeries
<1>7. CASE StopBegins
  BY <1>7 DEF StopBegins, caddyVars
<1>8. CASE StopEnds
  BY <1>8 DEF StopEnds
<1>9. ASSUME NEW i \in Instances, NEW file \in Read, Load(i, file)
      PROVE  TypeInv'
  <2>1. file \in Corefiles
    BY PluginAssumption DEF Read
  <2>2. CASE parseNextDNS(file) = NoConf
    BY <1>9, <2>1, <2>2 DEF Load
  <2>3. CASE parseNextDNS(file) # NoConf
    BY <1>9, <2>1, <2>3 DEF Load
  <2>4. QED
    BY <2>2, <2>3
<1>10. ASSUME NEW i \in Instances, Start(i)
      PROVE  TypeInv'
  <2>1. CASE HasSources(conf[i])
    BY <1>10, <2>1 DEF Start
  <2>2. CASE ~HasSources(conf[i])
    BY <1>10, <2>2 DEF Start
  <2>3. QED
    BY <2>1, <2>2
<1>11. CASE ServersStart
  <2>1. /\ caddy = "starting" /\ loading \in Instances /\ phase[loading] = "ready"
        /\ current # NoInstance => current # loading
    BY <1>11 DEF ServersStart
  <2>2. CASE current = NoInstance
    BY <1>11, <2>1, <2>2 DEF ServersStart
  <2>3. CASE current # NoInstance
    BY <1>11, <2>1, <2>3 DEF ServersStart
  <2>4. QED
    BY <2>2, <2>3
<1>12. QED
  BY <1>1, <1>2, <1>3, <1>4, <1>6, <1>7, <1>8, <1>9, <1>10, <1>11, <1>5 DEF Caddy

\* The end of refresh, and of a start that waited for it.
LEMMA SetDevicesType ==
  ASSUME TypeInv, NEW i \in Instances, SetDevices(i)
  PROVE  TypeInv'
<1> USE InstanceIds DEF TypeInv, TypeOK, PhaseInv, ComingUp, Phases
<1>1. series' \subseteq Gauges /\ shown' \in [Instances -> SUBSET Gauges]
  BY ShowsType DEF SetDevices, Gauges
<1>2. UNCHANGED <<caddyVars, conf, task>> /\ rpc' = [rpc EXCEPT ![i] = "wait"] /\ rpc[i] = "set"
  BY DEF SetDevices
<1>3. CASE phase[i] = "starting"
  <2>1. phase' = [phase EXCEPT ![i] = "ready"] /\ caddy = "starting" /\ i = loading
    BY <1>3 DEF SetDevices
  <2>2. QED
    BY <1>1, <1>2, <1>3, <2>1 DEF caddyVars
<1>4. CASE phase[i] # "starting"
  <2>1. phase' = phase
    BY <1>4 DEF SetDevices
  <2>2. QED
    BY <1>1, <1>2, <2>1 DEF caddyVars
<1>5. QED
  BY <1>3, <1>4

\* So do the other steps of a refresher.
LEMMA RefresherType ==
  ASSUME TypeInv, NEW i \in Instances, TickerFires(i) \/ RefresherEnds(i)
  PROVE  TypeInv'
BY DEF TypeInv, TypeOK, PhaseInv, TickerFires, RefresherEnds, caddyVars

\* A query comes in.
LEMMA ArriveType ==
  ASSUME TypeInv, NEW q \in Queries, NEW i \in Instances, NEW a \in Devices, Arrive(q, i, a)
  PROVE  TypeInv'
<1>1. [pc |-> "serve", at |-> i, from |-> a] \in TaskType
  BY DEF TaskType, Places
<1>2. task' \in [Goroutines -> TaskType]
  BY <1>1 DEF Arrive, TypeInv, TypeOK, TaskType
<1>3. QED
  BY <1>2, OwnStepType DEF Arrive

\* What a goroutine does next takes it to one of the places.
LEMMA ProceedsType ==
  ASSUME TypeInv, NEW g \in Goroutines, Proceeds(g)
  PROVE  TypeInv'
<1> USE DEF Places
<1>0. TypeOK
  BY DEF TypeInv
<1>1. Returned(g) \in Places /\ Onward(g) \in Places
  BY DEF Returned, Onward
<1>2. ASSUME NEW label \in Places, Goes(g, label), UNCHANGED rest
      PROVE  TypeInv'
  BY <1>0, <1>2, GoesType, OwnStepType
<1>3. ASSUME NEW override \in Overrides, Serve(g, override)
      PROVE  TypeInv'
  BY <1>2, <1>3 DEF Serve
<1>4. ASSUME NEW found \in BOOLEAN, Get(g, found)
      PROVE  TypeInv'
  BY <1>2, <1>4 DEF Get
<1>5. CASE BelowReturns(g)
  BY <1>1, <1>2, <1>5 DEF BelowReturns
<1>6. CASE IdentifyNow(g)
  BY <1>1, <1>2, <1>6 DEF IdentifyNow
<1>7. CASE IdentifyShared(g)
  BY <1>1, <1>2, <1>7 DEF IdentifyShared
<1>8. CASE HoldEnds(g)
  BY <1>2, <1>8 DEF HoldEnds
<1>9. CASE ExchangeEnds(g)
  BY <1>1, <1>2, <1>9 DEF ExchangeEnds
<1>10. CASE Put(g)
  BY <1>2, <1>10 DEF Put, rest
<1>11. ASSUME NEW gauge \in Gauges, Shows(task[g].at, gauge),
              NEW label \in Places, Goes(g, label), UNCHANGED <<caddyVars, instanceVars>>
       PROVE  TypeInv'
  <2>1. task' \in [Goroutines -> TaskType]
    BY <1>0, <1>11, GoesType
  <2>2. series' \subseteq Gauges /\ shown' \in [Instances -> SUBSET Gauges]
    BY <1>0, <1>11, ShowsType
  <2>3. QED
    BY <1>11, <2>1, <2>2 DEF TypeInv, TypeOK, PhaseInv, TaskType, caddyVars, instanceVars
<1>12. CASE SetSize(g)
  BY <1>1, <1>11, <1>12 DEF SetSize, Gauges
<1>13. ASSUME NEW l \in Lookups, IdentifyStarts(g, l)
       PROVE  TypeInv'
  <2>1. l \in Goroutines
    BY DEF Goroutines
  <2>2. task[g] \in TaskType /\ task \in [Goroutines -> TaskType] /\ Idle \in TaskType
    BY <1>0 DEF TypeOK, TaskType, Idle
  <2>3. /\ [pc |-> "asks", at |-> task[g].at, from |-> task[g].from] \in TaskType
        /\ \A label \in Places : [task[g] EXCEPT !.pc = label] \in TaskType
    BY <2>2 DEF TaskType
  <2> DEFINE next == IF Waits(g) THEN "held" ELSE Onward(g)
             t == IF next = "idle" THEN Idle ELSE [task[g] EXCEPT !.pc = next]
  <2>4. t \in TaskType
    BY <1>1, <2>2, <2>3
  <2>5. task' = [task EXCEPT ![g] = t, ![l] = [pc |-> "asks", at |-> task[g].at, from |-> task[g].from]]
    BY <1>13 DEF IdentifyStarts
  <2> HIDE DEF t
  <2>6. task' \in [Goroutines -> TaskType]
    BY <2>1, <2>2, <2>3, <2>4, <2>5
  <2>7. QED
    BY <1>13, <2>6, OwnStepType DEF IdentifyStarts
<1>14. ASSUME g \in Lookups, ComesBack(g) \/ AnsweredElsewhere(g) \/ SetEntries(g) \/ LookupEnds(g)
       PROVE  TypeInv'
  <2>1. CASE ComesBack(g)
    BY <1>2, <2>1 DEF ComesBack
  <2>2. CASE AnsweredElsewhere(g)
    BY <1>2, <2>2 DEF AnsweredElsewhere
  <2>3. CASE SetEntries(g)
    BY <1>11, <2>3 DEF SetEntries, Gauges
  <2>4. CASE LookupEnds(g)
    BY <1>2, <2>4 DEF LookupEnds
  <2>5. QED
    BY <1>14, <2>1, <2>2, <2>3, <2>4
<1>15. QED
  BY <1>3, <1>4, <1>5, <1>6, <1>7, <1>8, <1>9, <1>10, <1>12, <1>13, <1>14 DEF Proceeds

\* TypeInv is inductive.
LEMMA NextType == TypeInv /\ [Next]_vars => TypeInv'
<1> SUFFICES ASSUME TypeInv, [Next]_vars PROVE TypeInv'
  OBVIOUS
<1>1. CASE UNCHANGED vars
  BY <1>1 DEF TypeInv, TypeOK, PhaseInv, vars, caddyVars
<1>2. QED
  BY <1>1, CaddyType, SetDevicesType, RefresherType, ArriveType, ProceedsType DEF Next

\* Types of the variables (setup.go, setup; device.go, start; nextdns.go, ServeDNS).
THEOREM TypeCorrect == Spec => []TypeOK
<1>1. Init => TypeInv
  BY InitType
<1>2. TypeInv => TypeOK
  BY DEF TypeInv
<1>3. QED
  BY <1>1, <1>2, NextType, PTL DEF Spec

-----------------------------------------------------------------------------
(***************************************************************************)
(* Queries and lookups                                                     *)
(***************************************************************************)

Started == {"serving", "stopping", "stopped"}

\* An instance that has served stays so, with its configuration.
LEMMA CaddyStarted ==
  ASSUME TypeInv, Caddy, NEW i \in Instances, phase[i] \in Started
  PROVE  phase'[i] \in Started /\ conf'[i] = conf[i] /\ task' = task
<1> USE InstanceIds DEF TypeInv, TypeOK, PhaseInv, Started
<1>1. CASE ReloadBegins \/ DeleteSeries \/ LoadNothing \/ RestoreSeries
  BY <1>1 DEF ReloadBegins, DeleteSeries, LoadNothing, RestoreSeries
<1>2. CASE Abandons
  <2>1. i # loading
    BY <1>2 DEF Abandons, ComingUp
  <2>2. QED
    BY <1>2, <2>1 DEF Abandons, GoesBack
<1>3. CASE StopBegins \/ StopEnds
  BY <1>3 DEF StopBegins, StopEnds
<1>4. ASSUME NEW j \in Instances, NEW file \in Read, Load(j, file)
      PROVE  phase'[i] \in Started /\ conf'[i] = conf[i] /\ task' = task
  <2>1. i # j
    BY <1>4 DEF Load
  <2>2. CASE parseNextDNS(file) = NoConf
    BY <1>4, <2>2 DEF Load
  <2>3. CASE parseNextDNS(file) # NoConf
    BY <1>4, <2>1, <2>3 DEF Load
  <2>4. QED
    BY <2>2, <2>3
<1>5. ASSUME NEW j \in Instances, Start(j)
      PROVE  phase'[i] \in Started /\ conf'[i] = conf[i] /\ task' = task
  <2>1. CASE HasSources(conf[j])
    <3>1. i # j
      BY <1>5 DEF Start
    <3>2. QED
      BY <1>5, <2>1, <3>1 DEF Start
  <2>2. CASE ~HasSources(conf[j])
    BY <1>5, <2>2 DEF Start
  <2>3. QED
    BY <2>1, <2>2
<1>6. CASE AbandonsLate
  <2>1. i # loading
    BY <1>6 DEF AbandonsLate
  <2>2. QED
    BY <1>6, <2>1 DEF AbandonsLate, GoesBack
<1>7. CASE ServersStart
  BY <1>7 DEF ServersStart
<1>8. QED
  BY <1>1, <1>2, <1>3, <1>4, <1>5, <1>6, <1>7 DEF Caddy

\* Nor does a refresher end a start that is over.
LEMMA RefresherStarted ==
  ASSUME TypeInv, NEW j \in Instances, TickerFires(j) \/ SetDevices(j) \/ RefresherEnds(j),
         NEW i \in Instances, phase[i] \in Started
  PROVE  phase'[i] \in Started /\ conf'[i] = conf[i] /\ task' = task
<1> USE DEF TypeInv, TypeOK, Started
<1>1. CASE TickerFires(j) \/ RefresherEnds(j)
  BY <1>1 DEF TickerFires, RefresherEnds
<1>2. CASE SetDevices(j)
  <2>1. CASE phase[j] = "starting"
    BY <1>2, <2>1 DEF SetDevices
  <2>2. CASE phase[j] # "starting"
    BY <1>2, <2>2 DEF SetDevices
  <2>3. QED
    BY <2>1, <2>2
<1>3. QED
  BY <1>1, <1>2

\* Nothing that a goroutine relies on goes away while it is on its way.
LEMMA StartedTask ==
  ASSUME TypeInv, TaskInv, task' = task,
         \A i \in Instances : phase[i] \in Started => phase'[i] \in Started /\ conf'[i] = conf[i]
  PROVE  TaskInv'
BY DEF TaskInv, Conf, Started, LookupPlaces

\* One goroutine goes on.
LEMMA GoesTask ==
  ASSUME TypeInv, TaskInv, NEW g \in Goroutines, NEW label, Goes(g, label),
         UNCHANGED <<conf, phase>>, task[g].pc # "idle",
         g \in Lookups => label \in LookupPlaces,
         g \in Queries => label \notin {"asks", "store", "cleanup"},
         label = "size" => "cache" \in Conf(g).on
  PROVE  TaskInv'
<1>1. \A h \in Goroutines \ {g} : task'[h] = task[h]
  BY DEF Goes, TypeInv, TypeOK
<1>2. CASE label = "idle"
  <2>1. task'[g] = Idle
    BY <1>2 DEF Goes, TypeInv, TypeOK
  <2>2. QED
    BY <1>1, <2>1 DEF TaskInv, Conf, Idle, LookupPlaces
<1>3. CASE label # "idle"
  <2>1. task'[g].pc = label /\ task'[g].at = task[g].at
    BY <1>3 DEF Goes, TypeInv, TypeOK
  <2>2. QED
    BY <1>1, <2>1 DEF TaskInv, Conf
<1>4. QED
  BY <1>2, <1>3

\* A new query belongs to an instance that serves.
LEMMA ArriveTask ==
  ASSUME TypeInv, TaskInv, NEW q \in Queries, NEW i \in Instances, NEW a \in Devices,
         Arrive(q, i, a)
  PROVE  TaskInv'
<1>1. /\ task'[q] = [pc |-> "serve", at |-> i, from |-> a] /\ phase[i] \in Started
      /\ \A h \in Goroutines \ {q} : task'[h] = task[h]
      /\ UNCHANGED <<conf, phase>>
  BY DEF Arrive, TypeInv, TypeOK, rest, instanceVars, Goroutines, Started
<1>2. q \notin Lookups
  BY PluginAssumption
<1>3. QED
  BY <1>1, <1>2 DEF TaskInv, Conf, Started

\* What holds of a query or a lookup after the next step that it takes.
LEMMA ProceedsTask ==
  ASSUME TypeInv, TaskInv, NEW g \in Goroutines, Proceeds(g)
  PROVE  TaskInv'
<1> USE DEF LookupPlaces, At
<1>0. /\ g \in Lookups => task[g].pc \in LookupPlaces
      /\ g \in Queries => task[g].pc \notin {"asks", "store", "cleanup"}
      /\ ~ (g \in Queries /\ g \in Lookups)
  BY PluginAssumption DEF TaskInv
<1>1. /\ Returned(g) \in {"idle", "store"}
      /\ Returned(g) = "store" <=> g \in Lookups
  BY DEF Returned
<1>2. ASSUME NEW label, Goes(g, label), UNCHANGED rest, task[g].pc # "idle",
             g \in Lookups => label \in LookupPlaces,
             g \in Queries => label \notin {"asks", "store", "cleanup"},
             label = "size" => "cache" \in Conf(g).on
      PROVE  TaskInv'
  BY <1>2, GoesTask DEF rest, instanceVars
<1>3. ASSUME NEW override \in Overrides, Serve(g, override)
      PROVE  TaskInv'
  <2>1. \E label \in {"below", "get", "miss"} :
           Goes(g, label) /\ (g \in Lookups => label = "below")
    BY <1>3 DEF Serve, isDiscovery
  <2>2. QED
    BY <1>2, <1>3, <2>1 DEF Serve
<1>4. ASSUME NEW found \in BOOLEAN, Get(g, found)
      PROVE  TaskInv'
  <2>1. \E label \in {"hit", "miss"} : Goes(g, label)
    BY <1>4 DEF Get
  <2>2. QED
    BY <1>0, <1>2, <1>4, <2>1 DEF Get
<1>5. CASE BelowReturns(g)
  BY <1>0, <1>1, <1>2, <1>5 DEF BelowReturns
<1>6. CASE IdentifyNow(g) \/ IdentifyShared(g)
  <2>1. g \notin Lookups
    BY <1>0, <1>6 DEF IdentifyNow, IdentifyShared
  <2>2. Onward(g) \in {"idle", "upstream"}
    BY <1>1, <2>1 DEF Onward
  <2>3. \E label \in {"idle", "upstream", "held"} : Goes(g, label)
    BY <1>6, <2>2 DEF IdentifyNow, IdentifyShared
  <2>4. QED
    BY <1>2, <1>6, <2>1, <2>3 DEF IdentifyNow, IdentifyShared
<1>7. CASE HoldEnds(g)
  BY <1>0, <1>2, <1>7 DEF HoldEnds
<1>8. CASE ExchangeEnds(g)
  BY <1>0, <1>1, <1>2, <1>8 DEF ExchangeEnds
<1>9. CASE Put(g)
  BY <1>0, <1>2, <1>9 DEF Put, rest
<1>10. CASE SetSize(g)
  BY <1>0, <1>1, <1>10, GoesTask DEF SetSize, instanceVars
<1>11. ASSUME NEW l \in Lookups, IdentifyStarts(g, l)
       PROVE  TaskInv'
  <2>1. g \notin Lookups /\ l # g /\ l \notin Queries /\ l \in Goroutines /\ task[g].pc # "idle"
    BY <1>0, <1>11, PluginAssumption DEF IdentifyStarts, Goroutines
  <2> DEFINE next == IF Waits(g) THEN "held" ELSE Onward(g)
             t == IF next = "idle" THEN Idle ELSE [task[g] EXCEPT !.pc = next]
             u == [pc |-> "asks", at |-> task[g].at, from |-> task[g].from]
  <2>2. next \in {"idle", "upstream", "held"}
    BY <1>1, <2>1 DEF Onward
  <2>3. task' = [task EXCEPT ![g] = t, ![l] = u]
    BY <1>11 DEF IdentifyStarts
  <2>4. t = Idle \/ (t.pc \in {"upstream", "held"} /\ t.at = task[g].at)
    BY <2>2 DEF TypeInv, TypeOK
  <2>5. u.pc = "asks" /\ u.at = task[g].at
    OBVIOUS
  <2> HIDE DEF t, u, next
  <2>6. task'[g] = t /\ task'[l] = u /\ \A h \in Goroutines \ {g, l} : task'[h] = task[h]
    BY <2>1, <2>3 DEF TypeInv, TypeOK
  <2>7. UNCHANGED <<conf, phase>> /\ "discovery" \in Conf(g).on
    BY <1>11 DEF IdentifyStarts, rest, instanceVars
  <2>8. QED
    BY <2>1, <2>4, <2>5, <2>6, <2>7 DEF TaskInv, Conf, Idle
<1>12. ASSUME g \in Lookups, ComesBack(g) \/ AnsweredElsewhere(g) \/ SetEntries(g) \/ LookupEnds(g)
       PROVE  TaskInv'
  <2>1. CASE ComesBack(g)
    BY <1>0, <1>2, <1>12, <2>1 DEF ComesBack
  <2>2. CASE AnsweredElsewhere(g)
    BY <1>0, <1>2, <1>12, <2>2 DEF AnsweredElsewhere
  <2>3. CASE SetEntries(g)
    BY <1>0, <1>12, <2>3, GoesTask DEF SetEntries, instanceVars
  <2>4. CASE LookupEnds(g)
    BY <1>0, <1>2, <1>12, <2>4 DEF LookupEnds
  <2>5. QED
    BY <1>12, <2>1, <2>2, <2>3, <2>4
<1>13. QED
  BY <1>3, <1>4, <1>5, <1>6, <1>7, <1>8, <1>9, <1>10, <1>11, <1>12 DEF Proceeds

\* TaskInv is inductive relative to TypeInv.
LEMMA NextTask == TypeInv /\ TaskInv /\ [Next]_vars => TaskInv'
<1> SUFFICES ASSUME TypeInv, TaskInv, [Next]_vars PROVE TaskInv'
  OBVIOUS
<1>1. CASE UNCHANGED vars
  BY <1>1 DEF TaskInv, Conf, vars, LookupPlaces
<1>2. CASE Caddy
  <2>1. task' = task
    BY <1>2 DEF Caddy, ReloadBegins, DeleteSeries, LoadNothing, Abandons, AbandonsLate, GoesBack,
                RestoreSeries, ServersStart, StopBegins, StopEnds, Load, Start
  <2>2. QED
    BY <1>2, <2>1, CaddyStarted, StartedTask
<1>3. ASSUME NEW j \in Instances, TickerFires(j) \/ SetDevices(j) \/ RefresherEnds(j)
      PROVE  TaskInv'
  <2>1. task' = task
    BY <1>3 DEF TickerFires, SetDevices, RefresherEnds
  <2>2. QED
    BY <1>3, <2>1, RefresherStarted, StartedTask
<1>4. QED
  BY <1>1, <1>2, <1>3, ArriveTask, ProceedsTask DEF Next

\* A lookup that comes back around is passed on (nextdns.go, ServeDNS).
THEOREM LookupsDoNotRecurse == Spec => []NeverRecurses
<1>1. Init => TypeInv /\ TaskInv
  BY InitType
<1>2. TaskInv => NeverRecurses
  BY DEF TaskInv, NeverRecurses, At, LookupPlaces, Goroutines
<1>3. QED
  BY <1>1, <1>2, NextType, NextTask, PTL DEF Spec

-----------------------------------------------------------------------------
(***************************************************************************)
(* Gauges                                                                  *)
(***************************************************************************)

\* A gauge is written, and no configuration changes.
LEMMA ShowsKeeps ==
  ASSUME TypeInv, GaugeInv, NEW i \in Instances, NEW gauge \in Gauges, Shows(i, gauge),
         Writes(i, gauge), conf' = conf
  PROVE  /\ gauge \in series' /\ series \subseteq series'
         /\ shown'[i] \subseteq shown[i] \cup {gauge}
         /\ \A j \in Instances : \A m \in shown'[j] : Writes(j, m)'
         /\ \A j \in Instances \ {i} : shown'[j] = shown[j]
<1>1. \A j \in Instances : shown'[j] \subseteq shown[j] \cup (IF j = i THEN {gauge} ELSE {})
  BY DEF Shows, TypeInv, TypeOK
<1>2. \A j \in Instances \ {i} : shown'[j] = shown[j]
  BY DEF Shows, TypeInv, TypeOK
<1>3. series' = series \cup {gauge}
  BY DEF Shows
<1>4. \A j \in Instances : \A m \in shown'[j] : Writes(j, m)'
  BY <1>1 DEF GaugeInv, Writes
<1>5. QED
  BY <1>1, <1>2, <1>3, <1>4

\* The first series of left is dealt with.
LEMMA MissingTail ==
  ASSUME left \in Seq(Gauges), left # <<>>, left' = Tail(left)
  PROVE  Missing = {Head(left)} \cup Missing'
<1>1. Len(left) \in Nat /\ Len(left) > 0 /\ Tail(left) \in Seq(Gauges)
      /\ DOMAIN left = 1 .. Len(left) /\ DOMAIN Tail(left) = 1 .. Len(left) - 1
      /\ Head(left) = left[1] /\ \A k \in 1 .. Len(left) - 1 : Tail(left)[k] = left[k + 1]
  OBVIOUS
<1>2. \A k \in DOMAIN left : k = 1 \/ (k - 1 \in DOMAIN left' /\ left'[k - 1] = left[k])
  BY <1>1
<1>3. \A k \in DOMAIN left' : k + 1 \in DOMAIN left /\ left'[k] = left[k + 1]
  BY <1>1
<1>4. QED
  BY <1>1, <1>2, <1>3 DEF Missing

\* With nothing left, nothing is missing.
LEMMA NothingMissing == left' = <<>> => Missing' = {}
BY DEF Missing

\* No instance is on its way unless a start is.
LEMMA NoneReady ==
  ASSUME TypeInv, caddy # "starting"
  PROVE  \A i \in Instances : phase[i] # "ready"
BY DEF TypeInv, PhaseInv, ComingUp

\* What a start that is abandoned leaves to do includes every gauge that the
\* instance which goes on serving may have written.
LEMMA GoesBackGauges ==
  ASSUME TypeInv, GaugeInv, GoesBack, caddy \in {"failed", "starting"},
         current # NoInstance => conf'[current] = conf[current] /\ shown'[current] = shown[current],
         \A i \in Instances :
           /\ \A gauge \in shown'[i] : Writes(i, gauge)'
           /\ phase'[i] \in {"unused", "loaded", "starting"} => shown'[i] = {}
           /\ phase'[i] = "ready" => Keeps(i, series)'
  PROVE  GaugeInv'
<1> USE InstanceIds DEF TypeInv, TypeOK
<1>1. UNCHANGED <<series, current>> /\ loading' = NoInstance
  BY DEF GoesBack
<1>2. CASE current = NoInstance
  <2>1. caddy' = "idle"
    BY <1>2 DEF GoesBack
  <2>2. QED
    BY <1>1, <1>2, <2>1 DEF GaugeInv
<1>3. CASE current # NoInstance
  <2>1. left' = Restores(conf[current]) /\ caddy' = "restoring"
    BY <1>3, RestoresSeq DEF GoesBack
  <2>2. current \in Instances
    BY <1>3
  <2>3. /\ "devices" \in Missing'
        /\ "discovery" \in conf[current].on => "discovery" \in Missing'
        /\ "cache" \in conf[current].on => "cache" \in Missing'
        /\ \A m \in Missing' : Writes(current, m)
    <3>1. Missing' = {Restores(conf[current])[k] : k \in DOMAIN Restores(conf[current])}
      BY <2>1 DEF Missing
    <3>2. QED
      BY ONLY <3>1, RestoresSeq, Zenon DEF Writes
  <2>4. shown[current] \subseteq Missing'
    <3>1. shown[current] \subseteq Gauges /\ \A m \in shown[current] : Writes(current, m)
      BY <2>2 DEF GaugeInv
    <3>2. QED
      BY ONLY <2>3, <3>1 DEF Writes, Gauges
  <2>5. /\ Keeps(current, series \cup Missing)'
        /\ \A m \in Missing' : Writes(current, m)'
    BY <1>1, <1>3, <2>3, <2>4 DEF Keeps, Writes
  <2>6. QED
    BY <1>1, <2>1, <2>5 DEF GaugeInv
<1>4. QED
  BY <1>2, <1>3

\* A reload, completed or abandoned, leaves the serving instance its gauges.
LEMMA CaddyGauges ==
  ASSUME TypeInv, GaugeInv, Caddy
  PROVE  GaugeInv'
<1> USE InstanceIds DEF TypeInv, TypeOK, PhaseInv
<1>1. CASE ReloadBegins \/ DeleteSeries \/ LoadNothing
  <2>1. /\ UNCHANGED <<conf, phase, shown, current, loading>>
        /\ caddy' \in {"deleting", "loading", "stopping", "idle"}
        /\ caddy' = "idle" => current = NoInstance
        /\ caddy' = "stopping" => loading = NoInstance
    BY <1>1 DEF ReloadBegins, DeleteSeries, LoadNothing
  <2>2. \A i \in Instances : phase[i] # "ready"
    BY <1>1, NoneReady DEF ReloadBegins, DeleteSeries, LoadNothing
  <2>3. QED
    BY <2>1, <2>2 DEF GaugeInv, Writes, Keeps
<1>2. CASE Abandons
  <2>1. \A i \in Instances : \/ conf'[i] = conf[i] /\ phase'[i] = phase[i]
                             \/ shown[i] = {} /\ phase'[i] = "unused"
    BY <1>2 DEF Abandons, GaugeInv
  <2>2. GoesBack /\ shown' = shown /\ (current # NoInstance => conf'[current] = conf[current])
    BY <1>2 DEF Abandons
  <2>3. \A i \in Instances :
          /\ \A gauge \in shown'[i] : Writes(i, gauge)'
          /\ phase'[i] \in {"unused", "loaded", "starting"} => shown'[i] = {}
          /\ phase'[i] = "ready" => Keeps(i, series)'
    <3>1. \A i \in Instances : phase'[i] # "ready"
      BY <1>2 DEF Abandons, ComingUp
    <3>2. QED
      BY <2>1, <2>2, <3>1 DEF GaugeInv, Writes
  <2>4. caddy \in {"failed", "starting"}
    BY <1>2 DEF Abandons
  <2>5. QED
    BY <2>2, <2>3, <2>4, GoesBackGauges
<1>3. CASE AbandonsLate
  <2>1. /\ GoesBack /\ UNCHANGED conf /\ caddy = "starting" /\ loading \in Instances
        /\ phase[loading] = "ready" /\ shown' = [shown EXCEPT ![loading] = {}]
    BY <1>3 DEF AbandonsLate
  <2>2. PICK end \in {"dropped", "shut"} : phase' = [phase EXCEPT ![loading] = end]
    BY <1>3 DEF AbandonsLate
  <2>3. \A i \in Instances :
          /\ \A gauge \in shown'[i] : Writes(i, gauge)'
          /\ phase'[i] \in {"unused", "loaded", "starting"} => shown'[i] = {}
          /\ phase'[i] = "ready" => Keeps(i, series)'
    <3>1. \A i \in Instances : phase'[i] # "ready"
      BY <2>1, <2>2 DEF ComingUp
    <3>2. QED
      BY <2>1, <2>2, <3>1 DEF GaugeInv, Writes
  <2>4. current # NoInstance => shown'[current] = shown[current]
    BY <2>1
  <2>5. QED
    BY <2>1, <2>3, <2>4, GoesBackGauges
<1>4. CASE RestoreSeries
  <2>1. /\ left \in Seq(Gauges) /\ left # <<>> /\ current \in Instances
        /\ left' = Tail(left) /\ Head(left) \in Gauges
        /\ phase[current] = "serving" /\ loading = NoInstance
    BY <1>4 DEF RestoreSeries
  <2>2. Missing = {Head(left)} \cup Missing'
    BY <2>1, MissingTail
  <2>3. /\ Shows(current, Head(left))
        /\ UNCHANGED <<text, current, loading, conf, phase>>
        /\ caddy' = IF Tail(left) = <<>> THEN "idle" ELSE "restoring"
        /\ caddy = "restoring"
    BY <1>4 DEF RestoreSeries
  <2>4. Writes(current, Head(left)) /\ Keeps(current, series \cup Missing)
    BY <2>2, <2>3 DEF GaugeInv
  <2>5. /\ Head(left) \in series' /\ series \subseteq series'
        /\ shown'[current] \subseteq shown[current] \cup {Head(left)}
        /\ \A j \in Instances : \A m \in shown'[j] : Writes(j, m)'
        /\ \A j \in Instances \ {current} : shown'[j] = shown[j]
    BY <2>1, <2>3, <2>4, ShowsKeeps
  <2>6. Keeps(current, series \cup Missing)'
    <3>1. series \cup Missing \subseteq series' \cup Missing'
      BY <2>2, <2>5
    <3>2. QED
      BY <2>3, <2>4, <2>5, <3>1 DEF Keeps
  <2>7. \A m \in Missing' : Writes(current, m)'
    BY <2>2, <2>3 DEF GaugeInv, Writes
  <2>8. caddy' = "idle" => Keeps(current, series)'
    BY <2>1, <2>3, <2>6, NothingMissing DEF Keeps
  <2>9. \A i \in Instances : phase'[i] # "ready"
    BY <2>3, NoneReady
  <2>10. QED
    BY <2>1, <2>3, <2>5, <2>6, <2>7, <2>8, <2>9 DEF GaugeInv
<1>5. CASE StopBegins
  <2>1. /\ shown' = [shown EXCEPT ![current] = {}] /\ phase' = [phase EXCEPT ![current] = "stopping"]
        /\ UNCHANGED <<caddy, current, loading, conf, series>> /\ caddy = "stopping"
        /\ current # loading
    BY <1>5 DEF StopBegins, caddyVars
  <2>2. QED
    BY <2>1 DEF GaugeInv, Keeps, Writes
<1>6. CASE StopEnds
  <2>1. /\ phase' = [phase EXCEPT ![current] = "stopped"]
        /\ caddy' = "idle" /\ current' = loading /\ loading' = NoInstance
        /\ UNCHANGED <<conf, series, shown>> /\ caddy = "stopping"
    BY <1>6 DEF StopEnds
  <2>2. QED
    BY <2>1 DEF GaugeInv, Keeps, Writes
<1>7. ASSUME NEW i \in Instances, NEW file \in Read, Load(i, file)
      PROVE  GaugeInv'
  <2>1. /\ caddy' \in {"failed", "starting"} /\ UNCHANGED shown /\ shown[i] = {}
        /\ \A j \in Instances \ {i} : conf'[j] = conf[j] /\ phase'[j] = phase[j]
    BY <1>7 DEF Load, GaugeInv
  <2>2. \A j \in Instances : phase'[j] # "ready"
    BY <1>7, NoneReady DEF Load
  <2>3. QED
    BY <2>1, <2>2 DEF GaugeInv, Writes
<1>8. ASSUME NEW i \in Instances, Start(i)
      PROVE  GaugeInv'
  <2>1. /\ UNCHANGED <<caddy, current, loading, conf, series, shown>>
        /\ shown[i] = {} /\ caddy = "starting"
    BY <1>8 DEF Start, GaugeInv
  <2>2. /\ phase' = [phase EXCEPT ![i] = IF HasSources(conf[i]) THEN "starting" ELSE "ready"]
    BY <1>8 DEF Start
  <2>3. ~HasSources(conf[i]) => Keeps(i, series)'
    BY <2>1 DEF Keeps
  <2>4. QED
    BY <2>1, <2>2, <2>3 DEF GaugeInv, Keeps, Writes
<1>9. CASE ServersStart
  <2>1. /\ UNCHANGED <<conf, series, shown>> /\ loading \in Instances
        /\ phase' = [phase EXCEPT ![loading] = "serving"]
        /\ \/ caddy' = "idle" /\ current' = loading /\ loading' = NoInstance
           \/ caddy' = "stopping" /\ loading' = loading
        /\ phase[loading] = "ready"
    BY <1>9 DEF ServersStart
  <2>2. Keeps(loading, series)
    BY <2>1 DEF GaugeInv
  <2>3. QED
    BY <2>1, <2>2 DEF GaugeInv, Keeps, Writes
<1>10. QED
  BY <1>1, <1>2, <1>4, <1>5, <1>6, <1>7, <1>8, <1>3, <1>9 DEF Caddy

\* A step that touches none of what GaugeInv speaks of.
LEMMA OtherGauges ==
  ASSUME GaugeInv, UNCHANGED <<caddy, current, loading, left, conf, phase, series, shown>>
  PROVE  GaugeInv'
BY DEF GaugeInv, Keeps, Writes, Missing

\* The refresher's own gauge, when a start waits for it and when none does.
LEMMA RefresherGauges ==
  ASSUME TypeInv, GaugeInv, NEW i \in Instances,
         TickerFires(i) \/ SetDevices(i) \/ RefresherEnds(i)
  PROVE  GaugeInv'
<1> USE InstanceIds DEF TypeInv, TypeOK, PhaseInv
<1>1. CASE TickerFires(i) \/ RefresherEnds(i)
  <2>1. UNCHANGED <<caddy, current, loading, left, conf, phase, series, shown>>
    BY <1>1 DEF TickerFires, RefresherEnds, caddyVars
  <2>2. QED
    BY <2>1, OtherGauges
<1>2. CASE SetDevices(i)
  <2>1. Shows(i, "devices") /\ UNCHANGED <<left, conf>> /\ Writes(i, "devices")
    BY <1>2 DEF SetDevices, Writes, caddyVars
  <2>2. UNCHANGED <<caddy, current, loading>> /\ rpc[i] = "set"
    BY <1>2 DEF SetDevices, caddyVars
  <2>3. phase' = [phase EXCEPT ![i] = IF phase[i] = "starting" THEN "ready" ELSE phase[i]]
    BY <1>2 DEF SetDevices
  <2>4. /\ "devices" \in series' /\ series \subseteq series'
        /\ shown'[i] \subseteq shown[i] \cup {"devices"}
        /\ \A j \in Instances : \A m \in shown'[j] : Writes(j, m)'
        /\ \A j \in Instances \ {i} : shown'[j] = shown[j]
    BY <2>1, ShowsKeeps DEF Gauges
  <2>5. \A j \in Instances : phase'[j] \in {"unused", "loaded", "starting"} => shown'[j] = {}
    BY <2>2, <2>3, <2>4 DEF GaugeInv
  <2>6. \A j \in Instances : Keeps(j, series) => Keeps(j, series)'
    BY <2>1, <2>4 DEF Keeps
  <2>7. phase'[i] = "ready" => Keeps(i, series)'
    BY <2>1, <2>3, <2>4, <2>6 DEF Keeps, GaugeInv
  <2>8. caddy = "restoring" => Keeps(current, series \cup Missing)'
    <3>1. Missing' = Missing /\ current' = current
      BY <2>1, <2>2 DEF Missing
    <3>2. caddy = "restoring" => current \in Instances /\ Keeps(current, series \cup Missing)
      BY DEF GaugeInv
    <3>3. \A j \in Instances : shown'[j] \subseteq shown[j] \cup {"devices"}
      BY <2>4
    <3>4. QED
      BY <2>1, <2>4, <3>1, <3>2, <3>3 DEF Keeps
  <2>9. caddy = "restoring" => \A m \in Missing' : Writes(current, m)'
    <3>1. Missing' = Missing /\ current' = current
      BY <2>1, <2>2 DEF Missing
    <3>2. caddy = "restoring" => \A m \in Missing : Writes(current, m)
      BY DEF GaugeInv
    <3>3. QED
      BY ONLY <2>1, <3>1, <3>2 DEF Writes
  <2>10. QED
    BY <2>2, <2>3, <2>4, <2>5, <2>6, <2>7, <2>8, <2>9 DEF GaugeInv
<1>3. QED
  BY <1>1, <1>2

\* A query that stored an answer, and a lookup that stored a name, write a gauge
\* of the instance that they belong to, which has started.
LEMMA StoredGauge ==
  ASSUME TypeInv, TaskInv, GaugeInv, NEW g \in Goroutines, task[g].pc # "idle",
         NEW gauge \in Gauges, Shows(task[g].at, gauge), gauge \in Conf(g).on,
         UNCHANGED <<caddyVars, instanceVars>>
  PROVE  GaugeInv'
<1> USE InstanceIds DEF TypeInv, TypeOK, PhaseInv
<1> DEFINE i == task[g].at
<1>1. i \in Instances /\ phase[i] \in Started /\ Writes(i, gauge)
  BY DEF TaskInv, Started, Writes, Conf
<1> HIDE DEF i
<1>2. UNCHANGED <<caddy, current, loading, left, conf, phase>> /\ Shows(i, gauge)
  BY DEF caddyVars, instanceVars, i
<1>3. /\ gauge \in series' /\ series \subseteq series'
      /\ shown'[i] \subseteq shown[i] \cup {gauge}
      /\ \A j \in Instances : \A m \in shown'[j] : Writes(j, m)'
      /\ \A j \in Instances \ {i} : shown'[j] = shown[j]
  BY <1>1, <1>2, ShowsKeeps
<1>4. \A j \in Instances : phase'[j] \in {"unused", "loaded", "starting"} => shown'[j] = {}
  BY <1>1, <1>2, <1>3 DEF GaugeInv, Started
<1>5. \A j \in Instances : Keeps(j, series) => Keeps(j, series)'
  BY <1>2, <1>3 DEF Keeps
<1>6. caddy = "restoring" => Keeps(current, series \cup Missing)'
  <2>1. Missing' = Missing /\ current' = current
    BY <1>2 DEF Missing
  <2>2. caddy = "restoring" => current \in Instances /\ Keeps(current, series \cup Missing)
    BY DEF GaugeInv
  <2>3. \A j \in Instances : shown'[j] \subseteq shown[j] \cup {gauge}
    BY <1>3
  <2>4. QED
    BY <1>2, <1>3, <2>1, <2>2, <2>3 DEF Keeps
<1>7. caddy = "restoring" => \A m \in Missing' : Writes(current, m)'
  <2>1. Missing' = Missing /\ current' = current
    BY <1>2 DEF Missing
  <2>2. caddy = "restoring" => \A m \in Missing : Writes(current, m)
    BY DEF GaugeInv
  <2>3. QED
    BY ONLY <1>2, <2>1, <2>2 DEF Writes
<1>8. QED
  BY <1>2, <1>3, <1>4, <1>5, <1>6, <1>7 DEF GaugeInv

\* GaugeInv is inductive relative to the others: no other step touches a gauge.
LEMMA NextGauges == TypeInv /\ TaskInv /\ GaugeInv /\ [Next]_vars => GaugeInv'
<1> SUFFICES ASSUME TypeInv, TaskInv, GaugeInv, [Next]_vars PROVE GaugeInv'
  OBVIOUS
<1>1. ASSUME UNCHANGED <<caddyVars, instanceVars, series, shown>>
      PROVE  GaugeInv'
  BY <1>1 DEF GaugeInv, Keeps, Writes, Missing, caddyVars, instanceVars
<1>2. CASE UNCHANGED vars
  BY <1>1, <1>2 DEF vars, instanceVars
<1>3. ASSUME NEW q \in Queries, NEW i \in Instances, NEW a \in Devices, Arrive(q, i, a)
      PROVE  GaugeInv'
  BY <1>1, <1>3 DEF Arrive, rest
<1>4. ASSUME NEW g \in Goroutines, Proceeds(g)
      PROVE  GaugeInv'
  <2>1. CASE SetSize(g)
    <3>1. task[g].pc = "size" /\ "cache" \in Conf(g).on
      BY <2>1 DEF SetSize, At, TaskInv
    <3>2. QED
      BY <2>1, <3>1, StoredGauge DEF SetSize, Gauges
  <2>2. CASE g \in Lookups /\ SetEntries(g)
    <3>1. task[g].pc = "store" /\ "discovery" \in Conf(g).on
      BY <2>2 DEF SetEntries, At, TaskInv
    <3>2. QED
      BY <2>2, <3>1, StoredGauge DEF SetEntries, Gauges
  <2>3. CASE ~SetSize(g) /\ ~ (g \in Lookups /\ SetEntries(g))
    <3>1. UNCHANGED <<caddyVars, instanceVars, series, shown>>
      BY <1>4, <2>3 DEF Proceeds, Serve, Get, BelowReturns, IdentifyNow, IdentifyShared, HoldEnds,
                       ExchangeEnds, Put, IdentifyStarts, ComesBack, AnsweredElsewhere, LookupEnds,
                       rest
    <3>2. QED
      BY <1>1, <3>1
  <2>4. QED
    BY <2>1, <2>2, <2>3
<1>5. QED
  BY <1>2, <1>3, <1>4, CaddyGauges, RefresherGauges DEF Next

\* The instance that serves has the gauges that it has written, and one of its
\* devices if it has sources (setup.go, setup; metrics.go, delete).
THEOREM GaugesKept == Spec => []SeriesKept
<1>1. Init => TypeInv /\ TaskInv /\ GaugeInv
  BY InitType
<1>2. GaugeInv => SeriesKept
  BY DEF GaugeInv, SeriesKept, Keeps
<1>3. QED
  BY <1>1, <1>2, NextType, NextTask, NextGauges, PTL DEF Spec

-----------------------------------------------------------------------------
(***************************************************************************)
(* What is read                                                            *)
(***************************************************************************)

\* The options of every Corefile that is read may appear in any order.
THEOREM AnyOrderWillDo == Spec => []OptionsInAnyOrder
<1>1. TypeOK => OptionsInAnyOrder
  BY LinesChangePlaces, PluginAssumption DEF TypeOK, OptionsInAnyOrder
<1>2. QED
  BY <1>1, TypeCorrect, PTL

\* Queries are routed as the lines say, in every Corefile that is read.
THEOREM LinesRoute == Spec => []RoutesAsWritten
<1>1. TypeOK => RoutesAsWritten
  BY RoutesFollowLines, PluginAssumption DEF TypeOK, RoutesAsWritten
<1>2. QED
  BY <1>1, TypeCorrect, PTL
=============================================================================
