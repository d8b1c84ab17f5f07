--------------------------- MODULE BootstrapProofs ---------------------------
(***************************************************************************)
(* The invariants of Bootstrap for every configuration, number of dials    *)
(* and width of the counter: types, dials by name, lines logged, how       *)
(* rotations spread; and, where an int holds the counter, dials that fail. *)
(***************************************************************************)
EXTENDS Bootstrap, FiniteSetTheorems, TLAPS

ConfigOK == written \in Writtens /\ shared \in Shareds

\* A configuration gives at least one endpoint, numbered from 1.
LEMMA EndpointsNumbered ==
  ASSUME ConfigOK
  PROVE  \E n \in Nat \ {0} : DOMAIN endpoints = 1 .. n
<1>1. CASE written = <<>>
  BY <1>1 DEF endpoints, applyBootstrap, Listed
<1>2. CASE written # <<>>
  <2>1. DOMAIN endpoints = DOMAIN written
    BY <1>2 DEF endpoints, applyBootstrap, Listed
  <2>2. written \in Seq(EndpointSpec)
    BY BootstrapAssumption DEF ConfigOK
  <2>3. Len(written) \in Nat \ {0} /\ DOMAIN written = 1 .. Len(written)
    BY <1>2, <2>2
  <2>4. QED
    BY <2>1, <2>3
<1>3. QED
  BY <1>1, <1>2

\* Every endpoint has a host.
LEMMA EndpointHost ==
  ASSUME ConfigOK, NEW e \in DOMAIN endpoints
  PROVE  endpoints[e].host \in Hosts
<1>1. CASE written = <<>>
  BY <1>1, BootstrapAssumption
  DEF endpoints, applyBootstrap, Listed, DefaultSpec, newEndpoint, WithShared
<1>2. CASE written # <<>>
  <2>1. e \in DOMAIN written
    BY <1>2 DEF endpoints, applyBootstrap, Listed
  <2>2. written[e] \in EndpointSpec
    BY <2>1, BootstrapAssumption DEF ConfigOK
  <2>3. endpoints[e].host = written[e].host
    BY <1>2, <2>1, <2>2 DEF endpoints, applyBootstrap, Listed, newEndpoint, WithShared, EndpointSpec
  <2>4. QED
    BY <2>2, <2>3 DEF EndpointSpec
<1>3. QED
  BY <1>1, <1>2

\* The addresses of the i-th endpoint written.
LEMMA EndpointAddrs ==
  ASSUME ConfigOK, written # <<>>, NEW i \in DOMAIN written
  PROVE  /\ i \in DOMAIN endpoints
         /\ endpoints[i].host = written[i].host
         /\ endpoints[i].addrs = <<>> =>
              /\ WellKnown[written[i].host] = <<>>
              /\ written[i].own = <<>>
              /\ shared = <<>> \/ written[i].hash
<1>1. written[i] \in EndpointSpec /\ (~written[i].hash => written[i].own = <<>>)
  BY BootstrapAssumption DEF ConfigOK
<1>2. i \in DOMAIN endpoints /\ endpoints[i] = newEndpoint(WithShared(written[i], shared))
  BY DEF endpoints, applyBootstrap, Listed
<1>3. endpoints[i].host = written[i].host
  BY <1>1, <1>2 DEF newEndpoint, WithShared, EndpointSpec
<1>4. ASSUME endpoints[i].addrs = <<>>
      PROVE  /\ WellKnown[written[i].host] = <<>>
             /\ written[i].own = <<>>
             /\ shared = <<>> \/ written[i].hash
  <2>1. CASE written[i].hash \/ shared = <<>>
    BY <1>1, <1>2, <1>4, <2>1 DEF newEndpoint, WithShared
  <2>2. CASE ~written[i].hash /\ shared # <<>>
    <3>1. WithShared(written[i], shared).own = shared
      BY <1>1, <2>2 DEF WithShared, EndpointSpec
    <3>2. endpoints[i].addrs = shared
      BY <1>2, <2>2, <3>1 DEF newEndpoint
    <3>3. QED
      BY <1>4, <2>2, <3>2
  <2>3. QED
    BY <2>1, <2>2
<1>5. QED
  BY <1>2, <1>3, <1>4

\* A host none of whose endpoints has an address was given none.
LEMMA NothingGiven ==
  ASSUME ConfigOK, NEW h,
         \E e \in DOMAIN endpoints : endpoints[e].host = h,
         \A e \in DOMAIN endpoints : endpoints[e].host = h => endpoints[e].addrs = <<>>
  PROVE  /\ WellKnown[h] = <<>>
         /\ written # <<>>
         /\ \A i \in DOMAIN written : written[i].host = h =>
              /\ written[i].own = <<>>
              /\ shared = <<>> \/ written[i].hash
<1>1. written # <<>>
  <2> SUFFICES ASSUME written = <<>> PROVE FALSE
    OBVIOUS
  <2>1. DOMAIN endpoints = {1} /\ endpoints[1] = newEndpoint(WithShared(DefaultSpec, shared))
    BY DEF endpoints, applyBootstrap, Listed
  <2>2. endpoints[1].addrs = <<>>
    BY <2>1
  <2>3. CASE shared = <<>>
    BY <2>1, <2>2, <2>3, BootstrapAssumption DEF newEndpoint, WithShared, DefaultSpec
  <2>4. CASE shared # <<>>
    <3>1. WithShared(DefaultSpec, shared).own = shared
      BY <2>4 DEF WithShared, DefaultSpec
    <3>2. QED
      BY <2>1, <2>2, <2>4, <3>1 DEF newEndpoint
  <2>5. QED
    BY <2>3, <2>4
<1>2. DOMAIN endpoints = DOMAIN written
  BY <1>1 DEF endpoints, applyBootstrap, Listed
<1>3. QED
  BY <1>1, <1>2, EndpointAddrs

-----------------------------------------------------------------------------
(***************************************************************************)
(* Dials by name                                                           *)
(***************************************************************************)

DialTypes ==
  /\ ConfigOK
  /\ pc \in [Dialers -> Places]
  /\ host \in [Dialers -> Hosts \cup {NoHost}]
  /\ ep \in [Dialers -> Nat \ {0}]
  /\ declared \in [Dialers -> BOOLEAN]
  /\ failing \in [Dialers -> BOOLEAN]

\* A dial under way is for the host of an endpoint.
HostKnown(d) == pc[d] # "idle" => \E e \in DOMAIN endpoints : endpoints[e].host = host[d]

\* What a dial knows of the endpoints it has looked at.
LookedAt(d) ==
  /\ pc[d] = "collect" =>
       \A e \in DOMAIN endpoints : e < ep[d] /\ Concerns(d, e) => declared[d]
  /\ pc[d] = "byname" => \A e \in DOMAIN endpoints : ~Concerns(d, e)

DialInv ==
  /\ DialTypes
  /\ \A d \in Dialers : HostKnown(d) /\ LookedAt(d)

\* The initial state satisfies the invariant.
LEMMA InitDialInv == Init => DialInv
<1> SUFFICES ASSUME Init PROVE DialInv
  OBVIOUS
<1>1. DialTypes
  BY DEF Init, DialTypes, ConfigOK, Places
<1>2. \A d \in Dialers : pc[d] = "idle"
  BY DEF Init
<1>3. QED
  BY <1>1, <1>2 DEF DialInv, HostKnown, LookedAt

\* A step leaves the configuration alone, and changes one dial.
LEMMA OneDial ==
  ASSUME DialTypes, [Next]_vars
  PROVE  /\ DialTypes'
         /\ endpoints' = endpoints
<1> USE DEF DialTypes, ConfigOK, Places
<1>1. CASE UNCHANGED vars
  BY <1>1 DEF vars, config, endpoints
<1>2. ASSUME NEW d \in Dialers, NEW h \in Hosts, NEW nw \in Networks, DialBegins(d, h, nw)
      PROVE  DialTypes' /\ endpoints' = endpoints
  BY <1>2 DEF DialBegins, config, endpoints
<1>3. ASSUME NEW d \in Dialers, Skip(d) \/ Collect(d) \/ Decide(d)
      PROVE  DialTypes' /\ endpoints' = endpoints
  <2>1. CASE Skip(d)
    BY <2>1 DEF Skip, config, endpoints
  <2>2. CASE Collect(d)
    <3>1. /\ pc' = [pc EXCEPT ![d] = "panicked"] \/ pc' = pc
          /\ declared' = [declared EXCEPT ![d] = TRUE]
          /\ ep' = [ep EXCEPT ![d] = @ + 1]
          /\ UNCHANGED <<config, host, failing>>
      BY <2>2 DEF Collect
    <3>2. QED
      BY <3>1 DEF config, endpoints
  <2>3. CASE Decide(d)
    <3>1. Outcome(d) \in Places
      BY DEF Outcome
    <3>2. QED
      BY <2>3, <3>1 DEF Decide, config, endpoints
  <2>4. QED
    BY <1>3, <2>1, <2>2, <2>3
<1>4. ASSUME NEW d \in Dialers, Connects(d) \/ AttemptFails(d) \/ Note(d) \/ Log(d) \/ DialEnds(d)
      PROVE  DialTypes' /\ endpoints' = endpoints
  <2>1. Ended(d) \in Places
    BY DEF Ended
  <2>2. CASE Connects(d) \/ DialEnds(d)
    BY <2>2 DEF Connects, DialEnds, config, endpoints
  <2>3. CASE AttemptFails(d)
    BY <2>3 DEF AttemptFails, config, endpoints
  <2>4. CASE Note(d)
    BY <2>1, <2>4 DEF Note, config, endpoints
  <2>5. CASE Log(d)
    BY <2>1, <2>5 DEF Log, config, endpoints
  <2>6. QED
    BY <1>4, <2>2, <2>3, <2>4, <2>5
<1>5. CASE Finished
  BY <1>5 DEF Finished, vars, config, endpoints
<1>6. QED
  BY <1>1, <1>2, <1>3, <1>4, <1>5 DEF Next

\* A dial a step leaves alone keeps what it knows.
LEMMA OtherDial ==
  ASSUME NEW c \in Dialers, HostKnown(c), LookedAt(c),
         endpoints' = endpoints,
         pc'[c] = pc[c], host'[c] = host[c], ep'[c] = ep[c], declared'[c] = declared[c]
  PROVE  HostKnown(c)' /\ LookedAt(c)'
BY DEF HostKnown, LookedAt, Concerns

\* Every step keeps the invariant.
LEMMA NextDialInv == DialInv /\ [Next]_vars => DialInv'
<1> SUFFICES ASSUME DialInv, [Next]_vars PROVE DialInv'
  OBVIOUS
<1>0. DialTypes /\ DialTypes' /\ endpoints' = endpoints
  BY OneDial DEF DialInv
<1> USE DEF DialInv
<1>1. SUFFICES ASSUME NEW c \in Dialers PROVE HostKnown(c)' /\ LookedAt(c)'
  BY <1>0
<1>2. HostKnown(c) /\ LookedAt(c)
  OBVIOUS
<1>3. CASE UNCHANGED vars \/ Finished
  BY <1>0, <1>2, <1>3, OtherDial DEF vars, Finished
<1>4. ASSUME NEW d \in Dialers, NEW h \in Hosts, NEW nw \in Networks, DialBegins(d, h, nw)
      PROVE  HostKnown(c)' /\ LookedAt(c)'
  <2>1. CASE c # d
    BY <1>0, <1>2, <1>4, <2>1, OtherDial DEF DialBegins, DialTypes
  <2>2. CASE c = d
    <3>1. pc'[c] = "collect" /\ host'[c] = h /\ ep'[c] = 1
      BY <1>0, <1>4, <2>2 DEF DialBegins, DialTypes
    <3>2. \E e \in DOMAIN endpoints : endpoints[e].host = h
      BY <1>4 DEF DialBegins
    <3>3. \A e \in DOMAIN endpoints : ~(e < 1)
      BY <1>0, EndpointsNumbered DEF DialTypes
    <3>4. QED
      BY <1>0, <3>1, <3>2, <3>3 DEF HostKnown, LookedAt
  <2>3. QED
    BY <2>1, <2>2
<1>5. ASSUME NEW d \in Dialers, Skip(d)
      PROVE  HostKnown(c)' /\ LookedAt(c)'
  <2>1. CASE c # d
    BY <1>0, <1>2, <1>5, <2>1, OtherDial DEF Skip, DialTypes
  <2>2. CASE c = d
    <3>1. /\ pc[c] = "collect" /\ pc'[c] = "collect" /\ host'[c] = host[c]
          /\ ep'[c] = ep[c] + 1 /\ declared'[c] = declared[c]
          /\ ~Concerns(c, ep[c])
      BY <1>0, <1>5, <2>2 DEF Skip, DialTypes
    <3>2. \A e \in DOMAIN endpoints : e < ep[c] + 1 => e < ep[c] \/ e = ep[c]
      BY <1>0, EndpointsNumbered DEF DialTypes
    <3>3. \A e \in DOMAIN endpoints : Concerns(c, e)' <=> Concerns(c, e)
      BY <1>0, <3>1 DEF Concerns
    <3>4. QED
      BY <1>0, <1>2, <3>1, <3>2, <3>3 DEF HostKnown, LookedAt
  <2>3. QED
    BY <2>1, <2>2
<1>6. ASSUME NEW d \in Dialers, Collect(d)
      PROVE  HostKnown(c)' /\ LookedAt(c)'
  <2>1. CASE c # d
    <3>1. pc'[c] = pc[c]
      BY <1>0, <1>6, <2>1 DEF Collect, DialTypes
    <3>2. QED
      BY <1>0, <1>2, <1>6, <2>1, <3>1, OtherDial DEF Collect, DialTypes
  <2>2. CASE c = d
    <3>1. /\ pc[c] = "collect" /\ pc'[c] \in {"collect", "panicked"}
          /\ host'[c] = host[c] /\ declared'[c] = TRUE
      BY <1>0, <1>6, <2>2 DEF Collect, DialTypes
    <3>2. QED
      BY <1>0, <1>2, <3>1 DEF HostKnown, LookedAt
  <2>3. QED
    BY <2>1, <2>2
<1>7. ASSUME NEW d \in Dialers, Decide(d)
      PROVE  HostKnown(c)' /\ LookedAt(c)'
  <2>1. CASE c # d
    BY <1>0, <1>2, <1>7, <2>1, OtherDial DEF Decide, DialTypes
  <2>2. CASE c = d
    <3>1. /\ pc[c] = "collect" /\ pc'[c] = Outcome(c)
          /\ host'[c] = host[c] /\ ep[c] \notin DOMAIN endpoints
      BY <1>0, <1>7, <2>2 DEF Decide, DialTypes
    <3>2. \A e \in DOMAIN endpoints : e < ep[c]
      BY <1>0, <3>1, EndpointsNumbered DEF DialTypes
    <3>3. pc'[c] # "collect" /\ (pc'[c] = "byname" => ~declared[c])
      BY <3>1 DEF Outcome, MayResolve
    <3>4. \A e \in DOMAIN endpoints : Concerns(c, e)' <=> Concerns(c, e)
      BY <1>0, <3>1 DEF Concerns
    <3>5. QED
      BY <1>0, <1>2, <3>1, <3>2, <3>3, <3>4 DEF HostKnown, LookedAt
  <2>3. QED
    BY <2>1, <2>2
<1>8. ASSUME NEW d \in Dialers, Connects(d) \/ AttemptFails(d) \/ Note(d) \/ Log(d) \/ DialEnds(d)
      PROVE  HostKnown(c)' /\ LookedAt(c)'
  <2>1. CASE c # d
    BY <1>0, <1>2, <1>8, <2>1, OtherDial
    DEF Connects, AttemptFails, Note, Log, DialEnds, DialTypes
  <2>2. CASE c = d
    <3>1. /\ pc[c] # "idle" /\ host'[c] = host[c]
          /\ pc'[c] \notin {"collect", "byname"}
      BY <1>0, <1>8, <2>2
      DEF Connects, AttemptFails, Note, Log, DialEnds, Ended, DialTypes
    <3>2. QED
      BY <1>0, <1>2, <3>1 DEF HostKnown, LookedAt
  <2>3. QED
    BY <2>1, <2>2
<1>9. QED
  BY <1>3, <1>4, <1>5, <1>6, <1>7, <1>8 DEF Next

\* dial never resolves a host that was given an address, by an endpoint, by the
\* bare bootstrap or by the code's table: the query would come back to this
\* server.
THEOREM DeclaredNeverByName == Spec => []NeverByName
<1>1. DialInv => NeverByName
  <2> SUFFICES ASSUME DialInv, NEW d \in Dialers, pc[d] = "byname"
               PROVE  /\ WellKnown[host[d]] = <<>>
                      /\ written # <<>>
                      /\ \A i \in DOMAIN written : written[i].host = host[d] =>
                           /\ written[i].own = <<>>
                           /\ shared = <<>> \/ written[i].hash
    BY DEF NeverByName
  <2>1. ConfigOK /\ HostKnown(d) /\ LookedAt(d)
    BY DEF DialInv, DialTypes
  <2>2. \E e \in DOMAIN endpoints : endpoints[e].host = host[d]
    BY <2>1 DEF HostKnown
  <2>3. \A e \in DOMAIN endpoints : endpoints[e].host = host[d] => endpoints[e].addrs = <<>>
    BY <2>1 DEF LookedAt, Concerns
  <2>4. QED
    BY <2>1, <2>2, <2>3, NothingGiven
<1>2. QED
  BY <1>1, InitDialInv, NextDialInv, PTL DEF Spec

-----------------------------------------------------------------------------
(***************************************************************************)
(* Lines logged                                                            *)
(***************************************************************************)

LinesInv ==
  /\ DialInv
  /\ bootFailing \in [Hosts -> BOOLEAN]
  /\ logged \in [Hosts -> Int]
  /\ LinesBalance

\* The lines under way are finitely many.
LEMMA UnderWayFinite ==
  ASSUME NEW h
  PROVE  /\ IsFiniteSet({d \in Dialers : pc[d] = "log" /\ host[d] = h /\ failing[d]})
         /\ IsFiniteSet({d \in Dialers : pc[d] = "log" /\ host[d] = h /\ ~failing[d]})
         /\ Warnings(h) \in Nat /\ Recoveries(h) \in Nat
BY BootstrapAssumption, FS_Subset, FS_CardinalityType DEF Warnings, Recoveries

\* The initial state satisfies the invariant.
LEMMA InitLinesInv == Init => LinesInv
<1> SUFFICES ASSUME Init PROVE LinesInv
  OBVIOUS
<1>1. \A h : Warnings(h) = 0 /\ Recoveries(h) = 0
  <2> TAKE h
  <2>1. /\ {d \in Dialers : pc[d] = "log" /\ host[d] = h /\ failing[d]} = {}
        /\ {d \in Dialers : pc[d] = "log" /\ host[d] = h /\ ~failing[d]} = {}
    BY DEF Init
  <2>2. QED
    BY <2>1, FS_EmptySet DEF Warnings, Recoveries
<1>2. \A h \in Hosts : logged[h] = 0 /\ bootFailing[h] = FALSE
  BY DEF Init
<1>3. LinesBalance
  BY <1>1, <1>2 DEF LinesBalance
<1>4. QED
  BY <1>3, InitDialInv DEF Init, LinesInv

\* A step of a dial that is not to log, before or after, leaves the lines alone.
LEMMA LinesAlone ==
  ASSUME NEW d \in Dialers,
         pc[d] # "log", pc'[d] # "log",
         \A c \in Dialers \ {d} : pc'[c] = pc[c] /\ host'[c] = host[c] /\ failing'[c] = failing[c],
         NEW h
  PROVE  Warnings(h)' = Warnings(h) /\ Recoveries(h)' = Recoveries(h)
<1>1. {c \in Dialers : pc'[c] = "log" /\ host'[c] = h /\ failing'[c]}
        = {c \in Dialers : pc[c] = "log" /\ host[c] = h /\ failing[c]}
  OBVIOUS
<1>2. {c \in Dialers : pc'[c] = "log" /\ host'[c] = h /\ ~failing'[c]}
        = {c \in Dialers : pc[c] = "log" /\ host[c] = h /\ ~failing[c]}
  OBVIOUS
<1>3. QED
  BY <1>1, <1>2 DEF Warnings, Recoveries

\* A dial that goes to log a line adds it to those under way.
LEMMA LineBegins ==
  ASSUME NEW d \in Dialers,
         pc[d] # "log", pc' = [pc EXCEPT ![d] = "log"], pc \in [Dialers -> Places],
         host' = host, failing' = failing,
         NEW h
  PROVE  /\ Warnings(h)' = Warnings(h) + IF host[d] = h /\ failing[d] THEN 1 ELSE 0
         /\ Recoveries(h)' = Recoveries(h) + IF host[d] = h /\ ~failing[d] THEN 1 ELSE 0
<1> DEFINE W == {c \in Dialers : pc[c] = "log" /\ host[c] = h /\ failing[c]}
           R == {c \in Dialers : pc[c] = "log" /\ host[c] = h /\ ~failing[c]}
<1>1. IsFiniteSet(W) /\ IsFiniteSet(R) /\ d \notin W /\ d \notin R
  BY UnderWayFinite
<1>2. /\ Cardinality(W) \in Nat /\ Cardinality(W \cup {d}) = Cardinality(W) + 1
      /\ Cardinality(R) \in Nat /\ Cardinality(R \cup {d}) = Cardinality(R) + 1
  BY <1>1, FS_AddElement, FS_CardinalityType
<1>3. W' = IF host[d] = h /\ failing[d] THEN W \cup {d} ELSE W
  OBVIOUS
<1>4. R' = IF host[d] = h /\ ~failing[d] THEN R \cup {d} ELSE R
  OBVIOUS
<1>5. Warnings(h) = Cardinality(W) /\ Warnings(h)' = Cardinality(W')
  BY DEF Warnings
<1>6. Recoveries(h) = Cardinality(R) /\ Recoveries(h)' = Cardinality(R')
  BY DEF Recoveries
<1> HIDE DEF W, R
<1>7. QED
  BY <1>2, <1>3, <1>4, <1>5, <1>6

\* A dial that has logged its line takes it from those under way.
LEMMA LineEnds ==
  ASSUME NEW d \in Dialers,
         pc[d] = "log", pc' = [pc EXCEPT ![d] = Ended(d)], pc \in [Dialers -> Places],
         host' = host, failing' = failing,
         NEW h
  PROVE  /\ Warnings(h)' = Warnings(h) - IF host[d] = h /\ failing[d] THEN 1 ELSE 0
         /\ Recoveries(h)' = Recoveries(h) - IF host[d] = h /\ ~failing[d] THEN 1 ELSE 0
<1> DEFINE W == {c \in Dialers : pc[c] = "log" /\ host[c] = h /\ failing[c]}
           R == {c \in Dialers : pc[c] = "log" /\ host[c] = h /\ ~failing[c]}
<1>1. /\ IsFiniteSet(W) /\ (d \in W <=> host[d] = h /\ failing[d])
      /\ IsFiniteSet(R) /\ (d \in R <=> host[d] = h /\ ~failing[d])
  BY UnderWayFinite
<1>2. /\ Cardinality(W) \in Nat /\ (d \in W => Cardinality(W \ {d}) = Cardinality(W) - 1)
      /\ Cardinality(R) \in Nat /\ (d \in R => Cardinality(R \ {d}) = Cardinality(R) - 1)
  BY <1>1, FS_RemoveElement, FS_CardinalityType
<1>3. Ended(d) # "log"
  BY DEF Ended
<1>4. W' = W \ {d}
  BY <1>3
<1>5. R' = R \ {d}
  BY <1>3
<1>6. Warnings(h) = Cardinality(W) /\ Warnings(h)' = Cardinality(W \ {d})
  BY <1>4 DEF Warnings
<1>7. Recoveries(h) = Cardinality(R) /\ Recoveries(h)' = Cardinality(R \ {d})
  BY <1>5 DEF Recoveries
<1> HIDE DEF W, R
<1>8. Warnings(h)' = Warnings(h) - IF host[d] = h /\ failing[d] THEN 1 ELSE 0
  <2>1. CASE d \in W
    BY <1>1, <1>2, <1>6, <2>1
  <2>2. CASE d \notin W
    <3>1. W \ {d} = W
      BY <2>2
    <3>2. QED
      BY <1>1, <1>2, <1>6, <2>2, <3>1
  <2>3. QED
    BY <2>1, <2>2
<1>9. Recoveries(h)' = Recoveries(h) - IF host[d] = h /\ ~failing[d] THEN 1 ELSE 0
  <2>1. CASE d \in R
    BY <1>1, <1>2, <1>7, <2>1
  <2>2. CASE d \notin R
    <3>1. R \ {d} = R
      BY <2>2
    <3>2. QED
      BY <1>1, <1>2, <1>7, <2>2, <3>1
  <2>3. QED
    BY <2>1, <2>2
<1>10. QED
  BY <1>8, <1>9

\* A step that touches neither the lines nor bootFailing keeps the balance.
LEMMA BalanceAlone ==
  ASSUME LinesBalance, UNCHANGED noteVars,
         \A h \in Hosts : Warnings(h)' = Warnings(h) /\ Recoveries(h)' = Recoveries(h)
  PROVE  LinesBalance'
<1> SUFFICES ASSUME NEW h \in Hosts
             PROVE  logged'[h] + Warnings(h)' - Recoveries(h)' = IF bootFailing'[h] THEN 1 ELSE 0
  BY DEF LinesBalance
<1>1. Warnings(h)' = Warnings(h) /\ Recoveries(h)' = Recoveries(h)
  OBVIOUS
<1>2. logged[h] + Warnings(h) - Recoveries(h) = IF bootFailing[h] THEN 1 ELSE 0
  BY DEF LinesBalance
<1>3. logged' = logged /\ bootFailing' = bootFailing
  BY DEF noteVars
<1>4. QED
  BY <1>1, <1>2, <1>3

\* noteBootstrap's locked section keeps the balance.
LEMMA NoteKeepsBalance ==
  ASSUME LinesInv, NEW d \in Dialers, Note(d)
  PROVE  LinesBalance'
<1>1. pc \in [Dialers -> Places] /\ failing[d] \in BOOLEAN /\ host[d] \in Hosts
  <2>1. ConfigOK /\ HostKnown(d) /\ pc[d] = "note"
    BY DEF LinesInv, DialInv, DialTypes, Note
  <2>2. QED
    BY <2>1, EndpointHost DEF LinesInv, DialInv, DialTypes, HostKnown
<1>2. host' = host /\ failing' = failing /\ logged' = logged /\ pc[d] = "note"
  BY DEF Note
<1>3. CASE IsChange(host[d], failing[d])
  <2>1. pc' = [pc EXCEPT ![d] = "log"]
    BY <1>3 DEF Note
  <2>2. bootFailing[host[d]] = ~failing[d]
    BY <1>1, <1>3 DEF IsChange, LinesInv
  <2> SUFFICES ASSUME NEW h \in Hosts
               PROVE  logged[h] + Warnings(h)' - Recoveries(h)' = IF bootFailing'[h] THEN 1 ELSE 0
    BY <1>2 DEF LinesBalance
  <2>3. /\ Warnings(h)' = Warnings(h) + IF host[d] = h /\ failing[d] THEN 1 ELSE 0
        /\ Recoveries(h)' = Recoveries(h) + IF host[d] = h /\ ~failing[d] THEN 1 ELSE 0
    BY <1>1, <1>2, <2>1, LineBegins
  <2>4. /\ Warnings(h) \in Nat /\ Recoveries(h) \in Nat /\ logged[h] \in Int
        /\ logged[h] + Warnings(h) - Recoveries(h) = IF bootFailing[h] THEN 1 ELSE 0
    BY UnderWayFinite DEF LinesInv, LinesBalance
  <2>5. bootFailing'[h] = IF h = host[d] THEN failing[d] ELSE bootFailing[h]
    BY <1>1 DEF Note, LinesInv
  <2>6. CASE h # host[d]
    BY <2>3, <2>4, <2>5, <2>6
  <2>7. CASE h = host[d] /\ failing[d]
    <3>1. ~bootFailing[h] /\ bootFailing'[h]
      BY <2>2, <2>5, <2>7
    <3>2. QED
      BY <2>3, <2>4, <2>7, <3>1
  <2>8. CASE h = host[d] /\ ~failing[d]
    <3>1. bootFailing[h] /\ ~bootFailing'[h]
      BY <2>2, <2>5, <2>8
    <3>2. QED
      BY <2>3, <2>4, <2>8, <3>1
  <2>9. QED
    BY <2>6, <2>7, <2>8
<1>4. CASE ~IsChange(host[d], failing[d])
  <2>1. bootFailing' = bootFailing
    BY <1>1, <1>4 DEF Note, IsChange, LinesInv
  <2>2. pc'[d] # "log" /\ \A c \in Dialers \ {d} : pc'[c] = pc[c]
    BY <1>1, <1>4 DEF Note, Ended
  <2>3. \A h \in Hosts : Warnings(h)' = Warnings(h) /\ Recoveries(h)' = Recoveries(h)
    BY <1>2, <2>2, LinesAlone
  <2>4. QED
    BY <1>2, <2>1, <2>3, BalanceAlone DEF LinesInv, noteVars
<1>5. QED
  BY <1>3, <1>4

\* What a line does to the count.
LEMMA LogCounts ==
  ASSUME LinesInv, NEW d \in Dialers, Log(d), NEW h \in Hosts
  PROVE  logged'[h] = IF h # host[d] THEN logged[h]
                      ELSE IF failing[d] THEN logged[h] + 1 ELSE logged[h] - 1
<1>1. logged \in [Hosts -> Int]
  BY DEF LinesInv
<1>2. CASE failing[d]
  <2>1. logged' = [logged EXCEPT ![host[d]] = @ + 1]
    BY <1>2 DEF Log
  <2>2. QED
    BY <1>1, <1>2, <2>1
<1>3. CASE ~failing[d]
  <2>1. logged' = [logged EXCEPT ![host[d]] = @ - 1]
    BY <1>3 DEF Log
  <2>2. QED
    BY <1>1, <1>3, <2>1
<1>4. QED
  BY <1>2, <1>3

\* Writing a line keeps the balance.
LEMMA LogKeepsBalance ==
  ASSUME LinesInv, NEW d \in Dialers, Log(d)
  PROVE  LinesBalance'
<1>1. pc \in [Dialers -> Places] /\ failing[d] \in BOOLEAN
  BY DEF LinesInv, DialInv, DialTypes
<1>2. host' = host /\ failing' = failing /\ bootFailing' = bootFailing
  BY DEF Log
<1> SUFFICES ASSUME NEW h \in Hosts
             PROVE  logged'[h] + Warnings(h)' - Recoveries(h)' = IF bootFailing[h] THEN 1 ELSE 0
  BY <1>2 DEF LinesBalance
<1>3. /\ Warnings(h)' = Warnings(h) - IF host[d] = h /\ failing[d] THEN 1 ELSE 0
      /\ Recoveries(h)' = Recoveries(h) - IF host[d] = h /\ ~failing[d] THEN 1 ELSE 0
  BY <1>1, <1>2, LineEnds DEF Log
<1>4. /\ Warnings(h) \in Nat /\ Recoveries(h) \in Nat /\ logged[h] \in Int
      /\ logged[h] + Warnings(h) - Recoveries(h) = IF bootFailing[h] THEN 1 ELSE 0
  BY UnderWayFinite DEF LinesInv, LinesBalance
<1>5. logged'[h] = IF h # host[d] THEN logged[h]
                   ELSE IF failing[d] THEN logged[h] + 1 ELSE logged[h] - 1
  BY LogCounts
<1>6. QED
  BY <1>3, <1>4, <1>5

\* Every step keeps the invariant.
LEMMA NextLinesInv == LinesInv /\ [Next]_vars => LinesInv'
<1> SUFFICES ASSUME LinesInv, [Next]_vars PROVE LinesInv'
  OBVIOUS
<1>0. DialTypes /\ LinesBalance /\ DialInv'
  BY NextDialInv DEF LinesInv, DialInv
<1>1. SUFFICES /\ bootFailing' \in [Hosts -> BOOLEAN]
               /\ logged' \in [Hosts -> Int]
               /\ LinesBalance'
  BY <1>0 DEF LinesInv
<1> USE DEF LinesInv
<1>2. CASE UNCHANGED vars \/ Finished
  <2>1. UNCHANGED noteVars /\ UNCHANGED <<pc, host, failing>>
    BY <1>2 DEF Finished, vars, noteVars
  <2>2. \A h \in Hosts : Warnings(h)' = Warnings(h) /\ Recoveries(h)' = Recoveries(h)
    BY <2>1 DEF Warnings, Recoveries
  <2>3. QED
    BY <1>0, <2>1, <2>2, BalanceAlone DEF noteVars
<1>3. ASSUME NEW d \in Dialers, NEW h \in Hosts, NEW nw \in Networks, DialBegins(d, h, nw)
      PROVE  /\ bootFailing' \in [Hosts -> BOOLEAN] /\ logged' \in [Hosts -> Int] /\ LinesBalance'
  <2>1. /\ pc[d] # "log" /\ pc'[d] # "log"
        /\ \A c \in Dialers \ {d} : pc'[c] = pc[c] /\ host'[c] = host[c] /\ failing'[c] = failing[c]
    BY <1>0, <1>3 DEF DialBegins, DialTypes
  <2>2. \A g \in Hosts : Warnings(g)' = Warnings(g) /\ Recoveries(g)' = Recoveries(g)
    BY <2>1, LinesAlone
  <2>3. UNCHANGED noteVars
    BY <1>3 DEF DialBegins
  <2>4. QED
    BY <1>0, <2>2, <2>3, BalanceAlone DEF noteVars
<1>4. ASSUME NEW d \in Dialers,
             Skip(d) \/ Collect(d) \/ Decide(d) \/ Connects(d) \/ AttemptFails(d) \/ DialEnds(d)
      PROVE  /\ bootFailing' \in [Hosts -> BOOLEAN] /\ logged' \in [Hosts -> Int] /\ LinesBalance'
  <2>1. UNCHANGED noteVars
    BY <1>4 DEF Skip, Collect, Decide, Connects, AttemptFails, DialEnds
  <2>2. /\ pc[d] # "log" /\ pc'[d] # "log"
        /\ \A c \in Dialers \ {d} : pc'[c] = pc[c] /\ host'[c] = host[c] /\ failing'[c] = failing[c]
    <3>1. CASE Skip(d) \/ Collect(d)
      BY <1>0, <3>1 DEF Skip, Collect, DialTypes
    <3>2. CASE Decide(d)
      BY <1>0, <3>2 DEF Decide, Outcome, DialTypes
    <3>3. CASE Connects(d) \/ AttemptFails(d) \/ DialEnds(d)
      BY <1>0, <3>3 DEF Connects, AttemptFails, DialEnds, DialTypes
    <3>4. QED
      BY <1>4, <3>1, <3>2, <3>3
  <2>3. \A h \in Hosts : Warnings(h)' = Warnings(h) /\ Recoveries(h)' = Recoveries(h)
    BY <2>2, LinesAlone
  <2>4. QED
    BY <1>0, <2>1, <2>3, BalanceAlone DEF noteVars
<1>5. ASSUME NEW d \in Dialers, Note(d)
      PROVE  /\ bootFailing' \in [Hosts -> BOOLEAN] /\ logged' \in [Hosts -> Int] /\ LinesBalance'
  BY <1>0, <1>5, NoteKeepsBalance DEF Note, DialTypes
<1>6. ASSUME NEW d \in Dialers, Log(d)
      PROVE  /\ bootFailing' \in [Hosts -> BOOLEAN] /\ logged' \in [Hosts -> Int] /\ LinesBalance'
  <2>1. logged' \in [Hosts -> Int]
    <3>1. \A h \in Hosts : logged'[h] \in Int
      BY <1>6, LogCounts
    <3>2. QED
      BY <1>6, <3>1 DEF Log
  <2>2. QED
    BY <1>6, <2>1, LogKeepsBalance DEF Log
<1>7. QED
  BY <1>2, <1>3, <1>4, <1>5, <1>6 DEF Next

\* Each change of bootFailing is logged once and nothing else is, however many
\* dials end at the same time.
THEOREM ChangesLoggedOnce == Spec => []LinesBalance
<1>1. LinesInv => LinesBalance
  BY DEF LinesInv
<1>2. QED
  BY <1>1, InitLinesInv, NextLinesInv, PTL DEF Spec
-----------------------------------------------------------------------------
(***************************************************************************)
(* Rotations                                                               *)
(***************************************************************************)

\* Quotient and remainder.
LEMMA DivMod ==
  ASSUME NEW a \in Int, NEW n \in Nat \ {0}
  PROVE  /\ a \div n \in Int
         /\ a % n \in 0 .. n - 1
         /\ a = n * (a \div n) + (a % n)
<1>1. (a \div n) \in Int
  BY Z3
<1>2. a % n = a - n * (a \div n)
  OBVIOUS
<1>3. a % n \in 0 .. n - 1
  OBVIOUS
<1> DEFINE p == n * (a \div n)
<1>4. p \in Int
  BY <1>1
<1>5. a % n = a - p
  BY <1>2
<1> HIDE DEF p
<1>6. a = p + (a % n)
  BY <1>3, <1>4, <1>5
<1>7. QED
  BY <1>1, <1>3, <1>6 DEF p

\* They are the only ones.
LEMMA ModIs ==
  ASSUME NEW a \in Int, NEW n \in Nat \ {0}, NEW q \in Int, NEW r \in 0 .. n - 1, a = n * q + r
  PROVE  a % n = r
<1>1. a \div n = q
  BY Z3
<1>2. a % n = a - n * (a \div n)
  OBVIOUS
<1>3. QED
  BY <1>1, <1>2

\* The remainder of the next number.
LEMMA ModStep ==
  ASSUME NEW a \in Int, NEW n \in Nat \ {0}
  PROVE  (a + 1) % n = IF a % n = n - 1 THEN 0 ELSE (a % n) + 1
<1> DEFINE q == a \div n
           r == a % n
<1>1. q \in Int /\ r \in 0 .. n - 1 /\ a = n * q + r
  BY DivMod
<1> HIDE DEF q, r
<1>2. CASE r = n - 1
  <2>1. q + 1 \in Int /\ 0 \in 0 .. n - 1 /\ a + 1 \in Int
    BY <1>1
  <2>2. a + 1 = n * (q + 1) + 0
    BY <1>1, <1>2
  <2>3. (a + 1) % n = 0
    BY <2>1, <2>2, ModIs
  <2>4. QED
    BY <1>2, <2>3 DEF r
<1>3. CASE r # n - 1
  <2>1. r + 1 \in 0 .. n - 1 /\ a + 1 \in Int
    BY <1>1, <1>3
  <2>2. a + 1 = n * q + (r + 1)
    BY <1>1
  <2>3. (a + 1) % n = r + 1
    BY <1>1, <2>1, <2>2, ModIs
  <2>4. QED
    BY <1>3, <2>3 DEF r
<1>4. QED
  BY <1>2, <1>3

\* A remainder of Go takes the sign of the dividend.
LEMMA RemainderSign ==
  ASSUME NEW a \in Int, NEW n \in Nat \ {0}
  PROVE  /\ Remainder(a, n) \in Int
         /\ Remainder(a, n) < n
         /\ a >= 0 => Remainder(a, n) >= 0
BY DivMod DEF Remainder

\* The sum of two ints is an int.
LEMMA SumTyped ==
  ASSUME NEW v \in Nat, NEW i \in Nat
  PROVE  ToInt(v) \in Int /\ Sum(ToInt(v), i) \in Int
BY BootstrapAssumption DEF ToInt, Sum

\* No list of two addresses or more is indexed from a counter an int cannot hold.
LEMMA NegativeStart ==
  ASSUME NEW n \in Nat, n > 1, NEW v \in 0 .. Counters - 1, v > IntMax
  PROVE  IndexOutOfRange(v, n)
<1> DEFINE a == Counters - v
<1>1. a \in Nat /\ a >= 1 /\ a <= Counters /\ IntMax \in Nat
  BY BootstrapAssumption
<1>2. Index(v, 0, n) = -(a % n)
  <2>1. Sum(ToInt(v), 0) = -a
    BY BootstrapAssumption DEF ToInt, Sum
  <2>2. -(-a) = a /\ ~(-a >= 0)
    BY <1>1
  <2>3. QED
    BY <2>1, <2>2 DEF Index, Remainder
<1>3. CASE a % n # 0
  <2>1. a % n \in 0 .. n - 1
    BY <1>1
  <2>2. Index(v, 0, n) < 0 /\ 0 \in 0 .. n - 1
    BY <1>2, <1>3, <2>1
  <2>3. QED
    BY <2>2 DEF IndexOutOfRange
<1>4. CASE a % n = 0
  <2>1. a > 1
    <3>1. a # 1
      <4>1. 1 % n = 1
        <5>1. 1 = n * 0 + 1 /\ 1 \in 0 .. n - 1
          OBVIOUS
        <5>2. QED
          BY <5>1, ModIs
      <4>2. QED
        BY <1>4, <4>1
    <3>2. QED
      BY <1>1, <3>1
  <2> DEFINE b == a - 1
  <2>2. b % n = n - 1
    <3>1. b \in Int /\ b + 1 = a /\ n \in Nat \ {0}
      BY <1>1
    <3> HIDE DEF a, b
    <3>2. (b + 1) % n = IF b % n = n - 1 THEN 0 ELSE (b % n) + 1
      BY <3>1, ModStep
    <3>3. b % n \in 0 .. n - 1
      BY <3>1, DivMod
    <3>4. QED
      BY <1>4, <3>1, <3>2, <3>3
  <2>3. Sum(ToInt(v), 1) = -b
    BY BootstrapAssumption, <2>1 DEF ToInt, Sum
  <2>4. b \in Int /\ -(-b) = b /\ ~(-b >= 0)
    BY <1>1, <2>1
  <2>5. Index(v, 1, n) = -(n - 1)
    <3> HIDE DEF b
    <3>1. QED
      BY <2>2, <2>3, <2>4 DEF Index, Remainder
  <2>6. Index(v, 1, n) < 0 /\ 1 \in 0 .. n - 1
    BY <2>5
  <2>7. QED
    BY <2>6 DEF IndexOutOfRange
<1>5. QED
  BY <1>3, <1>4

\* Once a counter is too large for a list, it is until it wraps.
LEMMA OutOfRangeLasts ==
  ASSUME NEW n \in Nat, n > 1, NEW v \in 0 .. Counters - 1, v + 1 \in 0 .. Counters - 1,
         IndexOutOfRange(v, n)
  PROVE  IndexOutOfRange(v + 1, n)
<1>1. CASE v + 1 > IntMax
  BY <1>1, NegativeStart
<1>2. CASE v + 1 <= IntMax
  <2>1. PICK i \in 0 .. n - 1 : Index(v, i, n) < 0
    BY DEF IndexOutOfRange
  <2>2. ToInt(v) = v /\ ToInt(v + 1) = v + 1
    BY <1>2, BootstrapAssumption DEF ToInt
  <2>3. i # 0
    <3>1. SUFFICES ASSUME i = 0 PROVE FALSE
      OBVIOUS
    <3>2. Sum(ToInt(v), i) = v
      BY <1>2, <2>2, <3>1, BootstrapAssumption DEF Sum
    <3>3. v \in Int /\ v >= 0 /\ Remainder(v, n) \in Int /\ Remainder(v, n) >= 0
      BY DivMod DEF Remainder
    <3>4. QED
      BY <2>1, <3>2, <3>3 DEF Index
  <2>4. i - 1 \in 0 .. n - 1
    BY <2>3
  <2>5. Sum(v + 1, i - 1) = Sum(v, i)
    <3>1. v + 1 + (i - 1) = v + i
      OBVIOUS
    <3>2. v + 1 \in Int /\ i - 1 \in Int /\ v + i \in Int /\ IntMax \in Nat
      BY BootstrapAssumption
    <3>3. QED
      BY <3>1, <3>2 DEF Sum
  <2>6. Index(v + 1, i - 1, n) < 0
    BY <2>1, <2>2, <2>5 DEF Index
  <2>7. QED
    BY <2>4, <2>6 DEF IndexOutOfRange
<1>3. QED
  BY <1>1, <1>2, BootstrapAssumption

\* Where a rotation of two addresses or more starts.
LEMMA StartIs ==
  ASSUME NEW n \in Nat, n > 1, NEW v \in 0 .. Counters - 1, ~IndexOutOfRange(v, n)
  PROVE  Index(v, 0, n) = v % n
<1>1. v <= IntMax
  BY NegativeStart, BootstrapAssumption
<1>2. Sum(ToInt(v), 0) = v
  BY <1>1, BootstrapAssumption DEF ToInt, Sum
<1>3. QED
  BY <1>2 DEF Index, Remainder

\* An index that is not below zero is in the list.
LEMMA IndexTyped ==
  ASSUME NEW n \in Nat \ {0}, NEW v \in 0 .. Counters - 1, ~IndexOutOfRange(v, n),
         NEW i \in 0 .. n - 1
  PROVE  Index(v, i, n) + 1 \in 1 .. n
<1>1. ~(Index(v, i, n) < 0)
  BY DEF IndexOutOfRange
<1>2. Sum(ToInt(v), i) \in Int
  BY SumTyped
<1>3. Index(v, i, n) \in Int /\ Index(v, i, n) < n
  BY <1>2, RemainderSign DEF Index
<1>4. QED
  BY <1>1, <1>3

-----------------------------------------------------------------------------
(***************************************************************************)
(* addrs                                                                   *)
(***************************************************************************)

\* What the loop of addrs has appended after k turns.
UsableSoFar(nw, list, k, out) ==
  /\ out \in Seq(Addrs)
  /\ \A i \in 1 .. k : matchesNetwork(nw, list[i]) => \E j \in DOMAIN out : out[j] = list[i]

Filter == INSTANCE FoldProofs WITH Op <- AppendUsable, Holds <- UsableSoFar

\* A turn keeps every usable address met so far, and adds the one at hand.
LEMMA UsableTurn ==
  ASSUME NEW nw, NEW list \in Seq(Addrs), NEW k \in 1 .. Len(list),
         NEW out, UsableSoFar(nw, list, k - 1, out)
  PROVE  UsableSoFar(nw, list, k, AppendUsable(nw, out, list[k]))
<1>1. out \in Seq(Addrs) /\ list[k] \in Addrs
  BY DEF UsableSoFar
<1>2. \A i \in 1 .. k - 1 : matchesNetwork(nw, list[i]) => \E j \in DOMAIN out : out[j] = list[i]
  BY DEF UsableSoFar
<1>3. CASE ~matchesNetwork(nw, list[k])
  <2>1. \A i \in 1 .. k : i = k \/ i \in 1 .. k - 1
    OBVIOUS
  <2>2. QED
    BY <1>1, <1>2, <1>3, <2>1 DEF UsableSoFar, AppendUsable
<1>4. CASE matchesNetwork(nw, list[k])
  <2> DEFINE new == Append(out, list[k])
  <2>1. new \in Seq(Addrs) /\ Len(new) = Len(out) + 1
    BY <1>1
  <2>2. \A j \in 1 .. Len(out) : j \in DOMAIN new /\ new[j] = out[j]
    BY <1>1
  <2>3. Len(out) + 1 \in DOMAIN new /\ new[Len(out) + 1] = list[k]
    BY <1>1
  <2>4. DOMAIN out = 1 .. Len(out)
    BY <1>1
  <2> HIDE DEF new
  <2>5. ASSUME NEW i \in 1 .. k, matchesNetwork(nw, list[i])
        PROVE  \E j \in DOMAIN new : new[j] = list[i]
    <3>1. CASE i = k
      BY <2>3, <3>1
    <3>2. CASE i # k
      <4>1. i \in 1 .. k - 1
        BY <3>2
      <4>2. PICK j \in DOMAIN out : out[j] = list[i]
        BY <1>2, <2>5, <4>1
      <4>3. QED
        BY <2>2, <2>4, <4>2
    <3>3. QED
      BY <3>1, <3>2
  <2>6. AppendUsable(nw, out, list[k]) = new
    BY <1>4 DEF AppendUsable, new
  <2>7. QED
    BY <2>1, <2>5, <2>6 DEF UsableSoFar
<1>5. QED
  BY <1>3, <1>4

\* addrs leaves out no address its network can use.
LEMMA UsableKeepsAll ==
  ASSUME NEW nw, NEW list \in Seq(Addrs)
  PROVE  UsableSoFar(nw, list, Len(list), Usable(list, nw))
<1>1. Len(list) \in Nat /\ DOMAIN list = 1 .. Len(list)
  OBVIOUS
<1>2. UsableSoFar(nw, list, 0, <<>>)
  BY DEF UsableSoFar
<1>3. \A k \in 1 .. Len(list) : \A out :
        UsableSoFar(nw, list, k - 1, out)
          => UsableSoFar(nw, list, k, AppendUsable(nw, out, list[k]))
  BY UsableTurn
<1>4. PICK iter :
        /\ iter = CHOOSE f : f = [t \in SUBSET (1 .. Len(list)) |->
                     IF t = {} THEN <<>>
                     ELSE AppendUsable(nw, f[t \ {CHOOSE x \in t : \A y \in t : x >= y}],
                                       list[CHOOSE x \in t : \A y \in t : x >= y])]
        /\ Usable(list, nw) = iter[1 .. Len(list)]
  BY <1>1 DEF Usable, FoldLeft, MapThenFoldSet, Max
<1>5. UsableSoFar(nw, list, Len(list), iter[1 .. Len(list)])
  BY <1>1, <1>2, <1>3, <1>4, Filter!LoopInvariant
<1>6. QED
  BY <1>4, <1>5

-----------------------------------------------------------------------------
(***************************************************************************)
(* Types                                                                   *)
(***************************************************************************)

\* An endpoint's addresses are a list.
LEMMA AddrsTyped ==
  ASSUME ConfigOK, NEW e \in DOMAIN endpoints
  PROVE  endpoints[e].addrs \in Seq(Addrs)
<1> DEFINE s == Listed(written)[e]
<1>1. /\ e \in DOMAIN Listed(written)
      /\ endpoints[e] = newEndpoint(WithShared(s, shared))
  BY DEF endpoints, applyBootstrap
<1>2. s \in EndpointSpec
  <2>1. CASE written = <<>>
    <3>1. DefaultSpec \in EndpointSpec
      BY BootstrapAssumption DEF DefaultSpec, EndpointSpec
    <3>2. Listed(written) = <<DefaultSpec>>
      BY <2>1 DEF Listed
    <3>3. e = 1
      BY <1>1, <3>2
    <3>4. QED
      BY <3>1, <3>2, <3>3
  <2>2. CASE written # <<>>
    <3>1. written \in Seq(EndpointSpec) /\ Listed(written) = written
      BY <2>2, BootstrapAssumption DEF ConfigOK, Listed
    <3>2. QED
      BY <1>1, <3>1
  <2>3. QED
    BY <2>1, <2>2
<1> HIDE DEF s
<1>3. shared \in Seq(Addrs)
  BY BootstrapAssumption DEF ConfigOK
<1>4. WithShared(s, shared) \in EndpointSpec
  BY <1>2, <1>3 DEF WithShared, EndpointSpec
<1>5. newEndpoint(WithShared(s, shared)).addrs \in Seq(Addrs)
  BY <1>4, BootstrapAssumption DEF newEndpoint, EndpointSpec
<1>6. QED
  BY <1>1, <1>5

\* The endpoints are a list.
LEMMA EndpointsListed ==
  ASSUME ConfigOK
  PROVE  Len(endpoints) \in Nat \ {0} /\ DOMAIN endpoints = 1 .. Len(endpoints)
<1>1. PICK n \in Nat \ {0} : DOMAIN endpoints = 1 .. n
  BY EndpointsNumbered
<1> DEFINE S == {endpoints[e] : e \in 1 .. n}
<1>2. endpoints \in [1 .. n -> S]
  <2>1. endpoints = [e \in 1 .. n |-> endpoints[e]]
    BY <1>1 DEF endpoints
  <2>2. QED
    BY <2>1
<1>3. endpoints \in Seq(S) /\ Len(endpoints) = n
  BY <1>2
<1>4. QED
  BY <1>1, <1>3

\* An address list has its positions.
LEMMA PositionsOf ==
  ASSUME ConfigOK, NEW e \in DOMAIN endpoints
  PROVE  /\ Len(endpoints[e].addrs) \in Nat
         /\ DOMAIN endpoints[e].addrs = Positions(e)
         /\ endpoints[e].addrs # <<>> => Len(endpoints[e].addrs) \in Nat \ {0}
BY AddrsTyped DEF Positions

\* The rotation of a list is a list of the same addresses.
LEMMA RotatedTyped ==
  ASSUME NEW list \in Seq(Addrs), list # <<>>, NEW v \in 0 .. Counters - 1,
         ~IndexOutOfRange(v, Len(list))
  PROVE  Rotated(list, v) \in Seq(Addrs) /\ Len(Rotated(list, v)) = Len(list)
<1> DEFINE n == Len(list)
<1>1. n \in Nat \ {0}
  OBVIOUS
<1>2. ASSUME NEW i \in 1 .. n PROVE list[Index(v, i - 1, n) + 1] \in Addrs
  <2>1. i - 1 \in 0 .. n - 1
    OBVIOUS
  <2>2. Index(v, i - 1, n) + 1 \in 1 .. n
    BY <1>1, <2>1, IndexTyped
  <2>3. QED
    BY <2>2
<1>3. Rotated(list, v) \in [1 .. n -> Addrs]
  BY <1>2 DEF Rotated
<1>4. QED
  BY <1>1, <1>3

\* The initial state has its types.
LEMMA InitTypeOK == Init => TypeOK
<1> SUFFICES ASSUME Init PROVE TypeOK
  OBVIOUS
<1>1. ConfigOK
  BY DEF Init, ConfigOK
<1>2. next \in [DOMAIN endpoints -> 0 .. Counters - 1]
  BY BootstrapAssumption DEF Init
<1>3. ep \in [Dialers -> 1 .. Len(endpoints) + 1]
  BY <1>1, EndpointsListed DEF Init
<1>4. boot \in [Dialers -> Seq(Addrs)]
  BY DEF Init
<1>5. /\ DOMAIN started = DOMAIN endpoints
      /\ \A e \in DOMAIN endpoints : started[e] \in [Positions(e) -> Nat]
  BY DEF Init
<1>6. begun \in 0 .. MaxDials
  BY BootstrapAssumption DEF Init
<1>7. QED
  BY <1>1, <1>2, <1>3, <1>4, <1>5, <1>6 DEF Init, TypeOK, Places, ConfigOK

\* An atomic add and the turn it gives keep the types.
LEMMA CollectTypes ==
  ASSUME TypeOK, NEW d \in Dialers, Collect(d)
  PROVE  /\ next' \in [DOMAIN endpoints -> 0 .. Counters - 1]
         /\ pc' \in [Dialers -> Places]
         /\ boot' \in [Dialers -> Seq(Addrs)]
         /\ DOMAIN started' = DOMAIN endpoints
         /\ \A c \in DOMAIN endpoints : started'[c] \in [Positions(c) -> Nat]
<1> DEFINE e == ep[d]
           list == endpoints[e].addrs
           v == next[e]
           n == Len(list)
           k == Index(v, 0, n) + 1
<1>0. TypeOK
  OBVIOUS
<1>1. ConfigOK /\ e \in DOMAIN endpoints /\ list # <<>>
  BY DEF TypeOK, ConfigOK, Collect, Concerns
<1>2. list \in Seq(Addrs) /\ n \in Nat \ {0} /\ Positions(e) = 1 .. n /\ v \in 0 .. Counters - 1
  BY <1>1, AddrsTyped, PositionsOf DEF TypeOK, Positions
<1>3. next' = [next EXCEPT ![e] = Increment(v)]
  BY DEF Collect
<1>4. Increment(v) \in 0 .. Counters - 1
  BY <1>2, BootstrapAssumption DEF Increment
<1>5. next' \in [DOMAIN endpoints -> 0 .. Counters - 1]
  BY <1>3, <1>4 DEF TypeOK
<1>6. CASE IndexOutOfRange(v, n)
  <2>1. pc' = [pc EXCEPT ![d] = "panicked"] /\ boot' = boot /\ started' = started
    BY <1>6 DEF Collect
  <2>2. QED
    BY <1>5, <2>1 DEF TypeOK, Places
<1>7. CASE ~IndexOutOfRange(v, n)
  <2>1. /\ boot' = [boot EXCEPT ![d] = @ \o Usable(Rotated(list, v), network[d])]
        /\ started' = [started EXCEPT ![e][k] = @ + 1]
        /\ pc' = pc
    BY <1>7 DEF Collect
  <2>2. Rotated(list, v) \in Seq(Addrs)
    BY <1>1, <1>2, <1>7, RotatedTyped
  <2>3. Usable(Rotated(list, v), network[d]) \in Seq(Addrs)
    BY <2>2, UsableKeepsAll DEF UsableSoFar
  <2>4. boot' \in [Dialers -> Seq(Addrs)]
    <3>1. boot[d] \o Usable(Rotated(list, v), network[d]) \in Seq(Addrs)
      BY <2>3 DEF TypeOK
    <3>2. QED
      BY <2>1, <3>1 DEF TypeOK
  <2>5. 0 \in 0 .. n - 1
    BY <1>2
  <2>6. k \in 1 .. n
    BY <1>2, <1>7, <2>5, IndexTyped
  <2> HIDE DEF e, k, n, list, v
  <2>7. ASSUME NEW c \in DOMAIN endpoints PROVE started'[c] \in [Positions(c) -> Nat]
    <3>1. started[c] \in [Positions(c) -> Nat] /\ DOMAIN started = DOMAIN endpoints
      BY DEF TypeOK
    <3>2. CASE c # e
      BY <2>1, <3>1, <3>2
    <3>3. CASE c = e
      BY <1>1, <1>2, <2>1, <2>6, <3>1, <3>3
    <3>4. QED
      BY <3>2, <3>3
  <2>8. DOMAIN started' = DOMAIN endpoints
    BY <2>1 DEF TypeOK
  <2>9. QED
    BY <1>5, <2>1, <2>4, <2>7, <2>8 DEF TypeOK
<1>8. QED
  BY <1>6, <1>7

\* Every step keeps the types.
LEMMA NextTypeOK == TypeOK /\ [Next]_vars => TypeOK'
<1> SUFFICES ASSUME TypeOK, [Next]_vars PROVE TypeOK'
  OBVIOUS
<1>1. ConfigOK
  BY DEF TypeOK, ConfigOK
<1>2. Len(endpoints) \in Nat \ {0} /\ DOMAIN endpoints = 1 .. Len(endpoints)
  BY <1>1, EndpointsListed
<1>3. CASE UNCHANGED vars \/ Finished
  <2>1. UNCHANGED vars
    BY <1>3 DEF Finished
  <2>2. QED
    BY <2>1 DEF TypeOK, vars, config, endpoints, Positions
<1>4. ASSUME UNCHANGED config PROVE endpoints' = endpoints /\ \A e : Positions(e)' = Positions(e)
  BY <1>4 DEF config, endpoints, Positions
<1>5. ASSUME NEW d \in Dialers, NEW h \in Hosts, NEW nw \in Networks, DialBegins(d, h, nw)
      PROVE  TypeOK'
  <2>1. UNCHANGED config /\ UNCHANGED countVars /\ UNCHANGED noteVars
    BY <1>5 DEF DialBegins
  <2>2. nw \in {"tcp", "tcp4", "tcp6"} /\ MaxDials \in Nat
    BY BootstrapAssumption
  <2>3. begun' \in 0 .. MaxDials
    BY <1>5, <2>2 DEF DialBegins, TypeOK
  <2>4. ep' \in [Dialers -> 1 .. Len(endpoints) + 1] /\ boot' \in [Dialers -> Seq(Addrs)]
    BY <1>2, <1>5 DEF DialBegins, TypeOK
  <2>5. QED
    BY <1>4, <1>5, <2>1, <2>2, <2>3, <2>4
    DEF DialBegins, TypeOK, config, countVars, noteVars, Places
<1>6. ASSUME NEW d \in Dialers, Skip(d) PROVE TypeOK'
  <2>1. UNCHANGED config /\ UNCHANGED countVars /\ UNCHANGED noteVars
    BY <1>6 DEF Skip
  <2>2. ep' \in [Dialers -> 1 .. Len(endpoints) + 1]
    BY <1>2, <1>6 DEF Skip, TypeOK
  <2>3. QED
    BY <1>4, <1>6, <2>1, <2>2 DEF Skip, TypeOK, config, countVars, noteVars
<1>7. ASSUME NEW d \in Dialers, Collect(d) PROVE TypeOK'
  <2>1. UNCHANGED config /\ UNCHANGED noteVars
    BY <1>7 DEF Collect
  <2>2. ep' \in [Dialers -> 1 .. Len(endpoints) + 1]
    BY <1>2, <1>7 DEF Collect, TypeOK
  <2>3. declared' \in [Dialers -> BOOLEAN]
    BY <1>7 DEF Collect, TypeOK
  <2>4. UNCHANGED <<host, network, try, failing, begun>>
    BY <1>7 DEF Collect
  <2>5. /\ next' \in [DOMAIN endpoints -> 0 .. Counters - 1]
        /\ pc' \in [Dialers -> Places]
        /\ boot' \in [Dialers -> Seq(Addrs)]
        /\ DOMAIN started' = DOMAIN endpoints
        /\ \A c \in DOMAIN endpoints : started'[c] \in [Positions(c) -> Nat]
    BY <1>7, CollectTypes
  <2>6. QED
    BY <1>4, <2>1, <2>2, <2>3, <2>4, <2>5 DEF TypeOK, config, noteVars
<1>8. ASSUME NEW d \in Dialers, Decide(d) \/ Connects(d) \/ DialEnds(d) PROVE TypeOK'
  <2>1. UNCHANGED config /\ UNCHANGED countVars /\ UNCHANGED noteVars
        /\ UNCHANGED <<host, network, ep, declared, boot, try, failing, begun>>
    BY <1>8 DEF Decide, Connects, DialEnds
  <2>2. pc' \in [Dialers -> Places]
    BY <1>8 DEF Decide, Connects, DialEnds, Outcome, TypeOK, Places
  <2>3. QED
    BY <1>4, <2>1, <2>2 DEF TypeOK, config, countVars, noteVars
<1>9. ASSUME NEW d \in Dialers, AttemptFails(d) PROVE TypeOK'
  <2>1. UNCHANGED config /\ UNCHANGED countVars /\ UNCHANGED noteVars
        /\ UNCHANGED <<host, network, ep, declared, boot, begun>>
    BY <1>9 DEF AttemptFails
  <2>2. /\ pc' \in [Dialers -> Places]
        /\ try' \in [Dialers -> Nat \ {0}]
        /\ failing' \in [Dialers -> BOOLEAN]
    <3>1. CASE try[d] < Len(boot[d])
      <4>1. try' = [try EXCEPT ![d] = @ + 1] /\ pc' = pc /\ failing' = failing
        BY <1>9, <3>1 DEF AttemptFails
      <4>2. QED
        BY <4>1 DEF TypeOK
    <3>2. CASE ~(try[d] < Len(boot[d]))
      <4>1. /\ pc' = [pc EXCEPT ![d] = "note"]
            /\ failing' = [failing EXCEPT ![d] = TRUE]
            /\ try' = try
        BY <1>9, <3>2 DEF AttemptFails
      <4>2. QED
        BY <4>1 DEF TypeOK, Places
    <3>3. QED
      BY <3>1, <3>2
  <2>3. QED
    BY <1>4, <2>1, <2>2 DEF TypeOK, config, countVars, noteVars
<1>10. ASSUME NEW d \in Dialers, Note(d) \/ Log(d) PROVE TypeOK'
  <2>1. UNCHANGED config /\ UNCHANGED countVars
        /\ UNCHANGED <<host, network, ep, declared, boot, try, failing, begun>>
    BY <1>10 DEF Note, Log
  <2>2. pc' \in [Dialers -> Places]
    BY <1>10 DEF Note, Log, Ended, TypeOK, Places
  <2>3. bootFailing' \in [Hosts -> BOOLEAN]
    BY <1>10 DEF Note, Log, TypeOK
  <2>4. logged' \in [Hosts -> Int]
    <3>1. CASE Note(d)
      BY <3>1 DEF Note, TypeOK
    <3>2. CASE Log(d) /\ failing[d]
      <4>1. logged' = [logged EXCEPT ![host[d]] = @ + 1]
        BY <3>2 DEF Log
      <4>2. logged \in [Hosts -> Int]
        BY DEF TypeOK
      <4>3. \A h \in Hosts : logged'[h] = IF h = host[d] THEN logged[h] + 1 ELSE logged[h]
        BY <4>1, <4>2
      <4>4. \A h \in Hosts : logged'[h] \in Int
        BY <4>2, <4>3
      <4>5. QED
        BY <4>1, <4>2, <4>4
    <3>3. CASE Log(d) /\ ~failing[d]
      <4>1. logged' = [logged EXCEPT ![host[d]] = @ - 1]
        BY <3>3 DEF Log
      <4>2. logged \in [Hosts -> Int]
        BY DEF TypeOK
      <4>3. \A h \in Hosts : logged'[h] = IF h = host[d] THEN logged[h] - 1 ELSE logged[h]
        BY <4>1, <4>2
      <4>4. \A h \in Hosts : logged'[h] \in Int
        BY <4>2, <4>3
      <4>5. QED
        BY <4>1, <4>2, <4>4
    <3>4. QED
      BY <1>10, <3>1, <3>2, <3>3
  <2>5. QED
    BY <1>4, <2>1, <2>2, <2>3, <2>4 DEF TypeOK, config, countVars
<1>11. QED
  BY <1>3, <1>5, <1>6, <1>7, <1>8, <1>9, <1>10 DEF Next

\* Every variable has its type, whatever the configuration and the width of
\* the counter: a rotation that does not panic starts inside its list.
THEOREM TypeCorrect == Spec => []TypeOK
<1>1. QED
  BY InitTypeOK, NextTypeOK, PTL DEF Spec

\* Endpoints are numbered, and so is the one a dial looks at next.
LEMMA PlacesNumbered ==
  ASSUME TypeOK
  PROVE  ep \in [Dialers -> Nat] /\ DOMAIN endpoints \subseteq Nat
<1>1. DOMAIN endpoints \subseteq Nat
  BY EndpointsListed DEF TypeOK, ConfigOK
<1>2. ep \in [Dialers -> Nat]
  BY DEF TypeOK
<1>3. QED
  BY <1>1, <1>2

-----------------------------------------------------------------------------
(***************************************************************************)
(* A wide int                                                              *)
(***************************************************************************)

\* An int holds the counter and the position of an address added to it, as it
\* does where an int has 64 bits.
IntIsWide ==
  /\ \A h \in Hosts : Counters + Len(WellKnown[h]) <= IntMax
  /\ \A s \in Shareds : Counters + Len(s) <= IntMax
  /\ \A w \in Writtens : \A i \in DOMAIN w : Counters + Len(w[i].own) <= IntMax

\* The lists are then short enough.
LEMMA ShortLists ==
  ASSUME IntIsWide, ConfigOK, NEW e \in DOMAIN endpoints
  PROVE  Counters + Len(endpoints[e].addrs) <= IntMax
<1> DEFINE s == Listed(written)[e]
           x == WithShared(s, shared)
<1>1. e \in DOMAIN Listed(written) /\ endpoints[e] = newEndpoint(x)
  BY DEF endpoints, applyBootstrap
<1>2. s.host \in Hosts /\ (s.own = <<>> \/ Counters + Len(s.own) <= IntMax)
  <2>1. CASE written = <<>>
    <3>1. Listed(written) = <<DefaultSpec>>
      BY <2>1 DEF Listed
    <3>2. e = 1
      BY <1>1, <3>1
    <3>3. QED
      BY <3>1, <3>2, BootstrapAssumption DEF DefaultSpec
  <2>2. CASE written # <<>>
    <3>1. Listed(written) = written
      BY <2>2 DEF Listed
    <3>2. written \in Seq(EndpointSpec)
      BY BootstrapAssumption DEF ConfigOK
    <3>3. e \in DOMAIN written /\ s = written[e] /\ written[e] \in EndpointSpec
      BY <1>1, <3>1, <3>2
    <3>4. Counters + Len(written[e].own) <= IntMax
      BY <3>3 DEF IntIsWide, ConfigOK
    <3>5. QED
      BY <3>3, <3>4 DEF EndpointSpec
  <2>3. QED
    BY <2>1, <2>2
<1>3. x.host = s.host /\ (x.own = <<>> \/ Counters + Len(x.own) <= IntMax)
  <2>1. CASE s.hash \/ shared = <<>>
    BY <1>2, <2>1 DEF WithShared
  <2>2. CASE ~(s.hash \/ shared = <<>>)
    <3>1. s \in EndpointSpec
      <4>1. CASE written = <<>>
        <5>1. Listed(written) = <<DefaultSpec>>
          BY <4>1 DEF Listed
        <5>2. e = 1
          BY <1>1, <5>1
        <5>3. QED
          BY <5>1, <5>2, BootstrapAssumption DEF DefaultSpec, EndpointSpec
      <4>2. CASE written # <<>>
        BY <1>1, <4>2, BootstrapAssumption DEF Listed, ConfigOK
      <4>3. QED
        BY <4>1, <4>2
    <3>2. x = [s EXCEPT !.own = shared]
      BY <2>2 DEF WithShared
    <3> HIDE DEF s, x
    <3>3. x.host = s.host /\ x.own = shared
      BY <3>1, <3>2 DEF EndpointSpec
    <3>4. QED
      BY <3>3 DEF IntIsWide, ConfigOK
  <2>3. QED
    BY <2>1, <2>2
<1> HIDE DEF s, x
<1>4. CASE x.own = <<>>
  BY <1>1, <1>2, <1>3, <1>4 DEF newEndpoint, IntIsWide
<1>5. CASE x.own # <<>>
  BY <1>1, <1>3, <1>5 DEF newEndpoint
<1>6. QED
  BY <1>4, <1>5

\* A wide int makes an index of the sum.
LEMMA WideIndex ==
  ASSUME NEW n \in Nat \ {0}, Counters + n <= IntMax, NEW v \in 0 .. Counters - 1,
         NEW i \in 0 .. n - 1
  PROVE  Index(v, i, n) = (v + i) % n
<1>1. ToInt(v) = v /\ Sum(v, i) = v + i
  BY BootstrapAssumption DEF ToInt, Sum
<1>2. v + i \in Int /\ v + i >= 0
  BY BootstrapAssumption
<1>3. QED
  BY <1>1, <1>2 DEF Index, Remainder

\* A wide int has room for every index.
LEMMA WideInRange ==
  ASSUME NEW n \in Nat \ {0}, Counters + n <= IntMax, NEW v \in 0 .. Counters - 1
  PROVE  ~IndexOutOfRange(v, n)
<1> SUFFICES ASSUME NEW i \in 0 .. n - 1 PROVE ~(Index(v, i, n) < 0)
  BY DEF IndexOutOfRange
<1>1. v + i \in Int
  BY BootstrapAssumption
<1>2. (v + i) % n \in 0 .. n - 1
  BY <1>1, DivMod
<1>3. QED
  BY <1>2, WideIndex

\* A rotation leaves out no address.
LEMMA RotatedOnto ==
  ASSUME NEW list \in Seq(Addrs), list # <<>>, Counters + Len(list) <= IntMax,
         NEW v \in 0 .. Counters - 1, NEW i \in 1 .. Len(list)
  PROVE  \E k \in 1 .. Len(list) : Rotated(list, v)[k] = list[i]
<1> DEFINE n == Len(list)
           a == i - 1 - v
           r == a % n
           q == a \div n
           k == r + 1
<1>1. n \in Nat \ {0} /\ v \in Nat /\ a \in Int
  BY BootstrapAssumption
<1>2. q \in Int /\ r \in 0 .. n - 1 /\ a = n * q + r
  BY <1>1, DivMod
<1>3. (v + r) % n = i - 1
  <2>1. v + r \in Int /\ i - 1 \in 0 .. n - 1 /\ -q \in Int
    BY <1>1, <1>2
  <2>2. n * (-q) = -(n * q) /\ n * q \in Int
    BY <1>1, <1>2
  <2> HIDE DEF n, q, r
  <2>3. v + r = n * (-q) + (i - 1)
    BY <1>1, <1>2, <2>2
  <2>4. QED
    BY <1>1, <2>1, <2>3, ModIs
<1>4. k \in 1 .. n /\ k - 1 = r
  BY <1>2
<1> HIDE DEF r, q, a, k
<1>5. Index(v, k - 1, n) = i - 1
  BY <1>1, <1>2, <1>3, <1>4, WideIndex
<1>6. Rotated(list, v)[k] = list[i]
  BY <1>4, <1>5 DEF Rotated
<1>7. QED
  BY <1>4, <1>6

\* So the turn of an endpoint gives every address the network can use.
LEMMA TurnGivesAll ==
  ASSUME NEW list \in Seq(Addrs), list # <<>>, Counters + Len(list) <= IntMax,
         NEW v \in 0 .. Counters - 1, NEW nw, NEW i \in 1 .. Len(list), matchesNetwork(nw, list[i])
  PROVE  \E j \in DOMAIN Usable(Rotated(list, v), nw) : Usable(Rotated(list, v), nw)[j] = list[i]
<1> DEFINE rot == Rotated(list, v)
<1>1. Len(list) \in Nat \ {0}
  OBVIOUS
<1>2. rot \in Seq(Addrs) /\ Len(rot) = Len(list)
  BY <1>1, WideInRange, RotatedTyped
<1>3. PICK k \in 1 .. Len(list) : rot[k] = list[i]
  BY RotatedOnto
<1> HIDE DEF rot
<1>4. UsableSoFar(nw, rot, Len(rot), Usable(rot, nw))
  BY <1>2, UsableKeepsAll
<1>5. \E j \in DOMAIN Usable(rot, nw) : Usable(rot, nw)[j] = rot[k]
  BY <1>2, <1>3, <1>4 DEF UsableSoFar
<1>6. QED
  BY <1>3, <1>5 DEF rot

-----------------------------------------------------------------------------
(***************************************************************************)
(* Dials that fail                                                         *)
(***************************************************************************)

\* Dial d has the addresses of endpoint e that it can use.
HasAll(d, e) ==
  \A i \in Positions(e) : matchesNetwork(network[d], endpoints[e].addrs[i]) =>
    \E j \in DOMAIN boot[d] : boot[d][j] = endpoints[e].addrs[i]

\* What a dial has collected, and how far it has got with it.
Progress(d) ==
  /\ pc[d] # "panicked"
  /\ pc[d] = "collect" =>
       \A e \in DOMAIN endpoints : e < ep[d] /\ endpoints[e].host = host[d] => HasAll(d, e)
  /\ pc[d] \in {"try", "note", "log", "failed"} =>
       \A e \in DOMAIN endpoints : endpoints[e].host = host[d] => HasAll(d, e)
  /\ pc[d] \in {"collect", "try"} => failing[d] = FALSE
  /\ pc[d] = "collect" => try[d] = 1
  /\ pc[d] = "try" => try[d] <= Len(boot[d])
  /\ pc[d] \in {"note", "log"} /\ failing[d] = TRUE => try[d] = Len(boot[d])
  /\ pc[d] = "failed" => Len(boot[d]) <= try[d]

TriesInv == TypeOK /\ \A d \in Dialers : Progress(d)

\* A dial that has tried all it has fails only after every address.
LEMMA TriesInvFails == TriesInv => FailsOnlyAfterAll
<1> SUFFICES ASSUME TriesInv, NEW d \in Dialers, pc[d] \in {"failed", "panicked"},
                    NEW e \in DOMAIN endpoints, endpoints[e].host = host[d],
                    NEW i \in Positions(e), matchesNetwork(network[d], endpoints[e].addrs[i])
             PROVE  \E j \in DOMAIN boot[d] : j <= try[d] /\ boot[d][j] = endpoints[e].addrs[i]
  BY DEF FailsOnlyAfterAll
<1>1. pc[d] = "failed" /\ HasAll(d, e) /\ Len(boot[d]) <= try[d]
  BY DEF TriesInv, Progress
<1>2. PICK j \in DOMAIN boot[d] : boot[d][j] = endpoints[e].addrs[i]
  BY <1>1 DEF HasAll
<1>3. boot[d] \in Seq(Addrs) /\ try[d] \in Nat
  BY DEF TriesInv, TypeOK
<1>4. j <= try[d]
  BY <1>1, <1>2, <1>3
<1>5. QED
  BY <1>2, <1>4

\* The initial state satisfies the invariant.
LEMMA InitTriesInv == Init => TriesInv
BY InitTypeOK DEF Init, TriesInv, Progress

\* A dial a step leaves alone is as far as it was.
LEMMA ProgressAlone ==
  ASSUME NEW c \in Dialers, Progress(c), endpoints' = endpoints,
         pc'[c] = pc[c], host'[c] = host[c], network'[c] = network[c], ep'[c] = ep[c],
         boot'[c] = boot[c], try'[c] = try[c], failing'[c] = failing[c]
  PROVE  Progress(c)'
<1>1. \A e : HasAll(c, e)' <=> HasAll(c, e)
  BY DEF HasAll, Positions
<1>2. QED
  BY <1>1 DEF Progress

\* An endpoint looked at is among those looked at.
LEMMA CollectProgress ==
  ASSUME IntIsWide, TriesInv, TypeOK', NEW d \in Dialers, Collect(d), NEW e, e = ep[d]
  PROVE  Progress(d)'
<1> DEFINE list == endpoints[e].addrs
           v == next[e]
           turn == Usable(Rotated(list, v), network[d])
<1>1. /\ ConfigOK /\ e \in DOMAIN endpoints /\ list # <<>>
      /\ pc[d] = "collect" /\ endpoints[e].host = host[d]
  BY DEF TriesInv, TypeOK, ConfigOK, Collect, Concerns
<1>2. list \in Seq(Addrs) /\ v \in 0 .. Counters - 1 /\ Counters + Len(list) <= IntMax
  BY <1>1, AddrsTyped, ShortLists DEF TriesInv, TypeOK
<1>3. Len(list) \in Nat \ {0} /\ ~IndexOutOfRange(v, Len(list))
  BY <1>1, <1>2, WideInRange
<1>4. /\ boot' = [boot EXCEPT ![d] = @ \o turn]
      /\ pc' = pc
      /\ ep' = [ep EXCEPT ![d] = @ + 1]
      /\ UNCHANGED <<config, host, network, try, failing>>
  BY <1>3 DEF Collect
<1>5. endpoints' = endpoints /\ \A x : Positions(x)' = Positions(x)
  BY <1>4 DEF config, endpoints, Positions
<1>6. turn \in Seq(Addrs) /\ boot[d] \in Seq(Addrs) /\ boot'[d] = boot[d] \o turn
  <2>1. Rotated(list, v) \in Seq(Addrs)
    BY <1>1, <1>2, <1>3, RotatedTyped
  <2>2. turn \in Seq(Addrs)
    BY <2>1, UsableKeepsAll DEF UsableSoFar
  <2>3. QED
    BY <1>4, <2>2 DEF TriesInv, TypeOK
<1>7. \A i \in Positions(e) :
        matchesNetwork(network[d], list[i]) => \E j \in DOMAIN turn : turn[j] = list[i]
  <2>1. Positions(e) = 1 .. Len(list)
    BY DEF Positions
  <2> HIDE DEF list, v
  <2>2. ASSUME NEW i \in 1 .. Len(list), matchesNetwork(network[d], list[i])
        PROVE  \E j \in DOMAIN turn : turn[j] = list[i]
    <3>1. /\ list \in Seq(Addrs) /\ list # <<>>
          /\ Counters + Len(list) <= IntMax /\ v \in 0 .. Counters - 1
      BY <1>1, <1>2
    <3>2. QED
      BY <2>2, <3>1, TurnGivesAll
  <2>3. QED
    BY <2>1, <2>2
<1> HIDE DEF turn
<1>8. \A j \in DOMAIN boot[d] : j \in DOMAIN boot'[d] /\ boot'[d][j] = boot[d][j]
  BY <1>6
<1>9. ASSUME NEW j \in DOMAIN turn
      PROVE  Len(boot[d]) + j \in DOMAIN boot'[d] /\ boot'[d][Len(boot[d]) + j] = turn[j]
  <2>1. j \in 1 .. Len(turn) /\ Len(boot[d]) \in Nat /\ Len(turn) \in Nat
    BY <1>6
  <2>2. DOMAIN (boot[d] \o turn) = 1 .. Len(boot[d]) + Len(turn)
    BY <1>6
  <2>3. Len(boot[d]) + j \in 1 .. Len(boot[d]) + Len(turn)
    BY <2>1
  <2>4. (boot[d] \o turn)[Len(boot[d]) + j] = turn[j]
    BY <1>6, <2>1
  <2>5. QED
    BY <1>6, <2>2, <2>3, <2>4
<1>10. ASSUME NEW x \in DOMAIN endpoints, HasAll(d, x) PROVE HasAll(d, x)'
  BY <1>4, <1>5, <1>8, <1>10 DEF HasAll
<1>11. HasAll(d, e)'
  <2>1. HasAll(d, e)' <=> \A i \in Positions(e) : matchesNetwork(network[d], list[i]) =>
                            \E j \in DOMAIN boot'[d] : boot'[d][j] = list[i]
    BY <1>4, <1>5 DEF HasAll
  <2>2. ASSUME NEW i \in Positions(e), matchesNetwork(network[d], list[i])
        PROVE  \E j \in DOMAIN boot'[d] : boot'[d][j] = list[i]
    <3>1. PICK j \in DOMAIN turn : turn[j] = list[i]
      BY <1>7, <2>2
    <3>2. QED
      BY <1>9, <3>1
  <2>3. QED
    BY <2>1, <2>2
<1>12. \A x \in DOMAIN endpoints : x < ep'[d] => x < ep[d] \/ x = e
  BY <1>1, <1>4, EndpointsListed DEF TriesInv, TypeOK
<1>13. \A x \in DOMAIN endpoints : x < ep[d] /\ endpoints[x].host = host[d] => HasAll(d, x)
  BY <1>1 DEF TriesInv, Progress
<1>14. \A x \in DOMAIN endpoints : x < ep'[d] /\ endpoints[x].host = host[d] => HasAll(d, x)'
  BY <1>10, <1>11, <1>12, <1>13
<1>15. pc'[d] = "collect" /\ failing'[d] = FALSE /\ try'[d] = 1 /\ host'[d] = host[d]
  BY <1>1, <1>4 DEF TriesInv, Progress
<1>16. QED
  BY <1>5, <1>14, <1>15 DEF Progress

\* Every step keeps the invariant.
LEMMA NextTriesInv ==
  ASSUME IntIsWide
  PROVE  TriesInv /\ [Next]_vars => TriesInv'
<1> SUFFICES ASSUME TriesInv, [Next]_vars PROVE TriesInv'
  OBVIOUS
<1>0. TypeOK /\ TypeOK'
  BY NextTypeOK DEF TriesInv
<1>1. SUFFICES ASSUME NEW c \in Dialers PROVE Progress(c)'
  BY <1>0 DEF TriesInv
<1>2. Progress(c)
  BY DEF TriesInv
<1>3. CASE UNCHANGED vars \/ Finished
  <2>1. UNCHANGED vars
    BY <1>3 DEF Finished
  <2>2. QED
    BY <1>2, <2>1, ProgressAlone DEF vars, config, endpoints
<1>4. ASSUME UNCHANGED config PROVE endpoints' = endpoints /\ \A e : Positions(e)' = Positions(e)
  BY <1>4 DEF config, endpoints, Positions
<1>5. ASSUME NEW d \in Dialers, NEW h \in Hosts, NEW nw \in Networks, DialBegins(d, h, nw)
      PROVE  Progress(c)'
  <2>1. endpoints' = endpoints
    BY <1>4, <1>5 DEF DialBegins
  <2>2. CASE c # d
    BY <1>0, <1>2, <1>5, <2>1, <2>2, ProgressAlone DEF DialBegins, TypeOK
  <2>3. CASE c = d
    <3>1. pc'[c] = "collect" /\ ep'[c] = 1 /\ try'[c] = 1 /\ failing'[c] = FALSE
      BY <1>0, <1>5, <2>3 DEF DialBegins, TypeOK
    <3>2. \A e \in DOMAIN endpoints : ~(e < 1)
      BY <1>0, EndpointsListed DEF TypeOK, ConfigOK
    <3>3. QED
      BY <2>1, <3>1, <3>2 DEF Progress
  <2>4. QED
    BY <2>2, <2>3
<1>6. ASSUME NEW d \in Dialers, Skip(d)
      PROVE  Progress(c)'
  <2>1. endpoints' = endpoints /\ \A e : Positions(e)' = Positions(e)
    BY <1>4, <1>6 DEF Skip
  <2>2. CASE c # d
    BY <1>0, <1>2, <1>6, <2>1, <2>2, ProgressAlone DEF Skip, TypeOK
  <2>3. CASE c = d
    <3>1. /\ pc[c] = "collect" /\ ~Concerns(c, ep[c]) /\ ep[c] \in DOMAIN endpoints
          /\ ep'[c] = ep[c] + 1
          /\ UNCHANGED <<pc, host, network, boot, try, failing>>
      BY <1>0, <1>6, <2>3 DEF Skip, TypeOK
    <3>2. \A e \in DOMAIN endpoints : e < ep[c] + 1 => e < ep[c] \/ e = ep[c]
      BY <1>0, PlacesNumbered
    <3>3. \A e : HasAll(c, e)' <=> HasAll(c, e)
      BY <2>1, <3>1 DEF HasAll
    <3>4. endpoints[ep[c]].host = host[c] => HasAll(c, ep[c])
      <4>1. SUFFICES ASSUME endpoints[ep[c]].host = host[c] PROVE Positions(ep[c]) = {}
        BY DEF HasAll
      <4>2. endpoints[ep[c]].addrs = <<>>
        BY <3>1, <4>1 DEF Concerns
      <4>3. QED
        BY <4>2 DEF Positions
    <3>5. QED
      BY <1>2, <2>1, <3>1, <3>2, <3>3, <3>4 DEF Progress
  <2>4. QED
    BY <2>2, <2>3
<1>7. ASSUME NEW d \in Dialers, Collect(d)
      PROVE  Progress(c)'
  <2>1. CASE c # d
    <3>1. endpoints' = endpoints
      BY <1>4, <1>7 DEF Collect
    <3>2. pc'[c] = pc[c] /\ boot'[c] = boot[c]
      BY <1>0, <1>7, <2>1 DEF Collect, TypeOK
    <3>3. UNCHANGED <<host, network, try, failing>> /\ ep'[c] = ep[c]
      BY <1>0, <1>7, <2>1 DEF Collect, TypeOK
    <3>4. QED
      BY <1>2, <3>1, <3>2, <3>3, ProgressAlone
  <2>2. CASE c = d
    BY <1>0, <1>7, <2>2, CollectProgress
  <2>3. QED
    BY <2>1, <2>2
<1>8. ASSUME NEW d \in Dialers,
             Decide(d) \/ Connects(d) \/ AttemptFails(d) \/ Note(d) \/ Log(d) \/ DialEnds(d)
      PROVE  Progress(c)'
  <2>1. endpoints' = endpoints /\ \A e : Positions(e)' = Positions(e)
    BY <1>4, <1>8 DEF Decide, Connects, AttemptFails, Note, Log, DialEnds
  <2>2. UNCHANGED <<host, network, ep, boot>>
    BY <1>8 DEF Decide, Connects, AttemptFails, Note, Log, DialEnds
  <2>3. CASE c # d
    <3>1. pc'[c] = pc[c] /\ try'[c] = try[c] /\ failing'[c] = failing[c]
      BY <1>0, <1>8, <2>3 DEF Decide, Connects, AttemptFails, Note, Log, DialEnds, TypeOK
    <3>2. QED
      BY <1>2, <2>1, <2>2, <3>1, ProgressAlone
  <2>4. ASSUME c = d PROVE Progress(c)'
    <3>1. \A e : HasAll(c, e)' <=> HasAll(c, e)
      BY <2>1, <2>2 DEF HasAll
    <3>2. /\ boot[c] \in Seq(Addrs) /\ Len(boot[c]) \in Nat
          /\ try[c] \in Nat \ {0} /\ failing[c] \in BOOLEAN
      BY <1>0 DEF TypeOK
    <3>3. CASE Decide(d)
      <4>1. /\ pc[c] = "collect" /\ ep[c] \notin DOMAIN endpoints
            /\ pc'[c] = Outcome(c) /\ UNCHANGED <<try, failing>>
        BY <1>0, <2>4, <3>3 DEF Decide, TypeOK
      <4>2. \A e \in DOMAIN endpoints : e < ep[c]
        <5>1. ConfigOK /\ ep[c] \in 1 .. Len(endpoints) + 1
          BY <1>0 DEF TypeOK, ConfigOK
        <5>2. Len(endpoints) \in Nat \ {0} /\ DOMAIN endpoints = 1 .. Len(endpoints)
          BY <5>1, EndpointsListed
        <5>3. QED
          BY <4>1, <5>1, <5>2
      <4>3. \A e \in DOMAIN endpoints : endpoints[e].host = host[c] => HasAll(c, e)
        BY <1>2, <4>1, <4>2 DEF Progress
      <4>4. failing[c] = FALSE
        BY <1>2, <4>1 DEF Progress
      <4>5. CASE HasNone(c)
        <5>1. Len(boot[c]) = 0 /\ pc'[c] \in {"byname", "failed"}
          BY <4>1, <4>5 DEF HasNone, Outcome
        <5>2. QED
          BY <2>1, <2>2, <3>1, <3>2, <4>1, <4>3, <4>4, <5>1 DEF Progress
      <4>6. CASE ~HasNone(c)
        <5>1. Len(boot[c]) > 0 /\ pc'[c] \in {"byname", "try"}
          BY <3>2, <4>1, <4>6 DEF HasNone, Outcome
        <5>2. try[c] = 1
          BY <1>2, <4>1 DEF Progress
        <5>3. QED
          BY <2>1, <2>2, <3>1, <3>2, <4>1, <4>3, <4>4, <5>1, <5>2 DEF Progress
      <4>7. QED
        BY <4>5, <4>6
    <3>4. CASE Connects(d)
      <4>1. pc[c] = "try" /\ pc'[c] = "note" /\ UNCHANGED <<try, failing>>
        BY <1>0, <2>4, <3>4 DEF Connects, TypeOK
      <4>2. QED
        BY <1>2, <2>1, <2>2, <3>1, <4>1 DEF Progress
    <3>5. CASE AttemptFails(d)
      <4>1. pc[c] = "try" /\ try[c] <= Len(boot[c])
        BY <1>2, <2>4, <3>5 DEF AttemptFails, Progress
      <4>2. CASE try[c] < Len(boot[c])
        <5>1. pc' = pc /\ failing' = failing /\ try'[c] = try[c] + 1
          BY <1>0, <2>4, <3>5, <4>2 DEF AttemptFails, TypeOK
        <5>2. QED
          BY <1>2, <2>1, <2>2, <3>1, <3>2, <4>1, <4>2, <5>1 DEF Progress
      <4>3. CASE ~(try[c] < Len(boot[c]))
        <5>1. try' = try /\ pc'[c] = "note"
          BY <1>0, <2>4, <3>5, <4>3 DEF AttemptFails, TypeOK
        <5>2. try[c] = Len(boot[c])
          BY <3>2, <4>1, <4>3
        <5>3. QED
          BY <1>2, <2>1, <2>2, <3>1, <4>1, <5>1, <5>2 DEF Progress
      <4>4. QED
        BY <4>2, <4>3
    <3>6. CASE Note(d)
      <4>1. pc[c] = "note" /\ pc'[c] \in {"log", Ended(c)} /\ UNCHANGED <<try, failing>>
        BY <1>0, <2>4, <3>6 DEF Note, TypeOK
      <4>2. QED
        BY <1>2, <2>1, <2>2, <3>1, <3>2, <4>1 DEF Progress, Ended
    <3>7. CASE Log(d)
      <4>1. pc[c] = "log" /\ pc'[c] = Ended(c) /\ UNCHANGED <<try, failing>>
        BY <1>0, <2>4, <3>7 DEF Log, TypeOK
      <4>2. QED
        BY <1>2, <2>1, <2>2, <3>1, <3>2, <4>1 DEF Progress, Ended
    <3>8. CASE DialEnds(d)
      <4>1. pc'[c] = "idle"
        BY <1>0, <2>4, <3>8 DEF DialEnds, TypeOK
      <4>2. QED
        BY <4>1 DEF Progress
    <3>9. QED
      BY <1>8, <3>3, <3>4, <3>5, <3>6, <3>7, <3>8
  <2>5. QED
    BY <2>3, <2>4
<1>9. QED
  BY <1>3, <1>5, <1>6, <1>7, <1>8 DEF Next

\* With an int that holds the counter, no dial of any configuration fails, or
\* panics, before every address its network can use has been tried.
THEOREM FailsAfterAll ==
  ASSUME IntIsWide
  PROVE  Spec => []FailsOnlyAfterAll
<1>1. QED
  BY TriesInvFails, InitTriesInv, NextTriesInv, PTL DEF Spec

-----------------------------------------------------------------------------
(***************************************************************************)
(* How rotations spread                                                    *)
(***************************************************************************)

\* Whether a rotation of this round of the list has started at i, of r so far.
Ahead(r, i) == IF i - 1 < r THEN 1 ELSE 0

\* How much oftener than at j a rotation of n addresses may have started at i, with
\* the counter at v, that has wrapped w times.
Lead(v, n, w, i, j) ==
  IF IndexOutOfRange(v, n)
    THEN w + 1
    ELSE w + Ahead(v % n, i) - Ahead(v % n, j)

Even(s, v, n, w) == \A i, j \in 1 .. n : i # j => s[i] <= s[j] + Lead(v, n, w, i, j)

\* Dials that have still to look at endpoint e.
Coming(e) == {d \in Dialers : pc[d] = "collect" /\ ep[d] <= e}

\* The dials begun account for the turns of an endpoint, and for those to come.
Accounted(e, w) == next[e] + w * Counters + Cardinality(Coming(e)) <= begun

SpreadInv ==
  /\ TypeOK
  /\ \A e \in DOMAIN endpoints : \E w \in Nat :
       Even(started[e], next[e], Len(endpoints[e].addrs), w) /\ Accounted(e, w)

\* A quotient bounds what a product bounds.
LEMMA QuotientBounds ==
  ASSUME NEW w \in Nat, NEW c \in Nat \ {0}, NEW b \in Nat, w * c <= b
  PROVE  w <= b \div c
<1> DEFINE q == b \div c
           r == b % c
<1>1. q \in Int /\ r \in 0 .. c - 1 /\ b = c * q + r
  BY DivMod
<1> HIDE DEF q, r
<1>2. SUFFICES ASSUME q + 1 <= w PROVE FALSE
  BY <1>1 DEF q
<1>3. (q + 1) * c <= w * c
  BY <1>1, <1>2, Z3
<1>4. (q + 1) * c = c * q + c
  BY <1>1
<1> DEFINE x == c * q
           y == w * c
           z == (q + 1) * c
<1>5. x \in Int /\ y \in Int /\ z \in Int
  BY <1>1
<1> HIDE DEF x, y, z
<1>6. z <= y /\ z = x + c /\ y <= b /\ b = x + r
  BY <1>1, <1>3, <1>4 DEF x, y, z
<1>7. QED
  BY <1>1, <1>5, <1>6

\* A turn of a rotation that starts in its list.
LEMMA TurnEven ==
  ASSUME NEW n \in Nat, n > 1, NEW s \in [1 .. n -> Nat], NEW r \in 0 .. n - 1, NEW t,
         NEW w \in Nat,
         t = (IF r = n - 1 THEN 0 ELSE r + 1),
         \A i, j \in 1 .. n : i # j =>
           s[i] <= s[j] + (w + Ahead(r, i) - Ahead(r, j)),
         NEW i \in 1 .. n, NEW j \in 1 .. n, i # j,
         NEW u, u = [s EXCEPT ![r + 1] = @ + 1]
  PROVE  u[i] <= u[j] + (w + Ahead(t, i) - Ahead(t, j))
<1>1. s[i] \in Nat /\ s[j] \in Nat /\ r + 1 \in 1 .. n
  OBVIOUS
<1>2. s[i] <= s[j] + (w + Ahead(r, i) - Ahead(r, j))
  OBVIOUS
<1>3. u[i] = (IF i = r + 1 THEN s[i] + 1 ELSE s[i]) /\ u[j] = (IF j = r + 1 THEN s[j] + 1 ELSE s[j])
  BY <1>1
<1> DEFINE ri == Ahead(r, i)
           rj == Ahead(r, j)
           ti == Ahead(t, i)
           tj == Ahead(t, j)
<1>4. /\ ri \in {0, 1} /\ (ri = 1 <=> i <= r) /\ rj \in {0, 1} /\ (rj = 1 <=> j <= r)
      /\ ti \in {0, 1} /\ (ti = 1 <=> i <= t) /\ tj \in {0, 1} /\ (tj = 1 <=> j <= t)
  <2>1. \A x \in 1 .. n, y \in Nat : Ahead(y, x) \in {0, 1} /\ (Ahead(y, x) = 1 <=> x <= y)
    BY DEF Ahead
  <2>2. r \in Nat /\ t \in Nat
    OBVIOUS
  <2>3. QED
    BY <2>1, <2>2
<1> HIDE DEF ri, rj, ti, tj
<1>5. s[i] <= s[j] + (w + ri - rj)
  BY <1>2 DEF ri, rj
<1>6. u[i] <= u[j] + (w + ti - tj)
  <2>1. CASE i = r + 1
    <3>1. u[i] = s[i] + 1 /\ u[j] = s[j] /\ ri = 0
      BY <1>3, <1>4, <2>1
    <3>2. CASE r = n - 1
      BY <1>1, <1>4, <1>5, <2>1, <3>1, <3>2
    <3>3. CASE r # n - 1
      BY <1>1, <1>4, <1>5, <2>1, <3>1, <3>3
    <3>4. QED
      BY <3>2, <3>3
  <2>2. CASE j = r + 1
    <3>1. u[i] = s[i] /\ u[j] = s[j] + 1 /\ rj = 0
      BY <1>3, <1>4, <2>2
    <3>2. CASE r = n - 1
      BY <1>1, <1>4, <1>5, <2>2, <3>1, <3>2
    <3>3. CASE r # n - 1
      BY <1>1, <1>4, <1>5, <2>2, <3>1, <3>3
    <3>4. QED
      BY <3>2, <3>3
  <2>3. CASE i # r + 1 /\ j # r + 1
    <3>1. u[i] = s[i] /\ u[j] = s[j]
      BY <1>3, <2>3
    <3>2. CASE r = n - 1
      BY <1>1, <1>4, <1>5, <2>3, <3>1, <3>2
    <3>3. CASE r # n - 1
      BY <1>1, <1>4, <1>5, <2>3, <3>1, <3>3
    <3>4. QED
      BY <3>2, <3>3
  <2>4. QED
    BY <2>1, <2>2, <2>3
<1>7. QED
  BY <1>6 DEF ti, tj

\* What a lead is at most.
LEMMA LeadAtMost ==
  ASSUME NEW n \in Nat \ {0}, NEW v \in 0 .. Counters - 1, NEW w \in Nat,
         NEW i \in 1 .. n, NEW j \in 1 .. n
  PROVE  Lead(v, n, w, i, j) \in Int /\ Lead(v, n, w, i, j) <= w + 1 /\ Lead(v, n, w, i, j) >= w - 1
<1>1. \A x, y : Ahead(x, y) \in {0, 1}
  BY DEF Ahead
<1>2. QED
  BY <1>1 DEF Lead

\* The counter goes up by one, or wraps.
LEMMA IncrementIs ==
  ASSUME NEW v \in 0 .. Counters - 1
  PROVE  Increment(v) = IF v + 1 = Counters THEN 0 ELSE v + 1
<1>1. CASE v + 1 = Counters
  <2>1. v + 1 = Counters * 1 + 0 /\ 0 \in 0 .. Counters - 1 /\ Counters \in Nat \ {0}
    BY <1>1, BootstrapAssumption
  <2>2. (v + 1) % Counters = 0
    BY <2>1, ModIs
  <2>3. QED
    BY <1>1, <2>2 DEF Increment
<1>2. CASE v + 1 # Counters
  <2>1. v + 1 = Counters * 0 + (v + 1) /\ v + 1 \in 0 .. Counters - 1 /\ Counters \in Nat \ {0}
    BY <1>2, BootstrapAssumption
  <2>2. (v + 1) % Counters = v + 1
    BY <2>1, ModIs
  <2>3. QED
    BY <1>2, <2>2 DEF Increment
<1>3. QED
  BY <1>1, <1>2

\* The number of wraps after an atomic add to a counter at v.
WrapsAfter(v, w) == IF v + 1 = Counters THEN w + 1 ELSE w

\* A turn that panics leaves the rotations alone.
LEMMA PanicKeepsEven ==
  ASSUME NEW n \in Nat \ {0}, NEW s \in [1 .. n -> Nat], NEW v \in 0 .. Counters - 1, NEW w \in Nat,
         Even(s, v, n, w), IndexOutOfRange(v, n)
  PROVE  Even(s, Increment(v), n, WrapsAfter(v, w))
<1> SUFFICES ASSUME NEW i \in 1 .. n, NEW j \in 1 .. n, i # j
             PROVE  s[i] <= s[j] + Lead(Increment(v), n, WrapsAfter(v, w), i, j)
  BY DEF Even
<1>1. s[i] \in Nat /\ s[j] \in Nat /\ n > 1
  OBVIOUS
<1>2. s[i] <= s[j] + (w + 1)
  BY DEF Even, Lead
<1>3. CASE v + 1 = Counters
  <2>1. Increment(v) = 0 /\ WrapsAfter(v, w) = w + 1
    BY <1>3, IncrementIs DEF WrapsAfter
  <2>2. Lead(0, n, w + 1, i, j) = IF IndexOutOfRange(0, n) THEN w + 2 ELSE w + 1
    <3>1. 0 % n = 0
      <4>1. 0 = n * 0 + 0 /\ 0 \in 0 .. n - 1
        OBVIOUS
      <4>2. QED
        BY <4>1, ModIs
    <3>2. Ahead(0, i) = 0 /\ Ahead(0, j) = 0
      BY DEF Ahead
    <3>3. QED
      BY <3>1, <3>2 DEF Lead
  <2>3. QED
    BY <1>1, <1>2, <2>1, <2>2
<1>4. CASE v + 1 # Counters
  <2>1. Increment(v) = v + 1 /\ WrapsAfter(v, w) = w /\ v + 1 \in 0 .. Counters - 1
    BY <1>4, IncrementIs, BootstrapAssumption DEF WrapsAfter
  <2>2. IndexOutOfRange(v + 1, n)
    BY <1>1, <2>1, OutOfRangeLasts
  <2>3. QED
    BY <1>2, <2>1, <2>2 DEF Lead
<1>5. QED
  BY <1>3, <1>4

\* A turn that starts in its list keeps the rotations even.
LEMMA TurnKeepsEven ==
  ASSUME NEW n \in Nat \ {0}, NEW s \in [1 .. n -> Nat], NEW v \in 0 .. Counters - 1, NEW w \in Nat,
         Even(s, v, n, w), ~IndexOutOfRange(v, n)
  PROVE  Even([s EXCEPT ![Index(v, 0, n) + 1] = @ + 1], Increment(v), n, WrapsAfter(v, w))
<1> DEFINE u == [s EXCEPT ![Index(v, 0, n) + 1] = @ + 1]
<1> SUFFICES ASSUME NEW i \in 1 .. n, NEW j \in 1 .. n, i # j
             PROVE  u[i] <= u[j] + Lead(Increment(v), n, WrapsAfter(v, w), i, j)
  BY DEF Even
<1>1. n > 1 /\ v \in Int
  OBVIOUS
<1>2. Index(v, 0, n) = v % n
  BY <1>1, StartIs
<1> DEFINE r == v % n
           t == IF r = n - 1 THEN 0 ELSE r + 1
<1>3. r \in 0 .. n - 1
  BY <1>1, DivMod
<1>4. t = (v + 1) % n
  BY <1>1, ModStep
<1>5. u \in [1 .. n -> Nat] /\ u = [s EXCEPT ![r + 1] = @ + 1]
  <2>1. Index(v, 0, n) + 1 \in 1 .. n
    BY <1>2, <1>3
  <2>2. u = [s EXCEPT ![r + 1] = @ + 1]
    BY <1>2
  <2> HIDE DEF r
  <2>3. s[Index(v, 0, n) + 1] + 1 \in Nat
    BY <2>1
  <2>4. QED
    BY <2>1, <2>2, <2>3
<1>6. \A a, b \in 1 .. n : a # b =>
        s[a] <= s[b] + (w + Ahead(r, a) - Ahead(r, b))
  BY DEF Even, Lead
<1>7. t = IF r = n - 1 THEN 0 ELSE r + 1
  OBVIOUS
<1> HIDE DEF u, r, t
<1>8. u[i] <= u[j] + (w + Ahead(t, i) - Ahead(t, j))
  BY <1>1, <1>3, <1>5, <1>6, <1>7, TurnEven
<1>9. Ahead(t, i) \in {0, 1} /\ Ahead(t, j) \in {0, 1}
  BY DEF Ahead
<1>10. u[i] \in Nat /\ u[j] \in Nat
  BY <1>5
<1>11. u[i] <= u[j] + (w + 1)
  BY <1>9, <1>8, <1>10
<1>12. CASE v + 1 = Counters
  <2>1. Increment(v) = 0 /\ WrapsAfter(v, w) = w + 1
    BY <1>12, IncrementIs DEF WrapsAfter
  <2>2. Lead(0, n, w + 1, i, j) = IF IndexOutOfRange(0, n) THEN w + 2 ELSE w + 1
    <3>1. 0 % n = 0
      <4>1. 0 = n * 0 + 0 /\ 0 \in 0 .. n - 1
        OBVIOUS
      <4>2. QED
        BY <4>1, ModIs
    <3>2. Ahead(0, i) = 0 /\ Ahead(0, j) = 0
      BY DEF Ahead
    <3>3. QED
      BY <3>1, <3>2 DEF Lead
  <2>3. QED
    BY <1>10, <1>11, <2>1, <2>2
<1>13. CASE v + 1 # Counters
  <2>1. Increment(v) = v + 1 /\ WrapsAfter(v, w) = w
    BY <1>13, IncrementIs DEF WrapsAfter
  <2>2. CASE IndexOutOfRange(v + 1, n)
    BY <1>11, <2>1, <2>2 DEF Lead
  <2>3. CASE ~IndexOutOfRange(v + 1, n)
    BY <1>4, <1>8, <2>1, <2>3 DEF Lead
  <2>4. QED
    BY <2>2, <2>3
<1>14. QED
  BY <1>12, <1>13

\* The dials still to come are finitely many.
LEMMA ComingFinite ==
  ASSUME NEW e
  PROVE  IsFiniteSet(Coming(e)) /\ Cardinality(Coming(e)) \in Nat
BY BootstrapAssumption, FS_Subset, FS_CardinalityType DEF Coming

\* The rotations are even as far as the dials begun allow.
LEMMA SpreadInvEven == SpreadInv => SpreadsEvenly
<1> SUFFICES ASSUME SpreadInv, NEW e \in DOMAIN endpoints,
                    NEW i \in Positions(e), NEW j \in Positions(e)
             PROVE  started[e][i] <= started[e][j] + 1 + begun \div Counters
  BY DEF SpreadsEvenly
<1> DEFINE n == Len(endpoints[e].addrs)
           b == begun \div Counters
<1>1. PICK w \in Nat : Even(started[e], next[e], n, w) /\ Accounted(e, w)
  BY DEF SpreadInv
<1>2. /\ ConfigOK /\ begun \in Nat /\ Counters \in Nat \ {0}
      /\ next[e] \in 0 .. Counters - 1 /\ started[e] \in [Positions(e) -> Nat]
  BY BootstrapAssumption DEF SpreadInv, TypeOK, ConfigOK
<1>3. Positions(e) = 1 .. n /\ n \in Nat \ {0}
  BY <1>2, PositionsOf DEF Positions
<1> DEFINE p == w * Counters
<1>4. p \in Nat /\ Cardinality(Coming(e)) \in Nat
  BY <1>2, ComingFinite
<1>5. p <= begun
  <2>1. next[e] + p + Cardinality(Coming(e)) <= begun
    BY <1>1 DEF Accounted
  <2> HIDE DEF p
  <2>2. QED
    BY <1>2, <1>4, <2>1
<1>6. w <= b
  BY <1>2, <1>5, QuotientBounds
<1>7. b \in Int
  BY <1>2, DivMod
<1>8. started[e][i] \in Nat /\ started[e][j] \in Nat
  BY <1>2
<1> HIDE DEF b, p, n
<1>9. CASE i = j
  BY <1>6, <1>7, <1>8, <1>9 DEF b
<1>10. CASE i # j
  <2>1. started[e][i] <= started[e][j] + Lead(next[e], n, w, i, j)
    BY <1>1, <1>3, <1>10 DEF Even
  <2>2. Lead(next[e], n, w, i, j) \in Int /\ Lead(next[e], n, w, i, j) <= w + 1
    BY <1>2, <1>3, LeadAtMost
  <2>3. started[e][i] <= started[e][j] + 1 + b
    BY <1>6, <1>7, <1>8, <2>1, <2>2
  <2>4. QED
    BY <2>3 DEF b
<1>11. QED
  BY <1>9, <1>10

\* The initial state satisfies the invariant.
LEMMA InitSpreadInv == Init => SpreadInv
<1> SUFFICES ASSUME Init PROVE SpreadInv
  OBVIOUS
<1>1. TypeOK /\ ConfigOK
  BY InitTypeOK DEF TypeOK, ConfigOK
<1>2. SUFFICES ASSUME NEW e \in DOMAIN endpoints
               PROVE  Even(started[e], next[e], Len(endpoints[e].addrs), 0) /\ Accounted(e, 0)
  BY <1>1 DEF SpreadInv
<1>3. Coming(e) = {}
  BY DEF Init, Coming
<1>4. Accounted(e, 0)
  BY <1>3, FS_EmptySet, BootstrapAssumption DEF Init, Accounted
<1>5. Even(started[e], next[e], Len(endpoints[e].addrs), 0)
  <2> DEFINE n == Len(endpoints[e].addrs)
  <2>1. n \in Nat /\ Positions(e) = 1 .. n
    BY <1>1, PositionsOf DEF Positions
  <2>2. next[e] = 0 /\ \A i \in 1 .. n : started[e][i] = 0
    BY <2>1 DEF Init
  <2> HIDE DEF n
  <2>3. ASSUME NEW i \in 1 .. n, NEW j \in 1 .. n PROVE Lead(0, n, 0, i, j) \in {0, 1}
    <3>1. n \in Nat \ {0}
      BY <2>1
    <3>2. 0 % n = 0
      <4>1. 0 = n * 0 + 0 /\ 0 \in 0 .. n - 1
        BY <3>1
      <4>2. QED
        BY <3>1, <4>1, ModIs
    <3>3. Ahead(0, i) = 0 /\ Ahead(0, j) = 0
      BY DEF Ahead
    <3>4. QED
      BY <3>2, <3>3 DEF Lead
  <2>4. Even(started[e], next[e], n, 0)
    BY <2>2, <2>3 DEF Even
  <2>5. QED
    BY <2>4 DEF n
<1>6. QED
  BY <1>4, <1>5

\* What an account adds up are numbers.
LEMMA AccountNumbers ==
  ASSUME TypeOK, NEW e \in DOMAIN endpoints, NEW w \in Nat
  PROVE  /\ next[e] \in Nat /\ begun \in Nat
         /\ w * Counters \in Nat /\ Cardinality(Coming(e)) \in Nat
<1>1. next[e] \in 0 .. Counters - 1 /\ begun \in 0 .. MaxDials
  BY DEF TypeOK
<1>2. Counters \in Nat /\ MaxDials \in Nat
  BY BootstrapAssumption
<1>3. w * Counters \in Nat
  BY <1>2
<1>4. QED
  BY <1>1, <1>2, <1>3, ComingFinite

\* A step that neither turns an endpoint nor begins a dial, and adds none to
\* those that have still to look at it, keeps its account.
LEMMA SpreadAlone ==
  ASSUME TypeOK, NEW e \in DOMAIN endpoints, NEW w \in Nat,
         Even(started[e], next[e], Len(endpoints[e].addrs), w), Accounted(e, w),
         endpoints' = endpoints, started'[e] = started[e], next'[e] = next[e], begun' = begun,
         Coming(e)' \subseteq Coming(e)
  PROVE  Even(started[e], next[e], Len(endpoints[e].addrs), w)' /\ Accounted(e, w)'
<1>1. Even(started[e], next[e], Len(endpoints[e].addrs), w)'
  BY DEF Even, Lead
<1>2. Cardinality(Coming(e)') \in Nat /\ Cardinality(Coming(e)') <= Cardinality(Coming(e))
  BY ComingFinite, FS_Subset, FS_CardinalityType
<1>3. next[e] \in Nat /\ begun \in Nat /\ w * Counters \in Nat /\ Cardinality(Coming(e)) \in Nat
  BY AccountNumbers
<1> DEFINE p == w * Counters
<1>4. next[e] + p + Cardinality(Coming(e)) <= begun
  BY DEF Accounted
<1> HIDE DEF p
<1>5. next'[e] + p + Cardinality(Coming(e)') <= begun'
  BY <1>2, <1>3, <1>4 DEF p
<1>6. Accounted(e, w)'
  BY <1>5 DEF Accounted, p
<1>7. QED
  BY <1>1, <1>6

\* A dial that begins has every endpoint to look at.
LEMMA DialBeginsSpread ==
  ASSUME TypeOK, NEW d \in Dialers, NEW h \in Hosts, NEW nw \in Networks, DialBegins(d, h, nw),
         NEW e \in DOMAIN endpoints, NEW w \in Nat,
         Even(started[e], next[e], Len(endpoints[e].addrs), w), Accounted(e, w)
  PROVE  Even(started[e], next[e], Len(endpoints[e].addrs), w)' /\ Accounted(e, w)'
<1>1. /\ endpoints' = endpoints /\ started' = started /\ next' = next /\ begun' = begun + 1
      /\ pc[d] = "idle" /\ pc' = [pc EXCEPT ![d] = "collect"] /\ ep' = [ep EXCEPT ![d] = 1]
  BY DEF DialBegins, config, countVars, endpoints
<1>2. Even(started[e], next[e], Len(endpoints[e].addrs), w)'
  BY <1>1 DEF Even, Lead
<1>3. 1 <= e
  BY EndpointsListed DEF TypeOK, ConfigOK
<1>4. d \notin Coming(e) /\ Coming(e)' = Coming(e) \cup {d}
  BY <1>1, <1>3 DEF Coming, TypeOK
<1>5. Cardinality(Coming(e)') = Cardinality(Coming(e)) + 1
  BY <1>4, ComingFinite, FS_AddElement
<1>6. next[e] \in Nat /\ begun \in Nat /\ w * Counters \in Nat /\ Cardinality(Coming(e)) \in Nat
  BY AccountNumbers
<1> DEFINE p == w * Counters
<1>7. next[e] + p + Cardinality(Coming(e)) <= begun
  BY DEF Accounted
<1> HIDE DEF p
<1>8. next'[e] + p + Cardinality(Coming(e)') <= begun'
  BY <1>1, <1>5, <1>6, <1>7 DEF p
<1>9. Accounted(e, w)'
  BY <1>8 DEF Accounted, p
<1>10. QED
  BY <1>2, <1>9

\* An atomic add takes a dial from those to come, and is accounted for by it.
LEMMA CollectSpread ==
  ASSUME TypeOK, TypeOK', NEW d \in Dialers, NEW e \in DOMAIN endpoints, e = ep[d], Collect(d),
         NEW w \in Nat,
         Even(started[e], next[e], Len(endpoints[e].addrs), w), Accounted(e, w)
  PROVE  \E x \in Nat : Even(started[e], next[e], Len(endpoints[e].addrs), x)' /\ Accounted(e, x)'
<1> DEFINE list == endpoints[e].addrs
           v == next[e]
           n == Len(list)
<1>1. ConfigOK /\ list # <<>> /\ pc[d] = "collect" /\ endpoints' = endpoints
  BY DEF TypeOK, ConfigOK, Collect, Concerns, config, endpoints
<1>2. /\ list \in Seq(Addrs) /\ n \in Nat \ {0} /\ v \in 0 .. Counters - 1
      /\ started[e] \in [1 .. n -> Nat] /\ DOMAIN started = DOMAIN endpoints
  BY <1>1, AddrsTyped DEF TypeOK, Positions
<1>3. next'[e] = Increment(v) /\ begun' = begun /\ ep' = [ep EXCEPT ![d] = @ + 1]
  BY DEF Collect, TypeOK
<1>4. PICK x \in Nat : x = WrapsAfter(v, w)
  BY DEF WrapsAfter
<1>5. Even(started'[e], Increment(v), n, x)
  <2>1. CASE IndexOutOfRange(v, n)
    <3>1. started' = started
      BY <2>1 DEF Collect
    <3>2. QED
      BY <1>2, <1>4, <2>1, <3>1, PanicKeepsEven
  <2>2. CASE ~IndexOutOfRange(v, n)
    <3>1. started' = [started EXCEPT ![e][Index(v, 0, n) + 1] = @ + 1]
      BY <2>2 DEF Collect
    <3> HIDE DEF v, n
    <3>2. started'[e] = [started[e] EXCEPT ![Index(v, 0, n) + 1] = @ + 1]
      BY <1>2, <3>1
    <3>3. Even([started[e] EXCEPT ![Index(v, 0, n) + 1] = @ + 1], Increment(v), n, WrapsAfter(v, w))
      BY <1>2, <2>2, TurnKeepsEven DEF v, n
    <3>4. QED
      BY <1>4, <3>2, <3>3
  <2>3. QED
    BY <2>1, <2>2
<1>6. Cardinality(Coming(e)') + 1 <= Cardinality(Coming(e)) /\ Cardinality(Coming(e)') \in Nat
  <2>1. ep'[d] = e + 1 /\ ep[d] = e /\ e \in Nat
    BY <1>1, <1>3, EndpointsListed DEF TypeOK
  <2>2. d \in Coming(e)
    BY <1>1, <2>1 DEF Coming
  <2>3. Coming(e)' \subseteq Coming(e) \ {d}
    <3>1. SUFFICES ASSUME NEW c \in Dialers, pc'[c] = "collect", ep'[c] <= e
                   PROVE  c # d /\ c \in Coming(e)
      BY DEF Coming
    <3>2. c # d
      BY <2>1, <3>1
    <3>3. ep'[c] = ep[c] /\ pc'[c] = pc[c]
      BY <3>2 DEF Collect, TypeOK
    <3>4. QED
      BY <3>1, <3>2, <3>3 DEF Coming
  <2>4. IsFiniteSet(Coming(e) \ {d}) /\ Cardinality(Coming(e) \ {d}) = Cardinality(Coming(e)) - 1
    BY <2>2, ComingFinite, FS_RemoveElement
  <2>5. Cardinality(Coming(e)') <= Cardinality(Coming(e) \ {d}) /\ IsFiniteSet(Coming(e)')
    BY <2>3, <2>4, FS_Subset
  <2>6. QED
    BY <2>4, <2>5, ComingFinite, FS_CardinalityType
<1>7. Accounted(e, x)'
  <2> DEFINE p == w * Counters
             q == x * Counters
             k == Cardinality(Coming(e))
             l == Cardinality(Coming(e)')
             m == next'[e]
  <2>1. p \in Nat /\ q \in Nat /\ k \in Nat /\ l \in Nat /\ begun \in Nat /\ l + 1 <= k
    <3>1. w * Counters \in Nat /\ x * Counters \in Nat
      BY <1>4, BootstrapAssumption
    <3>2. k \in Nat
      BY ComingFinite
    <3>3. begun \in Nat
      BY DEF TypeOK
    <3>4. QED
      BY <1>6, <3>1, <3>2, <3>3
  <2>2. v + p + k <= begun
    BY DEF Accounted
  <2>3. m + q = v + 1 + p
    <3>1. CASE v + 1 = Counters
      <4>1. m = 0 /\ x = w + 1
        BY <1>2, <1>3, <3>1, <1>4, IncrementIs DEF WrapsAfter
      <4>2. q = p + Counters
        <5>1. (w + 1) * Counters = w * Counters + Counters
          BY BootstrapAssumption
        <5>2. QED
          BY <4>1, <5>1
      <4> HIDE DEF p, q, m
      <4>3. QED
        BY <1>2, <2>1, <3>1, <4>1, <4>2, BootstrapAssumption
    <3>2. CASE v + 1 # Counters
      <4>1. m = v + 1 /\ x = w
        BY <1>2, <1>3, <3>2, <1>4, IncrementIs DEF WrapsAfter
      <4>2. q = p
        BY <4>1
      <4> HIDE DEF p, q, m
      <4>3. QED
        BY <1>2, <2>1, <4>1, <4>2
    <3>3. QED
      BY <3>1, <3>2
  <2>4. m \in Nat
    BY <1>2, <1>3, IncrementIs, BootstrapAssumption
  <2>5. m + q + l <= begun
    <3>1. v \in Nat
      BY <1>2
    <3> HIDE DEF v, p, q, k, l, m
    <3>2. QED
      BY <2>1, <2>2, <2>3, <2>4, <3>1
  <2> HIDE DEF p, q, k, l, m
  <2>6. next'[e] + x * Counters + Cardinality(Coming(e)') <= begun'
    BY <1>3, <2>5 DEF m, q, l
  <2>7. QED
    BY <2>6 DEF Accounted
<1>8. Even(started[e], next[e], Len(endpoints[e].addrs), x)'
  BY <1>1, <1>3, <1>5 DEF Even, Lead
<1>9. QED
  BY <1>4, <1>7, <1>8

\* Every step keeps the invariant.
LEMMA NextSpreadInv == SpreadInv /\ [Next]_vars => SpreadInv'
<1> SUFFICES ASSUME SpreadInv, [Next]_vars PROVE SpreadInv'
  OBVIOUS
<1>0. TypeOK /\ TypeOK' /\ ConfigOK
  BY NextTypeOK DEF SpreadInv, TypeOK, ConfigOK
<1>1. endpoints' = endpoints
  <2>1. UNCHANGED config
    BY DEF Next, Finished, DialBegins, Skip, Collect, Decide, Connects, AttemptFails, Note, Log, DialEnds,
           vars, config
  <2>2. QED
    BY <2>1 DEF config, endpoints
<1>2. SUFFICES ASSUME NEW e \in DOMAIN endpoints
               PROVE  \E w \in Nat : Even(started[e], next[e], Len(endpoints[e].addrs), w)' /\ Accounted(e, w)'
  BY <1>0, <1>1 DEF SpreadInv
<1>3. PICK w \in Nat : Even(started[e], next[e], Len(endpoints[e].addrs), w) /\ Accounted(e, w)
  BY DEF SpreadInv
<1>4. ASSUME NEW d \in Dialers, NEW h \in Hosts, NEW nw \in Networks, DialBegins(d, h, nw)
      PROVE  \E x \in Nat : Even(started[e], next[e], Len(endpoints[e].addrs), x)' /\ Accounted(e, x)'
  BY <1>0, <1>3, <1>4, DialBeginsSpread
<1>5. ASSUME NEW d \in Dialers, Collect(d), ep[d] = e
      PROVE  \E x \in Nat : Even(started[e], next[e], Len(endpoints[e].addrs), x)' /\ Accounted(e, x)'
  BY <1>0, <1>3, <1>5, CollectSpread
<1>6. ASSUME started'[e] = started[e], next'[e] = next[e], begun' = begun,
             \A c \in Dialers : pc'[c] = "collect" /\ ep'[c] <= e => pc[c] = "collect" /\ ep[c] <= e
      PROVE  \E x \in Nat : Even(started[e], next[e], Len(endpoints[e].addrs), x)' /\ Accounted(e, x)'
  <2>1. Coming(e)' \subseteq Coming(e)
    BY <1>6 DEF Coming
  <2>2. QED
    BY <1>0, <1>1, <1>3, <1>6, <2>1, SpreadAlone
<1>7. CASE UNCHANGED vars \/ Finished
  <2>1. UNCHANGED vars
    BY <1>7 DEF Finished
  <2>2. QED
    BY <1>6, <2>1 DEF vars
<1>8. ASSUME NEW d \in Dialers, Skip(d)
      PROVE  \E x \in Nat : Even(started[e], next[e], Len(endpoints[e].addrs), x)' /\ Accounted(e, x)'
  <2>1. UNCHANGED countVars /\ begun' = begun /\ pc' = pc /\ ep' = [ep EXCEPT ![d] = @ + 1]
    BY <1>8 DEF Skip
  <2>2. ep \in [Dialers -> Nat] /\ e \in Nat
    BY <1>0, PlacesNumbered
  <2>3. \A c \in Dialers : ep'[c] <= e => ep[c] <= e
    BY <2>1, <2>2
  <2>4. QED
    BY <1>6, <2>1, <2>3 DEF countVars
<1>9. ASSUME NEW d \in Dialers, Collect(d), ep[d] # e
      PROVE  \E x \in Nat : Even(started[e], next[e], Len(endpoints[e].addrs), x)' /\ Accounted(e, x)'
  <2>1. begun' = begun /\ ep' = [ep EXCEPT ![d] = @ + 1]
    BY <1>9 DEF Collect
  <2>2. next'[e] = next[e] /\ started'[e] = started[e]
    BY <1>0, <1>9 DEF Collect, TypeOK
  <2>3. ep \in [Dialers -> Nat] /\ e \in Nat
    BY <1>0, PlacesNumbered
  <2>4. \A c \in Dialers : ep'[c] <= e => ep[c] <= e
    BY <2>1, <2>3
  <2>5. \A c \in Dialers : pc'[c] = "collect" => pc[c] = "collect"
    BY <1>0, <1>9 DEF Collect, TypeOK
  <2>6. QED
    BY <1>6, <2>1, <2>2, <2>4, <2>5
<1>10. ASSUME NEW d \in Dialers,
              Decide(d) \/ Connects(d) \/ AttemptFails(d) \/ Note(d) \/ Log(d) \/ DialEnds(d)
      PROVE  \E x \in Nat : Even(started[e], next[e], Len(endpoints[e].addrs), x)' /\ Accounted(e, x)'
  <2>1. UNCHANGED countVars /\ begun' = begun /\ ep' = ep
    BY <1>10 DEF Decide, Connects, AttemptFails, Note, Log, DialEnds
  <2>2. \A c \in Dialers : pc'[c] = "collect" => pc[c] = "collect"
    BY <1>0, <1>10
    DEF Decide, Connects, AttemptFails, Note, Log, DialEnds, Outcome, Ended, TypeOK
  <2>3. QED
    BY <1>6, <2>1, <2>2 DEF countVars
<1>11. QED
  BY <1>4, <1>5, <1>7, <1>8, <1>9, <1>10 DEF Next

\* However dials interleave and whatever the widths of the counter and of an
\* int, no address of a list is started at more than once oftener than another,
\* but for one more each time the counter wraps.
THEOREM StartsSpread == Spec => []SpreadsEvenly
<1>1. QED
  BY SpreadInvEven, InitSpreadInv, NextSpreadInv, PTL DEF Spec
=============================================================================
