------------------------------ MODULE Bootstrap ------------------------------
(***************************************************************************)
(* How src/doh.go reaches an endpoint without asking a resolver, which may *)
(* be this very server: the addresses an endpoint ends up with, from the   *)
(* Corefile and from the code's own table, and the dials, which run        *)
(* concurrently and rotate over them.                                      *)
(*                                                                         *)
(* One step per atomic add, per attempt, per locked section. An attempt    *)
(* may fail for any reason. A URL is its host; two endpoints may share     *)
(* one. A dial has only the host to go by. Ports, paths and TLS are left   *)
(* out, and so is the counter of failed attempts.                          *)
(***************************************************************************)
EXTENDS Integers, Sequences, FiniteSets, SequencesExt

CONSTANTS
  Addrs,        \* literal addresses
  V4,           \* those of IPv4
  Hosts,
  DefaultHost,  \* dns.nextdns.io
  WellKnown,    \* wellKnownBootstrap: addresses by host, perhaps none
  Writtens,     \* endpoints a Corefile may list
  Shareds,      \* addresses its bare bootstrap options may list
  Networks,     \* what a dial may be asked for
  Dialers,      \* goroutines that dial
  NoHost,
  Counters,     \* number of values of a uint32
  IntMax,       \* largest int
  MaxDials      \* bound of this model: dials in all

\* An endpoint as written: its host, whether there is a "#", the addresses
\* after it.
EndpointSpec == [host : Hosts, hash : BOOLEAN, own : Seq(Addrs)]

ASSUME BootstrapAssumption ==
  /\ V4 \subseteq Addrs
  /\ DefaultHost \in Hosts
  /\ NoHost \notin Hosts
  /\ WellKnown \in [Hosts -> Seq(Addrs)]
  /\ WellKnown[DefaultHost] # <<>>
  /\ Writtens \subseteq Seq(EndpointSpec)
  /\ \A w \in Writtens : \A i \in DOMAIN w : ~w[i].hash => w[i].own = <<>>
  /\ Shareds \subseteq Seq(Addrs)
  /\ Networks \subseteq {"tcp", "tcp4", "tcp6"}
  /\ IsFiniteSet(Dialers)
  /\ Counters \in Nat \ {0}
  /\ IntMax \in Nat
  /\ Counters <= 2 * (IntMax + 1)  \* an int has at least 32 bits
  /\ MaxDials \in Nat

VARIABLES
  written, shared,  \* the configuration
  next,             \* endpoint.next, by position
  bootFailing,      \* by host
  \* of each dial
  pc, host, network,
  ep,        \* endpoint to look at next
  declared,
  boot,      \* addresses to try
  try,       \* position in boot
  failing,   \* what it tells noteBootstrap
  \* history
  begun,     \* dials so far
  started,   \* times a rotation of an endpoint started at a position
  logged     \* warnings less recoveries logged, by host

config == <<written, shared>>
noteVars == <<bootFailing, logged>>
countVars == <<next, started>>
vars == <<config, next, bootFailing, pc, host, network, ep, declared, boot, try, failing,
          begun, started, logged>>

-----------------------------------------------------------------------------
(***************************************************************************)
(* The endpoints a configuration gives                                     *)
(***************************************************************************)

\* A "#" with nothing after it keeps the shared addresses out.
WithShared(e, s) == IF e.hash \/ s = <<>> THEN e ELSE [e EXCEPT !.own = s]

DefaultSpec == [host |-> DefaultHost, hash |-> FALSE, own |-> <<>>]

\* With no endpoint listed there is one, whose addresses are those of the table.
Listed(w) == IF w = <<>> THEN <<DefaultSpec>> ELSE w

applyBootstrap(w, s) == [i \in DOMAIN Listed(w) |-> WithShared(Listed(w)[i], s)]

newEndpoint(e) ==
  [host |-> e.host, addrs |-> IF e.own = <<>> THEN WellKnown[e.host] ELSE e.own]

endpoints ==
  LET specs == applyBootstrap(written, shared)
  IN  [i \in DOMAIN specs |-> newEndpoint(specs[i])]

Places == {"idle", "collect", "try", "note", "log", "byname", "failed", "connected", "panicked"}

Positions(e) == 1 .. Len(endpoints[e].addrs)

Init ==
  /\ written \in Writtens
  /\ shared \in Shareds
  /\ next = [e \in DOMAIN endpoints |-> 0]
  /\ bootFailing = [h \in Hosts |-> FALSE]
  /\ pc = [d \in Dialers |-> "idle"]
  /\ host = [d \in Dialers |-> NoHost]
  /\ network = [d \in Dialers |-> "tcp"]
  /\ ep = [d \in Dialers |-> 1]
  /\ declared = [d \in Dialers |-> FALSE]
  /\ boot = [d \in Dialers |-> <<>>]
  /\ try = [d \in Dialers |-> 1]
  /\ failing = [d \in Dialers |-> FALSE]
  /\ begun = 0
  /\ started = [e \in DOMAIN endpoints |-> [i \in Positions(e) |-> 0]]
  /\ logged = [h \in Hosts |-> 0]

-----------------------------------------------------------------------------
(***************************************************************************)
(* addrs                                                                   *)
(***************************************************************************)

ToNarrowInt(v) == IF v <= Counters \div 2 - 1 THEN v ELSE v - Counters

\* Go's int: a conversion and a sum keep the low bits, % truncates.
ToInt(v) == IF v <= IntMax THEN v ELSE v - Counters

Sum(a, b) == IF a + b <= IntMax THEN a + b ELSE a + b - 2 * (IntMax + 1)

Remainder(a, n) == IF a >= 0 THEN a % n ELSE -((-a) % n)

\* Index, from 0, of the i-th address of a rotation of n that starts at count v.
Index(v, i, n) == Remainder(Sum(ToInt(v), i), n)

IndexOutOfRange(v, n) == \E i \in 0 .. n - 1 : Index(v, i, n) < 0

Rotated(list, v) == [i \in 1 .. Len(list) |-> list[Index(v, i - 1, Len(list)) + 1]]

matchesNetwork(nw, ip) ==
  /\ nw = "tcp4" => ip \in V4
  /\ nw = "tcp6" => ip \notin V4

AppendUsable(nw, out, ip) == IF matchesNetwork(nw, ip) THEN Append(out, ip) ELSE out

Usable(list, nw) == FoldLeft(LAMBDA out, ip : AppendUsable(nw, out, ip), <<>>, list)

NeverWraps(v) == v + 1

Stuck(v) == v

\* atomic.AddUint32
Increment(v) == (v + 1) % Counters

-----------------------------------------------------------------------------
(***************************************************************************)
(* dial                                                                    *)
(***************************************************************************)

\* The transport always gives host:port, so SplitHostPort does not fail; if it did,
\* the address would be dialled as it is, and nothing here would change.
DialBegins(d, h, nw) ==
  /\ pc[d] = "idle" /\ begun < MaxDials
  /\ h \in {endpoints[e].host : e \in DOMAIN endpoints}
  /\ pc' = [pc EXCEPT ![d] = "collect"]
  /\ host' = [host EXCEPT ![d] = h]
  /\ network' = [network EXCEPT ![d] = nw]
  /\ ep' = [ep EXCEPT ![d] = 1]
  /\ declared' = [declared EXCEPT ![d] = FALSE]
  /\ boot' = [boot EXCEPT ![d] = <<>>]
  /\ try' = [try EXCEPT ![d] = 1]
  /\ failing' = [failing EXCEPT ![d] = FALSE]
  /\ begun' = begun + 1
  /\ UNCHANGED <<config, countVars, noteVars>>

Concerns(d, e) == endpoints[e].host = host[d] /\ endpoints[e].addrs # <<>>

\* An endpoint of another host, or without addresses.
Skip(d) ==
  /\ pc[d] = "collect" /\ ep[d] \in DOMAIN endpoints
  /\ ~Concerns(d, ep[d])
  /\ ep' = [ep EXCEPT ![d] = @ + 1]
  /\ UNCHANGED <<config, countVars, noteVars, pc, host, network, declared, boot, try, failing, begun>>

\* One atomic add per endpoint; an index below zero would panic.
Collect(d) ==
  /\ pc[d] = "collect" /\ ep[d] \in DOMAIN endpoints
  /\ Concerns(d, ep[d])
  /\ LET e == ep[d]
         list == endpoints[e].addrs
         v == next[e]
     IN  /\ next' = [next EXCEPT ![e] = Increment(v)]
         /\ IF IndexOutOfRange(v, Len(list))
              THEN pc' = [pc EXCEPT ![d] = "panicked"] /\ UNCHANGED <<boot, started>>
              ELSE /\ boot' = [boot EXCEPT ![d] = @ \o Usable(Rotated(list, v), network[d])]
                   /\ started' = [started EXCEPT ![e][Index(v, 0, Len(list)) + 1] = @ + 1]
                   /\ UNCHANGED pc
  /\ declared' = [declared EXCEPT ![d] = TRUE]
  /\ ep' = [ep EXCEPT ![d] = @ + 1]
  /\ UNCHANGED <<config, noteVars, host, network, try, failing, begun>>

HasNone(d) == boot[d] = <<>>

\* The host declared nothing.
MayResolve(d) == ~declared[d]

Outcome(d) == IF MayResolve(d) THEN "byname" ELSE IF HasNone(d) THEN "failed" ELSE "try"

\* Every endpoint has been looked at: try the addresses, give up, or dial the
\* host by its name.
Decide(d) ==
  /\ pc[d] = "collect" /\ ep[d] \notin DOMAIN endpoints
  /\ pc' = [pc EXCEPT ![d] = Outcome(d)]
  /\ UNCHANGED <<config, countVars, noteVars, host, network, ep, declared, boot, try, failing, begun>>

Connects(d) ==
  /\ pc[d] = "try"
  /\ pc' = [pc EXCEPT ![d] = "note"]
  /\ UNCHANGED <<config, countVars, noteVars, host, network, ep, declared, boot, try, failing, begun>>

AttemptFails(d) ==
  /\ pc[d] = "try"
  /\ IF try[d] < Len(boot[d])
       THEN try' = [try EXCEPT ![d] = @ + 1] /\ UNCHANGED <<pc, failing>>
       ELSE /\ pc' = [pc EXCEPT ![d] = "note"]
            /\ failing' = [failing EXCEPT ![d] = TRUE]
            /\ UNCHANGED try
  /\ UNCHANGED <<config, countVars, noteVars, host, network, ep, declared, boot, begun>>

AlwaysAChange(h, f) == TRUE

IsChange(h, f) == bootFailing[h] # f

Ended(d) == IF failing[d] THEN "failed" ELSE "connected"

\* noteBootstrap up to its unlock.
Note(d) ==
  /\ pc[d] = "note"
  /\ bootFailing' = [bootFailing EXCEPT ![host[d]] = failing[d]]
  /\ pc' = [pc EXCEPT ![d] = IF IsChange(host[d], failing[d]) THEN "log" ELSE Ended(d)]
  /\ UNCHANGED <<config, countVars, host, network, ep, declared, boot, try, failing, begun, logged>>

\* The line is written after the unlock: lines may overtake each other.
Log(d) ==
  /\ pc[d] = "log"
  /\ logged' = [logged EXCEPT ![host[d]] = IF failing[d] THEN @ + 1 ELSE @ - 1]
  /\ pc' = [pc EXCEPT ![d] = Ended(d)]
  /\ UNCHANGED <<config, countVars, bootFailing, host, network, ep, declared, boot, try, failing, begun>>

\* The dial by name may connect or not: either way it is over.
DialEnds(d) ==
  /\ pc[d] \in {"byname", "failed", "connected"}
  /\ pc' = [pc EXCEPT ![d] = "idle"]
  /\ UNCHANGED <<config, countVars, noteVars, host, network, ep, declared, boot, try, failing, begun>>

-----------------------------------------------------------------------------
\* The bound on dials has been used up.
Finished ==
  /\ begun = MaxDials /\ \A d \in Dialers : pc[d] = "idle"
  /\ UNCHANGED vars

Next ==
  \/ \E d \in Dialers, h \in Hosts, nw \in Networks : DialBegins(d, h, nw)
  \/ \E d \in Dialers :
       \/ Skip(d) \/ Collect(d) \/ Decide(d)
       \/ Connects(d) \/ AttemptFails(d) \/ Note(d) \/ Log(d) \/ DialEnds(d)
  \/ Finished

Spec == Init /\ [][Next]_vars

-----------------------------------------------------------------------------
\* The variables have their types; endpoint.next keeps to its 32 bits.
TypeOK ==
  /\ written \in Writtens
  /\ shared \in Shareds
  /\ next \in [DOMAIN endpoints -> 0 .. Counters - 1]
  /\ bootFailing \in [Hosts -> BOOLEAN]
  /\ pc \in [Dialers -> Places]
  /\ host \in [Dialers -> Hosts \cup {NoHost}]
  /\ network \in [Dialers -> {"tcp", "tcp4", "tcp6"}]
  /\ ep \in [Dialers -> 1 .. Len(endpoints) + 1]
  /\ declared \in [Dialers -> BOOLEAN]
  /\ boot \in [Dialers -> Seq(Addrs)]
  /\ try \in [Dialers -> Nat \ {0}]
  /\ failing \in [Dialers -> BOOLEAN]
  /\ begun \in 0 .. MaxDials
  /\ DOMAIN started = DOMAIN endpoints
  /\ \A e \in DOMAIN endpoints : started[e] \in [Positions(e) -> Nat]
  /\ logged \in [Hosts -> Int]

\* dial "reaches the endpoint through its configured bootstrap addresses rather
\* than through the system resolver": a host is resolved by name only when
\* nothing gives it an address, neither an endpoint of that host, nor the bare
\* bootstrap where it applies, nor the table of NextDNS's hosts.
NeverByName ==
  \A d \in Dialers : pc[d] = "byname" =>
    /\ WellKnown[host[d]] = <<>>
    /\ written # <<>>
    /\ \A i \in DOMAIN written : written[i].host = host[d] =>
         /\ written[i].own = <<>>
         /\ shared = <<>> \/ written[i].hash

\* A dial only fails once it has tried, of every endpoint of its host, every
\* address its network can use, wherever the rotations started.
FailsOnlyAfterAll ==
  \A d \in Dialers : pc[d] \in {"failed", "panicked"} =>
    \A e \in DOMAIN endpoints : endpoints[e].host = host[d] =>
      \A i \in Positions(e) :
        matchesNetwork(network[d], endpoints[e].addrs[i]) =>
          \E j \in DOMAIN boot[d] : j <= try[d] /\ boot[d][j] = endpoints[e].addrs[i]

\* "Consecutive dials spread over them": however dials interleave, the list of
\* an endpoint has not started at one address more than once oftener than at
\* another, but for one more each time the counter wraps.
SpreadsEvenly ==
  \A e \in DOMAIN endpoints : \A i, j \in Positions(e) :
    started[e][i] <= started[e][j] + 1 + begun \div Counters

Warnings(h) == Cardinality({d \in Dialers : pc[d] = "log" /\ host[d] = h /\ failing[d]})

Recoveries(h) == Cardinality({d \in Dialers : pc[d] = "log" /\ host[d] = h /\ ~failing[d]})

\* "Only transitions are logged", and each of them "once": the lines written and
\* those under way account for bootFailing, whatever the dials that raced.
LinesBalance ==
  \A h \in Hosts :
    logged[h] + Warnings(h) - Recoveries(h) = IF bootFailing[h] THEN 1 ELSE 0
=============================================================================
