------------------------------- MODULE MCPlugin -------------------------------
EXTENDS Plugin

CONSTANTS p1, p2, v1, v2, malformed

Line(opt) == [opt |-> opt, n |-> 1, lo |-> 1, hi |-> 2]

Profile(p)       == [opt |-> "profile", profile |-> p]
ViewOf(v, p)     == [opt |-> "view_profile", view |-> v, profile |-> p]
Subnet(a, b, p)  == [opt |-> "client_profile", addr |-> a, bits |-> b, profile |-> p]
DeviceID(m)      == [opt |-> "device_id", mode |-> m]

\* Nested subnets, two of one length, host bits set, a host, everybody, a length
\* that no address has; two views.
RoutingLines ==
  {Subnet(<<0, 1>>, 1, p1), Subnet(<<0, 0>>, 1, p2), Subnet(<<0, 0>>, HostRoute, Passthrough),
   Subnet(<<0, 1>>, 2, p2), Subnet(<<1, 1>>, 3, p1), Subnet(<<1, 0>>, 0, p2), ViewOf(v1, p2), ViewOf(v1, Passthrough), ViewOf(v2, p1),
   Profile(p2)}

\* Features, what tunes them, and lines that are refused.
FeatureLines ==
  {Line("cache"), Line("cache_ttl"), [Line("cache_ttl") EXCEPT !.lo = 3], Line("discovery"),
   Line("discovery_ttl"), [Line("discovery_wait") EXCEPT !.n = 0],
   [Line("discovery_max") EXCEPT !.n = 0], Line("arp"), Line("reload"), DeviceID("mac"),
   Line("invalid"), Profile(malformed)}

UpTo(lines, n) == UNION {[1 .. k -> lines] : k \in 0 .. n}

\* With every feature, with none, and one that is refused.
Featured == <<Line("cache"), Line("discovery"), Line("arp"), Subnet(<<1, 1>>, 1, Passthrough), Profile(p1)>>
SomeReloads == {Featured, <<Profile(p2)>>, <<Line("cache_ttl"), Profile(p1)>>}

SomeCorefiles ==
  {<<Profile(p1)>> \o file : file \in UpTo(RoutingLines, 3) \cup UpTo(FeatureLines, 3)}
    \cup (UpTo(FeatureLines, 2) \ {<<>>}) \cup SomeReloads

SomeDevices == {<<0, 1>>}

SomeOverrides == {NoProfile, malformed, Passthrough}
=============================================================================
