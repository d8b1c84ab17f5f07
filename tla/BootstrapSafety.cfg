\* Two hosts, three addresses, two dials at a time and five in all; a counter of
\* four values, so that it wraps, in an int that holds it.
SPECIFICATION Spec
CONSTANTS
  four = four
  six = six
  third = third
  nextdns = nextdns
  other = other
  Addrs = {four, six, third}
  V4 = {four, third}
  Hosts = {nextdns, other}
  DefaultHost = nextdns
  WellKnown <- KnownAddresses
  Writtens <- Corefiles
  Shareds <- Bootstraps
  Networks = {"tcp", "tcp6"}
  Dialers = {d1, d2}
  NoHost = NoHost
  Counters = 4
  IntMax = 31
  MaxDials = 5
SYMMETRY Symmetry
INVARIANTS TypeOK NeverByName FailsOnlyAfterAll SpreadsEvenly LinesBalance
