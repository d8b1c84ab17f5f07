\* Three addresses for two bindings, two hardware addresses; one lease
\* file and the ARP table. The queries come one at a time, between any two steps.
SPECIFICATION Spec
CONSTANTS
  leased = a1
  other = a2
  own = n1
  others = n2
  bad = n3
  WrittenFor <- NameHomes
  Addrs = {a1, a2, a3}
  Macs = {m1, m2}
  NoMac = NoMac
  Names = {n1, n2, n3}
  NoName = NoName
  Files = 1
  UseARP = TRUE
  FileTables <- FileReads
  ARPTables <- ARPReads
  MaxBindings = 2
  Mode = "auto"
SYMMETRY Symmetry
INVARIANTS TypeOK MergeKeepsFields BindingsBounded NothingDroppedWithRoom NamesStayHome
PROPERTIES IdentitySticks
