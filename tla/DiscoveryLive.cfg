\* One query that keeps coming back, two addresses for a table of one entry,
\* two lookups at once, one drain; no symmetry, as liveness is checked.
SPECIFICATION FairSpec
CONSTANTS
  Addrs = {a1, a2}
  NoAddr = NoAddr
  Names = {n1}
  NoName = NoName
  Queries = {q1}
  Lookups = {l1, l2}
  NoLookup = NoLookup
  Drainers = {d1}
  MaxInflight = 2
  MaxEntries = 1
  Holding = TRUE
INVARIANTS SingleFlight TableBounded
PROPERTIES HeldQueryReleased DrainReturns WaiterGetsOut
