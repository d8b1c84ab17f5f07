\* One query, and room in the table for both addresses: nothing is evicted.
SPECIFICATION Spec
CONSTANTS
  Addrs = {a1, a2}
  NoAddr = NoAddr
  Names = {n1}
  NoName = NoName
  Queries = {q1}
  Lookups = {l1, l2}
  NoLookup = NoLookup
  Drainers = {d1}
  MaxInflight = 2
  MaxEntries = 2
  Holding = TRUE
INVARIANTS RetryIsDelayed
