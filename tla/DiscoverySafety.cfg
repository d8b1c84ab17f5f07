\* Two queries, two addresses, two lookup identities; one lookup at once, so
\* that a query finds the limit reached, and room in the table for both names.
SPECIFICATION Spec
CONSTANTS
  Addrs = {a1, a2}
  NoAddr = NoAddr
  Names = {n1}
  NoName = NoName
  Queries = {q1, q2}
  Lookups = {l1, l2}
  NoLookup = NoLookup
  Drainers = {d1}
  MaxInflight = 1
  MaxEntries = 2
  Holding = TRUE
SYMMETRY Symmetry
INVARIANTS TypeOK SlotOwned LookupsBounded WgCountsLookups ReleasedAfterStore
PROPERTIES NoAddAfterWait KeepsDirectory
