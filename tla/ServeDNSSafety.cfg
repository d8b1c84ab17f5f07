\* Two profiles, two ordinary questions and a reverse one; keys collide, and a cache
\* of one entry evicts. One query at a time may be upstream. Time stands still.
SPECIFICATION Spec
CONSTANTS
  p1 = p1
  p2 = p2
  x1 = x1
  x2 = x2
  ptr = ptr
  Profiles = {p1, p2}
  Questions = {x1, x2, ptr}
  PTRQuestions = {ptr}
  Subject <- Subjects
  Hash <- CollidingClasses
  Keys = {0, 1}
  Shards = 1
  Capacity = 1
  DefaultCapacity = 2
  Queries = {q1, q2}
  Caching = TRUE
  MaxConcurrent = 1
  Endpoints = 2
  Second = 1
  MinTTL = 1
  MaxTTL = 2
  RecordTTLs = {1}
  MaxClock = 0
  NoMsg = NoMsg
  NoItem = NoItem
SYMMETRY QuerySymmetry
INVARIANTS TypeOK AnswersOwnQuestion ExchangesBounded CounterExact
PROPERTIES KeepsMemory
