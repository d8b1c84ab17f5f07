\* Two queries at once, without a limit, for two questions in a cache of one
\* entry; NextDNS may answer or not. Time stands still but for the deadline.
SPECIFICATION FairSpec
CONSTANTS
  p1 = p1
  p2 = p2
  x1 = x1
  x2 = x2
  ptr = ptr
  Profiles = {p1}
  Questions = {x1, x2}
  PTRQuestions = {}
  Subject <- Subjects
  Hash <- CollidingHash
  Keys = {0, 1}
  Shards = 1
  Capacity = 1
  DefaultCapacity = 2
  Queries = {q1, q2}
  Caching = TRUE
  MaxConcurrent = 0
  Endpoints = 2
  Second = 1
  MinTTL = 1
  MaxTTL = 2
  RecordTTLs = {1}
  MaxClock = 0
  NoMsg = NoMsg
  NoItem = NoItem
INVARIANTS ShardsBounded LenExact
PROPERTIES EveryQueryReturns
