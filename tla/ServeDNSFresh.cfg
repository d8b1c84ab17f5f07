\* One profile whose configuration changes while answers are on their way, two
\* ticks to the second, one question; two queries at once and no limit.
SPECIFICATION Spec
CONSTANTS
  p1 = p1
  p2 = p2
  x1 = x1
  x2 = x2
  ptr = ptr
  Profiles = {p1}
  Questions = {x1}
  PTRQuestions = {}
  Subject <- Subjects
  Hash <- OneHash
  Keys = {0}
  Shards = 1
  Capacity = 1
  DefaultCapacity = 2
  Queries = {q1, q2}
  Caching = TRUE
  MaxConcurrent = 0
  Endpoints = 1
  Second = 2
  MinTTL = 1
  MaxTTL = 3
  RecordTTLs = {4}
  MaxClock = 4
  NoMsg = NoMsg
  NoItem = NoItem
SYMMETRY QuerySymmetry
INVARIANTS HitsSinceKnownChange HitLifeBounded
PROPERTIES LastModMonotone
