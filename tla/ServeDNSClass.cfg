\* One profile, one question in two classes, two queries at once and no limit.
\* Time stands still.
SPECIFICATION Spec
CONSTANTS
  p1 = p1
  p2 = p2
  x1 = x1
  x2 = x2
  ptr = ptr
  Profiles = {p1}
  Questions = {x1, x2}
  PTRQuestions = {}
  Subject <- Subjects
  Hash <- CollidingHash
  Keys = {0, 1}
  Shards = 1
  Capacity = 2
  DefaultCapacity = 2
  Queries = {q1, q2}
  Caching = TRUE
  MaxConcurrent = 0
  Endpoints = 1
  Second = 1
  MinTTL = 1
  MaxTTL = 2
  RecordTTLs = {1}
  MaxClock = 0
  NoMsg = NoMsg
  NoItem = NoItem
SYMMETRY QuerySymmetry
INVARIANTS OnlyAnswersCached
