SPECIFICATION Spec
CONSTANTS
  MaxEvents = 3
  Aggregate <- Interleaved
  Publishers = {p1, p2}
  BatchSize = 2
  MaxFailures = 1
  Reversals = {v1, v2}
  MaxLooks = 3
  BaseBackoff = 2
  MaxBackoff = 4
  WaitTtl = 6
  WaitBatch = 1
  Interval = 2
  MaxErrors = 1
  Calls = {q1, q2}
  Inbound = {m1, m2}
  Batch = 2
  Grace = 3
  DrainTime = 1
INVARIANTS
  BackgroundTypeOK
  WaitIsBounded
  PoolClosedLast
  ExitIsClean
PROPERTIES
  EveryEventGoesOut
  GivenUpAfterTheWait
