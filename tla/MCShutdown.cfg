SPECIFICATION LifeSpec
CONSTANTS
  Calls = {q1}
  Inbound = {m1, m2}
  Batch = 2
  Grace = 3
  DrainTime = 1
INVARIANT
  ReleasedAtExit
