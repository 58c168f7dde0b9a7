SPECIFICATION FairSpec
CONSTANTS
  Consumers = {c1, c2}
  Messages <- Misfits
  HttpOps = {}
  BatchSize = 2
  MaxReceive = 3
  MaxFailures = 1
INVARIANTS
  OvertakenOnlyAfterFailure
PROPERTIES
  EveryMessageSettles
