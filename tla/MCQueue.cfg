SPECIFICATION Spec
CONSTANTS
  Consumers = {c1, c2}
  Messages <- Duplicates
  HttpOps <- BetByHttp
  BatchSize = 2
  MaxReceive = 4
  MaxFailures = 2
SYMMETRY ConsumerSymmetry
INVARIANTS
  TypeOK
  RecordedOnce
  InboxHasItsEffect
  DeletedWasHandled
  DeadLettersHaveACause
  ReportedIsHandled
