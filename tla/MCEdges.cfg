SPECIFICATION Spec
CONSTANTS
  Callers = {c1, c2}
  Kids = {k1, k2}
  Ttl = 3
  Floor = 2
  Patience = 1
  MaxAge = 4
  Providers = {"a", "b"}
  NoProvider = "nobody"
  Externals = {"x1", "x2"}
  IdemKeys = {"y1", "y2"}
  Contents = {"z1", "z2"}
  MaxOps = 3
  Opened <- TwoBooks
  Movers = {t1, t2}
  Deltas = {1}
  PageSize = 1
  MaxSeq = 4
  MaxTampers = 1
  MaxWord = 121
  Digits = {0, 1, 2}
  MaxEvents = 3
  Aggregate <- Interleaved
  Publishers = {p1, p2}
  BatchSize = 2
  MaxFailures = 2
INVARIANTS
  EdgesTypeOK
  MarkedWasDelivered
  DuplicatesHaveACause
  LookupsAreBounded
  ProvidersAreIsolated
  ReportIsExact
  StatementIsComplete
  ParsedIsExact
  AccountIsExact
  TextReadsBack
PROPERTIES
  OvertakingHasACause
  KeysFollowTheIssuer
  FloorHoldsWhileAnswered
