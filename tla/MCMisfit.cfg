SPECIFICATION Spec
CONSTANTS
  MaxMinor = 3
  Requests = {r1, r2, r3}
  Workers = {k1}
  Wallets = {"w1"}
  Commands <- MisfitCommands
  Openings <- OneWallet
  MaxAttempts = 1
  MaxLookups = 2
  MaxFaults = 1
  Names <- NamesUsed
  None = "none"
SYMMETRY RequestSymmetry
INVARIANTS
  LedgerExplainsBalance
  OutboxMatchesFacts
PROPERTIES
  HistoryIsFinal
  RefinesExactlyOnceLedger
