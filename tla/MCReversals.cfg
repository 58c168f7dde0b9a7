SPECIFICATION Spec
CONSTANTS
  MaxMinor = 3
  Requests = {r1, r2, r3, r4}
  Workers = {k1, k2}
  Wallets = {"w1"}
  Commands <- ReversalCommands
  Openings <- OneWallet
  MaxAttempts = 1
  MaxLookups = 1
  MaxFaults = 0
  Names <- NamesUsed
  None = "none"
SYMMETRY RequestSymmetry
INVARIANTS
  ReversedAtMostOnce
  BackstopsSilent
  AppliedExactlyOnce
