SPECIFICATION Spec
CONSTANTS
  MaxMinor = 3
  Requests = {r1, r2}
  Workers = {}
  Wallets = {"w1", "w2"}
  Commands <- ResendCommands
  Openings <- TwoWallets
  MaxAttempts = 1
  MaxLookups = 1
  MaxFaults = 0
  Names <- NamesUsed
  None = "none"
INVARIANT
  ReplayRepeatsAnswer
