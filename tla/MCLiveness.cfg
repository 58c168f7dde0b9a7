SPECIFICATION FairSpec
CONSTANTS
  MaxMinor = 3
  Requests = {r1, r2}
  Workers = {k1, k2}
  Wallets = {"w1"}
  Commands <- WaitCommands
  Openings <- OneWallet
  MaxAttempts = 2
  MaxLookups = 2
  MaxFaults = 2
  Names <- NamesUsed
  None = "none"
PROPERTIES
  EveryRequestAnswered
  EveryWaitEnds
