SPECIFICATION Spec
CONSTANTS
  MaxMinor = 4
  Requests = {r1, r2, r3}
  Workers = {k1}
  Wallets = {"w1", "w2"}
  Commands <- ResendCommands
  Openings <- TwoWallets
  MaxAttempts = 2
  MaxLookups = 1
  MaxFaults = 1
  Names <- NamesUsed
  None = "none"
SYMMETRY RequestSymmetry
INVARIANTS
  TypeOK
  OneRowPerIdentity
  AnswersAreDurable
  LockedReadFresh
