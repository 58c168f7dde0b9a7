SPECIFICATION Spec
CONSTANTS
  Consumers = {c1}
  Messages <- BetThenWin
  HttpOps = {}
  BatchSize = 2
  MaxReceive = 3
  MaxFailures = 1
INVARIANTS
  WalletOrder
