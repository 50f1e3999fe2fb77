SPECIFICATION FairSpec
CONSTANTS
  a = a
  b = b
  c = c
  Session = {a, b}
  Start <- Two
  Restarts <- First
  Mortal = {a, b}
  Mcast = FALSE
  Old = 2
  MaxRetry = 2
  MaxNet = 2
  MaxLoss = 3
INVARIANTS
  TypeOK
  Agreement
  Watched
PROPERTIES
  ByeFinal
  MutualTrust
  Forgotten
CHECK_DEADLOCK FALSE
