SPECIFICATION Spec
CONSTANTS
  Pubs = {1}
  FrameTime = 2
  FrameSize = 4
  PubIval = 2
  SubIval = 6
  MaxMsgLoss = 2
  Skews <- NoSkew
  LateCopies = "never"
  Console = FALSE
  Start = 6
  MaxTime = 12
  LastPub = 12
  MaxSent = 3
  MaxSubs = 1
INVARIANTS
  ChainedLossNotified
CHECK_DEADLOCK FALSE
