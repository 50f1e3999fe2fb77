SPECIFICATION Spec
CONSTANTS
  Pubs = {1}
  FrameTime = 2
  FrameSize = 4
  PubIval = 2
  SubIval = 6
  MaxMsgLoss = 2
  Skews <- NoSkew
  LateCopies = "ever"
  Console = FALSE
  Start = 6
  MaxTime = 12
  LastPub = 12
  MaxSent = 3
  MaxSubs = 1
INVARIANTS
  InOrder
CHECK_DEADLOCK FALSE
