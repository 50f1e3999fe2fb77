SPECIFICATION Spec
CONSTANTS
  Pubs = {1,2}
  FrameTime = 2
  FrameSize = 4
  PubIval = 6
  SubIval = 0
  MaxMsgLoss = 2
  Skews <- NoSkew
  LateCopies = "frame"
  Console = TRUE
  Start = 6
  MaxTime = 8
  LastPub = 8
  MaxSent = 2
  MaxSubs = 1
INVARIANTS
  InOrder
CHECK_DEADLOCK FALSE
