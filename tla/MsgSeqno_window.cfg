SPECIFICATION Spec
CONSTANTS
  Pubs = {1}
  FrameTime = 2
  FrameSize = 4
  PubIval = 2
  SubIval = 1
  MaxMsgLoss = 2
  Skews <- SkewTick
  LateCopies = "frame"
  Console = FALSE
  Start = 4
  MaxTime = 10
  LastPub = 7
  MaxSent = 3
  MaxSubs = 2
INVARIANTS
  TypeOK InOrder SeqnoIncreases LossExact
CHECK_DEADLOCK FALSE
