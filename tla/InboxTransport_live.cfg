SPECIFICATION FairSpec
CONSTANTS
  a = a
  b = b
  Nodes = {a, b}
  Half = 4
  First = 6
  Wraps = TRUE
  Frags = {1}
  MaxPosted <- OneWay
  MaxNet = 3
  MaxLost = 1
  Lossy = {"data"}
  Duplicates = FALSE
  WriteFirst = TRUE
PROPERTIES
  EventuallyTaken
CHECK_DEADLOCK FALSE
