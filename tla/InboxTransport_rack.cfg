SPECIFICATION FairSpec
CONSTANTS
  a = a
  b = b
  Nodes = {a, b}
  Half = 4
  First = 6
  Wraps = FALSE
  Frags = {1}
  MaxPosted <- OneWay
  MaxNet = 6
  MaxLost = 2
  Lossy = {"data","rack"}
  Duplicates = FALSE
  WriteFirst = TRUE
PROPERTIES
  EventuallyTaken
CHECK_DEADLOCK FALSE
