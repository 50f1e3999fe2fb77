SPECIFICATION Spec
CONSTANTS
  a = a
  b = b
  Nodes = {a, b}
  Half = 4
  First = 6
  Wraps = FALSE
  Frags = {1, 2}
  MaxPosted <- Three
  MaxNet = 2
  MaxLost = 2
  Lossy = {"data", "rack", "sack"}
  Duplicates = TRUE
  WriteFirst = TRUE
INVARIANTS
  TypeOK InOrder MessagesIntact Retained Repairable
CHECK_DEADLOCK FALSE
