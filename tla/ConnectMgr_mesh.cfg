SPECIFICATION FairSpec
CONSTANTS
  home = home
  away = away
  Url = {home, away}
  Home = home
  Timeout = TRUE
  Prompt = TRUE
  MaxRoutes = 3
  MaxSocks = 4
  MaxAccepts = 1
  MaxCalls = 3
  MaxFaults = 2
INVARIANTS
  OneClient
  CountExact
  NeverStuck
  NoneForgotten
PROPERTIES
  EventuallyLinked
CHECK_DEADLOCK FALSE
