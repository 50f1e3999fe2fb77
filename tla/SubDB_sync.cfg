SPECIFICATION FairSpec
CONSTANTS
  a = a
  b = b
  w = w
  con = con
  t1 = t1
  n1 = n1
  n2 = n2
  Subs = {a}
  Pats = {}
  Hash <- Collide
  Console = con
  Tports = {}
  Peers = {n1, n2}
  Askers = {n1}
  Owner = Owner
  Resizes <- NoResize
  MaxSeqno = 2
  MaxBlm = 1
  MaxReqs = 1
  MaxEvents = 1
  Cap = 2
  Width = 100
INVARIANTS
  TypeOK
  NoneMissed
  CopyExact
PROPERTIES
  Synced
CHECK_DEADLOCK FALSE
