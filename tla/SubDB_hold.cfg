SPECIFICATION Spec
CONSTANTS
  a = a
  b = b
  w = w
  con = con
  t1 = t1
  n1 = n1
  n2 = n2
  Subs = {a, b}
  Pats = {w}
  Hash <- Collide
  Console = con
  Tports = {t1}
  Peers = {n1}
  Askers = {}
  Owner = Owner
  Resizes <- AllAtOnce
  MaxSeqno = 5
  MaxBlm = 1
  MaxReqs = 0
  MaxEvents = 0
  Cap = 2
  Width = 100
SYMMETRY Alike
INVARIANTS
  NoneMissed
  ListExact
CHECK_DEADLOCK FALSE
