SPECIFICATION Spec
CONSTANTS
    Replicas = {r1}
    Owner = owner
    NoPending = nopending
    Peers = {x1}
    Links <- LinkTo
    PeerOf <- EndOf
    FoundInit <- AllFound
    MaxSeqno = 2
    MaxReqs = 0
    NullLimit = 5
    MaxForget = 0
    Remaps = TRUE
    Timeouts = FALSE
INVARIANTS CaughtUpIsExact
CHECK_DEADLOCK FALSE
