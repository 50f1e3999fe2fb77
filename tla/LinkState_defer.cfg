SPECIFICATION Spec
CONSTANTS
    Replicas = {r1}
    Owner = owner
    NoPending = nopending
    Peers = {x1}
    Links <- LinkTo
    PeerOf <- EndOf
    FoundInit <- NoneFound
    MaxSeqno = 2
    MaxReqs = 1
    NullLimit = 0
    MaxForget = 1
    Remaps = TRUE
    Timeouts = TRUE
INVARIANTS TypeOK PendingCurrent CaughtUpFaithful
CHECK_DEADLOCK FALSE
