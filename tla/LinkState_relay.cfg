SPECIFICATION Spec
CONSTANTS
    Replicas = {r1, r2}
    Owner = owner
    NoPending = nopending
    Peers = {x1}
    Links <- LinkTo
    PeerOf <- EndOf
    FoundInit <- AllFound
    MaxSeqno = 2
    MaxReqs = 1
    NullLimit = 0
    MaxForget = 0
    Remaps = FALSE
    Timeouts = FALSE
SYMMETRY ReplicaSymmetry
INVARIANTS CopyFaithful QueueExact
CHECK_DEADLOCK FALSE
