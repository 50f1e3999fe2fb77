CONSTANTS
    N = 4
    Graphs <- MCGraphs
    Uids <- MCUids
    Rank <- MCRank
    Subs <- MCSubs
SPECIFICATION FairSpec
INVARIANTS Optimal SameRoute AtMostOnce AllGiven
PROPERTIES Delivered
CHECK_DEADLOCK FALSE
