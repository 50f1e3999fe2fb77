CONSTANTS
    N = 5
    Graphs <- Mcast
    Uids <- Met
    Rank <- MCRank
    Subs <- MCSubs
SPECIFICATION FairSpec
PROPERTY Delivered
CHECK_DEADLOCK FALSE
