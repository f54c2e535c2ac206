SPECIFICATION MCSpec
CONSTANTS
    NumSrc = 2
    NumDest = 2
    FifoDepth = 2
    SrcArb <- LastSource
    Relayed <- LastDest
INVARIANT CreditsCountFlits
PROPERTIES IsPairwiseQueues EveryFlitArrives
