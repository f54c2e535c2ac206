SPECIFICATION FairSpec
CONSTANTS
    Sets = 2
    Ways = 2
    SubBanks = 2
    SetModulus = 4
    CbufSize = 1
    CbInvCount = 2
    ResetCount = 3
    Base <- SomeBase
    Size <- SomeSize
    MaxResets = 1
INVARIANTS SyncClosesTheWalk BusyCoversTheWalk ColdResetInvalidates NoIndexTwice
PROPERTY WalkEnds
