SPECIFICATION FairSpec
CONSTANTS
    NumSources = 1
    NumPorts = 2
    FifoDepth = 2
    Responses <- Contended
INVARIANTS SentToAllOrNone
PROPERTIES ReservationHolds EveryFifoMoves
