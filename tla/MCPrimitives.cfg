CONSTANTS Data = {d1, d2}
          Depth = 4
          NumClients = 4
          NumReqs = 4
SPECIFICATION Spec
INVARIANTS PointersMatchLevel PrioIsOrder OvertakenAtMostOnce WorkConserving GrantsFree
PROPERTIES IsBoundedFifo GrantComesBack
