CONSTANTS NumEntries = 4
          L3Ids = {2, 3}
          Kinds <- PairsAtL2
          WalkOps = {"AllInv", "CBInv", "L3"}
          MaxIndices = 1
          MaxWalks = 2
          MaxAborts = 1
SPECIFICATION Spec
INVARIANTS IndexOpsAlone SyncWaitsForWriteArounds
PROPERTIES HalvesMeet
CHECK_DEADLOCK FALSE
