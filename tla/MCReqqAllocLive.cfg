CONSTANTS NumEntries = 4
          L3Ids = {2, 3}
          Kinds <- PlainAtBoth
          WalkOps = {"AllInv"}
          MaxIndices = 1
          MaxWalks = 1
          MaxAborts = 0
SPECIFICATION FairSpec
PROPERTIES WalkEnds EveryRequestTaken
CHECK_DEADLOCK FALSE
