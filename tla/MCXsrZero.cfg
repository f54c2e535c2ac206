CONSTANTS Hex <- HexCells
          Number <- NumberCells
          BusWidth = 4
          Tables <- OnlyPending
          Mod = "rbox"
          ApbWidth = 2
          ResetValue <- ResetCells
          TypeFiles <- TypeCells
          Literal <- Constants_
          Defines = {"NOT_VERIF_SIMULATION"}
          Threads = {0, 1}
          Legal <- SatpLegal
          Bubbled = {"satp"}
          WriteSafe = {"tensor"}
          Replayable = {"tensor"}
          Operands <- TwoOperands
SPECIFICATION Spec
INVARIANT ZeroFieldsReadZero
