CONSTANTS ModuleSpecs <- AllSpecs
          Trees <- AllTrees
          Selections <- SomeSelections
          Outputs <- SomeOutputs
          CutLines = {0, 32, 64}
          CutDigits = {3}
          MaxRuns = 2
          Metrics = {line}
          MaxVersions = 2
          MaxTests = 3
          Top = "top"
          CellTypes <- AllCells
          Keywords = {"wires", "cells", "ports"}
          Designs <- SomeDesigns
SPECIFICATION Spec
INVARIANTS ModulesAnswerTheirTables ImagesAgree BackupIsPristine ReportsTheDesign DashboardIsCurrent
CHECK_DEADLOCK FALSE
