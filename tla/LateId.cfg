CONSTANTS
  NBlocks = 4
  BodyBlocks = {2, 3}
  Stores = TRUE
  Direction = 0
  Factor = 2
  DivRegionOptions = {"classic"}
  Kernels <- MCKernels
  SecondCall = TRUE
SPECIFICATION TCSpec
INVARIANTS
  CopiesReadTheirIds
