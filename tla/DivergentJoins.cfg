CONSTANTS
  NBlocks = 5
  TidBlocks = {3}
  Kernels <- MCKernels
  Options <- OneDirection
SPECIFICATION Spec
INVARIANTS
  HandedOver
  MergesAreDivergent
  RegionsAreClosed
  RegionsNest
