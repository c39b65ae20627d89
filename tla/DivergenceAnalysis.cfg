CONSTANTS
  NBlocks = 4
  TidBlocks = {2, 3}
  Kernels <- MCKernels
  Options <- MCOptions
SPECIFICATION Spec
INVARIANTS
  TypeOK
  NoDuplicates
  DivergentIsLeast
PROPERTIES
  DivergenceSpreads
