CONSTANTS
  NBlocks = 5
  BodyBlocks = {2, 4}
  Direction = 0
  Factor = 3
  MergedFirst = {TRUE}
  DivRegionOptions = {"merge-false"}
  Kernels <- MCKernels
SPECIFICATION RMSpec
INVARIANTS
  ThreadsDoTheSame
