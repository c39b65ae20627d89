CONSTANTS
  NBlocks = 5
  BodyBlocks = {2, 4}
  Direction = 0
  Factor = 3
  MergedFirst = {TRUE}
  DivRegionOptions = {"classic", "merge", "merge-true"}
  Kernels <- MCKernels
SPECIFICATION RMSpec
INVARIANTS
  ResultIsSSA
  RegionsInSequence
  MissingOnlyAcrossRegions
  ThreadsDoTheSame
