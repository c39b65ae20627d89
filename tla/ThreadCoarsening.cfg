CONSTANTS
  NBlocks = 5
  BodyBlocks = {2, 4}
  Stores = TRUE
  Direction = 0
  Factor = 2
  DivRegionOptions = {"classic", "merge"}
  Kernels <- MCKernels
  SecondCall = FALSE
SPECIFICATION TCSpec
INVARIANTS
  StaysSSA
  RegionsAreReplicable
  ReplicatedOnce
  DivergenceKept
  AliveIsCurrent
  ComputesTheSame
  ResultIsSSA
  EachCopyReadsItsOwn
