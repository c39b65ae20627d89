CONSTANTS
  NBlocks = 5
  BodyBlocks = {2, 3}
  Direction = 0
  Width = 2
  Kernels <- MCKernels
  Scattered <- MCScattered
SPECIFICATION TVSpec
INVARIANTS
  ResultIsSSA
  LanesReadTheirOwn
  ScalarsGiveWay
  AbortsForRegionValuesOnly
