CONSTANTS
  NBlocks = 5
  BodyBlocks = {2, 4}
  Kernels <- MCKernels
  Extractors = {"opencl-instcount", "opencl-loop-instcount"}
  Directions = {0}
  MaxWalked = 12
SPECIFICATION Spec
INVARIANTS
  DepthIsLongestChain
  CountsWhatIsLive
  MeasuresTheWay
  PhiArgsByName
  LoadsAreAccountedFor
PROPERTY DumpsUnlessInnerLoop
