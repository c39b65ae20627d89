CONSTANTS
  NBlocks = 5
  Functions <- MCFunctions
SPECIFICATION Spec
INVARIANTS
  ClosedInAnyOrder
  NothingInvented
  NothingMissed
PROPERTIES
  EntriesSpread
