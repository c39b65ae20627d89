CONSTANTS
  Kernels <- MCKernels
  Spaces <- MCSpaces
  Elements = {1, 4, 8}
  Word = 32768
SPECIFICATION Spec
INVARIANTS
  TransactionsAreLines
  ConflictsAreSeen
  ConsecutiveAsTried
