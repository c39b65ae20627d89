CONSTANTS
  Word = 64
  UInt = 16
  MaxGroups = 4
  MaxLocal = 12
  MaxFactor = 4
  MaxStride = 4
  Launches <- MCLaunches
  Calls <- MCCalls
SPECIFICATION Spec
INVARIANTS
  DefinedBeforeUse
  ReadsWhatItDid
  EachThreadOnce
