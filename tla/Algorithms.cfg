SPECIFICATION RunsSpec
CONSTANTS
  Strategy = "COMPOSITE_KEY"
  Tolerance = 1
  InternalLists <- SmallInternal
  ExternalLists <- SmallExternal
  None = None
INVARIANTS
  AllTypesOK
  IInv
  MergedSoFar
  CountsAgree
  ReportedOnce
  PairsAgree
  AlgorithmsAgree
  JoinIsExactOnUniqueKeys
PROPERTIES
  ImplementsReconciliation
  OthersImplement
  Terminates
