SPECIFICATION Spec
CONSTANTS
  Strategy = "COMPOSITE_KEY"
  Tolerance = 1
  InternalLists <- PipeInternal
  ExternalLists <- PipeExternal
  None = None
INVARIANTS
  PairsAgree
