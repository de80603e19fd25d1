SPECIFICATION Spec
CONSTANTS
  p1 = p1
  p2 = p2
  Runners = {p1}
  CommandLines <- OneCommandLine
  Batches <- SourceBatches
  MaxId = 2
  None = None
INVARIANTS
  MissingInternalWasMissing
