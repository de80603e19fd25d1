SPECIFICATION Spec
CONSTANTS
  p1 = p1
  p2 = p2
  Runners = {p1, p2}
  CommandLines <- CommandLinesUsed
  Batches <- SourceBatches
  MaxId = 2
  None = None
SYMMETRY Symmetry
INVARIANTS
  TypeOK
  CompletedRunAddsUp
  CompletedRunIsReproducible
  MissingExternalWasMissing
  ReportIsOfCompletedRuns
PROPERTIES
  CompletedRunFrozen
  ResultsAreWhole
