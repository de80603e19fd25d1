SPECIFICATION FairSpec
CONSTANTS
  p1 = p1
  p2 = p2
  Invocations = {p1, p2}
  Crashable = {p2}
  Paths = {"a.csv"}
  Contents = {"empty", "exact", "too_big_2"}
  Lines <- MCLines
  FilesChange = TRUE
  BatchSize = 2
  None = None
INVARIANTS
  IInv
  InsertsAreWhole
PROPERTIES
  CompletedBatchFrozen
  EveryIngestEnds
  IngestedEventually
