SPECIFICATION Spec
CONSTANTS
  p1 = p1
  p2 = p2
  Invocations = {p1, p2}
  Crashable = {p1, p2}
  Paths = {"a.csv", "b.csv"}
  Contents = {"empty", "exact", "partial", "bad_date", "too_big", "too_big_2", "nul"}
  Lines <- MCLines
  FilesChange = FALSE
  BatchSize = 2
  None = None
SYMMETRY Symmetry
INVARIANTS
  TypeOK
  DoneMeansWhole
  CompletedBatchIsWhole
  EachFileLandsOnce
PROPERTIES
  ImplementsLedger
