SPECIFICATION Spec
CONSTANTS
  p1 = p1
  p2 = p2
  Invocations = {p1, p2}
  Crashable = {p1}
  Paths = {"a.csv"}
  Contents = {"exact", "partial"}
  Lines <- MCLines
  FilesChange = FALSE
  BatchSize = 2
  None = None
INVARIANT
  AlreadyIngestedIsIngested
