SPECIFICATION Spec
CONSTANTS
  p1 = p1
  p2 = p2
  Invocations = {p1}
  Crashable = {}
  Paths = {"a.csv"}
  Contents = {"exact", "one"}
  Lines <- MCLines
  FilesChange = TRUE
  BatchSize = 2
  None = None
INVARIANT
  HashIsOfIngestedFile
