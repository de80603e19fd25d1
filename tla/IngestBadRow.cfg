SPECIFICATION Spec
CONSTANTS
  p1 = p1
  p2 = p2
  Invocations = {p1, p2}
  Crashable = {}
  Paths = {"a.csv"}
  Contents = {"exact", "bad_date"}
  Lines <- MCLines
  FilesChange = FALSE
  BatchSize = 2
  None = None
INVARIANT
  MalformedRowDoesNotAbort
