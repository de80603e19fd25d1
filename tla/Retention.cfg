SPECIFICATION Spec
CONSTANTS
  Files <- MCFiles
  MaxId = 3
  None = None
INVARIANTS
  TypeOK
  NothingDangles
  AuditTrail
PROPERTIES
  ResultsOutliveTheirRows
