\* InsertRec on a file that a process ended with open.
SPECIFICATION Spec
CONSTANTS
  MaxPages = 2
  MaxCount = 4
  RecordsPerPage = 2
  Values = {v1}
  NoValue = NoValue
INVARIANTS
  InsertFindsAPage
