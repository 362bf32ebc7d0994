\* The process may end at any moment: two pages of two records.
SPECIFICATION Spec
CONSTANTS
  MaxPages = 2
  MaxCount = 4
  RecordsPerPage = 2
  Values = {v1}
  NoValue = NoValue
INVARIANTS
  TypeOK
  FreeListExact
  CountsMatchBitmaps
  RestartSafe
  ForcedOnOldPagesSurvive
  FullPagesEndTheList
  HeaderIsNoDataPage
PROPERTIES
  ImplementsRecordMap
