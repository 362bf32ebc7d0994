\* Any statement after any other: two rows, one failing fetch or close.
SPECIFICATION Spec
CONSTANTS
  Written <- AllWritten
  WrittenLater <- SomeWritten
  MaxRows = 2
  MaxFaults = 1
  NoRow = NoRow
INVARIANTS
  TypeOK
  ParsedAsWritten
  SelectIsCompleteOrFails
  SameRowsForEveryStatement
  OnlyMatchingRowsTouched
  CountsReported
  InsertAllOrNothing
  RowsHaveColumnTypes
PROPERTIES
  StatementsReturn
CHECK_DEADLOCK FALSE
