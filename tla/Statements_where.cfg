\* A WHERE without blanks around its operator, as the help text writes none.
SPECIFICATION Spec
CONSTANTS
  Written <- AllWritten
  WrittenLater <- SomeWritten
  MaxRows = 2
  MaxFaults = 0
  NoRow = NoRow
INVARIANT DeleteSparesOthers
CHECK_DEADLOCK FALSE
