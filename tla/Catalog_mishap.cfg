\* Any one step may fail, or the process may end before any one step.
SPECIFICATION Spec
SYMMETRY Names
CONSTANTS
  Rels = {r1, r2}
  Attrs = {a1, a2}
  RelSlots = {0, 1}
  AttrSlots = {0, 1, 2}
  NoRow = NoRow
  Nothing = Nothing
  MaxIndexNo = 2
  MaxMishaps = 1
INVARIANTS
  TypeOK
  OtherTablesAgree
  NextIndexNoIsFree
PROPERTIES
  FailedCreateIsUndone
