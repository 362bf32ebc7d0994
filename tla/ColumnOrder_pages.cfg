\* Rows on two pages.
SPECIFICATION Spec
CONSTANTS
  Rels = {r1, r2, r3}
  Attrs = {a1, a2}
  MaxPages = 2
  RecordsPerPage = 2
  NoRow = NoRow
INVARIANTS
  ValuesMatchColumns
