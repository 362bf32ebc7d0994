\* Two pages: tables that lie on one of them, and tables that lie on both.
SPECIFICATION Spec
CONSTANTS
  Rels = {r1, r2, r3}
  Attrs = {a1, a2}
  MaxPages = 2
  RecordsPerPage = 3
  NoRow = NoRow
INVARIANTS
  ValuesMatchOnOnePage
