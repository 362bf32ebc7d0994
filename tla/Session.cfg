\* Any statement at any time; databases may be made in one another.
SPECIFICATION Spec
CONSTANTS
  Dbs = {d1, d2}
  Default = Default
  Tables = {t}
  Limits = {0, 3, 7}
  MaxGrowth = 1
  MaxDepth = 2
  MaxDirs = 3
INVARIANTS
  TypeOK
  AccountOfOpenDatabase
  LimitInForce
  AccountExact
PROPERTIES
  CatalogsStay
SYMMETRY DbSymmetry
