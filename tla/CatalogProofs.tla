----------------------------- MODULE CatalogProofs -----------------------------
(***************************************************************************)
(* Proofs about Catalog for any number of tables, columns, slots and       *)
(* indexes, whatever steps fail and whenever processes end.                *)
(***************************************************************************)
EXTENDS Catalog, OrderLemmas

IsRow(row, rel) == row # NoRow /\ row.rel = rel

\* The numbers of the indexes of a table's columns.
Used(rel) == {attrcat[s].indexNo : s \in AttrRows(rel)} \ {NO_INDEX}

\* A row for each of the columns, and no two of them with one index.
ColumnsAre(rel, attrs) ==
  /\ {attrcat[s].attr : s \in AttrRows(rel)} = attrs
  /\ \A s, t \in AttrRows(rel) :
       /\ attrcat[s].attr = attrcat[t].attr => s = t
       /\ attrcat[s].indexNo = attrcat[t].indexNo /\ attrcat[s].indexNo # NO_INDEX => s = t

\* One row of relcat, with these counts.
EntryIs(rel, columns, indexes) ==
  \E s \in RelSlots : /\ RelRows(rel) = {s}
                      /\ relcat[s].attrCount = columns /\ relcat[s].indexCount = indexes

IndexFilesAre(rel, nos) == \A no \in IndexNo : <<rel, no>> \in indexFiles <=> no \in nos

\* The catalogs and the files are those of a table of these columns; there is
\* no table of no columns.
Described(rel, attrs) ==
  /\ ColumnsAre(rel, attrs)
  /\ IndexFilesAre(rel, Used(rel))
  /\ rel \in relFiles <=> attrs # {}
  /\ IF attrs = {} THEN RelRows(rel) = {}
     ELSE EntryIs(rel, Cardinality(attrs), Cardinality(Used(rel)))

\* A restart finds the rows of rel as they are, and no others of that name.
RelSettled(rel) ==
  \A s \in RelSlots : \A v \in relWas[s] :
     IsRow(v, rel) \/ IsRow(relcat[s], rel) => v = relcat[s]
AttrSettled(rel) ==
  \A s \in AttrSlots : \A v \in attrWas[s] :
     IsRow(v, rel) \/ IsRow(attrcat[s], rel) => v = attrcat[s]

\* A table no statement is working on.
AtRest(rel) == Described(rel, tables[rel]) /\ RelSettled(rel) /\ AttrSettled(rel)

-----------------------------------------------------------------------------
(* The statement in progress *)

TableSteps  == {"insertRelcat", "insertAttrcat", "undoFile", "destroyIndexes", "destroyFile",
                "deleteRelcat", "deleteAttrcat"}
IndexSteps  == {"buildIndex", "undoIndex", "indexAttrcat", "countIndex"}
ForcedSteps == {"forceRelcat", "forceAttrcat"}

\* Which statements come to which step.
StatementOK ==
  /\ pc \in {"idle"} \union TableSteps \union IndexSteps \union ForcedSteps
  /\ pc = "idle" <=> stmt = Nothing
  /\ pc \in TableSteps => stmt \in TableStatement
  /\ pc \in IndexSteps => stmt \in IndexStatement
  /\ pc \in ForcedSteps => stmt \in TableStatement \union IndexStatement
  /\ pc \in {"insertRelcat", "insertAttrcat", "undoFile"} => stmt.op = "create"
  /\ pc \in {"insertRelcat", "insertAttrcat"} => stmt.todo \subseteq stmt.all /\ stmt.todo # {}
  /\ pc \in {"destroyIndexes", "destroyFile"} => stmt.op = "drop"
  /\ pc = "destroyIndexes" => stmt.todo \subseteq IndexNo
  /\ pc \in {"buildIndex", "undoIndex"} => stmt.op = "index"
  /\ pc \in IndexSteps \union ForcedSteps => (stmt.op = "index" => stmt.no \in IndexNo)
  /\ pc \in IndexSteps => (stmt.op = "unindex" => stmt.no = NO_INDEX)
  \* A file that is being made, or unmade, is empty.
  /\ pc \in TableSteps => (stmt.op = "create" => stmt.rel \notin filled)

\* The columns a finished statement leaves its table with.
Outcome ==
  CASE stmt.op = "create" -> stmt.all
    [] stmt.op = "drop"   -> {}
    [] OTHER              -> tables[stmt.rel]

\* An index is made or removed, and its column's row does not say so yet.
IndexAhead(rel) ==
  \E s \in AttrSlots :
     /\ RowsOf(rel, stmt.attr) = {s}
     /\ IF stmt.op = "index"
        THEN /\ attrcat[s].indexNo = NO_INDEX /\ stmt.no \notin Used(rel)
             /\ IndexFilesAre(rel, Used(rel) \union {stmt.no})
        ELSE /\ attrcat[s].indexNo # NO_INDEX
             /\ IndexFilesAre(rel, Used(rel) \ {attrcat[s].indexNo})

\* The table of the statement in progress, if no step of it has failed.
OnItsWay(rel) ==
  /\ pc = "insertRelcat" =>
       /\ ColumnsAre(rel, {}) /\ RelRows(rel) = {} /\ IndexFilesAre(rel, {})
       /\ rel \in relFiles
       /\ stmt.todo = stmt.all
  /\ pc = "insertAttrcat" =>
       /\ ColumnsAre(rel, stmt.all \ stmt.todo) /\ Used(rel) = {} /\ IndexFilesAre(rel, {})
       /\ rel \in relFiles
       /\ EntryIs(rel, Cardinality(stmt.all), 0)
  /\ pc \in {"destroyIndexes", "destroyFile"} =>
       /\ IndexFilesAre(rel, stmt.todo)
       /\ pc = "destroyFile" => stmt.todo = {}
       /\ rel \in relFiles
  /\ pc \in {"destroyIndexes", "destroyFile", "deleteRelcat"} => \E s \in RelSlots : RelRows(rel) = {s}
  /\ pc \in {"deleteRelcat", "deleteAttrcat"} =>
       stmt.op = "drop" /\ rel \notin relFiles /\ IndexFilesAre(rel, {})
  /\ pc = "deleteAttrcat" => RelRows(rel) = {}
  /\ pc # "undoFile"
  /\ pc \in {"buildIndex", "undoIndex", "indexAttrcat"} =>
       /\ IndexAhead(rel)
       /\ EntryIs(rel, Cardinality(tables[rel]), Cardinality(Used(rel)))
       /\ RelSettled(rel) /\ AttrSettled(rel)
  /\ pc = "countIndex" =>
       /\ IndexFilesAre(rel, Used(rel))
       /\ EntryIs(rel, Cardinality(tables[rel]),
                  IF stmt.op = "index" THEN Cardinality(Used(rel)) - 1
                  ELSE Cardinality(Used(rel)) + 1)
  /\ pc \in IndexSteps =>
       ColumnsAre(rel, tables[rel]) /\ tables[rel] # {} /\ rel \in relFiles
  /\ pc \in ForcedSteps => Described(rel, Outcome)
  /\ pc = "forceAttrcat" => RelSettled(rel)

TablesKept ==
  \A rel \in Rels \ hurt :
     IF stmt # Nothing /\ stmt.rel = rel THEN OnItsWay(rel) ELSE AtRest(rel)

\* The inductive invariant.
CatalogInv == TypeOK /\ StatementOK /\ TablesKept

\* A CREATE TABLE on its way back, after one failure and in the first process.
Undoing == pc = "undoFile" \/ (pc \in {"deleteRelcat", "deleteAttrcat"} /\ stmt.op = "create")
UndoneSoFar ==
  /\ pc # "idle" => bDbOpen
  /\ faults = 0 /\ exits = 0 => hurt = {}
  /\ Undoing =>
       /\ faults >= 1
       /\ faults = 1 /\ exits = 0 =>
            /\ \A s, t \in RelRows(stmt.rel) : s = t
            /\ pc \in {"deleteAttrcat", "undoFile"} => RelRows(stmt.rel) = {}
            /\ pc = "undoFile" => AttrRows(stmt.rel) = {}

-----------------------------------------------------------------------------
(* Rows *)

\* Some row comes first in a scan.
LEMMA FirstOf ==
  ASSUME NEW S, S \subseteq Nat, S # {}
  PROVE  Min(S) \in S
<1>1. \E n \in S : \A m \in S : n <= m
  BY LeastElement
<1> QED
  BY <1>1 DEF Min

\* The rows of relcat and of attrcat are records.
LEMMA RowTypes ==
  ASSUME TypeOK, NEW rel \in Rels
  PROVE  /\ RelRows(rel) \subseteq RelSlots /\ RelSlots \subseteq Nat
         /\ \A s \in RelRows(rel) : relcat[s] \in RelcatRecord
         /\ AttrRows(rel) \subseteq AttrSlots /\ AttrSlots \subseteq Nat
         /\ \A s \in AttrRows(rel) : attrcat[s] \in AttrcatRecord
BY SlotsAssumption DEF TypeOK, RelRows, AttrRows

\* The first row of a table in relcat is the only one.
LEMMA TheEntry ==
  ASSUME TypeOK, NEW rel \in Rels, NEW s, RelRows(rel) = {s}
  PROVE  Min(RelRows(rel)) = s
BY FirstOf, RowTypes

\* The columns of a table are finitely many, and so are their index numbers.
LEMMA UsedIsFinite ==
  ASSUME TypeOK, NEW rel \in Rels
  PROVE  /\ IsFiniteSet(AttrRows(rel)) /\ Used(rel) \subseteq IndexNo
         /\ IsFiniteSet(Used(rel)) /\ Cardinality(Used(rel)) \in Nat
<1>1. IsFiniteSet(AttrRows(rel))
  BY RowTypes, SlotsAssumption, FS_Subset
<1>2. Used(rel) \subseteq IndexNo
  BY RowTypes DEF Used, AttrcatRecord
<1>3. IsFiniteSet(IndexNo)
  BY MaxIndexNoAssumption, FS_Interval DEF IndexNo
<1> QED
  BY <1>1, <1>2, <1>3, FS_Subset, FS_CardinalityType

\* A set with one row for each column has as many rows as columns.
LEMMA OneRowEach ==
  ASSUME TypeOK, NEW rel \in Rels, NEW attrs, ColumnsAre(rel, attrs)
  PROVE  /\ attrs \subseteq Attrs /\ IsFiniteSet(attrs)
         /\ Cardinality(attrs) \in Nat
         /\ Cardinality(AttrRows(rel)) = Cardinality(attrs)
<1>1. IsFiniteSet(AttrRows(rel))
  BY UsedIsFinite
<1>2. attrs = {attrcat[s].attr : s \in AttrRows(rel)}
  BY DEF ColumnsAre
<1>3. attrs \subseteq Attrs
  BY <1>2, RowTypes DEF AttrcatRecord
<1> DEFINE f == [s \in AttrRows(rel) |-> attrcat[s].attr]
<1>4. f \in Surjection(AttrRows(rel), attrs)
  BY <1>2 DEF Surjection
<1>5. f \in Injection(AttrRows(rel), attrs)
  BY <1>2 DEF ColumnsAre, Injection, IsInjective
<1> HIDE DEF f
<1> QED
  BY <1>1, <1>3, <1>4, <1>5, FS_Surjection, FS_CardinalityType

\* What the catalogs say of a table of columns attrs, GetRelInfo finds.
LEMMA InfoIsAll ==
  ASSUME TypeOK, NEW rel \in Rels, NEW attrs, attrs # {},
         ColumnsAre(rel, attrs), NEW n, EntryIs(rel, Cardinality(attrs), n)
  PROVE  RelFound(rel) /\ GetRelInfo(rel) = AttrRows(rel)
<1>1. PICK r \in RelSlots : RelRows(rel) = {r} /\ relcat[r].attrCount = Cardinality(attrs)
  BY DEF EntryIs
<1>2. /\ IsFiniteSet(AttrRows(rel))
      /\ Cardinality(AttrRows(rel)) = Cardinality(attrs) /\ Cardinality(attrs) \in Nat
  BY UsedIsFinite, OneRowEach
<1>3. relcat[Min(RelRows(rel))].attrCount = Cardinality(AttrRows(rel))
  BY <1>1, <1>2, TheEntry
<1>4. ASSUME NEW s \in AttrRows(rel)
      PROVE  Cardinality({t \in AttrRows(rel) : t < s}) < Cardinality(AttrRows(rel))
  <2> DEFINE T == {t \in AttrRows(rel) : t < s}
  <2>1. T \in SUBSET AttrRows(rel) /\ T # AttrRows(rel)
    BY RowTypes
  <2>2. /\ IsFiniteSet(T) /\ Cardinality(T) <= Cardinality(AttrRows(rel))
        /\ Cardinality(T) # Cardinality(AttrRows(rel))
    <3> HIDE DEF T
    <3> QED
      BY <1>2, <2>1, FS_Subset
  <2>3. Cardinality(T) \in Nat
    BY <2>2, FS_CardinalityType
  <2> QED
    BY <1>2, <2>2, <2>3
<1> QED
  BY <1>1, <1>2, <1>3, <1>4 DEF GetRelInfo, RelFound

\* The files of a table are as its description says.
LEMMA FilesNamed ==
  ASSUME TypeOK, NEW rel \in Rels, IndexFilesAre(rel, Used(rel))
  PROVE  IndexFilesOf(rel) = {<<rel, no>> : no \in Used(rel)}
<1>1. indexFiles \subseteq Rels \X IndexNo /\ Used(rel) \subseteq IndexNo
  BY UsedIsFinite DEF TypeOK
<1>2. ASSUME NEW f \in IndexFilesOf(rel) PROVE f \in {<<rel, no>> : no \in Used(rel)}
  <2>1. f \in indexFiles /\ f[1] = rel
    BY DEF IndexFilesOf
  <2>2. PICK no \in IndexNo : f = <<rel, no>>
    BY <1>1, <2>1
  <2> QED
    BY <2>1, <2>2 DEF IndexFilesAre
<1>3. ASSUME NEW no \in Used(rel) PROVE <<rel, no>> \in IndexFilesOf(rel)
  BY <1>1 DEF IndexFilesAre, IndexFilesOf
<1> QED
  BY <1>2, <1>3

\* A table that is described as it was declared agrees with its declaration.
LEMMA DescribedAgrees ==
  ASSUME TypeOK, NEW rel \in Rels, Described(rel, tables[rel])
  PROVE  Agrees(rel)
<1>1. ColumnsAre(rel, tables[rel]) /\ IndexFilesAre(rel, Used(rel))
  BY DEF Described
<1>2. Cardinality(AttrRows(rel)) = Cardinality(tables[rel])
  BY <1>1, OneRowEach
<1>3. IndexFilesOf(rel) = {<<rel, no>> : no \in Used(rel)}
  BY <1>1, FilesNamed
<1>4. /\ Cardinality(RelRows(rel)) = IF tables[rel] = {} THEN 0 ELSE 1
      /\ \A s \in RelRows(rel) : /\ relcat[s].attrCount = Cardinality(tables[rel])
                                 /\ relcat[s].indexCount = Cardinality(Used(rel))
  <2>1. CASE tables[rel] = {}
    BY <2>1, FS_EmptySet DEF Described
  <2>2. CASE tables[rel] # {}
    <3>1. PICK s \in RelSlots : /\ RelRows(rel) = {s}
                                /\ relcat[s].attrCount = Cardinality(tables[rel])
                                /\ relcat[s].indexCount = Cardinality(Used(rel))
      BY <2>2 DEF Described, EntryIs
    <3> QED
      BY <2>2, <3>1, FS_Singleton
  <2> QED
    BY <2>1, <2>2
<1> QED
  BY <1>1, <1>2, <1>3, <1>4 DEF Agrees, Described, ColumnsAre, Used

\* A set of index numbers that is not empty has a highest one.
LEMMA HighestOf ==
  ASSUME NEW S, S \subseteq {NO_INDEX} \union IndexNo, S # {}
  PROVE  Max(S) \in S /\ \A n \in S : n <= Max(S)
<1> DEFINE T == {MaxIndexNo - n : n \in S}
<1>1. T \subseteq Nat /\ T # {}
  BY MaxIndexNoAssumption DEF NO_INDEX, IndexNo
<1>2. PICK m \in T : \A k \in T : m <= k
  <2> HIDE DEF T
  <2> QED
    BY <1>1, LeastElement
<1>3. PICK n \in S : m = MaxIndexNo - n
  BY <1>2
<1>4. ASSUME NEW k \in S PROVE n >= k
  <2>1. m <= MaxIndexNo - k
    BY <1>2
  <2> QED
    BY <1>3, <2>1, MaxIndexNoAssumption DEF NO_INDEX, IndexNo
<1>5. \E x \in S : \A y \in S : x >= y
  BY <1>4
<1>6. Max(S) \in S /\ \A y \in S : Max(S) >= y
  BY <1>5 DEF Max
<1> QED
  BY <1>6 DEF NO_INDEX, IndexNo

\* CREATE INDEX takes a number above those of the table's columns.
LEMMA NextNoIsNew ==
  ASSUME TypeOK, NEW rel \in Rels
  PROVE  /\ NextIndexNo(rel) \in Nat
         /\ GetRelInfo(rel) = AttrRows(rel) => NextIndexNo(rel) \notin Used(rel)
<1> DEFINE S == {NO_INDEX} \union {attrcat[s].indexNo : s \in GetRelInfo(rel)}
<1>0. {NO_INDEX} \union IndexNo \subseteq Int
  BY MaxIndexNoAssumption DEF NO_INDEX, IndexNo
<1>1. S \subseteq {NO_INDEX} \union IndexNo /\ S # {} /\ NO_INDEX \in S
  <2>1. GetRelInfo(rel) \subseteq AttrRows(rel)
    BY DEF GetRelInfo
  <2> QED
    BY <2>1, RowTypes DEF AttrcatRecord
<1>2. GetRelInfo(rel) = AttrRows(rel) => Used(rel) \subseteq S
  BY DEF Used
<1>3. Max(S) \in S /\ \A n \in S : n <= Max(S)
  <2> HIDE DEF S
  <2> QED
    BY <1>1, HighestOf
<1>4. NextIndexNo(rel) = Max(S) + 1
  BY DEF NextIndexNo
<1> HIDE DEF S
<1>5. Max(S) \in Int /\ NO_INDEX <= Max(S)
  BY <1>0, <1>1, <1>3
<1>6. NextIndexNo(rel) \notin S
  BY <1>0, <1>1, <1>3, <1>4, <1>5
<1> QED
  BY <1>2, <1>4, <1>5, <1>6 DEF NO_INDEX

-----------------------------------------------------------------------------
(* Types *)

\* The table of the statement, and what it does.
LEMMA StatementTypes ==
  ASSUME StatementOK, pc # "idle"
  PROVE  /\ stmt # Nothing /\ stmt.rel \in Rels
         /\ pc \in TableSteps => /\ stmt.op \in {"create", "drop"} /\ stmt.all \subseteq Attrs
                                /\ stmt \in TableStatement
         /\ pc \in IndexSteps => /\ stmt.op \in {"index", "unindex"} /\ stmt.attr \in Attrs
                                /\ stmt.no \in {NO_INDEX} \union IndexNo
                                /\ stmt \in IndexStatement
         /\ pc \in ForcedSteps => stmt.op \in {"create", "drop", "index", "unindex"}
BY DEF StatementOK, TableSteps, IndexSteps, ForcedSteps, TableStatement, IndexStatement

\* A step that works or fails, within the bound.
LEMMA MishapTypes ==
  ASSUME TypeOK, NEW rel \in Rels,
         Works \/ Fails(rel), exits' = exits
  PROVE  /\ faults' \in Nat /\ exits' \in Nat /\ faults' + exits' <= MaxMishaps
         /\ hurt' \subseteq Rels /\ hurt \subseteq hurt'
BY MaxMishapsAssumption DEF TypeOK, Works, Fails

\* A row of the right type in a catalog leaves it a catalog.
LEMMA SetRelTypes ==
  ASSUME TypeOK, NEW s \in RelSlots, NEW row \in RelcatRecord \union {NoRow}, SetRel(s, row)
  PROVE  /\ relcat' \in [RelSlots -> RelcatRecord \union {NoRow}]
         /\ relWas' \in [RelSlots -> SUBSET (RelcatRecord \union {NoRow})]
BY DEF TypeOK, SetRel

\* Of attrcat, too.
LEMMA SetAttrTypes ==
  ASSUME TypeOK, NEW s \in AttrSlots, NEW row \in AttrcatRecord \union {NoRow}, SetAttr(s, row)
  PROVE  /\ attrcat' \in [AttrSlots -> AttrcatRecord \union {NoRow}]
         /\ attrWas' \in [AttrSlots -> SUBSET (AttrcatRecord \union {NoRow})]
BY DEF TypeOK, SetAttr

\* CREATE TABLE begins.
LEMMA CreateTableTypes ==
  ASSUME TypeOK, StatementOK, NEW rel \in Rels, NEW attrs \in SUBSET Attrs,
         CreateTable(rel, attrs)
  PROVE  TypeOK' /\ StatementOK'
<1>1. /\ faults' \in Nat /\ exits' \in Nat /\ faults' + exits' <= MaxMishaps
      /\ hurt' \subseteq Rels
  BY MishapTypes DEF CreateTable
<1>2. relFiles' \subseteq Rels /\ filled' \subseteq relFiles'
  BY DEF CreateTable, TypeOK
<1>3. CASE pc' = pc /\ stmt' = stmt
  BY <1>1, <1>2, <1>3 DEF CreateTable, Idle, TypeOK, rowVars, StatementOK, TableSteps, IndexSteps,
     ForcedSteps
<1>4. CASE /\ pc' = "insertRelcat"
           /\ stmt' = [op |-> "create", rel |-> rel, todo |-> attrs, all |-> attrs]
  <2>1. stmt' \in TableStatement /\ stmt' # Nothing
    BY <1>4, NothingAssumption DEF TableStatement
  <2>2. rel \notin filled'
    BY DEF CreateTable, TypeOK
  <2>3. TypeOK'
    BY <1>1, <1>2, <1>4, <2>1 DEF CreateTable, TypeOK, rowVars
  <2>4. /\ stmt'.op = "create" /\ stmt'.rel = rel /\ stmt'.todo = attrs /\ stmt'.all = attrs
        /\ attrs # {}
    BY <1>4 DEF CreateTable
  <2>5. pc' = "insertRelcat" /\ stmt'.todo \subseteq stmt'.all /\ stmt'.todo # {} /\ stmt'.rel \notin filled'
    BY <1>4, <2>2, <2>4
  <2>6. StatementOK'
    BY <2>1, <2>4, <2>5 DEF StatementOK, TableSteps, IndexSteps, ForcedSteps
  <2> QED
    BY <2>3, <2>6
<1> QED
  BY <1>3, <1>4 DEF CreateTable

\* The steps of CREATE TABLE after the first.
LEMMA CreatingTypes ==
  ASSUME TypeOK, StatementOK, InsertIntoRelcat \/ InsertIntoAttrcat \/ UndoFile
  PROVE  TypeOK' /\ StatementOK'
<1>1. /\ pc \in TableSteps /\ pc # "idle" /\ stmt \in TableStatement /\ stmt.rel \in Rels
      /\ stmt.op = "create" /\ stmt.all \subseteq Attrs /\ stmt.rel \notin filled
      /\ stmt # Nothing
  BY StatementTypes DEF InsertIntoRelcat, InsertIntoAttrcat, UndoFile, TableSteps, StatementOK
<1>2. /\ faults' \in Nat /\ exits' \in Nat /\ faults' + exits' <= MaxMishaps
      /\ hurt' \subseteq Rels
  BY <1>1, MishapTypes DEF InsertIntoRelcat, InsertIntoAttrcat, UndoFile
<1>3. CASE InsertIntoRelcat
  <2>1. stmt.todo \subseteq stmt.all /\ stmt.todo # {}
    BY <1>3 DEF InsertIntoRelcat, StatementOK
  <2>2. /\ relcat' \in [RelSlots -> RelcatRecord \union {NoRow}]
        /\ relWas' \in [RelSlots -> SUBSET (RelcatRecord \union {NoRow})]
    <3>1. CASE UNCHANGED <<relcat, relWas>>
      BY <3>1 DEF TypeOK
    <3>2. CASE \E s \in {t \in RelSlots : relcat[t] = NoRow} :
                 SetRel(s, [rel |-> stmt.rel, attrCount |-> Cardinality(stmt.all), indexCount |-> 0])
      <4> DEFINE row == [rel |-> stmt.rel, attrCount |-> Cardinality(stmt.all), indexCount |-> 0]
      <4>1. Cardinality(stmt.all) \in 1 .. Cardinality(Attrs)
        BY <1>1, <2>1, AttrsAssumption, FS_Subset, FS_EmptySet, FS_CardinalityType
      <4>2. row \in RelcatRecord
        BY <1>1, <4>1 DEF RelcatRecord
      <4>3. PICK s \in RelSlots : SetRel(s, row)
        BY <3>2
      <4> QED
        BY <4>2, <4>3, SetRelTypes
    <3> QED
      BY <1>3, <3>1, <3>2 DEF InsertIntoRelcat
  <2>3. TypeOK'
    BY <1>1, <1>2, <1>3, <2>2
    DEF InsertIntoRelcat, Continue, TypeOK, fileVars, StatementOK
  <2>4. StatementOK'
    BY <1>1, <1>3, <2>1
    DEF InsertIntoRelcat, Continue, fileVars, StatementOK, TableSteps, IndexSteps, ForcedSteps
  <2> QED
    BY <2>3, <2>4
<1>4. CASE InsertIntoAttrcat
  <2>1. stmt.todo \subseteq stmt.all /\ stmt.todo # {}
    BY <1>4 DEF InsertIntoAttrcat, StatementOK
  <2>2. CASE Fails(stmt.rel) /\ Continue("deleteRelcat") /\ UNCHANGED <<attrcat, attrWas>>
    BY <1>1, <1>2, <1>4, <2>2
    DEF InsertIntoAttrcat, Continue, TypeOK, fileVars, StatementOK, TableSteps, IndexSteps, ForcedSteps
  <2>3. ASSUME NEW s \in AttrSlots, NEW attr \in stmt.todo,
               SetAttr(s, [rel |-> stmt.rel, attr |-> attr, indexNo |-> NO_INDEX]),
               stmt' = [stmt EXCEPT !.todo = @ \ {attr}],
               pc' = IF stmt.todo = {attr} THEN "forceRelcat" ELSE pc
        PROVE  TypeOK' /\ StatementOK'
    <3>1. [rel |-> stmt.rel, attr |-> attr, indexNo |-> NO_INDEX] \in AttrcatRecord
      BY <1>1, <2>1 DEF AttrcatRecord
    <3>2. /\ attrcat' \in [AttrSlots -> AttrcatRecord \union {NoRow}]
          /\ attrWas' \in [AttrSlots -> SUBSET (AttrcatRecord \union {NoRow})]
      BY <2>3, <3>1, SetAttrTypes
    <3>3. /\ stmt'.op = stmt.op /\ stmt'.rel = stmt.rel /\ stmt'.all = stmt.all
          /\ stmt'.todo = stmt.todo \ {attr} /\ stmt' \in TableStatement
      BY <1>1, <2>1, <2>3 DEF TableStatement
    <3>4. stmt' # Nothing
      BY <3>3, NothingAssumption
    <3>5. TypeOK'
      BY <1>1, <1>2, <1>4, <2>3, <3>2, <3>4 DEF InsertIntoAttrcat, TypeOK, fileVars, StatementOK
    <3>6. StatementOK'
      BY <1>1, <1>4, <2>1, <2>3, <3>3, <3>4
      DEF InsertIntoAttrcat, fileVars, StatementOK, TableSteps, IndexSteps, ForcedSteps
    <3> QED
      BY <3>5, <3>6
  <2> QED
    BY <1>4, <2>2, <2>3 DEF InsertIntoAttrcat
<1>5. CASE UndoFile
  <2>1. relFiles' \subseteq Rels /\ filled' \subseteq relFiles'
    BY <1>1, <1>5 DEF UndoFile, TypeOK
  <2> QED
    BY <1>2, <1>5, <2>1
    DEF UndoFile, Return, rowVars, TypeOK, StatementOK, TableSteps, IndexSteps, ForcedSteps
<1> QED
  BY <1>3, <1>4, <1>5

\* DROP TABLE begins.
LEMMA DropTableTypes ==
  ASSUME TypeOK, StatementOK, NEW rel \in Rels, DropTable(rel)
  PROVE  TypeOK' /\ StatementOK'
<1> DEFINE nos == {attrcat[s].indexNo : s \in GetRelInfo(rel)} \ {NO_INDEX}
<1>1. nos \subseteq IndexNo
  <2>1. GetRelInfo(rel) \subseteq AttrRows(rel)
    BY DEF GetRelInfo
  <2> QED
    BY <2>1, RowTypes DEF AttrcatRecord
<1>2. /\ stmt' = [op |-> "drop", rel |-> rel, all |-> {}, todo |-> nos]
      /\ pc' = IF stmt'.todo = {} THEN "destroyFile" ELSE "destroyIndexes"
  BY DEF DropTable
<1> HIDE DEF nos
<1>3. /\ stmt'.op = "drop" /\ stmt'.rel = rel /\ stmt'.all = {} /\ stmt'.todo = nos
      /\ stmt' \in TableStatement
  <2>1. nos \in (SUBSET Attrs) \union (SUBSET IndexNo)
    BY <1>1
  <2>2. [op |-> "drop", rel |-> rel, all |-> {}, todo |-> nos] \in TableStatement
    BY <2>1 DEF TableStatement
  <2> QED
    BY <1>2, <2>2
<1>4. stmt' # Nothing
  BY <1>3, NothingAssumption
<1>5. TypeOK'
  BY <1>2, <1>4 DEF DropTable, TypeOK, rowVars, fileVars, history
<1>6. StatementOK'
  BY <1>1, <1>2, <1>3, <1>4 DEF StatementOK, TableSteps, IndexSteps, ForcedSteps
<1> QED
  BY <1>5, <1>6

\* Its other steps, two of which undo a CREATE TABLE.
LEMMA DroppingTypes ==
  ASSUME TypeOK, StatementOK,
         DestroyIndexes \/ DestroyFile \/ DeleteFromRelcat \/ DeleteFromAttrcat
  PROVE  TypeOK' /\ StatementOK'
<1>1. /\ pc \in TableSteps /\ pc # "idle" /\ stmt \in TableStatement /\ stmt.rel \in Rels
      /\ stmt # Nothing /\ stmt.op \in {"create", "drop"}
      /\ stmt.op = "create" => stmt.rel \notin filled
  BY StatementTypes
  DEF DestroyIndexes, DestroyFile, DeleteFromRelcat, DeleteFromAttrcat, TableSteps, StatementOK
<1>2. /\ faults' \in Nat /\ exits' \in Nat /\ faults' + exits' <= MaxMishaps
      /\ hurt' \subseteq Rels
  BY <1>1, MishapTypes DEF DestroyIndexes, DestroyFile, DeleteFromRelcat, DeleteFromAttrcat
<1>3. CASE DestroyIndexes
  <2>1. PICK no \in stmt.todo :
          /\ indexFiles' \subseteq indexFiles
          /\ stmt' = [stmt EXCEPT !.todo = @ \ {no}]
          /\ pc' = IF stmt.todo = {no} THEN "destroyFile" ELSE pc
    BY <1>3 DEF DestroyIndexes
  <2>2. stmt.op = "drop" /\ stmt.todo \subseteq IndexNo
    BY <1>3 DEF DestroyIndexes, StatementOK
  <2>3. /\ stmt'.op = stmt.op /\ stmt'.rel = stmt.rel /\ stmt'.all = stmt.all
        /\ stmt'.todo = stmt.todo \ {no} /\ stmt' \in TableStatement
    BY <1>1, <2>1, <2>2 DEF TableStatement
  <2>4. stmt' # Nothing
    BY <2>3, NothingAssumption
  <2>5. TypeOK'
    BY <1>1, <1>2, <1>3, <2>1, <2>4 DEF DestroyIndexes, TypeOK, rowVars, StatementOK
  <2>6. StatementOK'
    BY <1>1, <1>3, <2>1, <2>2, <2>3, <2>4
    DEF DestroyIndexes, StatementOK, TableSteps, IndexSteps, ForcedSteps
  <2> QED
    BY <2>5, <2>6
<1>4. CASE DestroyFile
  <2>1. relFiles' \subseteq Rels /\ filled' \subseteq relFiles'
    BY <1>4 DEF DestroyFile, TypeOK
  <2>2. /\ stmt.op = "drop"
        /\ \/ pc' = "deleteRelcat" /\ stmt' = stmt
           \/ pc' = "idle" /\ stmt' = Nothing
    BY <1>4 DEF DestroyFile, Continue, Return, StatementOK
  <2>3. TypeOK'
    BY <1>1, <1>2, <1>4, <2>1, <2>2 DEF DestroyFile, TypeOK, rowVars, StatementOK
  <2>4. StatementOK'
    BY <1>1, <2>2 DEF StatementOK, TableSteps, IndexSteps, ForcedSteps
  <2> QED
    BY <2>3, <2>4
<1>5. CASE DeleteFromRelcat
  <2>1. /\ relcat' \in [RelSlots -> RelcatRecord \union {NoRow}]
        /\ relWas' \in [RelSlots -> SUBSET (RelcatRecord \union {NoRow})]
    <3>1. CASE UNCHANGED <<relcat, relWas>>
      BY <3>1 DEF TypeOK
    <3>2. CASE RelRows(stmt.rel) # {} /\ SetRel(Min(RelRows(stmt.rel)), NoRow)
      <4>1. Min(RelRows(stmt.rel)) \in RelSlots
        BY <1>1, <3>2, RowTypes, FirstOf
      <4> QED
        BY <3>2, <4>1, SetRelTypes
    <3> QED
      BY <1>5, <3>1, <3>2 DEF DeleteFromRelcat
  <2>2. TypeOK'
    BY <1>1, <1>2, <1>5, <2>1 DEF DeleteFromRelcat, Continue, TypeOK, fileVars, StatementOK
  <2>3. StatementOK'
    BY <1>1, <1>5
    DEF DeleteFromRelcat, Continue, fileVars, StatementOK, TableSteps, IndexSteps, ForcedSteps
  <2> QED
    BY <2>2, <2>3
<1>6. CASE DeleteFromAttrcat
  <2>1. PICK rows \in SUBSET AttrSlots :
          /\ attrcat' = [s \in AttrSlots |-> IF s \in rows THEN NoRow ELSE attrcat[s]]
          /\ attrWas' = [s \in AttrSlots |-> attrWas[s] \union {attrcat'[s]}]
    BY <1>6, <1>1, RowTypes DEF DeleteFromAttrcat
  <2>2. /\ attrcat' \in [AttrSlots -> AttrcatRecord \union {NoRow}]
        /\ attrWas' \in [AttrSlots -> SUBSET (AttrcatRecord \union {NoRow})]
    BY <2>1 DEF TypeOK
  <2>3. TypeOK'
    BY <1>1, <1>2, <1>6, <2>2 DEF DeleteFromAttrcat, Continue, TypeOK, fileVars, StatementOK
  <2>4. StatementOK'
    BY <1>1, <1>6
    DEF DeleteFromAttrcat, Continue, fileVars, StatementOK, TableSteps, IndexSteps, ForcedSteps
  <2> QED
    BY <2>3, <2>4
<1> QED
  BY <1>3, <1>4, <1>5, <1>6

\* The end of every statement.
LEMMA ForcingTypes ==
  ASSUME TypeOK, StatementOK, ForceRelcat \/ ForceAttrcat
  PROVE  TypeOK' /\ StatementOK'
<1>1. /\ pc \in ForcedSteps /\ pc # "idle" /\ stmt.rel \in Rels /\ stmt # Nothing
      /\ stmt \in TableStatement \union IndexStatement
  BY StatementTypes DEF ForceRelcat, ForceAttrcat, ForcedSteps, StatementOK
<1>2. /\ faults' \in Nat /\ exits' \in Nat /\ faults' + exits' <= MaxMishaps
      /\ hurt' \subseteq Rels
  BY <1>1, MishapTypes DEF ForceRelcat, ForceAttrcat
<1>3. CASE ForceRelcat
  <2>1. relWas' \in [RelSlots -> SUBSET (RelcatRecord \union {NoRow})]
    BY <1>3 DEF ForceRelcat, TypeOK
  <2> QED
    BY <1>1, <1>2, <1>3, <2>1
    DEF ForceRelcat, Continue, fileVars, TypeOK, StatementOK, TableSteps, IndexSteps, ForcedSteps
<1>4. CASE ForceAttrcat
  <2>1. attrWas' \in [AttrSlots -> SUBSET (AttrcatRecord \union {NoRow})]
    BY <1>4 DEF ForceAttrcat, TypeOK
  <2>2. tables' \in [Rels -> SUBSET Attrs]
    <3>1. stmt.op = "create" => stmt.all \subseteq Attrs
      BY <1>1 DEF TableStatement, IndexStatement
    <3> QED
      BY <1>1, <1>4, <3>1 DEF ForceAttrcat, Declared, TypeOK
  <2> QED
    BY <1>1, <1>2, <1>4, <2>1, <2>2
    DEF ForceAttrcat, Return, fileVars, TypeOK, StatementOK, TableSteps, IndexSteps, ForcedSteps
<1> QED
  BY <1>3, <1>4

\* CREATE INDEX and DROP INDEX begin.
LEMMA BeginIndexTypes ==
  ASSUME TypeOK, StatementOK, NEW rel \in Rels, NEW attr \in Attrs,
         CreateIndex(rel, attr) \/ DropIndex(rel, attr)
  PROVE  TypeOK' /\ StatementOK'
<1>1. /\ faults' \in Nat /\ exits' \in Nat /\ faults' + exits' <= MaxMishaps
      /\ hurt' \subseteq Rels
  BY MishapTypes DEF CreateIndex, DropIndex
<1>2. CASE CreateIndex(rel, attr)
  <2> DEFINE no == NextIndexNo(rel)
  <2>1. no \in IndexNo
    BY <1>2, NextNoIsNew, MaxIndexNoAssumption DEF CreateIndex, IndexNo
  <2>2. indexFiles' \subseteq Rels \X IndexNo
    BY <1>2, <2>1 DEF CreateIndex, TypeOK
  <2>3. CASE pc' = pc /\ stmt' = stmt
    BY <1>1, <1>2, <2>2, <2>3
    DEF CreateIndex, Idle, rowVars, TypeOK, StatementOK, TableSteps, IndexSteps, ForcedSteps
  <2>4. CASE /\ pc' = "buildIndex"
             /\ stmt' = [op |-> "index", rel |-> rel, attr |-> attr, no |-> no]
    <3> HIDE DEF no
    <3>1. stmt' \in IndexStatement /\ stmt'.op = "index" /\ stmt'.no = no
      BY <2>1, <2>4 DEF IndexStatement
    <3>2. stmt' # Nothing
      BY <3>1, NothingAssumption
    <3>3. TypeOK'
      BY <1>1, <1>2, <2>2, <2>4, <3>2 DEF CreateIndex, Idle, rowVars, TypeOK
    <3>4. StatementOK'
      BY <2>1, <2>4, <3>1, <3>2 DEF StatementOK, TableSteps, IndexSteps, ForcedSteps
    <3> QED
      BY <3>3, <3>4
  <2> QED
    BY <1>2, <2>3, <2>4 DEF CreateIndex
<1>3. CASE DropIndex(rel, attr)
  <2>1. indexFiles' \subseteq Rels \X IndexNo
    BY <1>3 DEF DropIndex, TypeOK
  <2>2. CASE pc' = pc /\ stmt' = stmt
    BY <1>1, <1>3, <2>1, <2>2
    DEF DropIndex, Idle, rowVars, TypeOK, StatementOK, TableSteps, IndexSteps, ForcedSteps
  <2>3. CASE /\ pc' = "indexAttrcat"
             /\ stmt' = [op |-> "unindex", rel |-> rel, attr |-> attr, no |-> NO_INDEX]
    <3>1. stmt' \in IndexStatement /\ stmt'.op = "unindex" /\ stmt'.no = NO_INDEX
      BY <2>3 DEF IndexStatement
    <3>2. stmt' # Nothing
      BY <3>1, NothingAssumption
    <3>3. TypeOK'
      BY <1>1, <1>3, <2>1, <2>3, <3>2 DEF DropIndex, Idle, rowVars, TypeOK
    <3>4. StatementOK'
      BY <2>3, <3>1, <3>2 DEF StatementOK, TableSteps, IndexSteps, ForcedSteps
    <3> QED
      BY <3>3, <3>4
  <2> QED
    BY <1>3, <2>2, <2>3 DEF DropIndex
<1> QED
  BY <1>2, <1>3

\* Their other steps.
LEMMA IndexingTypes ==
  ASSUME TypeOK, StatementOK,
         BuildIndex \/ UndoIndex \/ UpdateAttrIndexNo \/ UpdateIndexCount
  PROVE  TypeOK' /\ StatementOK'
<1>1. /\ pc \in IndexSteps /\ pc # "idle" /\ stmt \in IndexStatement /\ stmt.rel \in Rels
      /\ stmt # Nothing /\ stmt.op \in {"index", "unindex"}
      /\ stmt.no \in {NO_INDEX} \union IndexNo /\ stmt.attr \in Attrs
      /\ stmt.op = "index" => stmt.no \in IndexNo
  BY StatementTypes
  DEF BuildIndex, UndoIndex, UpdateAttrIndexNo, UpdateIndexCount, IndexSteps, StatementOK
<1>2. /\ faults' \in Nat /\ exits' \in Nat /\ faults' + exits' <= MaxMishaps
      /\ hurt' \subseteq Rels
  BY <1>1, MishapTypes DEF BuildIndex, UndoIndex, UpdateAttrIndexNo, UpdateIndexCount
<1>3. CASE BuildIndex
  <2>1. stmt' = stmt /\ pc' \in {"indexAttrcat", "undoIndex"} /\ stmt.op = "index"
    BY <1>3 DEF BuildIndex, Continue, StatementOK
  <2> QED
    BY <1>1, <1>2, <1>3, <2>1
    DEF BuildIndex, rowVars, fileVars, TypeOK, StatementOK, TableSteps, IndexSteps, ForcedSteps
<1>4. CASE UndoIndex
  <2>1. indexFiles' \subseteq Rels \X IndexNo
    BY <1>4 DEF UndoIndex, TypeOK
  <2> QED
    BY <1>1, <1>2, <1>4, <2>1
    DEF UndoIndex, Return, rowVars, TypeOK, StatementOK, TableSteps, IndexSteps, ForcedSteps
<1>5. CASE UpdateAttrIndexNo
  <2>1. /\ attrcat' \in [AttrSlots -> AttrcatRecord \union {NoRow}]
        /\ attrWas' \in [AttrSlots -> SUBSET (AttrcatRecord \union {NoRow})]
    <3>1. CASE UNCHANGED <<attrcat, attrWas>>
      BY <3>1 DEF TypeOK
    <3> DEFINE s == Min(RowsOf(stmt.rel, stmt.attr))
    <3>2. CASE /\ RowsOf(stmt.rel, stmt.attr) # {}
               /\ SetAttr(s, [attrcat[s] EXCEPT !.indexNo = stmt.no])
      <4>1. /\ RowsOf(stmt.rel, stmt.attr) \subseteq AttrRows(stmt.rel)
            /\ RowsOf(stmt.rel, stmt.attr) \subseteq Nat
        BY <1>1, RowTypes DEF RowsOf
      <4>2. s \in RowsOf(stmt.rel, stmt.attr)
        BY <3>2, <4>1, FirstOf
      <4> HIDE DEF s
      <4>3. s \in AttrSlots /\ attrcat[s] \in AttrcatRecord
        BY <1>1, <4>1, <4>2, RowTypes
      <4>4. [attrcat[s] EXCEPT !.indexNo = stmt.no] \in AttrcatRecord
        BY <1>1, <4>3 DEF AttrcatRecord
      <4> QED
        BY <3>2, <4>3, <4>4, SetAttrTypes
    <3> QED
      BY <1>5, <3>1, <3>2 DEF UpdateAttrIndexNo
  <2>3. \/ pc' = "countIndex" /\ stmt' = stmt
        \/ pc' = "undoIndex" /\ stmt' = stmt /\ stmt.op = "index"
        \/ pc' = "idle" /\ stmt' = Nothing
    BY <1>5 DEF UpdateAttrIndexNo, Continue, Return
  <2>4. stmt.op = "unindex" => stmt.no = NO_INDEX
    BY <1>1 DEF StatementOK
  <2>5. TypeOK'
    BY <1>1, <1>2, <1>5, <2>1, <2>3 DEF UpdateAttrIndexNo, fileVars, TypeOK
  <2>6. StatementOK'
    BY <1>1, <2>3, <2>4 DEF StatementOK, TableSteps, IndexSteps, ForcedSteps
  <2> QED
    BY <2>5, <2>6
<1>6. CASE UpdateIndexCount
  <2>1. /\ relcat' \in [RelSlots -> RelcatRecord \union {NoRow}]
        /\ relWas' \in [RelSlots -> SUBSET (RelcatRecord \union {NoRow})]
    <3>1. CASE UNCHANGED <<relcat, relWas>>
      BY <3>1 DEF TypeOK
    <3> DEFINE s   == Min(RelRows(stmt.rel))
               n   == relcat[s].indexCount
               new == IF stmt.op = "index" THEN n + 1 ELSE IF n > 0 THEN n - 1 ELSE 0
    <3>2. CASE /\ RelRows(stmt.rel) # {}
               /\ SetRel(s, [relcat[s] EXCEPT !.indexCount = new])
      <4>1. s \in RelRows(stmt.rel)
        BY <1>1, <3>2, FirstOf, RowTypes
      <4> HIDE DEF s
      <4>2. s \in RelSlots /\ relcat[s] \in RelcatRecord
        BY <1>1, <4>1, RowTypes
      <4>3. new \in Nat
        BY <4>2 DEF RelcatRecord
      <4> HIDE DEF new
      <4>4. [relcat[s] EXCEPT !.indexCount = new] \in RelcatRecord
        BY <4>2, <4>3 DEF RelcatRecord
      <4> QED
        BY <3>2, <4>2, <4>4, SetRelTypes
    <3> QED
      BY <1>6, <3>1, <3>2 DEF UpdateIndexCount
  <2>2. \/ pc' = "forceRelcat" /\ stmt' = stmt
        \/ pc' = "idle" /\ stmt' = Nothing
    BY <1>6 DEF UpdateIndexCount, Continue, Return
  <2>3. TypeOK'
    BY <1>1, <1>2, <1>6, <2>1, <2>2 DEF UpdateIndexCount, fileVars, TypeOK
  <2>4. StatementOK'
    BY <1>1, <2>2 DEF StatementOK, TableSteps, IndexSteps, ForcedSteps
  <2> QED
    BY <2>3, <2>4
<1> QED
  BY <1>3, <1>4, <1>5, <1>6

\* Tuples, and the database.
LEMMA DatabaseTypes ==
  ASSUME TypeOK, StatementOK,
         \/ \E rel \in Rels : InsertTuples(rel) \/ DeleteTuples(rel)
         \/ OpenDb \/ CloseDb
  PROVE  TypeOK' /\ StatementOK'
<1>1. CASE \E rel \in Rels : InsertTuples(rel) \/ DeleteTuples(rel)
  BY <1>1 DEF InsertTuples, DeleteTuples, Idle, rowVars, history, TypeOK, StatementOK,
     TableSteps, IndexSteps, ForcedSteps
<1>2. CASE OpenDb
  BY <1>2 DEF OpenDb, rowVars, fileVars, history, TypeOK, StatementOK
<1>3. CASE CloseDb
  <2>1. /\ relWas' \in [RelSlots -> SUBSET (RelcatRecord \union {NoRow})]
        /\ attrWas' \in [AttrSlots -> SUBSET (AttrcatRecord \union {NoRow})]
    BY <1>3 DEF CloseDb, TypeOK
  <2> QED
    BY <1>3, <2>1 DEF CloseDb, fileVars, history, TypeOK, StatementOK
<1> QED
  BY <1>1, <1>2, <1>3

\* A restart finds rows.
LEMMA ExitTypes ==
  ASSUME TypeOK, StatementOK, Exit
  PROVE  TypeOK' /\ StatementOK'
<1>1. /\ relcat' \in [RelSlots -> RelcatRecord \union {NoRow}]
      /\ attrcat' \in [AttrSlots -> AttrcatRecord \union {NoRow}]
  <2>1. /\ UNION {relWas[s] : s \in RelSlots} \subseteq RelcatRecord \union {NoRow}
        /\ UNION {attrWas[s] : s \in AttrSlots} \subseteq AttrcatRecord \union {NoRow}
    BY DEF TypeOK
  <2>2. /\ relcat' \in [RelSlots -> UNION {relWas[s] : s \in RelSlots}]
        /\ attrcat' \in [AttrSlots -> UNION {attrWas[s] : s \in AttrSlots}]
    BY DEF Exit
  <2> QED
    BY <2>1, <2>2
<1>2. /\ relWas' \in [RelSlots -> SUBSET (RelcatRecord \union {NoRow})]
      /\ attrWas' \in [AttrSlots -> SUBSET (AttrcatRecord \union {NoRow})]
  BY <1>1 DEF Exit
<1>3. hurt' \subseteq Rels /\ exits' \in Nat /\ faults' + exits' <= MaxMishaps
  BY StatementTypes, MaxMishapsAssumption DEF Exit, TypeOK
<1> QED
  BY <1>1, <1>2, <1>3
  DEF Exit, fileVars, TypeOK, StatementOK, TableSteps, IndexSteps, ForcedSteps

\* Every step keeps the types, and leads a statement where it may be.
LEMMA TypesNext ==
  ASSUME TypeOK, StatementOK, [Next]_vars
  PROVE  TypeOK' /\ StatementOK'
<1>1. CASE UNCHANGED vars
  BY <1>1 DEF vars, rowVars, fileVars, history, TypeOK, StatementOK
<1> QED
  BY <1>1, CreateTableTypes, CreatingTypes, DropTableTypes, DroppingTypes, ForcingTypes,
     BeginIndexTypes, IndexingTypes, DatabaseTypes, ExitTypes
  DEF Next

-----------------------------------------------------------------------------
(* Tables a step has nothing to do with *)

\* Each slot of a catalog keeps its row or has none of rel's, before and after,
\* and a restart finds what it would have found, or the new row.
SparesRows(rel) ==
  /\ \A s \in RelSlots :
       /\ relWas'[s] \subseteq relWas[s] \union {relcat'[s]}
       /\ relcat'[s] # relcat[s] => ~ IsRow(relcat[s], rel) /\ ~ IsRow(relcat'[s], rel)
  /\ \A s \in AttrSlots :
       /\ attrWas'[s] \subseteq attrWas[s] \union {attrcat'[s]}
       /\ attrcat'[s] # attrcat[s] => ~ IsRow(attrcat[s], rel) /\ ~ IsRow(attrcat'[s], rel)

SparesFiles(rel) ==
  /\ \A no \in IndexNo : <<rel, no>> \in indexFiles' <=> <<rel, no>> \in indexFiles
  /\ rel \in relFiles' <=> rel \in relFiles

Spares(rel) == SparesRows(rel) /\ SparesFiles(rel) /\ tables'[rel] = tables[rel]

\* The rows that are spared are all there, and as they were.
LEMMA SparedRows ==
  ASSUME NEW rel \in Rels, SparesRows(rel)
  PROVE  /\ RelRows(rel)' = RelRows(rel) /\ \A s \in RelRows(rel) : relcat'[s] = relcat[s]
         /\ AttrRows(rel)' = AttrRows(rel) /\ \A s \in AttrRows(rel) : attrcat'[s] = attrcat[s]
BY DEF SparesRows, RelRows, AttrRows, IsRow

\* So what the catalogs say of the table is what they said.
LEMMA SameRows ==
  ASSUME NEW rel \in Rels,
         AttrRows(rel)' = AttrRows(rel), \A s \in AttrRows(rel) : attrcat'[s] = attrcat[s]
  PROVE  /\ \A attrs : ColumnsAre(rel, attrs) => ColumnsAre(rel, attrs)'
         /\ Used(rel)' = Used(rel)
         /\ \A attr : RowsOf(rel, attr)' = RowsOf(rel, attr)
BY DEF ColumnsAre, Used, RowsOf

\* And so is its row of relcat.
LEMMA SameEntry ==
  ASSUME NEW rel \in Rels,
         RelRows(rel)' = RelRows(rel), \A s \in RelRows(rel) : relcat'[s] = relcat[s]
  PROVE  \A m, n : EntryIs(rel, m, n) => EntryIs(rel, m, n)'
BY DEF EntryIs

\* A row that is on disk stays on disk.
LEMMA SpareStaysSettled ==
  ASSUME NEW rel \in Rels, SparesRows(rel)
  PROVE  /\ RelSettled(rel) => RelSettled(rel)'
         /\ AttrSettled(rel) => AttrSettled(rel)'
BY DEF SparesRows, RelSettled, AttrSettled, IsRow

\* A table whose rows and files are spared is described as before.
LEMMA SpareStaysDescribed ==
  ASSUME NEW rel \in Rels, SparesRows(rel), SparesFiles(rel), NEW attrs, Described(rel, attrs)
  PROVE  Described(rel, attrs)'
<1>1. /\ RelRows(rel)' = RelRows(rel) /\ \A s \in RelRows(rel) : relcat'[s] = relcat[s]
      /\ AttrRows(rel)' = AttrRows(rel) /\ \A s \in AttrRows(rel) : attrcat'[s] = attrcat[s]
  BY SparedRows
<1>2. ColumnsAre(rel, attrs)' /\ Used(rel)' = Used(rel)
  BY <1>1, SameRows DEF Described
<1>3. \A m, n : EntryIs(rel, m, n) => EntryIs(rel, m, n)'
  BY <1>1, SameEntry
<1> QED
  BY <1>1, <1>2, <1>3 DEF Described, SparesFiles, IndexFilesAre

\* A table at rest that a step spares stays at rest.
LEMMA SpareStaysAtRest ==
  ASSUME NEW rel \in Rels, AtRest(rel), Spares(rel)
  PROVE  AtRest(rel)'
<1>0. PICK attrs : attrs = tables[rel]
  OBVIOUS
<1>1. Described(rel, attrs)'
  <2>1. Described(rel, attrs) /\ SparesRows(rel) /\ SparesFiles(rel)
    BY <1>0 DEF AtRest, Spares
  <2> QED
    BY <2>1, SpareStaysDescribed
<1>2. RelSettled(rel)' /\ AttrSettled(rel)'
  BY SpareStaysSettled DEF AtRest, Spares
<1> QED
  BY <1>0, <1>1, <1>2 DEF AtRest, Spares

-----------------------------------------------------------------------------
(* One step of a statement *)

\* A step on table rel spares the others; what becomes of rel is left to show.
LEMMA OneTableStep ==
  ASSUME TablesKept, NEW rel \in Rels,
         stmt = Nothing \/ stmt.rel = rel, stmt' = Nothing \/ stmt'.rel = rel,
         hurt \subseteq hurt', \A q \in Rels \ {rel} : Spares(q),
         rel \notin hurt' => IF stmt' # Nothing THEN OnItsWay(rel)' ELSE AtRest(rel)'
  PROVE  TablesKept'
<1>1. ASSUME NEW q \in Rels \ {rel}, q \notin hurt'
      PROVE  AtRest(q)' /\ ~ (stmt' # Nothing /\ stmt'.rel = q)
  <2>1. AtRest(q)
    BY <1>1 DEF TablesKept
  <2> QED
    BY <1>1, <2>1, SpareStaysAtRest
<1> QED
  BY <1>1 DEF TablesKept

\* What is known of the table of a statement, if nothing has happened to it.
LEMMA NotHurt ==
  ASSUME TablesKept, NEW rel \in Rels, rel \notin hurt
  PROVE  /\ stmt # Nothing /\ stmt.rel = rel => OnItsWay(rel)
         /\ stmt = Nothing => AtRest(rel)
BY DEF TablesKept

\* Steps that leave the rows alone, or give one slot another row of rel.
LEMMA SameRowsSpare ==
  ASSUME NEW q, UNCHANGED rowVars
  PROVE  SparesRows(q)
BY DEF SparesRows, rowVars

\* A slot that had no row of q, and has none, is nothing to q: in relcat,
LEMMA SetRelSpares ==
  ASSUME TypeOK, NEW q, NEW s \in RelSlots, NEW row, SetRel(s, row),
         ~ IsRow(relcat[s], q), ~ IsRow(row, q), UNCHANGED <<attrcat, attrWas>>
  PROVE  SparesRows(q)
BY DEF SparesRows, SetRel, TypeOK

\* and in attrcat.
LEMMA SetAttrSpares ==
  ASSUME TypeOK, NEW q, NEW s \in AttrSlots, NEW row, SetAttr(s, row),
         ~ IsRow(attrcat[s], q), ~ IsRow(row, q), UNCHANGED <<relcat, relWas>>
  PROVE  SparesRows(q)
BY DEF SparesRows, SetAttr, TypeOK

\* Without columns there are no rows and no numbers.
LEMMA NoColumns ==
  ASSUME NEW rel
  PROVE  /\ ColumnsAre(rel, {}) <=> AttrRows(rel) = {}
         /\ AttrRows(rel) = {} => Used(rel) = {}
BY DEF ColumnsAre, Used

\* CREATE TABLE begins where there is no table.
LEMMA CreateTableKeeps ==
  ASSUME TypeOK, StatementOK, TablesKept, NEW rel \in Rels, NEW attrs \in SUBSET Attrs,
         CreateTable(rel, attrs), StatementOK'
  PROVE  TablesKept'
<1>1. stmt = Nothing /\ hurt \subseteq hurt' /\ UNCHANGED <<rowVars, indexFiles, tables>>
  BY DEF CreateTable, Idle, StatementOK, Works, Fails
<1>2. \A q \in Rels \ {rel} : Spares(q)
  <2> SUFFICES ASSUME NEW q \in Rels \ {rel} PROVE Spares(q)
    OBVIOUS
  <2>1. SparesRows(q)
    BY <1>1, SameRowsSpare
  <2> QED
    BY <1>1, <2>1 DEF CreateTable, Spares, SparesFiles
<1>3. stmt' = Nothing \/ stmt'.rel = rel
  BY <1>1 DEF CreateTable
<1>4. ASSUME rel \notin hurt' PROVE stmt' # Nothing /\ OnItsWay(rel)'
  <2>1. /\ pc' = "insertRelcat" /\ rel \in relFiles'
        /\ stmt' = [op |-> "create", rel |-> rel, todo |-> attrs, all |-> attrs]
    BY <1>4 DEF CreateTable, Fails
  <2>2. AtRest(rel)
    BY <1>1, <1>4, NotHurt
  <2>3. RelRows(rel) = {} /\ tables[rel] = {}
    BY <2>2 DEF CreateTable, AtRest, Described, EntryIs
  <2>4. ColumnsAre(rel, {}) /\ IndexFilesAre(rel, {})
    BY <2>2, <2>3, NoColumns DEF AtRest, Described
  <2>5. ColumnsAre(rel, {})' /\ IndexFilesAre(rel, {})' /\ RelRows(rel)' = {}
    BY <1>1, <2>3, <2>4 DEF rowVars, ColumnsAre, IndexFilesAre, AttrRows, RelRows
  <2>6. stmt'.todo = stmt'.all
    BY <2>1
  <2>7. stmt' # Nothing
    BY <2>1 DEF StatementOK
  <2> QED
    BY <2>1, <2>5, <2>6, <2>7 DEF OnItsWay, IndexSteps, ForcedSteps
<1> QED
  BY <1>1, <1>2, <1>3, <1>4, OneTableStep

\* A slot of a catalog that takes a row of rel, or loses it.
LEMMA SetRelRows ==
  ASSUME TypeOK, NEW rel \in Rels, NEW s \in RelSlots, NEW row \in RelcatRecord \union {NoRow},
         IsRow(row, rel) \/ row = NoRow, SetRel(s, row)
  PROVE  /\ RelRows(rel)' = IF row = NoRow THEN RelRows(rel) \ {s} ELSE RelRows(rel) \union {s}
         /\ relcat'[s] = row /\ \A t \in RelSlots \ {s} : relcat'[t] = relcat[t]
BY DEF TypeOK, SetRel, RelRows, IsRow

\* The same of attrcat.
LEMMA SetAttrRows ==
  ASSUME TypeOK, NEW rel \in Rels, NEW s \in AttrSlots, NEW row \in AttrcatRecord,
         IsRow(row, rel), SetAttr(s, row)
  PROVE  /\ AttrRows(rel)' = AttrRows(rel) \union {s}
         /\ attrcat'[s] = row /\ \A t \in AttrSlots \ {s} : attrcat'[t] = attrcat[t]
BY DEF TypeOK, SetAttr, AttrRows, IsRow

\* The row of relcat.
LEMMA InsertIntoRelcatKeeps ==
  ASSUME TypeOK, StatementOK, TablesKept, NEW rel \in Rels, rel = stmt.rel, InsertIntoRelcat
  PROVE  TablesKept'
<1>1. /\ pc = "insertRelcat" /\ stmt # Nothing /\ stmt.op = "create" /\ stmt.all \subseteq Attrs
      /\ stmt.todo # {} /\ stmt.todo \subseteq stmt.all
  BY StatementTypes DEF InsertIntoRelcat, StatementOK, TableSteps
<1>2. /\ hurt \subseteq hurt' /\ UNCHANGED <<indexFiles, relFiles, tables, stmt, attrcat, attrWas>>
  BY DEF InsertIntoRelcat, Works, Fails, Continue, fileVars
<1> DEFINE row == [rel |-> stmt.rel, attrCount |-> Cardinality(stmt.all), indexCount |-> 0]
<1>3. CASE Fails(stmt.rel) /\ UNCHANGED <<relcat, relWas>>
  <2>1. rel \in hurt'
    BY <1>3 DEF Fails
  <2>2. \A q : Spares(q)
    BY <1>2, <1>3, SameRowsSpare DEF rowVars, Spares, SparesFiles
  <2> QED
    BY <1>1, <1>2, <2>1, <2>2, OneTableStep
<1>4. ASSUME Works, NEW s \in RelSlots, relcat[s] = NoRow, SetRel(s, row), pc' = "insertAttrcat"
      PROVE  TablesKept'
  <2>1. Cardinality(stmt.all) \in 1 .. Cardinality(Attrs)
    BY <1>1, AttrsAssumption, FS_Subset, FS_EmptySet, FS_CardinalityType
  <2>2. row \in RelcatRecord /\ row.rel = rel /\ row # NoRow
    BY <2>1, NoRowAssumption DEF RelcatRecord
  <2>3. row.attrCount = Cardinality(stmt.all) /\ row.indexCount = 0
    OBVIOUS
  <2> HIDE DEF row
  <2>4. ASSUME NEW q \in Rels \ {rel} PROVE Spares(q)
    <3>1. SparesRows(q)
      BY <1>2, <1>4, <2>2, SetRelSpares DEF IsRow
    <3> QED
      BY <1>2, <3>1 DEF Spares, SparesFiles
  <2>5. ASSUME rel \notin hurt' PROVE OnItsWay(rel)'
    <3>1. OnItsWay(rel)
      BY <1>1, <1>2, <2>5, NotHurt
    <3>2. /\ ColumnsAre(rel, {}) /\ RelRows(rel) = {} /\ IndexFilesAre(rel, {})
          /\ rel \in relFiles /\ stmt.todo = stmt.all
      BY <1>1, <3>1 DEF OnItsWay
    <3>3. ColumnsAre(rel, {})' /\ Used(rel)' = {} /\ IndexFilesAre(rel, {})'
      BY <1>2, <3>2, NoColumns DEF ColumnsAre, Used, AttrRows, IndexFilesAre
    <3>4. RelRows(rel)' = {s} /\ relcat'[s] = row
      BY <1>4, <2>2, <3>2, SetRelRows DEF IsRow
    <3>5. EntryIs(rel, Cardinality(stmt.all), 0)'
      BY <1>2, <2>3, <3>4 DEF EntryIs
    <3>6. stmt'.all \ stmt'.todo = {} /\ stmt' = stmt
      BY <1>2, <3>2
    <3> QED
      BY <1>2, <1>4, <3>2, <3>3, <3>5, <3>6 DEF OnItsWay, IndexSteps, ForcedSteps
  <2> QED
    BY <1>1, <1>2, <2>4, <2>5, OneTableStep
<1> QED
  BY <1>3, <1>4 DEF InsertIntoRelcat, Continue

\* The rows of attrcat.
LEMMA InsertIntoAttrcatKeeps ==
  ASSUME TypeOK, StatementOK, TablesKept, NEW rel \in Rels, rel = stmt.rel, InsertIntoAttrcat,
         StatementOK'
  PROVE  TablesKept'
<1>1. /\ pc = "insertAttrcat" /\ stmt # Nothing /\ stmt.op = "create" /\ stmt.all \subseteq Attrs
      /\ stmt.todo # {} /\ stmt.todo \subseteq stmt.all /\ stmt \in TableStatement
  BY StatementTypes DEF InsertIntoAttrcat, StatementOK, TableSteps
<1>2. /\ hurt \subseteq hurt' /\ UNCHANGED <<indexFiles, relFiles, tables, relcat, relWas>>
  BY DEF InsertIntoAttrcat, Works, Fails, fileVars
<1>3. CASE Fails(stmt.rel) /\ Continue("deleteRelcat") /\ UNCHANGED <<attrcat, attrWas>>
  <2>1. rel \in hurt' /\ stmt' = stmt
    BY <1>3 DEF Fails, Continue
  <2>2. \A q : Spares(q)
    BY <1>2, <1>3, SameRowsSpare DEF rowVars, Spares, SparesFiles
  <2> QED
    BY <1>1, <1>2, <2>1, <2>2, OneTableStep
<1>4. ASSUME Works, NEW s \in AttrSlots, attrcat[s] = NoRow, NEW attr \in stmt.todo,
             SetAttr(s, [rel |-> stmt.rel, attr |-> attr, indexNo |-> NO_INDEX]),
             stmt' = [stmt EXCEPT !.todo = @ \ {attr}],
             pc' = IF stmt.todo = {attr} THEN "forceRelcat" ELSE pc
      PROVE  TablesKept'
  <2> DEFINE row == [rel |-> stmt.rel, attr |-> attr, indexNo |-> NO_INDEX]
  <2>1. row \in AttrcatRecord /\ row.rel = rel /\ row # NoRow
    BY <1>1, NoRowAssumption DEF AttrcatRecord
  <2>2. row.attr = attr /\ row.indexNo = NO_INDEX /\ SetAttr(s, row)
    BY <1>4
  <2> HIDE DEF row
  <2>3. /\ stmt'.op = "create" /\ stmt'.rel = rel /\ stmt'.all = stmt.all
        /\ stmt'.todo = stmt.todo \ {attr}
    BY <1>1, <1>4 DEF TableStatement
  <2>4. ASSUME NEW q \in Rels \ {rel} PROVE Spares(q)
    <3>1. SparesRows(q)
      BY <1>2, <1>4, <2>1, <2>2, SetAttrSpares DEF IsRow
    <3> QED
      BY <1>2, <3>1 DEF Spares, SparesFiles
  <2>5. stmt' # Nothing
    BY <1>1, <1>4 DEF StatementOK
  <2>6. ASSUME rel \notin hurt' PROVE OnItsWay(rel)'
    <3>1. OnItsWay(rel)
      BY <1>1, <1>2, <2>6, NotHurt
    <3> DEFINE old == stmt.all \ stmt.todo
               new == stmt.all \ stmt'.todo
    <3>2. /\ ColumnsAre(rel, old) /\ Used(rel) = {} /\ IndexFilesAre(rel, {})
          /\ rel \in relFiles /\ EntryIs(rel, Cardinality(stmt.all), 0)
      BY <1>1, <3>1 DEF OnItsWay
    <3>3. /\ AttrRows(rel)' = AttrRows(rel) \union {s} /\ s \notin AttrRows(rel)
          /\ attrcat'[s] = row /\ \A t \in AttrRows(rel) : attrcat'[t] = attrcat[t]
      <4>1. AttrRows(rel) \subseteq AttrSlots /\ s \notin AttrRows(rel)
        BY <1>4 DEF AttrRows
      <4> QED
        BY <2>1, <2>2, <4>1, SetAttrRows DEF IsRow
    <3>4. \A t \in AttrRows(rel) : attrcat[t].indexNo = NO_INDEX /\ attrcat[t].attr # attr
      BY <3>2 DEF ColumnsAre, Used
    <3>5. Used(rel)' = {}
      BY <2>2, <3>3, <3>4 DEF Used
    <3>6. PICK cs : cs = new
      OBVIOUS
    <3>7. ColumnsAre(rel, cs)'
      <4>1. cs = old \union {attr}
        BY <1>1, <2>3, <3>6
      <4>2. {attrcat'[t].attr : t \in AttrRows(rel)'} = cs
        <5>1. {attrcat[t].attr : t \in AttrRows(rel)} = old
          BY <3>2 DEF ColumnsAre
        <5> HIDE DEF old
        <5> QED
          BY <2>2, <3>3, <4>1, <5>1
      <4>3. \A t, u \in AttrRows(rel)' :
              /\ attrcat'[t].attr = attrcat'[u].attr => t = u
              /\ attrcat'[t].indexNo = NO_INDEX
        BY <2>2, <3>2, <3>3, <3>4 DEF ColumnsAre
      <4> QED
        BY <4>2, <4>3 DEF ColumnsAre
    <3>8. EntryIs(rel, Cardinality(stmt.all), 0)' /\ IndexFilesAre(rel, {})'
      <4>1. RelRows(rel)' = RelRows(rel)
        BY <1>2 DEF RelRows
      <4> QED
        BY <1>2, <2>3, <3>2, <4>1 DEF EntryIs, IndexFilesAre
    <3>9. CASE pc' = "insertAttrcat"
      BY <1>2, <2>3, <3>2, <3>5, <3>6, <3>7, <3>8, <3>9 DEF OnItsWay, IndexSteps, ForcedSteps
    <3>10. CASE stmt.todo = {attr} /\ pc' = "forceRelcat"
      <4>1. cs = stmt.all /\ cs # {} /\ Cardinality({}) = 0
        BY <1>1, <2>3, <3>6, <3>10, FS_EmptySet
      <4>2. Outcome' = cs
        BY <2>3, <4>1 DEF Outcome
      <4>3. Described(rel, cs)'
        BY <1>2, <2>3, <3>2, <3>5, <3>7, <3>8, <4>1 DEF Described
      <4> QED
        BY <3>10, <4>2, <4>3 DEF OnItsWay, IndexSteps, ForcedSteps
    <3> QED
      BY <1>1, <1>4, <3>9, <3>10
  <2> QED
    BY <1>1, <1>2, <2>3, <2>4, <2>5, <2>6, OneTableStep
<1> QED
  BY <1>3, <1>4 DEF InsertIntoAttrcat

\* Undoing CREATE TABLE.
LEMMA UndoFileKeeps ==
  ASSUME TypeOK, StatementOK, TablesKept, NEW rel \in Rels, rel = stmt.rel, UndoFile
  PROVE  TablesKept'
<1>1. pc = "undoFile" /\ stmt # Nothing /\ stmt' = Nothing
  BY DEF UndoFile, StatementOK, Return
<1>2. hurt \subseteq hurt' /\ UNCHANGED <<indexFiles, tables, rowVars>>
  BY DEF UndoFile, Works, Fails
<1>3. rel \in hurt'
  BY <1>1, <1>2, NotHurt DEF OnItsWay
<1>4. ASSUME NEW q \in Rels \ {rel} PROVE Spares(q)
  BY <1>2, SameRowsSpare DEF UndoFile, Spares, SparesFiles
<1> QED
  BY <1>1, <1>2, <1>3, <1>4, OneTableStep

\* DROP TABLE begins with the indexes that the catalogs, and the files, have.
LEMMA DropTableKeeps ==
  ASSUME TypeOK, StatementOK, TablesKept, NEW rel \in Rels, DropTable(rel), StatementOK'
  PROVE  TablesKept'
<1>1. /\ stmt = Nothing /\ hurt' = hurt
      /\ UNCHANGED <<rowVars, relFiles, indexFiles, tables>>
  BY DEF DropTable, Idle, StatementOK, fileVars, history
<1> DEFINE nos == {attrcat[s].indexNo : s \in GetRelInfo(rel)} \ {NO_INDEX}
<1>2. /\ stmt'.op = "drop" /\ stmt'.rel = rel /\ stmt'.todo = nos
      /\ pc' = IF nos = {} THEN "destroyFile" ELSE "destroyIndexes"
  <2>1. /\ stmt' = [op |-> "drop", rel |-> rel, all |-> {}, todo |-> nos]
        /\ pc' = IF stmt'.todo = {} THEN "destroyFile" ELSE "destroyIndexes"
    BY DEF DropTable
  <2> HIDE DEF nos
  <2> QED
    BY <2>1
<1>3. stmt' # Nothing
  BY <1>2 DEF StatementOK
<1>4. \A q \in Rels \ {rel} : Spares(q)
  BY <1>1, SameRowsSpare DEF Spares, SparesFiles
<1>5. ASSUME rel \notin hurt' PROVE OnItsWay(rel)'
  <2>1. AtRest(rel) /\ RelRows(rel) # {}
    BY <1>1, <1>5, NotHurt DEF DropTable, RelFound
  <2>2. PICK attrs : attrs = tables[rel]
    OBVIOUS
  <2>3. /\ attrs # {} /\ ColumnsAre(rel, attrs) /\ IndexFilesAre(rel, Used(rel))
        /\ EntryIs(rel, Cardinality(attrs), Cardinality(Used(rel))) /\ rel \in relFiles
    BY <2>1, <2>2 DEF AtRest, Described
  <2>4. nos = Used(rel)
    BY <2>3, InfoIsAll DEF Used
  <2> HIDE DEF nos
  <2>5. IndexFilesAre(rel, stmt.todo)'
    BY <1>1, <1>2, <2>3, <2>4 DEF IndexFilesAre
  <2>6. rel \in relFiles' /\ \E s \in RelSlots : RelRows(rel)' = {s}
    BY <1>1, <2>3 DEF rowVars, RelRows, EntryIs
  <2> QED
    BY <1>2, <2>5, <2>6 DEF OnItsWay, IndexSteps, ForcedSteps
<1> QED
  BY <1>1, <1>2, <1>3, <1>4, <1>5, OneTableStep

\* The index files go.
LEMMA DestroyIndexesKeeps ==
  ASSUME TypeOK, StatementOK, TablesKept, NEW rel \in Rels, rel = stmt.rel, DestroyIndexes,
         StatementOK'
  PROVE  TablesKept'
<1>1. /\ pc = "destroyIndexes" /\ stmt # Nothing /\ stmt.op = "drop" /\ stmt.todo \subseteq IndexNo
      /\ stmt \in TableStatement
  BY StatementTypes DEF DestroyIndexes, StatementOK, TableSteps
<1>2. /\ hurt \subseteq hurt' /\ UNCHANGED <<rowVars, relFiles, tables>>
  BY DEF DestroyIndexes, Works, Fails
<1>3. PICK no \in stmt.todo :
        /\ \/ Works /\ indexFiles' = indexFiles \ {<<stmt.rel, no>>}
           \/ Fails(stmt.rel) /\ UNCHANGED indexFiles
        /\ stmt' = [stmt EXCEPT !.todo = @ \ {no}]
        /\ pc' = IF stmt.todo = {no} THEN "destroyFile" ELSE pc
  BY DEF DestroyIndexes
<1>4. stmt'.op = "drop" /\ stmt'.rel = rel /\ stmt'.todo = stmt.todo \ {no}
  BY <1>1, <1>3 DEF TableStatement
<1>5. stmt' # Nothing
  BY <1>1, <1>3 DEF StatementOK
<1>6. ASSUME NEW q \in Rels \ {rel} PROVE Spares(q)
  BY <1>2, <1>3, SameRowsSpare DEF Spares, SparesFiles
<1>7. ASSUME rel \notin hurt' PROVE OnItsWay(rel)'
  <2>1. OnItsWay(rel)
    BY <1>1, <1>2, <1>7, NotHurt
  <2>2. /\ IndexFilesAre(rel, stmt.todo) /\ rel \in relFiles
        /\ \E s \in RelSlots : RelRows(rel) = {s}
    BY <1>1, <2>1 DEF OnItsWay
  <2>3. indexFiles' = indexFiles \ {<<rel, no>>}
    BY <1>3, <1>7 DEF Fails
  <2>4. IndexFilesAre(rel, stmt.todo)'
    BY <1>1, <1>4, <2>2, <2>3 DEF IndexFilesAre
  <2>5. rel \in relFiles' /\ \E s \in RelSlots : RelRows(rel)' = {s}
    BY <1>2, <2>2 DEF rowVars, RelRows
  <2>6. \/ pc' = "destroyFile" /\ stmt'.todo = {}
        \/ pc' = "destroyIndexes"
    BY <1>1, <1>3, <1>4
  <2> QED
    BY <2>4, <2>5, <2>6 DEF OnItsWay, IndexSteps, ForcedSteps
<1> QED
  BY <1>1, <1>2, <1>4, <1>5, <1>6, <1>7, OneTableStep

\* The table's file goes.
LEMMA DestroyFileKeeps ==
  ASSUME TypeOK, StatementOK, TablesKept, NEW rel \in Rels, rel = stmt.rel, DestroyFile
  PROVE  TablesKept'
<1>1. pc = "destroyFile" /\ stmt # Nothing /\ stmt.op = "drop"
  BY DEF DestroyFile, StatementOK
<1>2. /\ hurt \subseteq hurt' /\ UNCHANGED <<rowVars, indexFiles, tables>>
  BY DEF DestroyFile, Works, Fails
<1>3. stmt' = stmt \/ stmt' = Nothing
  BY DEF DestroyFile, Continue, Return
<1>4. ASSUME NEW q \in Rels \ {rel} PROVE Spares(q)
  BY <1>2, SameRowsSpare DEF DestroyFile, Spares, SparesFiles
<1>5. ASSUME rel \notin hurt' PROVE stmt' # Nothing /\ OnItsWay(rel)'
  <2>1. OnItsWay(rel)
    BY <1>1, <1>2, <1>5, NotHurt
  <2>2. /\ IndexFilesAre(rel, stmt.todo) /\ stmt.todo = {} /\ rel \in relFiles
        /\ \E s \in RelSlots : RelRows(rel) = {s}
    BY <1>1, <2>1 DEF OnItsWay
  <2>3. relFiles' = relFiles \ {rel} /\ pc' = "deleteRelcat" /\ stmt' = stmt
    BY <1>5, <2>2 DEF DestroyFile, Fails, Continue
  <2>4. IndexFilesAre(rel, {})' /\ rel \notin relFiles' /\ \E s \in RelSlots : RelRows(rel)' = {s}
    BY <1>2, <2>2, <2>3 DEF rowVars, RelRows, IndexFilesAre
  <2> QED
    BY <1>1, <2>3, <2>4 DEF OnItsWay, IndexSteps, ForcedSteps
<1> QED
  BY <1>1, <1>2, <1>3, <1>4, <1>5, OneTableStep

\* The row of relcat goes.
LEMMA DeleteFromRelcatKeeps ==
  ASSUME TypeOK, StatementOK, TablesKept, NEW rel \in Rels, rel = stmt.rel, DeleteFromRelcat
  PROVE  TablesKept'
<1>1. /\ pc = "deleteRelcat" /\ stmt # Nothing /\ pc' = "deleteAttrcat" /\ stmt' = stmt
  BY DEF DeleteFromRelcat, StatementOK, Continue
<1>2. /\ hurt \subseteq hurt' /\ UNCHANGED <<indexFiles, relFiles, tables, attrcat, attrWas>>
  BY DEF DeleteFromRelcat, Works, Fails, fileVars
<1>3. CASE UNCHANGED <<relcat, relWas>> /\ (Fails(rel) \/ RelRows(rel) = {})
  <2>1. \A q : Spares(q)
    BY <1>2, <1>3, SameRowsSpare DEF rowVars, Spares, SparesFiles
  <2>2. rel \in hurt'
    BY <1>1, <1>2, <1>3, NotHurt DEF Fails, OnItsWay
  <2> QED
    BY <1>1, <1>2, <2>1, <2>2, OneTableStep
<1>4. CASE RelRows(rel) # {} /\ SetRel(Min(RelRows(rel)), NoRow)
  <2>1. PICK s \in RelRows(rel) : s = Min(RelRows(rel))
    BY <1>4, FirstOf, RowTypes
  <2>2. s \in RelSlots /\ relcat[s].rel = rel /\ SetRel(s, NoRow)
    BY <1>4, <2>1 DEF RelRows
  <2>3. ASSUME NEW q \in Rels \ {rel} PROVE Spares(q)
    <3>1. SparesRows(q)
      BY <1>2, <2>2, SetRelSpares DEF IsRow
    <3> QED
      BY <1>2, <3>1 DEF Spares, SparesFiles
  <2>4. ASSUME rel \notin hurt' PROVE OnItsWay(rel)'
    <3>1. OnItsWay(rel)
      BY <1>1, <1>2, <2>4, NotHurt
    <3>2. /\ stmt.op = "drop" /\ rel \notin relFiles /\ IndexFilesAre(rel, {})
          /\ \E r \in RelSlots : RelRows(rel) = {r}
      BY <1>1, <3>1 DEF OnItsWay
    <3>3. RelRows(rel)' = {}
      BY <2>1, <2>2, <3>2, SetRelRows
    <3>4. IndexFilesAre(rel, {})'
      BY <1>2, <3>2 DEF IndexFilesAre
    <3> QED
      BY <1>1, <1>2, <3>2, <3>3, <3>4 DEF OnItsWay, IndexSteps, ForcedSteps
  <2> QED
    BY <1>1, <1>2, <2>3, <2>4, OneTableStep
<1> QED
  BY <1>3, <1>4 DEF DeleteFromRelcat

\* The rows of attrcat go.
LEMMA DeleteFromAttrcatKeeps ==
  ASSUME TypeOK, StatementOK, TablesKept, NEW rel \in Rels, rel = stmt.rel, DeleteFromAttrcat
  PROVE  TablesKept'
<1>1. /\ pc = "deleteAttrcat" /\ stmt # Nothing /\ stmt' = stmt
      /\ pc' = IF stmt.op = "drop" THEN "forceRelcat" ELSE "undoFile"
  BY DEF DeleteFromAttrcat, StatementOK, Continue
<1>2. /\ hurt \subseteq hurt' /\ UNCHANGED <<indexFiles, relFiles, tables, relcat, relWas>>
  BY DEF DeleteFromAttrcat, Works, Fails, fileVars
<1>3. PICK rows \in SUBSET AttrRows(rel) :
        /\ attrcat' = [s \in AttrSlots |-> IF s \in rows THEN NoRow ELSE attrcat[s]]
        /\ attrWas' = [s \in AttrSlots |-> attrWas[s] \union {attrcat'[s]}]
        /\ rel \in hurt' \/ rows = AttrRows(rel)
  BY DEF DeleteFromAttrcat, Fails
<1>4. ASSUME NEW q \in Rels \ {rel} PROVE Spares(q)
  <2>1. \A s \in AttrSlots :
          /\ attrWas'[s] \subseteq attrWas[s] \union {attrcat'[s]}
          /\ attrcat'[s] # attrcat[s] => ~ IsRow(attrcat[s], q) /\ ~ IsRow(attrcat'[s], q)
    BY <1>3 DEF IsRow, AttrRows
  <2>2. SparesRows(q)
    BY <1>2, <2>1 DEF SparesRows
  <2> QED
    BY <1>2, <2>2 DEF Spares, SparesFiles
<1>5. ASSUME rel \notin hurt' PROVE OnItsWay(rel)'
  <2>1. OnItsWay(rel)
    BY <1>1, <1>2, <1>5, NotHurt
  <2>2. /\ stmt.op = "drop" /\ rel \notin relFiles /\ IndexFilesAre(rel, {}) /\ RelRows(rel) = {}
    BY <1>1, <2>1 DEF OnItsWay
  <2>3. AttrRows(rel)' = {}
    BY <1>3, <1>5 DEF AttrRows
  <2>4. ColumnsAre(rel, {})' /\ Used(rel)' = {}
    BY <2>3 DEF ColumnsAre, Used
  <2>5. Described(rel, {})'
    BY <1>2, <2>2, <2>4 DEF Described, IndexFilesAre, RelRows
  <2>6. Outcome' = {}
    BY <1>1, <2>2 DEF Outcome
  <2> QED
    BY <1>1, <2>2, <2>5, <2>6 DEF OnItsWay, IndexSteps, ForcedSteps
<1> QED
  BY <1>1, <1>2, <1>4, <1>5, OneTableStep

\* What the statement has changed is on disk in relcat,
LEMMA ForceRelcatKeeps ==
  ASSUME TypeOK, StatementOK, TablesKept, NEW rel \in Rels, rel = stmt.rel, ForceRelcat
  PROVE  TablesKept'
<1>1. /\ pc = "forceRelcat" /\ stmt # Nothing /\ stmt' = stmt /\ pc' = "forceAttrcat"
  BY DEF ForceRelcat, StatementOK, Continue
<1>2. /\ hurt \subseteq hurt'
      /\ UNCHANGED <<indexFiles, relFiles, tables, relcat, attrcat, attrWas>>
  BY DEF ForceRelcat, Works, Fails, fileVars
<1>3. ASSUME NEW q PROVE Spares(q)
  <2>1. SparesRows(q)
    BY <1>2 DEF ForceRelcat, SparesRows
  <2> QED
    BY <1>2, <2>1 DEF Spares, SparesFiles
<1>4. ASSUME rel \notin hurt' PROVE OnItsWay(rel)'
  <2>1. OnItsWay(rel)
    BY <1>1, <1>2, <1>4, NotHurt
  <2>2. PICK attrs : attrs = Outcome
    OBVIOUS
  <2>3. Described(rel, attrs)
    BY <1>1, <2>1, <2>2 DEF OnItsWay, ForcedSteps
  <2>4. Described(rel, attrs)'
    BY <1>3, <2>3, SpareStaysDescribed DEF Spares
  <2>5. Outcome' = attrs
    BY <1>1, <1>2, <2>2 DEF Outcome
  <2>6. RelSettled(rel)'
    BY <1>2, <1>4 DEF ForceRelcat, Fails, RelSettled
  <2> QED
    BY <1>1, <2>4, <2>5, <2>6 DEF OnItsWay, IndexSteps, ForcedSteps
<1> QED
  BY <1>1, <1>2, <1>3, <1>4, OneTableStep

\* and then in attrcat, and the statement is done.
LEMMA ForceAttrcatKeeps ==
  ASSUME TypeOK, StatementOK, TablesKept, NEW rel \in Rels, rel = stmt.rel, ForceAttrcat
  PROVE  TablesKept'
<1>1. /\ pc = "forceAttrcat" /\ stmt # Nothing /\ stmt' = Nothing
      /\ stmt.op \in {"create", "drop", "index", "unindex"}
  BY StatementTypes DEF ForceAttrcat, StatementOK, Return, ForcedSteps
<1>2. /\ hurt \subseteq hurt'
      /\ UNCHANGED <<indexFiles, relFiles, relcat, relWas, attrcat>>
  BY DEF ForceAttrcat, Works, Fails, fileVars
<1>3. /\ tables'[rel] = Outcome
      /\ \A q \in Rels \ {rel} : tables'[q] = tables[q]
  <2>1. tables' = CASE stmt.op = "create" -> [tables EXCEPT ![stmt.rel] = stmt.all]
                    [] stmt.op = "drop"   -> [tables EXCEPT ![stmt.rel] = {}]
                    [] OTHER              -> tables
    BY DEF ForceAttrcat, Declared
  <2>2. CASE stmt.op = "create"
    BY <2>1, <2>2 DEF TypeOK, Outcome
  <2>3. CASE stmt.op = "drop"
    BY <2>1, <2>3 DEF TypeOK, Outcome
  <2>4. CASE stmt.op \in {"index", "unindex"}
    BY <2>1, <2>4 DEF TypeOK, Outcome
  <2> QED
    BY <1>1, <2>2, <2>3, <2>4
<1>4. \A q : SparesRows(q) /\ SparesFiles(q)
  BY <1>2 DEF ForceAttrcat, SparesRows, SparesFiles
<1>5. \A q \in Rels \ {rel} : Spares(q)
  BY <1>3, <1>4 DEF Spares
<1>6. ASSUME rel \notin hurt' PROVE AtRest(rel)'
  <2>1. OnItsWay(rel)
    BY <1>1, <1>2, <1>6, NotHurt
  <2>2. PICK attrs : attrs = Outcome
    OBVIOUS
  <2>3. Described(rel, attrs) /\ RelSettled(rel)
    BY <1>1, <2>1, <2>2 DEF OnItsWay, ForcedSteps
  <2>4. Described(rel, attrs)'
    BY <1>4, <2>3, SpareStaysDescribed
  <2>5. RelSettled(rel)'
    BY <1>4, <2>3, SpareStaysSettled
  <2>6. AttrSettled(rel)'
    BY <1>2, <1>6 DEF ForceAttrcat, Fails, AttrSettled
  <2> QED
    BY <1>3, <2>2, <2>4, <2>5, <2>6 DEF AtRest
<1> QED
  BY <1>1, <1>2, <1>5, <1>6, OneTableStep

-----------------------------------------------------------------------------
(* The steps of CREATE INDEX and DROP INDEX *)

\* A column of a table with one row for each has one row.
LEMMA OneRowOf ==
  ASSUME TypeOK, NEW rel \in Rels, NEW attrs, ColumnsAre(rel, attrs), NEW attr,
         RowsOf(rel, attr) # {}
  PROVE  \E s \in AttrRows(rel) : /\ s \in AttrSlots /\ attrcat[s] \in AttrcatRecord
                                  /\ attrcat[s].attr = attr
                                  /\ RowsOf(rel, attr) = {s} /\ Min(RowsOf(rel, attr)) = s
<1>1. PICK s \in AttrRows(rel) : attrcat[s].attr = attr
  BY DEF RowsOf
<1>2. RowsOf(rel, attr) = {s}
  BY <1>1 DEF RowsOf, ColumnsAre
<1>3. s \in AttrSlots /\ s \in Nat /\ attrcat[s] \in AttrcatRecord
  BY RowTypes
<1>4. Min({s}) = s
  BY <1>3, FirstOf
<1> QED
  BY <1>1, <1>2, <1>3, <1>4

\* A table with a column is one that was declared.
LEMMA TableOfRows ==
  ASSUME NEW rel \in Rels, AtRest(rel), NEW attrs, attrs = tables[rel], NEW attr,
         RowsOf(rel, attr) # {}
  PROVE  /\ attrs # {} /\ rel \in relFiles /\ ColumnsAre(rel, attrs)
         /\ IndexFilesAre(rel, Used(rel))
         /\ EntryIs(rel, Cardinality(attrs), Cardinality(Used(rel)))
         /\ RelSettled(rel) /\ AttrSettled(rel)
<1>1. Described(rel, attrs) /\ RelSettled(rel) /\ AttrSettled(rel)
  BY DEF AtRest
<1>2. attrs # {}
  BY <1>1, NoColumns DEF Described, RowsOf
<1> QED
  BY <1>1, <1>2 DEF Described

\* The rows and the settings stay while index files come and go.
LEMMA RowsStay ==
  ASSUME NEW rel \in Rels, UNCHANGED rowVars
  PROVE  /\ \A attrs : ColumnsAre(rel, attrs) => ColumnsAre(rel, attrs)'
         /\ Used(rel)' = Used(rel)
         /\ \A attr : RowsOf(rel, attr)' = RowsOf(rel, attr)
         /\ \A m, n : EntryIs(rel, m, n) => EntryIs(rel, m, n)'
         /\ RelSettled(rel) => RelSettled(rel)'
         /\ AttrSettled(rel) => AttrSettled(rel)'
         /\ attrcat' = attrcat
BY SameRowsSpare, SparedRows, SameRows, SameEntry, SpareStaysSettled DEF rowVars

\* CREATE INDEX begins with a number that is new.
LEMMA CreateIndexKeeps ==
  ASSUME TypeOK, StatementOK, TablesKept, NEW rel \in Rels, NEW attr \in Attrs,
         CreateIndex(rel, attr), StatementOK'
  PROVE  TablesKept'
<1> DEFINE no == NextIndexNo(rel)
<1>1. /\ stmt = Nothing /\ hurt \subseteq hurt' /\ UNCHANGED <<rowVars, relFiles, tables>>
      /\ RowsOf(rel, attr) # {} /\ GetAttrInfo(rel, attr).indexNo = NO_INDEX
      /\ no <= MaxIndexNo /\ indexFiles' \in {indexFiles, indexFiles \union {<<rel, no>>}}
  BY DEF CreateIndex, Idle, StatementOK, Works, Fails
<1>2. no \in IndexNo
  BY <1>1, NextNoIsNew, MaxIndexNoAssumption DEF IndexNo
<1>3. \/ stmt' = Nothing /\ rel \in hurt'
      \/ /\ indexFiles' = indexFiles \union {<<rel, no>>} /\ pc' = "buildIndex"
         /\ stmt' = [op |-> "index", rel |-> rel, attr |-> attr, no |-> no]
  BY <1>1 DEF CreateIndex, Fails
<1> HIDE DEF no
<1>4. ASSUME NEW q \in Rels \ {rel} PROVE Spares(q)
  BY <1>1, SameRowsSpare DEF Spares, SparesFiles
<1>5. ASSUME rel \notin hurt' PROVE stmt' # Nothing /\ OnItsWay(rel)'
  <2>1. AtRest(rel)
    BY <1>1, <1>5, NotHurt
  <2>2. PICK attrs : attrs = tables[rel]
    OBVIOUS
  <2>3. /\ attrs # {} /\ rel \in relFiles /\ ColumnsAre(rel, attrs)
        /\ IndexFilesAre(rel, Used(rel))
        /\ EntryIs(rel, Cardinality(attrs), Cardinality(Used(rel)))
        /\ RelSettled(rel) /\ AttrSettled(rel)
    BY <1>1, <2>1, <2>2, TableOfRows
  <2>4. no \notin Used(rel)
    BY <2>3, InfoIsAll, NextNoIsNew DEF no
  <2>5. PICK s \in AttrSlots : RowsOf(rel, attr) = {s} /\ attrcat[s].indexNo = NO_INDEX
    BY <1>1, <2>3, OneRowOf DEF GetAttrInfo
  <2>6. /\ pc' = "buildIndex" /\ indexFiles' = indexFiles \union {<<rel, no>>}
        /\ stmt'.op = "index" /\ stmt'.rel = rel /\ stmt'.attr = attr /\ stmt'.no = no
    BY <1>3, <1>5
  <2>7. /\ ColumnsAre(rel, attrs)' /\ Used(rel)' = Used(rel) /\ RowsOf(rel, attr)' = {s}
        /\ EntryIs(rel, Cardinality(attrs), Cardinality(Used(rel)))'
        /\ RelSettled(rel)' /\ AttrSettled(rel)' /\ attrcat'[s].indexNo = NO_INDEX
    <3>1. PICK n : n = Cardinality(Used(rel))
      OBVIOUS
    <3>2. Used(rel)' = Used(rel) /\ EntryIs(rel, Cardinality(attrs), n)'
      BY <1>1, <2>3, <3>1, RowsStay
    <3>3. EntryIs(rel, Cardinality(attrs), Cardinality(Used(rel)))'
      BY <3>1, <3>2
    <3> QED
      BY <1>1, <2>3, <2>5, <3>3, RowsStay
  <2>8. IndexFilesAre(rel, Used(rel) \union {stmt.no})'
    BY <2>3, <2>6, <2>7 DEF IndexFilesAre
  <2>9. IndexAhead(rel)'
    BY <2>4, <2>5, <2>6, <2>7, <2>8 DEF IndexAhead
  <2>10. stmt' # Nothing
    BY <2>6 DEF StatementOK
  <2> QED
    BY <1>1, <2>2, <2>3, <2>6, <2>7, <2>9, <2>10 DEF OnItsWay, IndexSteps, ForcedSteps
<1> QED
  BY <1>1, <1>3, <1>4, <1>5, OneTableStep

\* Going on to the row of the column, or back, changes nothing yet.
LEMMA BuildIndexKeeps ==
  ASSUME TypeOK, StatementOK, TablesKept, NEW rel \in Rels, rel = stmt.rel, BuildIndex
  PROVE  TablesKept'
<1>1. /\ pc = "buildIndex" /\ stmt # Nothing /\ stmt' = stmt
      /\ pc' \in {"indexAttrcat", "undoIndex"}
  BY DEF BuildIndex, StatementOK, Continue
<1>2. hurt \subseteq hurt' /\ UNCHANGED <<rowVars, indexFiles, relFiles, tables>>
  BY DEF BuildIndex, Works, Fails, fileVars
<1>3. \A q : Spares(q)
  BY <1>2, SameRowsSpare DEF Spares, SparesFiles
<1>4. ASSUME rel \notin hurt' PROVE OnItsWay(rel)'
  <2>1. OnItsWay(rel)
    BY <1>1, <1>2, <1>4, NotHurt
  <2>2. PICK attrs : attrs = tables[rel]
    OBVIOUS
  <2>3. PICK n : n = Cardinality(Used(rel))
    OBVIOUS
  <2>4. /\ IndexAhead(rel) /\ EntryIs(rel, Cardinality(attrs), n)
        /\ RelSettled(rel) /\ AttrSettled(rel)
        /\ ColumnsAre(rel, attrs) /\ attrs # {} /\ rel \in relFiles
    BY <1>1, <2>1, <2>2, <2>3 DEF OnItsWay, IndexSteps
  <2>5. IndexAhead(rel)'
    <3>1. /\ Used(rel)' = Used(rel) /\ RowsOf(rel, stmt.attr)' = RowsOf(rel, stmt.attr)
          /\ attrcat' = attrcat /\ indexFiles' = indexFiles
      <4>1. PICK attr : attr = stmt.attr
        OBVIOUS
      <4>2. RowsOf(rel, attr)' = RowsOf(rel, attr)
        BY <1>2, RowsStay
      <4> QED
        BY <1>1, <1>2, <4>1, <4>2, RowsStay
    <3> QED
      BY <1>1, <2>4, <3>1 DEF IndexAhead, IndexFilesAre
  <2>6. /\ EntryIs(rel, Cardinality(attrs), n)' /\ RelSettled(rel)' /\ AttrSettled(rel)'
        /\ ColumnsAre(rel, attrs)' /\ Used(rel)' = Used(rel)
    BY <1>2, <2>4, RowsStay
  <2> QED
    BY <1>1, <1>2, <2>2, <2>3, <2>4, <2>5, <2>6 DEF OnItsWay, IndexSteps, ForcedSteps
<1> QED
  BY <1>1, <1>2, <1>3, <1>4, OneTableStep

\* The index file goes, and nothing else had changed.
LEMMA UndoIndexKeeps ==
  ASSUME TypeOK, StatementOK, TablesKept, NEW rel \in Rels, rel = stmt.rel, UndoIndex
  PROVE  TablesKept'
<1>1. pc = "undoIndex" /\ stmt # Nothing /\ stmt' = Nothing /\ stmt.op = "index"
  BY DEF UndoIndex, StatementOK, Return
<1>2. hurt \subseteq hurt' /\ UNCHANGED <<rowVars, relFiles, tables>>
  BY DEF UndoIndex, Works, Fails
<1>3. ASSUME NEW q \in Rels \ {rel} PROVE Spares(q)
  BY <1>2, SameRowsSpare DEF UndoIndex, Spares, SparesFiles
<1>4. ASSUME rel \notin hurt' PROVE AtRest(rel)'
  <2>1. OnItsWay(rel)
    BY <1>1, <1>2, <1>4, NotHurt
  <2>2. PICK attrs : attrs = tables[rel]
    OBVIOUS
  <2>3. PICK n : n = Cardinality(Used(rel))
    OBVIOUS
  <2>4. /\ IndexAhead(rel) /\ EntryIs(rel, Cardinality(attrs), n)
        /\ RelSettled(rel) /\ AttrSettled(rel)
        /\ ColumnsAre(rel, attrs) /\ attrs # {} /\ rel \in relFiles
    BY <1>1, <2>1, <2>2, <2>3 DEF OnItsWay, IndexSteps
  <2>5. /\ EntryIs(rel, Cardinality(attrs), n)' /\ RelSettled(rel)' /\ AttrSettled(rel)'
        /\ ColumnsAre(rel, attrs)' /\ Used(rel)' = Used(rel)
    BY <1>2, <2>4, RowsStay
  <2>6. stmt.no \notin Used(rel) /\ IndexFilesAre(rel, Used(rel) \union {stmt.no})
    BY <1>1, <2>4 DEF IndexAhead
  <2>7. indexFiles' = indexFiles \ {<<rel, stmt.no>>}
    BY <1>4 DEF UndoIndex, Fails
  <2>8. IndexFilesAre(rel, Used(rel))'
    BY <2>5, <2>6, <2>7 DEF IndexFilesAre
  <2>9. Described(rel, attrs)'
    BY <1>2, <2>3, <2>4, <2>5, <2>8 DEF Described
  <2> QED
    BY <1>2, <2>2, <2>5, <2>9 DEF AtRest
<1> QED
  BY <1>1, <1>2, <1>3, <1>4, OneTableStep

\* DROP INDEX begins with the file.
LEMMA DropIndexKeeps ==
  ASSUME TypeOK, StatementOK, TablesKept, NEW rel \in Rels, NEW attr \in Attrs,
         DropIndex(rel, attr), StatementOK'
  PROVE  TablesKept'
<1> DEFINE no == GetAttrInfo(rel, attr).indexNo
<1>1. /\ stmt = Nothing /\ hurt \subseteq hurt' /\ UNCHANGED <<rowVars, relFiles, tables>>
      /\ RowsOf(rel, attr) # {} /\ no # NO_INDEX
      /\ indexFiles' \in {indexFiles, indexFiles \ {<<rel, no>>}}
  BY DEF DropIndex, Idle, StatementOK, Works, Fails
<1>2. \/ stmt' = Nothing /\ rel \in hurt'
      \/ /\ indexFiles' = indexFiles \ {<<rel, no>>} /\ pc' = "indexAttrcat"
         /\ stmt' = [op |-> "unindex", rel |-> rel, attr |-> attr, no |-> NO_INDEX]
  BY <1>1 DEF DropIndex, Fails
<1> HIDE DEF no
<1>3. ASSUME NEW q \in Rels \ {rel} PROVE Spares(q)
  BY <1>1, SameRowsSpare DEF Spares, SparesFiles
<1>4. ASSUME rel \notin hurt' PROVE stmt' # Nothing /\ OnItsWay(rel)'
  <2>1. AtRest(rel)
    BY <1>1, <1>4, NotHurt
  <2>2. PICK attrs : attrs = tables[rel]
    OBVIOUS
  <2>3. /\ attrs # {} /\ rel \in relFiles /\ ColumnsAre(rel, attrs)
        /\ IndexFilesAre(rel, Used(rel))
        /\ EntryIs(rel, Cardinality(attrs), Cardinality(Used(rel)))
        /\ RelSettled(rel) /\ AttrSettled(rel)
    BY <1>1, <2>1, <2>2, TableOfRows
  <2>4. PICK s \in AttrSlots : RowsOf(rel, attr) = {s} /\ attrcat[s].indexNo = no
    BY <1>1, <2>3, OneRowOf DEF GetAttrInfo, no
  <2>5. /\ pc' = "indexAttrcat" /\ indexFiles' = indexFiles \ {<<rel, no>>}
        /\ stmt'.op = "unindex" /\ stmt'.rel = rel /\ stmt'.attr = attr /\ stmt'.no = NO_INDEX
    BY <1>2, <1>4
  <2>6. /\ ColumnsAre(rel, attrs)' /\ Used(rel)' = Used(rel) /\ RowsOf(rel, attr)' = {s}
        /\ EntryIs(rel, Cardinality(attrs), Cardinality(Used(rel)))'
        /\ RelSettled(rel)' /\ AttrSettled(rel)' /\ attrcat'[s].indexNo = no
    <3>1. PICK n : n = Cardinality(Used(rel))
      OBVIOUS
    <3>2. Used(rel)' = Used(rel) /\ EntryIs(rel, Cardinality(attrs), n)'
      BY <1>1, <2>3, <3>1, RowsStay
    <3>3. EntryIs(rel, Cardinality(attrs), Cardinality(Used(rel)))'
      BY <3>1, <3>2
    <3> QED
      BY <1>1, <2>3, <2>4, <3>3, RowsStay
  <2>7. PICK m : m = no
    OBVIOUS
  <2>8. IndexFilesAre(rel, Used(rel) \ {m})'
    BY <2>3, <2>5, <2>6, <2>7 DEF IndexFilesAre
  <2>9. IndexAhead(rel)'
    BY <1>1, <2>5, <2>6, <2>7, <2>8 DEF IndexAhead
  <2>10. stmt' # Nothing
    BY <2>5 DEF StatementOK
  <2> QED
    BY <1>1, <2>2, <2>3, <2>5, <2>6, <2>9, <2>10 DEF OnItsWay, IndexSteps, ForcedSteps
<1> QED
  BY <1>1, <1>2, <1>3, <1>4, OneTableStep

\* One more number, or one less.
LEMMA NumberAdded ==
  ASSUME NEW S \in SUBSET IndexNo, NEW no
  PROVE  /\ no \notin S => Cardinality(S) = Cardinality(S \union {no}) - 1
         /\ no \in S => Cardinality(S) = Cardinality(S \ {no}) + 1
<1>1. IsFiniteSet(S)
  <2>1. IsFiniteSet(IndexNo)
    BY MaxIndexNoAssumption, FS_Interval DEF IndexNo
  <2> QED
    BY <2>1, FS_Subset
<1>2. Cardinality(S) \in Nat
  BY <1>1, FS_CardinalityType
<1>3. no \notin S => Cardinality(S \union {no}) = Cardinality(S) + 1
  BY <1>1, FS_AddElement
<1>4. no \in S => /\ IsFiniteSet(S \ {no}) /\ Cardinality(S \ {no}) = Cardinality(S) - 1
  BY <1>1, FS_RemoveElement
<1> QED
  BY <1>2, <1>3, <1>4

\* The row of the column catches up with the index file.
LEMMA UpdateAttrIndexNoKeeps ==
  ASSUME TypeOK, StatementOK, TablesKept, NEW rel \in Rels, rel = stmt.rel, UpdateAttrIndexNo
  PROVE  TablesKept'
<1>1. /\ pc = "indexAttrcat" /\ stmt # Nothing /\ stmt.op \in {"index", "unindex"}
      /\ stmt.no \in {NO_INDEX} \union IndexNo
      /\ stmt.op = "index" => stmt.no \in IndexNo
      /\ stmt.op = "unindex" => stmt.no = NO_INDEX
  BY StatementTypes DEF UpdateAttrIndexNo, StatementOK, IndexSteps
<1>2. /\ hurt \subseteq hurt' /\ UNCHANGED <<indexFiles, relFiles, tables, relcat, relWas>>
      /\ stmt' = stmt \/ stmt' = Nothing
  BY DEF UpdateAttrIndexNo, Works, Fails, fileVars, Continue, Return
<1> DEFINE s   == Min(RowsOf(rel, stmt.attr))
           row == [attrcat[s] EXCEPT !.indexNo = stmt.no]
<1>3. CASE Fails(rel) /\ UNCHANGED <<attrcat, attrWas>>
  <2>1. \A q : Spares(q)
    BY <1>2, <1>3, SameRowsSpare DEF rowVars, Spares, SparesFiles
  <2>2. rel \in hurt'
    BY <1>3 DEF Fails
  <2> QED
    BY <1>1, <1>2, <2>1, <2>2, OneTableStep
<1>4. CASE Works /\ RowsOf(rel, stmt.attr) # {} /\ SetAttr(s, row) /\ Continue("countIndex")
  <2>1. s \in RowsOf(rel, stmt.attr)
    <3>1. RowsOf(rel, stmt.attr) \subseteq Nat
      BY RowTypes DEF RowsOf
    <3> QED
      BY <1>4, <3>1, FirstOf
  <2>2. s \in AttrRows(rel) /\ s \in AttrSlots /\ attrcat[s] \in AttrcatRecord
    BY <2>1, RowTypes DEF RowsOf
  <2> HIDE DEF s
  <2>3. /\ row \in AttrcatRecord /\ row.rel = rel /\ row.attr = attrcat[s].attr
        /\ row.indexNo = stmt.no
    BY <1>1, <2>2 DEF AttrcatRecord, AttrRows
  <2> HIDE DEF row
  <2>4. row # NoRow /\ IsRow(attrcat[s], rel)
    BY <2>2, <2>3, NoRowAssumption DEF IsRow, AttrRows
  <2>5. ASSUME NEW q \in Rels \ {rel} PROVE Spares(q)
    <3>1. SparesRows(q)
      BY <1>2, <1>4, <2>2, <2>3, <2>4, SetAttrSpares DEF IsRow
    <3> QED
      BY <1>2, <3>1 DEF Spares, SparesFiles
  <2>6. /\ AttrRows(rel)' = AttrRows(rel)
        /\ attrcat'[s] = row /\ \A t \in AttrRows(rel) \ {s} : attrcat'[t] = attrcat[t]
    <3>1. AttrRows(rel) \subseteq AttrSlots
      BY DEF AttrRows
    <3>2. IsRow(row, rel) /\ SetAttr(s, row)
      BY <1>4, <2>3, <2>4 DEF IsRow
    <3>3. /\ AttrRows(rel)' = AttrRows(rel) \union {s}
          /\ attrcat'[s] = row /\ \A t \in AttrSlots \ {s} : attrcat'[t] = attrcat[t]
      BY <2>2, <2>3, <3>2, SetAttrRows
    <3> QED
      BY <2>2, <3>1, <3>3
  <2>7. ASSUME rel \notin hurt' PROVE OnItsWay(rel)'
    <3>1. OnItsWay(rel)
      BY <1>1, <1>2, <2>7, NotHurt
    <3>2. PICK attrs : attrs = tables[rel]
      OBVIOUS
    <3>3. PICK U : U = Used(rel)
      OBVIOUS
    <3>4. PICK old : old = attrcat[s].indexNo
      OBVIOUS
    <3>5. /\ IndexAhead(rel) /\ EntryIs(rel, Cardinality(attrs), Cardinality(U))
          /\ ColumnsAre(rel, attrs) /\ attrs # {} /\ rel \in relFiles
      BY <1>1, <3>1, <3>2, <3>3 DEF OnItsWay, IndexSteps
    <3>6. RowsOf(rel, stmt.attr) = {s}
      BY <2>1, <3>5 DEF IndexAhead
    <3>7. IF stmt.op = "index"
          THEN old = NO_INDEX /\ stmt.no \notin U /\ IndexFilesAre(rel, U \union {stmt.no})
          ELSE old # NO_INDEX /\ IndexFilesAre(rel, U \ {old})
      BY <2>1, <3>3, <3>4, <3>5 DEF IndexAhead
    <3>8. U \subseteq IndexNo /\ (old # NO_INDEX => old \in U)
      BY <2>2, <3>3, <3>4, UsedIsFinite DEF Used
    <3>9. Used(rel)' = IF stmt.op = "index" THEN U \union {stmt.no} ELSE U \ {old}
      <4>1. Used(rel)' = {attrcat'[t].indexNo : t \in AttrRows(rel)} \ {NO_INDEX}
        BY <2>6 DEF Used
      <4>2. CASE stmt.op = "index"
        <5>1. stmt.no # NO_INDEX
          BY <1>1, <4>2 DEF NO_INDEX, IndexNo
        <5> QED
          BY <2>2, <2>3, <2>6, <3>3, <3>4, <3>7, <4>1, <4>2, <5>1 DEF Used
      <4>3. CASE stmt.op = "unindex"
        <5>1. \A t \in AttrRows(rel) \ {s} : attrcat[t].indexNo # old
          BY <2>2, <3>4, <3>5, <3>7, <4>3 DEF ColumnsAre
        <5> QED
          BY <1>1, <2>2, <2>3, <2>6, <3>3, <3>4, <4>1, <4>3, <5>1 DEF Used
      <4> QED
        BY <1>1, <4>2, <4>3
    <3>10. ColumnsAre(rel, attrs)'
      <4>1. \A t \in AttrRows(rel) : attrcat'[t].attr = attrcat[t].attr
        BY <2>3, <2>6
      <4>2. {attrcat'[t].attr : t \in AttrRows(rel)} = attrs
        BY <3>5, <4>1 DEF ColumnsAre
      <4>3. \A t \in AttrRows(rel) \ {s} :
               attrcat'[t].indexNo = stmt.no => stmt.no = NO_INDEX
        BY <1>1, <2>6, <3>3, <3>7 DEF Used
      <4>4. \A t, u \in AttrRows(rel) :
              attrcat'[t].indexNo = attrcat'[u].indexNo /\ attrcat'[t].indexNo # NO_INDEX => t = u
        BY <2>3, <2>6, <3>5, <4>3 DEF ColumnsAre
      <4>5. \A t, u \in AttrRows(rel) : attrcat'[t].attr = attrcat'[u].attr => t = u
        BY <3>5, <4>1 DEF ColumnsAre
      <4> QED
        BY <2>6, <4>2, <4>4, <4>5 DEF ColumnsAre
    <3>11. IndexFilesAre(rel, Used(rel))'
      BY <1>2, <3>7, <3>9 DEF IndexFilesAre
    <3>12. PICK n : n = Cardinality(U)
      OBVIOUS
    <3>13. EntryIs(rel, Cardinality(attrs), n)'
      BY <1>2, <3>5, <3>12 DEF EntryIs, RelRows
    <3>14. n = IF stmt.op = "index" THEN Cardinality(Used(rel)') - 1
               ELSE Cardinality(Used(rel)') + 1
      BY <3>7, <3>8, <3>9, <3>12, NumberAdded
    <3>15. pc' = "countIndex" /\ stmt' = stmt
      BY <1>4 DEF Continue
    <3> QED
      BY <1>2, <3>2, <3>5, <3>10, <3>11, <3>13, <3>14, <3>15 DEF OnItsWay, IndexSteps, ForcedSteps
  <2> QED
    BY <1>1, <1>2, <2>5, <2>7, <1>4, OneTableStep DEF Continue
<1> QED
  BY <1>3, <1>4 DEF UpdateAttrIndexNo

\* And the row of the table.
LEMMA UpdateIndexCountKeeps ==
  ASSUME TypeOK, StatementOK, TablesKept, NEW rel \in Rels, rel = stmt.rel, UpdateIndexCount
  PROVE  TablesKept'
<1>1. /\ pc = "countIndex" /\ stmt # Nothing /\ stmt.op \in {"index", "unindex"}
  BY StatementTypes DEF UpdateIndexCount, StatementOK, IndexSteps
<1>2. /\ hurt \subseteq hurt' /\ UNCHANGED <<indexFiles, relFiles, tables, attrcat, attrWas>>
      /\ stmt' = stmt \/ stmt' = Nothing
  BY DEF UpdateIndexCount, Works, Fails, fileVars, Continue, Return
<1> DEFINE s   == Min(RelRows(rel))
           n   == relcat[s].indexCount
           new == IF stmt.op = "index" THEN n + 1 ELSE IF n > 0 THEN n - 1 ELSE 0
           row == [relcat[s] EXCEPT !.indexCount = new]
<1>3. CASE UNCHANGED <<relcat, relWas>> /\ (Fails(rel) \/ RelRows(rel) = {})
  <2>1. \A q : Spares(q)
    BY <1>2, <1>3, SameRowsSpare DEF rowVars, Spares, SparesFiles
  <2>2. rel \in hurt'
    BY <1>1, <1>2, <1>3, NotHurt DEF Fails, OnItsWay, EntryIs
  <2> QED
    BY <1>1, <1>2, <2>1, <2>2, OneTableStep
<1>4. CASE RelRows(rel) # {} /\ SetRel(s, row) /\ Continue("forceRelcat")
  <2>1. s \in RelRows(rel)
    BY <1>4, FirstOf, RowTypes
  <2> HIDE DEF s
  <2>2. s \in RelSlots /\ relcat[s] \in RelcatRecord /\ relcat[s].rel = rel
    BY <2>1, RowTypes DEF RelRows
  <2>3. n \in Nat /\ new \in Nat
    BY <2>2 DEF RelcatRecord
  <2> HIDE DEF new
  <2>4. /\ row \in RelcatRecord /\ row.rel = rel /\ row.attrCount = relcat[s].attrCount
        /\ row.indexCount = new
    BY <2>2, <2>3 DEF RelcatRecord
  <2> HIDE DEF row
  <2>5. row # NoRow
    BY <2>4, NoRowAssumption
  <2>6. ASSUME NEW q \in Rels \ {rel} PROVE Spares(q)
    <3>1. SparesRows(q)
      BY <1>2, <1>4, <2>2, <2>4, SetRelSpares DEF IsRow
    <3> QED
      BY <1>2, <3>1 DEF Spares, SparesFiles
  <2>7. ASSUME rel \notin hurt' PROVE OnItsWay(rel)'
    <3>1. OnItsWay(rel)
      BY <1>1, <1>2, <2>7, NotHurt
    <3>2. PICK attrs : attrs = tables[rel]
      OBVIOUS
    <3>3. PICK k : k = Cardinality(Used(rel))
      OBVIOUS
    <3>4. /\ IndexFilesAre(rel, Used(rel)) /\ ColumnsAre(rel, attrs) /\ attrs # {}
          /\ rel \in relFiles
          /\ EntryIs(rel, Cardinality(attrs), IF stmt.op = "index" THEN k - 1 ELSE k + 1)
      BY <1>1, <3>1, <3>2, <3>3 DEF OnItsWay, IndexSteps
    <3>5. /\ RelRows(rel) = {s} /\ relcat[s].attrCount = Cardinality(attrs)
          /\ n = IF stmt.op = "index" THEN k - 1 ELSE k + 1
      BY <2>1, <3>4 DEF EntryIs
    <3>6. k \in Nat
      BY <3>3, UsedIsFinite
    <3>7. new = k
      BY <1>1, <3>5, <3>6 DEF new
    <3>8. RelRows(rel)' = {s} /\ relcat'[s] = row
      BY <1>4, <2>2, <2>4, <2>5, <3>5, SetRelRows DEF IsRow
    <3>9. EntryIs(rel, Cardinality(attrs), k)'
      BY <2>2, <2>4, <3>5, <3>7, <3>8 DEF EntryIs
    <3>10. ColumnsAre(rel, attrs)' /\ Used(rel)' = Used(rel)
      BY <1>2, <3>4 DEF ColumnsAre, Used, AttrRows
    <3>11. Described(rel, attrs)'
      BY <1>2, <3>3, <3>4, <3>9, <3>10 DEF Described, IndexFilesAre
    <3>12. pc' = "forceRelcat" /\ Outcome' = attrs
      BY <1>1, <1>2, <1>4, <3>2 DEF Outcome, Continue
    <3> QED
      BY <3>11, <3>12 DEF OnItsWay, IndexSteps, ForcedSteps
  <2> QED
    BY <1>1, <1>2, <2>6, <2>7, <1>4, OneTableStep DEF Continue
<1> QED
  BY <1>3, <1>4 DEF UpdateIndexCount

-----------------------------------------------------------------------------
(* Between statements *)

\* Steps that leave the catalogs, the files and the statement alone.
LEMMA NothingTouched ==
  ASSUME TablesKept,
         UNCHANGED <<rowVars, relFiles, indexFiles, tables, hurt, pc, stmt>>
  PROVE  TablesKept'
<1> SUFFICES ASSUME NEW rel \in Rels \ hurt
             PROVE  (IF stmt # Nothing /\ stmt.rel = rel THEN OnItsWay(rel) ELSE AtRest(rel))'
  BY DEF TablesKept
<1>1. UNCHANGED <<relcat, attrcat, relWas, attrWas>>
  BY DEF rowVars
<1>2. RelRows(rel)' = RelRows(rel) /\ AttrRows(rel)' = AttrRows(rel)
  BY <1>1 DEF RelRows, AttrRows
<1>3. /\ Used(rel)' = Used(rel) /\ RowsOf(rel, stmt.attr)' = RowsOf(rel, stmt.attr)
      /\ RelSettled(rel)' = RelSettled(rel) /\ AttrSettled(rel)' = AttrSettled(rel)
  BY <1>1, <1>2 DEF Used, RowsOf, RelSettled, AttrSettled
<1>4. /\ \A attrs : ColumnsAre(rel, attrs) <=> ColumnsAre(rel, attrs)'
      /\ \A m, n : EntryIs(rel, m, n) <=> EntryIs(rel, m, n)'
      /\ \A nos : IndexFilesAre(rel, nos) <=> IndexFilesAre(rel, nos)'
  BY <1>1, <1>2 DEF ColumnsAre, EntryIs, IndexFilesAre
<1>5. \A attrs : Described(rel, attrs) <=> Described(rel, attrs)'
  BY <1>2, <1>3, <1>4 DEF Described
<1>6. CASE stmt # Nothing /\ stmt.rel = rel
  <2>1. OnItsWay(rel)
    BY <1>6 DEF TablesKept
  <2>2. Outcome' = Outcome
    BY DEF Outcome
  <2>3. IndexAhead(rel) => IndexAhead(rel)'
    BY <1>1, <1>3 DEF IndexAhead, IndexFilesAre
  <2>4. OnItsWay(rel)'
    BY <1>1, <1>2, <1>3, <2>1, <2>2, <2>3
    DEF OnItsWay, ColumnsAre, EntryIs, IndexFilesAre, Described
  <2> QED
    BY <1>6, <2>4
<1>7. CASE ~ (stmt # Nothing /\ stmt.rel = rel)
  <2>1. AtRest(rel)
    BY <1>7 DEF TablesKept
  <2>2. AtRest(rel)'
    BY <1>1, <1>3, <1>5, <2>1 DEF AtRest
  <2> QED
    BY <1>7, <2>2
<1> QED
  BY <1>6, <1>7

\* Tuples are no concern of the catalogs, and opening a database changes nothing.
LEMMA TuplesKeep ==
  ASSUME TablesKept,
         (\E rel \in Rels : InsertTuples(rel) \/ DeleteTuples(rel)) \/ OpenDb
  PROVE  TablesKept'
<1>1. UNCHANGED <<rowVars, relFiles, indexFiles, tables, hurt, pc, stmt>>
  BY DEF InsertTuples, DeleteTuples, OpenDb, history, fileVars
<1> QED
  BY <1>1, NothingTouched

\* Closing the database leaves the rows, and on disk.
LEMMA CloseDbKeeps ==
  ASSUME StatementOK, TablesKept, CloseDb
  PROVE  TablesKept'
<1>1. stmt = Nothing /\ UNCHANGED <<relFiles, indexFiles, tables, hurt, relcat, attrcat, stmt>>
  BY DEF CloseDb, Idle, StatementOK, fileVars, history
<1>2. \A q : Spares(q)
  BY <1>1 DEF CloseDb, Spares, SparesRows, SparesFiles
<1>3. ASSUME NEW q \in Rels \ hurt PROVE AtRest(q)'
  BY <1>1, <1>2, NotHurt, SpareStaysAtRest
<1> QED
  BY <1>1, <1>3 DEF TablesKept

\* The process ends: a table at rest comes back as it was.
LEMMA ExitKeeps ==
  ASSUME TypeOK, StatementOK, TablesKept, Exit
  PROVE  TablesKept'
<1>1. /\ stmt' = Nothing /\ hurt \subseteq hurt' /\ UNCHANGED <<relFiles, indexFiles, tables>>
      /\ stmt # Nothing => stmt.rel \in hurt'
  BY DEF Exit, fileVars, StatementOK
<1>2. ASSUME NEW q \in Rels \ hurt' PROVE AtRest(q)'
  <2>1. AtRest(q)
    BY <1>1 DEF TablesKept
  <2>2. /\ \A s \in RelSlots : relcat'[s] \in relWas[s] /\ relWas'[s] = {relcat'[s]}
        /\ \A s \in AttrSlots : attrcat'[s] \in attrWas[s] /\ attrWas'[s] = {attrcat'[s]}
    BY DEF Exit
  <2>3. SparesRows(q)
    BY <2>1, <2>2 DEF AtRest, RelSettled, AttrSettled, SparesRows
  <2> QED
    BY <1>1, <2>1, <2>3, SpareStaysAtRest DEF Spares, SparesFiles
<1> QED
  BY <1>1, <1>2 DEF TablesKept

-----------------------------------------------------------------------------
(* The invariant *)

\* No tables, no rows and no files.
LEMMA InitLemma == Init => CatalogInv
<1> SUFFICES ASSUME Init PROVE CatalogInv
  OBVIOUS
<1>1. TypeOK
  <2>1. /\ relcat \in [RelSlots -> RelcatRecord \union {NoRow}]
        /\ relWas \in [RelSlots -> SUBSET (RelcatRecord \union {NoRow})]
    BY DEF Init
  <2>2. /\ attrcat \in [AttrSlots -> AttrcatRecord \union {NoRow}]
        /\ attrWas \in [AttrSlots -> SUBSET (AttrcatRecord \union {NoRow})]
    BY DEF Init
  <2>3. tables \in [Rels -> SUBSET Attrs]
    BY DEF Init
  <2>4. /\ filled \subseteq relFiles /\ relFiles \subseteq Rels
        /\ indexFiles \subseteq Rels \X IndexNo /\ hurt \subseteq Rels
    BY DEF Init
  <2>5. bDbOpen \in BOOLEAN /\ (pc = "idle") = (stmt = Nothing)
    BY DEF Init
  <2>6. faults \in Nat /\ exits \in Nat /\ faults + exits <= MaxMishaps
    <3>1. faults = 0 /\ exits = 0
      BY DEF Init
    <3> QED
      BY <3>1, MaxMishapsAssumption
  <2> QED
    BY <2>1, <2>2, <2>3, <2>4, <2>5, <2>6 DEF TypeOK
<1>2. StatementOK
  BY DEF Init, StatementOK, TableSteps, IndexSteps, ForcedSteps
<1>3. ASSUME NEW rel \in Rels PROVE AtRest(rel)
  <2>1. AttrRows(rel) = {} /\ RelRows(rel) = {}
    BY DEF Init, AttrRows, RelRows
  <2>2. Described(rel, {})
    BY <2>1, NoColumns DEF Init, Described, IndexFilesAre
  <2> QED
    BY <2>2 DEF Init, AtRest, RelSettled, AttrSettled
<1> QED
  BY <1>1, <1>2, <1>3 DEF CatalogInv, TablesKept, Init

\* Every step keeps the invariant: one lemma above for each action.
LEMMA NextLemma ==
  ASSUME CatalogInv, [Next]_vars
  PROVE  CatalogInv'
<1>1. TypeOK /\ StatementOK /\ TablesKept
  BY DEF CatalogInv
<1>2. TypeOK' /\ StatementOK'
  BY <1>1, TypesNext
<1>3. ASSUME UNCHANGED vars PROVE TablesKept'
  BY <1>1, <1>3, NothingTouched DEF vars, fileVars, history
<1>4. ASSUME NEW rel \in Rels, NEW attrs \in SUBSET Attrs, CreateTable(rel, attrs)
      PROVE  TablesKept'
  BY <1>1, <1>2, <1>4, CreateTableKeeps
<1>5. ASSUME NEW rel \in Rels, DropTable(rel) PROVE TablesKept'
  BY <1>1, <1>2, <1>5, DropTableKeeps
<1>6. ASSUME NEW rel \in Rels, NEW attr \in Attrs, CreateIndex(rel, attr) \/ DropIndex(rel, attr)
      PROVE  TablesKept'
  BY <1>1, <1>2, <1>6, CreateIndexKeeps, DropIndexKeeps
<1>7. ASSUME \/ InsertIntoRelcat \/ InsertIntoAttrcat \/ UndoFile
             \/ DestroyIndexes \/ DestroyFile \/ DeleteFromRelcat \/ DeleteFromAttrcat
             \/ ForceRelcat \/ ForceAttrcat
             \/ BuildIndex \/ UndoIndex \/ UpdateAttrIndexNo \/ UpdateIndexCount
      PROVE  TablesKept'
  <2>1. pc # "idle"
    BY <1>7 DEF InsertIntoRelcat, InsertIntoAttrcat, UndoFile, DestroyIndexes, DestroyFile,
       DeleteFromRelcat, DeleteFromAttrcat, ForceRelcat, ForceAttrcat, BuildIndex, UndoIndex,
       UpdateAttrIndexNo, UpdateIndexCount
  <2>2. PICK rel \in Rels : rel = stmt.rel
    BY <1>1, <2>1, StatementTypes
  <2>3. CASE InsertIntoRelcat \/ InsertIntoAttrcat \/ UndoFile
    BY <1>1, <1>2, <2>2, <2>3, InsertIntoRelcatKeeps, InsertIntoAttrcatKeeps, UndoFileKeeps
  <2>4. CASE DestroyIndexes \/ DestroyFile \/ DeleteFromRelcat \/ DeleteFromAttrcat
    BY <1>1, <1>2, <2>2, <2>4, DestroyIndexesKeeps, DestroyFileKeeps, DeleteFromRelcatKeeps,
       DeleteFromAttrcatKeeps
  <2>5. CASE ForceRelcat \/ ForceAttrcat
    BY <1>1, <2>2, <2>5, ForceRelcatKeeps, ForceAttrcatKeeps
  <2>6. CASE BuildIndex \/ UndoIndex \/ UpdateAttrIndexNo \/ UpdateIndexCount
    BY <1>1, <2>2, <2>6, BuildIndexKeeps, UndoIndexKeeps, UpdateAttrIndexNoKeeps,
       UpdateIndexCountKeeps
  <2> QED
    BY <1>7, <2>3, <2>4, <2>5, <2>6
<1>8. ASSUME (\E rel \in Rels : InsertTuples(rel) \/ DeleteTuples(rel)) \/ OpenDb
      PROVE  TablesKept'
  BY <1>1, <1>8, TuplesKeep
<1>9. ASSUME CloseDb \/ Exit PROVE TablesKept'
  BY <1>1, <1>9, CloseDbKeeps, ExitKeeps
<1>10. TablesKept'
  BY <1>3, <1>4, <1>5, <1>6, <1>7, <1>8, <1>9 DEF Next
<1> QED
  BY <1>2, <1>10 DEF CatalogInv

\* Whatever steps fail and whenever processes end, the catalogs and the files of
\* every table whose statements ran to their end are those of its declaration,
\* on disk too, and those of the table a statement is working on are as far as
\* its step says.
THEOREM CatalogInvariant == Spec => []CatalogInv
<1> QED
  BY InitLemma, NextLemma, PTL DEF Spec

\* Every variable has its type, always.
THEOREM TypesHold == Spec => []TypeOK
<1>1. CatalogInv => TypeOK
  BY DEF CatalogInv
<1> QED
  BY <1>1, CatalogInvariant, PTL

\* Whatever fails, and whenever the process ends, the tables whose statements
\* all ran to their end agree with their declarations.
THEOREM OtherTablesAlwaysAgree == Spec => []OtherTablesAgree
<1>1. CatalogInv => OtherTablesAgree
  <2> SUFFICES ASSUME CatalogInv, NEW rel \in Rels \ hurt, stmt # Nothing => stmt.rel # rel
               PROVE  Agrees(rel)
    BY DEF OtherTablesAgree
  <2>1. TypeOK /\ Described(rel, tables[rel])
    BY DEF CatalogInv, TablesKept, AtRest
  <2> QED
    BY <2>1, DescribedAgrees
<1> QED
  BY <1>1, CatalogInvariant, PTL

\* The number CREATE INDEX picks is never that of an index file that is there.
THEOREM NextIndexNoIsAlwaysFree == Spec => []NextIndexNoIsFree
<1>1. CatalogInv => NextIndexNoIsFree
  <2> SUFFICES ASSUME CatalogInv, NEW rel \in Rels \ hurt, stmt = Nothing, RelFound(rel),
                      <<rel, NextIndexNo(rel)>> \in indexFiles
               PROVE  FALSE
    BY DEF NextIndexNoIsFree
  <2>1. TypeOK /\ Described(rel, tables[rel])
    BY DEF CatalogInv, TablesKept, AtRest
  <2>2. PICK attrs : attrs = tables[rel]
    OBVIOUS
  <2>3. /\ attrs # {} /\ ColumnsAre(rel, attrs) /\ IndexFilesAre(rel, Used(rel))
        /\ EntryIs(rel, Cardinality(attrs), Cardinality(Used(rel)))
    BY <2>1, <2>2 DEF Described, RelFound
  <2>4. NextIndexNo(rel) \notin Used(rel)
    BY <2>1, <2>3, InfoIsAll, NextNoIsNew
  <2>5. NextIndexNo(rel) \in IndexNo
    BY <2>1 DEF TypeOK
  <2> QED
    BY <2>3, <2>4, <2>5 DEF IndexFilesAre
<1> QED
  BY <1>1, CatalogInvariant, PTL

-----------------------------------------------------------------------------
(* Undoing a CREATE TABLE *)

\* A step works, or fails and is counted; or the process ends and is counted.
LEMMA MishapCounts ==
  ASSUME Next
  PROVE  \/ exits' = exits /\ (Works \/ \E rel \in {stmt.rel} \union Rels : Fails(rel))
         \/ Exit
<1>1. ASSUME NEW rel \in Rels, NEW attrs, CreateTable(rel, attrs)
      PROVE  exits' = exits /\ (Works \/ Fails(rel))
  BY <1>1 DEF CreateTable
<1>2. ASSUME NEW rel \in Rels, NEW attr, CreateIndex(rel, attr) \/ DropIndex(rel, attr)
      PROVE  exits' = exits /\ (Works \/ Fails(rel))
  BY <1>2 DEF CreateIndex, DropIndex
<1>3. ASSUME NEW rel \in Rels, DropTable(rel) \/ InsertTuples(rel) \/ DeleteTuples(rel)
      PROVE  exits' = exits /\ Works
  BY <1>3 DEF DropTable, InsertTuples, DeleteTuples, history, Works
<1>4. ASSUME OpenDb \/ CloseDb PROVE exits' = exits /\ Works
  BY <1>4 DEF OpenDb, CloseDb, history, Works
<1>5. ASSUME InsertIntoRelcat \/ InsertIntoAttrcat \/ UndoFile \/ DestroyIndexes \/ DestroyFile
      PROVE  exits' = exits /\ (Works \/ Fails(stmt.rel))
  BY <1>5 DEF InsertIntoRelcat, InsertIntoAttrcat, UndoFile, DestroyIndexes, DestroyFile
<1>6. ASSUME DeleteFromRelcat \/ DeleteFromAttrcat \/ ForceRelcat \/ ForceAttrcat
      PROVE  exits' = exits /\ (Works \/ Fails(stmt.rel))
  BY <1>6 DEF DeleteFromRelcat, DeleteFromAttrcat, ForceRelcat, ForceAttrcat
<1>7. ASSUME BuildIndex \/ UndoIndex \/ UpdateAttrIndexNo \/ UpdateIndexCount
      PROVE  exits' = exits /\ (Works \/ Fails(stmt.rel))
  BY <1>7 DEF BuildIndex, UndoIndex, UpdateAttrIndexNo, UpdateIndexCount
<1> QED
  BY <1>1, <1>2, <1>3, <1>4, <1>5, <1>6, <1>7 DEF Next

\* The steps that start to undo, go on, or leave everything as it is; no other
\* step is followed by one that undoes.
LEMMA UndoingSteps ==
  ASSUME Next, Undoing', StatementOK, bDbOpen \/ pc = "idle"
  PROVE  \/ InsertIntoRelcat \/ InsertIntoAttrcat
         \/ DeleteFromRelcat \/ DeleteFromAttrcat
<1>1. ASSUME NEW rel, NEW attrs, CreateTable(rel, attrs) PROVE ~ Undoing'
  BY <1>1 DEF CreateTable, Idle, Undoing
<1>2. ASSUME NEW rel, NEW attr, CreateIndex(rel, attr) \/ DropIndex(rel, attr)
      PROVE  ~ Undoing'
  BY <1>2 DEF CreateIndex, DropIndex, Idle, Undoing
<1>3. ASSUME NEW rel, DropTable(rel) \/ InsertTuples(rel) \/ DeleteTuples(rel)
      PROVE  ~ Undoing'
  BY <1>3 DEF DropTable, InsertTuples, DeleteTuples, Idle, Undoing
<1>4. ASSUME OpenDb \/ CloseDb \/ Exit PROVE ~ Undoing'
  BY <1>4 DEF OpenDb, CloseDb, Exit, Idle, Undoing
<1>5. ASSUME UndoFile \/ DestroyIndexes \/ ForceRelcat \/ ForceAttrcat PROVE ~ Undoing'
  BY <1>5 DEF UndoFile, DestroyIndexes, ForceRelcat, ForceAttrcat, Continue, Return, Undoing
<1>6. ASSUME DestroyFile PROVE ~ Undoing'
  BY <1>6 DEF DestroyFile, Continue, Return, Undoing, StatementOK
<1>7. ASSUME BuildIndex \/ UndoIndex \/ UpdateAttrIndexNo \/ UpdateIndexCount
      PROVE  ~ Undoing'
  BY <1>7 DEF BuildIndex, UndoIndex, UpdateAttrIndexNo, UpdateIndexCount, Continue, Return, Undoing
<1> QED
  BY <1>1, <1>2, <1>3, <1>4, <1>5, <1>6, <1>7 DEF Next

\* A statement runs with the database open.
LEMMA RunsOpen ==
  ASSUME pc # "idle" => bDbOpen, Next
  PROVE  pc' # "idle" => bDbOpen'
<1>1. ASSUME NEW rel, NEW attrs, CreateTable(rel, attrs) PROVE pc' # "idle" => bDbOpen'
  BY <1>1 DEF CreateTable, Idle
<1>2. ASSUME NEW rel, NEW attr, CreateIndex(rel, attr) \/ DropIndex(rel, attr)
      PROVE  pc' # "idle" => bDbOpen'
  BY <1>2 DEF CreateIndex, DropIndex, Idle
<1>3. ASSUME NEW rel, DropTable(rel) \/ InsertTuples(rel) \/ DeleteTuples(rel)
      PROVE  pc' # "idle" => bDbOpen'
  BY <1>3 DEF DropTable, InsertTuples, DeleteTuples, Idle
<1>4. ASSUME OpenDb \/ CloseDb \/ Exit PROVE pc' # "idle" => bDbOpen'
  BY <1>4 DEF OpenDb, CloseDb, Exit, Idle
<1>5. ASSUME InsertIntoRelcat \/ InsertIntoAttrcat \/ UndoFile \/ DestroyIndexes \/ DestroyFile
      PROVE  pc' # "idle" => bDbOpen'
  BY <1>5 DEF InsertIntoRelcat, InsertIntoAttrcat, UndoFile, DestroyIndexes, DestroyFile
<1>6. ASSUME DeleteFromRelcat \/ DeleteFromAttrcat \/ ForceRelcat \/ ForceAttrcat
      PROVE  pc' # "idle" => bDbOpen'
  BY <1>6 DEF DeleteFromRelcat, DeleteFromAttrcat, ForceRelcat, ForceAttrcat
<1>7. ASSUME BuildIndex \/ UndoIndex \/ UpdateAttrIndexNo \/ UpdateIndexCount
      PROVE  pc' # "idle" => bDbOpen'
  BY <1>7 DEF BuildIndex, UndoIndex, UpdateAttrIndexNo, UpdateIndexCount
<1> QED
  BY <1>1, <1>2, <1>3, <1>4, <1>5, <1>6, <1>7 DEF Next

\* A step that undoes does so with no other failure.
LEMMA UndoingGoesOn ==
  ASSUME CatalogInv, UndoneSoFar, Next, Undoing'
  PROVE  /\ faults' >= 1
         /\ faults' = 1 /\ exits' = 0 =>
              /\ \A s, t \in RelRows(stmt.rel)' : s = t
              /\ pc' \in {"deleteAttrcat", "undoFile"} => RelRows(stmt.rel)' = {}
              /\ pc' = "undoFile" => AttrRows(stmt.rel)' = {}
<1>1. /\ TypeOK /\ StatementOK /\ TablesKept /\ faults \in Nat /\ exits \in Nat
      /\ bDbOpen \/ pc = "idle"
  BY DEF CatalogInv, TypeOK, UndoneSoFar
<1>2. CASE InsertIntoRelcat
  <2>1. /\ pc = "insertRelcat" /\ stmt # Nothing /\ stmt' = stmt /\ pc' = "undoFile"
        /\ exits' = exits /\ faults' = faults + 1 /\ UNCHANGED <<relcat, attrcat>>
    BY <1>1, <1>2
    DEF InsertIntoRelcat, Continue, Undoing, Fails, Works, StatementOK
  <2>2. PICK rel \in Rels : rel = stmt.rel
    BY <1>1, <2>1, StatementTypes
  <2>3. ASSUME faults' = 1, exits' = 0 PROVE RelRows(rel)' = {} /\ AttrRows(rel)' = {}
    <3>1. OnItsWay(rel)
      BY <1>1, <2>1, <2>2, <2>3, NotHurt DEF UndoneSoFar
    <3>2. RelRows(rel) = {} /\ AttrRows(rel) = {}
      BY <2>1, <3>1, NoColumns DEF OnItsWay
    <3> QED
      BY <2>1, <3>2 DEF RelRows, AttrRows
  <2> QED
    BY <1>1, <2>1, <2>2, <2>3
<1>3. CASE InsertIntoAttrcat
  <2>1. /\ pc = "insertAttrcat" /\ stmt # Nothing /\ stmt' = stmt /\ pc' = "deleteRelcat"
        /\ exits' = exits /\ faults' = faults + 1 /\ UNCHANGED relcat
    BY <1>1, <1>3
    DEF InsertIntoAttrcat, Continue, Undoing, Fails, Works, StatementOK
  <2>2. PICK rel \in Rels : rel = stmt.rel
    BY <1>1, <2>1, StatementTypes
  <2>3. ASSUME faults' = 1, exits' = 0 PROVE \A s, t \in RelRows(rel)' : s = t
    <3>1. OnItsWay(rel)
      BY <1>1, <2>1, <2>2, <2>3, NotHurt DEF UndoneSoFar
    <3>2. \E s : RelRows(rel) = {s}
      BY <2>1, <3>1 DEF OnItsWay, EntryIs
    <3> QED
      BY <2>1, <3>2 DEF RelRows
  <2> QED
    BY <1>1, <2>1, <2>2, <2>3
<1>4. CASE DeleteFromRelcat
  <2>1. /\ pc = "deleteRelcat" /\ stmt # Nothing /\ stmt' = stmt /\ pc' = "deleteAttrcat"
        /\ stmt.op = "create" /\ exits' = exits
    BY <1>1, <1>4 DEF DeleteFromRelcat, Continue, Undoing, StatementOK
  <2>2. PICK rel \in Rels : rel = stmt.rel
    BY <1>1, <2>1, StatementTypes
  <2>3. faults >= 1 /\ (faults = 1 /\ exits = 0 => \A s, t \in RelRows(rel) : s = t)
    BY <2>1, <2>2 DEF UndoneSoFar, Undoing
  <2>4. faults' = faults \/ faults' = faults + 1
    BY <1>4 DEF DeleteFromRelcat, Works, Fails
  <2>5. ASSUME faults' = 1, exits' = 0 PROVE RelRows(rel)' = {}
    <3>1. Works /\ \A s, t \in RelRows(rel) : s = t
      BY <1>1, <1>4, <2>1, <2>3, <2>5 DEF DeleteFromRelcat, Fails, Works
    <3>2. CASE RelRows(rel) = {}
      BY <1>1, <1>4, <2>2, <2>3, <2>5, <3>1, <3>2 DEF DeleteFromRelcat, Fails, RelRows
    <3>3. CASE RelRows(rel) # {}
      <4>1. PICK s \in RelRows(rel) : s = Min(RelRows(rel))
        BY <1>1, <3>3, FirstOf, RowTypes
      <4>2. SetRel(s, NoRow)
        BY <1>1, <1>4, <2>2, <2>3, <2>5, <3>3, <4>1 DEF DeleteFromRelcat, Fails
      <4>3. RelRows(rel)' = RelRows(rel) \ {s}
        BY <1>1, <4>1, <4>2, SetRelRows, RowTypes
      <4> QED
        BY <3>1, <4>3
    <3> QED
      BY <3>2, <3>3
  <2> QED
    BY <1>1, <2>1, <2>2, <2>3, <2>4, <2>5
<1>5. CASE DeleteFromAttrcat
  <2>1. /\ pc = "deleteAttrcat" /\ stmt # Nothing /\ stmt' = stmt /\ pc' = "undoFile"
        /\ stmt.op = "create" /\ exits' = exits /\ UNCHANGED relcat
    <3>1. /\ pc = "deleteAttrcat" /\ exits' = exits /\ UNCHANGED relcat /\ stmt' = stmt
          /\ pc' = IF stmt.op = "drop" THEN "forceRelcat" ELSE "undoFile"
      BY <1>5 DEF DeleteFromAttrcat, Continue
    <3>2. stmt # Nothing /\ stmt.op \in {"create", "drop"}
      BY <1>1, <3>1, StatementTypes DEF TableSteps
    <3> QED
      BY <3>1, <3>2 DEF Undoing
  <2>2. PICK rel \in Rels : rel = stmt.rel
    BY <1>1, <2>1, StatementTypes
  <2>3. faults >= 1 /\ (faults = 1 /\ exits = 0 => RelRows(rel) = {})
    BY <2>1, <2>2 DEF UndoneSoFar, Undoing
  <2>4. faults' = faults \/ faults' = faults + 1
    BY <1>5 DEF DeleteFromAttrcat, Works, Fails
  <2>5. ASSUME faults' = 1, exits' = 0 PROVE RelRows(rel)' = {} /\ AttrRows(rel)' = {}
    <3>1. attrcat' = [s \in AttrSlots |-> IF s \in AttrRows(rel) THEN NoRow ELSE attrcat[s]]
      BY <1>1, <1>5, <2>2, <2>3, <2>5 DEF DeleteFromAttrcat, Fails
    <3>2. AttrRows(rel)' = {}
      BY <3>1 DEF AttrRows
    <3>3. RelRows(rel)' = {}
      BY <1>1, <2>1, <2>3, <2>4, <2>5 DEF RelRows
    <3> QED
      BY <3>2, <3>3
  <2> QED
    BY <1>1, <2>1, <2>2, <2>3, <2>4, <2>5
<1> QED
  BY <1>1, <1>2, <1>3, <1>4, <1>5, UndoingSteps

\* Every step keeps what undoing relies on.
LEMMA UndoneNext ==
  ASSUME CatalogInv, UndoneSoFar, [Next]_vars
  PROVE  UndoneSoFar'
<1>1. CASE UNCHANGED vars
  BY <1>1 DEF vars, rowVars, fileVars, history, UndoneSoFar, Undoing, RelRows, AttrRows
<1>2. CASE Next
  <2>1. pc' # "idle" => bDbOpen'
    BY <1>2, RunsOpen DEF UndoneSoFar
  <2>2. ASSUME faults' = 0, exits' = 0 PROVE hurt' = {}
    <3>1. faults \in Nat /\ exits \in Nat
      BY DEF CatalogInv, TypeOK
    <3>2. ~ Exit /\ \A rel : ~ Fails(rel)
      BY <2>2, <3>1 DEF Exit, Fails
    <3>3. exits' = exits /\ Works
      BY <1>2, <3>2, MishapCounts
    <3> QED
      BY <2>2, <3>3 DEF Works, UndoneSoFar
  <2> QED
    BY <1>2, <2>1, <2>2, UndoingGoesOn DEF UndoneSoFar
<1> QED
  BY <1>1, <1>2

\* A CREATE TABLE that fails once and undoes its steps leaves no row and no file.
THEOREM FailedCreateIsAlwaysUndone == Spec => FailedCreateIsUndone
<1>1. Init => UndoneSoFar
  BY DEF Init, UndoneSoFar, Undoing
<1>2. CatalogInv /\ UndoneSoFar /\ [Next]_vars => UndoneSoFar'
  BY UndoneNext
<1>3. ASSUME CatalogInv, UndoneSoFar, [Next]_vars
      PROVE  [pc = "undoFile" /\ faults' = 1 /\ exits' = 0 =>
                /\ stmt.rel \notin relFiles'
                /\ RelRows(stmt.rel) = {} /\ AttrRows(stmt.rel) = {}]_vars
  <2> SUFFICES ASSUME Next, pc = "undoFile", faults' = 1, exits' = 0
               PROVE  /\ stmt.rel \notin relFiles'
                      /\ RelRows(stmt.rel) = {} /\ AttrRows(stmt.rel) = {}
    BY <1>3
  <2>1. faults >= 1 /\ bDbOpen /\ faults \in Nat /\ exits \in Nat
    BY <1>3 DEF UndoneSoFar, Undoing, CatalogInv, TypeOK
  <2>2. ~ Exit /\ \A rel : ~ Fails(rel)
    BY <2>1 DEF Exit, Fails
  <2>3. exits' = exits /\ Works
    BY <2>2, MishapCounts
  <2>4. UndoFile
    BY <2>1, <2>2
    DEF Next, CreateTable, InsertIntoRelcat, InsertIntoAttrcat, DropTable, DestroyIndexes,
        DestroyFile, DeleteFromRelcat, DeleteFromAttrcat, ForceRelcat, ForceAttrcat, CreateIndex,
        DropIndex, BuildIndex, UndoIndex, UpdateAttrIndexNo, UpdateIndexCount, InsertTuples,
        DeleteTuples, OpenDb, CloseDb, Idle
  <2> QED
    BY <1>3, <2>2, <2>3, <2>4 DEF UndoFile, UndoneSoFar, Undoing, Works
<1> QED
  BY <1>1, <1>2, <1>3, CatalogInvariant, PTL DEF Spec, FailedCreateIsUndone
=============================================================================
