-------------------------------- MODULE Catalog --------------------------------
(***************************************************************************)
(* The data definition statements of the SM component (SM/src/sm_manager.cc*)
(* and sm_manager2.cc) over the two catalogs, the table files and the index*)
(* files of one database.                                                  *)
(*                                                                         *)
(* A statement takes several steps, on files that change at once and on    *)
(* catalog rows that reach the disk later, and pc is the next one.  Any    *)
(* step can fail, and the process can end before any step.                 *)
(*                                                                         *)
(* The catalogs are RM files and a row is a record of RecordMap: a restart *)
(* takes it to a value it has had since its page was last known to be on   *)
(* disk (relWas, attrWas).  They have all their pages from the start.      *)
(*                                                                         *)
(* A definition marked (fault) is no part of the model: it is a way the    *)
(* definition after it could be wrong, which a property has to notice.     *)
(***************************************************************************)
EXTENDS Integers, FiniteSetsExt

CONSTANTS
  Rels,             \* table names
  Attrs,            \* column names
  RelSlots, AttrSlots,   \* bound: the RIDs of the two catalogs, scanned in order
  NoRow,            \* a slot with no record
  Nothing,          \* no statement is running
  MaxIndexNo,       \* bound: index numbers, which the code lets grow
  MaxMishaps        \* bound on steps that fail and ends of the process with
                    \* the database open, together

ASSUME SlotsAssumption ==
  /\ RelSlots \subseteq Nat /\ IsFiniteSet(RelSlots)
  /\ AttrSlots \subseteq Nat /\ IsFiniteSet(AttrSlots)
ASSUME AttrsAssumption == IsFiniteSet(Attrs)
ASSUME MaxIndexNoAssumption == MaxIndexNo \in Nat
ASSUME MaxMishapsAssumption == MaxMishaps \in Nat

NO_INDEX == -1
IndexNo == 0 .. MaxIndexNo

RelcatRecord  == [rel : Rels, attrCount : 1 .. Cardinality(Attrs),
                  indexCount : Nat]
AttrcatRecord == [rel : Rels, attr : Attrs, indexNo : {NO_INDEX} \union IndexNo]
ASSUME NoRowAssumption == NoRow \notin RelcatRecord \union AttrcatRecord

\* The statement in progress, with what is left of it to do.
TableStatement == [op : {"create", "drop"}, rel : Rels, all : SUBSET Attrs,
                   todo : (SUBSET Attrs) \union (SUBSET IndexNo)]
IndexStatement == [op : {"index", "unindex"}, rel : Rels, attr : Attrs,
                   no : {NO_INDEX} \union IndexNo]
ASSUME NothingAssumption == Nothing \notin TableStatement \union IndexStatement

VARIABLES
  bDbOpen,
  relcat, attrcat,      \* the rows of the catalogs by RID
  relWas, attrWas,      \* the values a restart may leave each of them with
  relFiles, indexFiles, \* the files <<relName>> and <<relName.indexNo>>
  filled,               \* the tables that have tuples
  pc, stmt,             \* the next step, and of which statement
  faults, exits,        \* steps that have failed, ends of the process
  tables,               \* history: the columns of each table as last declared
  hurt                  \* history: tables of statements that failed or were cut short

rowVars  == <<relcat, attrcat, relWas, attrWas>>
fileVars == <<relFiles, indexFiles, filled>>
history  == <<tables, hurt>>
vars == <<bDbOpen, rowVars, fileVars, pc, stmt, faults, exits, history>>

RelRows(rel)  == {s \in RelSlots : relcat[s] # NoRow /\ relcat[s].rel = rel}
AttrRows(rel) == {s \in AttrSlots : attrcat[s] # NoRow /\ attrcat[s].rel = rel}
RowsOf(rel, attr) == {s \in AttrRows(rel) : attrcat[s].attr = attr}

\* GetRelInfo: the first row of relcat says how many rows of attrcat to take.
GetRelInfo(rel) ==
  {s \in AttrRows(rel) :
     Cardinality({t \in AttrRows(rel) : t < s}) < relcat[Min(RelRows(rel))].attrCount}
RelFound(rel) ==
  /\ RelRows(rel) # {}
  /\ Cardinality(AttrRows(rel)) >= relcat[Min(RelRows(rel))].attrCount

\* GetAttrInfo: the first row of that column.
GetAttrInfo(rel, attr) == attrcat[Min(RowsOf(rel, attr))]

IndexFilesOf(rel) == {f \in indexFiles : f[1] = rel}

-----------------------------------------------------------------------------
(* Steps *)

Init ==
  /\ bDbOpen = FALSE
  /\ relcat  = [s \in RelSlots |-> NoRow]  /\ relWas  = [s \in RelSlots |-> {NoRow}]
  /\ attrcat = [s \in AttrSlots |-> NoRow] /\ attrWas = [s \in AttrSlots |-> {NoRow}]
  /\ relFiles = {} /\ indexFiles = {} /\ filled = {}
  /\ pc = "idle" /\ stmt = Nothing
  /\ faults = 0 /\ exits = 0
  /\ tables = [rel \in Rels |-> {}] /\ hurt = {}

\* A statement is about to begin.
Idle == bDbOpen /\ pc = "idle"

Continue(next) == pc' = next /\ UNCHANGED stmt
Return == pc' = "idle" /\ stmt' = Nothing

Works      == UNCHANGED <<faults, hurt>>
Fails(rel) == faults + exits < MaxMishaps /\ faults' = faults + 1 /\ hurt' = hurt \union {rel}

\* A record of a catalog takes a new value.
SetRel(s, row) ==
  /\ relcat' = [relcat EXCEPT ![s] = row]
  /\ relWas' = [relWas EXCEPT ![s] = @ \union {row}]
SetAttr(s, row) ==
  /\ attrcat' = [attrcat EXCEPT ![s] = row]
  /\ attrWas' = [attrWas EXCEPT ![s] = @ \union {row}]

-----------------------------------------------------------------------------
(* CREATE TABLE *)

\* RM's CreateFile, which fails when there is a file of that name.  Begun and
\* not finished, it leaves the file behind or has not made it.
CreateTable(rel, attrs) ==
  /\ Idle
  /\ RelRows(rel) = {}
  /\ attrs # {}
  /\ rel \notin relFiles
  /\ Cardinality(attrs) <= Cardinality({s \in AttrSlots : attrcat[s] = NoRow})
  /\ \E s \in RelSlots : relcat[s] = NoRow
  /\ \/ /\ Works
        /\ relFiles' = relFiles \union {rel}
        /\ pc' = "insertRelcat"
        /\ stmt' = [op |-> "create", rel |-> rel, todo |-> attrs, all |-> attrs]
     \/ /\ Fails(rel)
        /\ relFiles' \in {relFiles, relFiles \union {rel}}
        /\ UNCHANGED <<pc, stmt>>
  /\ UNCHANGED <<bDbOpen, exits, rowVars, indexFiles, filled, tables>>

InsertIntoRelcat ==
  /\ pc = "insertRelcat"
  /\ \/ /\ Works
        /\ \E s \in {t \in RelSlots : relcat[t] = NoRow} :
             SetRel(s, [rel |-> stmt.rel, attrCount |-> Cardinality(stmt.all),
                        indexCount |-> 0])
        /\ Continue("insertAttrcat")
     \/ /\ Fails(stmt.rel)
        /\ Continue("undoFile")
        /\ UNCHANGED <<relcat, relWas>>
  /\ UNCHANGED <<bDbOpen, exits, attrcat, attrWas, fileVars, tables>>

\* (fault) The rows already inserted are left.
InsertIntoAttrcatNoRollback ==
  /\ pc = "insertAttrcat"
  /\ Fails(stmt.rel)
  /\ Continue("undoFile")
  /\ UNCHANGED <<bDbOpen, exits, rowVars, fileVars, tables>>

\* One column after the other; a failure undoes the statement.
InsertIntoAttrcat ==
  /\ pc = "insertAttrcat"
  /\ \/ /\ Works
        /\ \E s \in {t \in AttrSlots : attrcat[t] = NoRow}, attr \in stmt.todo :
             /\ SetAttr(s, [rel |-> stmt.rel, attr |-> attr, indexNo |-> NO_INDEX])
             /\ stmt' = [stmt EXCEPT !.todo = @ \ {attr}]
             /\ pc' = IF stmt.todo = {attr} THEN "forceRelcat" ELSE pc
     \/ /\ Fails(stmt.rel)
        /\ Continue("deleteRelcat")
        /\ UNCHANGED <<attrcat, attrWas>>
  /\ UNCHANGED <<bDbOpen, exits, relcat, relWas, fileVars, tables>>

\* The result of DestroyFile is not looked at.
UndoFile ==
  /\ pc = "undoFile"
  /\ \/ Works /\ relFiles' = relFiles \ {stmt.rel}
     \/ Fails(stmt.rel) /\ UNCHANGED relFiles
  /\ Return
  /\ UNCHANGED <<bDbOpen, exits, rowVars, indexFiles, filled, tables>>

-----------------------------------------------------------------------------
(* DROP TABLE *)

\* (fault) The index files are left.
DropTableKeepsIndexes(rel) ==
  /\ Idle
  /\ RelFound(rel)
  /\ stmt' = [op |-> "drop", rel |-> rel, todo |-> {}, all |-> {}]
  /\ pc' = "destroyFile"
  /\ UNCHANGED <<bDbOpen, exits, rowVars, fileVars, faults, history>>

DropTable(rel) ==
  /\ Idle
  /\ RelFound(rel)
  /\ stmt' = [op |-> "drop", rel |-> rel, all |-> {},
              todo |-> {attrcat[s].indexNo : s \in GetRelInfo(rel)} \ {NO_INDEX}]
  /\ pc' = IF stmt'.todo = {} THEN "destroyFile" ELSE "destroyIndexes"
  /\ UNCHANGED <<bDbOpen, exits, rowVars, fileVars, faults, history>>

\* Index after index; a result nobody looks at.
DestroyIndexes ==
  /\ pc = "destroyIndexes"
  /\ \E no \in stmt.todo :
       /\ \/ Works /\ indexFiles' = indexFiles \ {<<stmt.rel, no>>}
          \/ Fails(stmt.rel) /\ UNCHANGED indexFiles
       /\ stmt' = [stmt EXCEPT !.todo = @ \ {no}]
       /\ pc' = IF stmt.todo = {no} THEN "destroyFile" ELSE pc
  /\ UNCHANGED <<bDbOpen, exits, rowVars, relFiles, filled, tables>>

\* A table whose file is missing, or cannot be removed, keeps its rows.
DestroyFile ==
  /\ pc = "destroyFile"
  /\ \/ /\ stmt.rel \in relFiles
        /\ Works
        /\ relFiles' = relFiles \ {stmt.rel} /\ filled' = filled \ {stmt.rel}
        /\ Continue("deleteRelcat")
     \/ /\ stmt.rel \notin relFiles
        /\ Works
        /\ Return
        /\ UNCHANGED <<relFiles, filled>>
     \/ /\ Fails(stmt.rel)
        /\ Return
        /\ UNCHANGED <<relFiles, filled>>
  /\ UNCHANGED <<bDbOpen, exits, rowVars, indexFiles, tables>>

\* The first row of that name, if there is one.  DeleteRec can fail unseen.
DeleteFromRelcat ==
  /\ pc = "deleteRelcat"
  /\ \/ /\ Works
        /\ RelRows(stmt.rel) # {}
        /\ SetRel(Min(RelRows(stmt.rel)), NoRow)
     \/ /\ Works
        /\ RelRows(stmt.rel) = {}
        /\ UNCHANGED <<relcat, relWas>>
     \/ /\ Fails(stmt.rel)
        /\ UNCHANGED <<relcat, relWas>>
  /\ Continue("deleteAttrcat")
  /\ UNCHANGED <<bDbOpen, exits, attrcat, attrWas, fileVars, tables>>

\* Every row of that name.  A failure ends the scan or leaves out a row.
DeleteFromAttrcat ==
  LET Deleting(rows) ==
        /\ attrcat' = [s \in AttrSlots |-> IF s \in rows THEN NoRow ELSE attrcat[s]]
        /\ attrWas' = [s \in AttrSlots |-> attrWas[s] \union {attrcat'[s]}]
  IN  /\ pc = "deleteAttrcat"
      /\ \/ Works /\ Deleting(AttrRows(stmt.rel))
         \/ /\ Fails(stmt.rel)
            /\ \E rows \in SUBSET AttrRows(stmt.rel) : Deleting(rows)
      /\ Continue(IF stmt.op = "drop" THEN "forceRelcat" ELSE "undoFile")
      /\ UNCHANGED <<bDbOpen, exits, relcat, relWas, fileVars, tables>>

-----------------------------------------------------------------------------
(* The end of every statement that succeeds: the results are not looked at *)

ForceRelcat ==
  /\ pc = "forceRelcat"
  /\ \/ Works /\ relWas' = [s \in RelSlots |-> {relcat[s]}]
     \/ Fails(stmt.rel) /\ UNCHANGED relWas
  /\ Continue("forceAttrcat")
  /\ UNCHANGED <<bDbOpen, exits, relcat, attrcat, attrWas, fileVars, tables>>

Declared ==
  tables' = CASE stmt.op = "create" -> [tables EXCEPT ![stmt.rel] = stmt.all]
              [] stmt.op = "drop"   -> [tables EXCEPT ![stmt.rel] = {}]
              [] OTHER              -> tables

\* (fault) Only relcat is forced.
ForceNoAttrcat ==
  /\ pc = "forceAttrcat"
  /\ Works
  /\ Declared
  /\ Return
  /\ UNCHANGED <<bDbOpen, exits, rowVars, fileVars>>

ForceAttrcat ==
  /\ pc = "forceAttrcat"
  /\ \/ Works /\ attrWas' = [s \in AttrSlots |-> {attrcat[s]}]
     \/ Fails(stmt.rel) /\ UNCHANGED attrWas
  /\ Declared
  /\ Return
  /\ UNCHANGED <<bDbOpen, exits, relcat, relWas, attrcat, fileVars>>

-----------------------------------------------------------------------------
(* CREATE INDEX and DROP INDEX *)

\* (fault) The number of indexes.
CountOfIndexes(rel) ==
  Cardinality({s \in GetRelInfo(rel) : attrcat[s].indexNo # NO_INDEX})

\* One more than the highest in use.
NextIndexNo(rel) ==
  Max({NO_INDEX} \union {attrcat[s].indexNo : s \in GetRelInfo(rel)}) + 1

\* IX's CreateIndex, which fails when there is a file of that name, and leaves
\* one behind when it fails later.
CreateIndex(rel, attr) ==
  LET no == NextIndexNo(rel)
  IN  /\ Idle
      /\ RowsOf(rel, attr) # {}
      /\ GetAttrInfo(rel, attr).indexNo = NO_INDEX
      /\ RelFound(rel)
      /\ no <= MaxIndexNo
      /\ <<rel, no>> \notin indexFiles
      /\ \/ /\ Works
            /\ indexFiles' = indexFiles \union {<<rel, no>>}
            /\ pc' = "buildIndex"
            /\ stmt' = [op |-> "index", rel |-> rel, attr |-> attr, no |-> no]
         \/ /\ Fails(rel)
            /\ indexFiles' \in {indexFiles, indexFiles \union {<<rel, no>>}}
            /\ UNCHANGED <<pc, stmt>>
      /\ UNCHANGED <<bDbOpen, exits, rowVars, relFiles, filled, tables>>

\* Open the index and the table, and enter its tuples.  An index has no root and
\* InsertEntry makes none: the first tuple fails.
BuildIndex ==
  /\ pc = "buildIndex"
  /\ \/ /\ Works
        /\ stmt.rel \in relFiles \ filled
        /\ Continue("indexAttrcat")
     \/ /\ Works
        /\ stmt.rel \in filled \/ stmt.rel \notin relFiles
        /\ Continue("undoIndex")
     \/ Fails(stmt.rel) /\ Continue("undoIndex")
  /\ UNCHANGED <<bDbOpen, exits, rowVars, fileVars, tables>>

UndoIndex ==
  /\ pc = "undoIndex"
  /\ \/ Works /\ indexFiles' = indexFiles \ {<<stmt.rel, stmt.no>>}
     \/ Fails(stmt.rel) /\ UNCHANGED indexFiles
  /\ Return
  /\ UNCHANGED <<bDbOpen, exits, rowVars, relFiles, filled, tables>>

DropIndex(rel, attr) ==
  LET no == GetAttrInfo(rel, attr).indexNo
  IN  /\ Idle
      /\ RowsOf(rel, attr) # {}
      /\ no # NO_INDEX
      /\ <<rel, no>> \in indexFiles
      /\ \/ /\ Works
            /\ indexFiles' = indexFiles \ {<<rel, no>>}
            /\ pc' = "indexAttrcat"
            /\ stmt' = [op |-> "unindex", rel |-> rel, attr |-> attr, no |-> NO_INDEX]
         \/ /\ Fails(rel)
            /\ UNCHANGED <<indexFiles, pc, stmt>>
      /\ UNCHANGED <<bDbOpen, exits, rowVars, relFiles, filled, tables>>

\* The first row of that column.
UpdateAttrIndexNo ==
  LET rows == RowsOf(stmt.rel, stmt.attr)
      s    == Min(rows)
  IN  /\ pc = "indexAttrcat"
      /\ \/ /\ Works
            /\ rows # {}
            /\ SetAttr(s, [attrcat[s] EXCEPT !.indexNo = stmt.no])
            /\ Continue("countIndex")
         \/ /\ Fails(stmt.rel)
            /\ IF stmt.op = "index" THEN Continue("undoIndex") ELSE Return
            /\ UNCHANGED <<attrcat, attrWas>>
      /\ UNCHANGED <<bDbOpen, exits, relcat, relWas, fileVars, tables>>

\* (fault) The count is not kept from going below zero.
UpdateIndexCountUnguarded ==
  LET s == Min(RelRows(stmt.rel))
  IN  /\ pc = "countIndex"
      /\ Works
      /\ RelRows(stmt.rel) # {}
      /\ SetRel(s, [relcat[s] EXCEPT !.indexCount = @ + IF stmt.op = "index" THEN 1 ELSE -1])
      /\ Continue("forceRelcat")
      /\ UNCHANGED <<bDbOpen, exits, attrcat, attrWas, fileVars, tables>>

\* The first row of that table.  A failed update returns with neither catalog
\* forced; a scan that fails is taken for a table without a row.
UpdateIndexCount ==
  LET rows == RelRows(stmt.rel)
      s    == Min(rows)
      n    == relcat[s].indexCount
      new  == IF stmt.op = "index" THEN n + 1 ELSE IF n > 0 THEN n - 1 ELSE 0
  IN  /\ pc = "countIndex"
      /\ \/ /\ Works
            /\ rows # {}
            /\ SetRel(s, [relcat[s] EXCEPT !.indexCount = new])
            /\ Continue("forceRelcat")
         \/ /\ Works
            /\ rows = {}
            /\ Continue("forceRelcat")
            /\ UNCHANGED <<relcat, relWas>>
         \/ /\ Fails(stmt.rel)
            /\ Return \/ Continue("forceRelcat")
            /\ UNCHANGED <<relcat, relWas>>
      /\ UNCHANGED <<bDbOpen, exits, attrcat, attrWas, fileVars, tables>>

-----------------------------------------------------------------------------
(* Tuples, and the database *)

\* INSERT and LOAD; DELETE of every tuple.
InsertTuples(rel) ==
  /\ Idle
  /\ RelFound(rel)
  /\ rel \in relFiles
  /\ filled' = filled \union {rel}
  /\ UNCHANGED <<bDbOpen, exits, rowVars, relFiles, indexFiles, pc, stmt, faults, history>>

DeleteTuples(rel) ==
  /\ Idle
  /\ RelFound(rel)
  /\ rel \in filled
  /\ filled' = filled \ {rel}
  /\ UNCHANGED <<bDbOpen, exits, rowVars, relFiles, indexFiles, pc, stmt, faults, history>>

OpenDb ==
  /\ ~ bDbOpen
  /\ bDbOpen' = TRUE
  /\ UNCHANGED <<rowVars, fileVars, pc, stmt, faults, exits, history>>

\* Closing the catalogs flushes them.
CloseDb ==
  /\ Idle
  /\ bDbOpen' = FALSE
  /\ relWas'  = [s \in RelSlots |-> {relcat[s]}]
  /\ attrWas' = [s \in AttrSlots |-> {attrcat[s]}]
  /\ UNCHANGED <<relcat, attrcat, fileVars, pc, stmt, faults, exits, history>>

\* quit between two statements, or a crash anywhere.
Exit ==
  /\ faults + exits < MaxMishaps /\ exits' = exits + 1
  /\ bDbOpen
  /\ bDbOpen' = FALSE
  /\ relcat'  \in {c \in [RelSlots -> UNION {relWas[s] : s \in RelSlots}] :
                     \A s \in RelSlots : c[s] \in relWas[s]}
  /\ attrcat' \in {c \in [AttrSlots -> UNION {attrWas[s] : s \in AttrSlots}] :
                     \A s \in AttrSlots : c[s] \in attrWas[s]}
  /\ relWas'  = [s \in RelSlots |-> {relcat'[s]}]
  /\ attrWas' = [s \in AttrSlots |-> {attrcat'[s]}]
  /\ hurt' = IF pc = "idle" THEN hurt ELSE hurt \union {stmt.rel}
  /\ pc' = "idle" /\ stmt' = Nothing
  /\ UNCHANGED <<fileVars, faults, tables>>

Next ==
  \/ \E rel \in Rels, attrs \in SUBSET Attrs : CreateTable(rel, attrs)
  \/ InsertIntoRelcat \/ InsertIntoAttrcat \/ UndoFile
  \/ \E rel \in Rels : DropTable(rel)
  \/ DestroyIndexes \/ DestroyFile \/ DeleteFromRelcat \/ DeleteFromAttrcat
  \/ ForceRelcat \/ ForceAttrcat
  \/ \E rel \in Rels, attr \in Attrs : CreateIndex(rel, attr) \/ DropIndex(rel, attr)
  \/ BuildIndex \/ UndoIndex \/ UpdateAttrIndexNo \/ UpdateIndexCount
  \/ \E rel \in Rels : InsertTuples(rel) \/ DeleteTuples(rel)
  \/ OpenDb \/ CloseDb \/ Exit

Spec == Init /\ [][Next]_vars

-----------------------------------------------------------------------------
(* Properties *)

\* Every variable has its type.
TypeOK ==
  /\ bDbOpen \in BOOLEAN
  /\ relcat \in [RelSlots -> RelcatRecord \union {NoRow}]
  /\ attrcat \in [AttrSlots -> AttrcatRecord \union {NoRow}]
  /\ relWas \in [RelSlots -> SUBSET (RelcatRecord \union {NoRow})]
  /\ attrWas \in [AttrSlots -> SUBSET (AttrcatRecord \union {NoRow})]
  /\ filled \subseteq relFiles /\ relFiles \subseteq Rels
  /\ indexFiles \subseteq Rels \X IndexNo
  /\ (pc = "idle") = (stmt = Nothing)
  /\ faults \in Nat /\ exits \in Nat /\ faults + exits <= MaxMishaps
  /\ tables \in [Rels -> SUBSET Attrs]
  /\ hurt \subseteq Rels

\* The catalogs describe rel as it was last declared, with one row for it, one
\* for each column, the right index count, and exactly the files they name.
Agrees(rel) ==
  LET used == {attrcat[s].indexNo : s \in AttrRows(rel)} \ {NO_INDEX}
  IN  /\ {attrcat[s].attr : s \in AttrRows(rel)} = tables[rel]
      /\ Cardinality(AttrRows(rel)) = Cardinality(tables[rel])
      /\ IndexFilesOf(rel) = {<<rel, no>> : no \in used}
      /\ (rel \in relFiles) = (tables[rel] # {})
      /\ Cardinality(RelRows(rel)) = IF tables[rel] = {} THEN 0 ELSE 1
      /\ \A s \in RelRows(rel) : /\ relcat[s].attrCount = Cardinality(tables[rel])
                                 /\ relcat[s].indexCount = Cardinality(used)

\* Whatever fails, and whenever the process ends, every table whose statements
\* all ran to their end is intact: a finished statement is durable, and damage
\* stays with the table whose statement was cut short.
OtherTablesAgree ==
  \A rel \in Rels \ hurt : (stmt # Nothing => stmt.rel # rel) => Agrees(rel)

\* CREATE INDEX never picks the number of an index file that is there.
NextIndexNoIsFree ==
  \A rel \in Rels \ hurt :
     stmt = Nothing /\ RelFound(rel) => <<rel, NextIndexNo(rel)>> \notin indexFiles

\* A CREATE TABLE that fails after its file was made, and undoes its steps
\* without another failure, leaves no row and no file.
FailedCreateIsUndone ==
  [][pc = "undoFile" /\ faults' = 1 /\ exits' = 0 =>
       /\ stmt.rel \notin relFiles'
       /\ RelRows(stmt.rel) = {} /\ AttrRows(stmt.rel) = {}]_vars
=============================================================================
