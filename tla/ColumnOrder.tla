------------------------------ MODULE ColumnOrder ------------------------------
(***************************************************************************)
(* In which order a table's columns come back.  attrcat has a row for each *)
(* column, in no order but that of the slots RM puts the rows in; GetRelInfo*)
(* reads them in the order of a scan, and INSERT pairs the values of a     *)
(* statement with them by position.                                        *)
(*                                                                         *)
(* attrcat is a RecordFile that is always open: pages of slots, and the    *)
(* list of the pages with room, last freed first.  CREATE TABLE and DROP   *)
(* TABLE take one step for each row.  No step fails here.                  *)
(*                                                                         *)
(* A definition marked (fault) is no part of the model: it is a way the    *)
(* definition after it could be wrong, which a property has to notice.     *)
(***************************************************************************)
EXTENDS Integers, Sequences, FiniteSets

CONSTANTS
  Rels, Attrs,
  MaxPages,         \* bound: data pages of attrcat
  RecordsPerPage,
  NoRow

ASSUME SizesAssumption == MaxPages \in Nat \ {0} /\ RecordsPerPage \in Nat \ {0}

\* RIDs in the order of a scan.
RID       == 0 .. MaxPages * RecordsPerPage - 1
Page(rid) == rid \div RecordsPerPage

Row == [rel : Rels, attr : Attrs]
ASSUME NoRowAssumption == NoRow \notin Row

\* Lists of columns, none of them twice.
Columns ==
  UNION {{c \in [1 .. n -> Attrs] : \A i, j \in 1 .. n : c[i] = c[j] => i = j} :
           n \in 1 .. Cardinality(Attrs)}
ASSUME AttrsAssumption == IsFiniteSet(Attrs)

VARIABLES
  attrcat,      \* RID |-> row
  freeList,     \* pages with room, the first to be used first
  numPages,
  declared,     \* history: the columns of each table as CREATE TABLE listed them
  pc,           \* ready, create, drop
  table,        \* of the statement, or of the last one
  entered       \* how many of its columns are in attrcat

vars == <<attrcat, freeList, numPages, declared, pc, table, entered>>

Free == {rid \in RID : attrcat[rid] = NoRow}
FreeSlots(rows, page) == {rid \in RID : Page(rid) = page /\ rows[rid] = NoRow}
MinOf(S) == CHOOSE x \in S : \A y \in S : x <= y

\* A file as the next three see it.
File == [rows |-> attrcat, free |-> freeList, pages |-> numPages]

\* RM_FileHandle::InsertRec: the first free slot of the first page of the list,
\* which leaves the list when it is full; a new page when the list is empty.
InsertRec(f, row) ==
  LET g    == IF f.free # << >> THEN f
              ELSE [f EXCEPT !.free = <<f.pages>>, !.pages = @ + 1]
      page == Head(g.free)
      room == FreeSlots(g.rows, page)
  IN  [g EXCEPT !.rows[MinOf(room)] = row,
                !.free = IF Cardinality(room) = 1 THEN Tail(@) ELSE @]

\* RM_FileHandle::DeleteRec: a page that was full goes to the front.
DeleteRec(f, rid) ==
  [f EXCEPT !.rows[rid] = NoRow,
            !.free = IF FreeSlots(f.rows, Page(rid)) = {} THEN <<Page(rid)>> \o @ ELSE @]

RowsOf(rel) == {rid \in RID : attrcat[rid] # NoRow /\ attrcat[rid].rel = rel}

\* The record a scan of these comes to as the n-th.
Nth(rids, n) == CHOOSE rid \in rids : Cardinality({r \in rids : r <= rid}) = n

\* SM_Manager::GetRelInfo.
GetRelInfo(rel) ==
  [i \in 1 .. Cardinality(RowsOf(rel)) |-> attrcat[Nth(RowsOf(rel), i)].attr]

Becomes(f) == attrcat' = f.rows /\ freeList' = f.free /\ numPages' = f.pages

-----------------------------------------------------------------------------

Init ==
  /\ attrcat = [rid \in RID |-> NoRow]
  /\ freeList = << >>
  /\ numPages = 0
  /\ declared = [rel \in Rels |-> << >>]
  /\ pc = "ready" /\ table \in Rels /\ entered = 0

\* The bound: there is room for the columns.
CreateTable(rel, columns) ==
  /\ pc = "ready"
  /\ declared[rel] = << >>
  /\ Len(columns) <= Cardinality(Free)
  /\ declared' = [declared EXCEPT ![rel] = columns]
  /\ pc' = "create" /\ table' = rel /\ entered' = 0
  /\ UNCHANGED <<attrcat, freeList, numPages>>

\* (fault) The columns are entered from the last to the first.
InsertIntoAttrcatBackwards ==
  /\ pc = "create"
  /\ Becomes(InsertRec(File, [rel  |-> table,
                              attr |-> declared[table][Len(declared[table]) - entered]]))
  /\ entered' = entered + 1
  /\ pc' = IF entered' = Len(declared[table]) THEN "ready" ELSE "create"
  /\ UNCHANGED <<declared, table>>

InsertIntoAttrcat ==
  /\ pc = "create"
  /\ Becomes(InsertRec(File, [rel |-> table, attr |-> declared[table][entered + 1]]))
  /\ entered' = entered + 1
  /\ pc' = IF entered' = Len(declared[table]) THEN "ready" ELSE "create"
  /\ UNCHANGED <<declared, table>>

DropTable(rel) ==
  /\ pc = "ready"
  /\ declared[rel] # << >>
  /\ pc' = "drop" /\ table' = rel
  /\ UNCHANGED <<attrcat, freeList, numPages, declared, entered>>

\* The rows are deleted as the scan comes to them.
DeleteFromAttrcat ==
  /\ pc = "drop" /\ RowsOf(table) # {}
  /\ Becomes(DeleteRec(File, MinOf(RowsOf(table))))
  /\ UNCHANGED <<declared, pc, table, entered>>

DropEnds ==
  /\ pc = "drop" /\ RowsOf(table) = {}
  /\ pc' = "ready" /\ declared' = [declared EXCEPT ![table] = << >>]
  /\ UNCHANGED <<attrcat, freeList, numPages, table, entered>>

Next ==
  \/ \E rel \in Rels, columns \in Columns : CreateTable(rel, columns)
  \/ \E rel \in Rels : DropTable(rel)
  \/ InsertIntoAttrcat \/ DeleteFromAttrcat \/ DropEnds

Spec == Init /\ [][Next]_vars

-----------------------------------------------------------------------------
(* Properties *)

\* The tuple INSERT stores for a list of values: the i-th value goes into the
\* i-th column GetRelInfo lists.
Stored(rel, values) ==
  [attr \in {GetRelInfo(rel)[i] : i \in DOMAIN GetRelInfo(rel)} |->
     values[CHOOSE i \in DOMAIN GetRelInfo(rel) : GetRelInfo(rel)[i] = attr]]

\* The i-th value of INSERT is stored in the i-th column of CREATE TABLE.
Matches(rel) ==
  LET columns == declared[rel]
      values  == [i \in DOMAIN columns |-> i]
  IN  /\ Len(GetRelInfo(rel)) = Len(columns)
      /\ \A i \in DOMAIN columns : Stored(rel, values)[columns[i]] = i

\* So it is for every table, whatever tables were created and dropped before.
ValuesMatchColumns == pc = "ready" => \A rel \in Rels : Matches(rel)

OnOnePage(rel) == \A r, q \in RowsOf(rel) : Page(r) = Page(q)

\* So it is for every table whose columns came to lie on one page of attrcat,
\* wherever on it the drops of other tables had left room.
ValuesMatchOnOnePage ==
  pc = "ready" => \A rel \in Rels : OnOnePage(rel) => Matches(rel)
=============================================================================
