--------------------------- MODULE ColumnOrderProofs ---------------------------
(***************************************************************************)
(* Proofs about ColumnOrder for any tables and columns, any number of      *)
(* pages and any number of records to a page.                              *)
(***************************************************************************)
EXTENDS ColumnOrder, OrderLemmas, TLAPS

-----------------------------------------------------------------------------
(* The file *)

\* A list and a number of pages that fit the rows: the pages with room, each
\* once, and no row beyond the last page.
Fits(rows, list, pages) ==
  /\ list \in Seq(Nat) /\ pages \in Nat
  /\ \A i, j \in DOMAIN list : list[i] = list[j] => i = j
  /\ \A p \in Nat : (\E i \in DOMAIN list : list[i] = p) <=>
                       p < pages /\ FreeSlots(rows, p) # {}
  /\ \A rid \in RID : rows[rid] # NoRow => Page(rid) < pages

\* A RID lies on a page there can be.
LEMMA Pages ==
  ASSUME NEW rid \in RID
  PROVE  rid \in Nat /\ Page(rid) \in Nat /\ Page(rid) < MaxPages
<1>1. MaxPages \in Nat \ {0} /\ RecordsPerPage \in Nat \ {0}
  BY SizesAssumption
<1>2. rid \in Nat /\ rid < MaxPages * RecordsPerPage
  BY <1>1 DEF RID
<1>3. rid \div RecordsPerPage \in Nat
  BY <1>1, <1>2
<1>4. RecordsPerPage * (rid \div RecordsPerPage) <= rid
  BY <1>1, <1>2
<1>5. rid \div RecordsPerPage < MaxPages
  BY <1>1, <1>2, <1>3, <1>4
<1> QED
  BY <1>2, <1>3, <1>5 DEF Page

\* Each page has a first slot.
LEMMA FirstSlot ==
  ASSUME NEW p \in Nat, p < MaxPages
  PROVE  \E rid \in RID : Page(rid) = p
<1>1. MaxPages \in Nat \ {0} /\ RecordsPerPage \in Nat \ {0}
  BY SizesAssumption
<1> DEFINE rid == p * RecordsPerPage
<1>2. rid \in Nat /\ rid \div RecordsPerPage = p
  BY <1>1
<1>3. (p + 1) * RecordsPerPage <= MaxPages * RecordsPerPage
  BY <1>1
<1>4. (p + 1) * RecordsPerPage = p * RecordsPerPage + RecordsPerPage
  BY <1>1
<1>5. rid \in 0 .. MaxPages * RecordsPerPage - 1
  BY <1>1, <1>2, <1>3, <1>4
<1> HIDE DEF rid
<1> QED
  BY <1>2, <1>5 DEF Page, RID

\* RIDs have a first one.
LEMMA FirstRid ==
  ASSUME NEW S, S \subseteq RID, S # {}
  PROVE  MinOf(S) \in S /\ \A rid \in S : MinOf(S) <= rid
<1>1. S \subseteq Nat
  BY Pages
<1>2. \E n \in S : \A m \in S : n <= m
  BY <1>1, LeastElement
<1> QED
  BY <1>2 DEF MinOf

\* There are finitely many RIDs.
LEMMA FiniteRids ==
  ASSUME NEW S, S \subseteq RID
  PROVE  IsFiniteSet(S) /\ Cardinality(S) \in Nat
<1>1. MaxPages * RecordsPerPage - 1 \in Int
  BY SizesAssumption
<1>2. IsFiniteSet(RID)
  BY <1>1, FS_Interval DEF RID
<1> QED
  BY <1>2, FS_Subset, FS_CardinalityType

\* A row goes to the first page of the list, and the list still fits.
LEMMA InsertKeepsList ==
  ASSUME NEW rows, NEW list, NEW pages, Fits(rows, list, pages), list # << >>,
         DOMAIN rows = RID, NEW row, row # NoRow,
         NEW s, s = MinOf(FreeSlots(rows, Head(list)))
  PROVE  /\ s \in FreeSlots(rows, Head(list))
         /\ \A q \in RID : Page(q) = Page(s) /\ q < s => rows[q] # NoRow
         /\ Fits([rows EXCEPT ![s] = row],
                 IF Cardinality(FreeSlots(rows, Head(list))) = 1 THEN Tail(list) ELSE list, pages)
<1> DEFINE page == Head(list)
           room == FreeSlots(rows, page)
           new  == [rows EXCEPT ![s] = row]
<1>1. list \in Seq(Nat) /\ pages \in Nat /\ Len(list) \in Nat \ {0} /\ page = list[1] /\ page \in Nat
  BY DEF Fits
<1>2. page < pages /\ room # {}
  BY <1>1 DEF Fits
<1>3. room \subseteq RID
  BY DEF FreeSlots
<1>4. s \in room /\ \A q \in room : s <= q
  BY <1>2, <1>3, FirstRid
<1>5. s \in RID /\ Page(s) = page /\ rows[s] = NoRow
  BY <1>4 DEF FreeSlots
<1>6. ASSUME NEW q \in RID, Page(q) = Page(s), q < s PROVE rows[q] # NoRow
  <2>1. q \in Nat /\ s \in Nat
    BY <1>5, Pages
  <2>2. q \notin room
    BY <1>4, <1>6, <2>1
  <2> QED
    BY <1>5, <1>6, <2>2 DEF FreeSlots
<1>7. new[s] = row /\ \A q \in RID : q # s => new[q] = rows[q]
  BY <1>5
<1>8. FreeSlots(new, page) = room \ {s}
  BY <1>5, <1>7 DEF FreeSlots
<1>9. \A p : p # page => FreeSlots(new, p) = FreeSlots(rows, p)
  BY <1>5, <1>7 DEF FreeSlots
<1>10. Cardinality(room) = 1 <=> room \ {s} = {}
  <2>1. IsFiniteSet(room) /\ Cardinality(room) \in Nat
    BY <1>3, FiniteRids
  <2>2. Cardinality(room \ {s}) = Cardinality(room) - 1 /\ IsFiniteSet(room \ {s})
    BY <1>4, <2>1, FS_RemoveElement
  <2>3. Cardinality(room \ {s}) = 0 <=> room \ {s} = {}
    BY <2>2, FS_EmptySet
  <2> QED
    BY <2>1, <2>2, <2>3
<1>11. \A rid \in RID : new[rid] # NoRow => Page(rid) < pages
  BY <1>2, <1>5, <1>7 DEF Fits
<1>12. \A i, j \in DOMAIN list : list[i] = list[j] => i = j
  BY DEF Fits
<1>13. \A p \in Nat : (\E i \in DOMAIN list : list[i] = p) <=> p < pages /\ FreeSlots(rows, p) # {}
  BY DEF Fits
<1> HIDE DEF page, room, new
<1>14. CASE Cardinality(room) = 1
  <2> DEFINE rest == Tail(list)
  <2>1. /\ rest \in Seq(Nat) /\ DOMAIN rest = 1 .. Len(list) - 1
        /\ DOMAIN list = 1 .. Len(list)
        /\ \A i \in DOMAIN rest : rest[i] = list[i + 1]
    BY <1>1
  <2> HIDE DEF rest
  <2>2. /\ 1 \in DOMAIN list
        /\ \A i \in DOMAIN rest : i \in Nat /\ i + 1 \in DOMAIN list /\ i + 1 # 1
    BY <1>1, <2>1
  <2>3. ASSUME NEW i \in DOMAIN rest, NEW j \in DOMAIN rest, rest[i] = rest[j] PROVE i = j
    <3>1. i + 1 = j + 1
      BY <1>12, <2>1, <2>3, <2>2
    <3> QED
      BY <2>2, <3>1
  <2>4. ASSUME NEW p \in Nat
        PROVE  (\E i \in DOMAIN rest : rest[i] = p) <=> p # page /\ \E i \in DOMAIN list : list[i] = p
    <3>1. ASSUME NEW i \in DOMAIN rest, rest[i] = p
          PROVE  p # page /\ i + 1 \in DOMAIN list /\ list[i + 1] = p
      BY <1>1, <1>12, <2>1, <2>2, <3>1
    <3>2. ASSUME NEW i \in DOMAIN list, list[i] = p, p # page
          PROVE  i - 1 \in DOMAIN rest /\ rest[i - 1] = p
      BY <1>1, <2>1, <3>2
    <3> QED
      BY <3>1, <3>2
  <2>5. FreeSlots(new, page) = {}
    BY <1>8, <1>10, <1>14
  <2>6. \A p \in Nat : (\E i \in DOMAIN rest : rest[i] = p) <=> p < pages /\ FreeSlots(new, p) # {}
    BY <1>9, <1>13, <2>4, <2>5
  <2>7. Fits(new, rest, pages)
    BY <1>1, <1>11, <2>1, <2>3, <2>6 DEF Fits
  <2> QED
    BY <1>4, <1>6, <1>14, <2>7 DEF rest, room, new, page
<1>15. CASE Cardinality(room) # 1
  <2>1. FreeSlots(new, page) # {}
    BY <1>8, <1>10, <1>15
  <2>2. \A p \in Nat : (\E i \in DOMAIN list : list[i] = p) <=> p < pages /\ FreeSlots(new, p) # {}
    BY <1>1, <1>2, <1>9, <1>13, <2>1 DEF room
  <2>3. Fits(new, list, pages)
    BY <1>1, <1>11, <1>12, <2>2 DEF Fits
  <2> QED
    BY <1>4, <1>6, <1>15, <2>3 DEF room, new, page
<1> QED
  BY <1>14, <1>15

\* When no page has room, the next one there can be has.
LEMMA NewPageFits ==
  ASSUME NEW rows, NEW pages, Fits(rows, << >>, pages), NEW rid \in RID, rows[rid] = NoRow
  PROVE  Fits(rows, <<pages>>, pages + 1)
<1>1. pages \in Nat /\ \A p \in Nat : p < pages => FreeSlots(rows, p) = {}
  BY DEF Fits
<1>2. rid \in FreeSlots(rows, Page(rid)) /\ Page(rid) \in Nat /\ Page(rid) < MaxPages
  BY Pages DEF FreeSlots
<1>3. pages <= Page(rid)
  BY <1>1, <1>2
<1>4. pages < MaxPages
  BY <1>1, <1>2, <1>3, SizesAssumption
<1>5. PICK first \in RID : Page(first) = pages
  BY <1>1, <1>4, FirstSlot
<1>6. rows[first] = NoRow
  BY <1>1, <1>5 DEF Fits
<1>7. FreeSlots(rows, pages) # {}
  BY <1>5, <1>6 DEF FreeSlots
<1> DEFINE list == <<pages>>
<1>8. list \in Seq(Nat) /\ DOMAIN list = {1} /\ list[1] = pages /\ pages + 1 \in Nat
  BY <1>1
<1> HIDE DEF list
<1>9. \A p \in Nat : p < pages + 1 <=> p < pages \/ p = pages
  BY <1>1
<1>10. \A q \in RID : rows[q] # NoRow => Page(q) < pages + 1
  <2>1. \A q \in RID : rows[q] # NoRow => Page(q) < pages
    BY DEF Fits
  <2> QED
    BY <1>1, <2>1, Pages
<1>11. \A p \in Nat : (\E i \in DOMAIN list : list[i] = p) <=> p < pages + 1 /\ FreeSlots(rows, p) # {}
  BY <1>1, <1>7, <1>8, <1>9
<1>12. Fits(rows, list, pages + 1)
  BY <1>8, <1>10, <1>11 DEF Fits
<1> QED
  BY <1>12 DEF list

\* The page of a deleted row has room, and is in the list once.
LEMMA DeleteKeepsList ==
  ASSUME NEW rows, NEW list, NEW pages, Fits(rows, list, pages), DOMAIN rows = RID,
         NEW s \in RID, rows[s] # NoRow
  PROVE  Fits([rows EXCEPT ![s] = NoRow],
              IF FreeSlots(rows, Page(s)) = {} THEN <<Page(s)>> \o list ELSE list, pages)
<1> DEFINE page == Page(s)
           room == FreeSlots(rows, page)
           new  == [rows EXCEPT ![s] = NoRow]
<1>1. /\ list \in Seq(Nat) /\ pages \in Nat /\ Len(list) \in Nat
      /\ page \in Nat /\ page < pages
  BY Pages DEF Fits
<1>2. new[s] = NoRow /\ \A q \in RID : q # s => new[q] = rows[q]
  OBVIOUS
<1>3. FreeSlots(new, page) # {}
  BY <1>2 DEF FreeSlots
<1>4. \A p : p # page => FreeSlots(new, p) = FreeSlots(rows, p)
  BY <1>2 DEF FreeSlots
<1>5. \A rid \in RID : new[rid] # NoRow => Page(rid) < pages
  BY <1>2 DEF Fits
<1>6. \A i, j \in DOMAIN list : list[i] = list[j] => i = j
  BY DEF Fits
<1>7. \A p \in Nat : (\E i \in DOMAIN list : list[i] = p) <=> p < pages /\ FreeSlots(rows, p) # {}
  BY DEF Fits
<1> HIDE DEF page, room, new
<1>8. CASE room = {}
  <2> DEFINE longer == <<page>> \o list
  <2>1. /\ longer \in Seq(Nat) /\ DOMAIN longer = 1 .. Len(list) + 1
        /\ DOMAIN list = 1 .. Len(list)
        /\ longer[1] = page
        /\ \A i \in DOMAIN longer : i # 1 => longer[i] = list[i - 1]
    BY <1>1
  <2> HIDE DEF longer
  <2>2. \A i \in DOMAIN list : list[i] # page
    BY <1>1, <1>7, <1>8 DEF room
  <2>3. ASSUME NEW i \in DOMAIN longer, NEW j \in DOMAIN longer, longer[i] = longer[j]
        PROVE  i = j
    <3>1. \A k \in DOMAIN longer : k # 1 => k - 1 \in DOMAIN list
      BY <1>1, <2>1
    <3>2. CASE i = 1 \/ j = 1
      BY <2>1, <2>2, <2>3, <3>1, <3>2
    <3>3. CASE i # 1 /\ j # 1
      <4>1. i - 1 = j - 1
        BY <1>6, <2>1, <2>3, <3>1, <3>3
      <4> QED
        BY <2>1, <4>1
    <3> QED
      BY <3>2, <3>3
  <2>4. ASSUME NEW p \in Nat
        PROVE  (\E i \in DOMAIN longer : longer[i] = p) <=> p = page \/ \E i \in DOMAIN list : list[i] = p
    <3>1. ASSUME NEW i \in DOMAIN list
          PROVE  i + 1 \in DOMAIN longer /\ longer[i + 1] = list[i]
      <4>1. i \in Nat /\ i + 1 \in DOMAIN longer /\ i + 1 # 1 /\ (i + 1) - 1 = i
        BY <1>1, <2>1, <3>1
      <4> QED
        BY <2>1, <4>1
    <3>2. 1 \in DOMAIN longer
      BY <1>1, <2>1
    <3>3. \A i \in DOMAIN longer : i # 1 => i - 1 \in DOMAIN list
      BY <1>1, <2>1
    <3> QED
      BY <2>1, <3>1, <3>2, <3>3
  <2>5. \A p \in Nat : (\E i \in DOMAIN longer : longer[i] = p) <=> p < pages /\ FreeSlots(new, p) # {}
    BY <1>1, <1>3, <1>4, <1>7, <2>4
  <2>6. Fits(new, longer, pages)
    BY <1>1, <1>5, <2>1, <2>3, <2>5 DEF Fits
  <2> QED
    BY <1>8, <2>6 DEF longer, room, new, page
<1>9. CASE room # {}
  <2>1. \A p \in Nat : (\E i \in DOMAIN list : list[i] = p) <=> p < pages /\ FreeSlots(new, p) # {}
    BY <1>3, <1>4, <1>7, <1>9 DEF room
  <2>2. Fits(new, list, pages)
    BY <1>1, <1>5, <1>6, <2>1 DEF Fits
  <2> QED
    BY <1>9, <2>2 DEF room, new, page
<1> QED
  BY <1>8, <1>9

-----------------------------------------------------------------------------
(* The inductive invariant *)

Types ==
  /\ attrcat \in [RID -> Row \union {NoRow}]
  /\ declared \in [Rels -> Seq(Attrs)]
  /\ \A rel \in Rels : \A i, j \in DOMAIN declared[rel] :
        declared[rel][i] = declared[rel][j] => i = j
  /\ pc \in {"ready", "create", "drop"}
  /\ table \in Rels
  /\ entered \in Nat

\* How many columns of a table have been entered.
Due == [rel \in Rels |-> IF pc = "create" /\ table = rel THEN entered ELSE Len(declared[rel])]

Rows == [rel \in Rels |-> RowsOf(rel)]

\* Rows are columns of their table that have been entered, ...
RowsAreColumns ==
  \A rel \in Rels : \A r \in Rows[rel] :
     \E i \in 1 .. Due[rel] : i \in DOMAIN declared[rel] /\ attrcat[r].attr = declared[rel][i]

\* ... no column has two rows, ...
NoneTwice ==
  \A rel \in Rels : \A r, q \in Rows[rel] : attrcat[r].attr = attrcat[q].attr => r = q

\* ... and each that has been entered has one, until the table is dropped.
NoneMissing ==
  \A rel \in Rels : ~ (pc = "drop" /\ table = rel) =>
     \A i \in 1 .. Due[rel] : \E r \in Rows[rel] : attrcat[r].attr = declared[rel][i]

\* On each page the rows of a table are in the order of its columns.
PagesInOrder ==
  \A rel \in Rels : \A r, q \in Rows[rel] : \A i, j \in DOMAIN declared[rel] :
     Page(r) = Page(q) /\ i < j /\ attrcat[r].attr = declared[rel][i]
        /\ attrcat[q].attr = declared[rel][j] => r < q

\* No slot is free below a row of the table that is being created.
Packed ==
  pc = "create" =>
     \A r \in Rows[table] : \A q \in RID : Page(q) = Page(r) /\ q < r => attrcat[q] # NoRow

\* There is room for the columns that are still to be entered.
RoomLeft ==
  pc = "create" =>
     /\ entered < Len(declared[table])
     /\ Len(declared[table]) - entered <= Cardinality(Free)

OrderInv ==
  /\ Types /\ Fits(attrcat, freeList, numPages)
  /\ RowsAreColumns /\ NoneTwice /\ NoneMissing /\ PagesInOrder /\ Packed /\ RoomLeft

\* At the beginning there are no tables, rows or pages.
LEMMA InitLemma ==
  Init => OrderInv
<1> SUFFICES ASSUME Init PROVE OrderInv
  OBVIOUS
<1> USE DEF Init
<1>1. \A rel \in Rels : Rows[rel] = {}
  BY DEF Rows, RowsOf
<1>2. \A rel \in Rels : declared[rel] = << >> /\ Due[rel] = 0
  BY DEF Due
<1>3. Types
  BY DEF Types
<1>4. Fits(attrcat, freeList, numPages)
  <2>1. freeList \in Seq(Nat) /\ DOMAIN freeList = {} /\ \A p \in Nat : ~ (p < 0)
    OBVIOUS
  <2> QED
    BY <2>1 DEF Fits
<1>5. RowsAreColumns /\ NoneTwice /\ PagesInOrder /\ Packed /\ RoomLeft
  BY <1>1 DEF RowsAreColumns, NoneTwice, PagesInOrder, Packed, RoomLeft
<1>6. NoneMissing
  BY <1>2 DEF NoneMissing
<1> QED
  BY <1>3, <1>4, <1>5, <1>6 DEF OrderInv

\* A list of columns is one, and not empty.
LEMMA ColumnLists ==
  ASSUME NEW columns \in Columns
  PROVE  /\ columns \in Seq(Attrs) /\ Len(columns) \in Nat \ {0}
         /\ \A i, j \in DOMAIN columns : columns[i] = columns[j] => i = j
<1>1. Cardinality(Attrs) \in Nat
  BY AttrsAssumption, FS_CardinalityType
<1>2. PICK n \in 1 .. Cardinality(Attrs) :
        columns \in [1 .. n -> Attrs] /\ \A i, j \in 1 .. n : columns[i] = columns[j] => i = j
  BY DEF Columns
<1>3. n \in Nat \ {0}
  BY <1>1, <1>2
<1>4. columns \in Seq(Attrs) /\ Len(columns) = n
  BY <1>2, <1>3
<1> QED
  BY <1>2, <1>3, <1>4

\* A table is declared: it has no rows yet.
LEMMA CreateTableKeeps ==
  ASSUME OrderInv, NEW rel \in Rels, NEW columns \in Columns, CreateTable(rel, columns)
  PROVE  OrderInv'
<1> USE DEF OrderInv
<1>1. /\ pc = "ready" /\ declared[rel] = << >> /\ Len(columns) <= Cardinality(Free)
      /\ declared' = [declared EXCEPT ![rel] = columns]
      /\ pc' = "create" /\ table' = rel /\ entered' = 0
      /\ UNCHANGED <<attrcat, freeList, numPages>>
  BY DEF CreateTable
<1>2. /\ columns \in Seq(Attrs) /\ Len(columns) \in Nat \ {0}
      /\ \A i, j \in DOMAIN columns : columns[i] = columns[j] => i = j
  BY ColumnLists
<1>3. declared'[rel] = columns /\ \A q \in Rels : q # rel => declared'[q] = declared[q]
  BY <1>1 DEF Types
<1>4. \A q \in Rels : Rows'[q] = Rows[q]
  BY <1>1 DEF Rows, RowsOf
<1>5. Rows[rel] = {}
  BY <1>1 DEF RowsAreColumns
<1>6. Due'[rel] = 0 /\ \A q \in Rels : q # rel => Due'[q] = Due[q]
  BY <1>1, <1>3 DEF Due
<1>7. Types'
  <2>1. declared' \in [Rels -> Seq(Attrs)]
    BY <1>1, <1>2 DEF Types
  <2>2. \A q \in Rels : \A i, j \in DOMAIN declared'[q] :
          declared'[q][i] = declared'[q][j] => i = j
    BY <1>2, <1>3 DEF Types
  <2> QED
    BY <1>1, <2>1, <2>2 DEF Types
<1>8. Fits(attrcat, freeList, numPages)'
  BY <1>1 DEF Fits, FreeSlots
<1>9. RowsAreColumns' /\ NoneTwice' /\ PagesInOrder'
  BY <1>1, <1>3, <1>4, <1>5, <1>6 DEF RowsAreColumns, NoneTwice, PagesInOrder
<1>10. NoneMissing'
  BY <1>1, <1>3, <1>4, <1>6 DEF NoneMissing
<1>11. Packed'
  BY <1>1, <1>4, <1>5 DEF Packed
<1>12. Free' = Free
  BY <1>1 DEF Free
<1>13. RoomLeft'
  BY <1>1, <1>2, <1>3, <1>12 DEF RoomLeft
<1> QED
  BY <1>7, <1>8, <1>9, <1>10, <1>11, <1>13

\* A column's row goes to the first free slot of some page.
LEMMA InsertPicksSlot ==
  ASSUME OrderInv, pc = "create", NEW row \in Row, Becomes(InsertRec(File, row))
  PROVE  \E s \in RID :
           /\ attrcat[s] = NoRow /\ attrcat' = [attrcat EXCEPT ![s] = row]
           /\ \A q \in RID : Page(q) = Page(s) /\ q < s => attrcat[q] # NoRow
           /\ Fits(attrcat, freeList, numPages)'
<1> DEFINE g    == IF freeList # << >> THEN File
                   ELSE [File EXCEPT !.free = <<numPages>>, !.pages = numPages + 1]
           room == FreeSlots(g.rows, Head(g.free))
           s    == MinOf(room)
<1>1. row # NoRow /\ DOMAIN attrcat = RID
  BY NoRowAssumption DEF OrderInv, Types
<1>2. g.rows = attrcat /\ g.free # << >>
  BY DEF File
<1>3. Fits(attrcat, g.free, g.pages)
  <2>1. CASE freeList # << >>
    BY <2>1 DEF OrderInv, File
  <2>2. CASE freeList = << >>
    <3>1. Cardinality(Free) # 0
      <4>1. /\ entered \in Nat /\ entered < Len(declared[table])
            /\ Len(declared[table]) \in Nat
            /\ Len(declared[table]) - entered <= Cardinality(Free)
        BY DEF OrderInv, Types, RoomLeft
      <4>2. Cardinality(Free) \in Nat
        BY FiniteRids DEF Free
      <4> QED
        BY <4>1, <4>2
    <3>2. Free # {}
      BY <3>1, FS_EmptySet
    <3>3. PICK rid \in RID : attrcat[rid] = NoRow
      BY <3>2 DEF Free
    <3>4. Fits(attrcat, <<numPages>>, numPages + 1)
      BY <2>2, <3>3, NewPageFits DEF OrderInv
    <3>5. g.free = <<numPages>> /\ g.pages = numPages + 1
      BY <2>2 DEF File
    <3> QED
      BY <3>4, <3>5
  <2> QED
    BY <2>1, <2>2
<1>4. /\ attrcat' = [g.rows EXCEPT ![s] = row]
      /\ freeList' = IF Cardinality(room) = 1 THEN Tail(g.free) ELSE g.free
      /\ numPages' = g.pages
  <2>1. InsertRec(File, row) = [g EXCEPT !.rows[s] = row,
                                         !.free = IF Cardinality(room) = 1 THEN Tail(@) ELSE @]
    BY DEF InsertRec, File
  <2>2. /\ g = [rows |-> attrcat, free |-> g.free, pages |-> g.pages]
    BY DEF File
  <2> HIDE DEF g, room, s
  <2> QED
    BY <2>1, <2>2 DEF Becomes
<1> HIDE DEF g
<1>5. /\ s \in room
      /\ \A q \in RID : Page(q) = Page(s) /\ q < s => attrcat[q] # NoRow
      /\ Fits([attrcat EXCEPT ![s] = row],
              IF Cardinality(room) = 1 THEN Tail(g.free) ELSE g.free, g.pages)
  BY <1>1, <1>2, <1>3, InsertKeepsList
<1>6. s \in RID /\ attrcat[s] = NoRow
  BY <1>2, <1>5 DEF FreeSlots
<1> HIDE DEF s, room
<1>7. Fits(attrcat', freeList', numPages')
  BY <1>2, <1>4, <1>5
<1>8. Fits(attrcat, freeList, numPages)'
  BY <1>7 DEF Fits
<1> QED
  BY <1>2, <1>4, <1>5, <1>6, <1>8

\* The next column is entered, above the earlier ones on its page.
LEMMA InsertKeeps ==
  ASSUME OrderInv, InsertIntoAttrcat
  PROVE  OrderInv'
<1> DEFINE n   == entered + 1
           row == [rel |-> table, attr |-> declared[table][n]]
<1>1. /\ pc = "create" /\ Becomes(InsertRec(File, row)) /\ entered' = n
      /\ pc' = IF entered' = Len(declared[table]) THEN "ready" ELSE "create"
      /\ UNCHANGED <<declared, table>>
  BY DEF InsertIntoAttrcat
<1>2. /\ attrcat \in [RID -> Row \union {NoRow}] /\ declared \in [Rels -> Seq(Attrs)]
      /\ table \in Rels /\ entered \in Nat
  BY DEF OrderInv, Types
<1>3. /\ entered < Len(declared[table]) /\ Len(declared[table]) \in Nat
      /\ Len(declared[table]) - entered <= Cardinality(Free)
  BY <1>1, <1>2 DEF OrderInv, RoomLeft
<1>4. /\ n \in Nat /\ n \in DOMAIN declared[table] /\ declared[table][n] \in Attrs
      /\ DOMAIN declared[table] = 1 .. Len(declared[table])
  BY <1>2, <1>3
<1>5. row \in Row /\ row # NoRow /\ row.rel = table /\ row.attr = declared[table][n]
  BY <1>2, <1>4, NoRowAssumption DEF Row
<1> HIDE DEF row
<1>6. PICK s \in RID :
        /\ attrcat[s] = NoRow /\ attrcat' = [attrcat EXCEPT ![s] = row]
        /\ \A q \in RID : Page(q) = Page(s) /\ q < s => attrcat[q] # NoRow
        /\ Fits(attrcat, freeList, numPages)'
  BY <1>1, <1>5, InsertPicksSlot
<1>7. attrcat'[s] = row /\ \A q \in RID : q # s => attrcat'[q] = attrcat[q]
  BY <1>2, <1>6
<1>8. /\ Rows'[table] = Rows[table] \union {s} /\ s \notin Rows[table]
      /\ \A rel \in Rels : rel # table => Rows'[rel] = Rows[rel]
  BY <1>1, <1>2, <1>5, <1>6, <1>7 DEF Rows, RowsOf
<1>9. /\ Due[table] = entered /\ Due'[table] = n
      /\ \A rel \in Rels : rel # table => Due'[rel] = Due[rel]
  BY <1>1, <1>2 DEF Due
<1>10. \A rel \in Rels, r \in RID : r \in Rows[rel] => r # s /\ attrcat'[r] = attrcat[r]
  BY <1>6, <1>7 DEF Rows, RowsOf
<1>11. \A rel \in Rels : Rows[rel] \subseteq RID
  BY DEF Rows, RowsOf
<1>12. \A r \in Rows[table] :
         \E i \in 1 .. entered : i \in DOMAIN declared[table] /\ attrcat[r].attr = declared[table][i]
  BY <1>2, <1>9 DEF OrderInv, RowsAreColumns
<1>13. \A i, j \in DOMAIN declared[table] : declared[table][i] = declared[table][j] => i = j
  BY <1>2 DEF OrderInv, Types
<1>14. Types'
  BY <1>1, <1>2, <1>4, <1>5, <1>6 DEF OrderInv, Types
<1>15. RowsAreColumns'
  <2> SUFFICES ASSUME NEW rel \in Rels, NEW r \in Rows'[rel]
               PROVE  \E i \in 1 .. Due'[rel] :
                        i \in DOMAIN declared[rel] /\ attrcat'[r].attr = declared[rel][i]
    BY <1>1 DEF RowsAreColumns
  <2>1. CASE rel # table
    BY <1>8, <1>9, <1>10, <1>11, <2>1 DEF OrderInv, RowsAreColumns
  <2>2. CASE rel = table /\ r = s
    BY <1>4, <1>5, <1>7, <1>9, <2>2
  <2>3. CASE rel = table /\ r # s
    <3>1. PICK i \in 1 .. entered : i \in DOMAIN declared[rel] /\ attrcat[r].attr = declared[rel][i]
      BY <1>8, <1>12, <2>3
    <3>2. i \in 1 .. n
      BY <1>2, <3>1
    <3> QED
      BY <1>8, <1>9, <1>10, <1>11, <2>3, <3>1, <3>2
  <2> QED
    BY <2>1, <2>2, <2>3
<1>16. \A r \in Rows[table] : attrcat[r].attr # declared[table][n]
  <2> SUFFICES ASSUME NEW r \in Rows[table], attrcat[r].attr = declared[table][n] PROVE FALSE
    OBVIOUS
  <2>1. PICK i \in 1 .. entered : i \in DOMAIN declared[table] /\ attrcat[r].attr = declared[table][i]
    BY <1>12
  <2>2. i = n
    BY <1>4, <1>13, <2>1
  <2> QED
    BY <1>2, <2>1, <2>2
<1> HIDE DEF n
<1>17. NoneTwice'
  <2> SUFFICES ASSUME NEW rel \in Rels, NEW r \in Rows'[rel], NEW q \in Rows'[rel],
                      attrcat'[r].attr = attrcat'[q].attr
               PROVE  r = q
    BY DEF NoneTwice
  <2>1. CASE rel # table
    BY <1>8, <1>10, <1>11, <2>1 DEF OrderInv, NoneTwice
  <2>2. CASE rel = table /\ r # s /\ q # s
    BY <1>8, <1>10, <1>11, <2>2 DEF OrderInv, NoneTwice
  <2>3. CASE rel = table /\ (r = s \/ q = s)
    BY <1>5, <1>7, <1>8, <1>10, <1>11, <1>16, <2>3
  <2> QED
    BY <2>1, <2>2, <2>3
<1>18. NoneMissing'
  <2> SUFFICES ASSUME NEW rel \in Rels, NEW i \in 1 .. Due'[rel]
               PROVE  \E r \in Rows'[rel] : attrcat'[r].attr = declared[rel][i]
    BY <1>1 DEF NoneMissing
  <2>1. ASSUME NEW r \in Rows[rel], attrcat[r].attr = declared[rel][i]
        PROVE  r \in Rows'[rel] /\ attrcat'[r].attr = declared[rel][i]
    BY <1>8, <1>10, <1>11, <2>1
  <2>2. CASE rel # table \/ i # n
    <3>1. i \in 1 .. Due[rel]
      BY <1>2, <1>9, <2>2 DEF n
    <3>2. \E r \in Rows[rel] : attrcat[r].attr = declared[rel][i]
      BY <1>1, <3>1 DEF OrderInv, NoneMissing
    <3> QED
      BY <2>1, <3>2
  <2>3. CASE rel = table /\ i = n
    BY <1>5, <1>7, <1>8, <2>3
  <2> QED
    BY <2>2, <2>3
<1>19. \A r \in Rows[table] : Page(r) = Page(s) => r < s
  <2> SUFFICES ASSUME NEW r \in Rows[table], Page(r) = Page(s) PROVE r < s
    OBVIOUS
  <2>1. \A q \in RID : Page(q) = Page(r) /\ q < r => attrcat[q] # NoRow
    BY <1>1 DEF OrderInv, Packed
  <2>2. r \in RID /\ r # s /\ r \in Nat /\ s \in Nat
    BY <1>2, <1>8, <1>11, Pages
  <2>3. ~ (s < r)
    BY <1>6, <2>1
  <2> QED
    BY <2>2, <2>3
<1>20. PagesInOrder'
  <2> SUFFICES ASSUME NEW rel \in Rels, NEW r \in Rows'[rel], NEW q \in Rows'[rel],
                      NEW i \in DOMAIN declared[rel], NEW j \in DOMAIN declared[rel],
                      Page(r) = Page(q), i < j,
                      attrcat'[r].attr = declared[rel][i], attrcat'[q].attr = declared[rel][j]
               PROVE  r < q
    BY <1>1 DEF PagesInOrder
  <2>1. CASE rel # table \/ (r # s /\ q # s)
    <3>1. r \in Rows[rel] /\ q \in Rows[rel]
      BY <1>8, <2>1
    <3>2. attrcat[r].attr = declared[rel][i] /\ attrcat[q].attr = declared[rel][j]
      BY <1>10, <1>11, <3>1
    <3> QED
      BY <3>1, <3>2 DEF OrderInv, PagesInOrder
  <2>2. CASE rel = table /\ r # s /\ q = s
    BY <1>8, <1>19, <2>2
  <2>3. CASE rel = table /\ r = s
    <3>1. i = n
      BY <1>4, <1>5, <1>7, <1>13, <2>3
    <3>2. j \in Nat /\ j <= n
      <4>1. CASE q = s
        BY <1>4, <1>5, <1>7, <1>13, <2>3, <4>1
      <4>2. CASE q # s
        <5>1. PICK k \in 1 .. entered :
                k \in DOMAIN declared[table] /\ attrcat[q].attr = declared[table][k]
          BY <1>8, <1>12, <2>3, <4>2
        <5>2. attrcat[q].attr = declared[table][j]
          BY <1>8, <1>10, <1>11, <2>3, <4>2
        <5>3. k = j
          BY <1>13, <2>3, <5>1, <5>2
        <5> QED
          BY <1>2, <5>1, <5>3 DEF n
      <4> QED
        BY <4>1, <4>2
    <3> QED
      BY <1>4, <3>1, <3>2
  <2> QED
    BY <2>1, <2>2, <2>3
<1>21. Packed'
  <2> SUFFICES ASSUME NEW r \in Rows'[table], NEW q \in RID, Page(q) = Page(r), q < r
               PROVE  attrcat'[q] # NoRow
    BY <1>1 DEF Packed
  <2>1. CASE r = s
    BY <1>6, <1>7, <1>5, <2>1
  <2>2. CASE r # s
    <3>1. r \in Rows[table]
      BY <1>8, <2>2
    <3>2. attrcat[q] # NoRow
      BY <1>1, <3>1 DEF OrderInv, Packed
    <3> QED
      BY <1>5, <1>7, <3>2
  <2> QED
    BY <2>1, <2>2
<1>22. RoomLeft'
  <2>1. Free' = Free \ {s} /\ s \in Free /\ Free \subseteq RID
    BY <1>5, <1>6, <1>7 DEF Free
  <2>2. Cardinality(Free') = Cardinality(Free) - 1 /\ Cardinality(Free) \in Nat
    <3>1. IsFiniteSet(Free) /\ Cardinality(Free) \in Nat
      BY <2>1, FiniteRids
    <3> QED
      BY <2>1, <3>1, FS_RemoveElement
  <2> QED
    BY <1>1, <1>2, <1>3, <2>2 DEF RoomLeft, n
<1> QED
  BY <1>6, <1>14, <1>15, <1>17, <1>18, <1>20, <1>21, <1>22 DEF OrderInv

\* A table begins to be dropped.
LEMMA DropTableKeeps ==
  ASSUME OrderInv, NEW rel \in Rels, DropTable(rel)
  PROVE  OrderInv'
<1> USE DEF OrderInv
<1>1. /\ pc = "ready" /\ pc' = "drop" /\ table' = rel
      /\ UNCHANGED <<attrcat, freeList, numPages, declared, entered>>
  BY DEF DropTable
<1>2. Rows' = Rows /\ Due' = Due
  BY <1>1 DEF Rows, RowsOf, Due
<1>3. Types' /\ Packed' /\ RoomLeft'
  BY <1>1 DEF Types, Packed, RoomLeft
<1>4. Fits(attrcat, freeList, numPages)'
  BY <1>1 DEF Fits, FreeSlots
<1>5. RowsAreColumns' /\ NoneTwice' /\ PagesInOrder' /\ NoneMissing'
  BY <1>1, <1>2 DEF RowsAreColumns, NoneTwice, PagesInOrder, NoneMissing
<1> QED
  BY <1>3, <1>4, <1>5

\* One of its rows is deleted.
LEMMA DeleteKeeps ==
  ASSUME OrderInv, DeleteFromAttrcat
  PROVE  OrderInv'
<1> DEFINE s == MinOf(RowsOf(table))
<1>1. /\ pc = "drop" /\ RowsOf(table) # {} /\ Becomes(DeleteRec(File, s))
      /\ UNCHANGED <<declared, pc, table, entered>>
  BY DEF DeleteFromAttrcat
<1>2. attrcat \in [RID -> Row \union {NoRow}] /\ table \in Rels
  BY DEF OrderInv, Types
<1>3. s \in RID /\ attrcat[s] # NoRow /\ attrcat[s].rel = table
  <2>1. RowsOf(table) \subseteq RID
    BY DEF RowsOf
  <2>2. s \in RowsOf(table)
    BY <1>1, <2>1, FirstRid
  <2> QED
    BY <2>2 DEF RowsOf
<1> HIDE DEF s
<1>4. /\ attrcat' = [attrcat EXCEPT ![s] = NoRow]
      /\ freeList' = IF FreeSlots(attrcat, Page(s)) = {} THEN <<Page(s)>> \o freeList ELSE freeList
      /\ numPages' = numPages
  BY <1>1 DEF Becomes, DeleteRec, File
<1>5. Fits(attrcat', freeList', numPages')
  BY <1>2, <1>3, <1>4, DeleteKeepsList DEF OrderInv
<1>6. Fits(attrcat, freeList, numPages)'
  BY <1>5 DEF Fits
<1>7. \A q \in RID : q # s => attrcat'[q] = attrcat[q]
  BY <1>2, <1>4
<1>8. attrcat' \in [RID -> Row \union {NoRow}] /\ attrcat'[s] = NoRow
  BY <1>2, <1>3, <1>4
<1>9. /\ \A rel \in Rels : Rows'[rel] \subseteq Rows[rel] /\ Rows[rel] \subseteq RID
      /\ \A rel \in Rels : rel # table => Rows'[rel] = Rows[rel]
      /\ \A rel \in Rels : \A r \in Rows'[rel] : attrcat'[r] = attrcat[r]
  BY <1>3, <1>7, <1>8 DEF Rows, RowsOf
<1>10. Due' = Due
  BY <1>1 DEF Due
<1>11. Types' /\ Packed' /\ RoomLeft'
  BY <1>1, <1>8 DEF OrderInv, Types, Packed, RoomLeft
<1>12. RowsAreColumns'
  BY <1>1, <1>9, <1>10 DEF OrderInv, RowsAreColumns
<1>13. NoneTwice'
  BY <1>9 DEF OrderInv, NoneTwice
<1>14. PagesInOrder'
  BY <1>1, <1>9 DEF OrderInv, PagesInOrder
<1>15. NoneMissing'
  BY <1>1, <1>9, <1>10 DEF OrderInv, NoneMissing
<1> QED
  BY <1>6, <1>11, <1>12, <1>13, <1>14, <1>15 DEF OrderInv

\* All of them are deleted.
LEMMA DropEndsKeeps ==
  ASSUME OrderInv, DropEnds
  PROVE  OrderInv'
<1> USE DEF OrderInv
<1>1. /\ pc = "drop" /\ RowsOf(table) = {} /\ pc' = "ready"
      /\ declared' = [declared EXCEPT ![table] = << >>]
      /\ UNCHANGED <<attrcat, freeList, numPages, table, entered>>
  BY DEF DropEnds
<1>2. /\ declared \in [Rels -> Seq(Attrs)] /\ table \in Rels
      /\ declared'[table] = << >> /\ \A rel \in Rels : rel # table => declared'[rel] = declared[rel]
  BY <1>1 DEF Types
<1>3. Rows' = Rows /\ Rows[table] = {}
  BY <1>1, <1>2 DEF Rows, RowsOf
<1>4. Due'[table] = 0 /\ \A rel \in Rels : rel # table => Due'[rel] = Due[rel]
  BY <1>1, <1>2 DEF Due
<1>5. << >> \in Seq(Attrs) /\ DOMAIN << >> = {}
  OBVIOUS
<1>6. Types' /\ Packed' /\ RoomLeft'
  BY <1>1, <1>2, <1>5 DEF Types, Packed, RoomLeft
<1>7. Fits(attrcat, freeList, numPages)'
  BY <1>1 DEF Fits, FreeSlots
<1>8. RowsAreColumns' /\ NoneTwice' /\ PagesInOrder'
  BY <1>1, <1>2, <1>3, <1>4 DEF RowsAreColumns, NoneTwice, PagesInOrder
<1>9. NoneMissing'
  BY <1>1, <1>2, <1>3, <1>4 DEF NoneMissing
<1> QED
  BY <1>6, <1>7, <1>8, <1>9

\* Every step keeps the invariant.
LEMMA NextLemma ==
  ASSUME OrderInv, [Next]_vars
  PROVE  OrderInv'
<1>1. CASE \E rel \in Rels, columns \in Columns : CreateTable(rel, columns)
  BY <1>1, CreateTableKeeps
<1>2. CASE \E rel \in Rels : DropTable(rel)
  BY <1>2, DropTableKeeps
<1>3. CASE InsertIntoAttrcat
  BY <1>3, InsertKeeps
<1>4. CASE DeleteFromAttrcat
  BY <1>4, DeleteKeeps
<1>5. CASE DropEnds
  BY <1>5, DropEndsKeeps
<1>6. CASE UNCHANGED vars
  <2> USE <1>6 DEF vars, OrderInv
  <2>1. Rows' = Rows /\ Due' = Due
    BY DEF Rows, RowsOf, Due
  <2>2. Types' /\ Packed' /\ RoomLeft'
    BY <2>1 DEF Types, Packed, RoomLeft, Free
  <2>3. Fits(attrcat, freeList, numPages)'
    BY DEF Fits, FreeSlots
  <2>4. RowsAreColumns' /\ NoneTwice' /\ PagesInOrder' /\ NoneMissing'
    BY <2>1 DEF RowsAreColumns, NoneTwice, PagesInOrder, NoneMissing
  <2> QED
    BY <2>2, <2>3, <2>4
<1> QED
  BY <1>1, <1>2, <1>3, <1>4, <1>5, <1>6 DEF Next

-----------------------------------------------------------------------------
(* What the scan finds *)

\* The members of a list without repetitions are as many as its places.
LEMMA ListCount ==
  ASSUME NEW n \in Nat, NEW f, \A i, j \in 1 .. n : f[i] = f[j] => i = j
  PROVE  Cardinality({f[i] : i \in 1 .. n}) = n
<1> DEFINE S == {f[i] : i \in 1 .. n}
           g == [i \in 1 .. n |-> f[i]]
<1>1. g \in [1 .. n -> S] /\ (\A i, j \in 1 .. n : g[i] = g[j] => i = j)
      /\ \A x \in S : \E i \in 1 .. n : g[i] = x
  OBVIOUS
<1>2. g \in Bijection(1 .. n, S)
  <2> HIDE DEF g, S
  <2> QED
    BY <1>1 DEF Bijection, Injection, Surjection, IsInjective
<1>3. ExistsBijection(1 .. n, S)
  BY <1>2 DEF ExistsBijection
<1> QED
  BY <1>3, FS_CountingElements

\* Numbers in a rising list are counted by their places.
LEMMA RisingList ==
  ASSUME NEW n \in Nat, NEW f, \A i \in 1 .. n : f[i] \in Nat,
         \A i, j \in 1 .. n : i < j => f[i] < f[j],
         NEW S, S = {f[i] : i \in 1 .. n}
  PROVE  /\ Cardinality(S) = n
         /\ \A i \in 1 .. n : Nth(S, i) = f[i]
<1>1. ASSUME NEW i \in 1 .. n, NEW j \in 1 .. n PROVE f[i] = f[j] => i = j
  BY <1>1
<1>2. ASSUME NEW i \in 1 .. n PROVE Cardinality({r \in S : r <= f[i]}) = i
  <2>1. i \in Nat /\ \A j \in 1 .. i : j \in 1 .. n
    BY <1>2
  <2>2. \A j \in 1 .. n : f[j] <= f[i] <=> j <= i
    BY <1>2
  <2>3. {r \in S : r <= f[i]} = {f[j] : j \in 1 .. i}
    BY <2>1, <2>2
  <2>4. Cardinality({f[j] : j \in 1 .. i}) = i
    BY <1>1, <2>1, ListCount
  <2> QED
    BY <2>3, <2>4
<1>3. ASSUME NEW i \in 1 .. n PROVE Nth(S, i) = f[i]
  <2>1. \A r \in S : Cardinality({q \in S : q <= r}) = i => r = f[i]
    BY <1>2
  <2>2. f[i] \in S /\ Cardinality({q \in S : q <= f[i]}) = i
    BY <1>2
  <2> QED
    BY <2>1, <2>2 DEF Nth
<1> QED
  BY <1>1, <1>3, ListCount

\* A table on one page comes back with its columns in order.
LEMMA OnePageMatches ==
  ASSUME OrderInv, pc = "ready", NEW rel \in Rels, OnOnePage(rel)
  PROVE  Matches(rel)
<1> DEFINE cols == declared[rel]
           n    == Len(cols)
           R    == RowsOf(rel)
           f    == [i \in 1 .. n |-> CHOOSE r \in R : attrcat[r].attr = cols[i]]
<1>1. /\ cols \in Seq(Attrs) /\ n \in Nat /\ DOMAIN cols = 1 .. n
      /\ \A i, j \in 1 .. n : cols[i] = cols[j] => i = j
  BY DEF OrderInv, Types
<1>2. Rows[rel] = R /\ Due[rel] = n
  BY DEF Rows, Due
<1>3. R \subseteq RID /\ R \subseteq Nat
  BY Pages DEF RowsOf
<1> HIDE DEF R, n, cols
<1>4. \A i \in 1 .. n : \E r \in R : attrcat[r].attr = cols[i]
  BY <1>2 DEF OrderInv, NoneMissing, cols
<1>5. \A i \in 1 .. n : f[i] \in R /\ attrcat[f[i]].attr = cols[i]
  BY <1>4
<1> HIDE DEF f
<1>6. \A r \in R : \E i \in 1 .. n : attrcat[r].attr = cols[i]
  BY <1>2 DEF OrderInv, RowsAreColumns, cols
<1>7. \A r, q \in R : attrcat[r].attr = attrcat[q].attr => r = q
  BY <1>2 DEF OrderInv, NoneTwice
<1>8. R = {f[i] : i \in 1 .. n}
  BY <1>5, <1>6, <1>7
<1>9. \A i, j \in 1 .. n : i < j => f[i] < f[j]
  <2>1. \A r, q \in R : Page(r) = Page(q)
    BY DEF OnOnePage, R
  <2> QED
    BY <1>1, <1>2, <1>5, <2>1 DEF OrderInv, PagesInOrder, cols
<1>10. Cardinality(R) = n /\ \A i \in 1 .. n : Nth(R, i) = f[i]
  <2>1. \A i \in 1 .. n : f[i] \in Nat
    BY <1>3, <1>5
  <2> QED
    BY <1>1, <1>8, <1>9, <2>1, RisingList
<1> DEFINE info == GetRelInfo(rel)
<1>11. info = [i \in 1 .. n |-> cols[i]]
  BY <1>5, <1>10 DEF GetRelInfo, R
<1>12. info \in Seq(Attrs) /\ Len(info) = n /\ DOMAIN info = 1 .. n
       /\ \A i \in 1 .. n : info[i] = cols[i]
  BY <1>1, <1>11
<1> DEFINE values == [i \in DOMAIN cols |-> i]
<1> HIDE DEF info
<1>13. ASSUME NEW i \in 1 .. n
       PROVE  Stored(rel, values)[cols[i]] = i
  <2>1. cols[i] \in {info[j] : j \in DOMAIN info}
    BY <1>12
  <2>2. (CHOOSE j \in DOMAIN info : info[j] = cols[i]) = i
    BY <1>1, <1>12
  <2>3. values[i] = i
    BY <1>1
  <2> HIDE DEF values
  <2> QED
    BY <2>1, <2>2, <2>3 DEF Stored, info
<1> QED
  BY <1>1, <1>12, <1>13 DEF Matches, info, cols, n

-----------------------------------------------------------------------------
(* The theorems *)

\* In every reachable state of the two catalog statements, the rows of attrcat
\* are the columns declared and entered so far, no page of them out of order.
THEOREM OrderInvariant == Spec => []OrderInv
<1>1. Init => OrderInv
  BY InitLemma
<1>2. OrderInv /\ [Next]_vars => OrderInv'
  BY NextLemma
<1> QED
  BY <1>1, <1>2, PTL DEF Spec

\* RM_FileHandle::InsertRec, DeleteRec and SM_Manager::GetRelInfo together keep the
\* columns of every table in order whose rows are on one page of attrcat.
THEOREM OnOnePageAlwaysMatches == Spec => []ValuesMatchOnOnePage
<1>1. OrderInv => ValuesMatchOnOnePage
  BY OnePageMatches DEF ValuesMatchOnOnePage
<1> QED
  BY <1>1, OrderInvariant, PTL

\* While attrcat has one page, the columns of every table are in order.
THEOREM OnePageIsEnough ==
  ASSUME MaxPages = 1
  PROVE  Spec => []ValuesMatchColumns
<1>1. \A rel : OnOnePage(rel)
  <2>1. \A r \in RID : Page(r) = 0
    BY Pages
  <2> QED
    BY <2>1 DEF OnOnePage, RowsOf
<1>2. OrderInv => ValuesMatchColumns
  BY <1>1, OnePageMatches DEF ValuesMatchColumns
<1> QED
  BY <1>2, OrderInvariant, PTL
================================================================================
