--------------------------- MODULE RecordFileProofs ---------------------------
(***************************************************************************)
(* Proofs about RecordFile for every number of pages, of records on a page *)
(* and of values, and for any number of ends of the process.               *)
(***************************************************************************)
EXTENDS RecordFile, OrderLemmas

\* The copies of the two page counts and of the head of the list: which of them
\* agree at each point between an OpenFile and the end of a CloseFile.  PF's
\* count never runs ahead of RM's, in any copy a process can find.
HeadersInStep ==
  /\ 1 <= diskPfNumPages
  /\ diskPfNumPages <= diskHdr.numPages /\ diskPfNumPages <= memHdr.numPages
  /\ state = "closed" => mem = disk /\ memHdr = diskHdr
  /\ state # "closed" => /\ diskPfNumPages <= pfNumPages /\ pfNumPages <= numPages
                         /\ ~ pfHeaderChanged => pfNumPages = diskPfNumPages
  /\ state # "closed" /\ (state # "open" \/ ~ bHdrChanged) =>
        memHdr = [numPages |-> numPages, firstFree |-> firstFree]
  /\ state = "flushed" => disk = mem /\ diskHdr = memHdr

\* No link and no head of a list, in memory or on disk, is page 0.
LinksAvoidHeader ==
  /\ diskHdr.firstFree # 0 /\ memHdr.firstFree # 0
  /\ state # "closed" => firstFree # 0
  /\ \A p \in DataPage :
        /\ p < diskPfNumPages => disk[p].nextFree # 0
        /\ state # "closed" /\ p < pfNumPages => mem[p].nextFree # 0

\* What readers see, and what a restart would find, is in the history.
HistoryKept ==
  /\ \A rid \in RIDs : View(rid) \in saved[rid] /\ Stored(rid) \in saved[rid]
  /\ \A f \in forced : /\ View(f[1]) = f[2]
                       /\ f[1][1] < diskPfNumPages => Stored(f[1]) = f[2]

\* s runs through the list that begins at first and lists every page with room
\* below count, once.
IsFreeList(s, pages, first, count) ==
  /\ s \in Paths
  /\ first = IF s = << >> THEN RM_INVALID_PAGE ELSE s[1]
  /\ \A i \in DOMAIN s :
        pages[s[i]].nextFree = IF i = Len(s) THEN RM_INVALID_PAGE ELSE s[i + 1]
  /\ \A i, j \in DOMAIN s : s[i] = s[j] => i = j
  /\ {s[i] : i \in DOMAIN s} = {p \in DataPage : p < count /\ ~ IsFull(pages[p])}

FreeListKept ==
  ~ exited =>
    IF state = "closed"
    THEN /\ diskHdr.numPages = diskPfNumPages
         /\ \E s \in Paths : IsFreeList(s, disk, diskHdr.firstFree, diskPfNumPages)
    ELSE /\ numPages = pfNumPages
         /\ \E s \in Paths : IsFreeList(s, mem, firstFree, numPages)

\* The inductive invariant.
FileInv ==
  /\ TypeOK
  /\ HeadersInStep
  /\ CountsMatchBitmaps
  /\ FullPagesEndTheList
  /\ LinksAvoidHeader
  /\ HistoryKept

USE BoundsAssumption, NoValueAssumption

-----------------------------------------------------------------------------
(* Pages and their bitmaps *)

\* The slots of a page whose bit is set.
UsedSlots(page) == {s \in Slot : page.slots[s] # NoValue}

\* The mark for the end of a list is an integer, as the links are.
LEMMA NoPageIsAnInteger == RM_INVALID_PAGE \in Int
BY DEF RM_INVALID_PAGE

\* What the invariant says of each page, in memory and on disk.
GoodPage(page) ==
  /\ page \in RM_PageHdr
  /\ page.numRecords = Cardinality(UsedSlots(page))
  /\ IsFull(page) => page.nextFree = RM_INVALID_PAGE

\* The three parts of the invariant that speak of single pages say that each
\* page is a good one.
LEMMA GoodPages ==
  ASSUME TypeOK
  PROVE  CountsMatchBitmaps /\ FullPagesEndTheList <=>
           \A p \in DataPage : GoodPage(mem[p]) /\ GoodPage(disk[p])
<1> DEFINE Good(page) == /\ page.numRecords = Cardinality(UsedSlots(page))
                         /\ IsFull(page) => page.nextFree = RM_INVALID_PAGE
<1>1. \A p \in DataPage : mem[p] \in RM_PageHdr /\ disk[p] \in RM_PageHdr
  BY DEF TypeOK
<1>2. CountsMatchBitmaps /\ FullPagesEndTheList <=>
        \A p \in DataPage : Good(mem[p]) /\ Good(disk[p])
  BY DEF CountsMatchBitmaps, FullPagesEndTheList, UsedSlots
<1> QED
  BY <1>1, <1>2 DEF GoodPage

\* The same of the state after a step.
LEMMA GoodPagesNext ==
  ASSUME TypeOK', \A p \in DataPage : GoodPage(mem'[p]) /\ GoodPage(disk'[p])
  PROVE  CountsMatchBitmaps' /\ FullPagesEndTheList'
BY DEF CountsMatchBitmaps, FullPagesEndTheList, GoodPage, UsedSlots

\* A record identifier is a page and a slot.
LEMMA RidParts ==
  ASSUME NEW rid \in RIDs
  PROVE  rid[1] \in DataPage /\ rid[2] \in Slot /\ rid = <<rid[1], rid[2]>>
BY DEF RIDs

\* The number of bits set is a natural number, and it is RecordsPerPage exactly
\* when the page is full: the test by count is the test by bitmap.
LEMMA CountOfFullPage ==
  ASSUME NEW page \in RM_PageHdr
  PROVE  /\ IsFiniteSet(UsedSlots(page))
         /\ Cardinality(UsedSlots(page)) \in 0 .. RecordsPerPage
         /\ Cardinality(UsedSlots(page)) = RecordsPerPage <=> IsFull(page)
<1>1. IsFiniteSet(Slot) /\ Cardinality(Slot) = RecordsPerPage
  BY FS_Interval DEF Slot
<1>2. UsedSlots(page) \in SUBSET Slot
  BY DEF UsedSlots
<1>3. /\ IsFiniteSet(UsedSlots(page))
      /\ Cardinality(UsedSlots(page)) <= RecordsPerPage
      /\ Cardinality(UsedSlots(page)) = RecordsPerPage => UsedSlots(page) = Slot
  BY <1>1, <1>2, FS_Subset
<1>4. Cardinality(UsedSlots(page)) \in Nat
  BY <1>3, FS_CardinalityType
<1>5. UsedSlots(page) = Slot <=> IsFull(page)
  BY DEF UsedSlots, IsFull
<1> QED
  BY <1>1, <1>3, <1>4, <1>5

\* RM_FindFreeSlot finds the first free slot of a page that is not full.
LEMMA FreeSlotFound ==
  ASSUME NEW page \in RM_PageHdr, ~ IsFull(page)
  PROVE  FindFreeSlot(page) \in Slot /\ page.slots[FindFreeSlot(page)] = NoValue
<1> DEFINE Free == {s \in Slot : page.slots[s] = NoValue}
<1>1. Free \subseteq Nat /\ Free # {}
  BY DEF IsFull, Slot
<1>2. PICK s \in Free : \A t \in Free : s <= t
  BY <1>1, LeastElement
<1>3. \A t \in 0 .. s - 1 : t \in Slot /\ t \notin Free
  BY <1>2 DEF Slot
<1>4. \E n \in Slot : /\ page.slots[n] = NoValue
                     /\ \A t \in 0 .. n - 1 : page.slots[t] # NoValue
  BY <1>2, <1>3
<1> QED
  BY <1>4 DEF FindFreeSlot

\* A record put into a free slot: the page is good, and it is full exactly when
\* the count says so.
LEMMA FilledPage ==
  ASSUME NEW page \in RM_PageHdr, page.numRecords = Cardinality(UsedSlots(page)),
         NEW s \in Slot, page.slots[s] = NoValue, NEW v \in Values,
         NEW filled \in BOOLEAN, filled <=> page.numRecords + 1 >= RecordsPerPage,
         NEW new, new = [numRecords |-> page.numRecords + 1,
                         nextFree |-> IF filled THEN RM_INVALID_PAGE ELSE page.nextFree,
                         slots |-> [page.slots EXCEPT ![s] = v]]
  PROVE  GoodPage(new) /\ (IsFull(new) <=> filled)
<1>1. new.slots \in [Slot -> Record]
  BY DEF RM_PageHdr, Record
<1>2. UsedSlots(new) = UsedSlots(page) \union {s} /\ s \notin UsedSlots(page)
  BY <1>1 DEF UsedSlots, RM_PageHdr
<1>3. Cardinality(UsedSlots(new)) = page.numRecords + 1
  BY <1>2, CountOfFullPage, FS_AddElement
<1>4. page.numRecords < RecordsPerPage
  BY CountOfFullPage DEF IsFull
<1>5. new \in RM_PageHdr
  BY <1>1, <1>4 DEF RM_PageHdr, RM_INVALID_PAGE
<1>6. IsFull(new) <=> page.numRecords + 1 = RecordsPerPage
  BY <1>3, <1>5, CountOfFullPage
<1>7. IsFull(new) <=> filled
  <2>1. page.numRecords \in Nat
    BY DEF RM_PageHdr
  <2> QED
    BY <1>4, <1>6, <2>1
<1> QED
  BY <1>3, <1>5, <1>7 DEF GoodPage

\* A record taken out of a good page: the page is good and has room, and the
\* count tells whether it was full before.
LEMMA EmptiedPage ==
  ASSUME NEW page, GoodPage(page), NEW s \in Slot, page.slots[s] # NoValue,
         NEW first \in Int,
         NEW wasFull \in BOOLEAN,
         wasFull <=> page.numRecords - 1 = RecordsPerPage - 1,
         NEW new, new = [numRecords |-> page.numRecords - 1,
                         nextFree |-> IF wasFull THEN first ELSE page.nextFree,
                         slots |-> [page.slots EXCEPT ![s] = NoValue]]
  PROVE  GoodPage(new) /\ ~ IsFull(new) /\ (wasFull <=> IsFull(page))
<1>1. page \in RM_PageHdr /\ page.numRecords = Cardinality(UsedSlots(page))
  BY DEF GoodPage
<1>2. new.slots \in [Slot -> Record]
  BY <1>1 DEF RM_PageHdr, Record
<1>3. UsedSlots(new) = UsedSlots(page) \ {s} /\ s \in UsedSlots(page)
  BY <1>1, <1>2 DEF UsedSlots, RM_PageHdr
<1>4. Cardinality(UsedSlots(new)) = page.numRecords - 1
  BY <1>1, <1>3, CountOfFullPage, FS_RemoveElement
<1>5. IsFiniteSet(UsedSlots(new))
  BY <1>1, <1>3, CountOfFullPage, FS_RemoveElement
<1>6. page.numRecords - 1 \in 0 .. RecordsPerPage
  BY <1>1, <1>4, <1>5, CountOfFullPage, FS_CardinalityType
<1>7. new \in RM_PageHdr
  BY <1>1, <1>2, <1>6 DEF RM_PageHdr
<1>8. ~ IsFull(new)
  BY <1>2 DEF IsFull
<1>9. wasFull <=> IsFull(page)
  <2>1. page.numRecords \in Nat /\ (page.numRecords = RecordsPerPage <=> IsFull(page))
    BY <1>1, CountOfFullPage
  <2> QED
    BY <2>1
<1> QED
  BY <1>4, <1>7, <1>8, <1>9 DEF GoodPage

\* A record overwritten with another: nothing changes for the page.
LEMMA UpdatedPage ==
  ASSUME NEW page, GoodPage(page), NEW s \in Slot, page.slots[s] # NoValue,
         NEW v \in Values, NEW new, new = [page EXCEPT !.slots[s] = v]
  PROVE  GoodPage(new) /\ (IsFull(new) <=> IsFull(page))
<1>1. page \in RM_PageHdr
  BY DEF GoodPage
<1>2. new = [numRecords |-> page.numRecords, nextFree |-> page.nextFree,
             slots |-> [page.slots EXCEPT ![s] = v]]
  BY <1>1 DEF RM_PageHdr
<1>3. new.slots \in [Slot -> Record]
  BY <1>1, <1>2 DEF RM_PageHdr, Record
<1>4. \A t \in Slot : new.slots[t] # NoValue <=> page.slots[t] # NoValue
  BY <1>1, <1>2 DEF RM_PageHdr
<1>5. UsedSlots(new) = UsedSlots(page)
  BY <1>4 DEF UsedSlots
<1> QED
  BY <1>1, <1>2, <1>3, <1>4, <1>5 DEF GoodPage, IsFull, RM_PageHdr
-----------------------------------------------------------------------------
(* What readers see *)

\* The page counts of the headers never hide a page that PF's count shows: a
\* record is visible exactly when PF knows its page, and it is a record.
PagesSeen ==
  \A rid \in RIDs :
     /\ Stored(rid) = IF rid[1] < diskPfNumPages
                      THEN disk[rid[1]].slots[rid[2]] ELSE NoValue
     /\ state # "closed" => View(rid) = IF rid[1] < pfNumPages
                                        THEN mem[rid[1]].slots[rid[2]] ELSE NoValue
     /\ state = "closed" => View(rid) = Stored(rid)
     /\ View(rid) \in Record /\ Stored(rid) \in Record

\* PagesSeen follows from how the headers stand.
LEMMA Visible == TypeOK /\ HeadersInStep => PagesSeen
<1> SUFFICES ASSUME TypeOK, HeadersInStep, NEW rid \in RIDs
             PROVE  /\ Stored(rid) = IF rid[1] < diskPfNumPages
                                     THEN disk[rid[1]].slots[rid[2]] ELSE NoValue
                    /\ state # "closed" =>
                         View(rid) = IF rid[1] < pfNumPages
                                     THEN mem[rid[1]].slots[rid[2]] ELSE NoValue
                    /\ state = "closed" => View(rid) = Stored(rid)
                    /\ View(rid) \in Record /\ Stored(rid) \in Record
  BY DEF PagesSeen
<1>1. rid[1] \in Nat /\ rid[1] \in DataPage /\ rid[2] \in Slot
  BY RidParts DEF DataPage
<1>2. /\ diskPfNumPages \in Nat /\ diskHdr.numPages \in Int
      /\ numPages \in Nat /\ pfNumPages \in Nat
  BY DEF TypeOK, RM_FileHdr
<1>3. /\ Stored(rid) = IF rid[1] < diskPfNumPages
                       THEN disk[rid[1]].slots[rid[2]] ELSE NoValue
      /\ state # "closed" =>
           View(rid) = IF rid[1] < pfNumPages
                       THEN mem[rid[1]].slots[rid[2]] ELSE NoValue
      /\ state = "closed" => View(rid) = Stored(rid)
  BY <1>1, <1>2 DEF HeadersInStep, Stored, View, GetRec
<1>4. mem[rid[1]] \in RM_PageHdr /\ disk[rid[1]] \in RM_PageHdr
  BY <1>1 DEF TypeOK
<1>5. mem[rid[1]].slots[rid[2]] \in Record /\ disk[rid[1]].slots[rid[2]] \in Record
  BY <1>1, <1>4 DEF RM_PageHdr
<1> QED
  BY <1>3, <1>5 DEF Record

\* What the process sees after a step follows from the two headers being in step.
LEMMA VisibleNext == TypeOK' /\ HeadersInStep' => PagesSeen'
<1>1. (TypeOK /\ HeadersInStep => PagesSeen)'
  BY Visible, PTL
<1> QED
  BY <1>1

\* A call that changes one record and leaves the file alone keeps the history,
\* and is a step of RecordMap on that record.
LEMMA OneRecordChanges ==
  ASSUME FileInv, TypeOK', HeadersInStep',
         NEW rid \in RIDs, NEW v \in Record,
         \A q \in RIDs : View(q)' = IF q = rid THEN v ELSE View(q),
         Changed(rid, v), UNCHANGED diskVars
  PROVE  HistoryKept' /\ Map!Set(rid, v)
<1>1. \A q \in RIDs : Stored(q)' = Stored(q)
  BY DEF diskVars, Stored, GetRec
<1>2. saved' = [saved EXCEPT ![rid] = @ \union {v}]
      /\ saved \in [RIDs -> SUBSET Record]
  BY DEF Changed, FileInv, TypeOK
<1>3. \A q \in RIDs : saved[q] \subseteq saved'[q] /\ v \in saved'[rid]
  BY <1>2
<1>4. ASSUME NEW q \in RIDs PROVE View(q)' \in saved'[q] /\ Stored(q)' \in saved'[q]
  <2>1. View(q) \in saved[q] /\ Stored(q) \in saved[q]
    BY DEF FileInv, HistoryKept
  <2> QED
    BY <1>1, <1>3, <2>1
<1>5. ASSUME NEW f \in forced'
      PROVE  /\ View(f[1])' = f[2]
             /\ (f[1][1] < diskPfNumPages)' => Stored(f[1])' = f[2]
  <2>1. f \in forced /\ f[1] # rid /\ f[1] \in RIDs
    BY DEF Changed, FileInv, TypeOK
  <2>2. View(f[1])' = View(f[1]) /\ Stored(f[1])' = Stored(f[1])
    BY <1>1, <2>1
  <2> QED
    BY <2>1, <2>2 DEF FileInv, HistoryKept, diskVars
<1>6. HistoryKept'
  BY <1>4, <1>5 DEF HistoryKept
<1>7. [q \in RIDs |-> View(q)]' = [[q \in RIDs |-> View(q)] EXCEPT ![rid] = v]
  OBVIOUS
<1>8. Map!Set(rid, v)
  BY <1>2, <1>7 DEF Map!Set
<1> QED
  BY <1>6, <1>8

-----------------------------------------------------------------------------
(* Each call keeps the invariant and is a step of RecordMap *)

\* A step as RecordMap sees it.
MapStep == Map!Next \/ UNCHANGED Map!mapVars

\* A step that changes nothing readers see and no history is a stutter.
LEMMA NothingSeen ==
  ASSUME \A rid \in RIDs : View(rid)' = View(rid), saved' = saved
  PROVE  MapStep
<1>1. [rid \in RIDs |-> View(rid)]' = [rid \in RIDs |-> View(rid)]
  OBVIOUS
<1> QED
  BY <1>1 DEF MapStep, Map!mapVars

\* CreateFile leaves a file without records.
LEMMA InitFile == Init => FileInv /\ Map!Init
<1> SUFFICES ASSUME Init PROVE FileInv /\ Map!Init
  OBVIOUS
<1>1. BlankPage \in RM_PageHdr /\ UsedSlots(BlankPage) = {} /\ ~ IsFull(BlankPage)
  BY DEF BlankPage, RM_PageHdr, NoRecords, Record, UsedSlots, IsFull, Slot
<1>2. TypeOK
  <2>1. mem \in [DataPage -> RM_PageHdr] /\ disk \in [DataPage -> RM_PageHdr]
    BY <1>1 DEF Init
  <2>2. saved \in [RIDs -> SUBSET Record]
    BY DEF Init, Record
  <2>3. memHdr \in RM_FileHdr /\ diskHdr \in RM_FileHdr
    BY DEF Init, RM_FileHdr, RM_INVALID_PAGE
  <2> QED
    BY <2>1, <2>2, <2>3, NoPageIsAnInteger DEF Init, TypeOK
<1>3. HeadersInStep
  BY DEF Init, HeadersInStep
<1>4. CountsMatchBitmaps /\ FullPagesEndTheList
  <2>1. GoodPage(BlankPage)
    BY <1>1, FS_EmptySet DEF GoodPage, BlankPage
  <2> QED
    BY <1>2, <2>1, GoodPages DEF Init
<1>5. LinksAvoidHeader
  BY DEF Init, LinksAvoidHeader, RM_INVALID_PAGE, DataPage
<1>6. \A rid \in RIDs : View(rid) = NoValue /\ Stored(rid) = NoValue
  <2>1. PagesSeen
    BY <1>2, <1>3, Visible
  <2> QED
    BY <2>1, RidParts DEF Init, PagesSeen, DataPage
<1>7. HistoryKept
  BY <1>6 DEF Init, HistoryKept
<1>8. Map!Init
  BY <1>6 DEF Init, Map!Init
<1> QED
  BY <1>2, <1>3, <1>4, <1>5, <1>7, <1>8 DEF FileInv

\* Opening reads both headers, which closing or an exit left consistent.
LEMMA OpenFileKeeps ==
  ASSUME FileInv, OpenFile
  PROVE  FileInv' /\ MapStep
<1>1. TypeOK'
  <2>1. diskHdr.numPages \in Nat /\ diskHdr.firstFree \in Int
    BY DEF FileInv, TypeOK, HeadersInStep, RM_FileHdr
  <2> QED
    BY <2>1 DEF FileInv, TypeOK, OpenFile, diskVars
<1>2. HeadersInStep'
  BY DEF FileInv, TypeOK, HeadersInStep, RM_FileHdr, OpenFile, diskVars
<1>3. CountsMatchBitmaps' /\ FullPagesEndTheList'
  BY DEF FileInv, CountsMatchBitmaps, FullPagesEndTheList, OpenFile, diskVars
<1>4. LinksAvoidHeader'
  BY DEF FileInv, HeadersInStep, LinksAvoidHeader, OpenFile, diskVars
<1>5. \A rid \in RIDs : View(rid)' = View(rid) /\ Stored(rid)' = Stored(rid)
  BY DEF FileInv, HeadersInStep, View, Stored, OpenFile, diskVars
<1>6. HistoryKept'
  BY <1>5 DEF FileInv, TypeOK, HistoryKept, OpenFile, diskVars
<1> QED
  BY <1>1, <1>2, <1>3, <1>4, <1>5, <1>6, NothingSeen DEF FileInv, OpenFile

\* CloseFile up to its flush: the cached RM header is in page 0.
LEMMA CloseFileKeeps ==
  ASSUME FileInv, CloseFile
  PROVE  FileInv' /\ MapStep
<1>1. TypeOK'
  BY DEF FileInv, TypeOK, CloseFile, diskVars, handleVars, RM_FileHdr
<1>2. HeadersInStep'
  BY DEF FileInv, TypeOK, HeadersInStep, RM_FileHdr, CloseFile, diskVars, handleVars
<1>3. CountsMatchBitmaps' /\ FullPagesEndTheList'
  BY DEF FileInv, CountsMatchBitmaps, FullPagesEndTheList, CloseFile, diskVars
<1>4. LinksAvoidHeader'
  BY DEF FileInv, HeadersInStep, LinksAvoidHeader, CloseFile, diskVars, handleVars
<1>5. \A rid \in RIDs : View(rid)' = View(rid) /\ Stored(rid)' = Stored(rid)
  BY DEF View, Stored, CloseFile, diskVars, handleVars
<1>6. HistoryKept'
  BY <1>5 DEF FileInv, TypeOK, HistoryKept, CloseFile, diskVars
<1> QED
  BY <1>1, <1>2, <1>3, <1>4, <1>5, <1>6, NothingSeen DEF FileInv, CloseFile

\* What is on disk may become what is in memory, page by page or all at once.
LEMMA ForcePagesKeeps ==
  ASSUME FileInv, ForcePages
  PROVE  FileInv' /\ MapStep
<1>1. TypeOK'
  BY DEF FileInv, TypeOK, ForcePages, handleVars
<1>2. HeadersInStep'
  BY DEF FileInv, TypeOK, HeadersInStep, ForcePages, handleVars
<1>3. CountsMatchBitmaps' /\ FullPagesEndTheList'
  BY DEF FileInv, CountsMatchBitmaps, FullPagesEndTheList, ForcePages
<1>4. LinksAvoidHeader'
  BY DEF FileInv, TypeOK, HeadersInStep, LinksAvoidHeader, ForcePages, handleVars, DataPage
<1>5. PagesSeen /\ PagesSeen'
  BY <1>1, <1>2, Visible, VisibleNext DEF FileInv
<1>6. \A rid \in RIDs : View(rid)' = View(rid)
  BY DEF View, GetRec, ForcePages, handleVars
<1>7. \A rid \in RIDs : rid[1] < diskPfNumPages => Stored(rid)' = View(rid)
  BY <1>5, RidParts DEF FileInv, TypeOK, HeadersInStep, PagesSeen, ForcePages,
     handleVars, DataPage
<1>8. HistoryKept'
  <2>1. \A rid \in RIDs : Stored(rid)' \in saved[rid]
    BY <1>5, <1>7 DEF FileInv, HistoryKept, PagesSeen, ForcePages, handleVars
  <2> QED
    BY <1>6, <1>7, <2>1 DEF FileInv, HistoryKept, ForcePages
<1> QED
  BY <1>1, <1>2, <1>3, <1>4, <1>6, <1>8, NothingSeen DEF FileInv, ForcePages

\* The end of CloseFile: the PF header reaches the file after all pages have.
LEMMA WriteHeaderKeeps ==
  ASSUME FileInv, WriteHeader
  PROVE  FileInv' /\ MapStep
<1>1. PagesSeen
  BY Visible DEF FileInv
<1>2. TypeOK'
  <2>1. saved' \in [RIDs -> SUBSET Record]
    BY <1>1 DEF WriteHeader, PagesSeen
  <2> QED
    BY <2>1, NoPageIsAnInteger DEF FileInv, TypeOK, WriteHeader, ResetHandle
<1>3. HeadersInStep'
  BY DEF FileInv, TypeOK, HeadersInStep, RM_FileHdr, WriteHeader
<1>4. CountsMatchBitmaps' /\ FullPagesEndTheList'
  BY DEF FileInv, CountsMatchBitmaps, FullPagesEndTheList, WriteHeader
<1>5. LinksAvoidHeader'
  BY DEF FileInv, HeadersInStep, LinksAvoidHeader, WriteHeader
<1>6. PagesSeen'
  BY <1>2, <1>3, VisibleNext
<1>7. \A rid \in RIDs : View(rid)' = View(rid) /\ Stored(rid)' = View(rid)
  BY <1>1, <1>6 DEF FileInv, HeadersInStep, PagesSeen, WriteHeader
<1>8. HistoryKept'
  BY <1>7 DEF FileInv, TypeOK, HistoryKept, WriteHeader
<1>9. Map!Save
  <2>1. [rid \in RIDs |-> View(rid)]' = [rid \in RIDs |-> View(rid)]
    BY <1>7
  <2>2. saved' = [rid \in RIDs |-> {[q \in RIDs |-> View(q)][rid]}]
    BY DEF WriteHeader
  <2> QED
    BY <2>1, <2>2 DEF Map!Save
<1> QED
  BY <1>2, <1>3, <1>4, <1>5, <1>8, <1>9 DEF FileInv, MapStep, Map!Next

\* The pool writes a page: what is on disk becomes what is seen of it.
LEMMA WritePageKeeps ==
  ASSUME FileInv, WritePage
  PROVE  FileInv' /\ MapStep
<1>1. \A p \in DataPage : disk'[p] = disk[p] \/ disk'[p] = mem[p]
  BY DEF FileInv, TypeOK, WritePage
<1>2. TypeOK'
  <2>1. disk' \in [DataPage -> RM_PageHdr]
    BY DEF FileInv, TypeOK, WritePage
  <2> QED
    BY <2>1 DEF FileInv, TypeOK, WritePage, handleVars
<1>3. HeadersInStep'
  BY DEF FileInv, TypeOK, HeadersInStep, RM_FileHdr, WritePage, handleVars
<1>4. CountsMatchBitmaps' /\ FullPagesEndTheList'
  <2>1. \A p \in DataPage : GoodPage(mem[p]) /\ GoodPage(disk[p])
    BY GoodPages DEF FileInv
  <2> QED
    BY <1>1, <1>2, <2>1, GoodPagesNext DEF WritePage
<1>5. LinksAvoidHeader'
  BY <1>1 DEF FileInv, TypeOK, HeadersInStep, LinksAvoidHeader, WritePage,
     handleVars, DataPage
<1>6. PagesSeen /\ PagesSeen'
  BY <1>2, <1>3, Visible, VisibleNext DEF FileInv
<1>7. \A rid \in RIDs : View(rid)' = View(rid)
  BY DEF View, GetRec, WritePage, handleVars
<1>8. \A rid \in RIDs : \/ Stored(rid)' = Stored(rid)
                        \/ rid[1] < diskPfNumPages /\ Stored(rid)' = View(rid)
  BY <1>1, <1>6, RidParts DEF FileInv, TypeOK, HeadersInStep, PagesSeen, WritePage,
     handleVars, DataPage
<1>9. HistoryKept'
  <2>1. \A f \in forced : f[1] \in RIDs
    BY DEF FileInv, TypeOK
  <2> QED
    BY <1>7, <1>8, <2>1 DEF FileInv, HistoryKept, WritePage
<1> QED
  BY <1>2, <1>3, <1>4, <1>5, <1>7, <1>9, NothingSeen DEF FileInv, WritePage

\* The process ends: what is seen becomes what is on disk.
LEMMA ExitKeeps ==
  ASSUME FileInv, Exit
  PROVE  FileInv' /\ MapStep
<1>1. PagesSeen
  BY Visible DEF FileInv
<1>2. TypeOK'
  <2>1. saved' \in [RIDs -> SUBSET Record]
    BY <1>1 DEF Exit, PagesSeen
  <2> QED
    BY <2>1, NoPageIsAnInteger DEF FileInv, TypeOK, Exit, ResetHandle, diskVars
<1>3. HeadersInStep'
  BY DEF FileInv, TypeOK, HeadersInStep, RM_FileHdr, Exit, diskVars
<1>4. CountsMatchBitmaps' /\ FullPagesEndTheList'
  BY DEF FileInv, CountsMatchBitmaps, FullPagesEndTheList, Exit, diskVars
<1>5. LinksAvoidHeader'
  BY DEF FileInv, LinksAvoidHeader, Exit, diskVars
<1>6. PagesSeen'
  BY <1>2, <1>3, VisibleNext
<1>7. \A rid \in RIDs : View(rid)' = Stored(rid) /\ Stored(rid)' = Stored(rid)
  BY <1>6 DEF PagesSeen, Exit, diskVars, Stored, GetRec
<1>8. HistoryKept'
  <2>1. \A f \in forced : f[1] \in RIDs
    BY DEF FileInv, TypeOK
  <2> QED
    BY <1>7, <2>1 DEF HistoryKept, Exit
<1>9. Map!Restart
  <2> DEFINE seen == [rid \in RIDs |-> View(rid)]
  <2>1. seen' = [rid \in RIDs |-> Stored(rid)]
    BY <1>7
  <2>2. \A rid \in RIDs : seen'[rid] \in saved[rid]
    BY <2>1 DEF FileInv, HistoryKept
  <2>3. saved' = [rid \in RIDs |-> {seen'[rid]}]
    BY <2>1 DEF Exit
  <2> QED
    BY <2>1, <2>2, <2>3 DEF Map!Restart
<1> QED
  BY <1>2, <1>3, <1>4, <1>5, <1>8, <1>9 DEF FileInv, MapStep, Map!Next

-----------------------------------------------------------------------------
(* The calls on records *)

\* A path is a sequence of data pages.
LEMMA PathParts ==
  ASSUME NEW s \in Paths
  PROVE  /\ s \in Seq(DataPage)
         /\ Len(s) \in 0 .. MaxPages /\ DOMAIN s = 1 .. Len(s)
         /\ s = << >> <=> Len(s) = 0
BY DEF Paths

\* Where the recursion of InsertRec ends.  A full page has no link, so one that
\* passes a page over ends at the end of the list.
LEMMA EndOfPath ==
  ASSUME FileInv, state = "open", NEW passed \in Paths, Passes(passed)
  PROVE  /\ HeadAfter(passed) \in Int /\ HeadAfter(passed) # 0
         /\ passed = << >> => HeadAfter(passed) = firstFree
         /\ passed # << >> => /\ HeadAfter(passed) = RM_INVALID_PAGE
                              /\ firstFree < pfNumPages
<1>1. CASE passed = << >>
  BY <1>1 DEF HeadAfter, FileInv, TypeOK, LinksAvoidHeader
<1>2. CASE passed # << >>
  <2>1. 1 \in DOMAIN passed /\ Len(passed) \in DOMAIN passed
    BY <1>2, PathParts
  <2>2. passed[1] = firstFree /\ firstFree < pfNumPages
    BY <2>1 DEF Passes, PassedOver
  <2>3. passed[Len(passed)] \in DataPage /\ IsFull(mem[passed[Len(passed)]])
    BY <2>1 DEF Passes, PassedOver
  <2>4. HeadAfter(passed) = RM_INVALID_PAGE
    BY <1>2, <2>3 DEF HeadAfter, FileInv, FullPagesEndTheList
  <2> QED
    BY <1>2, <2>2, <2>4, NoPageIsAnInteger DEF RM_INVALID_PAGE
<1> QED
  BY <1>1, <1>2

\* InsertRec puts a record into a page with room, of the list or appended.
LEMMA FillKeeps ==
  ASSUME FileInv, state = "open", NEW v \in Values, NEW p \in DataPage,
         NEW page \in RM_PageHdr, page.numRecords = Cardinality(UsedSlots(page)),
         ~ IsFull(page), page.nextFree # 0,
         Fill(p, page, v), UNCHANGED <<state, memHdr, diskVars, exited>>,
         \/ /\ p < pfNumPages /\ page = mem[p]
            /\ UNCHANGED <<numPages, pfNumPages, pfHeaderChanged>>
         \/ /\ p = pfNumPages /\ page = FreshPage /\ p # firstFree
            /\ numPages' = numPages + 1
            /\ pfNumPages' = pfNumPages + 1 /\ pfHeaderChanged' = TRUE
  PROVE  FileInv' /\ Map!Insert(v)
<1> DEFINE s      == FindFreeSlot(page)
           filled == page.numRecords + 1 >= RecordsPerPage
           new    == [numRecords |-> page.numRecords + 1,
                      nextFree |-> IF filled THEN RM_INVALID_PAGE ELSE page.nextFree,
                      slots |-> [page.slots EXCEPT ![s] = v]]
<1>1. s \in Slot /\ page.slots[s] = NoValue
  BY FreeSlotFound
<1>2. /\ mem' = [mem EXCEPT ![p] = new]
      /\ firstFree' = IF filled THEN page.nextFree ELSE p
      /\ bHdrChanged' = (bHdrChanged \/ p # firstFree \/ filled)
      /\ Changed(<<p, s>>, v)
  BY DEF Fill
<1>3. GoodPage(new)
  <2>1. page.numRecords \in Nat
    BY DEF RM_PageHdr
  <2>2. filled \in BOOLEAN
    OBVIOUS
  <2> HIDE DEF filled
  <2>3. filled <=> page.numRecords + 1 >= RecordsPerPage
    BY DEF filled
  <2> QED
    BY <1>1, <2>2, <2>3, FilledPage
<1>4. /\ new.nextFree = IF filled THEN RM_INVALID_PAGE ELSE page.nextFree
      /\ new.slots = [page.slots EXCEPT ![s] = v]
      /\ page.slots \in [Slot -> Record] /\ page.nextFree \in Int
  BY DEF RM_PageHdr
<1> HIDE DEF s, new
<1>5. \A q \in DataPage : mem'[q] = IF q = p THEN new ELSE mem[q]
  BY <1>2 DEF FileInv, TypeOK
<1>6. TypeOK'
  <2>1. mem' \in [DataPage -> RM_PageHdr]
    BY <1>2, <1>3 DEF FileInv, TypeOK, GoodPage
  <2>2. saved' \in [RIDs -> SUBSET Record] /\ forced' \in SUBSET (RIDs \X Values)
    BY <1>1, <1>2 DEF FileInv, TypeOK, Changed, RIDs, Record
  <2>3. firstFree' \in Int /\ bHdrChanged' \in BOOLEAN
    BY <1>2, <1>4 DEF DataPage, FileInv, TypeOK
  <2>4. numPages' \in Nat /\ pfNumPages' \in Nat
    BY DEF FileInv, TypeOK
  <2>5. pfHeaderChanged' \in BOOLEAN
    BY DEF FileInv, TypeOK
  <2> QED
    BY <2>1, <2>2, <2>3, <2>4, <2>5 DEF FileInv, TypeOK, diskVars
<1>7. HeadersInStep'
  <2>1. ~ bHdrChanged' => /\ ~ bHdrChanged /\ p = firstFree
                          /\ firstFree' = firstFree /\ numPages' = numPages
    BY <1>2
  <2> QED
    BY <2>1 DEF FileInv, TypeOK, HeadersInStep, diskVars
<1>8. CountsMatchBitmaps' /\ FullPagesEndTheList'
  <2>1. \A q \in DataPage : GoodPage(mem[q]) /\ GoodPage(disk[q])
    BY GoodPages DEF FileInv
  <2> QED
    BY <1>3, <1>5, <1>6, <2>1, GoodPagesNext DEF diskVars
<1>9. LinksAvoidHeader'
  <2>1. new.nextFree # 0
    BY <1>4 DEF RM_INVALID_PAGE
  <2>2. firstFree' # 0
    BY <1>2 DEF DataPage
  <2>3. \A q \in DataPage : q < pfNumPages' => q = p \/ q < pfNumPages
    BY DEF DataPage, FileInv, TypeOK
  <2> QED
    BY <1>5, <2>1, <2>2, <2>3 DEF FileInv, LinksAvoidHeader, diskVars
<1>10. PagesSeen /\ PagesSeen'
  BY <1>6, <1>7, Visible, VisibleNext DEF FileInv
<1>11. <<p, s>> \in RIDs /\ v \in Record
  BY <1>1 DEF RIDs, Record
<1>12. View(<<p, s>>) = NoValue
  BY <1>1, <1>10, <1>11 DEF PagesSeen, FileInv, TypeOK, DataPage
<1>13. ASSUME NEW q \in RIDs
       PROVE  View(q)' = IF q = <<p, s>> THEN v ELSE View(q)
  <2>1. /\ View(q) = IF q[1] < pfNumPages THEN mem[q[1]].slots[q[2]] ELSE NoValue
        /\ View(q)' = IF q[1] < pfNumPages' THEN mem'[q[1]].slots[q[2]] ELSE NoValue
    BY <1>10 DEF PagesSeen
  <2>2. q[1] \in DataPage /\ q[2] \in Slot /\ q = <<q[1], q[2]>>
    BY RidParts
  <2>3. CASE q[1] # p
    <3>1. q[1] < pfNumPages' <=> q[1] < pfNumPages
      BY <2>2, <2>3 DEF DataPage, FileInv, TypeOK
    <3> QED
      BY <1>5, <2>1, <2>2, <2>3, <3>1
  <2>4. CASE q[1] = p
    <3>1. View(q)' = [page.slots EXCEPT ![s] = v][q[2]]
      BY <1>4, <1>5, <2>1, <2>2, <2>4 DEF FileInv, TypeOK
    <3>2. View(q) = page.slots[q[2]]
      <4>1. CASE p < pfNumPages /\ page = mem[p]
        BY <2>1, <2>4, <4>1
      <4>2. CASE p = pfNumPages /\ page = FreshPage
        BY <2>1, <2>2, <2>4, <4>2 DEF FreshPage, NoRecords, DataPage
      <4> QED
        BY <4>1, <4>2
    <3> QED
      BY <1>1, <1>4, <2>2, <2>4, <3>1, <3>2
  <2> QED
    BY <2>3, <2>4
<1>14. HistoryKept' /\ Map!Set(<<p, s>>, v)
  BY <1>2, <1>6, <1>7, <1>11, <1>13, OneRecordChanges
<1>15. Map!Insert(v)
  BY <1>11, <1>12, <1>14 DEF Map!Insert
<1> QED
  BY <1>6, <1>7, <1>8, <1>9, <1>14, <1>15 DEF FileInv

\* An insertion into the first page of the list that has room.
LEMMA InsertIntoFreePageKeeps ==
  ASSUME FileInv, NEW v \in Values, InsertIntoFreePage(v)
  PROVE  FileInv' /\ MapStep
<1>1. PICK passed \in Paths :
        /\ Passes(passed)
        /\ HeadAfter(passed) \in DataPage /\ HeadAfter(passed) < pfNumPages
        /\ Fill(HeadAfter(passed), mem[HeadAfter(passed)], v)
  BY DEF InsertIntoFreePage
<1> DEFINE p == HeadAfter(passed)
<1>2. state = "open" /\ UNCHANGED <<state, numPages, pfNumPages, pfHeaderChanged,
                                    memHdr, diskVars, exited>>
  BY DEF InsertIntoFreePage
<1>3. ~ IsFull(mem[p])
  BY <1>1 DEF Passes, PassedOver
<1>4. GoodPage(mem[p]) /\ mem[p].nextFree # 0
  BY <1>1, <1>2, GoodPages DEF FileInv, LinksAvoidHeader
<1> HIDE DEF p
<1>5. FileInv' /\ Map!Insert(v)
  BY <1>1, <1>2, <1>3, <1>4, FillKeeps DEF p, GoodPage
<1> QED
  BY <1>5 DEF MapStep, Map!Next

\* An insertion that finds the list empty and adds a page.
LEMMA InsertIntoNewPageKeeps ==
  ASSUME FileInv, NEW v \in Values, InsertIntoNewPage(v)
  PROVE  FileInv' /\ MapStep
<1>1. PICK passed \in Paths : Passes(passed) /\ HeadAfter(passed) = RM_INVALID_PAGE
  BY DEF InsertIntoNewPage
<1>2. state = "open" /\ pfNumPages \in DataPage
  BY DEF InsertIntoNewPage
<1>3. pfNumPages # firstFree
  BY <1>1, <1>2, EndOfPath DEF DataPage, RM_INVALID_PAGE
<1>4. /\ FreshPage \in RM_PageHdr /\ UsedSlots(FreshPage) = {}
      /\ ~ IsFull(FreshPage) /\ FreshPage.nextFree # 0 /\ FreshPage.numRecords = 0
  BY DEF FreshPage, RM_PageHdr, NoRecords, Record, UsedSlots, IsFull, Slot, RM_INVALID_PAGE
<1>5. FreshPage.numRecords = Cardinality(UsedSlots(FreshPage))
  BY <1>4, FS_EmptySet
<1>6. FileInv' /\ Map!Insert(v)
  BY <1>2, <1>3, <1>4, <1>5, FillKeeps DEF InsertIntoNewPage
<1> QED
  BY <1>6 DEF MapStep, Map!Next

\* An insertion that fails changes no record, though it takes full pages off the
\* list.
LEMMA InsertFailsKeeps ==
  ASSUME FileInv, InsertFails
  PROVE  FileInv' /\ MapStep
<1>1. PICK passed \in Paths :
        /\ Passes(passed)
        /\ firstFree' = HeadAfter(passed)
        /\ bHdrChanged' = (bHdrChanged \/ passed # << >>)
  BY DEF InsertFails
<1>2. /\ HeadAfter(passed) \in Int /\ HeadAfter(passed) # 0
      /\ passed = << >> => HeadAfter(passed) = firstFree
  BY <1>1, EndOfPath DEF InsertFails
<1>3. /\ state = "open" /\ UNCHANGED <<state, numPages, pfNumPages, pfHeaderChanged,
                                      mem, memHdr, diskVars, saved, forced, exited>>
  BY DEF InsertFails
<1>4. TypeOK'
  <2>1. bHdrChanged' \in BOOLEAN
    BY <1>1 DEF FileInv, TypeOK
  <2> QED
    BY <1>1, <1>2, <1>3, <2>1 DEF FileInv, TypeOK, diskVars
<1>5. HeadersInStep'
  <2>1. ~ bHdrChanged' => ~ bHdrChanged /\ firstFree' = firstFree
    BY <1>1, <1>2
  <2> QED
    BY <1>3, <2>1 DEF FileInv, HeadersInStep, diskVars
<1>6. CountsMatchBitmaps' /\ FullPagesEndTheList'
  BY <1>3 DEF FileInv, CountsMatchBitmaps, FullPagesEndTheList, diskVars
<1>7. LinksAvoidHeader'
  BY <1>1, <1>2, <1>3 DEF FileInv, LinksAvoidHeader, diskVars
<1>8. \A rid \in RIDs : View(rid)' = View(rid) /\ Stored(rid)' = Stored(rid)
  BY <1>3 DEF View, Stored, diskVars
<1>9. HistoryKept'
  BY <1>3, <1>8 DEF FileInv, TypeOK, HistoryKept, diskVars
<1> QED
  BY <1>3, <1>4, <1>5, <1>6, <1>7, <1>8, <1>9, NothingSeen DEF FileInv

\* A visible record lies on a page that PF knows.
LEMMA RecordSeen ==
  ASSUME FileInv, state = "open", NEW rid \in RIDs, View(rid) # NoValue
  PROVE  /\ rid[1] \in DataPage /\ rid[2] \in Slot /\ rid[1] < pfNumPages
         /\ mem[rid[1]].slots[rid[2]] # NoValue
         /\ GoodPage(mem[rid[1]])
<1>1. PagesSeen
  BY Visible DEF FileInv
<1> QED
  BY <1>1, RidParts, GoodPages DEF FileInv, PagesSeen

\* A call that replaces one slot of a page that PF knows changes that record and
\* no other.
LEMMA OneSlotChanges ==
  ASSUME FileInv, TypeOK', HeadersInStep', state = "open", state' = state,
         NEW rid \in RIDs, NEW v, rid[1] < pfNumPages, pfNumPages' = pfNumPages,
         \A q \in DataPage : mem'[q].slots = IF q = rid[1]
                                             THEN [mem[q].slots EXCEPT ![rid[2]] = v]
                                             ELSE mem[q].slots
  PROVE  \A q \in RIDs : View(q)' = IF q = rid THEN v ELSE View(q)
<1>1. PagesSeen /\ PagesSeen'
  BY Visible, VisibleNext DEF FileInv
<1> SUFFICES ASSUME NEW q \in RIDs
             PROVE  View(q)' = IF q = rid THEN v ELSE View(q)
  OBVIOUS
<1>2. /\ q[1] \in DataPage /\ q[2] \in Slot /\ q = <<q[1], q[2]>>
      /\ rid[1] \in DataPage /\ rid[2] \in Slot /\ rid = <<rid[1], rid[2]>>
  BY RidParts
<1>3. /\ View(q) = IF q[1] < pfNumPages THEN mem[q[1]].slots[q[2]] ELSE NoValue
      /\ View(q)' = IF q[1] < pfNumPages THEN mem'[q[1]].slots[q[2]] ELSE NoValue
  BY <1>1 DEF PagesSeen
<1>4. mem[q[1]].slots \in [Slot -> Record]
  BY <1>2 DEF FileInv, TypeOK, RM_PageHdr
<1>5. CASE q[1] = rid[1]
  <2>1. mem'[q[1]].slots = [mem[q[1]].slots EXCEPT ![rid[2]] = v]
    BY <1>2, <1>5
  <2>2. View(q)' = IF q[2] = rid[2] THEN v ELSE View(q)
    BY <1>2, <1>3, <1>4, <1>5, <2>1
  <2> QED
    BY <1>2, <1>5, <2>2
<1>6. CASE q[1] # rid[1]
  BY <1>2, <1>3, <1>6
<1> QED
  BY <1>5, <1>6

\* An update changes the value in a slot, and neither bitmap nor count.
LEMMA UpdateRecKeeps ==
  ASSUME FileInv, NEW rid \in RIDs, NEW v \in Values, UpdateRec(rid, v)
  PROVE  FileInv' /\ MapStep
<1> DEFINE p == rid[1]
           new == [mem[p] EXCEPT !.slots[rid[2]] = v]
<1>1. /\ state = "open" /\ View(rid) # NoValue
      /\ UNCHANGED <<state, handleVars, memHdr, diskVars, exited>>
      /\ Changed(rid, v)
  BY DEF UpdateRec
<1>2. /\ p \in DataPage /\ rid[2] \in Slot /\ p < pfNumPages
      /\ mem[p].slots[rid[2]] # NoValue /\ GoodPage(mem[p])
  BY <1>1, RecordSeen
<1>3. GoodPage(new)
  BY <1>2, UpdatedPage
<1>4. new.slots = [mem[p].slots EXCEPT ![rid[2]] = v] /\ new.nextFree = mem[p].nextFree
  BY <1>2 DEF GoodPage, RM_PageHdr
<1>5. mem' = [mem EXCEPT ![p] = new]
  BY <1>2 DEF UpdateRec, FileInv, TypeOK
<1> HIDE DEF new
<1>6. \A q \in DataPage : mem'[q] = IF q = p THEN new ELSE mem[q]
  BY <1>5 DEF FileInv, TypeOK
<1>7. TypeOK'
  <2>1. mem' \in [DataPage -> RM_PageHdr]
    BY <1>3, <1>5 DEF FileInv, TypeOK, GoodPage
  <2>2. saved' \in [RIDs -> SUBSET Record] /\ forced' \in SUBSET (RIDs \X Values)
    BY <1>1 DEF FileInv, TypeOK, Changed, Record
  <2> QED
    BY <1>1, <2>1, <2>2 DEF FileInv, TypeOK, diskVars, handleVars
<1>8. HeadersInStep'
  BY <1>1 DEF FileInv, HeadersInStep, diskVars, handleVars
<1>9. CountsMatchBitmaps' /\ FullPagesEndTheList'
  <2>1. \A q \in DataPage : GoodPage(mem[q]) /\ GoodPage(disk[q])
    BY GoodPages DEF FileInv
  <2> QED
    BY <1>1, <1>3, <1>6, <1>7, <2>1, GoodPagesNext DEF diskVars
<1>10. LinksAvoidHeader'
  BY <1>1, <1>4, <1>6 DEF FileInv, LinksAvoidHeader, diskVars, handleVars
<1>11. \A q \in RIDs : View(q)' = IF q = rid THEN v ELSE View(q)
  BY <1>1, <1>2, <1>4, <1>6, <1>7, <1>8, OneSlotChanges DEF handleVars
<1>12. HistoryKept' /\ Map!Set(rid, v)
  BY <1>1, <1>7, <1>8, <1>11, OneRecordChanges DEF Record
<1>13. Map!Update(rid, v)
  BY <1>1, <1>12 DEF Map!Update
<1> QED
  BY <1>7, <1>8, <1>9, <1>10, <1>12, <1>13 DEF FileInv, MapStep, Map!Next

\* A deletion clears one bit and lowers the count by one; a full page joins the list.
LEMMA DeleteRecKeeps ==
  ASSUME FileInv, NEW rid \in RIDs, DeleteRec(rid)
  PROVE  FileInv' /\ MapStep
<1> DEFINE p == rid[1]
           wasFull == mem[p].numRecords - 1 = RecordsPerPage - 1
           new == [numRecords |-> mem[p].numRecords - 1,
                   nextFree |-> IF wasFull THEN firstFree ELSE mem[p].nextFree,
                   slots |-> [mem[p].slots EXCEPT ![rid[2]] = NoValue]]
<1>1. /\ state = "open" /\ View(rid) # NoValue
      /\ UNCHANGED <<state, numPages, pfNumPages, pfHeaderChanged, memHdr, diskVars, exited>>
      /\ Changed(rid, NoValue)
      /\ firstFree' = IF wasFull THEN p ELSE firstFree
      /\ bHdrChanged' = (bHdrChanged \/ wasFull)
  BY DEF DeleteRec
<1>2. /\ p \in DataPage /\ rid[2] \in Slot /\ p < pfNumPages
      /\ mem[p].slots[rid[2]] # NoValue /\ GoodPage(mem[p])
  BY <1>1, RecordSeen
<1>3. mem' = [mem EXCEPT ![p] = new]
  BY <1>2 DEF DeleteRec, FileInv, TypeOK
<1>4. GoodPage(new)
  <2>1. wasFull \in BOOLEAN /\ firstFree \in Int
    BY DEF FileInv, TypeOK
  <2> HIDE DEF wasFull
  <2>2. wasFull <=> mem[p].numRecords - 1 = RecordsPerPage - 1
    BY DEF wasFull
  <2> QED
    BY <1>2, <2>1, <2>2, EmptiedPage
<1>5. /\ new.slots = [mem[p].slots EXCEPT ![rid[2]] = NoValue]
      /\ new.nextFree \in {firstFree, mem[p].nextFree}
  OBVIOUS
<1> HIDE DEF new, wasFull
<1>6. \A q \in DataPage : mem'[q] = IF q = p THEN new ELSE mem[q]
  BY <1>3 DEF FileInv, TypeOK
<1>7. TypeOK'
  <2>1. mem' \in [DataPage -> RM_PageHdr]
    BY <1>3, <1>4 DEF FileInv, TypeOK, GoodPage
  <2>2. saved' \in [RIDs -> SUBSET Record] /\ forced' \in SUBSET (RIDs \X Values)
    BY <1>1 DEF FileInv, TypeOK, Changed, Record
  <2>3. firstFree' \in Int /\ bHdrChanged' \in BOOLEAN
    BY <1>1, <1>2 DEF FileInv, TypeOK, DataPage, wasFull
  <2> QED
    BY <1>1, <2>1, <2>2, <2>3 DEF FileInv, TypeOK, diskVars
<1>8. HeadersInStep'
  <2>1. ~ bHdrChanged' => ~ bHdrChanged /\ firstFree' = firstFree
    BY <1>1
  <2> QED
    BY <1>1, <2>1 DEF FileInv, HeadersInStep, diskVars
<1>9. CountsMatchBitmaps' /\ FullPagesEndTheList'
  <2>1. \A q \in DataPage : GoodPage(mem[q]) /\ GoodPage(disk[q])
    BY GoodPages DEF FileInv
  <2> QED
    BY <1>1, <1>4, <1>6, <1>7, <2>1, GoodPagesNext DEF diskVars
<1>10. LinksAvoidHeader'
  <2>1. firstFree' # 0 /\ new.nextFree # 0
    BY <1>1, <1>2, <1>5 DEF FileInv, LinksAvoidHeader, DataPage
  <2> QED
    BY <1>1, <1>6, <2>1 DEF FileInv, LinksAvoidHeader, diskVars
<1>11. \A q \in RIDs : View(q)' = IF q = rid THEN NoValue ELSE View(q)
  BY <1>1, <1>2, <1>5, <1>6, <1>7, <1>8, OneSlotChanges
<1>12. HistoryKept' /\ Map!Set(rid, NoValue)
  BY <1>1, <1>7, <1>8, <1>11, OneRecordChanges DEF Record
<1>13. Map!Delete(rid)
  BY <1>1, <1>12 DEF Map!Delete
<1> QED
  BY <1>7, <1>8, <1>9, <1>10, <1>12, <1>13 DEF FileInv, MapStep, Map!Next

\* Each step keeps the invariant and is a step of RecordMap.
LEMMA NextFile ==
  ASSUME FileInv, [Next]_vars
  PROVE  FileInv' /\ MapStep
<1>1. CASE OpenFile
  BY <1>1, OpenFileKeeps
<1>2. CASE CloseFile
  BY <1>2, CloseFileKeeps
<1>3. CASE ForcePages
  BY <1>3, ForcePagesKeeps
<1>4. CASE WriteHeader
  BY <1>4, WriteHeaderKeeps
<1>5. CASE WritePage
  BY <1>5, WritePageKeeps
<1>6. CASE Exit
  BY <1>6, ExitKeeps
<1>7. ASSUME NEW v \in Values, InsertIntoFreePage(v) PROVE FileInv' /\ MapStep
  BY <1>7, InsertIntoFreePageKeeps
<1>8. ASSUME NEW v \in Values, InsertIntoNewPage(v) PROVE FileInv' /\ MapStep
  BY <1>8, InsertIntoNewPageKeeps
<1>9. CASE InsertFails
  BY <1>9, InsertFailsKeeps
<1>10. ASSUME NEW rid \in RIDs, NEW v \in Values, UpdateRec(rid, v)
       PROVE  FileInv' /\ MapStep
  BY <1>10, UpdateRecKeeps
<1>11. ASSUME NEW rid \in RIDs, DeleteRec(rid) PROVE FileInv' /\ MapStep
  BY <1>11, DeleteRecKeeps
<1>12. CASE UNCHANGED vars
  <2> USE <1>12 DEF vars, handleVars, diskVars
  <2>1. TypeOK' /\ HeadersInStep' /\ LinksAvoidHeader'
    BY DEF FileInv, TypeOK, HeadersInStep, LinksAvoidHeader
  <2>2. CountsMatchBitmaps' /\ FullPagesEndTheList'
    BY DEF FileInv, CountsMatchBitmaps, FullPagesEndTheList
  <2>3. \A rid \in RIDs : View(rid)' = View(rid) /\ Stored(rid)' = Stored(rid)
    BY DEF View, Stored
  <2>4. HistoryKept'
    BY <2>3 DEF FileInv, TypeOK, HistoryKept
  <2> QED
    BY <2>1, <2>2, <2>3, <2>4, NothingSeen DEF FileInv
<1> QED
  BY <1>1, <1>2, <1>3, <1>4, <1>5, <1>6, <1>7, <1>8, <1>9, <1>10, <1>11, <1>12 DEF Next

-----------------------------------------------------------------------------
(* Theorems *)

\* The invariant holds in every state of a file, whatever calls are made and
\* however often a process ends with it open.
THEOREM FileInvariant == Spec => []FileInv
<1>1. FileInv /\ [Next]_vars => FileInv'
  BY NextFile
<1> QED
  BY InitFile, <1>1, PTL DEF Spec

\* Every variable keeps its type.
THEOREM FileTypeCorrect == Spec => []TypeOK
<1>1. FileInv => TypeOK
  BY DEF FileInv
<1> QED
  BY FileInvariant, <1>1, PTL

\* The record count of a page is the number of bits set, on every page that a
\* restart can find.
THEOREM CountsAlwaysMatch == Spec => []CountsMatchBitmaps
<1>1. FileInv => CountsMatchBitmaps
  BY DEF FileInv
<1> QED
  BY FileInvariant, <1>1, PTL

\* A full page has no link, so the recursion of InsertRec ends.
THEOREM RecursionEnds == Spec => []FullPagesEndTheList
<1>1. FileInv => FullPagesEndTheList
  BY DEF FileInv
<1> QED
  BY FileInvariant, <1>1, PTL

\* InsertRec never takes the file header for a page of records.
THEOREM HeaderNeverTaken == Spec => []HeaderIsNoDataPage
<1>1. FileInv => HeaderIsNoDataPage
  BY DEF FileInv, LinksAvoidHeader, HeaderIsNoDataPage
<1> QED
  BY FileInvariant, <1>1, PTL

\* A restart finds each record as it was at some moment since the last close.
THEOREM RestartFindsHistory == Spec => []RestartSafe
<1>1. FileInv => RestartSafe
  BY DEF FileInv, HistoryKept, RestartSafe
<1> QED
  BY FileInvariant, <1>1, PTL

\* ForcePages keeps its word about the pages the file had when it was last
\* closed.
THEOREM ForcedSurvives == Spec => []ForcedOnOldPagesSurvive
<1>1. FileInv => ForcedOnOldPagesSurvive
  BY DEF FileInv, HistoryKept, ForcedOnOldPagesSurvive
<1> QED
  BY FileInvariant, <1>1, PTL

\* A record file is a map of records: each call, each write of the pool and each
\* end of the process is a step of RecordMap or changes nothing it shows.
THEOREM FileImplementsMap == Spec => ImplementsRecordMap
<1>1. FileInv /\ [Next]_vars => [Map!Next]_(Map!mapVars)
  BY NextFile DEF MapStep
<1> QED
  BY InitFile, FileInvariant, <1>1, PTL DEF Spec, ImplementsRecordMap, Map!Spec

-----------------------------------------------------------------------------
(* The list of free pages, while every process closes the file *)

\* The parts of a list.
LEMMA ListParts ==
  ASSUME NEW s, NEW pages, NEW first, NEW count, IsFreeList(s, pages, first, count)
  PROVE  /\ s \in Seq(DataPage) /\ DOMAIN s = 1 .. Len(s) /\ Len(s) \in Nat
         /\ s = << >> => first = RM_INVALID_PAGE
         /\ s # << >> => /\ first = s[1] /\ 1 \in DOMAIN s
                         /\ first \in DataPage /\ first < count
                         /\ ~ IsFull(pages[first])
         /\ \A i \in DOMAIN s : s[i] \in DataPage /\ s[i] < count /\ ~ IsFull(pages[s[i]])
         /\ \A p \in DataPage : p < count /\ ~ IsFull(pages[p]) =>
              \E i \in DOMAIN s : s[i] = p
<1>1. /\ s \in Seq(DataPage) /\ DOMAIN s = 1 .. Len(s) /\ Len(s) \in Nat
      /\ s = << >> <=> Len(s) = 0
  BY PathParts DEF IsFreeList
<1>2. {s[i] : i \in DOMAIN s} = {p \in DataPage : p < count /\ ~ IsFull(pages[p])}
      /\ first = IF s = << >> THEN RM_INVALID_PAGE ELSE s[1]
  BY DEF IsFreeList
<1>3. \A i \in DOMAIN s : s[i] \in DataPage /\ s[i] < count /\ ~ IsFull(pages[s[i]])
  BY <1>2
<1>4. \A p \in DataPage : p < count /\ ~ IsFull(pages[p]) => \E i \in DOMAIN s : s[i] = p
  BY <1>2
<1>5. s # << >> => 1 \in DOMAIN s
  BY <1>1
<1> QED
  BY <1>1, <1>2, <1>3, <1>4, <1>5

\* Pages whose links and fullness do not change keep their list.
LEMMA SameList ==
  ASSUME NEW s, NEW pages, NEW new, NEW first, NEW count,
         IsFreeList(s, pages, first, count),
         \A p \in DataPage : /\ new[p].nextFree = pages[p].nextFree
                             /\ IsFull(new[p]) <=> IsFull(pages[p])
  PROVE  IsFreeList(s, new, first, count)
<1>1. \A i \in DOMAIN s : s[i] \in DataPage
  BY ListParts
<1>2. {p \in DataPage : p < count /\ ~ IsFull(new[p])}
        = {p \in DataPage : p < count /\ ~ IsFull(pages[p])}
  OBVIOUS
<1> QED
  BY <1>1, <1>2 DEF IsFreeList

\* A page that is not on the list leaves room on the list for one more.
LEMMA ListHasRoom ==
  ASSUME NEW s, NEW pages, NEW first, NEW count, IsFreeList(s, pages, first, count),
         NEW p \in DataPage, \A i \in DOMAIN s : s[i] # p
  PROVE  Len(s) + 1 <= MaxPages
<1>1. IsFiniteSet(DataPage) /\ Cardinality(DataPage) = MaxPages
  BY FS_Interval DEF DataPage
<1>2. IsFiniteSet(DataPage \ {p}) /\ Cardinality(DataPage \ {p}) = MaxPages - 1
  BY <1>1, FS_RemoveElement
<1>3. Len(s) \in Nat /\ DOMAIN s = 1 .. Len(s) /\ s \in Seq(DataPage)
  BY ListParts
<1>4. s \in [1 .. Len(s) -> DataPage \ {p}]
  BY <1>3
<1>5. \A i, j \in 1 .. Len(s) : s[i] = s[j] => i = j
  BY <1>3 DEF IsFreeList
<1>6. s \in Injection(1 .. Len(s), DataPage \ {p})
  BY <1>4, <1>5 DEF Injection, IsInjective
<1>7. Cardinality(1 .. Len(s)) <= MaxPages - 1
  BY <1>2, <1>6, FS_Injection
<1>8. Cardinality(1 .. Len(s)) = Len(s)
  BY <1>3, FS_Interval
<1> QED
  BY <1>3, <1>7, <1>8

\* A page put at the front: a full page that has room again, or an appended one.
LEMMA PushedList ==
  ASSUME NEW s, NEW pages, NEW new, NEW first \in Int, NEW count \in Nat, NEW more \in Nat,
         IsFreeList(s, pages, first, count),
         NEW p \in DataPage, p < count => IsFull(pages[p]),
         p < more, ~ IsFull(new[p]), new[p].nextFree = first,
         \A q \in DataPage \ {p} : /\ new[q] = pages[q]
                                   /\ q < more <=> q < count
  PROVE  \E t \in Paths : IsFreeList(t, new, p, more)
<1> DEFINE n == Len(s)
           t == [i \in 1 .. n + 1 |-> IF i = 1 THEN p ELSE s[i - 1]]
<1>1. /\ n \in Nat /\ DOMAIN s = 1 .. n
      /\ s = << >> => n = 0 /\ first = RM_INVALID_PAGE
      /\ s # << >> => n # 0 /\ first = s[1]
      /\ \A i \in 1 .. n : s[i] \in DataPage /\ s[i] < count /\ ~ IsFull(pages[s[i]])
  BY ListParts
<1>2. \A i \in 1 .. n : s[i] # p
  BY <1>1
<1>3. n + 1 <= MaxPages
  BY <1>1, <1>2, ListHasRoom
<1>4. t \in [1 .. n + 1 -> DataPage]
  BY <1>1
<1>5. t \in Paths /\ Len(t) = n + 1 /\ DOMAIN t = 1 .. n + 1 /\ t # << >>
  <2>1. n + 1 \in 0 .. MaxPages
    BY <1>1, <1>3
  <2>2. t \in Paths
    BY <1>4, <2>1 DEF Paths
  <2> QED
    BY <1>1, <1>4, <2>2
<1>6. t[1] = p
  BY <1>1
<1>7. \A i \in 1 .. n : t[i + 1] = s[i]
  BY <1>1
<1> HIDE DEF t
<1>8. ASSUME NEW i \in 1 .. n + 1
      PROVE  new[t[i]].nextFree = IF i = n + 1 THEN RM_INVALID_PAGE ELSE t[i + 1]
  <2>1. CASE i = 1
    <3>1. CASE s = << >>
      BY <1>1, <1>6, <2>1, <3>1
    <3>2. CASE s # << >>
      <4>1. t[2] = s[1]
        BY <1>1, <1>7, <3>2
      <4> QED
        BY <1>1, <1>6, <2>1, <3>2, <4>1
    <3> QED
      BY <3>1, <3>2
  <2>2. CASE i # 1
    <3>1. i - 1 \in 1 .. n /\ t[i] = s[i - 1]
      <4>1. i - 1 \in 1 .. n
        BY <1>1, <2>2
      <4>2. t[(i - 1) + 1] = s[i - 1]
        BY <1>7, <4>1
      <4> QED
        BY <1>1, <4>1, <4>2
    <3>2. new[t[i]].nextFree = pages[s[i - 1]].nextFree
      BY <1>1, <1>2, <3>1
    <3>3. pages[s[i - 1]].nextFree = IF i - 1 = n THEN RM_INVALID_PAGE ELSE s[(i - 1) + 1]
      BY <1>1, <3>1 DEF IsFreeList
    <3>4. i # n + 1 => t[i + 1] = s[i]
      BY <1>1, <1>7
    <3> QED
      BY <1>1, <3>2, <3>3, <3>4
  <2> QED
    BY <2>1, <2>2
<1>9. ASSUME NEW i \in 1 .. n + 1, NEW j \in 1 .. n + 1, t[i] = t[j] PROVE i = j
  <2>1. \A k \in 1 .. n + 1 : k # 1 => k - 1 \in 1 .. n /\ t[k] = s[k - 1]
    BY <1>1 DEF t
  <2>2. \A k, l \in 1 .. n : s[k] = s[l] => k = l
    BY <1>1 DEF IsFreeList
  <2> QED
    BY <1>1, <1>2, <1>6, <1>9, <2>1, <2>2
<1>10. {t[i] : i \in 1 .. n + 1} = {q \in DataPage : q < more /\ ~ IsFull(new[q])}
  <2>1. ASSUME NEW i \in 1 .. n + 1
        PROVE  t[i] \in DataPage /\ t[i] < more /\ ~ IsFull(new[t[i]])
    <3>1. CASE i = 1
      BY <1>6, <3>1
    <3>2. CASE i # 1
      <4>1. i - 1 \in 1 .. n /\ t[i] = s[i - 1]
        BY <1>1, <3>2 DEF t
      <4> QED
        BY <1>1, <1>2, <4>1
    <3> QED
      BY <3>1, <3>2
  <2>2. ASSUME NEW q \in DataPage, q < more, ~ IsFull(new[q])
        PROVE  \E i \in 1 .. n + 1 : t[i] = q
    <3>1. CASE q = p
      BY <1>1, <1>6, <3>1
    <3>2. CASE q # p
      <4>1. PICK i \in 1 .. n : s[i] = q
        BY <1>1, <2>2, <3>2, ListParts
      <4>2. i + 1 \in 1 .. n + 1
        BY <1>1
      <4> QED
        BY <1>7, <4>1, <4>2
    <3> QED
      BY <3>1, <3>2
  <2> QED
    BY <2>1, <2>2
<1>11. IsFreeList(t, new, p, more)
  BY <1>5, <1>6, <1>8, <1>9, <1>10 DEF IsFreeList
<1> QED
  BY <1>5, <1>11

\* The first page of the list taken off: it has become full.
LEMMA PoppedList ==
  ASSUME NEW s, NEW pages, NEW new, NEW p, NEW count \in Nat,
         IsFreeList(s, pages, p, count), s # << >>,
         IsFull(new[p]), \A q \in DataPage \ {p} : new[q] = pages[q]
  PROVE  \E t \in Paths : IsFreeList(t, new, pages[p].nextFree, count)
<1>0. PICK n \in Nat : n = Len(s) /\ n # 0
  BY ListParts
<1> DEFINE t == [i \in 1 .. n - 1 |-> s[i + 1]]
<1>1. /\ DOMAIN s = 1 .. n /\ p = s[1] /\ p \in DataPage
      /\ \A i \in 1 .. n : s[i] \in DataPage /\ s[i] < count /\ ~ IsFull(pages[s[i]])
  BY <1>0, ListParts
<1>2. /\ \A i, j \in 1 .. n : s[i] = s[j] => i = j
      /\ \A i \in 1 .. n :
           pages[s[i]].nextFree = IF i = n THEN RM_INVALID_PAGE ELSE s[i + 1]
      /\ n \in 0 .. MaxPages
  BY <1>0, <1>1, PathParts DEF IsFreeList
<1>3. \A i \in 1 .. n - 1 : i + 1 \in 1 .. n /\ s[i + 1] # p /\ t[i] = s[i + 1]
  BY <1>0, <1>1, <1>2
<1>4. t \in Paths /\ Len(t) = n - 1 /\ DOMAIN t = 1 .. n - 1
  <2>1. t \in [1 .. n - 1 -> DataPage]
    BY <1>0, <1>1, <1>3
  <2>2. n - 1 \in 0 .. MaxPages
    BY <1>0, <1>1, <1>2
  <2>3. t \in Paths
    BY <2>1, <2>2 DEF Paths
  <2> QED
    BY <1>0, <2>1, <2>2, <2>3
<1> HIDE DEF t
<1>5. t = << >> <=> n = 1
  <2>1. t = << >> <=> Len(t) = 0
    BY <1>4, PathParts
  <2> QED
    BY <1>0, <1>4, <2>1
<1>6. pages[p].nextFree = IF t = << >> THEN RM_INVALID_PAGE ELSE t[1]
  BY <1>0, <1>1, <1>2, <1>3, <1>5
<1>7. ASSUME NEW i \in 1 .. n - 1
      PROVE  new[t[i]].nextFree = IF i = n - 1 THEN RM_INVALID_PAGE ELSE t[i + 1]
  <2>1. new[t[i]].nextFree = pages[s[i + 1]].nextFree
    BY <1>0, <1>1, <1>3
  <2>2. pages[s[i + 1]].nextFree = IF i + 1 = n THEN RM_INVALID_PAGE ELSE s[(i + 1) + 1]
    BY <1>2, <1>3
  <2>3. i # n - 1 => t[i + 1] = s[(i + 1) + 1]
    BY <1>0, <1>1, <1>3
  <2> QED
    BY <1>0, <1>1, <2>1, <2>2, <2>3
<1>8. ASSUME NEW i \in 1 .. n - 1, NEW j \in 1 .. n - 1, t[i] = t[j] PROVE i = j
  BY <1>0, <1>1, <1>2, <1>3, <1>8
<1>9. {t[i] : i \in 1 .. n - 1} = {q \in DataPage : q < count /\ ~ IsFull(new[q])}
  <2>1. ASSUME NEW i \in 1 .. n - 1
        PROVE  t[i] \in DataPage /\ t[i] < count /\ ~ IsFull(new[t[i]])
    BY <1>0, <1>1, <1>3
  <2>2. ASSUME NEW q \in DataPage, q < count, ~ IsFull(new[q])
        PROVE  \E i \in 1 .. n - 1 : t[i] = q
    <3>1. q # p
      BY <2>2
    <3>2. PICK i \in 1 .. n : s[i] = q
      BY <1>0, <1>1, <2>2, <3>1, ListParts
    <3>3. i - 1 \in 1 .. n - 1 /\ t[i - 1] = s[(i - 1) + 1]
      BY <1>0, <1>1, <1>3, <3>1, <3>2
    <3> QED
      BY <3>2, <3>3
  <2> QED
    BY <2>1, <2>2
<1>10. IsFreeList(t, new, pages[p].nextFree, count)
  BY <1>4, <1>6, <1>7, <1>8, <1>9 DEF IsFreeList
<1> QED
  BY <1>4, <1>10

\* What Fill does to the page, its link and the head of the list.
LEMMA FillEffect ==
  ASSUME FileInv, NEW v \in Values, NEW p \in DataPage,
         NEW page \in RM_PageHdr, page.numRecords = Cardinality(UsedSlots(page)),
         ~ IsFull(page), Fill(p, page, v)
  PROVE  /\ \A q \in DataPage \ {p} : mem'[q] = mem[q]
         /\ IF IsFull(mem'[p])
            THEN firstFree' = page.nextFree
            ELSE mem'[p].nextFree = page.nextFree /\ firstFree' = p
<1> DEFINE s      == FindFreeSlot(page)
           filled == page.numRecords + 1 >= RecordsPerPage
           new    == [numRecords |-> page.numRecords + 1,
                      nextFree |-> IF filled THEN RM_INVALID_PAGE ELSE page.nextFree,
                      slots |-> [page.slots EXCEPT ![s] = v]]
<1>1. s \in Slot /\ page.slots[s] = NoValue
  BY FreeSlotFound
<1>2. mem' = [mem EXCEPT ![p] = new] /\ firstFree' = IF filled THEN page.nextFree ELSE p
  BY DEF Fill
<1>3. IsFull(new) <=> filled
  <2>1. filled \in BOOLEAN
    OBVIOUS
  <2> HIDE DEF filled
  <2>2. filled <=> page.numRecords + 1 >= RecordsPerPage
    BY DEF filled
  <2> QED
    BY <1>1, <2>1, <2>2, FilledPage
<1>4. ~ filled => new.nextFree = page.nextFree
  OBVIOUS
<1> HIDE DEF new, filled
<1>5. mem'[p] = new /\ \A q \in DataPage \ {p} : mem'[q] = mem[q]
  BY <1>2 DEF FileInv, TypeOK
<1> QED
  BY <1>2, <1>3, <1>4, <1>5

\* The list of an open file whose process, and every one before it, has closed it.
LEMMA OpenList ==
  ASSUME FileInv, FreeListKept, state # "closed", ~ exited
  PROVE  numPages = pfNumPages /\ \E s \in Paths : IsFreeList(s, mem, firstFree, numPages)
BY DEF FreeListKept

\* A page that becomes full leaves the head of the list; the rest keeps its order.
LEMMA FillKeepsList ==
  ASSUME FileInv, FileInv', FreeListKept, state = "open", state' = state, exited' = exited,
         NEW v \in Values, InsertIntoFreePage(v) \/ InsertIntoNewPage(v)
  PROVE  FreeListKept'
<1> SUFFICES ASSUME ~ exited
             PROVE  /\ numPages' = pfNumPages'
                    /\ \E t \in Paths : IsFreeList(t, mem', firstFree', numPages')
  BY DEF FreeListKept
<1>1. PICK s \in Paths : IsFreeList(s, mem, firstFree, numPages)
  BY OpenList
<1>2. numPages = pfNumPages /\ numPages \in Nat /\ firstFree \in Int
  BY OpenList DEF FileInv, TypeOK
<1>3. CASE InsertIntoFreePage(v)
  <2>1. PICK passed \in Paths :
          /\ Passes(passed)
          /\ HeadAfter(passed) \in DataPage /\ HeadAfter(passed) < pfNumPages
          /\ Fill(HeadAfter(passed), mem[HeadAfter(passed)], v)
    BY <1>3 DEF InsertIntoFreePage
  <2>2. HeadAfter(passed) = firstFree
    BY <2>1, EndOfPath DEF DataPage, RM_INVALID_PAGE
  <2>3. firstFree \in DataPage /\ Fill(firstFree, mem[firstFree], v)
    BY <2>1, <2>2
  <2>4. ~ IsFull(mem[firstFree]) /\ GoodPage(mem[firstFree])
    BY <2>1, <2>2, GoodPages DEF FileInv, Passes, PassedOver
  <2>5. s # << >>
    BY <1>1, <2>3, ListParts DEF DataPage, RM_INVALID_PAGE
  <2>6. numPages' = numPages /\ pfNumPages' = pfNumPages
    BY <1>3 DEF InsertIntoFreePage
  <2>7. /\ \A q \in DataPage \ {firstFree} : mem'[q] = mem[q]
        /\ IF IsFull(mem'[firstFree])
           THEN firstFree' = mem[firstFree].nextFree
           ELSE mem'[firstFree].nextFree = mem[firstFree].nextFree /\ firstFree' = firstFree
    BY <2>3, <2>4, FillEffect DEF GoodPage
  <2>8. CASE IsFull(mem'[firstFree])
    BY <1>1, <1>2, <2>5, <2>6, <2>7, <2>8, PoppedList
  <2>9. CASE ~ IsFull(mem'[firstFree])
    <3>1. \A q \in DataPage : /\ mem'[q].nextFree = mem[q].nextFree
                              /\ IsFull(mem'[q]) <=> IsFull(mem[q])
      BY <2>4, <2>7, <2>9
    <3>2. IsFreeList(s, mem', firstFree, numPages)
      BY <1>1, <3>1, SameList
    <3> QED
      BY <1>2, <2>6, <2>7, <2>9, <3>2
  <2> QED
    BY <2>8, <2>9
<1>4. CASE InsertIntoNewPage(v)
  <2>1. PICK passed \in Paths : Passes(passed) /\ HeadAfter(passed) = RM_INVALID_PAGE
    BY <1>4 DEF InsertIntoNewPage
  <2> DEFINE p == pfNumPages
  <2>2. /\ p \in DataPage /\ Fill(p, FreshPage, v)
        /\ numPages' = p + 1 /\ pfNumPages' = p + 1
    BY <1>2, <1>4 DEF InsertIntoNewPage
  <2>3. passed = << >>
    <3> SUFFICES ASSUME passed # << >> PROVE FALSE
      OBVIOUS
    <3>1. 1 \in DOMAIN passed
      BY PathParts
    <3>2. firstFree \in DataPage /\ IsFull(mem[firstFree])
      BY <2>1, <3>1 DEF Passes, PassedOver
    <3> QED
      BY <1>1, <3>2, ListParts DEF DataPage, RM_INVALID_PAGE
  <2>4. firstFree = RM_INVALID_PAGE /\ s = << >>
    BY <1>1, <2>1, <2>3, ListParts, EndOfPath DEF DataPage, RM_INVALID_PAGE
  <2>5. /\ FreshPage \in RM_PageHdr /\ UsedSlots(FreshPage) = {}
        /\ ~ IsFull(FreshPage) /\ FreshPage.numRecords = 0
        /\ FreshPage.nextFree = RM_INVALID_PAGE
    BY DEF FreshPage, RM_PageHdr, NoRecords, Record, UsedSlots, IsFull, Slot, RM_INVALID_PAGE
  <2>6. FreshPage.numRecords = Cardinality(UsedSlots(FreshPage))
    BY <2>5, FS_EmptySet
  <2>7. /\ \A q \in DataPage \ {p} : mem'[q] = mem[q]
        /\ IF IsFull(mem'[p])
           THEN firstFree' = RM_INVALID_PAGE
           ELSE mem'[p].nextFree = RM_INVALID_PAGE /\ firstFree' = p
    BY <2>2, <2>5, <2>6, FillEffect
  <2>8. \A q \in DataPage \ {p} : q < p + 1 <=> q < p
    BY <1>2 DEF DataPage
  <2>9. CASE ~ IsFull(mem'[p])
    <3>1. p + 1 \in Nat /\ p < p + 1 /\ ~ (p < numPages)
      BY <1>2
    <3>2. \E t \in Paths : IsFreeList(t, mem', p, p + 1)
      BY <1>1, <1>2, <2>2, <2>4, <2>7, <2>8, <2>9, <3>1, PushedList
    <3> QED
      BY <2>2, <2>7, <2>9, <3>2
  <2>10. CASE IsFull(mem'[p])
    <3>1. \A q \in DataPage : q < numPages => IsFull(mem[q])
      BY <1>1, <2>4, ListParts
    <3>2. \A q \in DataPage : q < p + 1 => IsFull(mem'[q])
      BY <1>2, <2>7, <2>8, <2>10, <3>1
    <3>3. IsFreeList(s, mem', RM_INVALID_PAGE, p + 1)
      BY <2>4, <3>2 DEF IsFreeList
    <3> QED
      BY <2>2, <2>7, <2>10, <3>3
  <2> QED
    BY <2>9, <2>10
<1> QED
  BY <1>3, <1>4

\* A full page that loses a record is put in front of the list.
LEMMA DeleteKeepsList ==
  ASSUME FileInv, FileInv', FreeListKept, NEW rid \in RIDs, DeleteRec(rid)
  PROVE  FreeListKept'
<1> DEFINE p == rid[1]
           wasFull == mem[p].numRecords - 1 = RecordsPerPage - 1
           new == [numRecords |-> mem[p].numRecords - 1,
                   nextFree |-> IF wasFull THEN firstFree ELSE mem[p].nextFree,
                   slots |-> [mem[p].slots EXCEPT ![rid[2]] = NoValue]]
<1>1. /\ state = "open" /\ View(rid) # NoValue
      /\ UNCHANGED <<state, numPages, pfNumPages, exited>>
      /\ firstFree' = IF wasFull THEN p ELSE firstFree
  BY DEF DeleteRec
<1> SUFFICES ASSUME ~ exited
             PROVE  /\ numPages' = pfNumPages'
                    /\ \E t \in Paths : IsFreeList(t, mem', firstFree', numPages')
  BY <1>1 DEF FreeListKept
<1>2. /\ p \in DataPage /\ rid[2] \in Slot /\ p < pfNumPages
      /\ mem[p].slots[rid[2]] # NoValue /\ GoodPage(mem[p])
  BY <1>1, RecordSeen
<1>3. mem' = [mem EXCEPT ![p] = new]
  BY <1>2 DEF DeleteRec, FileInv, TypeOK
<1>4. ~ IsFull(new) /\ (wasFull <=> IsFull(mem[p]))
  <2>1. wasFull \in BOOLEAN /\ firstFree \in Int
    BY DEF FileInv, TypeOK
  <2> HIDE DEF wasFull
  <2>2. wasFull <=> mem[p].numRecords - 1 = RecordsPerPage - 1
    BY DEF wasFull
  <2> QED
    BY <1>2, <2>1, <2>2, EmptiedPage
<1>5. new.nextFree = IF wasFull THEN firstFree ELSE mem[p].nextFree
  OBVIOUS
<1> HIDE DEF new, wasFull
<1>6. \A q \in DataPage : mem'[q] = IF q = p THEN new ELSE mem[q]
  BY <1>3 DEF FileInv, TypeOK
<1>7. PICK s \in Paths : IsFreeList(s, mem, firstFree, numPages)
  BY <1>1, OpenList
<1>8. numPages = pfNumPages /\ numPages \in Nat /\ firstFree \in Int
  BY <1>1, OpenList DEF FileInv, TypeOK
<1>9. CASE wasFull
  <2>1. IsFull(mem[p]) /\ mem'[p].nextFree = firstFree /\ ~ IsFull(mem'[p])
    BY <1>2, <1>4, <1>5, <1>6, <1>9
  <2>2. \A q \in DataPage \ {p} : mem'[q] = mem[q]
    BY <1>6
  <2>3. \E t \in Paths : IsFreeList(t, mem', p, numPages)
    BY <1>2, <1>7, <1>8, <2>1, <2>2, PushedList
  <2> QED
    BY <1>1, <1>8, <1>9, <2>3
<1>10. CASE ~ wasFull
  <2>1. \A q \in DataPage : /\ mem'[q].nextFree = mem[q].nextFree
                            /\ IsFull(mem'[q]) <=> IsFull(mem[q])
    BY <1>4, <1>5, <1>6, <1>10
  <2>2. IsFreeList(s, mem', firstFree, numPages)
    BY <1>7, <2>1, SameList
  <2> QED
    BY <1>1, <1>8, <1>10, <2>2
<1> QED
  BY <1>9, <1>10

\* An update leaves the list and the fullness of every page alone.
LEMMA UpdateKeepsList ==
  ASSUME FileInv, FreeListKept, NEW rid \in RIDs, NEW v \in Values, UpdateRec(rid, v)
  PROVE  FreeListKept'
<1> DEFINE p == rid[1]
           new == [mem[p] EXCEPT !.slots[rid[2]] = v]
<1>1. state = "open" /\ View(rid) # NoValue /\ UNCHANGED <<state, handleVars, exited>>
  BY DEF UpdateRec
<1> SUFFICES ASSUME ~ exited
             PROVE  /\ numPages' = pfNumPages'
                    /\ \E t \in Paths : IsFreeList(t, mem', firstFree', numPages')
  BY <1>1 DEF FreeListKept
<1>2. /\ p \in DataPage /\ rid[2] \in Slot
      /\ mem[p].slots[rid[2]] # NoValue /\ GoodPage(mem[p])
  BY <1>1, RecordSeen
<1>3. IsFull(new) <=> IsFull(mem[p])
  BY <1>2, UpdatedPage
<1>4. new.nextFree = mem[p].nextFree
  BY <1>2 DEF GoodPage, RM_PageHdr
<1>5. mem' = [mem EXCEPT ![p] = new]
  BY <1>2 DEF UpdateRec, FileInv, TypeOK
<1> HIDE DEF new
<1>6. \A q \in DataPage : /\ mem'[q].nextFree = mem[q].nextFree
                          /\ IsFull(mem'[q]) <=> IsFull(mem[q])
  BY <1>3, <1>4, <1>5 DEF FileInv, TypeOK
<1>7. PICK s \in Paths : IsFreeList(s, mem, firstFree, numPages)
  BY <1>1, OpenList
<1>8. IsFreeList(s, mem', firstFree, numPages)
  BY <1>6, <1>7, SameList
<1> QED
  BY <1>1, <1>8, OpenList DEF handleVars

\* As long as every process has closed the file, InsertRec finds a page with room
\* or the end of the list.
LEMMA ListLeadsToRoom ==
  ASSUME FileInv, FreeListKept, state = "open", ~ exited,
         NEW passed \in Paths, Passes(passed)
  PROVE  HeadAfter(passed) < pfNumPages
<1>1. PICK s \in Paths : IsFreeList(s, mem, firstFree, numPages)
  BY OpenList
<1>2. numPages = pfNumPages /\ pfNumPages \in Nat
  BY OpenList DEF FileInv, TypeOK
<1>3. CASE passed = << >>
  BY <1>1, <1>2, <1>3, EndOfPath, ListParts DEF RM_INVALID_PAGE
<1>4. CASE passed # << >>
  BY <1>2, <1>4, EndOfPath DEF RM_INVALID_PAGE
<1> QED
  BY <1>3, <1>4

\* Every step keeps the list exact, until a process ends with the file open.
LEMMA NextList ==
  ASSUME FileInv, FileInv', FreeListKept, [Next]_vars
  PROVE  FreeListKept'
<1>1. CASE OpenFile
  BY <1>1 DEF OpenFile, FileInv, HeadersInStep, FreeListKept
<1>2. CASE CloseFile
  BY <1>2 DEF CloseFile, handleVars, FreeListKept
<1>3. CASE ForcePages
  BY <1>3 DEF ForcePages, handleVars, FreeListKept
<1>4. CASE WriteHeader
  BY <1>4 DEF WriteHeader, FileInv, HeadersInStep, FreeListKept
<1>5. CASE WritePage
  BY <1>5 DEF WritePage, handleVars, FreeListKept
<1>6. CASE Exit
  BY <1>6 DEF Exit, FreeListKept
<1>7. ASSUME NEW v \in Values, InsertIntoFreePage(v) \/ InsertIntoNewPage(v)
      PROVE  FreeListKept'
  BY <1>7, FillKeepsList DEF InsertIntoFreePage, InsertIntoNewPage
<1>8. CASE InsertFails
  <2>1. exited
    BY <1>8, ListLeadsToRoom, EndOfPath DEF InsertFails, FileInv, TypeOK
  <2> QED
    BY <1>8, <2>1 DEF InsertFails, FreeListKept
<1>9. ASSUME NEW rid \in RIDs, NEW v \in Values, UpdateRec(rid, v) PROVE FreeListKept'
  BY <1>9, UpdateKeepsList
<1>10. ASSUME NEW rid \in RIDs, DeleteRec(rid) PROVE FreeListKept'
  BY <1>10, DeleteKeepsList
<1>11. CASE UNCHANGED vars
  BY <1>11 DEF vars, handleVars, diskVars, FreeListKept
<1> QED
  BY <1>1, <1>2, <1>3, <1>4, <1>5, <1>6, <1>7, <1>8, <1>9, <1>10, <1>11 DEF Next

\* The list of free pages is kept in memory and, after a close, on disk.
THEOREM ListInvariant == Spec => [](FileInv /\ FreeListKept)
<1>1. Init => FreeListKept
  <2> SUFFICES ASSUME Init PROVE FreeListKept
    OBVIOUS
  <2>1. << >> \in Paths
    BY DEF Paths
  <2>2. IsFreeList(<< >>, disk, RM_INVALID_PAGE, 1)
    BY <2>1 DEF IsFreeList, DataPage
  <2> QED
    BY <2>1, <2>2 DEF Init, FreeListKept
<1>2. FileInv /\ FreeListKept /\ [Next]_vars => (FileInv /\ FreeListKept)'
  BY NextFile, NextList
<1> QED
  BY InitFile, <1>1, <1>2, PTL DEF Spec

\* As long as every process has closed the file, the list holds every page with
\* room once and no other page, and the two page counts agree.
THEOREM FreeListIsExact == Spec => []FreeListExact
<1>1. FileInv /\ FreeListKept => FreeListExact
  <2> SUFFICES ASSUME FileInv, FreeListKept, ~ exited, state = "open"
               PROVE  /\ numPages = pfNumPages
                      /\ \E s \in Paths :
                           /\ IsList(s)
                           /\ \A i, j \in DOMAIN s : s[i] = s[j] => i = j
                           /\ {s[i] : i \in DOMAIN s} =
                                {p \in DataPage : p < numPages /\ ~ IsFull(mem[p])}
    BY DEF FreeListExact
  <2> QED
    BY OpenList DEF IsFreeList, IsList
<1> QED
  BY ListInvariant, <1>1, PTL

\* Only the end of a process with the file open can make InsertRec fail for want
\* of a page: the finding of RecordFile_stuck.cfg has no other cause.
THEOREM OnlyAnExitStrandsInserts == Spec => [](~ exited => InsertFindsAPage)
<1>1. FileInv /\ FreeListKept => (~ exited => InsertFindsAPage)
  BY ListLeadsToRoom DEF InsertFindsAPage
<1> QED
  BY ListInvariant, <1>1, PTL

=============================================================================
