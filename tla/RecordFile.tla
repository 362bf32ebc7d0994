------------------------------ MODULE RecordFile ------------------------------
(***************************************************************************)
(* One file of the RM component (RM/src/rm_manager.cc, rm_filehandle.cc)   *)
(* over PF (PF/src/pf_filehandle.cc, pf_manager.cc), from its creation     *)
(* through any number of opens, closes and ends of the process.            *)
(*                                                                         *)
(* Page 0 is the RM header: how many pages the file has and where the list *)
(* of pages with room begins.  Every other page has a record count, a link *)
(* to the next page of the list and a bitmap of its slots.  PF keeps a     *)
(* page count of its own in front of page 0.  An open handle caches both   *)
(* headers, and only CloseFile writes them back.                           *)
(*                                                                         *)
(* The buffer pool is what PageStore says: readers see the latest contents *)
(* (mem, memHdr), the file (disk, diskHdr) lags behind, and any page may   *)
(* be written at any moment.                                               *)
(*                                                                         *)
(* A definition marked (fault) is no part of the model: it is a way the    *)
(* definition after it could be wrong, which a property has to notice.     *)
(***************************************************************************)
EXTENDS Integers, Sequences, FiniteSets

CONSTANTS
  MaxPages,         \* bound: data pages the file may grow to
  MaxCount,         \* bound on numPages, which crashes can push past the file
  RecordsPerPage,
  Values,
  NoValue           \* a slot whose bit is 0

ASSUME BoundsAssumption ==
  /\ MaxPages \in Nat \ {0}
  /\ MaxCount \in Nat
  /\ RecordsPerPage \in Nat \ {0}
ASSUME NoValueAssumption == NoValue \notin Values

RM_INVALID_PAGE == -1

DataPage == 1 .. MaxPages
Slot     == 0 .. RecordsPerPage - 1
RIDs     == DataPage \X Slot
Record   == Values \union {NoValue}

RM_PageHdr == [numRecords : 0 .. RecordsPerPage, nextFree : Int,
               slots : [Slot -> Record]]
RM_FileHdr == [numPages : Int, firstFree : Int]

VARIABLES
  state,            \* of the file: closed, open, flushing or flushed
  numPages, firstFree, bHdrChanged,     \* RM_FileHandle
  pfNumPages, pfHeaderChanged,          \* PF_FileHandle
  mem, memHdr,                          \* the pages as the pool shows them
  disk, diskHdr, diskPfNumPages,        \* the file
  saved,            \* history: the values each record had since the last close
  forced,           \* history: <<RID, value>> unchanged since ForcePages
  exited            \* history: has a process ended with the file open?

handleVars == <<numPages, firstFree, bHdrChanged, pfNumPages, pfHeaderChanged>>
diskVars   == <<disk, diskHdr, diskPfNumPages>>
vars == <<state, handleVars, mem, memHdr, diskVars, saved, forced, exited>>

NoRecords == [s \in Slot |-> NoValue]

\* A page nothing was ever written to reads as zeroes, so its link is 0; a page
\* InsertRec has initialised has none.
BlankPage == [numRecords |-> 0, nextFree |-> 0, slots |-> NoRecords]
FreshPage == [numRecords |-> 0, nextFree |-> RM_INVALID_PAGE, slots |-> NoRecords]

\* RM_FindFreeSlot on the bitmap of a page.
IsFull(page)       == \A s \in Slot : page.slots[s] # NoValue
FindFreeSlot(page) == CHOOSE s \in Slot : /\ page.slots[s] = NoValue
                                          /\ \A t \in 0 .. s - 1 : page.slots[t] # NoValue

\* What GetRec gives for rid in a file with these pages and page counts.
GetRec(pages, rmCount, pfCount, rid) ==
  IF rid[1] < rmCount /\ rid[1] < pfCount THEN pages[rid[1]].slots[rid[2]] ELSE NoValue

\* What the next process would find, and what readers see now.
Stored(rid) == GetRec(disk, diskHdr.numPages, diskPfNumPages, rid)
View(rid)   == IF state = "closed" THEN Stored(rid)
               ELSE GetRec(mem, numPages, pfNumPages, rid)

-----------------------------------------------------------------------------
(* Opening and closing *)

\* The constructor's values, which a closed handle does not read.
ResetHandle ==
  /\ numPages' = 0 /\ firstFree' = RM_INVALID_PAGE /\ bHdrChanged' = FALSE
  /\ pfNumPages' = 0 /\ pfHeaderChanged' = FALSE

\* The file as RM_Manager::CreateFile leaves it.
Init ==
  /\ state = "closed"
  /\ numPages = 0 /\ firstFree = RM_INVALID_PAGE /\ bHdrChanged = FALSE
  /\ pfNumPages = 0 /\ pfHeaderChanged = FALSE
  /\ disk = [p \in DataPage |-> BlankPage]
  /\ diskHdr = [numPages |-> 1, firstFree |-> RM_INVALID_PAGE]
  /\ diskPfNumPages = 1
  /\ mem = disk /\ memHdr = diskHdr
  /\ saved = [rid \in RIDs |-> {NoValue}]
  /\ forced = {} /\ exited = FALSE

OpenFile ==
  /\ state = "closed"
  /\ state' = "open"
  /\ numPages' = diskHdr.numPages /\ firstFree' = diskHdr.firstFree
  /\ pfNumPages' = diskPfNumPages
  /\ UNCHANGED <<bHdrChanged, pfHeaderChanged, mem, memHdr, diskVars, saved, forced, exited>>

\* CloseFile puts the cached header into page 0 if it changed, and flushes.
CloseFile ==
  /\ state = "open"
  /\ state' = "flushing"
  /\ memHdr' = IF bHdrChanged THEN [numPages |-> numPages, firstFree |-> firstFree]
               ELSE memHdr
  /\ UNCHANGED <<handleVars, mem, diskVars, saved, forced, exited>>

\* (fault) Only page 0, or only page 1, is written.
ForceHeaderPage ==
  /\ state \in {"open", "flushing"}
  /\ diskHdr' = memHdr
  /\ state' = IF state = "flushing" THEN "flushed" ELSE state
  /\ forced' = {f \in RIDs \X Values : View(f[1]) = f[2]}
  /\ UNCHANGED <<handleVars, mem, memHdr, disk, diskPfNumPages, saved, exited>>

ForceFirstDataPage ==
  /\ state \in {"open", "flushing"}
  /\ disk' = [disk EXCEPT ![1] = mem[1]] /\ diskHdr' = memHdr
  /\ state' = IF state = "flushing" THEN "flushed" ELSE state
  /\ forced' = {f \in RIDs \X Values : View(f[1]) = f[2]}
  /\ UNCHANGED <<handleVars, mem, memHdr, diskPfNumPages, saved, exited>>

\* ForcePages reaches its end: every page is on disk, and neither header is.
ForcePages ==
  /\ state \in {"open", "flushing"}
  /\ disk' = mem /\ diskHdr' = memHdr
  /\ state' = IF state = "flushing" THEN "flushed" ELSE state
  /\ forced' = {f \in RIDs \X Values : View(f[1]) = f[2]}
  /\ UNCHANGED <<handleVars, mem, memHdr, diskPfNumPages, saved, exited>>

\* (fault) The PF header is never written; or it is written before the pages.
CloseWithoutHeader ==
  /\ state = "flushed"
  /\ state' = "closed"
  /\ saved' = [rid \in RIDs |-> {View(rid)}]
  /\ ResetHandle
  /\ UNCHANGED <<mem, memHdr, diskVars, forced, exited>>

WriteHeaderFirst ==
  \/ /\ state = "flushing"
     /\ diskPfNumPages' = pfNumPages
     /\ UNCHANGED <<state, handleVars, mem, memHdr, disk, diskHdr, saved, forced, exited>>
  \/ CloseWithoutHeader

\* WriteHeader, then ClearFilePages, which finds nothing left to write, and
\* close().  The pool drops the pages.
WriteHeader ==
  /\ state = "flushed"
  /\ state' = "closed"
  /\ diskPfNumPages' = IF pfHeaderChanged THEN pfNumPages ELSE diskPfNumPages
  /\ saved' = [rid \in RIDs |-> {View(rid)}]
  /\ ResetHandle
  /\ UNCHANGED <<mem, memHdr, disk, diskHdr, forced, exited>>

\* The pool writes a page when it evicts it or as part of a flush.
WritePage ==
  /\ state \in {"open", "flushing"}
  /\ \/ /\ \E p \in DataPage : mem[p] # disk[p] /\ disk' = [disk EXCEPT ![p] = mem[p]]
        /\ UNCHANGED diskHdr
     \/ /\ memHdr # diskHdr
        /\ diskHdr' = memHdr
        /\ UNCHANGED disk
  /\ UNCHANGED <<state, handleVars, mem, memHdr, diskPfNumPages, saved, forced, exited>>

\* quit, or a crash: nothing is flushed and no header is written.
Exit ==
  /\ state # "closed"
  /\ state' = "closed"
  /\ ResetHandle
  /\ mem' = disk /\ memHdr' = diskHdr
  /\ saved' = [rid \in RIDs |-> {Stored(rid)}]
  /\ forced' = {f \in forced : Stored(f[1]) = f[2]}
  /\ exited' = TRUE
  /\ UNCHANGED diskVars

-----------------------------------------------------------------------------
(* The records *)

\* History of a call that gave rid the value v.
Changed(rid, v) ==
  /\ saved'  = [saved EXCEPT ![rid] = @ \union {v}]
  /\ forced' = {f \in forced : f[1] # rid}

\* Does the list go on beyond p: is p a page, and full?
PassedOver(p) == p \in DataPage /\ p < pfNumPages /\ IsFull(mem[p])

\* The recursion of InsertRec: it takes the full pages of `passed` off the front
\* of the list and stops at what the last of them links to.
Paths == UNION {[1 .. n -> DataPage] : n \in 0 .. MaxPages}
HeadAfter(passed) ==
  IF passed = << >> THEN firstFree ELSE mem[passed[Len(passed)]].nextFree
Passes(passed) ==
  /\ \A i \in DOMAIN passed :
        /\ passed[i] = IF i = 1 THEN firstFree ELSE mem[passed[i - 1]].nextFree
        /\ PassedOver(passed[i])
  /\ ~ PassedOver(HeadAfter(passed))

\* (fault) The page that becomes full keeps its link.
FillKeepsLink(p, page, v) ==
  LET s      == FindFreeSlot(page)
      filled == page.numRecords + 1 >= RecordsPerPage
  IN  /\ mem' = [mem EXCEPT ![p] = [numRecords |-> page.numRecords + 1,
                                    nextFree   |-> page.nextFree,
                                    slots      |-> [page.slots EXCEPT ![s] = v]]]
      /\ firstFree' = IF filled THEN page.nextFree ELSE p
      /\ bHdrChanged' = (bHdrChanged \/ p # firstFree \/ filled)
      /\ Changed(<<p, s>>, v)

\* Put v into page p, whose contents are page, with `page.nextFree` next on the
\* list.  A page that this fills leaves the list.
Fill(p, page, v) ==
  LET s      == FindFreeSlot(page)
      filled == page.numRecords + 1 >= RecordsPerPage
  IN  /\ mem' = [mem EXCEPT ![p] =
                   [numRecords |-> page.numRecords + 1,
                    nextFree   |-> IF filled THEN RM_INVALID_PAGE ELSE page.nextFree,
                    slots      |-> [page.slots EXCEPT ![s] = v]]]
      /\ firstFree' = IF filled THEN page.nextFree ELSE p
      /\ bHdrChanged' = (bHdrChanged \/ p # firstFree \/ filled)
      /\ Changed(<<p, s>>, v)

InsertIntoFreePage(v) ==
  /\ state = "open"
  /\ \E passed \in Paths :
       LET head == HeadAfter(passed)
       IN  /\ Passes(passed)
           /\ head \in DataPage /\ head < pfNumPages
           /\ Fill(head, mem[head], v)
  /\ UNCHANGED <<state, numPages, pfNumPages, pfHeaderChanged, memHdr, diskVars, exited>>

\* (fault) The bitmap of the appended page is not cleared.
InsertIntoRawPage(v) ==
  /\ state = "open"
  /\ \E passed \in Paths : Passes(passed) /\ HeadAfter(passed) = RM_INVALID_PAGE
  /\ pfNumPages \in DataPage
  /\ numPages < MaxCount
  /\ Fill(pfNumPages, [FreshPage EXCEPT !.slots = mem[pfNumPages].slots], v)
  /\ numPages' = numPages + 1
  /\ pfNumPages' = pfNumPages + 1 /\ pfHeaderChanged' = TRUE
  /\ UNCHANGED <<state, memHdr, diskVars, exited>>

\* The list is empty: AllocatePage appends a page, whatever the file holds
\* there, and InsertRec initialises it.
InsertIntoNewPage(v) ==
  /\ state = "open"
  /\ \E passed \in Paths : Passes(passed) /\ HeadAfter(passed) = RM_INVALID_PAGE
  /\ pfNumPages \in DataPage
  /\ numPages < MaxCount
  /\ Fill(pfNumPages, FreshPage, v)
  /\ numPages' = numPages + 1
  /\ pfNumPages' = pfNumPages + 1 /\ pfHeaderChanged' = TRUE
  /\ UNCHANGED <<state, memHdr, diskVars, exited>>

\* The list leads to a page PF does not know: GetThisPage reports it, and the
\* full pages passed have left the list.
InsertFails ==
  /\ state = "open"
  /\ \E passed \in Paths :
       /\ Passes(passed)
       /\ HeadAfter(passed) >= pfNumPages
       /\ firstFree' = HeadAfter(passed)
       /\ bHdrChanged' = (bHdrChanged \/ passed # << >>)
  /\ UNCHANGED <<state, numPages, pfNumPages, pfHeaderChanged, mem, memHdr,
                 diskVars, saved, forced, exited>>

UpdateRec(rid, v) ==
  /\ state = "open"
  /\ View(rid) # NoValue
  /\ mem' = [mem EXCEPT ![rid[1]].slots[rid[2]] = v]
  /\ Changed(rid, v)
  /\ UNCHANGED <<state, handleVars, memHdr, diskVars, exited>>

\* (fault) The bit is not tested; the count is not kept; a page that was full is
\* not recognised.
DeleteUnchecked(rid) ==
  /\ state = "open"
  /\ rid[1] < pfNumPages
  /\ mem' = [mem EXCEPT ![rid[1]].numRecords = @ - 1,
                        ![rid[1]].slots[rid[2]] = NoValue]
  /\ Changed(rid, NoValue)
  /\ UNCHANGED <<state, handleVars, memHdr, diskVars, exited>>

DeleteUncounted(rid) ==
  /\ state = "open"
  /\ View(rid) # NoValue
  /\ mem' = [mem EXCEPT ![rid[1]].slots[rid[2]] = NoValue]
  /\ Changed(rid, NoValue)
  /\ UNCHANGED <<state, handleVars, memHdr, diskVars, exited>>

DeleteKeepsFullPageOut(rid) ==
  /\ state = "open"
  /\ View(rid) # NoValue
  /\ mem' = [mem EXCEPT ![rid[1]].numRecords = @ - 1,
                        ![rid[1]].slots[rid[2]] = NoValue]
  /\ Changed(rid, NoValue)
  /\ UNCHANGED <<state, handleVars, memHdr, diskVars, exited>>

\* A page that was full goes to the front of the list.
DeleteRec(rid) ==
  LET p       == rid[1]
      count   == mem[p].numRecords - 1
      wasFull == count = RecordsPerPage - 1
  IN  /\ state = "open"
      /\ View(rid) # NoValue
      /\ mem' = [mem EXCEPT ![p] =
                   [numRecords |-> count,
                    nextFree   |-> IF wasFull THEN firstFree ELSE @.nextFree,
                    slots      |-> [@.slots EXCEPT ![rid[2]] = NoValue]]]
      /\ firstFree' = IF wasFull THEN p ELSE firstFree
      /\ bHdrChanged' = (bHdrChanged \/ wasFull)
      /\ Changed(rid, NoValue)
      /\ UNCHANGED <<state, numPages, pfNumPages, pfHeaderChanged, memHdr, diskVars, exited>>

Next ==
  \/ OpenFile \/ CloseFile \/ ForcePages \/ WriteHeader \/ WritePage \/ Exit
  \/ \E v \in Values : InsertIntoFreePage(v) \/ InsertIntoNewPage(v)
  \/ InsertFails
  \/ \E rid \in RIDs, v \in Values : UpdateRec(rid, v)
  \/ \E rid \in RIDs : DeleteRec(rid)

Spec == Init /\ [][Next]_vars

-----------------------------------------------------------------------------
(* Properties *)

\* Every variable has its type.
TypeOK ==
  /\ state \in {"closed", "open", "flushing", "flushed"}
  /\ numPages \in Nat /\ firstFree \in Int /\ bHdrChanged \in BOOLEAN
  /\ pfNumPages \in Nat /\ pfHeaderChanged \in BOOLEAN
  /\ mem \in [DataPage -> RM_PageHdr] /\ disk \in [DataPage -> RM_PageHdr]
  /\ memHdr \in RM_FileHdr /\ diskHdr \in RM_FileHdr
  /\ diskPfNumPages \in Nat
  /\ saved \in [RIDs -> SUBSET Record]
  /\ forced \in SUBSET (RIDs \X Values)
  /\ exited \in BOOLEAN

\* On every page, wherever a restart left it, the record count is the number of
\* bits set: the two tests for a full page, by count and by bitmap, agree.
CountsMatchBitmaps ==
  \A p \in DataPage, pages \in {mem, disk} :
     pages[p].numRecords = Cardinality({s \in Slot : pages[p].slots[s] # NoValue})

\* InsertRec's recursion ends, even on a list a restart has damaged: a full page
\* has no link to follow.
FullPagesEndTheList ==
  \A p \in DataPage, pages \in {mem, disk} :
     IsFull(pages[p]) => pages[p].nextFree = RM_INVALID_PAGE

\* InsertRec never takes page 0, the file header, for a page of records,
\* although the link of a page never written is 0.
HeaderIsNoDataPage ==
  state # "closed" =>
     /\ firstFree # 0
     /\ \A p \in DataPage : p < pfNumPages => mem[p].nextFree # 0

\* IsList(s): s runs through the pages of the list of free pages.
IsList(s) ==
  /\ firstFree = IF s = << >> THEN RM_INVALID_PAGE ELSE s[1]
  /\ \A i \in DOMAIN s : mem[s[i]].nextFree = IF i = Len(s) THEN RM_INVALID_PAGE ELSE s[i + 1]

\* As long as no process has ended with the file open, the list holds every page with
\* room once and no other page, and the two page counts agree.
FreeListExact ==
  ~ exited /\ state = "open" =>
     /\ numPages = pfNumPages
     /\ \E s \in Paths :
          /\ IsList(s)
          /\ \A i, j \in DOMAIN s : s[i] = s[j] => i = j
          /\ {s[i] : i \in DOMAIN s} =
               {p \in DataPage : p < numPages /\ ~ IsFull(mem[p])}

\* A restart finds each record as it was at some moment since the last close.
RestartSafe == \A rid \in RIDs : Stored(rid) \in saved[rid]

\* What ForcePages was told to write is on disk for the next process to find, on
\* the pages the file already had when it was last closed.  A record on a newer
\* page is lost: both page counts wait for CloseFile.
ForcedOnOldPagesSurvive ==
  \A f \in forced :
     f[1][1] < diskHdr.numPages /\ f[1][1] < diskPfNumPages => Stored(f[1]) = f[2]

\* InsertRec finds a page with room or makes one: it never fails for lack of one.
InsertFindsAPage ==
  state = "open" => \A passed \in Paths : Passes(passed) => HeadAfter(passed) < pfNumPages

\* Records and files: what the calls above do to the map of records.
Map == INSTANCE RecordMap WITH
  records  <- [rid \in RIDs |-> View(rid)],
  possible <- saved

ImplementsRecordMap == Map!Spec
=============================================================================
