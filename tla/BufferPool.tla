------------------------------ MODULE BufferPool ------------------------------
(***************************************************************************)
(* The buffer pool of the PF component: BufferManager and its HashTable     *)
(* (PF/internal/buffer_manager.cc, hash_table.cc).  Frames cache pages of   *)
(* open files; pageTable finds the frame of a page; lruList orders the      *)
(* frames for replacement, the next victim first.  A page is a pair         *)
(* <<descriptor, page number>>: to the pool a file is its descriptor.       *)
(*                                                                         *)
(* The callers are the PF_PageHandle objects in use, Handles.  Each one     *)
(* holds a raw pointer into a frame between its fetch and its unpin:        *)
(* ptr[h] says which page it asked for and which frame it points into.      *)
(*                                                                         *)
(* One action is one call, as the program has one thread.  WriteFaults and  *)
(* ReadFaults say whether write() and read() may fail.                      *)
(*                                                                         *)
(* A definition marked (fault) is no part of the model: it is a way the     *)
(* definition after it could be wrong, which a property has to notice.      *)
(***************************************************************************)
EXTENDS Integers, Sequences, FiniteSets

CONSTANTS
  Fds,          \* descriptors of open files
  Pages,        \* page numbers
  Values,       \* contents a caller may give a page
  Blank,        \* the all-zero page a read past the end of the file gives
  Torn,         \* what a short write leaves in the file
  Handles,      \* page handles that can be in use at the same time
  PoolSizes,    \* sizes SetBufferSizeFromMemory may ask for
  InitialSize,  \* PF_BUFFER_SIZE, the size a new process starts with
  WriteFaults,
  ReadFaults,
  NoKey,        \* the identity of an empty frame: descriptor -1, page -1
  NoPtr         \* a page handle that holds no page

Key  == Fds \X Pages
Data == Values \union {Blank, Torn}

ASSUME SizesAssumption ==
  /\ PoolSizes \subseteq Nat \ {0}
  /\ InitialSize \in PoolSizes
ASSUME NoKeyAssumption == NoKey \notin Key
ASSUME NoPtrAssumption == NoPtr \notin [key : Key, frame : Int]
ASSUME HandlesAssumption == IsFiniteSet(Handles)
ASSUME FaultsAssumption == WriteFaults \in BOOLEAN /\ ReadFaults \in BOOLEAN

VARIABLES
  poolSize,
  frames,     \* frame |-> [key, dirty, pin, data]
  lruList,    \* the frames, least recently fetched first
  pageTable,  \* page |-> frame, or NoFrame
  disk,       \* page |-> what the file holds
  ptr,        \* page handle |-> what it points at
  rc,         \* the code the last call returned
  synced      \* history: descriptors flushed with success and unmodified since

vars == <<poolSize, frames, lruList, pageTable, disk, ptr, rc, synced>>

Frame   == 0 .. poolSize - 1
NoFrame == -1

RCs == {"OK", "PF_NOBUF", "PF_PAGENOTINBUF", "PF_PAGEUNPINNED",
        "PF_INCOMPLETEWRITE", "PF_UNIX"}

FrameRecord == [key : Key \union {NoKey}, dirty : BOOLEAN, pin : Nat, data : Data]

EmptyFrame == [key |-> NoKey, dirty |-> FALSE, pin |-> 0, data |-> Blank]

\* The frames with another pin count, or other data, for f.
WithPin(f, n)  == [frames EXCEPT ![f].pin = n]
WithData(f, v) == [frames EXCEPT ![f].data = v]

\* A frame with its dirty flag set to b.
SetDirty(frame, b) == [frame EXCEPT !.dirty = b]

-----------------------------------------------------------------------------
(* Writing frames to their files *)

\* What can become of one WriteFrameToDisk: written, refused before a byte
\* reached the file, or cut short.  Only the first is a success.
Outcomes == {"written"} \union (IF WriteFaults THEN {"refused", "torn"} ELSE {})

\* The last of the frames of W in the order the loops visit them.
LastOf(W) == CHOOSE f \in W : \A g \in W : g <= f

\* The file system after the frames of S are written in index order with the
\* given outcomes: of two frames with the same page, the later one wins.
WriteFrameToDisk(S, outcome) ==
  [k \in Key |->
     LET W == {f \in S : frames[f].key = k /\ outcome[f] # "refused"}
     IN  IF W = {} THEN disk[k]
         ELSE LET f == LastOf(W)
              IN  IF outcome[f] = "torn" THEN Torn ELSE frames[f].data]

\* (fault) A flush that skips the pages in use.
DirtyFramesNotInUse(fd) ==
  {f \in Frame : frames[f].key \in {fd} \X Pages /\ frames[f].dirty /\ frames[f].pin = 0}

DirtyFrames(fd) ==
  {f \in Frame : /\ frames[f].key \in Key
                 /\ frames[f].key[1] = fd
                 /\ frames[f].dirty}

-----------------------------------------------------------------------------
(* The replacement order *)

IndexOf(f) == CHOOSE i \in DOMAIN lruList : lruList[i] = f

\* (fault) The front of the list is popped instead of f.
MoveToBackPopsFront(f) ==
  [i \in DOMAIN lruList |-> IF i = Len(lruList) THEN f ELSE lruList[i + 1]]

\* Erase f from the list and push it at the back.
MoveToBack(f) ==
  [i \in DOMAIN lruList |->
     IF i = Len(lruList) THEN f
     ELSE IF i < IndexOf(f) THEN lruList[i] ELSE lruList[i + 1]]

\* (fault) The first frame of the list, pinned or not; or only that frame.
SelectAnyVictim(f)   == lruList[1] = f
SelectFirstOrNone(f) == lruList[1] = f /\ frames[f].pin = 0

\* SelectVictimFrame: the first unpinned frame of the list.
SelectVictimFrame(f) ==
  \E i \in DOMAIN lruList :
     /\ lruList[i] = f
     /\ frames[f].pin = 0
     /\ \A j \in 1 .. i - 1 : frames[lruList[j]].pin # 0

-----------------------------------------------------------------------------
(* The calls *)

Init ==
  /\ poolSize  = InitialSize
  /\ frames    = [f \in Frame |-> EmptyFrame]
  /\ lruList   = [i \in 1 .. poolSize |-> i - 1]
  /\ pageTable = [k \in Key |-> NoFrame]
  /\ disk      = [k \in Key |-> Blank]
  /\ ptr       = [h \in Handles |-> NoPtr]
  /\ rc        = "OK"
  /\ synced    = {}

\* (fault) A hit that does not count the new holder.
FetchHitUncounted(h, k) ==
  /\ ptr[h] = NoPtr
  /\ pageTable[k] # NoFrame
  /\ lruList' = MoveToBack(pageTable[k])
  /\ ptr'     = [ptr EXCEPT ![h] = [key |-> k, frame |-> pageTable[k]]]
  /\ rc'      = "OK"
  /\ UNCHANGED <<poolSize, frames, pageTable, disk, synced>>

\* FetchPage of a page that is in the pool.
FetchHit(h, k) ==
  /\ ptr[h] = NoPtr
  /\ pageTable[k] # NoFrame
  /\ lruList' = MoveToBack(pageTable[k])
  /\ frames'  = WithPin(pageTable[k], frames[pageTable[k]].pin + 1)
  /\ ptr'     = [ptr EXCEPT ![h] = [key |-> k, frame |-> pageTable[k]]]
  /\ rc'      = "OK"
  /\ UNCHANGED <<poolSize, pageTable, disk, synced>>

\* FetchPage finds neither the page nor a frame to put it in.
FetchNoBuf(h, k) ==
  /\ ptr[h] = NoPtr
  /\ pageTable[k] = NoFrame
  /\ ~ \E f \in Frame : SelectVictimFrame(f)
  /\ rc' = "PF_NOBUF"
  /\ UNCHANGED <<poolSize, frames, lruList, pageTable, disk, ptr, synced>>

\* A miss begins by choosing the victim and writing it out if it is dirty.
VictimWritten(h, k, f, outcome) ==
  /\ ptr[h] = NoPtr
  /\ pageTable[k] = NoFrame
  /\ SelectVictimFrame(f)
  /\ disk' = WriteFrameToDisk({g \in {f} : frames[g].dirty},
                              [g \in {f} |-> outcome])

\* (fault) The victim's page stays in the table.
TableWithAll(f) == pageTable

\* The table once the page the victim held is removed from it.
TableWithout(f) ==
  [k \in Key |-> IF k = frames[f].key THEN NoFrame ELSE pageTable[k]]

FetchMiss(h, k) ==
  \E f \in Frame :
    /\ VictimWritten(h, k, f, "written")
    /\ frames'    = [frames EXCEPT ![f] = [key |-> k, dirty |-> FALSE,
                                          pin |-> 1, data |-> disk'[k]]]
    /\ pageTable' = [TableWithout(f) EXCEPT ![k] = f]
    /\ lruList'   = MoveToBack(f)
    /\ ptr'       = [ptr EXCEPT ![h] = [key |-> k, frame |-> f]]
    /\ rc'        = "OK"
    /\ UNCHANGED <<poolSize, synced>>

\* (fault) The victim's page leaves the table before it is written.
FetchForgetsThenFails(h, k) ==
  \E f \in Frame, outcome \in Outcomes \ {"written"} :
    /\ frames[f].dirty
    /\ VictimWritten(h, k, f, outcome)
    /\ pageTable' = TableWithout(f)
    /\ rc' = "PF_INCOMPLETEWRITE"
    /\ UNCHANGED <<poolSize, frames, lruList, ptr, synced>>

\* The victim could not be written: nothing else changes.
FetchWriteFails(h, k) ==
  \E f \in Frame, outcome \in Outcomes \ {"written"} :
    /\ frames[f].dirty
    /\ VictimWritten(h, k, f, outcome)
    /\ rc' = "PF_INCOMPLETEWRITE"
    /\ UNCHANGED <<poolSize, frames, lruList, pageTable, ptr, synced>>

\* read() fails after the victim lost its table entry.  The frame keeps its
\* old descriptor, page number and dirty flag.
FetchReadFails(h, k) ==
  /\ ReadFaults
  /\ \E f \in Frame :
       /\ VictimWritten(h, k, f, "written")
       /\ pageTable' = TableWithout(f)
  /\ rc' = "PF_UNIX"
  /\ UNCHANGED <<poolSize, frames, lruList, ptr, synced>>

FetchPage(h, k) ==
  \/ FetchHit(h, k)
  \/ FetchNoBuf(h, k)
  \/ FetchMiss(h, k)
  \/ FetchWriteFails(h, k)
  \/ FetchReadFails(h, k)

\* PinPage, by the owner of a copy of a page handle.
PinPage(h, k) ==
  /\ ptr[h] = NoPtr
  /\ IF pageTable[k] = NoFrame
     THEN rc' = "PF_PAGENOTINBUF" /\ UNCHANGED <<frames, ptr>>
     ELSE /\ frames' = WithPin(pageTable[k], frames[pageTable[k]].pin + 1)
          /\ ptr' = [ptr EXCEPT ![h] = [key |-> k, frame |-> pageTable[k]]]
          /\ rc' = "OK"
  /\ UNCHANGED <<poolSize, lruList, pageTable, disk, synced>>

\* A caller writes through its pointer, then calls MarkDirty, which looks the
\* page up again.
MarkDirty(h, v) ==
  /\ ptr[h] # NoPtr
  /\ LET found == pageTable[ptr[h].key]
         wrote == WithData(ptr[h].frame, v)
     IN  IF found = NoFrame
         THEN frames' = wrote /\ rc' = "PF_PAGENOTINBUF"
         ELSE frames' = [wrote EXCEPT ![found] = SetDirty(@, TRUE)] /\ rc' = "OK"
  /\ synced' = synced \ {ptr[h].key[1]}
  /\ UNCHANGED <<poolSize, lruList, pageTable, disk, ptr>>

\* (fault) The pin count is not looked at before it is decremented.
UnpinUnchecked(k) ==
  LET f == pageTable[k]
  IN  IF f = NoFrame THEN rc' = "PF_PAGENOTINBUF" /\ UNCHANGED frames
      ELSE frames' = WithPin(f, frames[f].pin - 1) /\ rc' = "OK"

\* UnpinPage finds the frame through the table, not through the pointer.
Unpin(k) ==
  LET f == pageTable[k]
  IN  IF f = NoFrame THEN rc' = "PF_PAGENOTINBUF" /\ UNCHANGED frames
      ELSE IF frames[f].pin <= 0
           THEN rc' = "PF_PAGEUNPINNED" /\ UNCHANGED frames
           ELSE /\ frames' = WithPin(f, frames[f].pin - 1)
                /\ rc' = "OK"

UnpinPage(h) ==
  /\ ptr[h] # NoPtr
  /\ Unpin(ptr[h].key)
  /\ ptr' = [ptr EXCEPT ![h] = NoPtr]
  /\ UNCHANGED <<poolSize, lruList, pageTable, disk, synced>>

\* UnpinPage for a page nobody holds.
UnpinUnheld(k) ==
  /\ \A h \in Handles : ptr[h] # NoPtr => ptr[h].key # k
  /\ Unpin(k)
  /\ UNCHANGED <<poolSize, lruList, pageTable, disk, ptr, synced>>

\* The loop of FlushAllPages: every dirty frame of the file is tried, those
\* written become clean, and any failure is reported at the end.
Flush(fd, outcome) ==
  disk' = WriteFrameToDisk(DirtyFrames(fd), outcome)

AllWritten(outcome) == \A f \in DOMAIN outcome : outcome[f] = "written"

\* (fault) A frame whose write failed becomes clean too.
CleanedAnyway(outcome) ==
  [f \in Frame |-> SetDirty(frames[f], frames[f].dirty /\ f \notin DOMAIN outcome)]

Cleaned(outcome) ==
  [f \in Frame |-> IF f \in DOMAIN outcome /\ outcome[f] = "written"
                   THEN SetDirty(frames[f], FALSE) ELSE frames[f]]

FlushFails(fd) ==
  /\ \E outcome \in [DirtyFrames(fd) -> Outcomes] :
       /\ ~ AllWritten(outcome)
       /\ Flush(fd, outcome)
       /\ frames' = Cleaned(outcome)
  /\ rc' = "PF_INCOMPLETEWRITE"
  /\ UNCHANGED <<poolSize, lruList, pageTable, ptr, synced>>

FlushAllPages(fd) ==
  /\ LET outcome == [f \in DirtyFrames(fd) |-> "written"]
     IN  Flush(fd, outcome) /\ frames' = Cleaned(outcome)
  /\ rc'     = "OK"
  /\ synced' = synced \union {fd}
  /\ UNCHANGED <<poolSize, lruList, pageTable, ptr>>

\* (fault) The pages in use are forgotten too: by the table alone, or altogether.
ClearForgetsPages(fd) ==
  /\ Flush(fd, [f \in DirtyFrames(fd) |-> "written"])
  /\ frames' = [f \in Frame |-> IF frames[f].key \in {fd} \X Pages /\ frames[f].pin = 0
                                THEN EmptyFrame
                                ELSE Cleaned([g \in DirtyFrames(fd) |-> "written"])[f]]
  /\ pageTable' = [k \in Key |-> IF k[1] = fd THEN NoFrame ELSE pageTable[k]]
  /\ rc' = "OK"
  /\ synced' = synced \union {fd}
  /\ UNCHANGED <<poolSize, lruList, ptr>>

ClearDropsPages(fd) ==
  /\ Flush(fd, [f \in DirtyFrames(fd) |-> "written"])
  /\ frames' = [f \in Frame |-> IF frames[f].key \in {fd} \X Pages THEN EmptyFrame
                                ELSE frames[f]]
  /\ pageTable' = [k \in Key |-> IF k[1] = fd THEN NoFrame ELSE pageTable[k]]
  /\ rc' = "OK"
  /\ synced' = synced \union {fd}
  /\ UNCHANGED <<poolSize, lruList, ptr>>

\* ClearFilePages: flush, then forget the unpinned pages of the file.  When
\* the flush fails it returns at once, so that case is FlushFails.
ClearFilePages(fd) ==
  LET dropped == {f \in Frame : /\ frames[f].key \in Key
                                /\ frames[f].key[1] = fd
                                /\ frames[f].pin = 0}
      outcome == [f \in DirtyFrames(fd) |-> "written"]
  IN  /\ Flush(fd, outcome)
      /\ frames' = [f \in Frame |-> IF f \in dropped THEN EmptyFrame
                                    ELSE Cleaned(outcome)[f]]
      /\ pageTable' = [k \in Key |-> IF \E f \in dropped : frames[f].key = k
                                     THEN NoFrame ELSE pageTable[k]]
      /\ rc'     = "OK"
      /\ synced' = synced \union {fd}
      /\ UNCHANGED <<poolSize, lruList, ptr>>

AllDirtyFrames == {f \in Frame : frames[f].key # NoKey /\ frames[f].dirty}

EmptyPool(n) ==
  /\ poolSize'  = n
  /\ frames'    = [f \in 0 .. n - 1 |-> EmptyFrame]
  /\ lruList'   = [i \in 1 .. n |-> i - 1]
  /\ pageTable' = [k \in Key |-> NoFrame]

\* ReinitializeBuffer, when CREATE DATABASE asks for another size.  It drops
\* every frame, pinned or not; CREATE DATABASE holds no page.
ReinitializeBuffer(n) ==
  /\ n # poolSize
  /\ \A h \in Handles : ptr[h] = NoPtr
  /\ disk' = WriteFrameToDisk(AllDirtyFrames, [f \in AllDirtyFrames |-> "written"])
  /\ EmptyPool(n)
  /\ rc' = "OK"
  /\ UNCHANGED <<ptr, synced>>

\* The first write that fails ends it: the frames before are on disk, those
\* after are not, and the pool is as it was.
ReinitializeFails ==
  /\ \A h \in Handles : ptr[h] = NoPtr
  /\ \E bad \in AllDirtyFrames, failure \in Outcomes \ {"written"} :
       disk' = WriteFrameToDisk(AllDirtyFrames,
                 [f \in AllDirtyFrames |-> IF f < bad THEN "written"
                                          ELSE IF f = bad THEN failure
                                          ELSE "refused"])
  /\ rc' = "PF_INCOMPLETEWRITE"
  /\ UNCHANGED <<poolSize, frames, lruList, pageTable, ptr, synced>>

\* quit calls exit(0) and a crash does no more: the pool is never destroyed,
\* so its dirty frames are lost.  The next process starts with an empty pool.
Exit ==
  /\ EmptyPool(InitialSize)
  /\ ptr' = [h \in Handles |-> NoPtr]
  /\ rc'  = "OK"
  /\ UNCHANGED <<disk, synced>>

Next ==
  \/ \E h \in Handles, k \in Key : FetchPage(h, k) \/ PinPage(h, k)
  \/ \E h \in Handles, v \in Values : MarkDirty(h, v)
  \/ \E h \in Handles : UnpinPage(h)
  \/ \E k \in Key : UnpinUnheld(k)
  \/ \E fd \in Fds : FlushAllPages(fd) \/ FlushFails(fd) \/ ClearFilePages(fd)
  \/ \E n \in PoolSizes : ReinitializeBuffer(n)
  \/ ReinitializeFails
  \/ Exit

Spec == Init /\ [][Next]_vars

-----------------------------------------------------------------------------
(* Properties *)

\* Every variable has its type; the frames are those of the current size.
TypeOK ==
  /\ poolSize \in PoolSizes
  /\ frames \in [Frame -> FrameRecord]
  /\ lruList \in [1 .. poolSize -> Frame]
  /\ pageTable \in [Key -> Frame \union {NoFrame}]
  /\ disk \in [Key -> Data]
  /\ ptr \in [Handles -> [key : Key, frame : Frame] \union {NoPtr}]
  /\ rc \in RCs
  /\ synced \in SUBSET Fds

\* Erasing a frame from lruList and pushing it back neither loses a frame nor
\* duplicates one, so every frame stays a candidate for replacement.
LruListsEveryFrame == \A f \in Frame : \E i \in DOMAIN lruList : lruList[i] = f

\* FetchPage never hands out another page's data: an entry of the table leads
\* to a frame that holds that page, even after failed reads.
TableSound ==
  \A k \in Key : pageTable[k] # NoFrame => frames[pageTable[k]].key = k

\* A page is in at most one frame, and the table finds it there: there is no
\* second, older copy of it that a later eviction could write over the new one.
OneCopyOfEachPage ==
  \A f \in Frame : frames[f].key # NoKey => pageTable[frames[f].key] = f

\* The pointer of a page handle in use leads to its page: a pinned frame is
\* neither replaced nor cleared.
PinnedNotReplaced ==
  \A h \in Handles : ptr[h] # NoPtr => frames[ptr[h].frame].key = ptr[h].key

Holders(f) == {h \in Handles : ptr[h] # NoPtr /\ ptr[h].frame = f}

\* No call loses a pin or leaks one: the pin count of a frame is the number of
\* page handles that point into it.
PinsAreHolders == \A f \in Frame : frames[f].pin = Cardinality(Holders(f))

\* Dropping a clean frame loses nothing: its data are what the file holds.
CleanFramesOnDisk ==
  \A f \in Frame : frames[f].key # NoKey /\ ~ frames[f].dirty =>
     frames[f].data = disk[frames[f].key]

\* What a reader of page k gets.
View(k) == IF pageTable[k] = NoFrame THEN disk[k] ELSE frames[pageTable[k]].data

\* Once FlushAllPages or ClearFilePages has reported success, the file holds
\* what readers of it see, until somebody modifies it again.
SyncedFilesDurable == \A k \in Key : k[1] \in synced => disk[k] = View(k)

\* PF_NOBUF is only ever reported while every frame is held by some caller.
NoBufOnlyWhenAllHeld ==
  rc = "PF_NOBUF" => \A f \in Frame : Holders(f) # {}

\* A caller that gives back a page it holds is never told that the page is not
\* in the pool or not pinned.
HoldersAreServed ==
  [][\A h \in Handles : ptr[h] # NoPtr /\ ptr'[h] = NoPtr => rc' = "OK"]_vars

\* The pool implements the page store: callers cannot see it evict, and what
\* it writes behind their back is what they wrote last.
Store == INSTANCE PageStore WITH
  contents <- [k \in Key |-> View(k)],
  durable  <- disk,
  pins     <- [k \in Key |-> IF pageTable[k] = NoFrame THEN 0
                             ELSE frames[pageTable[k]].pin]

ImplementsPageStore == Store!Spec
=============================================================================
