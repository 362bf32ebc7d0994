------------------------------ MODULE FileHandles ------------------------------
(***************************************************************************)
(* The files of PF and the handles on them: PF_Manager's OpenFile and      *)
(* CloseFile (PF/src/pf_manager.cc), PF_FileHandle (pf_filehandle.cc), and *)
(* what RM does with a handle that could not be closed (RM/src/            *)
(* rm_manager.cc, rm_filehandle.cc).                                       *)
(*                                                                         *)
(* A file may be open under several descriptors, and each has a page count *)
(* and cached pages of its own.  A handle that could not be closed is      *)
(* deleted all the same: its descriptor stays open and its frames stay in  *)
(* the pool, which goes on writing them.                                   *)
(*                                                                         *)
(* The pool is the one BufferPool describes, seen from outside: a page has *)
(* at most one frame under a descriptor, and any frame can be replaced     *)
(* between two calls.  Writes of pages and headers can fail at any time.   *)
(* Reads do not, and nobody holds a page when its file is closed: RM gives *)
(* each page back before it returns.                                       *)
(*                                                                         *)
(* A definition marked (fault) is no part of the model: it is a way the    *)
(* definition after it could be wrong, which a property has to notice.     *)
(***************************************************************************)
EXTENDS Integers

CONSTANTS
  Files,
  Fds,          \* bound: the descriptors, of which open() gives the lowest unused
  MaxPages,     \* bound: pages a file may grow to
  Values,       \* contents a caller may give a page
  Blank,        \* a page that is not in the file
  Torn,         \* what a short write leaves in the file
  Closed,       \* a descriptor that is not in use
  NotCached     \* a page that is in no frame

Page == 0 .. MaxPages - 1
Data == Values \union {Blank, Torn}

\* A descriptor and the handle that has it, or had it when it was deleted.
PF_FileHandle == [file : Files, numPages : 0 .. MaxPages,
                  headerChanged : BOOLEAN, inUse : BOOLEAN]

\* A frame; `file` is history: where its contents come from.
Frame == [file : Files, data : Data, dirty : BOOLEAN]

ASSUME FdsAssumption == Fds \subseteq Nat
ASSUME MaxPagesAssumption == MaxPages \in Nat
ASSUME ClosedAssumption == Closed \notin PF_FileHandle
ASSUME NotCachedAssumption == NotCached \notin Frame

VARIABLES
  \* Program and file system
  disk, diskHdr,      \* the pages of each file, and the page count in its header
  handle,             \* descriptor |-> its PF_FileHandle, or Closed
  pool,               \* descriptor |-> page |-> its frame, or NotCached
  \* History
  latest, latestHdr,  \* the pages and the page count as last changed by any handle
  fresh,              \* handles that have had no chance to miss a change
  mixed               \* files changed through a handle that was not fresh

diskVars == <<disk, diskHdr>>
history  == <<latest, latestHdr, fresh, mixed>>
vars == <<diskVars, handle, pool, history>>

\* The descriptors on f, those of deleted handles included.
OnFile(f) == {d \in Fds : handle[d] # Closed /\ handle[d].file = f}

\* Is there still a handle that has d?
Using(d) == handle[d] # Closed /\ handle[d].inUse

DirtyPages(d) == {p \in Page : pool[d][p] # NotCached /\ pool[d][p].dirty}

\* Does d have something that its file has not?
Ahead(d) == handle[d].headerChanged \/ DirtyPages(d) # {}

\* What a caller gets who reads page p through d.
View(d, p) == IF pool[d][p] = NotCached THEN disk[handle[d].file][p] ELSE pool[d][p].data

-----------------------------------------------------------------------------
(* Writing *)

Outcomes == {"written", "refused", "torn"}
AllWritten(outcome) == \A p \in DOMAIN outcome : outcome[p] = "written"

\* WriteFrameToDisk for each page in the domain of outcome.
Write(d, outcome) ==
  disk' = [disk EXCEPT ![handle[d].file] =
             [p \in Page |-> IF p \in DOMAIN outcome /\ outcome[p] # "refused"
                             THEN IF outcome[p] = "torn" THEN Torn ELSE pool[d][p].data
                             ELSE @[p]]]

\* (fault) A frame whose write failed becomes clean too.
CleanedAnyway(d, outcome) ==
  [p \in Page |-> IF p \in DOMAIN outcome
                  THEN [pool[d][p] EXCEPT !.dirty = FALSE] ELSE pool[d][p]]

\* The frames of d when the pages that were written have become clean.
Cleaned(d, outcome) ==
  [p \in Page |-> IF p \in DOMAIN outcome /\ outcome[p] = "written"
                  THEN [pool[d][p] EXCEPT !.dirty = FALSE] ELSE pool[d][p]]

\* FlushAllPages: every dirty page of d is tried, whatever becomes of the others.
FlushAllPages(d, outcome) ==
  /\ outcome \in [DirtyPages(d) -> Outcomes]
  /\ Write(d, outcome)

\* PF_FileHandle::WriteHeader.
WriteHeader(d) ==
  diskHdr' = IF handle[d].headerChanged
             THEN [diskHdr EXCEPT ![handle[d].file] = handle[d].numPages] ELSE diskHdr

-----------------------------------------------------------------------------
(* The calls *)

NoFrames == [p \in Page |-> NotCached]

\* Files as CreateFile leaves them, and a process that has just begun.
Init ==
  /\ disk = [f \in Files |-> [p \in Page |-> Blank]]
  /\ diskHdr = [f \in Files |-> 0]
  /\ handle = [d \in Fds |-> Closed]
  /\ pool = [d \in Fds |-> NoFrames]
  /\ latest = disk /\ latestHdr = diskHdr
  /\ fresh = {} /\ mixed = {}

\* PF's OpenFile.  It does not ask whether the file is open already, which it is
\* when a SELECT reads a catalog.
OpenFile(f) ==
  \E d \in Fds :
     /\ handle[d] = Closed
     /\ \A e \in Fds : e < d => handle[e] # Closed
     /\ handle' = [handle EXCEPT ![d] = [file |-> f, numPages |-> diskHdr[f],
                                         headerChanged |-> FALSE, inUse |-> TRUE]]
     /\ fresh' = IF \A e \in OnFile(f) : ~ Ahead(e) THEN fresh \union {d} ELSE fresh
     /\ UNCHANGED <<diskVars, pool, latest, latestHdr, mixed>>

\* GetThisPage of a page that is not in the pool.
GetThisPage(d, p) ==
  /\ Using(d)
  /\ p < handle[d].numPages
  /\ pool[d][p] = NotCached
  /\ pool' = [pool EXCEPT ![d][p] = [file |-> handle[d].file,
                                     data |-> disk[handle[d].file][p], dirty |-> FALSE]]
  /\ UNCHANGED <<diskVars, handle, history>>

\* Page p of d now has the contents v, and other handles may not know it.
Change(d, p, v) ==
  LET f == handle[d].file
  IN  /\ pool' = [pool EXCEPT ![d][p] = [file |-> f, data |-> v, dirty |-> TRUE]]
      /\ latest' = [latest EXCEPT ![f][p] = v]
      /\ mixed' = IF d \in fresh THEN mixed ELSE mixed \union {f}
      /\ fresh' = fresh \ (OnFile(f) \ {d})

\* A caller gets a page, writes through the pointer, marks it dirty, unpins it.
Modify(d, p, v) ==
  /\ Using(d)
  /\ p < handle[d].numPages
  /\ Change(d, p, v)
  /\ UNCHANGED <<diskVars, handle, latestHdr>>

\* AllocatePage, and the caller's first contents for the page.
AllocatePage(d, v) ==
  LET n == handle[d].numPages
  IN  /\ Using(d)
      /\ n < MaxPages
      /\ Change(d, n, v)
      /\ handle' = [handle EXCEPT ![d].numPages = n + 1, ![d].headerChanged = TRUE]
      /\ latestHdr' = [latestHdr EXCEPT ![handle[d].file] = n + 1]
      /\ UNCHANGED diskVars

\* ForcePages, with success or without.
ForcePages(d) ==
  /\ Using(d)
  /\ \E outcome \in [DirtyPages(d) -> Outcomes] :
       /\ FlushAllPages(d, outcome)
       /\ pool' = [pool EXCEPT ![d] = Cleaned(d, outcome)]
  /\ UNCHANGED <<diskHdr, handle, history>>

\* FetchPage or ReinitializeBuffer takes the frame of a page, which is written
\* first if it is dirty, whether or not a handle still uses its descriptor.  When the
\* write fails, or another of ReinitializeBuffer's, the frame stays as it is.
ReplaceFrame(d, p) ==
  /\ pool[d][p] # NotCached
  /\ \/ /\ ~ pool[d][p].dirty
        /\ pool' = [pool EXCEPT ![d][p] = NotCached]
        /\ UNCHANGED disk
     \/ /\ pool[d][p].dirty
        /\ Write(d, [q \in {p} |-> "written"])
        /\ pool' = [pool EXCEPT ![d][p] = NotCached]
     \/ /\ pool[d][p].dirty
        /\ \E outcome \in Outcomes : Write(d, [q \in {p} |-> outcome])
        /\ UNCHANGED pool
  /\ UNCHANGED <<diskHdr, handle, history>>

\* (fault) CloseFile without ClearFilePages, or without WriteHeader.
CloseFileKeepsFrames(d) ==
  LET outcome == [p \in DirtyPages(d) |-> "written"]
  IN  /\ Using(d)
      /\ FlushAllPages(d, outcome)
      /\ WriteHeader(d)
      /\ pool' = [pool EXCEPT ![d] = Cleaned(d, outcome)]
      /\ handle' = [handle EXCEPT ![d] = Closed]
      /\ fresh' = fresh \ {d}
      /\ UNCHANGED <<latest, latestHdr, mixed>>

CloseFileKeepsHeader(d) ==
  /\ Using(d)
  /\ FlushAllPages(d, [p \in DirtyPages(d) |-> "written"])
  /\ pool' = [pool EXCEPT ![d] = NoFrames]
  /\ handle' = [handle EXCEPT ![d] = Closed]
  /\ fresh' = fresh \ {d}
  /\ UNCHANGED <<diskHdr, latest, latestHdr, mixed>>

\* CloseFile: ForcePages, WriteHeader, ClearFilePages, close, Reset.
CloseFile(d) ==
  /\ Using(d)
  /\ FlushAllPages(d, [p \in DirtyPages(d) |-> "written"])
  /\ WriteHeader(d)
  /\ pool' = [pool EXCEPT ![d] = NoFrames]
  /\ handle' = [handle EXCEPT ![d] = Closed]
  /\ fresh' = fresh \ {d}
  /\ UNCHANGED <<latest, latestHdr, mixed>>

\* The handle is deleted and not closed: the destructor writes the header if it
\* has changed, which can fail as well, and lets go of nothing.
Delete(d) ==
  /\ \E ok \in BOOLEAN :
       /\ handle' = [handle EXCEPT ![d].inUse = FALSE,
                                   ![d].headerChanged = @ /\ ~ ok]
       /\ IF ok THEN WriteHeader(d) ELSE UNCHANGED diskHdr
  /\ UNCHANGED <<latest, latestHdr, fresh, mixed>>

\* CloseFile fails in ForcePages or in WriteHeader.
CloseFileFails(d) ==
  /\ Using(d)
  /\ \E outcome \in [DirtyPages(d) -> Outcomes] :
       /\ ~ AllWritten(outcome) \/ handle[d].headerChanged
       /\ FlushAllPages(d, outcome)
       /\ pool' = [pool EXCEPT ![d] = Cleaned(d, outcome)]
  /\ Delete(d)

\* RM's CloseFile fails to get page 0, and its handle goes out of scope.
DeleteUnclosed(d) ==
  /\ Using(d)
  /\ Delete(d)
  /\ UNCHANGED <<disk, pool>>

\* quit, or a crash: the next process finds what the files hold.
Exit ==
  /\ handle' = [d \in Fds |-> Closed]
  /\ pool' = [d \in Fds |-> NoFrames]
  /\ latest' = disk /\ latestHdr' = diskHdr
  /\ fresh' = {} /\ mixed' = {}
  /\ UNCHANGED diskVars

Next ==
  \/ \E f \in Files : OpenFile(f)
  \/ \E d \in Fds : \/ \E p \in Page : GetThisPage(d, p) \/ ReplaceFrame(d, p)
                    \/ \E p \in Page, v \in Values : Modify(d, p, v)
                    \/ \E v \in Values : AllocatePage(d, v)
                    \/ ForcePages(d)
                    \/ CloseFile(d) \/ CloseFileFails(d) \/ DeleteUnclosed(d)
  \/ Exit

Spec == Init /\ [][Next]_vars

-----------------------------------------------------------------------------
(* Properties *)

\* Every variable has its type.
TypeOK ==
  /\ disk \in [Files -> [Page -> Data]]
  /\ diskHdr \in [Files -> 0 .. MaxPages]
  /\ handle \in [Fds -> PF_FileHandle \union {Closed}]
  /\ pool \in [Fds -> [Page -> Frame \union {NotCached}]]
  /\ latest \in [Files -> [Page -> Data]]
  /\ latestHdr \in [Files -> 0 .. MaxPages]
  /\ fresh \in SUBSET Fds
  /\ mixed \in SUBSET Files

\* Descriptors are used again for other files, and never show the pages of the
\* file before: CloseFile leaves no frame under a descriptor it gives back, and
\* a CloseFile that fails does not give it back.
FramesAreOfTheirFile ==
  \A d \in Fds, p \in Page :
     pool[d][p] # NotCached => handle[d] # Closed /\ pool[d][p].file = handle[d].file

\* A handle opened when its file was up to date, and not overtaken by changes
\* through another since, reads what was last written and has the right count,
\* whatever frames were replaced, writes failed, and handles came and went.
FreshHandlesReadTheLatest ==
  \A d \in fresh :
     LET f == handle[d].file
     IN  f \notin mixed =>
           /\ handle[d].numPages = latestHdr[f]
           /\ \A p \in Page : p < latestHdr[f] => View(d, p) = latest[f][p]

\* Unless a descriptor is still ahead of it, a file holds what was last written to
\* it: a CloseFile that succeeds has lost nothing, and the next handle is fresh.
NothingAheadMeansOnDisk ==
  \A f \in Files \ mixed :
     (\A d \in OnFile(f) : ~ Ahead(d)) =>
        /\ diskHdr[f] = latestHdr[f]
        /\ \A p \in Page : p < latestHdr[f] => disk[f][p] = latest[f][p]
=============================================================================
