--------------------------- MODULE FileHandlesProofs ---------------------------
(***************************************************************************)
(* Proofs about FileHandles, for any files, descriptors, pages and values. *)
(***************************************************************************)
EXTENDS FileHandles, TLAPS

\* What a fresh handle of a file nobody mixed up has: the count and the pages last
\* written, in frames that are dirty or the same as the file.
InStep(d) ==
  LET f == handle[d].file
  IN  /\ handle[d].numPages = latestHdr[f]
      /\ handle[d].headerChanged \/ diskHdr[f] = handle[d].numPages
      /\ \A p \in Page : p < latestHdr[f] =>
            /\ View(d, p) = latest[f][p]
            /\ p \in DirtyPages(d) \/ disk[f][p] = latest[f][p]

FreshInStep ==
  \A d \in fresh : handle[d] # Closed /\ (handle[d].file \notin mixed => InStep(d))

\* Only a fresh handle is ahead of its file, and then it is the only fresh one.
AheadIsFresh ==
  \A d \in Fds : handle[d] # Closed /\ handle[d].file \notin mixed /\ Ahead(d) => d \in fresh

AheadIsAlone ==
  \A d, e \in fresh :
     /\ handle[d].file = handle[e].file
     /\ handle[d].file \notin mixed
     /\ Ahead(d)
     => d = e

\* The inductive invariant.
HandlesInv ==
  /\ TypeOK
  /\ FramesAreOfTheirFile
  /\ FreshInStep
  /\ AheadIsFresh
  /\ AheadIsAlone
  /\ NothingAheadMeansOnDisk

USE ClosedAssumption, NotCachedAssumption, MaxPagesAssumption

-----------------------------------------------------------------------------
(* Steps on one descriptor *)

\* No other descriptor than d has another handle or other frames.
OnlyAt(d) ==
  /\ handle' = [handle EXCEPT ![d] = handle'[d]]
  /\ pool' = [pool EXCEPT ![d] = pool'[d]]

\* The frame of page p just read through d.
Read(d, p) ==
  [file |-> handle[d].file, data |-> disk[handle[d].file][p], dirty |-> FALSE]

\* Page p of d after a call that may read it, write it or drop it.
PageKept(d, p) ==
  LET f == handle[d].file
  IN  \/ /\ p \notin DirtyPages(d)
         /\ disk'[f][p] = disk[f][p]
         /\ pool'[d][p] \in {pool[d][p], NotCached, Read(d, p)}
      \/ /\ p \in DirtyPages(d)
         /\ disk'[f][p] = pool[d][p].data
         /\ pool'[d][p] \in {[pool[d][p] EXCEPT !.dirty = FALSE], NotCached}
      \/ /\ p \in DirtyPages(d)
         /\ disk'[f][p] \in Data
         /\ pool'[d][p] = pool[d][p]

\* What every call does that reads or writes pages of d, or writes its header, and
\* changes none.
Flushes(d) ==
  LET f == handle[d].file
  IN  /\ handle[d] # Closed
      /\ OnlyAt(d)
      /\ \A p \in Page : PageKept(d, p)
      /\ disk' = [disk EXCEPT ![f] = disk'[f]]
      /\ disk'[f] \in [Page -> Data] /\ pool'[d] \in [Page -> Frame \union {NotCached}]
      /\ UNCHANGED <<latest, latestHdr, mixed>>

\* The header of d is as it was, or has been written.
HeaderKept(d) ==
  LET f == handle[d].file
  IN  \/ /\ diskHdr' = diskHdr
         /\ handle'[d].headerChanged = handle[d].headerChanged
      \/ /\ handle[d].headerChanged
         /\ diskHdr' = [diskHdr EXCEPT ![f] = handle[d].numPages]
         /\ ~ handle'[d].headerChanged

\* The handle, if it stays, has the same file and the same count.
HandleStays(d) ==
  /\ handle'[d] \in PF_FileHandle
  /\ handle'[d].file = handle[d].file
  /\ handle'[d].numPages = handle[d].numPages
  /\ HeaderKept(d)
  /\ fresh' = fresh

\* The handle is given back, with everything written.
HandleGoes(d) ==
  /\ handle'[d] = Closed
  /\ pool'[d] = NoFrames
  /\ \A p \in DirtyPages(d) : disk'[handle[d].file][p] = pool[d][p].data
  /\ WriteHeader(d)
  /\ fresh' = fresh \ {d}

\* A descriptor that has nothing its file has not leaves the file alone.
LEMMA NotAheadWritesNothing ==
  ASSUME TypeOK, NEW d \in Fds, Flushes(d), HandleStays(d) \/ HandleGoes(d), ~ Ahead(d)
  PROVE  disk' = disk /\ diskHdr' = diskHdr
<1> DEFINE f == handle[d].file
<1>1. f \in Files /\ disk[f] \in [Page -> Data]
  BY DEF TypeOK, PF_FileHandle, Flushes
<1>2. \A p \in Page : disk'[f][p] = disk[f][p]
  BY DEF Flushes, PageKept, Ahead
<1>3. disk'[f] = disk[f]
  BY <1>1, <1>2 DEF Flushes
<1>4. disk' = disk
  BY <1>1, <1>3 DEF Flushes, TypeOK
<1>5. diskHdr' = diskHdr
  BY DEF HandleStays, HeaderKept, HandleGoes, WriteHeader, Ahead
<1> QED
  BY <1>4, <1>5

\* Types survive a call that writes.
LEMMA FlushKeepsTypes ==
  ASSUME TypeOK, NEW d \in Fds, Flushes(d), HandleStays(d) \/ HandleGoes(d)
  PROVE  TypeOK'
<1>1. handle[d] \in PF_FileHandle
  BY DEF TypeOK, Flushes
<1>2. disk' \in [Files -> [Page -> Data]]
  BY <1>1 DEF TypeOK, Flushes, PF_FileHandle
<1>3. diskHdr' \in [Files -> 0 .. MaxPages]
  BY <1>1 DEF TypeOK, HandleStays, HandleGoes, HeaderKept, WriteHeader, PF_FileHandle
<1>4. handle' \in [Fds -> PF_FileHandle \union {Closed}]
  BY DEF TypeOK, Flushes, OnlyAt, HandleStays, HandleGoes
<1>5. pool' \in [Fds -> [Page -> Frame \union {NotCached}]]
  BY DEF TypeOK, Flushes, OnlyAt
<1>6. UNCHANGED <<latest, latestHdr, mixed>> /\ fresh' \in SUBSET Fds
  BY DEF TypeOK, Flushes, HandleStays, HandleGoes
<1> QED
  BY <1>2, <1>3, <1>4, <1>5, <1>6 DEF TypeOK

\* So does the invariant.
LEMMA FlushKeeps ==
  ASSUME HandlesInv, NEW d \in Fds, Flushes(d), HandleStays(d) \/ HandleGoes(d)
  PROVE  HandlesInv'
<1> DEFINE f == handle[d].file
<1>1. /\ TypeOK /\ TypeOK'
      /\ handle[d] \in PF_FileHandle /\ f \in Files
      /\ disk[f] \in [Page -> Data] /\ pool[d] \in [Page -> Frame \union {NotCached}]
  BY FlushKeepsTypes DEF HandlesInv, TypeOK, Flushes, PF_FileHandle
<1>2. \A e \in Fds : e # d => handle'[e] = handle[e] /\ pool'[e] = pool[e]
  BY <1>1 DEF Flushes, OnlyAt, TypeOK
<1>3. \A g \in Files : g # f => disk'[g] = disk[g] /\ diskHdr'[g] = diskHdr[g]
  BY <1>1 DEF Flushes, TypeOK, HandleStays, HeaderKept, HandleGoes, WriteHeader
<1>4. ~ Ahead(d) => disk' = disk /\ diskHdr' = diskHdr
  BY <1>1, NotAheadWritesNothing
<1>5. UNCHANGED <<latest, latestHdr, mixed>>
  BY DEF Flushes
<1>6. ASSUME NEW e \in Fds, handle'[e] # Closed, Ahead(e)'
      PROVE  Ahead(e)
  <2>1. DirtyPages(d)' \subseteq DirtyPages(d)
    BY <1>1 DEF Flushes, PageKept, DirtyPages, Read
  <2>2. CASE e = d
    BY <2>1, <2>2, <1>6 DEF Ahead, HandleStays, HandleGoes, HeaderKept
  <2>3. CASE e # d
    BY <2>3, <1>2, <1>6 DEF Ahead, DirtyPages
  <2> QED
    BY <2>2, <2>3
<1>7. fresh' \subseteq fresh /\ (\A e \in fresh : e # d \/ handle'[d] # Closed => e \in fresh')
      /\ (d \in fresh' => HandleStays(d))
  BY DEF HandleStays, HandleGoes
<1>8. \A e \in Fds : handle'[e] # Closed => handle[e] # Closed /\ handle'[e].file = handle[e].file
  BY <1>2 DEF HandleStays, HandleGoes, Flushes
<1>9. FramesAreOfTheirFile'
  <2> SUFFICES ASSUME NEW e \in Fds, NEW p \in Page, pool'[e][p] # NotCached
               PROVE  handle'[e] # Closed /\ pool'[e][p].file = handle'[e].file
    BY DEF FramesAreOfTheirFile
  <2>1. CASE e # d
    BY <2>1, <1>2 DEF HandlesInv, FramesAreOfTheirFile
  <2>2. CASE e = d
    <3>1. HandleStays(d)
      BY <2>2, <1>1 DEF HandleGoes, NoFrames
    <3>2. PageKept(d, p)
      BY DEF Flushes
    <3>3. pool[d][p] # NotCached => pool[d][p] \in Frame /\ pool[d][p].file = f
      BY <1>1 DEF HandlesInv, FramesAreOfTheirFile
    <3>4. pool'[d][p].file = f
      BY <2>2, <3>2, <3>3 DEF PageKept, Read, DirtyPages, Frame
    <3> QED
      BY <2>2, <3>1, <3>4 DEF HandleStays, HandlesInv
  <2> QED
    BY <2>1, <2>2
<1>10. \A e \in fresh : e # d /\ handle[e].file = f /\ f \notin mixed => ~ Ahead(d)
  BY DEF HandlesInv, AheadIsFresh, AheadIsAlone, Flushes
<1>11. FreshInStep'
  <2> SUFFICES ASSUME NEW e \in fresh'
               PROVE  handle'[e] # Closed /\ (handle'[e].file \notin mixed => InStep(e)')
    BY <1>5 DEF FreshInStep
  <2>1. e \in fresh /\ e \in Fds /\ handle[e] # Closed
    BY <1>1, <1>7 DEF HandlesInv, FreshInStep, TypeOK
  <2>2. handle'[e] # Closed
    BY <2>1, <1>2, <1>7 DEF HandleStays, HandlesInv
  <2>3. ASSUME handle'[e].file \notin mixed
        PROVE  InStep(e)'
    <3>1. InStep(e)
      BY <2>1, <2>2, <2>3, <1>8 DEF HandlesInv, FreshInStep
    <3>2. CASE e # d
      <4>1. disk'[handle[e].file] = disk[handle[e].file]
            /\ diskHdr'[handle[e].file] = diskHdr[handle[e].file]
        BY <2>1, <2>2, <2>3, <3>2, <1>1, <1>3, <1>4, <1>8, <1>10 DEF TypeOK, PF_FileHandle
      <4> QED
        BY <2>1, <3>1, <3>2, <4>1, <1>2, <1>5 DEF InStep, View, DirtyPages
    <3>3. CASE e = d
      <4>1. HandleStays(d)
        BY <3>3, <1>7
      <4>2. handle'[d].headerChanged \/ diskHdr'[f] = handle'[d].numPages
        BY <3>1, <3>3, <4>1, <1>1 DEF HandleStays, HeaderKept, InStep, TypeOK
      <4>3. ASSUME NEW p \in Page, p < latestHdr[f]
            PROVE  View(d, p)' = latest[f][p]
                   /\ (p \in DirtyPages(d)' \/ disk'[f][p] = latest[f][p])
        <5>1. View(d, p) = latest[f][p] /\ (p \in DirtyPages(d) \/ disk[f][p] = latest[f][p])
          BY <3>1, <3>3, <4>3 DEF InStep
        <5>2. PageKept(d, p)
          BY DEF Flushes
        <5>3. pool[d][p] # NotCached => pool[d][p] \in Frame
          BY <1>1
        <5>4. CASE p \notin DirtyPages(d)
          BY <5>1, <5>2, <5>3, <5>4, <4>1 DEF PageKept, View, DirtyPages, Read, HandleStays
        <5>5. CASE p \in DirtyPages(d)
          BY <5>1, <5>2, <5>3, <5>5, <4>1 DEF PageKept, View, DirtyPages, HandleStays, Frame
        <5> QED
          BY <5>4, <5>5
      <4> QED
        BY <3>1, <3>3, <4>1, <4>2, <4>3, <1>5 DEF InStep, HandleStays
    <3> QED
      BY <3>2, <3>3
  <2> QED
    BY <2>2, <2>3
<1>12. AheadIsFresh'
  <2> SUFFICES ASSUME NEW e \in Fds, handle'[e] # Closed, handle'[e].file \notin mixed, Ahead(e)'
               PROVE  e \in fresh'
    BY <1>5 DEF AheadIsFresh
  <2>1. handle[e] # Closed /\ handle[e].file \notin mixed /\ Ahead(e)
    BY <1>6, <1>8
  <2> QED
    BY <2>1, <1>7 DEF HandlesInv, AheadIsFresh
<1>13. AheadIsAlone'
  <2> SUFFICES ASSUME NEW a \in fresh', NEW e \in fresh',
                      handle'[a].file = handle'[e].file, handle'[a].file \notin mixed, Ahead(a)'
               PROVE  a = e
    BY <1>5 DEF AheadIsAlone
  <2>1. a \in fresh /\ e \in fresh /\ a \in Fds /\ e \in Fds
    BY <1>1, <1>7 DEF TypeOK
  <2>2. handle'[a] # Closed /\ handle'[e] # Closed
    BY <1>11 DEF FreshInStep
  <2>3. Ahead(a)
    BY <2>1, <2>2, <1>6
  <2> QED
    BY <2>1, <2>2, <2>3, <1>8 DEF HandlesInv, AheadIsAlone
<1>14. NothingAheadMeansOnDisk'
  <2> SUFFICES ASSUME NEW g \in Files \ mixed, \A e \in OnFile(g)' : ~ Ahead(e)'
               PROVE  /\ diskHdr'[g] = latestHdr[g]
                      /\ \A p \in Page : p < latestHdr[g] => disk'[g][p] = latest[g][p]
    BY <1>5 DEF NothingAheadMeansOnDisk
  <2>1. \A e \in OnFile(g) : e # d => ~ Ahead(e)
    BY <1>2 DEF OnFile, Ahead, DirtyPages
  <2>2. CASE g = f /\ Ahead(d)
    <3>1. InStep(d)
      BY <2>2 DEF HandlesInv, AheadIsFresh, FreshInStep, Flushes
    <3>2. CASE HandleStays(d)
      <4>1. ~ Ahead(d)'
        BY <2>2, <3>2, <1>1 DEF OnFile, HandleStays
      <4>2. diskHdr'[g] = latestHdr[g]
        BY <2>2, <3>1, <3>2, <4>1, <1>1 DEF InStep, HandleStays, HeaderKept, Ahead, TypeOK
      <4>3. ASSUME NEW p \in Page, p < latestHdr[g]
            PROVE  disk'[g][p] = latest[g][p]
        <5>1. PageKept(d, p) /\ p \notin DirtyPages(d)'
          BY <4>1 DEF Flushes, Ahead
        <5>2. View(d, p) = latest[f][p] /\ (p \in DirtyPages(d) \/ disk[f][p] = latest[f][p])
          BY <2>2, <3>1, <4>3 DEF InStep
        <5> QED
          BY <2>2, <5>1, <5>2, <1>1 DEF PageKept, DirtyPages, View
      <4> QED
        BY <4>2, <4>3
    <3>3. CASE HandleGoes(d)
      <4>1. diskHdr'[g] = latestHdr[g]
        BY <2>2, <3>1, <3>3, <1>1 DEF InStep, HandleGoes, WriteHeader, TypeOK
      <4>2. ASSUME NEW p \in Page, p < latestHdr[g]
            PROVE  disk'[g][p] = latest[g][p]
        <5>1. PageKept(d, p)
          BY DEF Flushes
        <5>2. View(d, p) = latest[f][p] /\ (p \in DirtyPages(d) \/ disk[f][p] = latest[f][p])
          BY <2>2, <3>1, <4>2 DEF InStep
        <5> QED
          BY <2>2, <3>3, <5>1, <5>2 DEF PageKept, DirtyPages, View, HandleGoes
      <4> QED
        BY <4>1, <4>2
    <3> QED
      BY <3>2, <3>3
  <2>3. CASE ~ (g = f /\ Ahead(d))
    <3>1. disk'[g] = disk[g] /\ diskHdr'[g] = diskHdr[g]
      BY <2>3, <1>3, <1>4
    <3>2. \A e \in OnFile(g) : ~ Ahead(e)
      BY <2>1, <2>3 DEF OnFile
    <3> QED
      BY <3>1, <3>2 DEF HandlesInv, NothingAheadMeansOnDisk
  <2> QED
    BY <2>2, <2>3
<1> QED
  BY <1>1, <1>9, <1>11, <1>12, <1>13, <1>14 DEF HandlesInv

-----------------------------------------------------------------------------
(* The calls that change no page *)

\* Pages in S are written with the given outcomes.  A frame that was written may be
\* clean or gone; a clean frame may have gone as well; the others are what they were.
LEMMA WriteKeepsPages ==
  ASSUME TypeOK, NEW d \in Fds, handle[d] # Closed,
         NEW S \in SUBSET DirtyPages(d), NEW outcome \in [S -> Outcomes], Write(d, outcome),
         pool'[d] \in [Page -> Frame \union {NotCached}],
         \A p \in Page :
            \/ /\ p \in S /\ outcome[p] = "written"
               /\ pool'[d][p] \in {[pool[d][p] EXCEPT !.dirty = FALSE], NotCached}
            \/ pool'[d][p] = pool[d][p]
            \/ pool'[d][p] = NotCached /\ p \notin DirtyPages(d)
  PROVE  LET f == handle[d].file
         IN  /\ \A p \in Page : PageKept(d, p)
             /\ disk' = [disk EXCEPT ![f] = disk'[f]]
             /\ disk'[f] \in [Page -> Data]
<1> DEFINE f == handle[d].file
<1>1. f \in Files /\ disk[f] \in [Page -> Data] /\ pool[d] \in [Page -> Frame \union {NotCached}]
  BY DEF TypeOK, PF_FileHandle
<1>2. disk'[f] = [p \in Page |-> IF p \in S /\ outcome[p] # "refused"
                                THEN IF outcome[p] = "torn" THEN Torn ELSE pool[d][p].data
                                ELSE disk[f][p]]
  BY <1>1 DEF Write, TypeOK
<1>3. disk' = [disk EXCEPT ![f] = disk'[f]]
  BY <1>1 DEF Write, TypeOK
<1>4. \A p \in S : pool[d][p] \in Frame /\ p \in Page
  BY <1>1 DEF DirtyPages
<1>5. disk'[f] \in [Page -> Data]
  BY <1>1, <1>2, <1>4 DEF Frame, Data
<1>6. ASSUME NEW p \in Page PROVE PageKept(d, p)
  <2>1. CASE p \in S /\ pool'[d][p] # pool[d][p]
    BY <2>1, <1>2 DEF PageKept
  <2>2. CASE p \in S /\ pool'[d][p] = pool[d][p]
    BY <2>2, <1>2, <1>5 DEF PageKept
  <2>3. CASE p \notin S
    BY <2>3, <1>1, <1>2, <1>5 DEF PageKept
  <2> QED
    BY <2>1, <2>2, <2>3
<1> QED
  BY <1>3, <1>5, <1>6

\* The frames a flush leaves: those of another descriptor are what they were.
LEMMA CleanedPages ==
  ASSUME TypeOK, NEW d \in Fds, NEW outcome \in [DirtyPages(d) -> Outcomes]
  PROVE  /\ Cleaned(d, outcome) \in [Page -> Frame \union {NotCached}]
         /\ \A p \in Page :
              \/ /\ p \in DirtyPages(d) /\ outcome[p] = "written"
                 /\ Cleaned(d, outcome)[p] = [pool[d][p] EXCEPT !.dirty = FALSE]
              \/ Cleaned(d, outcome)[p] = pool[d][p]
<1>1. pool[d] \in [Page -> Frame \union {NotCached}]
  BY DEF TypeOK
<1>2. \A p \in DirtyPages(d) : pool[d][p] \in Frame /\ p \in Page
  BY <1>1 DEF DirtyPages
<1> QED
  BY <1>1, <1>2 DEF Cleaned, Frame

\* A flush of d, whatever becomes of each page.
LEMMA FlushAllFlushes ==
  ASSUME TypeOK, NEW d \in Fds, handle[d] # Closed,
         NEW outcome \in [DirtyPages(d) -> Outcomes], FlushAllPages(d, outcome),
         pool' = [pool EXCEPT ![d] = Cleaned(d, outcome)],
         handle' = [handle EXCEPT ![d] = handle'[d]],
         UNCHANGED <<latest, latestHdr, mixed>>
  PROVE  Flushes(d)
<1>1. pool'[d] = Cleaned(d, outcome) /\ pool' = [pool EXCEPT ![d] = pool'[d]]
  BY DEF TypeOK
<1>2. pool'[d] \in [Page -> Frame \union {NotCached}]
  BY <1>1, CleanedPages
<1>3. \A p \in Page :
         \/ /\ p \in DirtyPages(d) /\ outcome[p] = "written"
            /\ pool'[d][p] \in {[pool[d][p] EXCEPT !.dirty = FALSE], NotCached}
         \/ pool'[d][p] = pool[d][p]
         \/ pool'[d][p] = NotCached /\ p \notin DirtyPages(d)
  <2>1. \A p \in Page :
           \/ /\ p \in DirtyPages(d) /\ outcome[p] = "written"
              /\ Cleaned(d, outcome)[p] = [pool[d][p] EXCEPT !.dirty = FALSE]
           \/ Cleaned(d, outcome)[p] = pool[d][p]
    BY CleanedPages
  <2> QED
    BY <1>1, <2>1
<1>4. /\ \A p \in Page : PageKept(d, p)
      /\ disk' = [disk EXCEPT ![handle[d].file] = disk'[handle[d].file]]
      /\ disk'[handle[d].file] \in [Page -> Data]
  BY <1>2, <1>3, WriteKeepsPages DEF FlushAllPages
<1> QED
  BY <1>1, <1>2, <1>4 DEF Flushes, OnlyAt

\* Reading, flushing and replacing leave the handle and history alone.
LEMMA HandleUnchanged ==
  ASSUME TypeOK, NEW d \in Fds, handle[d] # Closed, UNCHANGED <<diskHdr, handle, history>>
  PROVE  /\ HandleStays(d)
         /\ handle' = [handle EXCEPT ![d] = handle'[d]]
         /\ UNCHANGED <<latest, latestHdr, mixed>>
  BY DEF TypeOK, HandleStays, HeaderKept, history

LEMMA GetThisPageKeeps ==
  ASSUME HandlesInv, NEW d \in Fds, NEW p \in Page, GetThisPage(d, p)
  PROVE  HandlesInv'
<1>1. TypeOK /\ handle[d] # Closed /\ handle[d].file \in Files
  BY DEF HandlesInv, TypeOK, GetThisPage, Using, PF_FileHandle
<1>2. HandleStays(d) /\ UNCHANGED <<latest, latestHdr, mixed>>
      /\ handle' = [handle EXCEPT ![d] = handle'[d]]
  BY <1>1, HandleUnchanged DEF GetThisPage, diskVars
<1>3. pool[d] \in [Page -> Frame \union {NotCached}] /\ disk[handle[d].file] \in [Page -> Data]
  BY <1>1 DEF TypeOK
<1>4. pool'[d] = [pool[d] EXCEPT ![p] = Read(d, p)] /\ pool' = [pool EXCEPT ![d] = pool'[d]]
  BY <1>1 DEF TypeOK, GetThisPage, Read
<1>5. Read(d, p) \in Frame
  BY <1>1, <1>3 DEF Read, Frame
<1>6. ASSUME NEW q \in Page PROVE PageKept(d, q)
  BY <1>3, <1>4 DEF PageKept, GetThisPage, diskVars, DirtyPages
<1>7. Flushes(d)
  BY <1>1, <1>2, <1>3, <1>4, <1>5, <1>6 DEF Flushes, OnlyAt, GetThisPage, diskVars, TypeOK
<1> QED
  BY <1>2, <1>7, FlushKeeps

LEMMA ForcePagesKeeps ==
  ASSUME HandlesInv, NEW d \in Fds, ForcePages(d)
  PROVE  HandlesInv'
<1>1. TypeOK /\ handle[d] # Closed
  BY DEF HandlesInv, ForcePages, Using
<1>2. HandleStays(d) /\ UNCHANGED <<latest, latestHdr, mixed>>
      /\ handle' = [handle EXCEPT ![d] = handle'[d]]
  BY <1>1, HandleUnchanged DEF ForcePages
<1>3. Flushes(d)
  BY <1>1, <1>2, FlushAllFlushes DEF ForcePages
<1> QED
  BY <1>2, <1>3, FlushKeeps

LEMMA ReplaceFrameKeeps ==
  ASSUME HandlesInv, NEW d \in Fds, NEW p \in Page, ReplaceFrame(d, p)
  PROVE  HandlesInv'
<1> DEFINE f == handle[d].file
<1>1. TypeOK /\ handle[d] # Closed /\ f \in Files
  BY DEF HandlesInv, FramesAreOfTheirFile, TypeOK, ReplaceFrame, PF_FileHandle
<1>2. HandleStays(d) /\ UNCHANGED <<latest, latestHdr, mixed>>
      /\ handle' = [handle EXCEPT ![d] = handle'[d]]
  BY <1>1, HandleUnchanged DEF ReplaceFrame
<1>3. pool[d] \in [Page -> Frame \union {NotCached}] /\ disk[f] \in [Page -> Data]
  BY <1>1 DEF TypeOK
<1>4. ASSUME pool' = pool \/ pool' = [pool EXCEPT ![d][p] = NotCached]
      PROVE  /\ pool'[d] \in [Page -> Frame \union {NotCached}]
             /\ pool' = [pool EXCEPT ![d] = pool'[d]]
             /\ \A q \in Page : q # p => pool'[d][q] = pool[d][q]
             /\ pool' = pool \/ pool'[d][p] = NotCached
  BY <1>1, <1>3, <1>4 DEF TypeOK
<1>5. CASE ~ pool[d][p].dirty /\ pool' = [pool EXCEPT ![d][p] = NotCached] /\ UNCHANGED disk
  <2>1. \A q \in Page : PageKept(d, q)
    BY <1>3, <1>4, <1>5 DEF PageKept, DirtyPages
  <2>2. Flushes(d)
    BY <1>1, <1>2, <1>3, <1>4, <1>5, <2>1 DEF Flushes, OnlyAt, TypeOK
  <2> QED
    BY <1>2, <2>2, FlushKeeps
<1>6. ASSUME NEW o \in Outcomes, p \in DirtyPages(d), Write(d, [q \in {p} |-> o]),
             pool' = pool \/ (o = "written" /\ pool' = [pool EXCEPT ![d][p] = NotCached])
      PROVE  Flushes(d)
  <2> DEFINE outcome == [q \in {p} |-> o]
  <2>1. outcome \in [{p} -> Outcomes] /\ {p} \in SUBSET DirtyPages(d) /\ outcome[p] = o
    BY <1>6
  <2>2. Write(d, outcome)
    BY <1>6
  <2>3. \A q \in Page :
            \/ /\ q \in {p} /\ outcome[q] = "written"
               /\ pool'[d][q] \in {[pool[d][q] EXCEPT !.dirty = FALSE], NotCached}
            \/ pool'[d][q] = pool[d][q]
            \/ pool'[d][q] = NotCached /\ q \notin DirtyPages(d)
    BY <1>4, <1>6, <1>1, <1>3 DEF TypeOK
  <2> HIDE DEF outcome
  <2>4. /\ \A q \in Page : PageKept(d, q)
        /\ disk' = [disk EXCEPT ![f] = disk'[f]]
        /\ disk'[f] \in [Page -> Data]
    BY <1>1, <1>4, <1>6, <2>1, <2>2, <2>3, WriteKeepsPages
  <2> QED
    BY <1>1, <1>2, <1>4, <1>6, <2>4 DEF Flushes, OnlyAt
<1>7. CASE pool[d][p].dirty
  <2>1. p \in DirtyPages(d)
    BY <1>7 DEF ReplaceFrame, DirtyPages
  <2>2. Flushes(d)
    BY <1>6, <1>7, <2>1 DEF ReplaceFrame, Outcomes
  <2> QED
    BY <1>2, <2>2, FlushKeeps
<1> QED
  BY <1>5, <1>7 DEF ReplaceFrame

LEMMA CloseFileKeeps ==
  ASSUME HandlesInv, NEW d \in Fds, CloseFile(d)
  PROVE  HandlesInv'
<1> DEFINE f == handle[d].file
           outcome == [p \in DirtyPages(d) |-> "written"]
<1>1. TypeOK /\ handle[d] # Closed /\ f \in Files
  BY DEF HandlesInv, TypeOK, CloseFile, Using, PF_FileHandle
<1>2. pool'[d] = NoFrames /\ OnlyAt(d) /\ handle'[d] = Closed
  BY <1>1 DEF CloseFile, OnlyAt, TypeOK
<1>3. NoFrames \in [Page -> Frame \union {NotCached}] /\ \A p \in Page : NoFrames[p] = NotCached
  BY DEF NoFrames
<1>4. outcome \in [DirtyPages(d) -> Outcomes] /\ \A p \in DirtyPages(d) : outcome[p] = "written"
  BY DEF Outcomes
<1>5. Write(d, outcome)
  BY DEF CloseFile, FlushAllPages
<1>6. \A p \in DirtyPages(d) : disk'[f][p] = pool[d][p].data
  BY <1>1, <1>5 DEF Write, TypeOK, DirtyPages
<1> HIDE DEF outcome
<1>7. \A p \in Page :
        \/ /\ p \in DirtyPages(d) /\ outcome[p] = "written"
           /\ pool'[d][p] \in {[pool[d][p] EXCEPT !.dirty = FALSE], NotCached}
        \/ pool'[d][p] = pool[d][p]
        \/ pool'[d][p] = NotCached /\ p \notin DirtyPages(d)
  BY <1>2, <1>3, <1>4
<1>8. /\ \A p \in Page : PageKept(d, p)
      /\ disk' = [disk EXCEPT ![f] = disk'[f]]
      /\ disk'[f] \in [Page -> Data]
  BY <1>1, <1>2, <1>3, <1>4, <1>5, <1>7, WriteKeepsPages
<1>9. Flushes(d)
  BY <1>1, <1>2, <1>3, <1>8 DEF Flushes, CloseFile
<1>10. HandleGoes(d)
  BY <1>2, <1>6 DEF HandleGoes, CloseFile
<1> QED
  BY <1>9, <1>10, FlushKeeps

\* A handle that is deleted stays where it is.
LEMMA DeleteStays ==
  ASSUME TypeOK, NEW d \in Fds, handle[d] # Closed, Delete(d)
  PROVE  /\ HandleStays(d)
         /\ handle' = [handle EXCEPT ![d] = handle'[d]]
         /\ UNCHANGED <<latest, latestHdr, mixed>>
<1>1. handle[d] \in PF_FileHandle
  BY DEF TypeOK
<1>2. PICK ok \in BOOLEAN :
        /\ handle' = [handle EXCEPT ![d].inUse = FALSE, ![d].headerChanged = @ /\ ~ ok]
        /\ IF ok THEN WriteHeader(d) ELSE UNCHANGED diskHdr
  BY DEF Delete
<1>3. handle'[d] = [handle[d] EXCEPT !.inUse = FALSE, !.headerChanged = @ /\ ~ ok]
  BY <1>2 DEF TypeOK
<1>4. /\ handle'[d].file = handle[d].file /\ handle'[d].numPages = handle[d].numPages
      /\ handle'[d].headerChanged = (handle[d].headerChanged /\ ~ ok)
      /\ handle'[d] \in PF_FileHandle
  BY <1>1, <1>3 DEF PF_FileHandle
<1>5. HeaderKept(d)
  <2>1. CASE ok
    BY <1>1, <1>2, <1>4, <2>1 DEF HeaderKept, WriteHeader, PF_FileHandle
  <2>2. CASE ~ ok
    BY <1>1, <1>2, <1>4, <2>2 DEF HeaderKept, PF_FileHandle
  <2> QED
    BY <2>1, <2>2
<1>6. handle' = [handle EXCEPT ![d] = handle'[d]]
  BY <1>2 DEF TypeOK
<1> QED
  BY <1>4, <1>5, <1>6 DEF HandleStays, Delete

LEMMA CloseFileFailsKeeps ==
  ASSUME HandlesInv, NEW d \in Fds, CloseFileFails(d)
  PROVE  HandlesInv'
<1>1. TypeOK /\ handle[d] # Closed
  BY DEF HandlesInv, CloseFileFails, Using
<1>2. HandleStays(d) /\ UNCHANGED <<latest, latestHdr, mixed>>
      /\ handle' = [handle EXCEPT ![d] = handle'[d]]
  BY <1>1, DeleteStays DEF CloseFileFails
<1>3. Flushes(d)
  BY <1>1, <1>2, FlushAllFlushes DEF CloseFileFails
<1> QED
  BY <1>2, <1>3, FlushKeeps

LEMMA DeleteUnclosedKeeps ==
  ASSUME HandlesInv, NEW d \in Fds, DeleteUnclosed(d)
  PROVE  HandlesInv'
<1>1. TypeOK /\ handle[d] # Closed /\ handle[d].file \in Files
  BY DEF HandlesInv, TypeOK, DeleteUnclosed, Using, PF_FileHandle
<1>2. HandleStays(d) /\ UNCHANGED <<latest, latestHdr, mixed>>
      /\ handle' = [handle EXCEPT ![d] = handle'[d]]
  BY <1>1, DeleteStays DEF DeleteUnclosed
<1>3. disk[handle[d].file] \in [Page -> Data] /\ pool[d] \in [Page -> Frame \union {NotCached}]
  BY <1>1 DEF TypeOK
<1>4. \A p \in Page : PageKept(d, p)
  BY <1>3 DEF PageKept, DeleteUnclosed
<1>5. Flushes(d)
  BY <1>1, <1>2, <1>3, <1>4 DEF Flushes, OnlyAt, DeleteUnclosed, TypeOK
<1> QED
  BY <1>2, <1>5, FlushKeeps

-----------------------------------------------------------------------------
(* The calls that change something *)

LEMMA InitKeeps ==
  ASSUME Init
  PROVE  HandlesInv
<1>1. TypeOK
  BY DEF Init, TypeOK, NoFrames, Data
<1> QED
  BY <1>1 DEF Init, HandlesInv, FramesAreOfTheirFile, FreshInStep, AheadIsFresh, AheadIsAlone,
              NothingAheadMeansOnDisk, NoFrames

\* The next process finds every file as it was last written.
LEMMA ExitKeeps ==
  ASSUME HandlesInv, Exit
  PROVE  HandlesInv'
<1>1. TypeOK'
  BY DEF HandlesInv, Exit, TypeOK, NoFrames, diskVars
<1>2. latest' = disk' /\ latestHdr' = diskHdr' /\ fresh' = {}
      /\ (\A d \in Fds : handle'[d] = Closed /\ \A p \in Page : pool'[d][p] = NotCached)
  BY DEF Exit, diskVars, NoFrames
<1> QED
  BY <1>1, <1>2 DEF HandlesInv, FramesAreOfTheirFile, FreshInStep, AheadIsFresh, AheadIsAlone,
                    NothingAheadMeansOnDisk

\* A new handle is fresh when no descriptor on its file is ahead, and then what it
\* reads from the file is the latest.
LEMMA OpenFileKeeps ==
  ASSUME HandlesInv, NEW f \in Files, OpenFile(f)
  PROVE  HandlesInv'
<1>1. PICK d \in Fds :
        /\ handle[d] = Closed
        /\ handle' = [handle EXCEPT ![d] = [file |-> f, numPages |-> diskHdr[f],
                                            headerChanged |-> FALSE, inUse |-> TRUE]]
        /\ fresh' = IF \A e \in OnFile(f) : ~ Ahead(e) THEN fresh \union {d} ELSE fresh
  BY DEF OpenFile
<1>2. TypeOK /\ UNCHANGED <<disk, diskHdr, pool, latest, latestHdr, mixed>>
  BY DEF HandlesInv, OpenFile, diskVars
<1>3. /\ handle'[d] = [file |-> f, numPages |-> diskHdr[f],
                       headerChanged |-> FALSE, inUse |-> TRUE]
      /\ handle'[d] \in PF_FileHandle /\ handle'[d] # Closed
      /\ \A e \in Fds : e # d => handle'[e] = handle[e]
  <2>1. [file |-> f, numPages |-> diskHdr[f], headerChanged |-> FALSE, inUse |-> TRUE]
           \in PF_FileHandle
    BY <1>2 DEF TypeOK, PF_FileHandle
  <2> QED
    BY <1>1, <1>2, <2>1 DEF TypeOK
<1>4. \A p \in Page : pool[d][p] = NotCached
  BY <1>1 DEF HandlesInv, FramesAreOfTheirFile
<1>5. d \notin fresh /\ fresh \subseteq Fds
  BY <1>1, <1>2 DEF HandlesInv, FreshInStep, TypeOK
<1>6. TypeOK'
  BY <1>1, <1>2, <1>3 DEF TypeOK
<1>7. FramesAreOfTheirFile'
  BY <1>2, <1>3, <1>4 DEF HandlesInv, FramesAreOfTheirFile
<1>8. ~ Ahead(d)'
  BY <1>2, <1>3, <1>4 DEF Ahead, DirtyPages
<1>9. ASSUME NEW e \in Fds, e # d PROVE Ahead(e)' <=> Ahead(e)
  BY <1>2, <1>3, <1>9 DEF Ahead, DirtyPages
<1>10. FreshInStep'
  <2> SUFFICES ASSUME NEW e \in fresh'
               PROVE  handle'[e] # Closed /\ (handle'[e].file \notin mixed => InStep(e)')
    BY <1>2 DEF FreshInStep
  <2>1. CASE e # d
    <3>1. e \in fresh /\ e \in Fds /\ handle'[e] = handle[e]
      BY <1>1, <1>3, <1>5, <2>1
    <3>2. ASSUME InStep(e) PROVE InStep(e)'
      BY <1>2, <3>1, <3>2 DEF InStep, View, DirtyPages
    <3> QED
      BY <3>1, <3>2 DEF HandlesInv, FreshInStep
  <2>2. CASE e = d
    <3>1. \A a \in OnFile(f) : ~ Ahead(a)
      BY <1>1, <1>5, <2>2
    <3>2. ASSUME f \notin mixed PROVE InStep(d)'
      <4>1. /\ diskHdr[f] = latestHdr[f]
            /\ \A p \in Page : p < latestHdr[f] => disk[f][p] = latest[f][p]
        BY <3>1, <3>2 DEF HandlesInv, NothingAheadMeansOnDisk
      <4> QED
        BY <1>2, <1>3, <1>4, <4>1 DEF InStep, View
    <3> QED
      BY <1>3, <2>2, <3>2
  <2> QED
    BY <2>1, <2>2
<1>11. AheadIsFresh'
  <2> SUFFICES ASSUME NEW e \in Fds, handle'[e] # Closed, handle'[e].file \notin mixed, Ahead(e)'
               PROVE  e \in fresh'
    BY <1>2 DEF AheadIsFresh
  <2>1. e # d
    BY <1>8
  <2>2. Ahead(e) /\ handle'[e] = handle[e]
    BY <1>3, <1>9, <2>1
  <2> QED
    BY <1>1, <2>2 DEF HandlesInv, AheadIsFresh
<1>12. AheadIsAlone'
  <2> SUFFICES ASSUME NEW a \in fresh', NEW e \in fresh',
                      handle'[a].file = handle'[e].file, handle'[a].file \notin mixed, Ahead(a)'
               PROVE  a = e
    BY <1>2 DEF AheadIsAlone
  <2>1. a # d
    BY <1>8
  <2>2. a \in fresh /\ a \in Fds /\ handle'[a] = handle[a] /\ Ahead(a)
    BY <1>1, <1>3, <1>5, <1>9, <2>1
  <2>3. e # d
    <3>1. ASSUME e = d PROVE FALSE
      <4>1. \A b \in OnFile(f) : ~ Ahead(b)
        BY <1>1, <1>5, <3>1
      <4>2. a \in OnFile(f)
        BY <1>3, <2>2, <3>1 DEF OnFile, HandlesInv, FreshInStep
      <4> QED
        BY <2>2, <4>1, <4>2
    <3> QED
      BY <3>1
  <2>4. e \in fresh /\ handle'[e] = handle[e]
    BY <1>1, <1>3, <1>5, <2>3
  <2> QED
    BY <2>2, <2>4 DEF HandlesInv, AheadIsAlone
<1>13. NothingAheadMeansOnDisk'
  <2> SUFFICES ASSUME NEW g \in Files \ mixed, \A e \in OnFile(g)' : ~ Ahead(e)'
               PROVE  /\ diskHdr[g] = latestHdr[g]
                      /\ \A p \in Page : p < latestHdr[g] => disk[g][p] = latest[g][p]
    BY <1>2 DEF NothingAheadMeansOnDisk
  <2>1. \A e \in OnFile(g) : ~ Ahead(e)
    BY <1>1, <1>2, <1>3 DEF OnFile, Ahead, DirtyPages
  <2> QED
    BY <2>1 DEF HandlesInv, NothingAheadMeansOnDisk
<1> QED
  BY <1>6, <1>7, <1>10, <1>11, <1>12, <1>13 DEF HandlesInv

\* The count of d and of its file stays, and has p in it; or p is the next page.
CountKept(d, p) ==
  LET f == handle[d].file
  IN  \/ /\ handle' = handle /\ latestHdr' = latestHdr
         /\ p < handle[d].numPages
      \/ /\ handle' = [handle EXCEPT ![d].numPages = p + 1, ![d].headerChanged = TRUE]
         /\ latestHdr' = [latestHdr EXCEPT ![f] = p + 1]
         /\ p = handle[d].numPages

\* A change through a handle makes it the only fresh one of its file, or the file a
\* mixed one.
LEMMA ChangeKeeps ==
  ASSUME HandlesInv, NEW d \in Fds, handle[d] # Closed, NEW p \in Page, NEW v \in Values,
         Change(d, p, v), CountKept(d, p), UNCHANGED <<disk, diskHdr>>
  PROVE  HandlesInv'
<1> DEFINE f == handle[d].file
<1>1. TypeOK /\ handle[d] \in PF_FileHandle /\ f \in Files /\ p + 1 \in 0 .. MaxPages
      /\ handle[d].numPages \in 0 .. MaxPages /\ p \in Nat
  BY DEF HandlesInv, TypeOK, PF_FileHandle, Page
<1>2. /\ pool'[d] = [pool[d] EXCEPT ![p] = [file |-> f, data |-> v, dirty |-> TRUE]]
      /\ \A e \in Fds : e # d => pool'[e] = pool[e]
      /\ pool' \in [Fds -> [Page -> Frame \union {NotCached}]]
      /\ pool'[d][p] # NotCached /\ pool'[d][p].data = v /\ pool'[d][p].dirty
  <2>1. [file |-> f, data |-> v, dirty |-> TRUE] \in Frame
    BY <1>1 DEF Frame, Data
  <2> QED
    BY <1>1, <2>1 DEF Change, TypeOK
<1>3. /\ latest' \in [Files -> [Page -> Data]]
      /\ latest'[f] = [latest[f] EXCEPT ![p] = v]
      /\ \A g \in Files : g # f => latest'[g] = latest[g]
  BY <1>1 DEF Change, TypeOK, Data
<1>4. /\ handle'[d] \in PF_FileHandle /\ handle'[d].file = f
      /\ \A e \in Fds : e # d => handle'[e] = handle[e]
      /\ handle' \in [Fds -> PF_FileHandle \union {Closed}]
  <2>1. CASE handle' = handle
    BY <1>1, <2>1 DEF TypeOK
  <2>2. CASE handle' = [handle EXCEPT ![d].numPages = p + 1, ![d].headerChanged = TRUE]
    <3>1. handle'[d] = [handle[d] EXCEPT !.numPages = p + 1, !.headerChanged = TRUE]
      BY <1>1, <2>2 DEF TypeOK
    <3>2. handle'[d] \in PF_FileHandle /\ handle'[d].file = f
      BY <1>1, <3>1 DEF PF_FileHandle
    <3> QED
      BY <1>1, <2>2, <3>2 DEF TypeOK
  <2> QED
    BY <2>1, <2>2 DEF CountKept
<1>5. /\ latestHdr' \in [Files -> 0 .. MaxPages]
      /\ \A g \in Files : g # f => latestHdr'[g] = latestHdr[g]
  BY <1>1 DEF CountKept, TypeOK
<1>6. /\ mixed' = IF d \in fresh THEN mixed ELSE mixed \union {f}
      /\ fresh' = fresh \ (OnFile(f) \ {d})
      /\ mixed' \in SUBSET Files /\ fresh' \in SUBSET Fds
  BY <1>1 DEF Change, TypeOK
<1>7. TypeOK'
  BY <1>1, <1>2, <1>3, <1>4, <1>5, <1>6 DEF TypeOK
<1>8. FramesAreOfTheirFile'
  <2> SUFFICES ASSUME NEW e \in Fds, NEW q \in Page, pool'[e][q] # NotCached
               PROVE  handle'[e] # Closed /\ pool'[e][q].file = handle'[e].file
    BY DEF FramesAreOfTheirFile
  <2>1. CASE e # d
    BY <1>2, <1>4, <2>1 DEF HandlesInv, FramesAreOfTheirFile
  <2>2. CASE e = d
    <3>1. pool[d] \in [Page -> Frame \union {NotCached}]
      BY <1>1 DEF TypeOK
    <3>2. CASE q # p
      BY <1>2, <1>4, <2>2, <3>1, <3>2 DEF HandlesInv, FramesAreOfTheirFile
    <3>3. CASE q = p
      BY <1>2, <1>4, <2>2, <3>1, <3>3
    <3> QED
      BY <3>2, <3>3
  <2> QED
    BY <2>1, <2>2
<1>9. ASSUME f \notin mixed' PROVE d \in fresh /\ f \notin mixed
  BY <1>6, <1>9
<1>10. ASSUME NEW e \in Fds, e # d PROVE Ahead(e)' <=> Ahead(e)
  BY <1>2, <1>4, <1>10 DEF Ahead, DirtyPages
<1>11. \A e \in fresh : e \in Fds /\ handle[e] # Closed
  BY <1>1 DEF HandlesInv, FreshInStep, TypeOK
<1>12. \A e \in fresh' : e \in fresh /\ handle'[e] # Closed
                         /\ (e = d \/ (e # d /\ handle'[e] = handle[e] /\ handle[e].file # f))
  BY <1>1, <1>4, <1>6, <1>11 DEF OnFile
<1>13. FreshInStep'
  <2> SUFFICES ASSUME NEW e \in fresh', handle'[e].file \notin mixed'
               PROVE  InStep(e)'
    BY <1>12 DEF FreshInStep
  <2>1. CASE e # d
    <3>1. e \in fresh /\ e \in Fds /\ handle'[e] = handle[e] /\ handle[e].file # f
      BY <1>11, <1>12, <2>1
    <3>2. handle[e].file \in Files
      BY <1>1, <1>11, <3>1 DEF TypeOK, PF_FileHandle
    <3>3. InStep(e)
      BY <1>6, <3>1 DEF HandlesInv, FreshInStep
    <3> QED
      BY <1>2, <1>3, <1>5, <2>1, <3>1, <3>2, <3>3 DEF InStep, View, DirtyPages
  <2>2. CASE e = d
    <3>1. InStep(d)
      BY <1>4, <1>9, <2>2 DEF HandlesInv, FreshInStep
    <3>2. pool[d] \in [Page -> Frame \union {NotCached}] /\ latest[f] \in [Page -> Data]
      BY <1>1 DEF TypeOK
    <3>3. /\ handle'[d].numPages = latestHdr'[f]
          /\ handle'[d].headerChanged \/ diskHdr[f] = handle'[d].numPages
          /\ \A q \in Page : q < latestHdr'[f] /\ q # p => q < latestHdr[f]
      <4>1. CASE handle' = handle /\ latestHdr' = latestHdr
        BY <3>1, <4>1 DEF InStep
      <4>2. CASE /\ handle' = [handle EXCEPT ![d].numPages = p + 1, ![d].headerChanged = TRUE]
                 /\ latestHdr' = [latestHdr EXCEPT ![f] = p + 1]
                 /\ p = handle[d].numPages
        <5>1. handle'[d].numPages = p + 1 /\ handle'[d].headerChanged /\ latestHdr'[f] = p + 1
          BY <1>1, <4>2 DEF TypeOK, PF_FileHandle
        <5>2. latestHdr[f] = p
          BY <3>1, <4>2 DEF InStep
        <5> QED
          BY <1>1, <5>1, <5>2 DEF Page
      <4> QED
        BY <4>1, <4>2 DEF CountKept
    <3>4. ASSUME NEW q \in Page, q < latestHdr'[f]
          PROVE  View(d, q)' = latest'[f][q]
                 /\ (q \in DirtyPages(d)' \/ disk[f][q] = latest'[f][q])
      <4>1. CASE q = p
        BY <1>2, <1>3, <3>2, <4>1 DEF View, DirtyPages
      <4>2. CASE q # p
        <5>1. View(d, q) = latest[f][q] /\ (q \in DirtyPages(d) \/ disk[f][q] = latest[f][q])
          BY <3>1, <3>3, <3>4, <4>2 DEF InStep
        <5> QED
          BY <1>2, <1>3, <1>4, <3>2, <4>2, <5>1 DEF View, DirtyPages
      <4> QED
        BY <4>1, <4>2
    <3> QED
      BY <1>4, <2>2, <3>3, <3>4 DEF InStep
  <2> QED
    BY <2>1, <2>2
<1>14. AheadIsFresh'
  <2> SUFFICES ASSUME NEW e \in Fds, handle'[e] # Closed, handle'[e].file \notin mixed', Ahead(e)'
               PROVE  e \in fresh'
    BY DEF AheadIsFresh
  <2>1. CASE e = d
    BY <1>4, <1>6, <1>9, <2>1
  <2>2. CASE e # d
    <3>1. handle'[e] = handle[e] /\ Ahead(e) /\ handle[e].file \notin mixed /\ e \in fresh
      BY <1>4, <1>6, <1>10, <2>2 DEF HandlesInv, AheadIsFresh
    <3>2. handle[e].file # f
      BY <1>9, <2>2, <3>1 DEF HandlesInv, AheadIsAlone
    <3> QED
      BY <1>6, <3>1, <3>2 DEF OnFile
  <2> QED
    BY <2>1, <2>2
<1>15. AheadIsAlone'
  <2> SUFFICES ASSUME NEW a \in fresh', NEW e \in fresh',
                      handle'[a].file = handle'[e].file, handle'[a].file \notin mixed', Ahead(a)'
               PROVE  a = e
    BY DEF AheadIsAlone
  <2>1. CASE a = d \/ e = d
    BY <1>4, <1>12, <2>1
  <2>2. CASE a # d /\ e # d
    <3>1. /\ a \in fresh /\ e \in fresh /\ a \in Fds
          /\ handle'[a] = handle[a] /\ handle'[e] = handle[e]
      BY <1>11, <1>12, <2>2
    <3>2. Ahead(a)
      BY <1>10, <2>2, <3>1
    <3> QED
      BY <1>6, <3>1, <3>2 DEF HandlesInv, AheadIsAlone
  <2> QED
    BY <2>1, <2>2
<1>16. NothingAheadMeansOnDisk'
  <2> SUFFICES ASSUME NEW g \in Files \ mixed', \A e \in OnFile(g)' : ~ Ahead(e)'
               PROVE  /\ diskHdr[g] = latestHdr'[g]
                      /\ \A q \in Page : q < latestHdr'[g] => disk[g][q] = latest'[g][q]
    BY DEF NothingAheadMeansOnDisk
  <2>1. g # f
    <3>1. Ahead(d)'
      BY <1>2 DEF Ahead, DirtyPages
    <3> QED
      BY <1>4, <3>1 DEF OnFile
  <2>2. \A e \in OnFile(g) : ~ Ahead(e)
    BY <1>2, <1>4, <2>1 DEF OnFile, Ahead, DirtyPages
  <2> QED
    BY <1>3, <1>5, <1>6, <2>1, <2>2 DEF HandlesInv, NothingAheadMeansOnDisk
<1> QED
  BY <1>7, <1>8, <1>13, <1>14, <1>15, <1>16 DEF HandlesInv

LEMMA ModifyKeeps ==
  ASSUME HandlesInv, NEW d \in Fds, NEW p \in Page, NEW v \in Values, Modify(d, p, v)
  PROVE  HandlesInv'
<1>1. /\ handle[d] # Closed /\ Change(d, p, v) /\ CountKept(d, p)
      /\ UNCHANGED <<disk, diskHdr>>
  BY DEF Modify, Using, CountKept, diskVars
<1> QED
  BY <1>1, ChangeKeeps

LEMMA AllocatePageKeeps ==
  ASSUME HandlesInv, NEW d \in Fds, NEW v \in Values, AllocatePage(d, v)
  PROVE  HandlesInv'
<1> DEFINE n == handle[d].numPages
<1>1. /\ handle[d] # Closed /\ Change(d, n, v) /\ CountKept(d, n)
      /\ UNCHANGED <<disk, diskHdr>>
  BY DEF AllocatePage, Using, CountKept, diskVars
<1>2. n \in Page
  BY <1>1 DEF HandlesInv, TypeOK, PF_FileHandle, Page, AllocatePage
<1> QED
  BY <1>1, <1>2, ChangeKeeps

-----------------------------------------------------------------------------
(* Theorems *)

LEMMA NextKeeps ==
  ASSUME HandlesInv, [Next]_vars
  PROVE  HandlesInv'
<1>1. ASSUME NEW f \in Files, OpenFile(f) PROVE HandlesInv'
  BY <1>1, OpenFileKeeps
<1>2. ASSUME NEW d \in Fds, NEW p \in Page, GetThisPage(d, p) \/ ReplaceFrame(d, p)
      PROVE  HandlesInv'
  BY <1>2, GetThisPageKeeps, ReplaceFrameKeeps
<1>3. ASSUME NEW d \in Fds, NEW p \in Page, NEW v \in Values, Modify(d, p, v) PROVE HandlesInv'
  BY <1>3, ModifyKeeps
<1>4. ASSUME NEW d \in Fds, NEW v \in Values, AllocatePage(d, v) PROVE HandlesInv'
  BY <1>4, AllocatePageKeeps
<1>5. ASSUME NEW d \in Fds, ForcePages(d) \/ CloseFile(d) \/ CloseFileFails(d) \/ DeleteUnclosed(d)
      PROVE  HandlesInv'
  BY <1>5, ForcePagesKeeps, CloseFileKeeps, CloseFileFailsKeeps, DeleteUnclosedKeeps
<1>6. CASE Exit
  BY <1>6, ExitKeeps
<1>7. CASE UNCHANGED vars
  BY <1>7 DEF vars, diskVars, history, HandlesInv, TypeOK, FramesAreOfTheirFile, FreshInStep,
              InStep, AheadIsFresh, AheadIsAlone, NothingAheadMeansOnDisk, OnFile, Ahead,
              DirtyPages, View
<1> QED
  BY <1>1, <1>2, <1>3, <1>4, <1>5, <1>6, <1>7 DEF Next

\* Whatever files, descriptors, pages and contents there are, and however often opens,
\* changes, flushes and closes overlap, fail and begin again, the invariant holds.
THEOREM HandlesInvariant == Spec => []HandlesInv
<1>1. Init => HandlesInv
  BY InitKeeps
<1>2. HandlesInv /\ [Next]_vars => HandlesInv'
  BY NextKeeps
<1> QED
  BY <1>1, <1>2, PTL DEF Spec

\* Every variable has its type: no header counts more pages than the file may have, and
\* no page but what was given, a page not there, and the rest of a short write is read.
THEOREM HandleTypesCorrect == Spec => []TypeOK
<1>1. HandlesInv => TypeOK
  BY DEF HandlesInv
<1> QED
  BY <1>1, HandlesInvariant, PTL

\* A descriptor that open() gives again never shows the pages of the file it was for
\* before: CloseFile and ClearFilePages leave it no frame.
THEOREM DescriptorsAreReusedSafely == Spec => []FramesAreOfTheirFile
<1>1. HandlesInv => FramesAreOfTheirFile
  BY DEF HandlesInv
<1> QED
  BY <1>1, HandlesInvariant, PTL

\* A handle opened on a file that is up to date, and not overtaken through another,
\* reads what was last written, with the right count.
THEOREM FreshHandlesRead == Spec => []FreshHandlesReadTheLatest
<1>1. HandlesInv => FreshHandlesReadTheLatest
  BY DEF HandlesInv, FreshInStep, InStep, FreshHandlesReadTheLatest
<1> QED
  BY <1>1, HandlesInvariant, PTL

\* A file no descriptor is ahead of holds what was last written to it, so that closing
\* loses nothing, whatever writes failed before.
THEOREM ClosingLosesNothing == Spec => []NothingAheadMeansOnDisk
<1>1. HandlesInv => NothingAheadMeansOnDisk
  BY DEF HandlesInv
<1> QED
  BY <1>1, HandlesInvariant, PTL
=============================================================================
