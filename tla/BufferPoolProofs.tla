--------------------------- MODULE BufferPoolProofs ---------------------------
(***************************************************************************)
(* Proofs about BufferPool for every value of its constants.  PoolInv, the *)
(* refinement of PageStore and what PF_NOBUF means hold while read() does  *)
(* not fail (with read faults OneCopyOfEachPage and what rests on it fail, *)
(* see BufferPool_staleframe.cfg).  The last section needs no invariant    *)
(* about copies and holds with read faults as well.                        *)
(***************************************************************************)
EXTENDS BufferPool, FiniteSetTheorems, OrderLemmas, TLAPS

\* An empty frame has nothing to write and nobody in it.
EmptyFramesIdle ==
  \A f \in Frame : frames[f].key = NoKey => ~ frames[f].dirty /\ frames[f].pin = 0

\* A file whose flush still stands has no dirty page.
SyncedFilesClean ==
  \A f \in Frame : frames[f].key # NoKey /\ frames[f].dirty =>
     frames[f].key[1] \notin synced

\* The inductive invariant.
PoolInv ==
  /\ TypeOK
  /\ LruListsEveryFrame
  /\ TableSound
  /\ OneCopyOfEachPage
  /\ PinnedNotReplaced
  /\ PinsAreHolders
  /\ CleanFramesOnDisk
  /\ EmptyFramesIdle
  /\ SyncedFilesClean

USE SizesAssumption, NoKeyAssumption, NoPtrAssumption, FaultsAssumption,
    HandlesAssumption

-----------------------------------------------------------------------------

\* The pool of a new process satisfies the invariant.
LEMMA InitPoolInv == Init => PoolInv
<1> SUFFICES ASSUME Init PROVE PoolInv
  OBVIOUS
<1>1. TypeOK
  BY DEF Init, TypeOK, Frame, NoFrame, EmptyFrame, FrameRecord, Data, RCs
<1>2. LruListsEveryFrame
  BY DEF Init, LruListsEveryFrame, Frame
<1>3. TableSound /\ OneCopyOfEachPage /\ PinnedNotReplaced
  BY DEF Init, TableSound, OneCopyOfEachPage, PinnedNotReplaced, EmptyFrame
<1>4. PinsAreHolders
  <2>1. \A f \in Frame : Holders(f) = {}
    BY DEF Init, Holders
  <2> QED
    BY <2>1, FS_EmptySet DEF Init, PinsAreHolders, EmptyFrame
<1>5. CleanFramesOnDisk /\ EmptyFramesIdle /\ SyncedFilesClean
  BY DEF Init, CleanFramesOnDisk, EmptyFramesIdle, SyncedFilesClean, EmptyFrame
<1> QED
  BY <1>1, <1>2, <1>3, <1>4, <1>5 DEF PoolInv

-----------------------------------------------------------------------------
(* What the helpers return *)

\* Moving a frame to the back of the list keeps every frame listed.
LEMMA MoveToBackLists ==
  ASSUME TypeOK, LruListsEveryFrame, NEW f \in Frame
  PROVE  /\ MoveToBack(f) \in [1 .. poolSize -> Frame]
         /\ \A g \in Frame : \E i \in 1 .. poolSize : MoveToBack(f)[i] = g
<1>1. poolSize \in Nat \ {0} /\ lruList \in [1 .. poolSize -> Frame]
  BY DEF TypeOK
<1>2. Len(lruList) = poolSize /\ DOMAIN lruList = 1 .. poolSize
  BY <1>1
<1> DEFINE p == IndexOf(f)
<1>3. p \in 1 .. poolSize /\ lruList[p] = f
  BY <1>1, <1>2 DEF LruListsEveryFrame, IndexOf
<1> HIDE DEF p
<1>4. MoveToBack(f) = [i \in 1 .. poolSize |->
                        IF i = poolSize THEN f
                        ELSE IF i < p THEN lruList[i] ELSE lruList[i + 1]]
  BY <1>2 DEF MoveToBack, p
<1>5. MoveToBack(f) \in [1 .. poolSize -> Frame]
  BY <1>1, <1>4
<1>6. ASSUME NEW g \in Frame
      PROVE  \E i \in 1 .. poolSize : MoveToBack(f)[i] = g
  <2>1. PICK j \in 1 .. poolSize : lruList[j] = g
    BY <1>2 DEF LruListsEveryFrame
  <2>2. CASE g = f
    BY <1>1, <1>4, <2>2
  <2>3. CASE g # f /\ j < p
    BY <1>1, <1>3, <1>4, <2>1, <2>3
  <2>4. CASE g # f /\ j > p
    <3>1. j - 1 \in 1 .. poolSize /\ j - 1 # poolSize /\ ~ (j - 1 < p)
      BY <1>1, <1>3, <2>4
    <3>2. MoveToBack(f)[j - 1] = lruList[(j - 1) + 1]
      BY <1>4, <3>1
    <3> QED
      BY <2>1, <3>1, <3>2
  <2> QED
    BY <1>1, <1>3, <2>1, <2>2, <2>3, <2>4
<1> QED
  BY <1>5, <1>6

\* While a page has one copy, writing a set of frames gives each of their
\* pages what that frame's write leaves, and changes no other page.
LEMMA WriteEffect ==
  ASSUME TypeOK, OneCopyOfEachPage,
         NEW S \in SUBSET Frame, \A f \in S : frames[f].key # NoKey,
         NEW outcome
  PROVE  /\ WriteFrameToDisk(S, outcome) \in [Key -> Data]
         /\ \A k \in Key : (\A f \in S : frames[f].key # k) =>
               WriteFrameToDisk(S, outcome)[k] = disk[k]
         /\ \A f \in S : WriteFrameToDisk(S, outcome)[frames[f].key] =
               IF outcome[f] = "refused" THEN disk[frames[f].key]
               ELSE IF outcome[f] = "torn" THEN Torn ELSE frames[f].data
<1> DEFINE W(k) == {f \in S : frames[f].key = k /\ outcome[f] # "refused"}
           D(k) == IF W(k) = {} THEN disk[k]
                   ELSE IF outcome[LastOf(W(k))] = "torn" THEN Torn
                        ELSE frames[LastOf(W(k))].data
<1>1. WriteFrameToDisk(S, outcome) = [k \in Key |-> D(k)]
  BY DEF WriteFrameToDisk
<1>2. ASSUME NEW k \in Key, NEW f \in W(k)
      PROVE  W(k) = {f} /\ LastOf(W(k)) = f
  <2>1. \A g \in W(k) : g = f
    BY DEF OneCopyOfEachPage
  <2>2. W(k) = {f}
    BY <1>2, <2>1
  <2>3. \A g \in {f} : g <= f
    BY DEF Frame, TypeOK
  <2>4. LastOf({f}) = f
    BY <2>3 DEF LastOf
  <2> QED
    BY <2>2, <2>4
<1>3. ASSUME NEW k \in Key PROVE D(k) \in Data
  <2>1. CASE W(k) = {}
    BY <2>1 DEF TypeOK
  <2>2. CASE W(k) # {}
    <3>1. PICK f \in W(k) : TRUE
      BY <2>2
    <3>2. LastOf(W(k)) = f /\ f \in Frame
      BY <1>2, <3>1
    <3>3. frames[f].data \in Data
      BY <3>2 DEF TypeOK, FrameRecord
    <3> HIDE DEF W
    <3> QED
      BY <2>2, <3>2, <3>3 DEF Data
  <2> QED
    BY <2>1, <2>2
<1>4. ASSUME NEW k \in Key, \A f \in S : frames[f].key # k
      PROVE  D(k) = disk[k]
  BY <1>4
<1>5. ASSUME NEW f \in S
      PROVE  D(frames[f].key) = IF outcome[f] = "refused" THEN disk[frames[f].key]
                                ELSE IF outcome[f] = "torn" THEN Torn
                                ELSE frames[f].data
  <2>1. frames[f].key \in Key
    BY DEF TypeOK, FrameRecord
  <2>2. CASE outcome[f] = "refused"
    <3>1. \A g \in S : frames[g].key = frames[f].key => g = f
      BY <2>1 DEF OneCopyOfEachPage
    <3>2. W(frames[f].key) = {}
      BY <2>2, <3>1
    <3> HIDE DEF W
    <3> QED
      BY <2>2, <3>2
  <2>3. CASE outcome[f] # "refused"
    <3>1. f \in W(frames[f].key)
      BY <2>3
    <3>2. LastOf(W(frames[f].key)) = f /\ W(frames[f].key) # {}
      BY <1>2, <2>1, <3>1
    <3> HIDE DEF W
    <3> QED
      BY <2>3, <3>2
  <2> QED
    BY <2>2, <2>3
<1>6. \A f \in S : frames[f].key \in Key
  BY DEF TypeOK, FrameRecord
<1> HIDE DEF D
<1> QED
  BY <1>1, <1>3, <1>4, <1>5, <1>6

\* A frame's holders are finitely many.
LEMMA HoldersFinite ==
  ASSUME NEW f PROVE IsFiniteSet(Holders(f)) /\ Cardinality(Holders(f)) \in Nat
<1>1. Holders(f) \subseteq Handles
  BY DEF Holders
<1> QED
  BY <1>1, FS_Subset, FS_CardinalityType

\* A handle that takes a page adds itself to the holders of one frame.
LEMMA HoldersGained ==
  ASSUME TypeOK, NEW h \in Handles, NEW k \in Key, NEW f \in Frame,
         ptr[h] = NoPtr,
         ptr' = [ptr EXCEPT ![h] = [key |-> k, frame |-> f]],
         NEW g \in Frame
  PROVE  Cardinality(Holders(g)') =
           IF g = f THEN Cardinality(Holders(g)) + 1 ELSE Cardinality(Holders(g))
<1>1. [key |-> k, frame |-> f] # NoPtr
  BY DEF Frame, TypeOK
<1>2. CASE g = f
  <2>1. Holders(g)' = Holders(g) \union {h} /\ h \notin Holders(g)
    BY <1>1, <1>2 DEF Holders, TypeOK
  <2> QED
    BY <1>2, <2>1, HoldersFinite, FS_AddElement
<1>3. CASE g # f
  <2>1. Holders(g)' = Holders(g)
    BY <1>1, <1>3 DEF Holders, TypeOK
  <2> QED
    BY <1>3, <2>1
<1> QED
  BY <1>2, <1>3

\* A handle that gives its page back leaves the holders of the frame it was in.
LEMMA HoldersLost ==
  ASSUME TypeOK, NEW h \in Handles,
         ptr[h] # NoPtr,
         ptr' = [ptr EXCEPT ![h] = NoPtr],
         NEW g \in Frame
  PROVE  Cardinality(Holders(g)') =
           IF g = ptr[h].frame THEN Cardinality(Holders(g)) - 1
                               ELSE Cardinality(Holders(g))
<1>1. CASE g = ptr[h].frame
  <2>1. Holders(g)' = Holders(g) \ {h} /\ h \in Holders(g)
    BY <1>1 DEF Holders, TypeOK
  <2> QED
    BY <1>1, <2>1, HoldersFinite, FS_RemoveElement
<1>2. CASE g # ptr[h].frame
  <2>1. Holders(g)' = Holders(g)
    BY <1>2 DEF Holders, TypeOK
  <2> QED
    BY <1>2, <2>1
<1> QED
  BY <1>1, <1>2

\* A frame somebody holds is pinned.
LEMMA HeldIsPinned ==
  ASSUME TypeOK, PinsAreHolders, NEW h \in Handles, ptr[h] # NoPtr
  PROVE  ptr[h].frame \in Frame /\ frames[ptr[h].frame].pin > 0
<1>1. ptr[h].frame \in Frame /\ h \in Holders(ptr[h].frame)
  BY DEF TypeOK, Holders
<1>2. Cardinality(Holders(ptr[h].frame)) # 0
  BY <1>1, HoldersFinite, FS_EmptySet
<1> QED
  BY <1>1, <1>2, HoldersFinite DEF PinsAreHolders

-----------------------------------------------------------------------------
(* Each call preserves the invariant *)

\* What a change of one pin count leaves alone.
LEMMA PinChange ==
  ASSUME TypeOK, NEW f \in Frame, NEW n \in Nat,
         frames' = WithPin(f, n)
  PROVE  /\ frames' \in [Frame -> FrameRecord]
         /\ \A g \in Frame : /\ frames'[g].key = frames[g].key
                              /\ frames'[g].dirty = frames[g].dirty
                              /\ frames'[g].data = frames[g].data
                              /\ frames'[g].pin = IF g = f THEN n
                                                 ELSE frames[g].pin
<1>1. frames' = [g \in Frame |-> IF g = f THEN [frames[f] EXCEPT !.pin = n]
                                 ELSE frames[g]]
  BY DEF TypeOK, WithPin
<1>2. frames[f] \in FrameRecord
  BY DEF TypeOK
<1>3. [frames[f] EXCEPT !.pin = n] =
        [key |-> frames[f].key, dirty |-> frames[f].dirty,
         pin |-> n, data |-> frames[f].data]
  BY <1>2 DEF FrameRecord
<1>4. frames' \in [Frame -> FrameRecord]
  BY <1>1, <1>2, <1>3 DEF TypeOK, FrameRecord
<1> QED
  BY <1>1, <1>3, <1>4

\* One more pin on the frame f of page k, by a handle that was free: what a
\* hit and PinPage do.
HoldStep(h, k, f) ==
  /\ pageTable[k] = f
  /\ ptr[h] = NoPtr
  /\ ptr' = [ptr EXCEPT ![h] = [key |-> k, frame |-> f]]
  /\ frames' = WithPin(f, frames[f].pin + 1)
  /\ lruList' \in [1 .. poolSize -> Frame]
  /\ \A g \in Frame : \E i \in 1 .. poolSize : lruList'[i] = g
  /\ UNCHANGED <<poolSize, pageTable, disk, synced>>
  /\ rc' \in RCs

\* A call that hands a page to a handle keeps the invariant, whatever it does to
\* the replacement order.
LEMMA HoldKeeps ==
  ASSUME PoolInv, NEW h \in Handles, NEW k \in Key, NEW f \in Frame,
         HoldStep(h, k, f)
  PROVE  PoolInv'
<1> USE DEF PoolInv
<1>0. /\ UNCHANGED <<poolSize, pageTable, disk, synced>>
      /\ ptr' = [ptr EXCEPT ![h] = [key |-> k, frame |-> f]]
  BY DEF HoldStep
<1>1. Frame' = Frame
  BY <1>0 DEF Frame
<1>2. frames[f].key = k
  <2>1. f # NoFrame
    BY DEF Frame, NoFrame, TypeOK
  <2> QED
    BY <2>1 DEF TableSound, HoldStep
<1>3. frames[f].pin + 1 \in Nat
  BY DEF TypeOK, FrameRecord
<1>4. /\ frames' \in [Frame -> FrameRecord]
      /\ \A g \in Frame : /\ frames'[g].key = frames[g].key
                           /\ frames'[g].dirty = frames[g].dirty
                           /\ frames'[g].data = frames[g].data
                           /\ frames'[g].pin = IF g = f THEN frames[f].pin + 1
                                              ELSE frames[g].pin
  BY <1>3, PinChange DEF HoldStep
<1>5. TypeOK'
  BY <1>1, <1>4 DEF TypeOK, HoldStep
<1>6. LruListsEveryFrame'
  BY <1>1 DEF LruListsEveryFrame, HoldStep
<1>7. TableSound' /\ OneCopyOfEachPage'
  BY <1>0, <1>1, <1>4 DEF TableSound, OneCopyOfEachPage, TypeOK
<1>8. PinnedNotReplaced'
  BY <1>0, <1>1, <1>2, <1>4 DEF PinnedNotReplaced, TypeOK
<1>9. PinsAreHolders'
  <2>1. \A g \in Frame : Cardinality(Holders(g)') =
          IF g = f THEN Cardinality(Holders(g)) + 1 ELSE Cardinality(Holders(g))
    BY HoldersGained DEF HoldStep
  <2> QED
    BY <1>1, <1>4, <2>1 DEF PinsAreHolders
<1>10. CleanFramesOnDisk' /\ SyncedFilesClean'
  BY <1>0, <1>1, <1>4 DEF CleanFramesOnDisk, SyncedFilesClean
<1>11. EmptyFramesIdle'
  <2>1. f \in Frame /\ frames[f].key # NoKey
    BY <1>2
  <2> QED
    BY <1>1, <1>4, <2>1 DEF EmptyFramesIdle
<1> QED
  BY <1>5, <1>6, <1>7, <1>8, <1>9, <1>10, <1>11

\* The table leads to a frame of the pool.
LEMMA TableFrame ==
  ASSUME PoolInv, NEW k \in Key, pageTable[k] # NoFrame
  PROVE  pageTable[k] \in Frame /\ frames[pageTable[k]].key = k
BY DEF PoolInv, TypeOK, TableSound

\* A call that changes the file system at most, and there only pages whose
\* frame is dirty or that have none.
LEMMA OnlyDiskChanges ==
  ASSUME PoolInv,
         UNCHANGED <<poolSize, frames, lruList, pageTable, ptr, synced>>,
         rc' \in RCs,
         disk' \in [Key -> Data],
         \A f \in Frame : frames[f].key # NoKey /\ ~ frames[f].dirty =>
            disk'[frames[f].key] = disk[frames[f].key]
  PROVE  PoolInv'
<1>1. Frame' = Frame
  BY DEF Frame
<1>2. \A f \in Frame : Holders(f)' = Holders(f)
  BY DEF Holders
<1>3. TypeOK' /\ LruListsEveryFrame' /\ TableSound' /\ OneCopyOfEachPage'
  BY <1>1 DEF PoolInv, TypeOK, LruListsEveryFrame, TableSound, OneCopyOfEachPage
<1>4. PinnedNotReplaced' /\ PinsAreHolders'
  BY <1>1, <1>2 DEF PoolInv, PinnedNotReplaced, PinsAreHolders
<1>5. CleanFramesOnDisk' /\ EmptyFramesIdle' /\ SyncedFilesClean'
  BY <1>1 DEF PoolInv, CleanFramesOnDisk, EmptyFramesIdle, SyncedFilesClean
<1> QED
  BY <1>3, <1>4, <1>5 DEF PoolInv

\* A fetch that hits keeps the invariant.
LEMMA FetchHitKeeps ==
  ASSUME PoolInv, NEW h \in Handles, NEW k \in Key, FetchHit(h, k)
  PROVE  PoolInv'
<1>1. pageTable[k] \in Frame
  BY TableFrame DEF FetchHit
<1>2. /\ lruList' \in [1 .. poolSize -> Frame]
      /\ \A g \in Frame : \E i \in 1 .. poolSize : lruList'[i] = g
  BY <1>1, MoveToBackLists DEF FetchHit, PoolInv
<1>3. /\ ptr[h] = NoPtr
      /\ ptr' = [ptr EXCEPT ![h] = [key |-> k, frame |-> pageTable[k]]]
      /\ frames' = WithPin(pageTable[k], frames[pageTable[k]].pin + 1)
      /\ UNCHANGED <<poolSize, pageTable, disk, synced>>
      /\ rc' \in RCs
  BY DEF FetchHit, RCs
<1> QED
  BY <1>1, <1>2, <1>3, HoldKeeps DEF HoldStep

\* A fetch refused for want of a frame keeps it.
LEMMA FetchNoBufKeeps ==
  ASSUME PoolInv, NEW h \in Handles, NEW k \in Key, FetchNoBuf(h, k)
  PROVE  PoolInv'
BY OnlyDiskChanges DEF FetchNoBuf, PoolInv, TypeOK, RCs

\* PinPage keeps it, found or not.
LEMMA PinPageKeeps ==
  ASSUME PoolInv, NEW h \in Handles, NEW k \in Key, PinPage(h, k)
  PROVE  PoolInv'
<1>1. CASE pageTable[k] = NoFrame
  BY <1>1, OnlyDiskChanges DEF PinPage, PoolInv, TypeOK, RCs
<1>2. CASE pageTable[k] # NoFrame
  <2>1. pageTable[k] \in Frame
    BY <1>2, TableFrame
  <2>2. /\ lruList' \in [1 .. poolSize -> Frame]
        /\ \A g \in Frame : \E i \in 1 .. poolSize : lruList'[i] = g
    BY DEF PinPage, PoolInv, TypeOK, LruListsEveryFrame
  <2>3. /\ ptr[h] = NoPtr
        /\ ptr' = [ptr EXCEPT ![h] = [key |-> k, frame |-> pageTable[k]]]
        /\ frames' = WithPin(pageTable[k], frames[pageTable[k]].pin + 1)
        /\ UNCHANGED <<poolSize, pageTable, disk, synced>>
        /\ rc' \in RCs
    BY <1>2 DEF PinPage, RCs
  <2> QED
    BY <2>1, <2>2, <2>3, HoldKeeps DEF HoldStep
<1> QED
  BY <1>1, <1>2

\* A caller that gives its page back finds it through the table, in the frame
\* its pointer led to.
LEMMA HeldPage ==
  ASSUME PoolInv, NEW h \in Handles, ptr[h] # NoPtr
  PROVE  /\ ptr[h].key \in Key
         /\ ptr[h].frame \in Frame
         /\ ptr[h].frame # NoFrame
         /\ pageTable[ptr[h].key] = ptr[h].frame
         /\ frames[ptr[h].frame].key = ptr[h].key
         /\ frames[ptr[h].frame].pin > 0
<1>1. ptr[h].key \in Key /\ ptr[h].frame \in Frame
  BY DEF PoolInv, TypeOK
<1>2. ptr[h].frame # NoFrame
  BY <1>1 DEF Frame, NoFrame, PoolInv, TypeOK
<1>3. frames[ptr[h].frame].key = ptr[h].key
  BY DEF PoolInv, PinnedNotReplaced
<1>4. pageTable[ptr[h].key] = ptr[h].frame
  BY <1>1, <1>3 DEF PoolInv, OneCopyOfEachPage
<1> QED
  BY <1>1, <1>2, <1>3, <1>4, HeldIsPinned DEF PoolInv

\* A caller that gives a page back is told OK, and the invariant is kept.
LEMMA UnpinPageKeeps ==
  ASSUME PoolInv, NEW h \in Handles, UnpinPage(h)
  PROVE  PoolInv' /\ rc' = "OK"
<1> DEFINE f == ptr[h].frame
<1>1. /\ f \in Frame
      /\ pageTable[ptr[h].key] = f
      /\ f # NoFrame
      /\ frames[f].pin > 0
  BY HeldPage DEF UnpinPage
<1>2. /\ ptr[h] # NoPtr
      /\ ptr' = [ptr EXCEPT ![h] = NoPtr]
      /\ UNCHANGED <<poolSize, lruList, pageTable, disk, synced>>
  BY DEF UnpinPage
<1>3. frames[f].pin \in Nat
  BY <1>1 DEF PoolInv, TypeOK, FrameRecord
<1>4. frames' = WithPin(f, frames[f].pin - 1) /\ rc' = "OK"
  BY <1>1, <1>3 DEF UnpinPage, Unpin
<1> HIDE DEF f
<1>5. /\ frames' \in [Frame -> FrameRecord]
      /\ \A g \in Frame : /\ frames'[g].key = frames[g].key
                           /\ frames'[g].dirty = frames[g].dirty
                           /\ frames'[g].data = frames[g].data
                           /\ frames'[g].pin = IF g = f THEN frames[f].pin - 1
                                              ELSE frames[g].pin
  <2>1. frames[f].pin - 1 \in Nat
    BY <1>1, <1>3
  <2> QED
    BY <1>1, <1>4, <2>1, PinChange DEF PoolInv
<1>6. Frame' = Frame
  BY <1>2 DEF Frame
<1>7. TypeOK' /\ LruListsEveryFrame'
  BY <1>2, <1>4, <1>5, <1>6 DEF PoolInv, TypeOK, LruListsEveryFrame, RCs
<1>8. TableSound' /\ OneCopyOfEachPage'
  BY <1>2, <1>5, <1>6 DEF PoolInv, TableSound, OneCopyOfEachPage, TypeOK
<1>9. PinnedNotReplaced'
  BY <1>2, <1>5, <1>6 DEF PoolInv, PinnedNotReplaced, TypeOK
<1>10. PinsAreHolders'
  <2>1. \A g \in Frame : Cardinality(Holders(g)') =
          IF g = f THEN Cardinality(Holders(g)) - 1 ELSE Cardinality(Holders(g))
    BY <1>2, HoldersLost DEF PoolInv, f
  <2> QED
    BY <1>5, <1>6, <2>1 DEF PoolInv, PinsAreHolders
<1>11. CleanFramesOnDisk' /\ SyncedFilesClean'
  BY <1>2, <1>5, <1>6 DEF PoolInv, CleanFramesOnDisk, SyncedFilesClean
<1>12. EmptyFramesIdle'
  <2>1. frames[f].key # NoKey
    BY <1>1 DEF PoolInv, EmptyFramesIdle
  <2> QED
    BY <1>1, <1>5, <1>6, <2>1 DEF PoolInv, EmptyFramesIdle
<1> QED
  BY <1>4, <1>7, <1>8, <1>9, <1>10, <1>11, <1>12 DEF PoolInv

\* Giving back a page nobody holds is refused and changes nothing.
LEMMA UnpinUnheldKeeps ==
  ASSUME PoolInv, NEW k \in Key, UnpinUnheld(k)
  PROVE  PoolInv'
<1>1. UNCHANGED <<poolSize, lruList, pageTable, disk, ptr, synced>>
  BY DEF UnpinUnheld
<1>2. UNCHANGED frames /\ rc' \in RCs
  <2>1. CASE pageTable[k] = NoFrame
    BY <2>1 DEF UnpinUnheld, Unpin, RCs
  <2>2. CASE pageTable[k] # NoFrame
    <3> DEFINE f == pageTable[k]
    <3>1. f \in Frame /\ frames[f].key = k
      BY <2>2, TableFrame
    <3>2. Holders(f) = {}
      BY <3>1 DEF UnpinUnheld, Holders, PoolInv, PinnedNotReplaced
    <3>3. frames[f].pin = 0
      BY <3>1, <3>2, FS_EmptySet DEF PoolInv, PinsAreHolders
    <3> QED
      BY <2>2, <3>3 DEF UnpinUnheld, Unpin, RCs
  <2> QED
    BY <2>1, <2>2
<1> QED
  BY <1>1, <1>2, OnlyDiskChanges DEF PoolInv, TypeOK

\* Setting the dirty flag leaves the rest of a frame alone.
LEMMA SetDirtyFields ==
  ASSUME NEW r \in FrameRecord, NEW b \in BOOLEAN
  PROVE  /\ SetDirty(r, b) \in FrameRecord
         /\ SetDirty(r, b).dirty = b
         /\ SetDirty(r, b).key = r.key
         /\ SetDirty(r, b).pin = r.pin
         /\ SetDirty(r, b).data = r.data
<1>1. SetDirty(r, b) = [key |-> r.key, dirty |-> b, pin |-> r.pin, data |-> r.data]
  BY DEF SetDirty, FrameRecord
<1> QED
  BY <1>1 DEF FrameRecord

\* A caller writes into the frame it holds, which MarkDirty then finds.
LEMMA MarkDirtyEffect ==
  ASSUME PoolInv, NEW h \in Handles, NEW v \in Values, MarkDirty(h, v)
  PROVE  /\ frames' \in [Frame -> FrameRecord]
         /\ \A g \in Frame :
              /\ frames'[g].key = frames[g].key
              /\ frames'[g].pin = frames[g].pin
              /\ frames'[g].dirty = (frames[g].dirty \/ g = ptr[h].frame)
              /\ frames'[g].data = IF g = ptr[h].frame THEN v ELSE frames[g].data
         /\ rc' = "OK"
<1> DEFINE f == ptr[h].frame
<1>1. f \in Frame /\ pageTable[ptr[h].key] = f /\ f # NoFrame
  BY HeldPage DEF MarkDirty
<1>2. frames' = [WithData(f, v) EXCEPT ![f] = SetDirty(@, TRUE)] /\ rc' = "OK"
  BY <1>1 DEF MarkDirty
<1>3. frames \in [Frame -> FrameRecord]
  BY DEF PoolInv, TypeOK
<1> HIDE DEF f
<1>4. WithData(f, v) = [g \in Frame |-> IF g = f THEN [frames[f] EXCEPT !.data = v]
                                        ELSE frames[g]]
  BY <1>3 DEF WithData
<1> DEFINE r == [key |-> frames[f].key, dirty |-> frames[f].dirty,
                 pin |-> frames[f].pin, data |-> v]
<1>5. WithData(f, v)[f] = r /\ r \in FrameRecord
  BY <1>1, <1>3, <1>4 DEF FrameRecord, Data
<1>6. /\ SetDirty(r, TRUE) \in FrameRecord
      /\ SetDirty(r, TRUE).dirty = TRUE
      /\ SetDirty(r, TRUE).key = frames[f].key
      /\ SetDirty(r, TRUE).pin = frames[f].pin
      /\ SetDirty(r, TRUE).data = v
  BY <1>5, SetDirtyFields
<1> HIDE DEF r
<1>7. frames' = [g \in Frame |-> IF g = f THEN SetDirty(r, TRUE) ELSE frames[g]]
  BY <1>1, <1>2, <1>4, <1>5
<1>8. frames' \in [Frame -> FrameRecord]
  BY <1>3, <1>6, <1>7
<1>9. ASSUME NEW g \in Frame
      PROVE  /\ frames'[g].key = frames[g].key
             /\ frames'[g].pin = frames[g].pin
             /\ frames'[g].dirty = (frames[g].dirty \/ g = f)
             /\ frames'[g].data = IF g = f THEN v ELSE frames[g].data
  <2>1. CASE g = f
    BY <1>6, <1>7, <2>1
  <2>2. CASE g # f
    <3>1. frames'[g] = frames[g]
      BY <1>7, <2>2
    <3> QED
      BY <2>2, <3>1, <1>3 DEF FrameRecord
  <2> QED
    BY <2>1, <2>2
<1> QED
  BY <1>2, <1>8, <1>9 DEF f

\* A write through a held pointer, marked dirty, keeps the invariant.
LEMMA MarkDirtyKeeps ==
  ASSUME PoolInv, NEW h \in Handles, NEW v \in Values, MarkDirty(h, v)
  PROVE  PoolInv'
<1> DEFINE f == ptr[h].frame
<1>1. /\ f \in Frame
      /\ frames[f].key = ptr[h].key
      /\ frames[f].key \in Key
  BY HeldPage DEF MarkDirty
<1>2. /\ UNCHANGED <<poolSize, lruList, pageTable, disk, ptr>>
      /\ synced' = synced \ {frames[f].key[1]}
  BY <1>1 DEF MarkDirty
<1>3. /\ frames' \in [Frame -> FrameRecord]
      /\ \A g \in Frame :
           /\ frames'[g].key = frames[g].key
           /\ frames'[g].pin = frames[g].pin
           /\ frames'[g].dirty = (frames[g].dirty \/ g = f)
           /\ frames'[g].data = IF g = f THEN v ELSE frames[g].data
      /\ rc' = "OK"
  BY MarkDirtyEffect
<1> HIDE DEF f
<1>4. Frame' = Frame /\ \A g \in Frame : Holders(g)' = Holders(g)
  BY <1>2 DEF Frame, Holders
<1>5. TypeOK' /\ LruListsEveryFrame'
  BY <1>2, <1>3, <1>4 DEF PoolInv, TypeOK, LruListsEveryFrame, RCs
<1>6. TableSound' /\ OneCopyOfEachPage'
  BY <1>2, <1>3, <1>4 DEF PoolInv, TableSound, OneCopyOfEachPage, TypeOK
<1>7. PinnedNotReplaced' /\ PinsAreHolders'
  BY <1>2, <1>3, <1>4 DEF PoolInv, PinnedNotReplaced, PinsAreHolders, TypeOK
<1>8. CleanFramesOnDisk'
  BY <1>2, <1>3, <1>4 DEF PoolInv, CleanFramesOnDisk
<1>9. EmptyFramesIdle'
  <2>1. frames[f].key # NoKey
    BY <1>1
  <2> QED
    BY <1>3, <1>4, <2>1 DEF PoolInv, EmptyFramesIdle
<1>10. SyncedFilesClean'
  BY <1>2, <1>3, <1>4 DEF PoolInv, SyncedFilesClean
<1> QED
  BY <1>5, <1>6, <1>7, <1>8, <1>9, <1>10 DEF PoolInv

-----------------------------------------------------------------------------
(* Eviction *)

\* The victim of a miss is in nobody's hands; its page reaches the file as the
\* outcome of the write says, and no other page is written.
LEMMA VictimEffect ==
  ASSUME PoolInv, NEW h \in Handles, NEW k \in Key, NEW f \in Frame,
         NEW outcome, VictimWritten(h, k, f, outcome)
  PROVE  /\ disk' \in [Key -> Data]
         /\ \A l \in Key : l # frames[f].key => disk'[l] = disk[l]
         /\ frames[f].key # NoKey =>
              disk'[frames[f].key] =
                IF ~ frames[f].dirty \/ outcome = "refused" THEN disk[frames[f].key]
                ELSE IF outcome = "torn" THEN Torn ELSE frames[f].data
         /\ \A g \in Handles : ptr[g] # NoPtr => ptr[g].frame # f
         /\ frames[f].pin = 0
         /\ k # frames[f].key
<1> DEFINE S == {g \in {f} : frames[g].dirty}
           o == [g \in {f} |-> outcome]
<1>1. disk' = WriteFrameToDisk(S, o)
  BY DEF VictimWritten
<1>2. S \in SUBSET Frame /\ \A g \in S : frames[g].key # NoKey
  BY DEF PoolInv, EmptyFramesIdle
<1>3. TypeOK /\ OneCopyOfEachPage
  BY DEF PoolInv
<1>4. frames[f].key \in Key \union {NoKey}
  BY <1>3 DEF TypeOK, FrameRecord
<1>5. o[f] = outcome
  OBVIOUS
<1>6. \A g \in S : g = f
  OBVIOUS
<1>7. f \in S <=> frames[f].dirty
  OBVIOUS
<1> HIDE DEF S, o
<1>8. /\ disk' \in [Key -> Data]
      /\ \A l \in Key : (\A g \in S : frames[g].key # l) => disk'[l] = disk[l]
      /\ \A g \in S : disk'[frames[g].key] =
           IF o[g] = "refused" THEN disk[frames[g].key]
           ELSE IF o[g] = "torn" THEN Torn ELSE frames[g].data
  <2> HIDE DEF PoolInv, VictimWritten
  <2>1. /\ WriteFrameToDisk(S, o) \in [Key -> Data]
        /\ \A l \in Key : (\A g \in S : frames[g].key # l) =>
              WriteFrameToDisk(S, o)[l] = disk[l]
        /\ \A g \in S : WriteFrameToDisk(S, o)[frames[g].key] =
             IF o[g] = "refused" THEN disk[frames[g].key]
             ELSE IF o[g] = "torn" THEN Torn ELSE frames[g].data
    BY <1>2, <1>3, WriteEffect, Zenon
  <2> QED
    BY <1>1, <2>1, Zenon
<1>9. frames[f].pin = 0 /\ pageTable[k] = NoFrame
  BY DEF VictimWritten, SelectVictimFrame
<1>10. \A g \in Handles : ptr[g] # NoPtr => ptr[g].frame # f
  <2>1. ASSUME NEW g \in Handles, ptr[g] # NoPtr
        PROVE  frames[ptr[g].frame].pin > 0
    BY <2>1, HeldPage
  <2> QED
    BY <1>9, <2>1
<1>11. k # frames[f].key
  <2>1. f # NoFrame
    BY <1>3 DEF TypeOK, Frame, NoFrame
  <2> QED
    BY <1>3, <1>9, <2>1 DEF OneCopyOfEachPage
<1>12. \A l \in Key : l # frames[f].key => disk'[l] = disk[l]
  BY <1>6, <1>8
<1>13. ASSUME frames[f].key # NoKey
       PROVE  disk'[frames[f].key] =
                IF ~ frames[f].dirty \/ outcome = "refused" THEN disk[frames[f].key]
                ELSE IF outcome = "torn" THEN Torn ELSE frames[f].data
  <2>1. CASE frames[f].dirty
    BY <1>5, <1>7, <1>8, <2>1
  <2>2. CASE ~ frames[f].dirty
    BY <1>4, <1>6, <1>7, <1>8, <1>13, <2>2
  <2> QED
    BY <2>1, <2>2
<1> QED
  BY <1>8, <1>9, <1>10, <1>11, <1>12, <1>13

\* A miss: the victim's page leaves the pool only after the file holds it.
LEMMA FetchMissKeeps ==
  ASSUME PoolInv, NEW h \in Handles, NEW k \in Key, FetchMiss(h, k)
  PROVE  PoolInv'
<1>1. PICK f \in Frame :
        /\ VictimWritten(h, k, f, "written")
        /\ frames' = [frames EXCEPT ![f] = [key |-> k, dirty |-> FALSE,
                                           pin |-> 1, data |-> disk'[k]]]
        /\ pageTable' = [TableWithout(f) EXCEPT ![k] = f]
        /\ lruList' = MoveToBack(f)
        /\ ptr' = [ptr EXCEPT ![h] = [key |-> k, frame |-> f]]
        /\ rc' = "OK"
        /\ UNCHANGED <<poolSize, synced>>
  BY DEF FetchMiss
<1>2. /\ disk' \in [Key -> Data]
      /\ \A l \in Key : l # frames[f].key => disk'[l] = disk[l]
      /\ \A g \in Handles : ptr[g] # NoPtr => ptr[g].frame # f
      /\ frames[f].pin = 0
      /\ k # frames[f].key
  <2>1. VictimWritten(h, k, f, "written")
    BY <1>1
  <2> QED
    BY <2>1, VictimEffect
<1>3. Frame' = Frame /\ synced' = synced
  BY <1>1 DEF Frame
<1>4. frames \in [Frame -> FrameRecord] /\ pageTable \in [Key -> Frame \union {NoFrame}]
  BY DEF PoolInv, TypeOK
<1>5. /\ frames' \in [Frame -> FrameRecord]
      /\ frames'[f].key = k /\ ~ frames'[f].dirty /\ frames'[f].pin = 1
      /\ frames'[f].data = disk'[k]
      /\ \A g \in Frame : g # f => frames'[g] = frames[g]
  <2>1. [key |-> k, dirty |-> FALSE, pin |-> 1, data |-> disk'[k]] \in FrameRecord
    BY <1>2 DEF FrameRecord
  <2> QED
    BY <1>1, <1>4, <2>1
<1>6. /\ pageTable' \in [Key -> Frame \union {NoFrame}]
      /\ pageTable'[k] = f
      /\ \A l \in Key : l # k =>
           pageTable'[l] = IF l = frames[f].key THEN NoFrame ELSE pageTable[l]
  BY <1>1, <1>4 DEF TableWithout
<1>7. ptr[h] = NoPtr /\ ptr' = [ptr EXCEPT ![h] = [key |-> k, frame |-> f]]
  BY <1>1 DEF VictimWritten
<1>8. /\ lruList' \in [1 .. poolSize -> Frame]
      /\ \A g \in Frame : \E i \in 1 .. poolSize : lruList'[i] = g
  BY <1>1, MoveToBackLists DEF PoolInv
<1>9. poolSize' = poolSize /\ rc' \in RCs
  BY <1>1 DEF RCs
<1>10. f # NoFrame
  BY DEF PoolInv, TypeOK, Frame, NoFrame
<1>11. \A g \in Frame : g # f /\ frames[g].key # NoKey => frames[g].key # frames[f].key
  BY DEF PoolInv, OneCopyOfEachPage
<1>12. TypeOK'
  BY <1>2, <1>3, <1>5, <1>6, <1>7, <1>8, <1>9 DEF PoolInv, TypeOK
<1>13. LruListsEveryFrame'
  BY <1>3, <1>8, <1>9 DEF LruListsEveryFrame
<1>14. TableSound'
  <2> SUFFICES ASSUME NEW l \in Key, pageTable'[l] # NoFrame
               PROVE  frames'[pageTable'[l]].key = l
    BY DEF TableSound, NoFrame
  <2>1. CASE l = k
    BY <1>5, <1>6, <2>1
  <2>2. CASE l # k
    <3>1. l # frames[f].key /\ pageTable'[l] = pageTable[l]
      BY <1>6, <2>2
    <3>2. pageTable[l] \in Frame /\ frames[pageTable[l]].key = l
      BY <3>1, TableFrame
    <3> QED
      BY <1>5, <3>1, <3>2
  <2> QED
    BY <2>1, <2>2
<1>15. OneCopyOfEachPage'
  <2> SUFFICES ASSUME NEW g \in Frame, frames'[g].key # NoKey
               PROVE  pageTable'[frames'[g].key] = g
    BY <1>3 DEF OneCopyOfEachPage
  <2>1. CASE g = f
    BY <1>5, <1>6, <2>1
  <2>2. CASE g # f
    <3>1. frames'[g] = frames[g] /\ pageTable[frames[g].key] = g /\ g # NoFrame
      BY <1>5, <2>2 DEF PoolInv, OneCopyOfEachPage, TypeOK, Frame, NoFrame
    <3>2. frames[g].key \in Key
      BY <1>4, <3>1 DEF FrameRecord
    <3>3. frames[g].key # k
      BY <1>1, <3>1 DEF VictimWritten
    <3> QED
      BY <1>6, <1>11, <2>2, <3>1, <3>2, <3>3
  <2> QED
    BY <2>1, <2>2
<1>16. PinnedNotReplaced'
  <2> SUFFICES ASSUME NEW g \in Handles, ptr'[g] # NoPtr
               PROVE  frames'[ptr'[g].frame].key = ptr'[g].key
    BY DEF PinnedNotReplaced
  <2>1. ptr \in [Handles -> [key : Key, frame : Frame] \union {NoPtr}]
    BY DEF PoolInv, TypeOK
  <2>2. CASE g = h
    BY <1>5, <1>7, <2>1, <2>2
  <2>3. CASE g # h
    <3>1. ptr'[g] = ptr[g] /\ ptr[g].frame # f /\ ptr[g].frame \in Frame
      BY <1>2, <1>7, <2>1, <2>3
    <3>2. frames[ptr[g].frame].key = ptr[g].key
      BY <3>1 DEF PoolInv, PinnedNotReplaced
    <3> QED
      BY <1>5, <3>1, <3>2
  <2> QED
    BY <2>2, <2>3
<1>17. PinsAreHolders'
  <2>1. \A g \in Frame : Cardinality(Holders(g)') =
          IF g = f THEN Cardinality(Holders(g)) + 1 ELSE Cardinality(Holders(g))
    BY <1>7, HoldersGained DEF PoolInv
  <2>2. Cardinality(Holders(f)) = 0
    BY <1>2 DEF PoolInv, PinsAreHolders
  <2> QED
    BY <1>3, <1>5, <2>1, <2>2 DEF PoolInv, PinsAreHolders
<1>18. CleanFramesOnDisk'
  <2> SUFFICES ASSUME NEW g \in Frame, frames'[g].key # NoKey, ~ frames'[g].dirty
               PROVE  frames'[g].data = disk'[frames'[g].key]
    BY <1>3 DEF CleanFramesOnDisk
  <2>1. CASE g = f
    BY <1>5, <2>1
  <2>2. CASE g # f
    <3>1. frames'[g] = frames[g] /\ frames[g].key # frames[f].key
      BY <1>5, <1>11, <2>2
    <3>2. frames[g].key \in Key
      BY <1>4, <3>1 DEF FrameRecord
    <3> QED
      BY <1>2, <3>1, <3>2 DEF PoolInv, CleanFramesOnDisk
  <2> QED
    BY <2>1, <2>2
<1>19. EmptyFramesIdle'
  BY <1>3, <1>5 DEF PoolInv, EmptyFramesIdle
<1>20. SyncedFilesClean'
  BY <1>3, <1>5 DEF PoolInv, SyncedFilesClean
<1> QED
  BY <1>12, <1>13, <1>14, <1>15, <1>16, <1>17, <1>18, <1>19, <1>20 DEF PoolInv

\* A miss whose victim cannot be written damages that victim's page on disk at
\* most, and the frame still holds it, dirty.
LEMMA FetchWriteFailsKeeps ==
  ASSUME PoolInv, NEW h \in Handles, NEW k \in Key, FetchWriteFails(h, k)
  PROVE  PoolInv'
<1>1. PICK f \in Frame, outcome \in Outcomes \ {"written"} :
        /\ frames[f].dirty
        /\ VictimWritten(h, k, f, outcome)
        /\ rc' = "PF_INCOMPLETEWRITE"
        /\ UNCHANGED <<poolSize, frames, lruList, pageTable, ptr, synced>>
  BY DEF FetchWriteFails
<1>2. /\ disk' \in [Key -> Data]
      /\ \A l \in Key : l # frames[f].key => disk'[l] = disk[l]
  <2>1. VictimWritten(h, k, f, outcome)
    BY <1>1
  <2> QED
    BY <2>1, VictimEffect
<1>3. ASSUME NEW g \in Frame, frames[g].key # NoKey, ~ frames[g].dirty
      PROVE  disk'[frames[g].key] = disk[frames[g].key]
  <2>1. frames[g].key \in Key /\ frames[g].key # frames[f].key
    BY <1>1, <1>3 DEF PoolInv, TypeOK, FrameRecord, OneCopyOfEachPage
  <2> QED
    BY <1>2, <2>1
<1> QED
  BY <1>1, <1>2, <1>3, OnlyDiskChanges DEF RCs

-----------------------------------------------------------------------------
(* Flushing and clearing a file *)

\* Writing the dirty frames of one file cleans those written, and leaves on
\* disk the data of every frame that is clean afterwards.
LEMMA FlushEffect ==
  ASSUME PoolInv, NEW fd \in Fds, NEW outcome, DOMAIN outcome = DirtyFrames(fd),
         Flush(fd, outcome)
  PROVE  /\ disk' \in [Key -> Data]
         /\ Cleaned(outcome) \in [Frame -> FrameRecord]
         /\ \A f \in Frame :
              /\ Cleaned(outcome)[f].key = frames[f].key
              /\ Cleaned(outcome)[f].pin = frames[f].pin
              /\ Cleaned(outcome)[f].data = frames[f].data
              /\ Cleaned(outcome)[f].dirty =
                   (frames[f].dirty /\ ~ (f \in DirtyFrames(fd) /\ outcome[f] = "written"))
              /\ frames[f].key # NoKey /\ ~ Cleaned(outcome)[f].dirty =>
                   disk'[frames[f].key] = frames[f].data
<1> DEFINE S == DirtyFrames(fd)
<1>1. S \in SUBSET Frame /\ (\A f \in S : frames[f].key # NoKey) /\ DOMAIN outcome = S
  BY DEF DirtyFrames
<1>2. TypeOK /\ OneCopyOfEachPage /\ CleanFramesOnDisk
  BY DEF PoolInv
<1>3. disk' = WriteFrameToDisk(S, outcome)
  BY DEF Flush
<1>4. \A f \in S : frames[f].dirty
  BY DEF DirtyFrames
<1> HIDE DEF S
<1>5. /\ WriteFrameToDisk(S, outcome) \in [Key -> Data]
      /\ \A k \in Key : (\A f \in S : frames[f].key # k) =>
            WriteFrameToDisk(S, outcome)[k] = disk[k]
      /\ \A f \in S : WriteFrameToDisk(S, outcome)[frames[f].key] =
            IF outcome[f] = "refused" THEN disk[frames[f].key]
            ELSE IF outcome[f] = "torn" THEN Torn ELSE frames[f].data
  BY <1>1, <1>2, WriteEffect
<1>6. frames \in [Frame -> FrameRecord]
  BY <1>2 DEF TypeOK
<1>7. Cleaned(outcome) = [f \in Frame |-> IF f \in S /\ outcome[f] = "written"
                                         THEN SetDirty(frames[f], FALSE) ELSE frames[f]]
  BY <1>1 DEF Cleaned
<1>8. ASSUME NEW f \in Frame
      PROVE  /\ Cleaned(outcome)[f] \in FrameRecord
             /\ Cleaned(outcome)[f].key = frames[f].key
             /\ Cleaned(outcome)[f].pin = frames[f].pin
             /\ Cleaned(outcome)[f].data = frames[f].data
             /\ Cleaned(outcome)[f].dirty =
                  (frames[f].dirty /\ ~ (f \in S /\ outcome[f] = "written"))
  <2>1. CASE f \in S /\ outcome[f] = "written"
    <3>1. Cleaned(outcome)[f] = SetDirty(frames[f], FALSE)
      BY <1>7, <2>1
    <3>2. frames[f] \in FrameRecord
      BY <1>6
    <3>3. /\ SetDirty(frames[f], FALSE) \in FrameRecord
          /\ SetDirty(frames[f], FALSE).dirty = FALSE
          /\ SetDirty(frames[f], FALSE).key = frames[f].key
          /\ SetDirty(frames[f], FALSE).pin = frames[f].pin
          /\ SetDirty(frames[f], FALSE).data = frames[f].data
      BY <3>2, SetDirtyFields
    <3> QED
      BY <2>1, <3>1, <3>3
  <2>2. CASE ~ (f \in S /\ outcome[f] = "written")
    <3>1. Cleaned(outcome)[f] = frames[f]
      BY <1>7, <2>2
    <3>2. frames[f] \in FrameRecord
      BY <1>6
    <3>3. frames[f].dirty \in BOOLEAN
      BY <3>2 DEF FrameRecord
    <3> QED
      BY <2>2, <3>1, <3>2, <3>3
  <2> QED
    BY <2>1, <2>2
<1>9. ASSUME NEW f \in Frame, frames[f].key # NoKey, ~ Cleaned(outcome)[f].dirty
      PROVE  disk'[frames[f].key] = frames[f].data
  <2>1. frames[f].key \in Key
    BY <1>6, <1>9 DEF FrameRecord
  <2>2. CASE f \in S
    <3>1. outcome[f] = "written"
      BY <1>4, <1>8, <1>9, <2>2
    <3> QED
      BY <1>3, <1>5, <2>2, <3>1
  <2>3. CASE f \notin S
    <3>1. ~ frames[f].dirty
      BY <1>8, <1>9, <2>3
    <3>2. \A g \in S : frames[g].key # frames[f].key
      BY <1>1, <1>2, <2>1, <2>3 DEF OneCopyOfEachPage
    <3>3. disk'[frames[f].key] = disk[frames[f].key]
      BY <1>3, <1>5, <2>1, <3>2
    <3> QED
      BY <1>2, <1>9, <3>1, <3>3 DEF CleanFramesOnDisk
  <2> QED
    BY <2>2, <2>3
<1>10. Cleaned(outcome) \in [Frame -> FrameRecord]
  BY <1>7, <1>8
<1> QED
  BY <1>3, <1>5, <1>8, <1>9, <1>10 DEF S

\* What a successful and a failed flush have in common: only the first makes
\* the file one whose flush stands.
FlushStep(fd, outcome) ==
  /\ Flush(fd, outcome)
  /\ frames' = Cleaned(outcome)
  /\ UNCHANGED <<poolSize, lruList, pageTable, ptr>>
  /\ rc' \in RCs
  /\ \/ synced' = synced
     \/ AllWritten(outcome) /\ synced' = synced \union {fd}

\* A flush keeps the invariant, whichever of its writes succeed.
LEMMA FlushKeeps ==
  ASSUME PoolInv, NEW fd \in Fds, NEW outcome, DOMAIN outcome = DirtyFrames(fd),
         FlushStep(fd, outcome)
  PROVE  PoolInv'
<1>1. /\ disk' \in [Key -> Data]
      /\ frames' \in [Frame -> FrameRecord]
      /\ \A f \in Frame :
           /\ frames'[f].key = frames[f].key
           /\ frames'[f].pin = frames[f].pin
           /\ frames'[f].data = frames[f].data
           /\ frames'[f].dirty =
                (frames[f].dirty /\ ~ (f \in DirtyFrames(fd) /\ outcome[f] = "written"))
           /\ frames[f].key # NoKey /\ ~ frames'[f].dirty =>
                disk'[frames[f].key] = frames[f].data
  <2>1. Flush(fd, outcome) /\ frames' = Cleaned(outcome)
    BY DEF FlushStep
  <2> HIDE DEF FlushStep
  <2> QED
    BY <2>1, FlushEffect
<1>2. UNCHANGED <<poolSize, lruList, pageTable, ptr>> /\ rc' \in RCs
  BY DEF FlushStep
<1>3. Frame' = Frame /\ \A f \in Frame : Holders(f)' = Holders(f)
  BY <1>2 DEF Frame, Holders
<1>4. synced' \subseteq Fds
  BY DEF FlushStep, PoolInv, TypeOK
<1>5. TypeOK' /\ LruListsEveryFrame'
  BY <1>1, <1>2, <1>3, <1>4 DEF PoolInv, TypeOK, LruListsEveryFrame
<1>6. TableSound' /\ OneCopyOfEachPage'
  BY <1>1, <1>2, <1>3 DEF PoolInv, TableSound, OneCopyOfEachPage, TypeOK
<1>7. PinnedNotReplaced' /\ PinsAreHolders'
  BY <1>1, <1>2, <1>3 DEF PoolInv, PinnedNotReplaced, PinsAreHolders, TypeOK
<1>8. CleanFramesOnDisk' /\ EmptyFramesIdle'
  BY <1>1, <1>3 DEF PoolInv, CleanFramesOnDisk, EmptyFramesIdle
<1>9. SyncedFilesClean'
  <2> SUFFICES ASSUME NEW f \in Frame, frames'[f].key # NoKey, frames'[f].dirty
               PROVE  frames'[f].key[1] \notin synced'
    BY <1>3 DEF SyncedFilesClean
  <2>1. frames[f].dirty /\ frames[f].key # NoKey
        /\ ~ (f \in DirtyFrames(fd) /\ outcome[f] = "written")
    BY <1>1
  <2>2. frames[f].key[1] \notin synced
    BY <2>1 DEF PoolInv, SyncedFilesClean
  <2>3. CASE AllWritten(outcome)
    <3>1. f \notin DirtyFrames(fd)
      BY <2>1, <2>3 DEF AllWritten
    <3>2. frames[f].key \in Key
      BY <2>1 DEF PoolInv, TypeOK, FrameRecord
    <3>3. frames[f].key[1] # fd
      BY <2>1, <3>1, <3>2 DEF DirtyFrames
    <3> QED
      BY <1>1, <2>2, <3>3 DEF FlushStep
  <2>4. CASE ~ AllWritten(outcome)
    BY <1>1, <2>2, <2>4 DEF FlushStep
  <2> QED
    BY <2>3, <2>4
<1> QED
  BY <1>5, <1>6, <1>7, <1>8, <1>9 DEF PoolInv

\* FlushAllPages that reports a failure is such a flush.
LEMMA FlushFailsKeeps ==
  ASSUME PoolInv, NEW fd \in Fds, FlushFails(fd)
  PROVE  PoolInv'
<1>1. PICK outcome \in [DirtyFrames(fd) -> Outcomes] :
        ~ AllWritten(outcome) /\ Flush(fd, outcome) /\ frames' = Cleaned(outcome)
  BY DEF FlushFails
<1>2. DOMAIN outcome = DirtyFrames(fd)
  BY <1>1
<1>3. FlushStep(fd, outcome)
  BY <1>1 DEF FlushFails, FlushStep, RCs
<1> QED
  BY <1>2, <1>3, FlushKeeps

\* FlushAllPages that succeeds is one, and acknowledges the file.
LEMMA FlushAllPagesKeeps ==
  ASSUME PoolInv, NEW fd \in Fds, FlushAllPages(fd)
  PROVE  PoolInv'
<1> DEFINE outcome == [f \in DirtyFrames(fd) |-> "written"]
<1>1. DOMAIN outcome = DirtyFrames(fd) /\ AllWritten(outcome)
  BY DEF AllWritten
<1>2. /\ Flush(fd, outcome) /\ frames' = Cleaned(outcome)
      /\ rc' = "OK" /\ synced' = synced \union {fd}
      /\ UNCHANGED <<poolSize, lruList, pageTable, ptr>>
  BY DEF FlushAllPages
<1> HIDE DEF outcome
<1>3. FlushStep(fd, outcome)
  BY <1>1, <1>2 DEF FlushStep, RCs
<1> QED
  BY <1>1, <1>3, FlushKeeps

\* Clearing a file flushes it, then empties its unpinned frames.
LEMMA ClearFilePagesKeeps ==
  ASSUME PoolInv, NEW fd \in Fds, ClearFilePages(fd)
  PROVE  PoolInv'
<1> DEFINE dropped == {f \in Frame : /\ frames[f].key \in Key
                                     /\ frames[f].key[1] = fd
                                     /\ frames[f].pin = 0}
           outcome == [f \in DirtyFrames(fd) |-> "written"]
<1>1. DOMAIN outcome = DirtyFrames(fd) /\ \A f \in DirtyFrames(fd) : outcome[f] = "written"
  OBVIOUS
<1>2. /\ Flush(fd, outcome)
      /\ frames' = [f \in Frame |-> IF f \in dropped THEN EmptyFrame
                                    ELSE Cleaned(outcome)[f]]
      /\ pageTable' = [k \in Key |-> IF \E f \in dropped : frames[f].key = k
                                     THEN NoFrame ELSE pageTable[k]]
      /\ rc' \in RCs /\ synced' = synced \union {fd}
      /\ UNCHANGED <<poolSize, lruList, ptr>>
  BY DEF ClearFilePages, RCs
<1>3. dropped \subseteq Frame /\ \A f \in dropped : frames[f].pin = 0
  OBVIOUS
<1> HIDE DEF dropped, outcome
<1>4. /\ disk' \in [Key -> Data]
      /\ Cleaned(outcome) \in [Frame -> FrameRecord]
      /\ \A f \in Frame :
           /\ Cleaned(outcome)[f].key = frames[f].key
           /\ Cleaned(outcome)[f].pin = frames[f].pin
           /\ Cleaned(outcome)[f].data = frames[f].data
           /\ Cleaned(outcome)[f].dirty =
                (frames[f].dirty /\ ~ (f \in DirtyFrames(fd) /\ outcome[f] = "written"))
           /\ frames[f].key # NoKey /\ ~ Cleaned(outcome)[f].dirty =>
                disk'[frames[f].key] = frames[f].data
  BY <1>1, <1>2, FlushEffect
<1>5. EmptyFrame \in FrameRecord /\ EmptyFrame.key = NoKey
      /\ EmptyFrame.pin = 0 /\ ~ EmptyFrame.dirty
  BY DEF EmptyFrame, FrameRecord, Data
<1>6. /\ frames' \in [Frame -> FrameRecord]
      /\ \A f \in dropped : frames'[f].key = NoKey /\ frames'[f].pin = 0
                            /\ ~ frames'[f].dirty
      /\ \A f \in Frame \ dropped : frames'[f] = Cleaned(outcome)[f]
  BY <1>2, <1>3, <1>4, <1>5
<1>7. Frame' = Frame /\ \A f \in Frame : Holders(f)' = Holders(f)
  BY <1>2 DEF Frame, Holders
<1>8. \A h \in Handles : ptr[h] # NoPtr => ptr[h].frame \in Frame \ dropped
  <2> SUFFICES ASSUME NEW h \in Handles, ptr[h] # NoPtr
               PROVE  ptr[h].frame \in Frame \ dropped
    OBVIOUS
  <2>1. ptr[h].frame \in Frame /\ frames[ptr[h].frame].pin > 0
    BY HeldPage
  <2> QED
    BY <1>3, <2>1
<1>9. TypeOK' /\ LruListsEveryFrame'
  BY <1>2, <1>4, <1>6, <1>7 DEF PoolInv, TypeOK, LruListsEveryFrame
<1>10. TableSound'
  <2> SUFFICES ASSUME NEW k \in Key, pageTable'[k] # NoFrame
               PROVE  frames'[pageTable'[k]].key = k
    BY DEF TableSound, NoFrame
  <2>1. pageTable'[k] = pageTable[k] /\ ~ \E f \in dropped : frames[f].key = k
    BY <1>2
  <2>2. pageTable[k] \in Frame /\ frames[pageTable[k]].key = k
    BY <2>1, TableFrame
  <2> QED
    BY <1>4, <1>6, <2>1, <2>2
<1>11. OneCopyOfEachPage'
  <2> SUFFICES ASSUME NEW f \in Frame, frames'[f].key # NoKey
               PROVE  pageTable'[frames'[f].key] = f
    BY <1>7 DEF OneCopyOfEachPage
  <2>1. f \notin dropped /\ frames'[f].key = frames[f].key
    BY <1>4, <1>6
  <2>2. frames[f].key \in Key /\ pageTable[frames[f].key] = f
    BY <2>1 DEF PoolInv, TypeOK, FrameRecord, OneCopyOfEachPage
  <2>3. \A g \in dropped : frames[g].key # frames[f].key
    BY <1>3, <2>1, <2>2 DEF PoolInv, OneCopyOfEachPage
  <2> QED
    BY <1>2, <2>1, <2>2, <2>3
<1>12. PinnedNotReplaced'
  BY <1>2, <1>4, <1>6, <1>8 DEF PoolInv, PinnedNotReplaced
<1>13. PinsAreHolders'
  BY <1>3, <1>4, <1>6, <1>7 DEF PoolInv, PinsAreHolders
<1>14. CleanFramesOnDisk'
  <2> SUFFICES ASSUME NEW f \in Frame, frames'[f].key # NoKey, ~ frames'[f].dirty
               PROVE  frames'[f].data = disk'[frames'[f].key]
    BY <1>7 DEF CleanFramesOnDisk
  <2>1. frames'[f] = Cleaned(outcome)[f]
    BY <1>6
  <2> QED
    BY <1>4, <2>1
<1>15. EmptyFramesIdle'
  BY <1>4, <1>6, <1>7 DEF PoolInv, EmptyFramesIdle
<1>16. SyncedFilesClean'
  <2> SUFFICES ASSUME NEW f \in Frame, frames'[f].key # NoKey, frames'[f].dirty
               PROVE  frames'[f].key[1] \notin synced'
    BY <1>7 DEF SyncedFilesClean
  <2>1. /\ frames'[f].key = frames[f].key
        /\ frames[f].dirty
        /\ f \notin DirtyFrames(fd)
    BY <1>1, <1>4, <1>6
  <2>2. frames[f].key \in Key
    BY <2>1 DEF PoolInv, TypeOK, FrameRecord
  <2>3. frames[f].key[1] # fd
    BY <2>1, <2>2 DEF DirtyFrames
  <2>4. frames[f].key[1] \notin synced
    BY <2>1 DEF PoolInv, SyncedFilesClean
  <2> QED
    BY <1>2, <2>1, <2>3, <2>4
<1> QED
  BY <1>9, <1>10, <1>11, <1>12, <1>13, <1>14, <1>15, <1>16 DEF PoolInv

-----------------------------------------------------------------------------
(* A pool of another size, and the next process *)

\* A pool of empty frames that nobody points into satisfies the invariant.
LEMMA EmptyPoolKeeps ==
  ASSUME PoolInv, NEW n \in PoolSizes, EmptyPool(n),
         ptr' = [h \in Handles |-> NoPtr],
         disk' \in [Key -> Data], synced' = synced, rc' \in RCs
  PROVE  PoolInv'
<1>1. n \in Nat \ {0} /\ poolSize' = n /\ Frame' = 0 .. n - 1
  BY DEF EmptyPool, Frame
<1>2. /\ frames' = [f \in 0 .. n - 1 |-> EmptyFrame]
      /\ lruList' = [i \in 1 .. n |-> i - 1]
      /\ pageTable' = [k \in Key |-> NoFrame]
  BY DEF EmptyPool
<1>3. EmptyFrame \in FrameRecord /\ EmptyFrame.key = NoKey
      /\ EmptyFrame.pin = 0 /\ ~ EmptyFrame.dirty
  BY DEF EmptyFrame, FrameRecord, Data
<1>4. synced' \subseteq Fds
  BY DEF PoolInv, TypeOK
<1>5. TypeOK'
  BY <1>1, <1>2, <1>3, <1>4 DEF TypeOK
<1>6. LruListsEveryFrame'
  BY <1>1, <1>2 DEF LruListsEveryFrame
<1>7. TableSound' /\ OneCopyOfEachPage' /\ PinnedNotReplaced'
  BY <1>1, <1>2, <1>3 DEF TableSound, OneCopyOfEachPage, PinnedNotReplaced, NoFrame
<1>8. PinsAreHolders'
  <2>1. \A f \in Frame' : Holders(f)' = {}
    BY DEF Holders
  <2> QED
    BY <1>1, <1>2, <1>3, <2>1, FS_EmptySet DEF PinsAreHolders
<1>9. CleanFramesOnDisk' /\ EmptyFramesIdle' /\ SyncedFilesClean'
  BY <1>1, <1>2, <1>3 DEF CleanFramesOnDisk, EmptyFramesIdle, SyncedFilesClean
<1> QED
  BY <1>5, <1>6, <1>7, <1>8, <1>9 DEF PoolInv

\* A pool of another size starts empty.
LEMMA ReinitializeBufferKeeps ==
  ASSUME PoolInv, NEW n \in PoolSizes, ReinitializeBuffer(n)
  PROVE  PoolInv'
<1> DEFINE o == [f \in AllDirtyFrames |-> "written"]
<1>1. AllDirtyFrames \in SUBSET Frame /\ \A f \in AllDirtyFrames : frames[f].key # NoKey
  BY DEF AllDirtyFrames
<1>2. TypeOK /\ OneCopyOfEachPage
  BY DEF PoolInv
<1>3. disk' = WriteFrameToDisk(AllDirtyFrames, o)
  BY DEF ReinitializeBuffer
<1> HIDE DEF o
<1>4. disk' \in [Key -> Data]
  BY <1>1, <1>2, <1>3, WriteEffect
<1>5. ptr' = [h \in Handles |-> NoPtr] /\ synced' = synced /\ rc' \in RCs /\ EmptyPool(n)
  BY <1>2 DEF ReinitializeBuffer, TypeOK, RCs
<1> QED
  BY <1>4, <1>5, EmptyPoolKeeps

\* A change of size cut short by a failed write changes the disk at most.
LEMMA ReinitializeFailsKeeps ==
  ASSUME PoolInv, ReinitializeFails
  PROVE  PoolInv'
<1>1. PICK bad \in AllDirtyFrames, failure \in Outcomes \ {"written"} :
        disk' = WriteFrameToDisk(AllDirtyFrames,
                  [f \in AllDirtyFrames |-> IF f < bad THEN "written"
                                           ELSE IF f = bad THEN failure
                                           ELSE "refused"])
  BY DEF ReinitializeFails
<1> DEFINE o == [f \in AllDirtyFrames |-> IF f < bad THEN "written"
                                         ELSE IF f = bad THEN failure
                                         ELSE "refused"]
<1>2. AllDirtyFrames \in SUBSET Frame /\ \A f \in AllDirtyFrames : frames[f].key # NoKey
  BY DEF AllDirtyFrames
<1>3. TypeOK /\ OneCopyOfEachPage
  BY DEF PoolInv
<1>4. disk' = WriteFrameToDisk(AllDirtyFrames, o)
  BY <1>1
<1> HIDE DEF o
<1>5. /\ disk' \in [Key -> Data]
      /\ \A k \in Key : (\A f \in AllDirtyFrames : frames[f].key # k) =>
            disk'[k] = disk[k]
  <2>1. /\ WriteFrameToDisk(AllDirtyFrames, o) \in [Key -> Data]
        /\ \A k \in Key : (\A f \in AllDirtyFrames : frames[f].key # k) =>
              WriteFrameToDisk(AllDirtyFrames, o)[k] = disk[k]
    BY <1>2, <1>3, WriteEffect, Zenon
  <2> QED
    BY <1>4, <2>1
<1>6. ASSUME NEW g \in Frame, frames[g].key # NoKey, ~ frames[g].dirty
      PROVE  disk'[frames[g].key] = disk[frames[g].key]
  <2>1. frames[g].key \in Key
    BY <1>3, <1>6 DEF TypeOK, FrameRecord
  <2>2. \A f \in AllDirtyFrames : frames[f].key # frames[g].key
    BY <1>3, <1>6, <2>1 DEF AllDirtyFrames, OneCopyOfEachPage
  <2> QED
    BY <1>5, <2>1, <2>2
<1>7. /\ UNCHANGED <<poolSize, frames, lruList, pageTable, ptr, synced>>
      /\ rc' \in RCs
  BY DEF ReinitializeFails, RCs
<1> QED
  BY <1>5, <1>6, <1>7, OnlyDiskChanges

\* The pool of the next process starts empty.
LEMMA ExitKeeps ==
  ASSUME PoolInv, Exit
  PROVE  PoolInv'
<1>1. InitialSize \in PoolSizes /\ EmptyPool(InitialSize)
  BY DEF Exit
<1>2. ptr' = [h \in Handles |-> NoPtr] /\ synced' = synced /\ rc' \in RCs
  BY DEF Exit, RCs
<1>3. disk' \in [Key -> Data]
  BY DEF Exit, PoolInv, TypeOK
<1> QED
  BY <1>1, <1>2, <1>3, EmptyPoolKeeps

-----------------------------------------------------------------------------
(* The theorems *)

\* Every step keeps the invariant when no read fails.
LEMMA NextKeeps ==
  ASSUME ~ ReadFaults, PoolInv, [Next]_vars
  PROVE  PoolInv'
<1>1. CASE \E h \in Handles, k \in Key : FetchPage(h, k) \/ PinPage(h, k)
  <2>1. PICK h \in Handles, k \in Key : FetchPage(h, k) \/ PinPage(h, k)
    BY <1>1
  <2>2. ~ FetchReadFails(h, k)
    BY DEF FetchReadFails
  <2> QED
    BY <2>1, <2>2, FetchHitKeeps, FetchNoBufKeeps, FetchMissKeeps,
       FetchWriteFailsKeeps, PinPageKeeps DEF FetchPage
<1>2. CASE \E h \in Handles, v \in Values : MarkDirty(h, v)
  BY <1>2, MarkDirtyKeeps
<1>3. CASE \E h \in Handles : UnpinPage(h)
  BY <1>3, UnpinPageKeeps
<1>4. CASE \E k \in Key : UnpinUnheld(k)
  BY <1>4, UnpinUnheldKeeps
<1>5. CASE \E fd \in Fds : FlushAllPages(fd) \/ FlushFails(fd) \/ ClearFilePages(fd)
  BY <1>5, FlushAllPagesKeeps, FlushFailsKeeps, ClearFilePagesKeeps
<1>6. CASE \E n \in PoolSizes : ReinitializeBuffer(n)
  BY <1>6, ReinitializeBufferKeeps
<1>7. CASE ReinitializeFails
  BY <1>7, ReinitializeFailsKeeps
<1>8. CASE Exit
  BY <1>8, ExitKeeps
<1>9. CASE UNCHANGED vars
  <2>1. UNCHANGED <<poolSize, frames, lruList, pageTable, ptr, synced>>
        /\ disk' = disk /\ rc' = rc
    BY <1>9 DEF vars
  <2> QED
    BY <2>1, OnlyDiskChanges DEF PoolInv, TypeOK
<1> QED
  BY <1>1, <1>2, <1>3, <1>4, <1>5, <1>6, <1>7, <1>8, <1>9 DEF Next

\* The invariant holds in every state the pool reaches without a read fault.
THEOREM PoolInvariant == ASSUME ~ ReadFaults PROVE Spec => []PoolInv
<1>1. PoolInv /\ [Next]_vars => PoolInv'
  BY NextKeeps
<1> QED
  BY InitPoolInv, <1>1, PTL DEF Spec

\* Every variable keeps its type; the frames are those of the current size.
THEOREM TypeCorrect == ASSUME ~ ReadFaults PROVE Spec => []TypeOK
<1>1. PoolInv => TypeOK
  BY DEF PoolInv
<1> QED
  BY PoolInvariant, <1>1, PTL

\* However calls of FetchPage, UnpinPage, flushing and closing interleave, no
\* page is in two frames, so eviction never writes an old copy over a new one.
THEOREM SingleCopy == ASSUME ~ ReadFaults PROVE Spec => []OneCopyOfEachPage
<1>1. PoolInv => OneCopyOfEachPage
  BY DEF PoolInv
<1> QED
  BY PoolInvariant, <1>1, PTL

\* The pointer a caller holds never comes to lead to another page: replacement
\* and ClearFilePages leave pinned frames alone.
THEOREM PointersStayValid == ASSUME ~ ReadFaults PROVE Spec => []PinnedNotReplaced
<1>1. PoolInv => PinnedNotReplaced
  BY DEF PoolInv
<1> QED
  BY PoolInvariant, <1>1, PTL

\* The pin count of a frame is the number of handles that point into it.
THEOREM PinCounts == ASSUME ~ ReadFaults PROVE Spec => []PinsAreHolders
<1>1. PoolInv => PinsAreHolders
  BY DEF PoolInv
<1> QED
  BY PoolInvariant, <1>1, PTL

\* A clean frame can be dropped at any time: the file holds its data.
THEOREM CleanFramesAreSafe == ASSUME ~ ReadFaults PROVE Spec => []CleanFramesOnDisk
<1>1. PoolInv => CleanFramesOnDisk
  BY DEF PoolInv
<1> QED
  BY PoolInvariant, <1>1, PTL

\* A flush that FlushAllPages or ClearFilePages reported as done stays done:
\* the file holds what its readers see until somebody modifies it, even when
\* other files are flushed, evicted or torn in between.
THEOREM AcknowledgedFlushIsDurable ==
  ASSUME ~ ReadFaults PROVE Spec => []SyncedFilesDurable
<1>1. ASSUME PoolInv PROVE SyncedFilesDurable
  <2> SUFFICES ASSUME NEW k \in Key, k[1] \in synced PROVE disk[k] = View(k)
    BY DEF SyncedFilesDurable
  <2>1. CASE pageTable[k] = NoFrame
    BY <2>1 DEF View
  <2>2. CASE pageTable[k] # NoFrame
    <3> DEFINE f == pageTable[k]
    <3>1. f \in Frame /\ frames[f].key = k
      BY <2>2, <1>1, TableFrame DEF PoolInv, TableSound
    <3>2. ~ frames[f].dirty
      BY <3>1, <1>1 DEF PoolInv, SyncedFilesClean
    <3> QED
      BY <2>2, <3>1, <3>2, <1>1 DEF PoolInv, CleanFramesOnDisk, View
  <2> QED
    BY <2>1, <2>2
<1> QED
  BY PoolInvariant, <1>1, PTL

\* A caller that gives back a page it holds is always told OK, never that the
\* page left the pool or was not pinned.
THEOREM ReturnsSucceed == ASSUME ~ ReadFaults PROVE Spec => HoldersAreServed
<1> DEFINE Served == \A h \in Handles : ptr[h] # NoPtr /\ ptr'[h] = NoPtr => rc' = "OK"
<1>1. ASSUME PoolInv, Next PROVE Served
  <2> SUFFICES ASSUME NEW g \in Handles, ptr[g] # NoPtr, ptr'[g] = NoPtr
               PROVE  rc' = "OK"
    OBVIOUS
  <2>1. ASSUME NEW h \in Handles, NEW k \in Key, FetchPage(h, k) \/ PinPage(h, k)
        PROVE  rc' = "OK"
    <3>1. ptr' = ptr \/ rc' = "OK"
      BY <2>1 DEF FetchPage, PinPage, FetchHit, FetchNoBuf, FetchMiss,
                  FetchWriteFails, FetchReadFails
    <3> QED
      BY <3>1
  <2>2. ASSUME NEW h \in Handles, UnpinPage(h) PROVE rc' = "OK"
    BY <1>1, <2>2, UnpinPageKeeps
  <2>3. ASSUME NEW h \in Handles, NEW v \in Values, MarkDirty(h, v)
        PROVE  rc' = "OK"
    BY <2>3 DEF MarkDirty
  <2>4. ASSUME NEW k \in Key, UnpinUnheld(k) PROVE rc' = "OK"
    BY <2>4 DEF UnpinUnheld
  <2>5. ASSUME NEW fd \in Fds, FlushAllPages(fd) \/ FlushFails(fd) \/ ClearFilePages(fd)
        PROVE  rc' = "OK"
    BY <2>5 DEF FlushAllPages, FlushFails, ClearFilePages
  <2>6. ASSUME NEW n \in PoolSizes, ReinitializeBuffer(n) PROVE rc' = "OK"
    BY <2>6 DEF ReinitializeBuffer
  <2>7. CASE ReinitializeFails
    BY <2>7 DEF ReinitializeFails
  <2>8. CASE Exit
    BY <2>8 DEF Exit
  <2> QED
    BY <1>1, <2>1, <2>2, <2>3, <2>4, <2>5, <2>6, <2>7, <2>8 DEF Next
<1>2. ASSUME PoolInv, [Next]_vars PROVE [Served]_vars
  BY <1>1, <1>2
<1> HIDE DEF Served
<1>3. HoldersAreServed <=> [][Served]_vars
  BY DEF HoldersAreServed, Served
<1> QED
  BY PoolInvariant, <1>2, <1>3, PTL DEF Spec

-----------------------------------------------------------------------------
(* Reading through the table *)

\* How many callers hold page k, as the store counts them.
PinsOf(k) == IF pageTable[k] = NoFrame THEN 0 ELSE frames[pageTable[k]].pin

\* What the store's reader and the store's pins of a page are, by whether some
\* frame holds it.
ReadsAndPins ==
  \A k \in Key :
     /\ \A f \in Frame : frames[f].key = k =>
           View(k) = frames[f].data /\ PinsOf(k) = frames[f].pin
     /\ (\A f \in Frame : frames[f].key # k) => View(k) = disk[k] /\ PinsOf(k) = 0

\* A page in the pool is read and pinned in its one frame, any other on disk.
LEMMA ReadsThroughTheTable == PoolInv => ReadsAndPins
<1> SUFFICES ASSUME PoolInv, NEW k \in Key
             PROVE  /\ \A f \in Frame : frames[f].key = k =>
                          View(k) = frames[f].data /\ PinsOf(k) = frames[f].pin
                    /\ (\A f \in Frame : frames[f].key # k) =>
                          View(k) = disk[k] /\ PinsOf(k) = 0
  BY DEF ReadsAndPins
<1>1. ASSUME NEW f \in Frame, frames[f].key = k
      PROVE  View(k) = frames[f].data /\ PinsOf(k) = frames[f].pin
  <2>1. pageTable[k] = f /\ f # NoFrame
    BY <1>1 DEF PoolInv, OneCopyOfEachPage, TypeOK, Frame, NoFrame
  <2> QED
    BY <2>1 DEF View, PinsOf
<1>2. ASSUME \A f \in Frame : frames[f].key # k
      PROVE  View(k) = disk[k] /\ PinsOf(k) = 0
  <2>1. pageTable[k] = NoFrame
    BY <1>2, TableFrame
  <2> QED
    BY <2>1 DEF View, PinsOf
<1> QED
  BY <1>1, <1>2

\* A page the table does not have is in no frame.
LEMMA NotInTable ==
  ASSUME PoolInv, NEW k \in Key, pageTable[k] = NoFrame
  PROVE  \A f \in Frame : frames[f].key # k
<1>1. NoFrame \notin Frame
  BY DEF NoFrame, Frame, PoolInv, TypeOK
<1> QED
  BY <1>1 DEF PoolInv, OneCopyOfEachPage

\* ReadsThroughTheTable in the next state.
LEMMA ReadsThroughTheNextTable == ASSUME PoolInv' PROVE ReadsAndPins'
<1>1. (PoolInv => ReadsAndPins)'
  BY ReadsThroughTheTable, PTL
<1> QED
  BY <1>1

\* A page is in some frame of the pool, with the identity it has there, or in none.
LEMMA InSomeFrame ==
  ASSUME PoolInv, NEW f \in Frame, frames[f].key # NoKey
  PROVE  /\ frames[f].key \in Key
         /\ View(frames[f].key) = frames[f].data
         /\ PinsOf(frames[f].key) = frames[f].pin
<1>1. frames[f].key \in Key
  BY DEF PoolInv, TypeOK, FrameRecord
<1> QED
  BY <1>1, ReadsThroughTheTable DEF ReadsAndPins

-----------------------------------------------------------------------------
(* Each call is a step of the page store, or none *)

\* What the pool may have written when a call that is no acknowledged flush
\* returns: dirty pages, as their frames hold them or torn.
WrittenBehind ==
  /\ disk' \in [Key -> Data]
  /\ \A k \in Key :
        \/ disk'[k] = disk[k]
        \/ \E f \in Frame : /\ frames[f].key = k
                            /\ frames[f].dirty
                            /\ \/ disk'[k] = frames[f].data
                               \/ WriteFaults /\ disk'[k] = Torn

\* The store allows that: a dirty page is of no file whose flush still stands.
LEMMA WritesBehindAreAllowed ==
  ASSUME PoolInv, WrittenBehind PROVE Store!WriteBack
<1>1. DOMAIN disk' = Store!Key
  BY DEF WrittenBehind, Store!Key, Key
<1>2. ASSUME NEW k \in Key
      PROVE  disk'[k] \in IF k[1] \in synced THEN {disk[k]} ELSE Store!Written(k)
  <2>1. CASE disk'[k] = disk[k]
    BY <2>1 DEF Store!Written
  <2>2. CASE disk'[k] # disk[k]
    <3>1. PICK f \in Frame : /\ frames[f].key = k
                             /\ frames[f].dirty
                             /\ \/ disk'[k] = frames[f].data
                                \/ WriteFaults /\ disk'[k] = Torn
      BY <2>2 DEF WrittenBehind
    <3>2. k[1] \notin synced
      BY <3>1 DEF PoolInv, SyncedFilesClean
    <3>3. View(k) = frames[f].data
      BY <3>1, InSomeFrame
    <3>4. disk'[k] \in {View(k)} \union (IF WriteFaults THEN {Torn} ELSE {})
      BY <3>1, <3>3
    <3> QED
      BY <3>2, <3>4 DEF Store!Written
  <2> QED
    BY <2>1, <2>2
<1> QED
  BY <1>1, <1>2 DEF Store!WriteBack, Store!Key, Key

\* Nothing written at all is allowed too.
LEMMA NothingWritten ==
  ASSUME PoolInv, disk' = disk PROVE WrittenBehind
BY DEF WrittenBehind, PoolInv, TypeOK

\* The callers' view of the pages.
SameViews == \A k \in Key : View(k)' = View(k)
SamePins  == \A k \in Key : PinsOf(k)' = PinsOf(k)

\* A call that leaves views and pins alone and writes behind is a background
\* step of the store.
LEMMA IsBackground ==
  ASSUME PoolInv, WrittenBehind, SameViews, SamePins, synced' = synced
  PROVE  Store!Next
<1>1. [k \in Key |-> View(k)]' = [k \in Key |-> View(k)]
  BY DEF SameViews
<1>2. [k \in Key |-> PinsOf(k)]' = [k \in Key |-> PinsOf(k)]
  BY DEF SamePins
<1> QED
  BY <1>1, <1>2, WritesBehindAreAllowed DEF Store!Next, Store!Background, PinsOf

\* One that also gives a caller a page is the store's Hold.
LEMMA IsHold ==
  ASSUME PoolInv, WrittenBehind, SameViews, synced' = synced, NEW k \in Key,
         \A l \in Key : PinsOf(l)' = IF l = k THEN PinsOf(l) + 1 ELSE PinsOf(l)
  PROVE  Store!Next
<1>1. [l \in Key |-> View(l)]' = [l \in Key |-> View(l)]
  BY DEF SameViews
<1>2. [l \in Key |-> PinsOf(l)]' = [[l \in Key |-> PinsOf(l)] EXCEPT ![k] = @ + 1]
  OBVIOUS
<1>3. Store!Hold(k)
  BY <1>1, <1>2, WritesBehindAreAllowed DEF Store!Hold, PinsOf
<1> QED
  BY <1>3 DEF Store!Next, Store!Key, Key

\* A change of one pin count leaves every view alone.
LEMMA PinChangeSeen ==
  ASSUME PoolInv, PoolInv', NEW f \in Frame, NEW n \in Nat, frames[f].key # NoKey,
         frames' = WithPin(f, n), UNCHANGED <<poolSize, pageTable, disk>>
  PROVE  /\ SameViews
         /\ \A l \in Key : PinsOf(l)' = IF l = frames[f].key THEN n ELSE PinsOf(l)
<1>1. Frame' = Frame
  BY DEF Frame
<1>2. \A g \in Frame : /\ frames'[g].key = frames[g].key
                        /\ frames'[g].data = frames[g].data
                        /\ frames'[g].pin = IF g = f THEN n ELSE frames[g].pin
  BY PinChange DEF PoolInv
<1>3. ASSUME NEW l \in Key
      PROVE  /\ View(l)' = View(l)
             /\ PinsOf(l)' = IF l = frames[f].key THEN n ELSE PinsOf(l)
  <2>1. CASE pageTable[l] = NoFrame
    <3>1. l # frames[f].key
      BY <2>1, NotInTable
    <3> QED
      BY <2>1, <3>1 DEF View, PinsOf
  <2>2. CASE pageTable[l] # NoFrame
    <3>1. pageTable[l] \in Frame /\ frames[pageTable[l]].key = l
      BY <2>2, TableFrame
    <3>2. pageTable[l] = f <=> l = frames[f].key
      BY <3>1 DEF PoolInv, OneCopyOfEachPage
    <3> QED
      BY <1>2, <2>2, <3>1, <3>2 DEF View, PinsOf
  <2> QED
    BY <2>1, <2>2
<1> QED
  BY <1>3 DEF SameViews

\* A hit, and PinPage of a page in the pool, are Hold.
LEMMA HitIsHold ==
  ASSUME PoolInv, PoolInv', NEW k \in Key, pageTable[k] # NoFrame,
         frames' = WithPin(pageTable[k], frames[pageTable[k]].pin + 1),
         UNCHANGED <<poolSize, pageTable, disk, synced>>
  PROVE  Store!Next
<1>1. /\ pageTable[k] \in Frame
      /\ frames[pageTable[k]].key = k
      /\ k # NoKey
      /\ frames[pageTable[k]].pin + 1 \in Nat
  BY TableFrame DEF PoolInv, TypeOK, FrameRecord
<1>2. PinsOf(k) = frames[pageTable[k]].pin
  BY DEF PinsOf
<1>3. SameViews /\ \A l \in Key : PinsOf(l)' = IF l = k THEN PinsOf(k) + 1 ELSE PinsOf(l)
  BY <1>1, <1>2, PinChangeSeen
<1> QED
  BY <1>3, NothingWritten, IsHold

\* A miss is Hold: the victim's page moves from its frame to the file, where
\* its readers go on finding it, and the page asked for from the file to the frame.
LEMMA MissIsHold ==
  ASSUME PoolInv, PoolInv', NEW h \in Handles, NEW k \in Key, FetchMiss(h, k)
  PROVE  Store!Next
<1>1. PICK f \in Frame :
        /\ VictimWritten(h, k, f, "written")
        /\ frames' = [frames EXCEPT ![f] = [key |-> k, dirty |-> FALSE,
                                           pin |-> 1, data |-> disk'[k]]]
        /\ UNCHANGED <<poolSize, synced>>
  BY DEF FetchMiss
<1>2. /\ disk' \in [Key -> Data]
      /\ \A l \in Key : l # frames[f].key => disk'[l] = disk[l]
      /\ frames[f].key # NoKey => disk'[frames[f].key] =
           IF ~ frames[f].dirty THEN disk[frames[f].key] ELSE frames[f].data
      /\ frames[f].pin = 0
      /\ k # frames[f].key
  <2>1. VictimWritten(h, k, f, "written")
    BY <1>1
  <2> QED
    BY <2>1, VictimEffect
<1>3. Frame' = Frame /\ frames \in [Frame -> FrameRecord]
  BY <1>1 DEF Frame, PoolInv, TypeOK
<1>4. /\ frames'[f].key = k /\ frames'[f].pin = 1 /\ frames'[f].data = disk'[k]
      /\ \A g \in Frame : g # f => frames'[g] = frames[g]
  BY <1>1, <1>3
<1>5. \A g \in Frame : frames[g].key # k
  BY <1>1, NotInTable DEF VictimWritten
<1>6. WrittenBehind
  <2>1. \A l \in Key : \/ disk'[l] = disk[l]
                       \/ frames[f].key = l /\ frames[f].dirty /\ disk'[l] = frames[f].data
    BY <1>2
  <2> QED
    BY <1>2, <2>1 DEF WrittenBehind
<1>7. ReadsAndPins /\ ReadsAndPins'
  BY ReadsThroughTheTable, ReadsThroughTheNextTable
<1>8. ASSUME NEW l \in Key
      PROVE  /\ View(l)' = View(l)
             /\ PinsOf(l)' = IF l = k THEN PinsOf(l) + 1 ELSE PinsOf(l)
  <2>1. CASE l = k
    <3>1. View(k)' = disk'[k] /\ PinsOf(k)' = 1
      BY <1>3, <1>4, <1>7 DEF ReadsAndPins
    <3>2. View(k) = disk[k] /\ PinsOf(k) = 0
      BY <1>5, <1>7 DEF ReadsAndPins
    <3> QED
      BY <1>2, <2>1, <3>1, <3>2
  <2>2. CASE l # k /\ l = frames[f].key
    <3>1. View(l) = frames[f].data /\ PinsOf(l) = 0
      BY <1>2, <1>7, <2>2 DEF ReadsAndPins
    <3>2. \A g \in Frame : frames'[g].key # l
      BY <1>4, <2>2 DEF PoolInv, OneCopyOfEachPage
    <3>3. View(l)' = disk'[l] /\ PinsOf(l)' = 0
      BY <1>3, <1>7, <3>2 DEF ReadsAndPins
    <3>4. disk'[l] = frames[f].data
      BY <1>2, <2>2 DEF PoolInv, CleanFramesOnDisk
    <3> QED
      BY <2>2, <3>1, <3>3, <3>4
  <2>3. CASE l # k /\ l # frames[f].key /\ \E g \in Frame : frames[g].key = l
    <3>1. PICK g \in Frame : frames[g].key = l
      BY <2>3
    <3>2. frames'[g] = frames[g]
      BY <1>4, <2>3, <3>1
    <3> QED
      BY <1>3, <1>7, <2>3, <3>1, <3>2 DEF ReadsAndPins
  <2>4. CASE l # k /\ l # frames[f].key /\ ~ \E g \in Frame : frames[g].key = l
    <3>1. \A g \in Frame : frames'[g].key # l
      BY <1>4, <2>4
    <3> QED
      BY <1>2, <1>3, <1>7, <2>4, <3>1 DEF ReadsAndPins
  <2> QED
    BY <2>1, <2>2, <2>3, <2>4
<1> QED
  BY <1>1, <1>6, <1>8, IsHold DEF SameViews

\* A miss whose victim could not be written is a background step.
LEMMA FailedMissIsBackground ==
  ASSUME PoolInv, PoolInv', NEW h \in Handles, NEW k \in Key, FetchWriteFails(h, k)
  PROVE  Store!Next
<1>1. PICK f \in Frame, outcome \in Outcomes \ {"written"} :
        /\ frames[f].dirty
        /\ VictimWritten(h, k, f, outcome)
        /\ UNCHANGED <<poolSize, frames, pageTable, synced>>
  BY DEF FetchWriteFails
<1>2. /\ disk' \in [Key -> Data]
      /\ \A l \in Key : l # frames[f].key => disk'[l] = disk[l]
      /\ disk'[frames[f].key] = IF outcome = "refused" THEN disk[frames[f].key]
                                ELSE IF outcome = "torn" THEN Torn ELSE frames[f].data
  <2>1. VictimWritten(h, k, f, outcome) /\ frames[f].key # NoKey
    BY <1>1 DEF PoolInv, EmptyFramesIdle
  <2> QED
    BY <1>1, <2>1, VictimEffect
<1>3. outcome \in {"refused", "torn"} /\ WriteFaults
  BY DEF Outcomes
<1>4. WrittenBehind
  <2>1. \A l \in Key : \/ disk'[l] = disk[l]
                       \/ frames[f].key = l /\ disk'[l] = Torn
    BY <1>2, <1>3
  <2> QED
    BY <1>1, <1>2, <1>3, <2>1 DEF WrittenBehind
<1>5. SamePins
  BY <1>1 DEF SamePins, PinsOf
<1>6. SameViews
  <2> SUFFICES ASSUME NEW l \in Key PROVE View(l)' = View(l)
    BY DEF SameViews
  <2>1. CASE pageTable[l] = NoFrame
    <3>1. l # frames[f].key
      BY <2>1, NotInTable
    <3> QED
      BY <1>1, <1>2, <2>1, <3>1 DEF View
  <2>2. CASE pageTable[l] # NoFrame
    BY <1>1, <2>2 DEF View
  <2> QED
    BY <2>1, <2>2
<1> QED
  BY <1>1, <1>4, <1>5, <1>6, IsBackground

\* A call that changes nothing the store can see is a stutter of it.
LEMMA IsStutter ==
  ASSUME UNCHANGED <<frames, pageTable, disk, synced>>
  PROVE  UNCHANGED Store!storeVars
<1>1. SameViews /\ SamePins
  BY DEF SameViews, SamePins, View, PinsOf
<1>2. /\ [k \in Key |-> View(k)]' = [k \in Key |-> View(k)]
      /\ [k \in Key |-> PinsOf(k)]' = [k \in Key |-> PinsOf(k)]
  BY <1>1 DEF SameViews, SamePins
<1> QED
  BY <1>2 DEF Store!storeVars, PinsOf

\* A write through a held pointer, marked dirty, is Modify of the page held.
LEMMA MarkDirtyIsModify ==
  ASSUME PoolInv, PoolInv', NEW h \in Handles, NEW v \in Values, MarkDirty(h, v)
  PROVE  Store!Next
<1> DEFINE k == ptr[h].key
           f == ptr[h].frame
<1>1. /\ k \in Key /\ f \in Frame /\ f # NoFrame
      /\ pageTable[k] = f /\ frames[f].key = k /\ frames[f].pin > 0
  BY HeldPage DEF MarkDirty
<1>2. /\ UNCHANGED <<poolSize, pageTable, disk>>
      /\ synced' = synced \ {k[1]}
  BY DEF MarkDirty
<1>3. \A g \in Frame : /\ frames'[g].pin = frames[g].pin
                        /\ frames'[g].data = IF g = f THEN v ELSE frames[g].data
  BY MarkDirtyEffect
<1> HIDE DEF k, f
<1>4. PinsOf(k) > 0
  BY <1>1 DEF PinsOf
<1>5. ASSUME NEW l \in Key
      PROVE  View(l)' = (IF l = k THEN v ELSE View(l)) /\ PinsOf(l)' = PinsOf(l)
  <2>1. CASE pageTable[l] = NoFrame
    BY <1>1, <1>2, <2>1 DEF View, PinsOf
  <2>2. CASE pageTable[l] # NoFrame
    <3>1. pageTable[l] \in Frame /\ frames[pageTable[l]].key = l
      BY <2>2, TableFrame
    <3>2. pageTable[l] = f <=> l = k
      BY <1>1, <3>1
    <3> QED
      BY <1>2, <1>3, <2>2, <3>1, <3>2 DEF View, PinsOf
  <2> QED
    BY <2>1, <2>2
<1>6. /\ [l \in Key |-> View(l)]' = [[l \in Key |-> View(l)] EXCEPT ![k] = v]
      /\ [l \in Key |-> PinsOf(l)]' = [l \in Key |-> PinsOf(l)]
  BY <1>5
<1>7. [l \in Key |-> PinsOf(l)][k] > 0
  BY <1>1, <1>4
<1>8. Store!Modify(k, v)
  BY <1>2, <1>6, <1>7 DEF Store!Modify, PinsOf
<1> QED
  BY <1>1, <1>8 DEF Store!Next, Store!Key, Key

\* Giving a page back is Release of it.
LEMMA UnpinIsRelease ==
  ASSUME PoolInv, PoolInv', NEW h \in Handles, UnpinPage(h)
  PROVE  Store!Next
<1>0. ptr[h].key \in Key
  BY HeldPage DEF UnpinPage
<1> PICK k \in Key : k = ptr[h].key
  BY <1>0
<1> DEFINE f == ptr[h].frame
<1>1. /\ k \in Key /\ f \in Frame /\ f # NoFrame
      /\ pageTable[k] = f /\ frames[f].key = k /\ frames[f].pin > 0
  BY HeldPage DEF UnpinPage
<1>2. frames[f].pin \in Nat
  BY <1>1 DEF PoolInv, TypeOK, FrameRecord
<1>3. frames' = WithPin(f, frames[f].pin - 1)
      /\ UNCHANGED <<poolSize, pageTable, disk, synced>>
  BY <1>1, <1>2 DEF UnpinPage, Unpin
<1> HIDE DEF f
<1>4. frames[f].pin - 1 \in Nat /\ k # NoKey /\ PinsOf(k) = frames[f].pin
  BY <1>1, <1>2 DEF PinsOf
<1>5. /\ SameViews
      /\ \A l \in Key : PinsOf(l)' = IF l = k THEN PinsOf(k) - 1 ELSE PinsOf(l)
  BY <1>1, <1>3, <1>4, PinChangeSeen
<1>6. /\ [l \in Key |-> View(l)]' = [l \in Key |-> View(l)]
      /\ [l \in Key |-> PinsOf(l)]' = [[l \in Key |-> PinsOf(l)] EXCEPT ![k] = @ - 1]
      /\ [l \in Key |-> PinsOf(l)][k] > 0
  BY <1>1, <1>4, <1>5 DEF SameViews
<1>7. Store!Release(k)
  BY <1>3, <1>6 DEF Store!Release, PinsOf
<1>8. k \in Store!Key
  BY <1>1 DEF Store!Key, Key
<1> QED
  BY <1>7, <1>8, Zenon DEF Store!Next

\* Giving back a page that nobody holds does nothing.
LEMMA UnpinUnheldIsStutter ==
  ASSUME PoolInv, NEW k \in Key, UnpinUnheld(k)
  PROVE  UNCHANGED Store!storeVars
<1>1. UNCHANGED <<pageTable, disk, synced>>
  BY DEF UnpinUnheld
<1>2. UNCHANGED frames
  <2>1. CASE pageTable[k] = NoFrame
    BY <2>1 DEF UnpinUnheld, Unpin
  <2>2. CASE pageTable[k] # NoFrame
    <3> DEFINE f == pageTable[k]
    <3>1. f \in Frame /\ frames[f].key = k
      BY <2>2, TableFrame
    <3>2. Holders(f) = {}
      BY <3>1 DEF UnpinUnheld, Holders, PoolInv, PinnedNotReplaced
    <3>3. frames[f].pin = 0
      BY <3>1, <3>2, FS_EmptySet DEF PoolInv, PinsAreHolders
    <3> QED
      BY <2>2, <3>3 DEF UnpinUnheld, Unpin
  <2> QED
    BY <2>1, <2>2
<1> QED
  BY <1>1, <1>2, IsStutter

-----------------------------------------------------------------------------
(* Flushes, changes of size, and the end of the process *)

\* A successful flush leaves what readers of the file see on disk, and every
\* other file as it was.
LEMMA FlushWritesViews ==
  ASSUME PoolInv, NEW fd \in Fds,
         Flush(fd, [f \in DirtyFrames(fd) |-> "written"]), NEW k \in Key
  PROVE  disk'[k] = IF k[1] = fd THEN View(k) ELSE disk[k]
<1> DEFINE o == [f \in DirtyFrames(fd) |-> "written"]
<1>1. /\ DirtyFrames(fd) \in SUBSET Frame
      /\ \A f \in DirtyFrames(fd) : frames[f].key # NoKey /\ frames[f].key[1] = fd
  BY DEF DirtyFrames
<1>2. TypeOK /\ OneCopyOfEachPage
  BY DEF PoolInv
<1>3. disk' = WriteFrameToDisk(DirtyFrames(fd), o) /\ \A f \in DirtyFrames(fd) : o[f] = "written"
  BY DEF Flush
<1> HIDE DEF o
<1>4. /\ \A l \in Key : (\A f \in DirtyFrames(fd) : frames[f].key # l) =>
            WriteFrameToDisk(DirtyFrames(fd), o)[l] = disk[l]
      /\ \A f \in DirtyFrames(fd) : WriteFrameToDisk(DirtyFrames(fd), o)[frames[f].key] =
            IF o[f] = "refused" THEN disk[frames[f].key]
            ELSE IF o[f] = "torn" THEN Torn ELSE frames[f].data
  BY <1>1, <1>2, WriteEffect, Zenon
<1>5. CASE \E f \in DirtyFrames(fd) : frames[f].key = k
  <2>1. PICK f \in DirtyFrames(fd) : frames[f].key = k
    BY <1>5
  <2>2. View(k) = frames[f].data
    BY <1>1, <2>1, InSomeFrame
  <2> QED
    BY <1>1, <1>3, <1>4, <2>1, <2>2
<1>6. CASE ~ \E f \in DirtyFrames(fd) : frames[f].key = k
  <2>1. disk'[k] = disk[k]
    BY <1>3, <1>4, <1>6
  <2>2. ASSUME k[1] = fd PROVE View(k) = disk[k]
    <3>1. CASE pageTable[k] = NoFrame
      BY <3>1 DEF View
    <3>2. CASE pageTable[k] # NoFrame
      <4>1. pageTable[k] \in Frame /\ frames[pageTable[k]].key = k
        BY <3>2, TableFrame
      <4>2. ~ frames[pageTable[k]].dirty
        BY <1>6, <2>2, <4>1 DEF DirtyFrames
      <4> QED
        BY <3>2, <4>1, <4>2 DEF PoolInv, CleanFramesOnDisk, View
    <3> QED
      BY <3>1, <3>2
  <2> QED
    BY <2>1, <2>2
<1> QED
  BY <1>5, <1>6

\* A call that flushes a file with success and changes no view and no pin is
\* the store's Sync.
LEMMA IsSync ==
  ASSUME PoolInv, PoolInv', NEW fd \in Fds,
         Flush(fd, [f \in DirtyFrames(fd) |-> "written"]),
         SameViews, SamePins, synced' = synced \union {fd}
  PROVE  Store!Next
<1>1. disk' = [k \in Key |-> IF k[1] = fd THEN [l \in Key |-> View(l)][k] ELSE disk[k]]
  <2>1. disk' \in [Key -> Data]
    BY DEF PoolInv, TypeOK
  <2>2. \A k \in Key : disk'[k] = IF k[1] = fd THEN View(k) ELSE disk[k]
    BY FlushWritesViews
  <2> QED
    BY <2>1, <2>2
<1>2. /\ [l \in Key |-> View(l)]' = [l \in Key |-> View(l)]
      /\ [l \in Key |-> PinsOf(l)]' = [l \in Key |-> PinsOf(l)]
  BY DEF SameViews, SamePins
<1>3. Store!Sync(fd)
  BY <1>1, <1>2 DEF Store!Sync, Store!Key, Key, PinsOf
<1> QED
  BY <1>3 DEF Store!Next

\* Cleaning frames changes no view and no pin.
LEMMA CleanedSeen ==
  ASSUME PoolInv, NEW fd \in Fds, NEW outcome, DOMAIN outcome = DirtyFrames(fd),
         Flush(fd, outcome), frames' = Cleaned(outcome), pageTable' = pageTable,
         \A k \in Key : pageTable[k] = NoFrame => disk'[k] = disk[k]
  PROVE  SameViews /\ SamePins
<1>1. \A f \in Frame : frames'[f].pin = frames[f].pin /\ frames'[f].data = frames[f].data
  BY FlushEffect
<1> SUFFICES ASSUME NEW k \in Key PROVE View(k)' = View(k) /\ PinsOf(k)' = PinsOf(k)
  BY DEF SameViews, SamePins
<1>2. CASE pageTable[k] = NoFrame
  BY <1>2 DEF View, PinsOf
<1>3. CASE pageTable[k] # NoFrame
  BY <1>1, <1>3, TableFrame DEF View, PinsOf
<1> QED
  BY <1>2, <1>3

\* Writing dirty frames, with whatever outcome, is writing behind the callers'
\* back, and touches no page that is outside the pool.
LEMMA DirtyFramesWritten ==
  ASSUME PoolInv, NEW S \in SUBSET Frame,
         \A f \in S : frames[f].key # NoKey /\ frames[f].dirty,
         NEW outcome, \A f \in S : outcome[f] \in Outcomes,
         disk' = WriteFrameToDisk(S, outcome)
  PROVE  /\ WrittenBehind
         /\ \A k \in Key : pageTable[k] = NoFrame => disk'[k] = disk[k]
<1>1. TypeOK /\ OneCopyOfEachPage
  BY DEF PoolInv
<1>2. /\ disk' \in [Key -> Data]
      /\ \A k \in Key : (\A f \in S : frames[f].key # k) => disk'[k] = disk[k]
      /\ \A f \in S : disk'[frames[f].key] =
            IF outcome[f] = "refused" THEN disk[frames[f].key]
            ELSE IF outcome[f] = "torn" THEN Torn ELSE frames[f].data
  <2>1. /\ WriteFrameToDisk(S, outcome) \in [Key -> Data]
        /\ \A k \in Key : (\A f \in S : frames[f].key # k) =>
              WriteFrameToDisk(S, outcome)[k] = disk[k]
        /\ \A f \in S : WriteFrameToDisk(S, outcome)[frames[f].key] =
              IF outcome[f] = "refused" THEN disk[frames[f].key]
              ELSE IF outcome[f] = "torn" THEN Torn ELSE frames[f].data
    BY <1>1, WriteEffect, Zenon
  <2> QED
    BY <2>1
<1>3. ASSUME NEW k \in Key
      PROVE  \/ disk'[k] = disk[k]
             \/ \E f \in Frame : /\ frames[f].key = k
                                 /\ frames[f].dirty
                                 /\ \/ disk'[k] = frames[f].data
                                    \/ WriteFaults /\ disk'[k] = Torn
  <2>1. CASE \E f \in S : frames[f].key = k
    <3>1. PICK f \in S : frames[f].key = k
      BY <2>1
    <3>2. \/ disk'[k] = disk[k]
          \/ disk'[k] = frames[f].data
          \/ outcome[f] = "torn" /\ disk'[k] = Torn
      BY <1>2, <3>1
    <3>3. outcome[f] = "torn" => WriteFaults
      BY DEF Outcomes
    <3> QED
      BY <3>1, <3>2, <3>3
  <2>2. CASE ~ \E f \in S : frames[f].key = k
    BY <1>2, <2>2
  <2> QED
    BY <2>1, <2>2
<1>4. ASSUME NEW k \in Key, pageTable[k] = NoFrame PROVE disk'[k] = disk[k]
  BY <1>2, <1>4, NotInTable
<1> QED
  BY <1>2, <1>3, <1>4 DEF WrittenBehind

\* A flush that fails is a background step: the frames it wrote hold what the
\* file now does, those it failed on are still read from the pool.
LEMMA FlushFailsIsBackground ==
  ASSUME PoolInv, NEW fd \in Fds, FlushFails(fd)
  PROVE  Store!Next
<1>1. PICK outcome \in [DirtyFrames(fd) -> Outcomes] :
        Flush(fd, outcome) /\ frames' = Cleaned(outcome)
  BY DEF FlushFails
<1>2. UNCHANGED <<pageTable, synced>>
  BY DEF FlushFails
<1>3. /\ DirtyFrames(fd) \in SUBSET Frame
      /\ \A f \in DirtyFrames(fd) : frames[f].key # NoKey /\ frames[f].dirty
      /\ \A f \in DirtyFrames(fd) : outcome[f] \in Outcomes
      /\ disk' = WriteFrameToDisk(DirtyFrames(fd), outcome)
      /\ DOMAIN outcome = DirtyFrames(fd)
  BY <1>1 DEF DirtyFrames, Flush
<1>4. /\ WrittenBehind
      /\ \A k \in Key : pageTable[k] = NoFrame => disk'[k] = disk[k]
  BY <1>3, DirtyFramesWritten
<1>5. SameViews /\ SamePins
  BY <1>1, <1>2, <1>3, <1>4, CleanedSeen
<1> QED
  BY <1>2, <1>4, <1>5, IsBackground

\* A flush that succeeds is Sync of the file.
LEMMA FlushIsSync ==
  ASSUME PoolInv, PoolInv', NEW fd \in Fds, FlushAllPages(fd)
  PROVE  Store!Next
<1> DEFINE outcome == [f \in DirtyFrames(fd) |-> "written"]
<1>1. /\ Flush(fd, outcome) /\ frames' = Cleaned(outcome)
      /\ pageTable' = pageTable /\ synced' = synced \union {fd}
      /\ DOMAIN outcome = DirtyFrames(fd)
  BY DEF FlushAllPages
<1>2. \A k \in Key : pageTable[k] = NoFrame => disk'[k] = disk[k]
  BY <1>1, FlushWritesViews DEF View
<1>3. SameViews /\ SamePins
  <2> HIDE DEF outcome
  <2> QED
    BY <1>1, <1>2, CleanedSeen
<1> QED
  BY <1>1, <1>3, IsSync

\* Clearing a file is Sync too: a page it drops is read from the file after it,
\* which holds what the frame held, and nobody had it pinned.
LEMMA ClearIsSync ==
  ASSUME PoolInv, PoolInv', NEW fd \in Fds, ClearFilePages(fd)
  PROVE  Store!Next
<1> DEFINE dropped == {f \in Frame : /\ frames[f].key \in Key
                                     /\ frames[f].key[1] = fd
                                     /\ frames[f].pin = 0}
           outcome == [f \in DirtyFrames(fd) |-> "written"]
<1>1. /\ Flush(fd, outcome)
      /\ frames' = [f \in Frame |-> IF f \in dropped THEN EmptyFrame
                                    ELSE Cleaned(outcome)[f]]
      /\ pageTable' = [k \in Key |-> IF \E f \in dropped : frames[f].key = k
                                     THEN NoFrame ELSE pageTable[k]]
      /\ synced' = synced \union {fd}
  BY DEF ClearFilePages
<1>2. \A k \in Key : disk'[k] = IF k[1] = fd THEN View(k) ELSE disk[k]
  BY <1>1, FlushWritesViews
<1>3. \A f \in Frame : /\ Cleaned(outcome)[f].pin = frames[f].pin
                        /\ Cleaned(outcome)[f].data = frames[f].data
  <2>1. DOMAIN outcome = DirtyFrames(fd)
    OBVIOUS
  <2> HIDE DEF outcome
  <2> QED
    BY <1>1, <2>1, FlushEffect
<1>4. \A f \in dropped : f \in Frame /\ frames[f].key # NoKey
                         /\ frames[f].key[1] = fd /\ frames[f].pin = 0
  OBVIOUS
<1> HIDE DEF dropped, outcome
<1>5. ASSUME NEW k \in Key PROVE View(k)' = View(k) /\ PinsOf(k)' = PinsOf(k)
  <2>1. CASE \E f \in dropped : frames[f].key = k
    <3>1. PICK f \in dropped : frames[f].key = k
      BY <2>1
    <3>2. PinsOf(k) = 0 /\ k[1] = fd
      BY <1>4, <3>1, InSomeFrame
    <3>3. pageTable'[k] = NoFrame
      BY <1>1, <2>1
    <3>4. NoFrame' = NoFrame
      BY DEF NoFrame
    <3> QED
      BY <1>2, <3>2, <3>3, <3>4 DEF View, PinsOf
  <2>2. CASE ~ (\E f \in dropped : frames[f].key = k) /\ pageTable[k] = NoFrame
    <3>1. pageTable'[k] = NoFrame
      BY <1>1, <2>2
    <3>2. View(k) = disk[k]
      BY <2>2 DEF View
    <3>3. disk'[k] = disk[k]
      BY <1>2, <3>2
    <3> QED
      BY <2>2, <3>1, <3>2, <3>3 DEF View, PinsOf
  <2>3. CASE ~ (\E f \in dropped : frames[f].key = k) /\ pageTable[k] # NoFrame
    <3>1. pageTable[k] \in Frame /\ frames[pageTable[k]].key = k
      BY <2>3, TableFrame
    <3>2. pageTable[k] \notin dropped
      BY <2>3, <3>1
    <3>3. pageTable'[k] = pageTable[k] /\ frames'[pageTable[k]] = Cleaned(outcome)[pageTable[k]]
      BY <1>1, <2>3, <3>1, <3>2
    <3> QED
      BY <1>3, <2>3, <3>1, <3>3 DEF View, PinsOf
  <2> QED
    BY <2>1, <2>2, <2>3
<1>6. SameViews /\ SamePins
  BY <1>5 DEF SameViews, SamePins
<1> QED
  BY <1>1, <1>6, IsSync DEF outcome

\* With no page handle in use nobody holds anything.
LEMMA NobodyHolds ==
  ASSUME PoolInv, \A h \in Handles : ptr[h] = NoPtr, NEW k \in Key
  PROVE  PinsOf(k) = 0
<1>1. CASE pageTable[k] = NoFrame
  BY <1>1 DEF PinsOf
<1>2. CASE pageTable[k] # NoFrame
  <2>1. pageTable[k] \in Frame
    BY <1>2, TableFrame
  <2>2. Holders(pageTable[k]) = {}
    BY DEF Holders
  <2> QED
    BY <1>2, <2>1, <2>2, FS_EmptySet DEF PinsOf, PoolInv, PinsAreHolders
<1> QED
  BY <1>1, <1>2

\* Replacing the pool by one of another size is a background step: every page is
\* on disk before its frame goes.
LEMMA ReinitializeIsBackground ==
  ASSUME PoolInv, NEW n \in PoolSizes, ReinitializeBuffer(n)
  PROVE  Store!Next
<1> DEFINE o == [f \in AllDirtyFrames |-> "written"]
<1>1. /\ AllDirtyFrames \in SUBSET Frame
      /\ \A f \in AllDirtyFrames : frames[f].key # NoKey /\ frames[f].dirty
      /\ \A f \in AllDirtyFrames : o[f] = "written" /\ o[f] \in Outcomes
      /\ disk' = WriteFrameToDisk(AllDirtyFrames, o)
      /\ synced' = synced
      /\ pageTable' = [k \in Key |-> NoFrame]
      /\ \A h \in Handles : ptr[h] = NoPtr
  BY DEF AllDirtyFrames, ReinitializeBuffer, EmptyPool, Outcomes
<1>2. TypeOK /\ OneCopyOfEachPage
  BY DEF PoolInv
<1> HIDE DEF o
<1>3. /\ WrittenBehind
      /\ \A k \in Key : pageTable[k] = NoFrame => disk'[k] = disk[k]
  BY <1>1, DirtyFramesWritten
<1>4. /\ \A k \in Key : (\A f \in AllDirtyFrames : frames[f].key # k) =>
            WriteFrameToDisk(AllDirtyFrames, o)[k] = disk[k]
      /\ \A f \in AllDirtyFrames : WriteFrameToDisk(AllDirtyFrames, o)[frames[f].key] =
            IF o[f] = "refused" THEN disk[frames[f].key]
            ELSE IF o[f] = "torn" THEN Torn ELSE frames[f].data
  BY <1>1, <1>2, WriteEffect, Zenon
<1>5. ASSUME NEW k \in Key PROVE disk'[k] = View(k)
  <2>1. CASE pageTable[k] = NoFrame
    BY <1>3, <2>1 DEF View
  <2>2. CASE pageTable[k] # NoFrame
    <3> DEFINE f == pageTable[k]
    <3>1. f \in Frame /\ frames[f].key = k /\ k # NoKey
      BY <2>2, TableFrame
    <3>2. View(k) = frames[f].data
      BY <2>2 DEF View
    <3>3. CASE frames[f].dirty
      <4>1. f \in AllDirtyFrames
        BY <3>1, <3>3 DEF AllDirtyFrames
      <4> QED
        BY <1>1, <1>4, <3>1, <3>2, <4>1
    <3>4. CASE ~ frames[f].dirty
      <4>1. \A g \in AllDirtyFrames : frames[g].key # k
        BY <1>2, <3>1, <3>4 DEF AllDirtyFrames, OneCopyOfEachPage
      <4>2. disk[k] = frames[f].data
        BY <3>1, <3>4 DEF PoolInv, CleanFramesOnDisk
      <4> QED
        BY <1>1, <1>4, <3>2, <4>1, <4>2
    <3> QED
      BY <3>3, <3>4
  <2> QED
    BY <2>1, <2>2
<1>6. SameViews
  BY <1>1, <1>5 DEF SameViews, View, NoFrame
<1>7. SamePins
  <2>1. \A k \in Key : PinsOf(k)' = 0
    BY <1>1 DEF PinsOf, NoFrame
  <2> QED
    BY <1>1, <2>1, NobodyHolds DEF SamePins
<1> QED
  BY <1>1, <1>3, <1>6, <1>7, IsBackground

\* So is an attempt at it that fails half way: the pool is kept.
LEMMA ReinitializeFailsIsBackground ==
  ASSUME PoolInv, ReinitializeFails
  PROVE  Store!Next
<1>1. PICK bad \in AllDirtyFrames, failure \in Outcomes \ {"written"} :
        disk' = WriteFrameToDisk(AllDirtyFrames,
                  [f \in AllDirtyFrames |-> IF f < bad THEN "written"
                                           ELSE IF f = bad THEN failure
                                           ELSE "refused"])
  BY DEF ReinitializeFails
<1> DEFINE o == [f \in AllDirtyFrames |-> IF f < bad THEN "written"
                                         ELSE IF f = bad THEN failure
                                         ELSE "refused"]
<1>2. WriteFaults
  BY DEF Outcomes
<1>3. /\ AllDirtyFrames \in SUBSET Frame
      /\ \A f \in AllDirtyFrames : frames[f].key # NoKey /\ frames[f].dirty
      /\ \A f \in AllDirtyFrames : o[f] \in Outcomes
      /\ disk' = WriteFrameToDisk(AllDirtyFrames, o)
  BY <1>1, <1>2 DEF AllDirtyFrames, Outcomes
<1>4. UNCHANGED <<frames, pageTable, synced>>
  BY DEF ReinitializeFails
<1> HIDE DEF o
<1>5. /\ WrittenBehind
      /\ \A k \in Key : pageTable[k] = NoFrame => disk'[k] = disk[k]
  BY <1>3, DirtyFramesWritten
<1>6. SameViews /\ SamePins
  BY <1>4, <1>5 DEF SameViews, SamePins, View, PinsOf
<1> QED
  BY <1>4, <1>5, <1>6, IsBackground

\* The end of the process is the store's: what is on disk is what is left.
LEMMA ExitIsExit ==
  ASSUME PoolInv, Exit
  PROVE  Store!Next
<1>1. /\ pageTable' = [k \in Key |-> NoFrame]
      /\ disk' = disk /\ synced' = synced
  BY DEF Exit, EmptyPool
<1>2. \A k \in Key : View(k)' = disk[k] /\ PinsOf(k)' = 0
  BY <1>1 DEF View, PinsOf, NoFrame
<1>3. disk = [k \in Key |-> disk[k]]
  BY DEF PoolInv, TypeOK
<1>4. /\ [k \in Key |-> View(k)]' = disk
      /\ [k \in Key |-> PinsOf(k)]' = [k \in Key |-> 0]
  BY <1>2, <1>3
<1>5. Store!Exit
  BY <1>1, <1>4 DEF Store!Exit, Store!Key, Key, PinsOf
<1> QED
  BY <1>5 DEF Store!Next

-----------------------------------------------------------------------------
(* The pool implements the page store *)

\* The pool of a new process is an empty store.
LEMMA InitIsInit == Init => Store!Init
<1> SUFFICES ASSUME Init PROVE Store!Init
  OBVIOUS
<1>1. \A k \in Key : View(k) = Blank /\ PinsOf(k) = 0 /\ disk[k] = Blank
  BY DEF Init, View, PinsOf
<1>2. /\ [k \in Key |-> View(k)] = [k \in Key |-> Blank]
      /\ [k \in Key |-> PinsOf(k)] = [k \in Key |-> 0]
      /\ disk = [k \in Key |-> Blank]
  BY <1>1 DEF Init
<1> QED
  BY <1>2 DEF Init, Store!Init, Store!Key, Key, PinsOf

\* A call of a caller that takes or keeps a page, step by step.
LEMMA FetchSteps ==
  ASSUME ~ ReadFaults, PoolInv, PoolInv', NEW h \in Handles, NEW k \in Key,
         FetchPage(h, k) \/ PinPage(h, k)
  PROVE  [Store!Next]_(Store!storeVars)
<1>1. CASE FetchHit(h, k)
  BY <1>1, HitIsHold DEF FetchHit
<1>2. CASE FetchNoBuf(h, k)
  BY <1>2, IsStutter DEF FetchNoBuf
<1>3. CASE FetchMiss(h, k)
  BY <1>3, MissIsHold
<1>4. CASE FetchWriteFails(h, k)
  BY <1>4, FailedMissIsBackground
<1>5. CASE FetchReadFails(h, k)
  BY <1>5 DEF FetchReadFails
<1>6. CASE PinPage(h, k) /\ pageTable[k] = NoFrame
  BY <1>6, IsStutter DEF PinPage
<1>7. CASE PinPage(h, k) /\ pageTable[k] # NoFrame
  BY <1>7, HitIsHold DEF PinPage
<1> QED
  BY <1>1, <1>2, <1>3, <1>4, <1>5, <1>6, <1>7 DEF FetchPage

\* Every step of the pool is a step of the store or leaves it as it was.
LEMMA StepsOfTheStore ==
  ASSUME ~ ReadFaults, PoolInv, [Next]_vars
  PROVE  [Store!Next]_(Store!storeVars)
<1>0. PoolInv'
  BY NextKeeps
<1>1. CASE \E h \in Handles, k \in Key : FetchPage(h, k) \/ PinPage(h, k)
  BY <1>0, <1>1, FetchSteps
<1>2. CASE \E h \in Handles, v \in Values : MarkDirty(h, v)
  BY <1>0, <1>2, MarkDirtyIsModify
<1>3. CASE \E h \in Handles : UnpinPage(h)
  BY <1>0, <1>3, UnpinIsRelease
<1>4. CASE \E k \in Key : UnpinUnheld(k)
  BY <1>4, UnpinUnheldIsStutter
<1>5. CASE \E fd \in Fds : FlushAllPages(fd) \/ FlushFails(fd) \/ ClearFilePages(fd)
  BY <1>0, <1>5, FlushIsSync, FlushFailsIsBackground, ClearIsSync
<1>6. CASE \E n \in PoolSizes : ReinitializeBuffer(n)
  BY <1>6, ReinitializeIsBackground
<1>7. CASE ReinitializeFails
  BY <1>7, ReinitializeFailsIsBackground
<1>8. CASE Exit
  BY <1>8, ExitIsExit
<1>9. CASE UNCHANGED vars
  BY <1>9, IsStutter DEF vars
<1> QED
  BY <1>1, <1>2, <1>3, <1>4, <1>5, <1>6, <1>7, <1>8, <1>9 DEF Next

\* The pool implements the page store when no read fails: whatever it evicts,
\* flushes, tears or replaces, every caller reads what was written last, and a
\* write behind the callers' back never touches a file whose flush stands.
THEOREM PoolImplementsStore ==
  ASSUME ~ ReadFaults PROVE Spec => ImplementsPageStore
<1>1. PoolInv /\ [Next]_vars => [Store!Next]_(Store!storeVars)
  BY StepsOfTheStore
<1> QED
  BY PoolInvariant, InitIsInit, <1>1, PTL DEF Spec, ImplementsPageStore, Store!Spec

-----------------------------------------------------------------------------
(* PF_NOBUF *)

\* While some frame is unpinned, the search of the replacement order finds one.
LEMMA SomeVictim ==
  ASSUME TypeOK, LruListsEveryFrame, NEW f \in Frame, frames[f].pin = 0
  PROVE  \E g \in Frame : SelectVictimFrame(g)
<1> DEFINE Free == {i \in 1 .. poolSize : frames[lruList[i]].pin = 0}
<1>1. poolSize \in Nat /\ lruList \in [1 .. poolSize -> Frame]
  BY DEF TypeOK
<1>2. PICK j \in 1 .. poolSize : lruList[j] = f
  BY <1>1 DEF LruListsEveryFrame
<1>3. Free \subseteq Nat /\ j \in Free
  BY <1>1, <1>2
<1>4. PICK i \in Free : \A m \in Free : i <= m
  <2> HIDE DEF Free
  <2> QED
    BY <1>3, LeastElement
<1>5. i \in 1 .. poolSize /\ frames[lruList[i]].pin = 0 /\ lruList[i] \in Frame
  BY <1>1
<1>6. \A m \in 1 .. i - 1 : frames[lruList[m]].pin # 0
  BY <1>1, <1>4, <1>5
<1> QED
  BY <1>1, <1>5, <1>6 DEF SelectVictimFrame

\* FetchPage reports PF_NOBUF only while every frame is in some caller's hands:
\* no frame is ever lost to the replacement order, and no pin leaks.
THEOREM NoBufMeansAllHeld ==
  ASSUME ~ ReadFaults PROVE Spec => []NoBufOnlyWhenAllHeld
<1>1. Init => NoBufOnlyWhenAllHeld
  BY DEF Init, NoBufOnlyWhenAllHeld
<1>2. ASSUME PoolInv, NoBufOnlyWhenAllHeld, [Next]_vars PROVE NoBufOnlyWhenAllHeld'
  <2>1. ASSUME NEW h \in Handles, NEW k \in Key, FetchNoBuf(h, k)
        PROVE  NoBufOnlyWhenAllHeld'
    <3>1. \A f \in Frame : frames[f].pin # 0
      BY <1>2, <2>1, SomeVictim DEF FetchNoBuf, PoolInv
    <3>2. \A f \in Frame : Holders(f) # {}
      BY <1>2, <3>1, FS_EmptySet DEF PoolInv, PinsAreHolders
    <3>3. Frame' = Frame /\ \A f \in Frame : Holders(f)' = Holders(f)
      BY <2>1 DEF FetchNoBuf, Frame, Holders
    <3> QED
      BY <3>2, <3>3 DEF NoBufOnlyWhenAllHeld
  <2>2. CASE UNCHANGED vars
    <3>1. Frame' = Frame /\ rc' = rc /\ \A f \in Frame : Holders(f)' = Holders(f)
      BY <2>2 DEF vars, Frame, Holders
    <3> QED
      BY <1>2, <3>1 DEF NoBufOnlyWhenAllHeld
  <2>3. CASE rc' # "PF_NOBUF"
    BY <2>3 DEF NoBufOnlyWhenAllHeld
  <2>4. CASE Next /\ rc' = "PF_NOBUF"
    <3>1. ASSUME NEW h \in Handles, NEW k \in Key, FetchPage(h, k) \/ PinPage(h, k)
          PROVE  FetchNoBuf(h, k)
      BY <2>4, <3>1 DEF FetchPage, FetchHit, FetchMiss, FetchWriteFails,
                        FetchReadFails, PinPage
    <3>2. ASSUME NEW h \in Handles, NEW v \in Values PROVE ~ MarkDirty(h, v)
      BY <2>4 DEF MarkDirty
    <3>3. ASSUME NEW h \in Handles PROVE ~ UnpinPage(h)
      BY <2>4 DEF UnpinPage, Unpin
    <3>4. ASSUME NEW k \in Key PROVE ~ UnpinUnheld(k)
      BY <2>4 DEF UnpinUnheld, Unpin
    <3>5. ASSUME NEW fd \in Fds
          PROVE  ~ (FlushAllPages(fd) \/ FlushFails(fd) \/ ClearFilePages(fd))
      BY <2>4 DEF FlushAllPages, FlushFails, ClearFilePages
    <3>6. ASSUME NEW n \in PoolSizes PROVE ~ ReinitializeBuffer(n)
      BY <2>4 DEF ReinitializeBuffer
    <3>7. ~ ReinitializeFails /\ ~ Exit
      BY <2>4 DEF ReinitializeFails, Exit
    <3> QED
      BY <2>1, <2>4, <3>1, <3>2, <3>3, <3>4, <3>5, <3>6, <3>7 DEF Next
  <2> QED
    BY <1>2, <2>2, <2>3, <2>4
<1> QED
  BY PoolInvariant, <1>1, <1>2, PTL DEF Spec

-----------------------------------------------------------------------------
(* What holds even when reads fail *)

\* What a failed read cannot break: the types, the replacement order and the
\* table.  The copies of a page, and all that rests on them, it does break.
TableInv == TypeOK /\ LruListsEveryFrame /\ TableSound

\* Whatever frames are written, the files hold pages.
LEMMA WrittenIsData ==
  ASSUME TypeOK, NEW S \in SUBSET Frame, NEW outcome
  PROVE  WriteFrameToDisk(S, outcome) \in [Key -> Data]
<1> DEFINE W(k) == {f \in S : frames[f].key = k /\ outcome[f] # "refused"}
           D(k) == IF W(k) = {} THEN disk[k]
                   ELSE LET f == LastOf(W(k))
                        IN  IF outcome[f] = "torn" THEN Torn ELSE frames[f].data
<1>1. WriteFrameToDisk(S, outcome) = [k \in Key |-> D(k)]
  BY DEF WriteFrameToDisk
<1>2. ASSUME NEW T \in SUBSET Frame, T # {} PROVE LastOf(T) \in Frame
  <2> DEFINE Left == {poolSize - 1 - f : f \in T}
  <2>0. poolSize \in Nat /\ \A f \in T : f \in Int /\ 0 <= f /\ f <= poolSize - 1
    BY DEF TypeOK, Frame
  <2>1. Left \subseteq Nat /\ Left # {} /\ poolSize \in Nat
    BY <1>2, <2>0
  <2>2. PICK n \in Left : \A m \in Left : n <= m
    <3> HIDE DEF Left
    <3> QED
      BY <2>1, LeastElement
  <2>3. PICK f \in T : n = poolSize - 1 - f
    OBVIOUS
  <2>4. \A g \in T : g <= f
    <3> SUFFICES ASSUME NEW g \in T PROVE g <= f
      OBVIOUS
    <3>1. n <= poolSize - 1 - g
      BY <2>2
    <3>2. f \in Int /\ g \in Int
      BY <2>0
    <3> QED
      BY <2>1, <2>3, <3>1, <3>2
  <2> QED
    BY <2>4 DEF LastOf
<1>3. ASSUME NEW k \in Key PROVE D(k) \in Data
  <2>1. disk[k] \in Data /\ \A f \in Frame : frames[f].data \in Data
    BY DEF TypeOK, FrameRecord
  <2>2. W(k) \in SUBSET Frame
    OBVIOUS
  <2>3. W(k) # {} => LastOf(W(k)) \in Frame
    BY <1>2, <2>2
  <2> HIDE DEF W
  <2> QED
    BY <2>1, <2>3 DEF Data
<1> HIDE DEF D
<1> QED
  BY <1>1, <1>3

\* Most calls leave each frame its page and take entries out of the table at
\* most.
LEMMA PagesStayPut ==
  ASSUME TableInv, poolSize' = poolSize,
         frames' \in [Frame -> FrameRecord],
         \A f \in Frame : frames'[f].key = frames[f].key,
         pageTable' \in [Key -> Frame \union {NoFrame}],
         \A k \in Key : pageTable'[k] \in {NoFrame, pageTable[k]},
         lruList' = lruList \/ \E f \in Frame : lruList' = MoveToBack(f),
         disk' \in [Key -> Data],
         ptr' \in [Handles -> [key : Key, frame : Frame] \union {NoPtr}],
         rc' \in RCs, synced' \in SUBSET Fds
  PROVE  TableInv'
<1>1. Frame' = Frame /\ NoFrame' = NoFrame
  BY DEF Frame, NoFrame
<1>2. /\ lruList' \in [1 .. poolSize -> Frame]
      /\ \A g \in Frame : \E i \in 1 .. poolSize : lruList'[i] = g
  <2>1. TypeOK /\ LruListsEveryFrame
    BY DEF TableInv
  <2>2. CASE lruList' = lruList
    <3>1. lruList \in [1 .. poolSize -> Frame] /\ DOMAIN lruList = 1 .. poolSize
      BY <2>1 DEF TypeOK
    <3>2. \A g \in Frame : \E i \in 1 .. poolSize : lruList[i] = g
      BY <2>1, <3>1 DEF LruListsEveryFrame
    <3> QED
      BY <2>2, <3>1, <3>2
  <2>3. CASE \E f \in Frame : lruList' = MoveToBack(f)
    <3>1. PICK f \in Frame : lruList' = MoveToBack(f)
      BY <2>3
    <3>2. /\ MoveToBack(f) \in [1 .. poolSize -> Frame]
          /\ \A g \in Frame : \E i \in 1 .. poolSize : MoveToBack(f)[i] = g
      BY <2>1, MoveToBackLists
    <3> QED
      BY <3>1, <3>2
  <2> QED
    BY <2>2, <2>3
<1>3. TypeOK'
  BY <1>1, <1>2 DEF TableInv, TypeOK
<1>4. LruListsEveryFrame'
  BY <1>1, <1>2 DEF LruListsEveryFrame
<1>5. TableSound'
  <2> SUFFICES ASSUME NEW k \in Key, pageTable'[k] # NoFrame
               PROVE  frames'[pageTable'[k]].key = k
    BY <1>1 DEF TableSound
  <2>1. pageTable'[k] = pageTable[k] /\ pageTable[k] \in Frame
    BY DEF TableInv, TypeOK
  <2> QED
    BY <2>1 DEF TableInv, TableSound
<1> QED
  BY <1>3, <1>4, <1>5 DEF TableInv

\* A fetch keeps the table sound, even one whose read failed.
LEMMA FetchKeepsTable ==
  ASSUME TableInv, NEW h \in Handles, NEW k \in Key, FetchPage(h, k)
  PROVE  TableInv'
<1>1. TypeOK /\ \A f \in Frame : frames[f].pin + 1 \in Nat
  BY DEF TableInv, TypeOK, FrameRecord
<1>2. CASE FetchHit(h, k)
  <2>1. pageTable[k] \in Frame /\ NoFrame \notin Frame
    BY <1>1, <1>2 DEF FetchHit, TypeOK, NoFrame, Frame
  <2>2. /\ frames' \in [Frame -> FrameRecord]
        /\ \A g \in Frame : frames'[g].key = frames[g].key
    BY <1>1, <1>2, <2>1, PinChange DEF FetchHit
  <2>3. /\ UNCHANGED <<poolSize, pageTable, disk, synced>>
        /\ ptr' = [ptr EXCEPT ![h] = [key |-> k, frame |-> pageTable[k]]]
        /\ lruList' = MoveToBack(pageTable[k])
        /\ rc' \in RCs
    BY <1>2 DEF FetchHit, RCs
  <2> QED
    BY <1>1, <2>1, <2>2, <2>3, PagesStayPut DEF TypeOK
<1>3. CASE FetchNoBuf(h, k)
  BY <1>1, <1>3, PagesStayPut DEF FetchNoBuf, TypeOK, RCs
<1>4. CASE FetchWriteFails(h, k)
  <2>1. PICK f \in Frame, outcome \in Outcomes \ {"written"} :
          VictimWritten(h, k, f, outcome)
    BY <1>4 DEF FetchWriteFails
  <2>2. disk' \in [Key -> Data]
    BY <1>1, <2>1, WrittenIsData DEF VictimWritten
  <2>3. UNCHANGED <<poolSize, frames, lruList, pageTable, ptr, synced>> /\ rc' \in RCs
    BY <1>4 DEF FetchWriteFails, RCs
  <2> QED
    BY <1>1, <2>2, <2>3, PagesStayPut DEF TypeOK
<1>5. CASE FetchReadFails(h, k)
  <2>1. PICK f \in Frame : /\ VictimWritten(h, k, f, "written")
                           /\ pageTable' = TableWithout(f)
    BY <1>5 DEF FetchReadFails
  <2>2. disk' \in [Key -> Data]
    BY <1>1, <2>1, WrittenIsData DEF VictimWritten
  <2>3. /\ pageTable' \in [Key -> Frame \union {NoFrame}]
        /\ \A l \in Key : pageTable'[l] \in {NoFrame, pageTable[l]}
    BY <1>1, <2>1 DEF TableWithout, TypeOK
  <2>4. UNCHANGED <<poolSize, frames, lruList, ptr, synced>> /\ rc' \in RCs
    BY <1>5 DEF FetchReadFails, RCs
  <2> QED
    BY <1>1, <2>2, <2>3, <2>4, PagesStayPut DEF TypeOK
<1>6. CASE FetchMiss(h, k)
  <2>1. PICK f \in Frame :
          /\ VictimWritten(h, k, f, "written")
          /\ frames' = [frames EXCEPT ![f] = [key |-> k, dirty |-> FALSE,
                                             pin |-> 1, data |-> disk'[k]]]
          /\ pageTable' = [TableWithout(f) EXCEPT ![k] = f]
          /\ lruList' = MoveToBack(f)
          /\ ptr' = [ptr EXCEPT ![h] = [key |-> k, frame |-> f]]
          /\ rc' = "OK"
          /\ UNCHANGED <<poolSize, synced>>
    BY <1>6 DEF FetchMiss
  <2>2. disk' \in [Key -> Data]
    BY <1>1, <2>1, WrittenIsData DEF VictimWritten
  <2>3. /\ frames' \in [Frame -> FrameRecord]
        /\ frames'[f].key = k
        /\ \A g \in Frame : g # f => frames'[g] = frames[g]
    <3>1. [key |-> k, dirty |-> FALSE, pin |-> 1, data |-> disk'[k]] \in FrameRecord
      BY <2>2 DEF FrameRecord
    <3> QED
      BY <1>1, <2>1, <3>1 DEF TypeOK
  <2>4. /\ pageTable' \in [Key -> Frame \union {NoFrame}]
        /\ pageTable'[k] = f
        /\ \A l \in Key : l # k =>
             pageTable'[l] = IF l = frames[f].key THEN NoFrame ELSE pageTable[l]
    BY <1>1, <2>1 DEF TableWithout, TypeOK
  <2>5. Frame' = Frame /\ NoFrame' = NoFrame
    BY <2>1 DEF Frame, NoFrame
  <2>6. /\ lruList' \in [1 .. poolSize -> Frame]
        /\ \A g \in Frame : \E i \in 1 .. poolSize : lruList'[i] = g
    BY <2>1, MoveToBackLists DEF TableInv
  <2>7. TypeOK'
    BY <1>1, <2>1, <2>2, <2>3, <2>4, <2>5, <2>6 DEF TypeOK, RCs
  <2>8. LruListsEveryFrame'
    BY <2>1, <2>5, <2>6 DEF LruListsEveryFrame, TypeOK
  <2>9. TableSound'
    <3> SUFFICES ASSUME NEW l \in Key, pageTable'[l] # NoFrame
                 PROVE  frames'[pageTable'[l]].key = l
      BY <2>5 DEF TableSound
    <3>1. CASE l = k
      BY <2>3, <2>4, <3>1
    <3>2. CASE l # k
      <4>1. l # frames[f].key /\ pageTable'[l] = pageTable[l]
        BY <2>4, <3>2
      <4>2. pageTable[l] \in Frame /\ frames[pageTable[l]].key = l
        BY <1>1, <4>1 DEF TypeOK, TableInv, TableSound
      <4> QED
        BY <2>3, <4>1, <4>2
    <3> QED
      BY <3>1, <3>2
  <2> QED
    BY <2>7, <2>8, <2>9 DEF TableInv
<1> QED
  BY <1>2, <1>3, <1>4, <1>5, <1>6 DEF FetchPage

\* UnpinPage changes a pin count at most, and never to a negative one.
LEMMA UnpinKeepsPages ==
  ASSUME TypeOK, NEW k \in Key, Unpin(k)
  PROVE  /\ frames' \in [Frame -> FrameRecord]
         /\ \A g \in Frame : frames'[g].key = frames[g].key
         /\ rc' \in RCs
<1> DEFINE f == pageTable[k]
<1>1. CASE frames' = frames
  BY <1>1 DEF TypeOK, Unpin, RCs
<1>2. CASE frames' # frames
  <2>1. f # NoFrame /\ ~ (frames[f].pin <= 0) /\ frames' = WithPin(f, frames[f].pin - 1)
    BY <1>2 DEF Unpin
  <2>2. f \in Frame
    BY <2>1 DEF TypeOK
  <2>3. frames[f].pin \in Nat
    BY <2>2 DEF TypeOK, FrameRecord
  <2>4. frames[f].pin - 1 \in Nat
    BY <2>1, <2>3
  <2>5. rc' \in RCs
    BY <1>2 DEF Unpin, RCs
  <2> HIDE DEF f
  <2> QED
    BY <2>1, <2>2, <2>4, <2>5, PinChange
<1> QED
  BY <1>1, <1>2

\* So does a caller that pins, writes or gives back a page.
LEMMA CallersKeepTable ==
  ASSUME TableInv, NEW h \in Handles,
         \/ \E k \in Key : PinPage(h, k)
         \/ \E v \in Values : MarkDirty(h, v)
         \/ UnpinPage(h)
  PROVE  TableInv'
<1>1. /\ TypeOK
      /\ NoFrame \notin Frame
      /\ \A f \in Frame : frames[f] \in FrameRecord /\ frames[f].pin \in Nat
                          /\ frames[f].pin + 1 \in Nat
  BY DEF TableInv, TypeOK, FrameRecord, NoFrame, Frame
<1>2. ASSUME NEW k \in Key, PinPage(h, k) PROVE TableInv'
  <2>1. CASE pageTable[k] = NoFrame
    BY <1>1, <1>2, <2>1, PagesStayPut DEF PinPage, TypeOK, RCs
  <2>2. CASE pageTable[k] # NoFrame
    <3>1. pageTable[k] \in Frame
      BY <1>1, <2>2 DEF TypeOK
    <3>2. /\ frames' \in [Frame -> FrameRecord]
          /\ \A g \in Frame : frames'[g].key = frames[g].key
      BY <1>1, <1>2, <2>2, <3>1, PinChange DEF PinPage
    <3>3. /\ UNCHANGED <<poolSize, lruList, pageTable, disk, synced>>
          /\ ptr' = [ptr EXCEPT ![h] = [key |-> k, frame |-> pageTable[k]]]
          /\ rc' \in RCs
      BY <1>2, <2>2 DEF PinPage, RCs
    <3> QED
      BY <1>1, <3>1, <3>2, <3>3, PagesStayPut DEF TypeOK
  <2> QED
    BY <2>1, <2>2
<1>3. ASSUME NEW v \in Values, MarkDirty(h, v) PROVE TableInv'
  <2> DEFINE found == pageTable[ptr[h].key]
             wrote == WithData(ptr[h].frame, v)
  <2>1. ptr[h].key \in Key /\ ptr[h].frame \in Frame
    BY <1>1, <1>3 DEF MarkDirty, TypeOK
  <2>2. found \in Frame \union {NoFrame}
    BY <1>1, <2>1 DEF TypeOK
  <2>3. wrote \in [Frame -> FrameRecord] /\ \A g \in Frame : wrote[g].key = frames[g].key
    <3>1. wrote = [g \in Frame |-> IF g = ptr[h].frame
                                   THEN [frames[g] EXCEPT !.data = v] ELSE frames[g]]
      BY <1>1, <2>1 DEF WithData, TypeOK
    <3>2. \A g \in Frame : /\ [frames[g] EXCEPT !.data = v] \in FrameRecord
                           /\ [frames[g] EXCEPT !.data = v].key = frames[g].key
      BY <1>1 DEF FrameRecord, Data
    <3> HIDE DEF wrote
    <3> QED
      BY <1>1, <3>1, <3>2
  <2>4. \/ frames' = wrote
        \/ found # NoFrame /\ frames' = [wrote EXCEPT ![found] = SetDirty(@, TRUE)]
    BY <1>3 DEF MarkDirty
  <2>5. /\ UNCHANGED <<poolSize, lruList, pageTable, disk, ptr>>
        /\ synced' \subseteq synced /\ rc' \in RCs
    BY <1>3 DEF MarkDirty, RCs
  <2> HIDE DEF found, wrote
  <2>6. /\ frames' \in [Frame -> FrameRecord]
        /\ \A g \in Frame : frames'[g].key = frames[g].key
    <3>1. CASE frames' = wrote
      BY <2>3, <3>1
    <3>2. CASE found # NoFrame /\ frames' = [wrote EXCEPT ![found] = SetDirty(@, TRUE)]
      <4>1. found \in Frame /\ wrote[found] \in FrameRecord
        BY <2>2, <2>3, <3>2
      <4>2. /\ SetDirty(wrote[found], TRUE) \in FrameRecord
            /\ SetDirty(wrote[found], TRUE).key = wrote[found].key
        BY <4>1, SetDirtyFields
      <4>3. frames' = [g \in Frame |-> IF g = found THEN SetDirty(wrote[found], TRUE)
                                       ELSE wrote[g]]
        BY <2>3, <3>2, <4>1
      <4> QED
        BY <2>3, <4>1, <4>2, <4>3
    <3> QED
      BY <2>4, <3>1, <3>2
  <2> QED
    BY <1>1, <2>5, <2>6, PagesStayPut DEF TypeOK
<1>4. CASE UnpinPage(h)
  <2>1. ptr[h].key \in Key
    BY <1>1, <1>4 DEF UnpinPage, TypeOK
  <2>2. /\ frames' \in [Frame -> FrameRecord]
        /\ \A g \in Frame : frames'[g].key = frames[g].key
        /\ rc' \in RCs
    BY <1>4, <2>1, UnpinKeepsPages DEF UnpinPage, TableInv
  <2>3. /\ UNCHANGED <<poolSize, lruList, pageTable, disk, synced>>
        /\ ptr' = [ptr EXCEPT ![h] = NoPtr]
    BY <1>4 DEF UnpinPage
  <2> QED
    BY <1>1, <2>2, <2>3, PagesStayPut DEF TypeOK
<1> QED
  BY <1>2, <1>3, <1>4

\* Flushing and clearing a file keep it, whatever could not be written.
LEMMA FlushesKeepTable ==
  ASSUME TableInv, NEW fd \in Fds,
         FlushAllPages(fd) \/ FlushFails(fd) \/ ClearFilePages(fd)
  PROVE  TableInv'
<1>1. TypeOK /\ DirtyFrames(fd) \in SUBSET Frame /\ NoFrame \notin Frame
  BY DEF TableInv, TypeOK, DirtyFrames, NoFrame, Frame
<1>2. PICK outcome : Flush(fd, outcome)
                     /\ (frames' = Cleaned(outcome) \/ ClearFilePages(fd))
  BY DEF FlushAllPages, FlushFails, ClearFilePages
<1>3. disk' \in [Key -> Data]
  BY <1>1, <1>2, WrittenIsData DEF Flush
<1>4. ASSUME NEW o
      PROVE  /\ Cleaned(o) \in [Frame -> FrameRecord]
             /\ \A f \in Frame : Cleaned(o)[f].key = frames[f].key
  <2>1. \A f \in Frame : /\ frames[f] \in FrameRecord
                         /\ SetDirty(frames[f], FALSE) \in FrameRecord
                         /\ SetDirty(frames[f], FALSE).key = frames[f].key
    BY <1>1, SetDirtyFields DEF TypeOK
  <2> QED
    BY <2>1 DEF Cleaned
<1>5. CASE FlushAllPages(fd) \/ FlushFails(fd)
  <2>1. PICK o : frames' = Cleaned(o)
    BY <1>5 DEF FlushAllPages, FlushFails
  <2>2. /\ frames' \in [Frame -> FrameRecord]
        /\ \A f \in Frame : frames'[f].key = frames[f].key
    BY <1>4, <2>1
  <2>3. /\ UNCHANGED <<poolSize, lruList, pageTable, ptr>>
        /\ rc' \in RCs /\ synced' \in SUBSET Fds
    BY <1>1, <1>5 DEF FlushAllPages, FlushFails, RCs, TypeOK
  <2> QED
    BY <1>1, <1>3, <2>2, <2>3, PagesStayPut DEF TypeOK
<1>6. CASE ClearFilePages(fd)
  <2> DEFINE dropped == {f \in Frame : /\ frames[f].key \in Key
                                       /\ frames[f].key[1] = fd
                                       /\ frames[f].pin = 0}
             o == [f \in DirtyFrames(fd) |-> "written"]
  <2>1. /\ frames' = [f \in Frame |-> IF f \in dropped THEN EmptyFrame
                                      ELSE Cleaned(o)[f]]
        /\ pageTable' = [k \in Key |-> IF \E f \in dropped : frames[f].key = k
                                       THEN NoFrame ELSE pageTable[k]]
        /\ UNCHANGED <<poolSize, lruList, ptr>>
        /\ rc' \in RCs /\ synced' \in SUBSET Fds
    BY <1>1, <1>6 DEF ClearFilePages, RCs, TypeOK
  <2> HIDE DEF dropped, o
  <2>2. EmptyFrame \in FrameRecord
    BY DEF EmptyFrame, FrameRecord, Data
  <2>3. /\ frames' \in [Frame -> FrameRecord]
        /\ \A f \in Frame \ dropped : frames'[f].key = frames[f].key
    BY <1>4, <2>1, <2>2
  <2>4. Frame' = Frame /\ NoFrame' = NoFrame
    BY <2>1 DEF Frame, NoFrame
  <2>5. TypeOK'
    BY <1>1, <1>3, <2>1, <2>3, <2>4 DEF TypeOK
  <2>6. LruListsEveryFrame'
    BY <2>1, <2>4 DEF TableInv, LruListsEveryFrame
  <2>7. TableSound'
    <3> SUFFICES ASSUME NEW k \in Key, pageTable'[k] # NoFrame
                 PROVE  frames'[pageTable'[k]].key = k
      BY <2>4 DEF TableSound
    <3>1. pageTable'[k] = pageTable[k] /\ ~ \E f \in dropped : frames[f].key = k
      BY <2>1
    <3>2. pageTable[k] \in Frame /\ frames[pageTable[k]].key = k
      BY <1>1, <3>1 DEF TypeOK, TableInv, TableSound
    <3> QED
      BY <2>3, <3>1, <3>2
  <2> QED
    BY <2>5, <2>6, <2>7 DEF TableInv
<1> QED
  BY <1>5, <1>6

\* A pool of empty frames starts with an empty table.
LEMMA EmptyPoolKeepsTable ==
  ASSUME TableInv, NEW n \in PoolSizes, EmptyPool(n),
         ptr' = [h \in Handles |-> NoPtr],
         disk' \in [Key -> Data], synced' = synced, rc' \in RCs
  PROVE  TableInv'
<1>1. n \in Nat \ {0} /\ poolSize' = n /\ Frame' = 0 .. n - 1
  BY DEF EmptyPool, Frame
<1>2. /\ frames' = [f \in 0 .. n - 1 |-> EmptyFrame]
      /\ lruList' = [i \in 1 .. n |-> i - 1]
      /\ pageTable' = [k \in Key |-> NoFrame]
      /\ EmptyFrame \in FrameRecord
  BY DEF EmptyPool, EmptyFrame, FrameRecord, Data
<1>3. synced' \subseteq Fds
  BY DEF TableInv, TypeOK
<1>4. TypeOK'
  BY <1>1, <1>2, <1>3 DEF TypeOK
<1>5. LruListsEveryFrame' /\ TableSound'
  BY <1>1, <1>2 DEF LruListsEveryFrame, TableSound, NoFrame
<1> QED
  BY <1>4, <1>5 DEF TableInv

\* Every step keeps the types, the replacement order and the table, failed reads
\* included.
LEMMA NextKeepsTable == ASSUME TableInv, [Next]_vars PROVE TableInv'
<1>0. TypeOK /\ AllDirtyFrames \in SUBSET Frame
  BY DEF TableInv, AllDirtyFrames
<1>1. CASE \E h \in Handles, k \in Key : FetchPage(h, k) \/ PinPage(h, k)
  BY <1>1, FetchKeepsTable, CallersKeepTable
<1>2. CASE \E h \in Handles, v \in Values : MarkDirty(h, v)
  BY <1>2, CallersKeepTable
<1>3. CASE \E h \in Handles : UnpinPage(h)
  BY <1>3, CallersKeepTable
<1>4. CASE \E k \in Key : UnpinUnheld(k)
  <2>1. PICK k \in Key : UnpinUnheld(k)
    BY <1>4
  <2>2. /\ frames' \in [Frame -> FrameRecord]
        /\ \A g \in Frame : frames'[g].key = frames[g].key
        /\ rc' \in RCs
    BY <1>0, <2>1, UnpinKeepsPages DEF UnpinUnheld, TableInv
  <2>3. UNCHANGED <<poolSize, lruList, pageTable, disk, ptr, synced>>
    BY <2>1 DEF UnpinUnheld
  <2> QED
    BY <1>0, <2>2, <2>3, PagesStayPut DEF TypeOK
<1>5. CASE \E fd \in Fds : FlushAllPages(fd) \/ FlushFails(fd) \/ ClearFilePages(fd)
  BY <1>5, FlushesKeepTable
<1>6. CASE \E n \in PoolSizes : ReinitializeBuffer(n)
  <2>1. PICK n \in PoolSizes : ReinitializeBuffer(n)
    BY <1>6
  <2>2. disk' \in [Key -> Data]
    BY <1>0, <2>1, WrittenIsData DEF ReinitializeBuffer
  <2>3. /\ EmptyPool(n) /\ ptr' = [h \in Handles |-> NoPtr]
        /\ synced' = synced /\ rc' \in RCs
    BY <1>0, <2>1 DEF ReinitializeBuffer, TypeOK, RCs
  <2> QED
    BY <2>2, <2>3, EmptyPoolKeepsTable
<1>7. CASE ReinitializeFails
  <2>1. PICK o : disk' = WriteFrameToDisk(AllDirtyFrames, o)
    BY <1>7 DEF ReinitializeFails
  <2>2. disk' \in [Key -> Data]
    BY <1>0, <2>1, WrittenIsData
  <2>3. UNCHANGED <<poolSize, frames, lruList, pageTable, ptr, synced>> /\ rc' \in RCs
    BY <1>7 DEF ReinitializeFails, RCs
  <2> QED
    BY <1>0, <2>2, <2>3, PagesStayPut DEF TypeOK
<1>8. CASE Exit
  <2>1. /\ InitialSize \in PoolSizes /\ EmptyPool(InitialSize)
        /\ ptr' = [h \in Handles |-> NoPtr]
        /\ disk' \in [Key -> Data] /\ synced' = synced /\ rc' \in RCs
    BY <1>0, <1>8 DEF Exit, TypeOK, RCs
  <2> QED
    BY <2>1, EmptyPoolKeepsTable
<1>9. CASE UNCHANGED vars
  <2>1. UNCHANGED <<poolSize, frames, lruList, pageTable, disk, ptr, rc, synced>>
    BY <1>9 DEF vars
  <2> QED
    BY <1>0, <2>1, PagesStayPut DEF TypeOK
<1> QED
  BY <1>1, <1>2, <1>3, <1>4, <1>5, <1>6, <1>7, <1>8, <1>9 DEF Next

\* The invariant above holds for every value of the constants, read faults or not.
THEOREM TableInvariant == Spec => []TableInv
<1>1. Init => TableInv
  BY InitPoolInv DEF PoolInv, TableInv
<1>2. TableInv /\ [Next]_vars => TableInv'
  BY NextKeepsTable
<1> QED
  BY <1>1, <1>2, PTL DEF Spec

\* No call loses a frame from the replacement order: erasing a frame from
\* lruList and pushing it back keeps every frame a candidate, failed calls and
\* failed reads included.
THEOREM EveryFrameIsListed == Spec => []LruListsEveryFrame
<1>1. TableInv => LruListsEveryFrame
  BY DEF TableInv
<1> QED
  BY TableInvariant, <1>1, PTL

\* FetchPage never hands out another page's data: an entry of the page table
\* leads to a frame that holds that page, even after reads that failed and left
\* frames with the identity of a page they no longer hold.
THEOREM TableIsSound == Spec => []TableSound
<1>1. TableInv => TableSound
  BY DEF TableInv
<1> QED
  BY TableInvariant, <1>1, PTL
=============================================================================
