------------------------------ MODULE PageStore ------------------------------
(***************************************************************************)
(* What the PF component promises to the components above it.  A page is    *)
(* <<descriptor, page number>>.  Reads see the latest write (`contents`),   *)
(* whatever the pool has evicted; what survives the end of the process is   *)
(* `durable`.  The store may write pages behind the caller's back at any    *)
(* time, except pages of a file in `synced`: one whose flush was            *)
(* acknowledged and that nobody has modified since.                         *)
(***************************************************************************)
EXTENDS Naturals

CONSTANTS Fds, Pages, Values,
          Blank,        \* a page nobody has written: all zeroes
          Torn,         \* what a short write leaves in the file
          WriteFaults   \* may write() fail or be short?

VARIABLES contents,     \* what a reader of each page gets
          durable,      \* what the file system holds
          pins,         \* how many callers hold each page
          synced        \* the descriptors whose last flush still stands

storeVars == <<contents, durable, pins, synced>>

Key  == Fds \X Pages
Data == Values \union {Blank, Torn}

Init ==
  /\ contents = [k \in Key |-> Blank]
  /\ durable  = contents
  /\ pins     = [k \in Key |-> 0]
  /\ synced   = {}

\* A background write of page k: it may leave the file as it was, hold the
\* latest contents or, when writes can fail, be torn.
Written(k) ==
  {durable[k], contents[k]} \union (IF WriteFaults THEN {Torn} ELSE {})

WriteBack ==
  /\ DOMAIN durable' = Key
  /\ \A k \in Key :
        durable'[k] \in IF k[1] \in synced THEN {durable[k]} ELSE Written(k)

\* A caller obtains a page; the store may have to make room for it.
Hold(k) ==
  /\ pins' = [pins EXCEPT ![k] = @ + 1]
  /\ WriteBack
  /\ UNCHANGED <<contents, synced>>

Modify(k, v) ==
  /\ pins[k] > 0
  /\ contents' = [contents EXCEPT ![k] = v]
  /\ synced'   = synced \ {k[1]}
  /\ UNCHANGED <<durable, pins>>

Release(k) ==
  /\ pins[k] > 0
  /\ pins' = [pins EXCEPT ![k] = @ - 1]
  /\ UNCHANGED <<contents, durable, synced>>

\* An acknowledged flush: every page of the file is now on disk.
Sync(fd) ==
  /\ durable' = [k \in Key |-> IF k[1] = fd THEN contents[k] ELSE durable[k]]
  /\ synced'  = synced \union {fd}
  /\ UNCHANGED <<contents, pins>>

\* A flush or an eviction that failed: any part of it may have happened.
Background ==
  /\ WriteBack
  /\ UNCHANGED <<contents, pins, synced>>

\* The process ends without flushing: only what is durable is left.
Exit ==
  /\ contents' = durable
  /\ pins'     = [k \in Key |-> 0]
  /\ UNCHANGED <<durable, synced>>

Next ==
  \/ \E k \in Key : Hold(k)
  \/ \E k \in Key, v \in Values : Modify(k, v)
  \/ \E k \in Key : Release(k)
  \/ \E fd \in Fds : Sync(fd)
  \/ Background
  \/ Exit

Spec == Init /\ [][Next]_storeVars
=============================================================================
