\* Replacement under pressure: the pages of two files share two frames, two page
\* handles are in use, and any write may fail or be cut short.
SPECIFICATION Spec
CONSTANTS
  Fds <- TwoFiles
  Pages <- TwoPages
  Values = {v1}
  Blank = Blank
  Torn = Torn
  Handles = {h1, h2}
  PoolSizes <- UpToTwo
  InitialSize = 2
  WriteFaults = TRUE
  ReadFaults = FALSE
  NoKey = NoKey
  NoPtr = NoPtr
INVARIANTS
  TypeOK
  OneCopyOfEachPage
  PinnedNotReplaced
  PinsAreHolders
  CleanFramesOnDisk
  SyncedFilesDurable
  NoBufOnlyWhenAllHeld
PROPERTIES
  ImplementsPageStore
