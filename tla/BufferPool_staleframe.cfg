\* A flush that reports success after a read that failed.
SPECIFICATION Spec
CONSTANTS
  Fds <- OneFile
  Pages <- ThreePages
  Values = {v1, v2}
  Blank = Blank
  Torn = Torn
  Handles = {h1, h2}
  PoolSizes <- UpToTwo
  InitialSize = 2
  WriteFaults = FALSE
  ReadFaults = TRUE
  NoKey = NoKey
  NoPtr = NoPtr
INVARIANTS
  SyncedFilesDurable
