\* Any read() may fail, and no write.
SPECIFICATION Spec
CONSTANTS
  Fds <- OneFile
  Pages <- ThreePages
  Values = {v1}
  Blank = Blank
  Torn = Torn
  Handles = {h1, h2}
  PoolSizes <- UpToTwo
  InitialSize = 2
  WriteFaults = FALSE
  ReadFaults = TRUE
  NoKey = NoKey
  NoPtr = NoPtr
INVARIANTS
  LruListsEveryFrame
  TableSound
