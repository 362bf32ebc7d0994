\* Two files, with handles that come and go on either: any frame may be replaced, any
\* write may fail or be cut short, and any close fail.
SPECIFICATION Spec
CONSTANTS
  Files = {f1, f2}
  Fds = {0, 1}
  MaxPages = 1
  Values = {v1, v2}
  Blank = Blank
  Torn = Torn
  Closed = Closed
  NotCached = NotCached
INVARIANTS
  FramesAreOfTheirFile
  FreshHandlesReadTheLatest
  NothingAheadMeansOnDisk
