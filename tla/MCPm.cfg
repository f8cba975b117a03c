SPECIFICATION PmSpec
CONSTANTS
  NProcs = 3
  Codes = {7}
  ArgLists <- OneList
  BufferSize = 6
  Junk = {1}
  Preemptible = FALSE
INVARIANTS WaitersBlocked AnswersAwaited PmInv
PROPERTY ImplementsProcesses
CHECK_DEADLOCK FALSE
