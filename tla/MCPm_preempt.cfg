SPECIFICATION PmSpec
CONSTANTS
  NProcs = 3
  Codes = {7}
  ArgLists = {}
  BufferSize = 6
  Junk = {1}
  Preemptible = TRUE
INVARIANT NoImpossibleReturn
CHECK_DEADLOCK FALSE
