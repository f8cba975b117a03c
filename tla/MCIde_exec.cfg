SPECIFICATION IdeSpec
CONSTANTS
  Callers = {"PM", "init"}
  Requests <- ExecRequests
  KernelSize = 2
  FileSize = 2
  SectorSize = 2
  NSlots = 2
  Contents <- DiskContents
  MaxRequests = 2
  MaxWriteBacks = 1
INVARIANT LoadsOwnFile
