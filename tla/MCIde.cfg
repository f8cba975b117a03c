SPECIFICATION IdeSpec
CONSTANTS
  Callers = {"PM", "init"}
  Requests <- MixedRequests
  KernelSize = 2
  FileSize = 2
  SectorSize = 2
  NSlots = 2
  Contents <- DiskContents
  MaxRequests = 3
  MaxWriteBacks = 1
INVARIANTS DriveInStep CleanIsOnDisk IdeInv
PROPERTIES ImplementsFlatDisk Durable
