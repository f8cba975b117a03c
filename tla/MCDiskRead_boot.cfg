SPECIFICATION DiskSpec
CONSTANTS
  NProc = 3
  PoolSize = 3
  Clients <- ChainClients
  SendTo <- ChainSendTo
  RecvFrom <- ChainRecvFrom
  IrqTo <- ChainIrqTo
  Body = {"read", "reply", "ready", "writeback"}
  AnySrc = AnySrc
  HardIntr = HardIntr
  Users = {0}
  FM = 1
  IDE = 2
  MaxCommands = 1
  MaxWriteBacks = 1
INVARIANT SchedulerReturns
