SPECIFICATION DiskFairSpec
CONSTANTS
  NProc = 4
  PoolSize = 3
  Clients <- ChainClients
  SendTo <- ChainSendTo
  RecvFrom <- ChainRecvFrom
  IrqTo <- ChainIrqTo
  Body = {"read", "reply", "ready", "writeback"}
  AnySrc = AnySrc
  HardIntr = HardIntr
  Users = {3}
  FM = 1
  IDE = 2
  MaxCommands = 1
  MaxWriteBacks = 1
INVARIANTS NoPanic SchedulerReturns OneRequest DiskInv
PROPERTY ReadReturns
