SPECIFICATION FairSpec
CONSTANTS
  NProc = 3
  PoolSize = 2
  Clients = {1, 2}
  SendTo <- PairSendTo
  RecvFrom <- PairRecvFrom
  IrqTo <- PairIrqTo
  Body = {a}
  AnySrc = AnySrc
  HardIntr = HardIntr
  a = a
INVARIANTS IInv
  SleepersQueued Accounting 
  NoEmptyReceive NoLostWakeup SlotOwnership NeverSpins
PROPERTIES ReadyRuns Delivery
