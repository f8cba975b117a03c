SPECIFICATION Spec
CONSTANTS
  NProc = 3
  PoolSize = 3
  Clients = {1, 2}
  SendTo <- OneWaySendTo
  RecvFrom <- OneWayRecvFrom
  IrqTo <- OneWayIrqTo
  Body = {a, b}
  AnySrc = AnySrc
  HardIntr = HardIntr
  a = a
  b = b
PROPERTY MailboxSpec
