SPECIFICATION TtySpec
CONSTANTS
  Rows = 4
  Columns = 2
  Keyboard = {2, 30, 14, 28, 75, 77, 42, 58}
  Processes = {1, 2}
  Lengths = {2}
  Numbers <- SomeNumbers
  NInput = 5
  NOutput = 2
  NPool = 7
  MaxKeys = 6
  MaxWrites = 1
INVARIANTS TtyInv ScreenShowsInput
PROPERTIES NumberShown ImplementsTerminal
CHECK_DEADLOCK FALSE
