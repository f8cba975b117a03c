SPECIFICATION FairSpec
CONSTANTS
  Pids = {p1, p2, p3}
  NrAlarms = 3
  Seconds = {1, 2, 3}
  HZ = 2
  IntMax = 7
  p1 = p1
  p2 = p2
  p3 = p3
INVARIANTS TypeOK 
PROPERTIES  ClockSpec
