SPECIFICATION Spec
CONSTANTS
  Threads = {p1, p2}
  Irq = Irq
  MaxNest = 2
  MaxFrames = 2
  p1 = p1
  p2 = p2
INVARIANTS IInv
  SectionsExclusive InterruptsGivenBack InterruptsNotNested
