SPECIFICATION Spec
CONSTANTS
  NPids = 3
  NPde = 2
  NPte = 3
  NKde = 1
  NFrames = 14
  PageSize = 4
  Programs <- Programs3
INVARIANTS CountsReferences UserPagesPrivate MemoryIsOwn PagesInv
