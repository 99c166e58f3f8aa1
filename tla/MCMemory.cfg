SPECIFICATION Spec
CONSTANTS
  Procs = {"p1", "p2"}
  InitProc = "p1"
  NPAGES = 17
  PGSIZE = 2
  NPTE = 2
  Programs <- TwoPrograms
  Grows <- UpAndDown
  MAXARGS = 1
  MaxCalls = 8
  Stores = {0, 1}
  MAXSZ = 7
INVARIANTS  MapsExact
PROPERTIES IsAddressSpaces
CHECK_DEADLOCK FALSE
