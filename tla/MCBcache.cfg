SPECIFICATION Spec
CONSTANTS
  NBUF = 2
  Procs = {p1, p2, p3}
  ind = ind
  map = map
  Blocks = {ind, map, b1}
  Val = {v0, v1}
  Zero = v0
  NoProc = NoProc
  NoBlock = NoBlock
  Nested <- IndirectThenBitmap
  MaxPins = 1
INVARIANTS TableSound RefcntExact SleeperHasRunner
PROPERTIES IsBlockStore
SYMMETRY Sym
