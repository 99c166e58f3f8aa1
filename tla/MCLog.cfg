SPECIFICATION Spec
CONSTANTS
  Procs = {p1, p2, p3}
  Blocks = {b1, b2, b3}
  Val = {v0, v1}
  Zero = v0
  NoVal = NoVal
  NoBlock = NoBlock
  MAXOPBLOCKS = 2
  LOGSIZE = 6
  NLog = 6
  OpBlocks = 2
INVARIANTS QuietIsDurable CleanUnlessPinned SpaceAccounted
PROPERTY CrashAtomic
SYMMETRY Sym
