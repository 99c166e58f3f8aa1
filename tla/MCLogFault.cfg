SPECIFICATION FaultSpec
CONSTANTS
  Procs = {p1, p2}
  Blocks = {b1, b2}
  Val = {v0, v1}
  Zero = v0
  NoVal = NoVal
  NoBlock = NoBlock
  MAXOPBLOCKS = 2
  LOGSIZE = 6
  NLog = 6
  OpBlocks = 2
INVARIANTS CleanUnlessPinned
