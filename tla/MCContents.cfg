SPECIFICATION Spec
CONSTANTS
  Procs = {"p1", "p2"}
  NoProc = NoProc
  Inodes = {1, 2}
  Opens = {"o1", "o2", "o3"}
  FileOf <- TwoFiles
  Calls <- TwoRoles
  Byte <- ByPosition
  Packed <- PackedBytes
  FSSIZE = 5
  BSIZE = 2
  NDIRECT = 1
  NINDIRECT = 3
  MAXOPBLOCKS = 6
  UINT = 16
  MaxCalls <- TwoAndThree
CHECK_DEADLOCK FALSE
INVARIANTS MapsSound OpFitsLog
 
