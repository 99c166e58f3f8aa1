SPECIFICATION Spec
CONSTANTS
  Procs = {"p1", "p2"}
  InitProc = "p1"
  NFILE = 3
  NOFILE = 2
  NPIPE = 1
INVARIANTS  ObjectsHeld
PROPERTIES WriteEndCloses
