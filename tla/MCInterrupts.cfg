SPECIFICATION Spec
CONSTANTS
  NPROC = 2
  NCPU = 2
  WORD = 3
  Sleeps = {2}
INVARIANTS InterruptsNest 
PROPERTIES TimeGoesOn
