SPECIFICATION FairSpec
CONSTANTS
  Readers = {r1, r2}
  Writers = {w1}
  PIPESIZE = 2
  WORD = 4
  Byte = {b0, b1}
  MaxN = 3
  Faulty = {r1, w1}
  Killable = {r1, w1}
  NoProc = NoProc
INVARIANTS  NoMissedWakeup
PROPERTIES IsByteQueue CallReturns
CHECK_DEADLOCK FALSE
