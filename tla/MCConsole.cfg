SPECIFICATION Spec
CONSTANTS
  Readers = {"r1", "r2"}
  Writers = {"w1"}
  INPUT_BUF_SIZE = 2
  UART_TX_BUF_SIZE = 1
  WORD = 4
  Keys = {"a", "cr", "eof", "kill", "del"}
  Counts = {2}
  Loads <- InAndOut
INVARIANTS SleepersHaveReason OutputMoves 
PROPERTIES IsLineInput
CHECK_DEADLOCK FALSE
