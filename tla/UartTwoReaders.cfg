SPECIFICATION Spec
CONSTANTS
  Writers = {}
  Readers = {"r1", "r2"}
  Chars = {"a", "cr"}
  CR = "cr"
  LF = "lf"
  BUF_SIZE = 3
PROPERTIES
  ReceiveIsFifo
