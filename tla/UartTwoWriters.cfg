SPECIFICATION Spec
CONSTANTS
  Writers = {"w1", "w2"}
  Readers = {}
  Chars = {"a", "cr"}
  CR = "cr"
  LF = "lf"
  BUF_SIZE = 3
PROPERTIES
  TransmitIsFifo
