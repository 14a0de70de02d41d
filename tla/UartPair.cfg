SPECIFICATION FairSpec
CONSTANTS
  Writers = {"w"}
  Readers = {"r"}
  Chars = {"cr"}
  CR = "cr"
  LF = "lf"
  BUF_SIZE = 3
PROPERTIES
  GetcReturns
