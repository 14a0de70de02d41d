SPECIFICATION FairSpec
CONSTANTS
  Writers = {"p"}
  Readers = {"p"}
  Chars = {"a", "cr"}
  CR = "cr"
  LF = "lf"
  BUF_SIZE = 3
PROPERTIES
  TransmitIsFifo
  ReceiveIsFifo
  TransmitGoesOn
  GetcReturns
