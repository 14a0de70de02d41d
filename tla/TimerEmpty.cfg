SPECIFICATION TimerSpec
CONSTANTS
  Messages = {"m1", "m2"}
  Timeouts = {0, 1, 3}
  FirstTick = 3
  Period = 2
  LATENCY = 2
  FAR = 715
  TVAL_RANGE = 16
PROPERTIES
  NoEventNoInterrupt
