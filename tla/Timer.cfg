SPECIFICATION FairTimerSpec
CONSTANTS
  Messages = {"m1", "m2", "m3"}
  Timeouts = {0, 1, 3}
  FirstTick = 3
  Period = 2
  LATENCY = 2
  FAR = 4
  TVAL_RANGE = 16
INVARIANTS
  RegisterIsFirstEvent
PROPERTIES
  NeverEarly
  EveryEventFires
  TicksForever
