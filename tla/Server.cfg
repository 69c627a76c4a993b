SPECIFICATION Spec
CONSTANTS
  d1 = d1  d2 = d2
  None = None
  Device = {d1, d2}
  Setups <- All
INVARIANTS KeepAliveStays CompletedMeansSent SettlesComplete
PROPERTIES StopReturns AutoStopConverges
CHECK_DEADLOCK FALSE
