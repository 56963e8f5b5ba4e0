SPECIFICATION Spec
CONSTANTS
  Addrs <- MCAddrs
  Values <- MCValues
  MayNack = FALSE
  InputsHeld = TRUE
  MaxResets = 1
  ResetWhenDone = FALSE
INVARIANT BusHighWhenIdle
