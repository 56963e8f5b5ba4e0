SPECIFICATION ReaderSpec
CONSTANTS
  Addrs <- MCAddrs
  Values <- MCValues
  MayNack = FALSE
  InputsHeld = FALSE
  MaxResets = 0
  Watched = {"accXa", "accZa"}
INVARIANTS SensorIsObserved NeverItsOwnRegister
PROPERTY SavedIsRecent
