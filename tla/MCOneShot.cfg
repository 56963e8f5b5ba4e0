SPECIFICATION OneShotSpec
CONSTANTS
  Addrs <- MCAddrs
  Values <- MCSwitches
  MayNack = TRUE
  InputsHeld = FALSE
  MaxResets = 1
  ResetWhenDone = TRUE
PROPERTY OneTransactionEach
