SPECIFICATION FairSpec
CONSTANTS
  Addrs <- MCAddrs
  Values <- MCValues
  MayNack = TRUE
  InputsHeld = TRUE
  MaxResets = 1
  ResetWhenDone = FALSE
INVARIANT EndsAgree
PROPERTIES ImplementsRegisterPort SdaMovesOnlyForStartStop TransactionsEnd
