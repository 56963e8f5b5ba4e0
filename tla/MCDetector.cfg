SPECIFICATION PartsSpec
CONSTANTS
  Root = 16
  RootWidth = 64
  Gradients <- Mixed
  RootSteps = 17
  SumRange = 512
  MaxClocks = 7
  MaxUpsets = 1
INVARIANTS RootIsSound HistogramIsOfLengths
PROPERTIES RootFound NormalizesNothing
CHECK_DEADLOCK FALSE
