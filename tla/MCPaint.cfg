SPECIFICATION PartsSpec
CONSTANTS
  LastX = 2
  LastY = 1
  Words = 8
  Bytes = 4
  MaxWrites = 2
  MaxPlugs = 2
  MayFail = TRUE
  Notices = TRUE
  Timely = FALSE
  Sizes = {4, 8}
  Device = device
  Unknown = unknown
  Failing = 1
  Places <- Corners
INVARIANTS AnswersAreCountedOnce ListIsSafe 
PROPERTIES MouseIsFollowed TransferIsInOrder CursorMoves BoardShowsThePlace
CHECK_DEADLOCK FALSE
