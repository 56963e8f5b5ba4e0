SPECIFICATION SideSpec
CONSTANTS
  BufLen = 3
  Depth = 2
  Threshold = 1
  IntMax = 4
  DefaultTimeout = 2
  Timeouts = {1, 2}
  Byte = {1, 2}
  Calls = {"read", "write", "close"}
  MaxCount = 3
INVARIANT NeverStalls
PROPERTIES OutputIsPipe InputIsPipe
