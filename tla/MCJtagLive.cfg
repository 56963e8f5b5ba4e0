SPECIFICATION LiveSpec
CONSTANTS
  BufLen = 2
  Depth = 2
  Threshold = 1
  IntMax = 3
  DefaultTimeout = 1
  Timeouts = {}
  Byte = {1}
  Calls = {"read", "write", "close"}
  MaxCount = 2
PROPERTIES WritesEnd ReaderWakes
