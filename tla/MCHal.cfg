SPECIFICATION PartsSpec
CONSTANTS
  MaxFd = 6
  Device = {"/dev/null", "/dev/jtag_uart", "/dev/lcd"}
  Null = "/dev/null"
  FileSystem = {"/mnt"}
  Std <- StdIsUart
  Free = "free"
  Picky = {"/mnt"}
  OpenModes = {"O_RDWR"}
  UserFlags = {"O_NONBLOCK"}
  Alarm = {a1, a2, a3}
  List = list
  Wrap = 4
  Delays = {0, 1, 2}
  Periods = {1, 2, 3}
  StopAny = FALSE
  Size = 6
  LineSize = 2
  DLines = 2
  ILines = 1
  Values = {0, 1}
  Blocks <- MCBlocks
  Buffers <- MCBuffers
  Code = {3, 4, 5}
  Sharing = FALSE
  Width = 32
  US = 10
  tick_rate = 5
  MaxTicks = 20
  Times <- MCTimes
  Half = 4
INVARIANTS DescriptorsAgree AlarmsAgree CachesAreTrue
PROPERTIES LockHolds InterruptsAreSound ClocksGoOn ScrollsThrough
