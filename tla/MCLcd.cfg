SPECIFICATION PartsSpec
CONSTANTS
  Height = 2
  Width = 1
  Virtual = 2
  ByteWords = 6
  CharWords = 32
  EscSize = 5
  Plain = {"A", " ", "CR", "LF", "BS", "ESC"}
  InSequence = {"[", "1", "2", ";", "H", "J", "K"}
  MayBreak = FALSE
  TimerRuns = FALSE
INVARIANT DisplayIsTrue
