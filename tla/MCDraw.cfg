SPECIFICATION FairSpec
CONSTANTS
  Half = 4
  Coords = {0, 1, 2}
  Depth = 4
  Lines <- MCLines
  ScreenW = 3
  ScreenH = 2
  RamSize = 8
  Asked <- MCAsked
INVARIANTS QueueIsDrawn PictureComplete
PROPERTY RoundsEnd
