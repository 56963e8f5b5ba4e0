SPECIFICATION PartsSpec
CONSTANTS
  Depth = 4
  Data = {d1, d2, d3}
  Junk = junk
  Half = 8
  Coords <- MCCoords
  P_DIV_FACTOR = 4
  HLINES = 4
  HFP = 5
  HSP = 7
  HMAX = 9
  VLINES = 3
  VFP = 4
  VSP = 5
  VMAX = 7
INVARIANTS QueueAgrees LineIsDrawn ScanIsRight
PROPERTIES ImplementsQueue DebouncedButBlind
