SPECIFICATION Spec
CONSTANTS
  ROWS = 3
  COLUMNS = 3
  CHARACTER_WIDTH = 8
  CHARACTER_HEIGHT = 16
  Printable = {a, b}
  LineFeed = LineFeed
  NonAscii = NonAscii
  MaxString = 2
  Strings <- SmallStrings
  FrameSizes <- SmallFrames
INVARIANTS
  UnwrapsHold
  ScreenShowsBuffer
PROPERTIES
  ImplementsTerminal
