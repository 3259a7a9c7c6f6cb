SPECIFICATION PartsSpec
CONSTANTS
  ENTRIES = 14
  NUMBER_OF_PAGE_DIR = 9
  MaxRect = 3
  Arguments <- BorderArguments
  GraphicInfos <- Screens
  Colors <- TwoColors
  U8_FONT <- TwoGlyphs
  Cursor <- SmallCursor
  Calls <- SmallCalls
  MaxCalls = 2
  Words = 9
  CHARACTER_WIDTH = 2
  CHARACTER_HEIGHT = 2
  CAP = 3
  T = {a, b}
  None = None
INVARIANTS
  TypeOK
  IdentityMapped
  NothingElseMapped
  SegmentsReloaded
  NothingPastBuffer
  DrawnExactly
  YieldsInOrder
  PanicsOnlyPastFull
