SPECIFICATION FairSpec
CONSTANTS
  FRAME_COUNT = 4
  MaxRequest = 2
  Top = 5
  MaxEntries = 3
  Types = {"CONVENTIONAL", "RESERVED"}
  MemoryMaps <- FirmwareMaps
INVARIANTS
  TypeOK
  NoReservedFrameFree
  PanicOnlyPastBitmap
PROPERTIES
  InitLosesNoFrame
  AllCallsEnd
