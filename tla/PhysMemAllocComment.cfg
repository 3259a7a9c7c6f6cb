SPECIFICATION Spec
CONSTANTS
  FRAME_COUNT = 4
  MaxRequest = 2
  Top = 4
  MaxEntries = 2
  Types = {"CONVENTIONAL", "RESERVED"}
  MemoryMaps <- FirmwareMaps
PROPERTIES
  AllocFindsRun
