SPECIFICATION Spec
CONSTANTS
  PageCount = 7
  FRAME_COUNT = 6
  MAPPED_COUNT = 5
  FileSize = 2
  Elves <- MCElves
  Zero = Zero
  Old = Old
  MapBytes = MapBytes
  Layouts <- MCLayouts
  Machines <- AllButOne
INVARIANTS
  KernelKept
  BootInfoReadInTime
  OutcomeExplained
PROPERTIES
  BootEnds
