SPECIFICATION Spec
CONSTANTS
  UEFI_PAGE_SIZE = 2
  PageCount = 3
  FileSize = 3
  MaxHeaders = 2
  MaxSize = 2
  Offsets = {0, 2}
  Zero = Zero
  Old = Old
  Elves <- SmallElves
INVARIANTS
  SegmentsLoaded
  EnoughPages
