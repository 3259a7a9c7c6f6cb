SPECIFICATION Spec
CONSTANTS
  EXTERNAL_IRQ_OFFSET = 32
  Keyboard = 1
  Mouse = 2
  MaxEntry = 3
  IoApicIds = {3, 18}
  ProcessorIds = {0, 1, 2}
  MaxTables = 2
  OldEntries <- SmallOldEntries
  Firmwares <- SmallFirmwares
INVARIANTS
  AllMasked
