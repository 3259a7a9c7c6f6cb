SPECIFICATION FairInputSpec
CONSTANTS
  MaxKeys = 2
  loop_timeout = 2
  BootConfigs = {{0, 1, 6}}
  LeftOver = {{1, 3, 5, 7}}
  Scancodes = {{2, 3, 4}}
  MaxBytes = 5
  MaxPanics = 3
INVARIANTS
  SelfTestsPassed
  PanicsOnlyIfDisturbed
  ConfiguredAsTested
  InServiceOnlyInHandler
  NoByteForgotten
  PanicOnlyInsidePrint
PROPERTIES
  SetupEnds
  BytesAreTaken
