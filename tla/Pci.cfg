SPECIFICATION PciSpec
CONSTANTS
  DEVICE_CAPACITY = 3
  DeviceCount = 2
  FunctionCount = 2
  BusCount = 3
  MaxFunctions = 4
  MaxBridges = 3
  ScanConfigs <- SmallConfigs
  ReadConfigs <- CornerConfigs
  Queried <- CornersQueried
  MaxIndex = 7
INVARIANTS
  TypeOK
  ScanIsComplete
  StoredOnce
  PanicsOnlyWhenFull
  NestingBounded
  FieldsRead
  BaseAddrRead
