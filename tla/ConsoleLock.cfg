SPECIFICATION Spec
CONSTANTS
  loop_timeout = 2
  MaxBytes = 2
  MaxPanics = 3
INVARIANTS
  ConsoleUnwraps
