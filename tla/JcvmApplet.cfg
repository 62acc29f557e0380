SPECIFICATION Spec
CONSTANTS
  Capacity = 20
  UndoCap = 2
  MaxSpans = 2
  TryLimit = 2
  LowWater = 4
  Budget = 3
  Codes <- Applets
INVARIANTS
  SpentBeforeCompared
PROPERTIES
  RecordIsValid
  ImplementsAppletMemory
CHECK_DEADLOCK FALSE
