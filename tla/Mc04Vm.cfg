CONSTANTS
  Programs <- AllPrograms
  MaxStack = 5
  MaxFrames = 3
  MaxStates = 4
  MaxFuel = 16
  MaxObjects = 2
  MaxCells = 3
  Half = 2
SPECIFICATION FairSpec
INVARIANTS StackMatchesVerifier OnlyCallFormsFault IrreversibleOutsideTransaction
PROPERTY Terminates
CHECK_DEADLOCK FALSE
