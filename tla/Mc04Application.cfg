SPECIFICATION Spec
CONSTANTS
  d1 = d1
  d2 = d2
  None = None
  Domains = {d1, d2}
  MaxTries = 2
  MaxPuk = 1
  TxCommands = 2
  Budget = 2
  Code <- Natives
INVARIANTS
  GuessesAreBounded
  RamAgrees
PROPERTIES
  TransactionIsInvisible
CHECK_DEADLOCK FALSE
