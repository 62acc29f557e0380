\* Small applets and their one-byte variations, four frames deep.
SPECIFICATION FairSpec
CONSTANTS
  Packages <- SomePackages
  ArenaWords = 16
  ArenaTags = 3
  MaxDepth = 3
  MaxBudget = 40
  MaxObjects = 5
INVARIANTS
  RunsVerifiedCode
PROPERTIES
  WordsKeepKind
  InnermostHandler
  CommandsEnd
CHECK_DEADLOCK FALSE
