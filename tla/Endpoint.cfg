SPECIFICATION Spec
CONSTANTS
  MaxSessions = 2
  MaxCommands = 3
  MaxFaults = 1
  Window = 2
  SeqCeiling = 3
  CounterMax = 2
  Supported <- SupportedAll
  Levels <- LevelsAll
  None = None
INVARIANTS
  CommandsRunInOrder
  ChallengesNeverRepeat
  ResponseIvsNeverRepeat
  ContinuationsAreContiguous
