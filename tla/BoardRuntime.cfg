\* One host, four sequence numbers per session, two interrupted sessions, one
\* failed maintenance pass.
SPECIFICATION FairSpec
CONSTANTS
  MaxSeq = 4
  MaxLosses = 2
  MaxFaults = 1
  Replies <- SomeReplies
  EnumerationIsSlow = TRUE
INVARIANTS
  NoForeignAnswer
  OwnSessionAnswer
  SessionIsolated
  OwnedBeforeState
PROPERTIES
  ResetAfterAnswer
  AcceptedTransfersEnd
CHECK_DEADLOCK FALSE
