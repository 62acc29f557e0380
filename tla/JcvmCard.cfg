\* Two applets on the board's two heap banks.
SPECIFICATION FairSpec
CONSTANTS
  Aids = {a1, a2}
  Banks <- BoardBanks
  Data = {d0, d1}
  Fresh = d0
  None = None
  Other = Other
  NonceCap = 6
  HeapCap = 3
  MaxFaults = 2
INVARIANTS
  HeapNeverLost
  EpochNeverRestarts
PROPERTIES
  IdentityAdvances
  RenewalResolves
CHECK_DEADLOCK FALSE
