SPECIFICATION Spec
CONSTANTS
  Block = 2
  MaxMsg = 5
  MaxObj = 4
  Copies = 1
  MaxToken = 3
  MaxCtr = 2
  RsaRaw = TRUE
  Des = TRUE
  Programs <- Applets
INVARIANTS RecordLoads StreamKeepsBytes PseudoNeverRepeats
