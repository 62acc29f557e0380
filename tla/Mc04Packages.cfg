SPECIFICATION Spec
CONSTANTS
  d1 = d1
  Ssds = {d1}
  Isd = Isd
  Root = "core"
  Pkgs <- Linked
  NoPkg = NoPkg
  MaxInc = 3
  Slots = 4
  MaxAsm = 2
INVARIANTS
  CardBoots
  LiveImagesIntact
PROPERTIES
  NeverRollsBack
CHECK_DEADLOCK FALSE
