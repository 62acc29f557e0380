SPECIFICATION Spec
CONSTANTS
  d1 = d1
  Ssds = {d1}
  Isd = Isd
  Root = "core"
  Pkgs <- TwoProviders
  NoPkg = NoPkg
  MaxInc = 3
  Slots = 4
  MaxAsm = 2
INVARIANTS
  CardBoots
CHECK_DEADLOCK FALSE
