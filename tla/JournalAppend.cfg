\* JCVM heap journal: two slots, appends, ordinary and anchored records.
SPECIFICATION Spec
CONSTANTS
  NSlots = 2
  AppendEnabled = TRUE
  Values = {v1, v2}
  NoValue = NoValue
  MonoCap = 2
  NonceCap = 3
  SeqMax = 4
  FrameCap = 2
  DamageAllowed = FALSE
SYMMETRY ValueSymmetry
INVARIANTS
  JournalInv
  NoncesNeverRepeat
  HandleMirrorsFlash
PROPERTIES
  ImplementsDurableCell
CHECK_DEADLOCK FALSE
