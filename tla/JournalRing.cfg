\* MC04 journal: a ring of three slots, complete snapshots only, and at most
\* one committed record that decays while power is off.
SPECIFICATION Spec
CONSTANTS
  NSlots = 3
  AppendEnabled = FALSE
  Values = {v1, v2}
  NoValue = NoValue
  MonoCap = 5
  NonceCap = 5
  SeqMax = 5
  FrameCap = 0
  DamageAllowed = TRUE
SYMMETRY ValueSymmetry
INVARIANTS
  AlwaysRecoverable
PROPERTIES
  NeverRollsBack
CHECK_DEADLOCK FALSE
