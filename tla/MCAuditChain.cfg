CONSTANTS
  Writers = {w1, w2, w3}
  Events = {e1, e2, e3, e4}
  Damage = {"alter", "column", "drop"}
  MaxDamage = 2
  Nothing = Nothing
SPECIFICATION Spec
SYMMETRY Symmetry
INVARIANT TypeOK
INVARIANT ChainIntact
INVARIANT AnchorsHold
INVARIANT TamperEvident
PROPERTY LedgerSpec
CHECK_DEADLOCK FALSE
