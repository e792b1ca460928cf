CONSTANTS
  Writers = {w1, w2}
  Events = {e1, e2}
  Damage = {}
  MaxDamage = 0
  Nothing = Nothing
SPECIFICATION Spec
INVARIANT ReturnedIsRecorded
CHECK_DEADLOCK FALSE
