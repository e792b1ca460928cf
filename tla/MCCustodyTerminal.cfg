CONSTANTS
  Writers = {w1, w2}
  Names = {op}
  Quoted = {}
  Operator = op
  NoName = NoName
  Times = {1, 2}
  Requests <- MCEvents
  MaxEvents = 3
  Faults = {}
SPECIFICATION Spec
INVARIANT NothingFollowsTerminal
CHECK_DEADLOCK FALSE
