CONSTANTS
  Writers = {w1, w2}
  Names = {op, q}
  Quoted = {q}
  Operator = op
  NoName = NoName
  Times = {1, 2}
  Requests <- MCEvents
  MaxEvents = 3
  Faults = {"abort"}
SPECIFICATION Spec
SYMMETRY Symmetry
INVARIANT TypeOK
INVARIANT OpensWithIntake
INVARIANT TerminalIsFinalAlone
INVARIANT OwnerFollowsHistory
CHECK_DEADLOCK FALSE
