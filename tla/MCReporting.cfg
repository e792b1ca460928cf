CONSTANTS
  Cases = {c1, c2}
  Items = {i1, i2}
  Ops = {o1}
  Images = {m1}
  Events = {e1}
  Closers = {p1, p2}
  Reporters = {w1}
  Faults = {"read", "db", "io"}
  MaxLog = 2
  MaxDamage = 1
  Alterable = {"custody"}
  NoKey = NoKey
  Garbage = Garbage
  OtherKey = OtherKey
SPECIFICATION Spec
SYMMETRY Symmetry
ACTION_CONSTRAINT StepsOnce
INVARIANT TypeOK
INVARIANT ReportCoversVault
INVARIANT CompletionShowsImage
INVARIANT ReportIsAccountable
INVARIANT VerifiedIsGenuine
PROPERTY RecordsArePermanent
CHECK_DEADLOCK FALSE
