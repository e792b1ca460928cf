CONSTANTS
  Width = 4
  Poly = 19
  Geometries <- MCGeometries
  Found <- MCFound
  Unreadable <- MCUnreadable
  Content <- MCContent
  MaxCount = 3
SPECIFICATION Spec
INVARIANT AssemblyIsOneSet
INVARIANT ReadIsExact
CHECK_DEADLOCK FALSE
