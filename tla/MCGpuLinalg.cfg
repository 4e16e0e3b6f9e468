SPECIFICATION Spec
CONSTANTS
  Shapes <- MCShapes
  Lengths = {0, 1, 2, 5, 9}
  IntWidth = 3
  Options <- MCOptions
INVARIANTS
  TypeOK
  ChecksAreExact
  AccessInBounds
  ResultIsOwn
  OnlyWorkSpaceLeaks
PROPERTY CallsEnd
CHECK_DEADLOCK FALSE
