SPECIFICATION Spec
CONSTANTS
  Connections = {c1, c2}
  Unset = Unset
  Nothing = Nothing
  Cap = 4
  Unit = 2
  UserLimits = {3, 5}
  MaxRows = 1
  MaxStatements = 2
SYMMETRY Symmetry
INVARIANT TypeOK
INVARIANT IndexCoversPlan
INVARIANT AloneRestores
INVARIANT ClampNotForgotten
