SPECIFICATION MCSpec
CONSTANTS
  Types = {"int", "bigint", "double", "bool", "string", "set"}
  Null = Null
  Numbers = {0, 1, 2}
  Strings <- MCStrings
  Elements <- MCElements
  AsFloat <- MCRound
  AsDouble <- MCRound
  StrToD <- MCStrToD
  Score <- MCScore
  MaxRows = 3
  Limits = {0, 1, 2}
  Offsets = {0, 1}
  OverfetchFactor = 1
  OverfetchExtra = 1
INVARIANT TypeOK
INVARIANT NoWrongRow
INVARIANT NoRowLost
INVARIANT RewriteKeepsAnswer
CHECK_DEADLOCK FALSE
