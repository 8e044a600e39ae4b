SPECIFICATION MCSpec
CONSTANTS
  Types = {"string"}
  Null = Null
  Numbers = {0, 1, 2}
  Strings <- MCStrings
  Elements <- MCElements
  AsFloat <- MCRound
  AsDouble <- MCRound
  StrToD <- MCStrToD
  Score <- MCScore
  MaxRows = 3
  Limits = {0, 1, 2}
  Offsets = {0, 1}
  OverfetchFactor = 1
  OverfetchExtra = 1
INVARIANT DeltaPredicatesExact
CHECK_DEADLOCK FALSE
