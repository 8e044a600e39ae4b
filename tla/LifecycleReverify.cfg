SPECIFICATION Spec
CONSTANTS
  Trees = {u1, u2}
  NoUuid = NoUuid
  NoTree = NoTree
  NoEntry = NoEntry
  Foreign <- MCForeign
  Stray = Stray
  MaxRows = 2
PROPERTY TopKReverifies
