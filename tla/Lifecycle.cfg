SPECIFICATION Spec
CONSTANTS
  Trees = {u1, u2}
  NoUuid = NoUuid
  NoTree = NoTree
  NoEntry = NoEntry
  Foreign <- MCForeign
  Stray = Stray
  MaxRows = 2
INVARIANT TypeOK
INVARIANT ServedTreeIsCreatedTree
 
INVARIANT CheckpointKeepsIdentity
PROPERTY OnlyDropDeletes
PROPERTY RightFileIsServed
PROPERTY RecordedIdentityIsFinal
PROPERTY ImplementsDurableIdentity
