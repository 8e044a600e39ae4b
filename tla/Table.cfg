SPECIFICATION Spec
CONSTANTS
  Txns = {t1, t2}
  Paths = {p1, p2}
  MaxRows = 2
  MaxBuilds = 2
SYMMETRY Symmetry
INVARIANT TypeOK
INVARIANT IndexesCoverTable
INVARIANT AnswersFromOwnTree
INVARIANT AnswersFromSnapshot
PROPERTY FenceSparesCommits
PROPERTY DeleteOnlyIfRaced
