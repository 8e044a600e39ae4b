SPECIFICATION Spec
CONSTANTS
  Distances = {1, 2}
  Far = 9
  Null = Null
  Deleted = Deleted
  Ks = {1, 2}
  BatchSize = 2
  MaxQueries = 2
  MaxAnswers = 2
  Early = 2
  Late = 2
INVARIANT AnswersInSnapshot
