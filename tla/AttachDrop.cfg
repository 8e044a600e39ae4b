SPECIFICATION Spec
CONSTANTS
  Threads = {t1, t2}
  Free = Free
  Trees = {u1, u2}
  NoUuid = NoUuid
  Missing = Missing
  Unreadable = Unreadable
  Budgets = {7}
  MaxStatements = 2
INVARIANT SearchOnLiveHandle
