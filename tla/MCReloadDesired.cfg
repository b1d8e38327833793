SPECIFICATION Spec
CONSTANTS
  w1 = w1
  c1 = c1
  j1 = j1
  i1 = i1
  i2 = i2
  i3 = i3
  i4 = i4
  Turn <- MCTurn
  WebTurn <- MCWebTurn
  Job <- MCJob
  Id <- MCId
  InitialId = i1
  None = None
  Ended = Ended
  MaxRevision = 2
  MaxTimeout = 1
  MaxCallers = 2
INVARIANT DesiredIsTried
CHECK_DEADLOCK FALSE
