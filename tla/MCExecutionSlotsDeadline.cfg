SPECIFICATION Spec
CONSTANTS
  t1 = t1
  t2 = t2
  t3 = t3
  Turn <- MCTurn
  Max = 1
CHECK_DEADLOCK FALSE
INVARIANTS
  SlotsNotOverReleased
