CONSTANTS
  t1 = t1  t2 = t2  t3 = t3  Turn <- MCTurn  Max = 1
  r = r  o = o  own = own  guest = guest
  Jobs = {r, o}  Recurring = {r}  Principals = {own, guest}  Owner = own  Home <- MCHome
  Deleters = {1}  BackgroundCap = 1  MaxTime = 2  MaxLoad = 2
SPECIFICATION BothSpec
INVARIANTS
  SlotAccounting
  RunAtMostOnce NothingComesBack NoDeadJob
PROPERTIES
  QueuedTurnsRun DueIsClaimed
CHECK_DEADLOCK FALSE
