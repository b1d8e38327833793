SPECIFICATION FairSpec
CONSTANTS
  fan = fan
  pipe = pipe
  Run <- MCRun
  FanOut <- MCFanOut
  Tasks <- MCTasks
  PerRun = 2
  Global = 1
  MaxRuns = 1
  MaxFailures = 2
  MaxStops = 2
  MaxWaits = 1
INVARIANTS OneTerminal SlotsExact Recovered
PROPERTIES ImplementsRunEvents RunEnds
CHECK_DEADLOCK FALSE
