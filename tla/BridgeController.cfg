CONSTANT Backlog = 2
SPECIFICATION FairSpec
INVARIANTS
  Inv
  StopNeverLost
  StopTextMeansRunning
  RowsUnlockedWhenOver
PROPERTIES
  StopEnds
  ButtonComesBack
CHECK_DEADLOCK FALSE
