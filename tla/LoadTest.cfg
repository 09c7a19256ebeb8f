SPECIFICATION FairSpec
CONSTANTS
  Options <- MCOptions
  MaxWorkers = 2
  Funding = 2
  PerStage = 2
  MaxPolls = 2
  ErrLimit = 50
INVARIANTS
  TypeOK
  JudgedOnAll
  StopsWhenTripped
PROPERTY
  RunEnds
