SPECIFICATION FairSpec
CONSTANTS
  Configs <- MCConfigs
  Conns = {c1, c2}
  TokenTicks = 1
  HeaderTimeout = 1
  ReadTimeout = 2
  RequestTimeout = 1
  ShutdownTimeout = 2
  MaxDebt = 0
INVARIANTS
  RateBound
  AnswersLogged
  DrainedBeforeClose
PROPERTY
  ShutdownEnds
