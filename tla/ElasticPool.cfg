SPECIFICATION FairPoolSpec
CONSTANTS
  Callers = {c1, c2}
  Slots = {s1, s2}
  MinConns = 1
  MaxConns = 3
  HighWatermark = 85
  LowWatermark = 30
  HysteresisTicks = 2
  Cooldown = 3
  ResizeStep = 3
PROPERTIES
  CallsEnd
  CloseCompletes
INVARIANTS
  CallsOnOpenPool
  NoLeak
  ResizeJustified
