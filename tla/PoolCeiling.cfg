SPECIFICATION PoolSpec
CONSTANTS
  Callers = {c1, c2, c3, c4}
  Slots = {s1, s2, s3}
  MinConns = 1
  MaxConns = 3
  HighWatermark = 85
  LowWatermark = 30
  HysteresisTicks = 2
  Cooldown = 3
  ResizeStep = 2
SYMMETRY MCSymmetry
INVARIANTS
  MaxConnsIsCeiling
