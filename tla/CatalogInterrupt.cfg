SPECIFICATION InterruptedSpec
CONSTANTS
  x = x
  y = y
  w1 = w1
  w2 = w2
  r1 = r1
  None = None
  Series = {x, y}
  Writers = {w1, w2}
  Readers = {r1}
  MaxFaults = 0
INVARIANT
  HealthyIsWhole
CHECK_DEADLOCK FALSE
