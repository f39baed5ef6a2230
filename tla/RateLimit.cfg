\* Two connections of one person, or of nobody in particular.
SPECIFICATION LimitSpec
CONSTANTS
  c1 = c1  c2 = c2  k1 = k1  b1 = b1  b2 = b2  b3 = b3
  Clients = {c1, c2}
  Keys = {k1}
  NoKey = NoKey
  Bursts = {1}
  Interval = 2
  Buckets = {b1, b2, b3}
  NoBucket = NoBucket
  MaxTime = 3
  MaxOpens = 3
SYMMETRY Symmetry
INVARIANTS WindowBound HoldersShareOneBucket
CHECK_DEADLOCK FALSE
