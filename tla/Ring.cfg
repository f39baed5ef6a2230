\* Two writers race two readers over two laps of a ring of one.
SPECIFICATION Spec
CONSTANTS
  w1 = w1  w2 = w2  r1 = r1  r2 = r2
  Writers = {w1, w2}
  Readers = {r1, r2}
  Capacity = 1
  Batch = 2
  MaxBroadcasts = 2
INVARIANTS NoLostWakeup
PROPERTIES ImplementsFanout DrainedBeforeClosed
