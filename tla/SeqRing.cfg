\* Two writers race a reader over two laps of a ring of two.
SPECIFICATION FairSpec
CONSTANTS
  w1 = w1  w2 = w2  r1 = r1
  NoWriter = NoWriter
  Writers = {w1, w2}
  Readers = {r1}
  Capacity = 2
  Batch = 2
  MaxBroadcasts = 4
INVARIANTS SeqlockInv NoLostWakeup CountedOnce
PROPERTIES ImplementsFanout RecvReturns
