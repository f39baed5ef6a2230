\* Two connections to a room each, of whom one talks, on a server that may do anything.
SPECIFICATION FairSpec
CONSTANTS
  Conns = 2  Channels = 2  Speakers = 1  Timed = TRUE
  JoinBuffer = 1
  AutoJoins = 1
  Latencies = {5}
  Fragile = {0}
  MaxMsgs = 1  MaxReceived = 1
  SubBits = 1  Octaves = 4
  Samples <- SomeSamples
  MaxSamples = 3
  Quantiles <- SomeRanks
INVARIANTS NobodySpeaksEarly SnapshotComplete LossesAreFaults LatencyBounds
PROPERTY RunReturns
CHECK_DEADLOCK FALSE
