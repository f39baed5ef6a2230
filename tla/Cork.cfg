\* Three writers of batches and a socket that may fail; any of them may close.
SPECIFICATION CorkFairSpec
CONSTANTS
  w1 = w1  w2 = w2  w3 = w3
  Writers = {w1, w2, w3}
  MaxFrames = 1
  MaxBatches = 1
  SocketFails = TRUE
INVARIANTS WireKeepsOrder DeadlineCoversCork FarewellNotLost
PROPERTIES HeldGoesOut ClosersReturn
CHECK_DEADLOCK FALSE
