\* One person writes to another, now and then what a codec cannot encode; the
\* other's connection fails and is replaced, and the server is shut down.
SPECIFICATION PrivSpec
CONSTANTS
  c1 = c1  c2 = c2  c3 = c3  alice = alice  bob = bob
  Conns = {c1, c2, c3}
  Nicks = {alice, bob}
  NickOf <- Reconnect
  Talkers = {c1}
  PrivBuffer = 2
  MaxSeq = 3
  Garbled = {2}
  Fragile = {c2}
  MayStop = TRUE
  NoConn = NoConn
INVARIANTS AnswersAreTrue SendersOrder
CHECK_DEADLOCK FALSE
