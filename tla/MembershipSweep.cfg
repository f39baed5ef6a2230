\* One person on two connections.
SPECIFICATION Spec
CONSTANTS
  c1 = c1  c2 = c2  alice = alice  bob = bob
  d1 = d1  d2 = d2  main = main  side = side
  Conns = {c1, c2}
  Mods = {d1, d2}
  Nicks = {alice, bob}
  NoConn = NoConn
  Channels = {main, side}
  Global = Global
  Settings <- SweepSettings
  Capacity = 1
  MaxChannels = 1
  MaxChannelsPerConn = 1
  MaxJoins = 2
CHECK_DEADLOCK FALSE
INVARIANT SweepSparesMembers
