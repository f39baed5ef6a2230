\* One person in two rooms, and a moderator who must not be kept waiting.
SPECIFICATION FairSpec
CONSTANTS
  c1 = c1  c2 = c2  alice = alice  bob = bob
  d1 = d1  d2 = d2  main = main  side = side
  Conns = {c1, c2}
  Mods = {d1}
  Nicks = {alice, bob}
  NoConn = NoConn
  Channels = {main, side}
  Global = Global
  Settings <- LiveSettings
  Capacity = 1
  MaxChannels = 2
  MaxChannelsPerConn = 2
  MaxJoins = 2
CHECK_DEADLOCK FALSE
PROPERTIES DeadConnectionsGo ModeratorReturns
