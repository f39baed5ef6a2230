\* A ban from a room and from everywhere, two people in a room, a reconnect, and
\* more channels than there is room for.
SPECIFICATION Spec
CONSTANTS
  c1 = c1  c2 = c2  alice = alice  bob = bob
  d1 = d1  d2 = d2  main = main  side = side
  Conns = {c1, c2}
  Mods = {d1, d2}
  Nicks = {alice, bob}
  NoConn = NoConn
  Channels = {main, side}
  Global = Global
  Settings <- SafetySettings
  Capacity = 2
  MaxChannels = 1
  MaxChannelsPerConn = 1
  MaxJoins = 2
CHECK_DEADLOCK FALSE
SYMMETRY Symmetry
INVARIANTS BanHolds NothingLeaks RosterAgrees LimitsHold
PROPERTY TeardownSparesReconnect
