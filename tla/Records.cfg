\* Two moderators on an entry each, over a queue that fills, a hook that fails,
\* announcements of one of them that cannot be encoded, a crash or a shutdown, and a restart.
SPECIFICATION FairSpec
CONSTANTS
  h1 = h1  h2 = h2  k1 = k1  p1 = p1  room = room
  Scopes = {Global, room}
  Global = Global
  Keys = {k1}
  Handlers = {h1, h2}
  Reach <- OneEach
  Speakers = {p1}
  KeyOf <- Speaker
  RecordQueue = 2
  HookFails = TRUE
  Garblers = {h1}
  MaxActs = 3  MaxActsAgain = 1
  MaxTime = 2
  Nobody = Nobody
INVARIANTS LateByOne EveryActAccounted StoreAgrees QueuedIsWritten
PROPERTY ShutdownEnds
CHECK_DEADLOCK FALSE
