----------------------------- MODULE Membership -----------------------------
(***************************************************************************)
(* Who is in which channel: conn.go (serve), membership.go, channel.go,    *)
(* moderation.go and the connection table of init.go.  A connection's      *)
(* goroutine joins, parts and tears down; each membership has a pump; a    *)
(* moderator's goroutine may part somebody else; the janitor reclaims      *)
(* empty channels.  Each action is one critical section, or one blocking   *)
(* step between two of them.                                               *)
(*                                                                         *)
(* A ring is the log of the announcements broadcast on it, and a           *)
(* subscription the position it starts at (Fanout says what a ring does).  *)
(* Mutes and messages change nothing here and are left out.  A channel's   *)
(* name, a nick or a reason may be text that one of the codecs cannot      *)
(* encode, though the client that sent it used another.                    *)
(***************************************************************************)
EXTENDS Integers, Sequences, FiniteSets

CONSTANTS
  Conns,          \* connections; each is made, serves and ends once
  Mods,           \* calls of handleMod, by connections other than the target
  Nicks, NoConn,
  Channels,       \* channel names
  Global,         \* the server-wide scope
  Settings,       \* the circumstances considered
  Capacity,       \* how far behind a subscription may fall
  MaxChannels, MaxChannelsPerConn,
  MaxJoins        \* bound on the memberships ever made

\* What the world around the server does, here and in what the hooks answer.
Setting ==
  [nick      : [Conns -> Nicks],   \* who Authenticate says each connection is
   conns     : SUBSET Conns,       \* the connections that are made ...
   fragile   : SUBSET Conns,       \* ... those whose client may go away ...
   calls     : 0 .. Cardinality(Mods),            \* ... and the calls of handleMod
   verbs     : SUBSET {"ban", "unban"},           \* with their verbs
   scopes    : SUBSET (Channels \cup {Global}),   \* and scopes
   channels  : SUBSET Channels,    \* where people join
   autojoins : SUBSET Channels,    \* Autojoin's answer
   directory : BOOLEAN,            \* a Directory resolves who is not connected
   expires   : BOOLEAN,            \* bans may run out
   garbled   : SUBSET (Channels \cup Nicks \cup Conns \cup Mods)]
                \* what a codec cannot encode: the name of a channel, a nick, what else a
                \* connection's JOIN says of it, or who a call is by and its reason

ASSUME MembershipAssumption ==
  /\ NoConn \notin Conns /\ Conns \cap Mods = {}
  /\ (Conns \cup Mods) \cap (Channels \cup Nicks) = {}
  /\ Channels # {} /\ Global \notin Channels
  /\ Settings \subseteq Setting
  /\ {Capacity, MaxChannels, MaxChannelsPerConn, MaxJoins} \subseteq Nat

VARIABLES
  given,     \* the setting
  sock,      \* per connection: its socket is open
  reading,   \* the connections in their read pump
  auto,      \* per connection: the autojoins still to do
  conns,     \* app.conns: by nick
  bans,      \* the bans in force: <<scope, nick>>
  channels,  \* app.channels: by name, the number of its object or 0
  rooms,     \* every channel object ever made
  table,     \* per connection and name: the number of its membership or 0
  mems,      \* every membership ever made
  pc,        \* where each goroutine is
  name,      \* per connection: the channel it is joining
  room,      \* per connection: the channel object it is joining
  cur,       \* per goroutine: the membership it is working on, or 0
  todo,      \* memberships leaveAll has still to leave, rooms to announce in
  order      \* per handleMod: what it does to whom

connVars == <<sock, reading, auto, conns>>
roomVars == <<channels, rooms>>
memVars  == <<table, mems>>
handVars == <<name, room, cur, todo, order>>
vars == <<given, connVars, bans, roomVars, memVars, pc, handVars>>

Nick == given.nick

Procs  == Conns \cup Mods
Mems   == 1 .. Len(mems)
Rooms  == 1 .. Len(rooms)

RoomOf(m)   == rooms[mems[m].room]
NickOf(m)   == Nick[mems[m].owner]
Unread(m)   == Len(RoomOf(m).log) - mems[m].base
Banned(s, c) == <<s, Nick[c]>> \in bans \/ <<Global, Nick[c]>> \in bans
Joined(c)   == {n \in Channels : table[c][n] # 0}

Goto(p, label) == pc' = [pc EXCEPT ![p] = label]

\* Every codec can encode what is said in the room with these words.
Encodes(r, words) == ({rooms[r].name} \cup words) \cap given.garbled = {}

\* broadcastTo: what a codec cannot encode reaches no ring, and a ring that was
\* closed ignores it.  Whether it was encoded is the caller's to look at.
Broadcast(r, kind, who, words) ==
  rooms' = IF rooms[r].open /\ Encodes(r, {who} \cup words)
             THEN [rooms EXCEPT ![r].log = Append(@, [kind |-> kind, nick |-> who])]
             ELSE rooms

\* The variants named ...Unsafe or ...Hasty are not the code: each is a plausible
\* mistake in the definition after it, and a run shows which property it would break.
AddEntryUnsafe(r, c) == rooms' = rooms

\* channel.add
AddEntry(r, c) == rooms' = [rooms EXCEPT ![r].members[Nick[c]] = c]

DropEntryUnsafe(r, c) == rooms' = [rooms EXCEPT ![r].members[Nick[c]] = NoConn]

\* channel.remove: only if the entry is still this connection's.
DropEntry(r, c) ==
  rooms' = IF rooms[r].members[Nick[c]] = c
             THEN [rooms EXCEPT ![r].members[Nick[c]] = NoConn]
             ELSE rooms

\* What a goroutine's locals hold when it is in no call.
AnyName == CHOOSE n \in Channels : TRUE
NoOrder == [verb |-> "none", scope |-> Global, nick |-> NoConn, target |-> NoConn]

Init ==
  /\ given \in Settings
  /\ sock = [c \in Conns |-> FALSE]
  /\ reading = {}
  /\ auto = [c \in Conns |-> given.autojoins]
  /\ conns = [k \in Nicks |-> NoConn]
  /\ bans = {}
  /\ channels = [n \in Channels |-> 0]
  /\ rooms = << >>
  /\ table = [c \in Conns |-> [n \in Channels |-> 0]]
  /\ mems = << >>
  /\ pc = [p \in Procs |-> IF p \in Conns THEN "off" ELSE "idle"]
  /\ name = [c \in Conns |-> AnyName]
  /\ room = [c \in Conns |-> 0]
  /\ cur = [p \in Procs |-> 0]
  /\ todo = [p \in Procs |-> {}]
  /\ order = [d \in Mods |-> NoOrder]

-----------------------------------------------------------------------------
(* A connection: handleWS and serve *)

\* The server-wide ban is looked up before the upgrade.
Connect(c) ==
  /\ pc[c] = "off" /\ c \in given.conns
  /\ IF Banned(Global, c)
       THEN Goto(c, "gone") /\ UNCHANGED sock
       ELSE Goto(c, "register") /\ sock' = [sock EXCEPT ![c] = TRUE]
  /\ UNCHANGED <<reading, auto, conns, bans, roomVars, memVars, handVars>>

\* A newer connection of the same nick replaces the older one.
Register(c) ==
  /\ pc[c] = "register"
  /\ conns' = [conns EXCEPT ![Nick[c]] = c]
  /\ Goto(c, "ready")
  /\ UNCHANGED <<sock, reading, auto, bans, roomVars, memVars, handVars>>

\* A READY that cannot be written ends it, and one that cannot be encoded closes the
\* socket as well; one that can be written may be lost all the same.
WriteReady(c) ==
  /\ pc[c] = "ready"
  /\ \/ Goto(c, "serving") /\ UNCHANGED sock
     \/ /\ ~sock[c] \/ Nick[c] \in given.garbled
        /\ sock' = [sock EXCEPT ![c] = FALSE]
        /\ Goto(c, "unregister")
  /\ UNCHANGED <<reading, auto, conns, bans, roomVars, memVars, handVars>>

StartReading(c) ==
  /\ pc[c] = "serving"
  /\ c \notin reading /\ auto[c] = {}
  /\ reading' = reading \cup {c}
  /\ UNCHANGED <<sock, auto, conns, bans, roomVars, memVars, pc, handVars>>

\* The client leaves, falls silent, or stops reading until a write times out.
SocketDies(c) ==
  /\ c \in given.fragile /\ sock[c]
  /\ sock' = [sock EXCEPT ![c] = FALSE]
  /\ UNCHANGED <<reading, auto, conns, bans, roomVars, memVars, pc, handVars>>

\* The read fails.
StopReading(c) ==
  /\ pc[c] = "serving"
  /\ c \in reading /\ ~sock[c]
  /\ reading' = reading \ {c}
  /\ Goto(c, "unregister")
  /\ UNCHANGED <<sock, auto, conns, bans, roomVars, memVars, handVars>>

\* Only if the entry is still this connection's.
Unregister(c) ==
  /\ pc[c] = "unregister"
  /\ conns' = IF conns[Nick[c]] = c THEN [conns EXCEPT ![Nick[c]] = NoConn] ELSE conns
  /\ Goto(c, "leaveAll")
  /\ UNCHANGED <<sock, reading, auto, bans, roomVars, memVars, handVars>>

\* The table is swapped for an empty one, so this goroutine holds what was in it.
LeaveAll(c) ==
  /\ pc[c] = "leaveAll"
  /\ todo' = [todo EXCEPT ![c] = {table[c][n] : n \in Joined(c)}]
  /\ table' = [table EXCEPT ![c] = [n \in Channels |-> 0]]
  /\ Goto(c, "leaving")
  /\ UNCHANGED <<connVars, bans, roomVars, mems, name, room, cur, order>>

LeaveNext(c) ==
  /\ pc[c] = "leaving"
  /\ \/ \E m \in todo[c] :
          /\ todo' = [todo EXCEPT ![c] = @ \ {m}]
          /\ cur' = [cur EXCEPT ![c] = m]
          /\ Goto(c, "leave")
     \/ todo[c] = {} /\ Goto(c, "gone") /\ UNCHANGED <<todo, cur>>
  /\ UNCHANGED <<connVars, bans, roomVars, memVars, name, room, order>>

-----------------------------------------------------------------------------
(* join, on the connection's own goroutine *)

MayJoin(c, n) ==
  /\ table[c][n] = 0
  /\ Cardinality(Joined(c)) < MaxChannelsPerConn
  /\ Len(mems) < MaxJoins

\* The hook's channels, one after another, whatever became of the socket.
Autojoin(c) ==
  /\ pc[c] = "serving"
  /\ \E n \in auto[c] :
       /\ auto' = [auto EXCEPT ![c] = @ \ {n}]
       /\ IF MayJoin(c, n)
            THEN name' = [name EXCEPT ![c] = n] /\ Goto(c, "checkBan")
            ELSE UNCHANGED <<name, pc>>
  /\ UNCHANGED <<sock, reading, conns, bans, roomVars, memVars, room, cur, todo, order>>

\* A JOIN read from the socket; one refused at once changes nothing.
StartJoin(c, n) ==
  /\ pc[c] = "serving"
  /\ c \in reading /\ sock[c]
  /\ MayJoin(c, n)
  /\ name' = [name EXCEPT ![c] = n]
  /\ Goto(c, "checkBan")
  /\ UNCHANGED <<connVars, bans, roomVars, memVars, room, cur, todo, order>>

\* Then CanJoin, which an autojoin skips.
CheckBan(c) ==
  /\ pc[c] = "checkBan"
  /\ \E allowed \in IF c \in reading THEN BOOLEAN ELSE {TRUE} :
       Goto(c, IF Banned(name[c], c) \/ ~allowed THEN "serving" ELSE "channelFor")
  /\ UNCHANGED <<connVars, bans, roomVars, memVars, handVars>>

ChannelsFullUnsafe == Cardinality({n \in Channels : channels[n] # 0}) > MaxChannels

ChannelsFull == Cardinality({n \in Channels : channels[n] # 0}) >= MaxChannels

\* The joiner is added to the channel that has the name, under channelsMu.
EnterChannel(c) ==
  /\ channels[name[c]] # 0
  /\ AddEntry(channels[name[c]], c)
  /\ room' = [room EXCEPT ![c] = channels[name[c]]]
  /\ Goto(c, "subscribe")
  /\ UNCHANGED channels

\* The lookup under the lock that readers share ...
ChannelFor(c) ==
  /\ pc[c] = "channelFor"
  /\ \/ EnterChannel(c)
     \/ channels[name[c]] = 0 /\ Goto(c, "create") /\ UNCHANGED <<channels, rooms, room>>
  /\ UNCHANGED <<connVars, bans, memVars, name, cur, todo, order>>

\* ... and, the channel not being there, the one that writers do not: it may be by now.
CreateChannel(c) ==
  LET n == name[c]
      new == [name |-> n, open |-> TRUE, log |-> << >>,
              members |-> [k \in Nicks |-> IF k = Nick[c] THEN c ELSE NoConn]]
  IN
  /\ pc[c] = "create"
  /\ \/ EnterChannel(c)
     \/ /\ channels[n] = 0 /\ ~ChannelsFull
        /\ rooms' = Append(rooms, new)
        /\ channels' = [channels EXCEPT ![n] = Len(rooms) + 1]
        /\ room' = [room EXCEPT ![c] = Len(rooms) + 1]
        /\ Goto(c, "subscribe")
     \/ /\ channels[n] = 0 /\ ChannelsFull
        /\ Goto(c, "serving")
        /\ UNCHANGED <<channels, rooms, room>>
  /\ UNCHANGED <<connVars, bans, memVars, name, cur, todo, order>>

Subscribe(c) ==
  /\ pc[c] = "subscribe"
  /\ mems' = Append(mems, [owner |-> c, room |-> room[c], base |-> Len(rooms[room[c]].log),
                           live |-> rooms[room[c]].open, pump |-> "none"])
  /\ cur' = [cur EXCEPT ![c] = Len(mems) + 1]
  /\ Goto(c, "insert")
  /\ UNCHANGED <<connVars, bans, roomVars, table, name, room, todo, order>>

Insert(c) ==
  /\ pc[c] = "insert"
  /\ table' = [table EXCEPT ![c][name[c]] = cur[c]]
  /\ Goto(c, "recheckBan")
  /\ UNCHANGED <<connVars, bans, roomVars, mems, handVars>>

\* join's locals go.
JoinReturns(c) ==
  /\ Goto(c, "serving")
  /\ name' = [name EXCEPT ![c] = AnyName]
  /\ room' = [room EXCEPT ![c] = 0]
  /\ cur' = [cur EXCEPT ![c] = 0]

RecheckBanUnsafe(c) ==
  /\ pc[c] = "recheckBan"
  /\ Goto(c, "announceJoin")
  /\ UNCHANGED <<connVars, bans, roomVars, memVars, handVars>>

RecheckBan(c) ==
  /\ pc[c] = "recheckBan"
  /\ Goto(c, IF Banned(name[c], c) THEN "undo" ELSE "announceJoin")
  /\ UNCHANGED <<connVars, bans, roomVars, memVars, handVars>>

UndoUnsafe(c) ==
  /\ pc[c] = "undo"
  /\ table' = [table EXCEPT ![c][name[c]] = 0]
  /\ Goto(c, "undoRemove")
  /\ UNCHANGED <<connVars, bans, roomVars, mems, handVars>>

\* Undone only if a moderator has not taken the membership already.
Undo(c) ==
  /\ pc[c] = "undo"
  /\ IF table[c][name[c]] = cur[c]
       THEN table' = [table EXCEPT ![c][name[c]] = 0] /\ Goto(c, "undoRemove")
       ELSE Goto(c, "undone") /\ UNCHANGED table
  /\ UNCHANGED <<connVars, bans, roomVars, mems, handVars>>

UndoneUnsafe(c) ==
  /\ pc[c] = "undone"
  /\ JoinReturns(c)
  /\ UNCHANGED <<connVars, bans, roomVars, memVars, todo, order>>

\* close(m.done), by whichever side: no pump was started.
Undone(c) ==
  /\ pc[c] = "undone"
  /\ mems' = [mems EXCEPT ![cur[c]].pump = "done"]
  /\ JoinReturns(c)
  /\ UNCHANGED <<connVars, bans, roomVars, table, todo, order>>

\* The membership stands whether or not its JOIN can be encoded.
AnnounceJoin(c) ==
  /\ pc[c] = "announceJoin"
  /\ Broadcast(room[c], "JOIN", Nick[c], {c})
  /\ Goto(c, "startPump")
  /\ UNCHANGED <<connVars, bans, channels, memVars, handVars>>

StartPump(c) ==
  /\ pc[c] = "startPump"
  /\ mems' = [mems EXCEPT ![cur[c]].pump = "running"]
  /\ JoinReturns(c)
  /\ UNCHANGED <<connVars, bans, roomVars, table, todo, order>>

-----------------------------------------------------------------------------
(* channelPump *)

\* Recv reports an ended subscription ...
PumpEnds(m) ==
  /\ mems[m].pump = "running"
  /\ ~mems[m].live \/ ~RoomOf(m).open
  /\ mems' = [mems EXCEPT ![m].pump = "done"]
  /\ UNCHANGED <<connVars, bans, roomVars, table, pc, handVars>>

\* ... or there is something to write and the socket is dead.
PumpFails(m) ==
  /\ mems[m].pump = "running"
  /\ ~sock[mems[m].owner] /\ Unread(m) > 0
  /\ mems' = [mems EXCEPT ![m].pump = "done"]
  /\ UNCHANGED <<connVars, bans, roomVars, table, pc, handVars>>

\* Recv reports ErrLagged ...
PumpLags(m) ==
  /\ mems[m].pump = "running"
  /\ mems[m].live
  /\ Unread(m) > Capacity
  /\ mems' = [mems EXCEPT ![m].pump = "lagged", ![m].live = FALSE]
  /\ UNCHANGED <<connVars, bans, roomVars, table, pc, handVars>>

\* ... and the pump closes the socket, saying so, before it stops.
PumpDrops(m) ==
  /\ mems[m].pump = "lagged"
  /\ sock' = [sock EXCEPT ![mems[m].owner] = FALSE]
  /\ mems' = [mems EXCEPT ![m].pump = "done"]
  /\ UNCHANGED <<reading, auto, conns, bans, roomVars, table, pc, handVars>>

-----------------------------------------------------------------------------
(* part and leave: a PART read from the socket, leaveAll, or a moderator's *)

\* Under membersMu the membership is looked up and taken out in one step.  The
\* taker then writes PART to the client, which may block, before leave begins.
StartPart(c, n) ==
  /\ pc[c] = "serving"
  /\ c \in reading /\ sock[c]
  /\ table[c][n] # 0
  /\ cur' = [cur EXCEPT ![c] = table[c][n]]
  /\ table' = [table EXCEPT ![c][n] = 0]
  /\ Goto(c, "leave")
  /\ UNCHANGED <<connVars, bans, roomVars, mems, name, room, todo, order>>

PartTarget(d) ==
  LET t == order[d].target
      n == order[d].scope
  IN
  /\ pc[d] = "part"
  /\ IF table[t][n] # 0
       THEN /\ cur' = [cur EXCEPT ![d] = table[t][n]]
            /\ table' = [table EXCEPT ![t][n] = 0]
            /\ Goto(d, "leave")
       ELSE Goto(d, "lookup") /\ UNCHANGED <<cur, table>>
  /\ UNCHANGED <<connVars, bans, roomVars, mems, name, room, todo, order>>

\* leave, and a join being undone: remove from the channel, close the subscription.
Remove(p) ==
  /\ pc[p] \in {"leave", "undoRemove"}
  /\ DropEntry(mems[cur[p]].room, mems[cur[p]].owner)
  /\ Goto(p, IF pc[p] = "leave" THEN "closeSub" ELSE "undoClose")
  /\ UNCHANGED <<connVars, bans, channels, memVars, handVars>>

CloseSubUnsafe(p) ==
  /\ pc[p] \in {"closeSub", "undoClose"}
  /\ Goto(p, IF pc[p] = "closeSub" THEN "await" ELSE "undone")
  /\ UNCHANGED <<connVars, bans, roomVars, memVars, handVars>>

CloseSubHasty(p) ==
  /\ pc[p] \in {"closeSub", "undoClose"}
  /\ mems' = [mems EXCEPT ![cur[p]].live = FALSE]
  /\ Goto(p, IF pc[p] = "closeSub" THEN "announcePart" ELSE "undone")
  /\ UNCHANGED <<connVars, bans, roomVars, table, handVars>>

CloseSub(p) ==
  /\ pc[p] \in {"closeSub", "undoClose"}
  /\ mems' = [mems EXCEPT ![cur[p]].live = FALSE]
  /\ Goto(p, IF pc[p] = "closeSub" THEN "await" ELSE "undone")
  /\ UNCHANGED <<connVars, bans, roomVars, table, handVars>>

\* <-m.done
Await(p) ==
  /\ pc[p] = "await"
  /\ mems[cur[p]].pump = "done"
  /\ Goto(p, "announcePart")
  /\ UNCHANGED <<connVars, bans, roomVars, memVars, handVars>>

AnnouncePart(p) ==
  /\ pc[p] = "announcePart"
  /\ Broadcast(mems[cur[p]].room, "PART", NickOf(cur[p]), {})
  /\ cur' = [cur EXCEPT ![p] = 0]
  /\ Goto(p, IF p \in Mods THEN "lookup" ELSE IF p \in reading THEN "serving" ELSE "leaving")
  /\ UNCHANGED <<connVars, bans, channels, memVars, name, room, todo, order>>

-----------------------------------------------------------------------------
(* handleMod *)

\* The connection table, then the Directory, which knows no connection.
Resolve(d, v, s, k) ==
  /\ pc[d] = "idle"
  /\ Cardinality({e \in Mods : pc[e] # "idle"}) < given.calls
  /\ conns[k] # NoConn \/ given.directory
  /\ order' = [order EXCEPT ![d] = [verb |-> v, scope |-> s, nick |-> k, target |-> conns[k]]]
  /\ Goto(d, "store")
  /\ UNCHANGED <<connVars, bans, roomVars, memVars, name, room, cur, todo>>

Store(d) ==
  LET o == order[d]
  IN
  /\ pc[d] = "store"
  /\ bans' = IF o.verb = "ban" THEN bans \cup {<<o.scope, o.nick>>}
                               ELSE bans \ {<<o.scope, o.nick>>}
  /\ Goto(d, IF o.verb = "ban" /\ o.scope # Global /\ o.target # NoConn THEN "part" ELSE "lookup")
  /\ UNCHANGED <<connVars, roomVars, memVars, handVars>>

\* Where to announce it: the room, or every room a server-wide target is in.
Lookup(d) ==
  LET o == order[d]
      here == {channels[o.scope]} \ {0}
      all == {mems[table[o.target][n]].room : n \in Joined(o.target)}
  IN
  /\ pc[d] = "lookup"
  /\ todo' = [todo EXCEPT ![d] = IF o.scope # Global THEN here
                                 ELSE IF o.target # NoConn THEN all ELSE {}]
  /\ Goto(d, "announce")
  /\ UNCHANGED <<connVars, bans, roomVars, memVars, name, room, cur, order>>

Announce(d) ==
  /\ pc[d] = "announce"
  /\ \E r \in todo[d] :
       /\ Encodes(r, {order[d].nick, d})
       /\ Broadcast(r, order[d].verb, order[d].nick, {d})
       /\ todo' = [todo EXCEPT ![d] = @ \ {r}]
  /\ UNCHANGED <<connVars, bans, channels, memVars, pc, name, room, cur, order>>

\* One that cannot be encoded ends the call: the act stands, but the rooms that are
\* left hear nothing of it, and its target's socket stays open.
AnnounceFails(d) ==
  /\ pc[d] = "announce"
  /\ \E r \in todo[d] : ~Encodes(r, {order[d].nick, d})
  /\ todo' = [todo EXCEPT ![d] = {}]
  /\ order' = [order EXCEPT ![d] = NoOrder]
  /\ Goto(d, "finished")
  /\ UNCHANGED <<connVars, bans, roomVars, memVars, name, room, cur>>

\* A server-wide ban closes the socket; a room's is told to its target directly.
EnforceBan(d) ==
  LET o == order[d]
  IN
  /\ pc[d] = "announce"
  /\ todo[d] = {}
  /\ sock' = IF o.verb = "ban" /\ o.scope = Global /\ o.target # NoConn
               THEN [sock EXCEPT ![o.target] = FALSE]
               ELSE sock
  /\ order' = [order EXCEPT ![d] = NoOrder]
  /\ Goto(d, "finished")
  /\ UNCHANGED <<reading, auto, conns, bans, roomVars, memVars, name, room, cur, todo>>

-----------------------------------------------------------------------------
(* The janitor and the clock *)

Sweep(n) ==
  LET r == channels[n]
  IN
  /\ r # 0
  /\ \A k \in Nicks : rooms[r].members[k] = NoConn
  /\ rooms' = [rooms EXCEPT ![r].open = FALSE]
  /\ channels' = [channels EXCEPT ![n] = 0]
  /\ UNCHANGED <<connVars, bans, memVars, pc, handVars>>

Expire(b) ==
  /\ given.expires
  /\ bans' = bans \ {b}
  /\ UNCHANGED <<connVars, roomVars, memVars, pc, handVars>>

-----------------------------------------------------------------------------
\* What a connection does once begun, its clients' choices apart.
ConnStep(c) ==
  \/ Register(c)
  \/ WriteReady(c)
  \/ Autojoin(c)
  \/ StartReading(c)
  \/ StopReading(c)
  \/ Unregister(c)
  \/ LeaveAll(c)
  \/ LeaveNext(c)
  \/ CheckBan(c)
  \/ ChannelFor(c)
  \/ CreateChannel(c)
  \/ Subscribe(c)
  \/ Insert(c)
  \/ RecheckBan(c)
  \/ Undo(c)
  \/ Undone(c)
  \/ AnnounceJoin(c)
  \/ StartPump(c)

LeaveStep(p) == Remove(p) \/ CloseSub(p) \/ Await(p) \/ AnnouncePart(p)

ModStep(d) ==
  \/ Store(d)
  \/ PartTarget(d)
  \/ Lookup(d)
  \/ Announce(d)
  \/ AnnounceFails(d)
  \/ EnforceBan(d)

PumpStep(m) == PumpEnds(m) \/ PumpFails(m) \/ PumpLags(m) \/ PumpDrops(m)

ClientStep(c) ==
  \/ Connect(c)
  \/ SocketDies(c)
  \/ \E n \in given.channels : StartJoin(c, n) \/ StartPart(c, n)

Step ==
  \/ \E c \in Conns : ClientStep(c) \/ ConnStep(c)
  \/ \E p \in Procs : LeaveStep(p)
  \/ \E d \in Mods :
       \/ \E v \in given.verbs, s \in given.scopes, k \in Nicks : Resolve(d, v, s, k)
       \/ ModStep(d)
  \/ \E m \in Mems : PumpStep(m)
  \/ \E n \in Channels : Sweep(n)
  \/ \E b \in bans : Expire(b)

Next == Step /\ UNCHANGED given

Spec == Init /\ [][Next]_vars

\* Goroutines that can run do.  A pump need not lag, nor have anything to write to
\* a dead socket, and nobody need connect, join, part, moderate or sweep.
Fairness ==
  /\ \A c \in Conns : WF_vars(ConnStep(c) /\ UNCHANGED given)
  /\ \A p \in Procs : WF_vars(LeaveStep(p) /\ UNCHANGED given)
  /\ \A d \in Mods : WF_vars(ModStep(d) /\ UNCHANGED given)
  /\ \A m \in 1 .. MaxJoins : WF_vars(m \in Mems /\ (PumpEnds(m) \/ PumpDrops(m)) /\ UNCHANGED given)

FairSpec == Spec /\ Fairness

-----------------------------------------------------------------------------
(* Properties *)

Joining == {"recheckBan", "undo", "undoRemove", "undoClose", "undone", "announceJoin", "startPump"}
Leaving == {"leave", "closeSub", "await", "announcePart"}
ConnLabels == {"off", "register", "ready", "serving", "unregister", "leaveAll", "leaving", "gone",
               "checkBan", "channelFor", "create", "subscribe", "insert"} \cup Joining \cup Leaving
ModLabels  == {"idle", "store", "part", "lookup", "announce", "finished"} \cup Leaving

MemType  == [owner : Conns, room : Nat, base : Nat, live : BOOLEAN,
             pump : {"none", "running", "lagged", "done"}]
RoomType == [name : Channels, open : BOOLEAN, members : [Nicks -> Conns \cup {NoConn}],
             log : Seq([kind : {"JOIN", "PART", "ban", "unban"}, nick : Nicks])]

\* Every variable has its type.
TypeOK ==
  /\ given \in Settings
  /\ sock \in [Conns -> BOOLEAN]
  /\ reading \subseteq Conns
  /\ auto \in [Conns -> SUBSET Channels]
  /\ conns \in [Nicks -> Conns \cup {NoConn}]
  /\ bans \subseteq (Channels \cup {Global}) \X Nicks
  /\ channels \in [Channels -> 0 .. Len(rooms)]
  /\ rooms \in Seq(RoomType)
  /\ table \in [Conns -> [Channels -> 0 .. Len(mems)]]
  /\ mems \in Seq(MemType)
  /\ \A m \in Mems : mems[m].room \in Rooms
  /\ \A c \in Conns : pc[c] \in ConnLabels
  /\ \A d \in Mods : pc[d] \in ModLabels
  /\ name \in [Conns -> Channels]
  /\ room \in [Conns -> 0 .. Len(rooms)]
  /\ cur \in [Procs -> 0 .. Len(mems)]
  /\ \A c \in Conns : todo[c] \subseteq Mems
  /\ \A d \in Mods : todo[d] \subseteq Rooms

\* m is in its owner's table; and its join has looked at the bans again.
InTable(m) == table[mems[m].owner][RoomOf(m).name] = m
Established(m) ==
  InTable(m) /\ ~(cur[mems[m].owner] = m /\ pc[mems[m].owner] \in {"recheckBan", "undo"})

\* m is up and running, as far as its owner can tell.
Settled(m) == InTable(m) /\ mems[m].pump = "running" /\ mems[m].live

\* A goroutine that has taken m out of the table and is to tear it down.
Holds(p, m) ==
  \/ cur[p] = m /\ pc[p] \in Leaving \cup {"undoRemove", "undoClose"}
  \/ p \in Conns /\ m \in todo[p]

\* Nobody is on two connections at once: then a nick names one connection, for
\* the moderator who bans it as for the room that lists it.
OnePerNick == \A c, d \in given.conns : Nick[c] = Nick[d] => c = d

\* state/server.md 14: a ban and a membership are each stored before looking for
\* the other, so one side always sees the other.  Nobody stays in a room they
\* are banned from, unless a moderator is about to part them: provided the nick
\* named the connection when it was resolved (the README's departures say what
\* happens when it did not).  Nor does anybody banned from everywhere keep their
\* socket once the ban's call has ended: provided it could be announced.
BanHolds ==
  OnePerNick /\ ~given.directory =>
  /\ \A m \in Mems :
       Established(m) /\ <<RoomOf(m).name, NickOf(m)>> \in bans =>
         \E d \in Mods :
           /\ pc[d] = "part"
           /\ order[d].target = mems[m].owner /\ order[d].scope = RoomOf(m).name
  /\ \A c \in given.conns :
       given.garbled \subseteq Conns /\ sock[c] /\ <<Global, Nick[c]>> \in bans =>
         \E d \in Mods :
           /\ pc[d] \in {"lookup", "announce"}
           /\ order[d].verb = "ban" /\ order[d].scope = Global /\ order[d].target = c

LastOf(r, k) ==
  LET mine == {i \in 1 .. Len(rooms[r].log) :
                 rooms[r].log[i].nick = k /\ rooms[r].log[i].kind \in {"JOIN", "PART"}}
  IN IF mine = {} THEN "PART"
     ELSE rooms[r].log[CHOOSE i \in mine : \A j \in mine : j <= i].kind

\* The roster can be relied on while nobody is on two connections at once and
\* nobody comes back from a ban that another goroutine is still enforcing.
Simple == OnePerNick /\ ~given.expires /\ "unban" \notin given.verbs

\* Every codec can say that the connection has joined the room.
Sayable(r, c) == Encodes(r, {Nick[c], c})

\* What a room was told, whom NAMES lists and who is in it agree: a settled
\* member is in the room that others find under its name, listed in it, and the
\* last the room heard of them is a JOIN, if their JOIN is one that can be encoded
\* (membership.go:89 lets the others in unheard); anybody no goroutine is working
\* on is not listed, and the last heard is not a JOIN.
RosterAgrees ==
  Simple =>
  \A m \in Mems :
    LET o == mems[m].owner
        r == mems[m].room
        busy == \E q \in Mems : mems[q].owner = o /\ mems[q].room = r /\
                  (InTable(q) \/ \E p \in Procs : cur[p] = q \/ (p \in Conns /\ q \in todo[p]))
        joining == pc[o] \in {"subscribe", "insert"} /\ room[o] = r
        listed == RoomOf(m).members[Nick[o]] = o
    IN /\ Settled(m) => /\ RoomOf(m).open /\ channels[RoomOf(m).name] = r
                        /\ LastOf(r, Nick[o]) = (IF Sayable(r, o) THEN "JOIN" ELSE "PART")
                        /\ listed
       /\ RoomOf(m).open /\ ~busy => LastOf(r, Nick[o]) = "PART" /\ (listed => joining)

\* An empty channel is one nobody is in (channel.go:129), so a member is always
\* in the room that others find under its name (state/server.md 12).
SweepSparesMembers ==
  \A m \in Mems :
    Settled(m) => /\ RoomOf(m).open
                  /\ channels[RoomOf(m).name] = mems[m].room

\* Each membership is in its owner's table, or held by the one goroutine that
\* tears it down, or torn down in full: subscription closed, pump stopped.  A
\* member list and the connection table name nobody who has left.
NothingLeaks ==
  /\ \A m \in Mems :
       LET o == mems[m].owner
           holders == {p \in Procs : Holds(p, m)}
       IN /\ Cardinality(holders) + (IF InTable(m) THEN 1 ELSE 0) <= 1
          /\ holders = {} /\ ~InTable(m) /\ ~(cur[o] = m) => ~mems[m].live /\ mems[m].pump = "done"
  /\ \A r \in Rooms, k \in Nicks :
       LET c == rooms[r].members[k]
       IN c # NoConn =>
            \/ pc[c] \in {"subscribe", "insert"} /\ room[c] = r
            \/ \E m \in Mems :
                 /\ mems[m].owner = c /\ mems[m].room = r
                 /\ \/ InTable(m)
                    \/ \E p \in Procs : Holds(p, m) /\ (cur[p] = m => pc[p] \in {"leave", "undoRemove"})
  /\ \A k \in Nicks :
       conns[k] # NoConn => pc[conns[k]] \notin {"off", "register", "leaveAll", "leaving", "gone"}

\* The old connection's teardown spares a reconnect (init.go:160, channel.go:101):
\* an entry goes only with a teardown of the connection it names.
TeardownSparesReconnect ==
  [][/\ \A k \in Nicks :
          conns[k] # NoConn /\ conns'[k] = NoConn => pc[conns[k]] = "unregister"
     /\ \A r \in Rooms, k \in Nicks :
          rooms[r].members[k] # NoConn /\ rooms'[r].members[k] = NoConn =>
            \E p \in Procs : /\ pc[p] \in {"leave", "undoRemove"} /\ pc'[p] # pc[p]
                             /\ mems[cur[p]].owner = rooms[r].members[k]]_vars

\* However joins interleave, neither limit is passed, and the rings still open
\* are those of the channels that exist.
LimitsHold ==
  /\ Cardinality({n \in Channels : channels[n] # 0}) <= MaxChannels
  /\ \A c \in Conns : Cardinality(Joined(c)) <= MaxChannelsPerConn
  /\ \A r \in Rooms : rooms[r].open <=> channels[rooms[r].name] = r

\* Nobody waits in a circle (membership.go:134): who waits for a pump has closed its
\* subscription, so a pump that runs can end; one not begun is up to the connection
\* that is still joining, which has nothing to wait for before it begins it, or gives it up.
WaitsEnd ==
  \A p \in Procs :
    pc[p] = "await" =>
      LET m == cur[p]
          o == mems[m].owner
      IN /\ ~mems[m].live
         /\ mems[m].pump = "none" =>
              /\ o # p /\ cur[o] = m
              /\ pc[o] \in {"recheckBan", "undo", "undone", "announceJoin", "startPump"}

\* A connection whose socket is gone is torn down to the end: no leave waits for
\* a pump that never stops, and no pump for a leave.
DeadConnectionsGo ==
  \A c \in Conns : (pc[c] \notin {"off", "register"} /\ ~sock[c]) ~> pc[c] = "gone"

\* A moderator's goroutine is not hung by the connection it acts on.
ModeratorReturns == \A d \in Mods : pc[d] = "store" ~> pc[d] = "finished"

=============================================================================
