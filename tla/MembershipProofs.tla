-------------------------- MODULE MembershipProofs --------------------------
(***************************************************************************)
(* Proofs about Membership, for every set of connections, moderators,      *)
(* nicks and channels and every setting: the types, the limits, that a ban *)
(* holds, that nothing leaks, that a reconnect is spared, and that in a    *)
(* simple setting the roster is true.                                      *)
(*                                                                         *)
(* One inductive invariant carries them all.  Its parts say where each     *)
(* goroutine may be and what its locals hold; whose each membership, table *)
(* place, entry and channel is; and, in a simple setting, what the room    *)
(* was last told.  First come lemmas on what each kind of step does to     *)
(* each variable, and that a step moves one goroutine only; then each part *)
(* is shown to be kept, with the help of those before it.                  *)
(***************************************************************************)
EXTENDS Membership, FiniteSetTheorems, TLAPS
-----------------------------------------------------------------------------
(* The inductive invariant, in named parts *)

OrderType == [verb : {"none", "ban", "unban"}, scope : Channels \cup {Global},
              nick : Nicks \cup {NoConn}, target : Conns \cup {NoConn}]

\* A membership is being made from the first of these to the last.
Making   == {"insert"} \cup Joining
Quitting == {"leave", "closeSub", "await", "announcePart", "undoRemove", "undoClose"}
Away     == {"off", "register", "ready", "unregister", "leaveAll", "leaving", "gone"}

\* Each goroutine is somewhere, and every variable has its type.
PcInv ==
  /\ pc \in [Procs -> ConnLabels \cup ModLabels]
  /\ \A c \in Conns : pc[c] \in ConnLabels
  /\ \A d \in Mods : pc[d] \in ModLabels
OutsideTypes ==
  /\ given \in Settings
  /\ sock \in [Conns -> BOOLEAN] /\ reading \subseteq Conns
  /\ auto \in [Conns -> SUBSET Channels]
  /\ conns \in [Nicks -> Conns \cup {NoConn}]
  /\ bans \subseteq (Channels \cup {Global}) \X Nicks
RoomTypes ==
  /\ rooms \in Seq(RoomType)
  /\ channels \in [Channels -> 0 .. Len(rooms)]
  /\ room \in [Conns -> 0 .. Len(rooms)]
MemTypes ==
  /\ mems \in Seq(MemType)
  /\ \A m \in Mems : mems[m].room \in Rooms
  /\ table \in [Conns -> [Channels -> 0 .. Len(mems)]]
  /\ cur \in [Procs -> 0 .. Len(mems)]
HandTypes ==
  /\ name \in [Conns -> Channels]
  /\ todo \in [Procs -> SUBSET Nat]
  /\ \A c \in Conns : todo[c] \subseteq Mems
  /\ \A d \in Mods : todo[d] \subseteq Rooms
  /\ order \in [Mods -> OrderType]
TypeInv == OutsideTypes /\ RoomTypes /\ MemTypes /\ HandTypes

\* What each goroutine's locals hold where it is.
ConnLocals(c) ==
  /\ pc[c] \in {"subscribe"} \cup Making => room[c] \in Rooms
  /\ pc[c] \in Making => cur[c] \in Mems /\ mems[cur[c]].owner = c
                         /\ mems[cur[c]].room = room[c] /\ mems[cur[c]].pump = "none"
ModLocals(d) ==
  /\ pc[d] \notin {"idle", "finished"} => order[d].verb # "none" /\ order[d].nick \in Nicks
  /\ pc[d] = "part" => order[d].target \in Conns /\ order[d].scope \in Channels
HandLocals(p) ==
  /\ pc[p] \in Leaving => cur[p] \in Mems
  /\ pc[p] \notin Making \cup Leaving => cur[p] = 0
LocalsInv ==
  /\ \A c \in Conns : ConnLocals(c)
  /\ \A d \in Mods : ModLocals(d)
  /\ \A p \in Procs : HandLocals(p)

HandsInv == PcInv /\ TypeInv /\ LocalsInv

\* A connection that reads is not away; what it still has to leave is its own.
ReadLocals(c) ==
  /\ c \in reading => pc[c] \notin Away
  /\ c \in reading \/ pc[c] \notin {"leaving"} \cup Leaving => todo[c] = {}
  /\ \A m \in todo[c] : mems[m].owner = c /\ cur[c] # m
  /\ pc[c] \in Leaving => mems[cur[c]].owner = c
ReadInv == \A c \in Conns : ReadLocals(c)

\* A channel's name leads to its one open object, a joiner's room is the channel it
\* joins, and a table's place its owner's membership of that name.
ChannelNames ==
  /\ \A n \in Channels : channels[n] # 0 => rooms[channels[n]].name = n
  /\ \A r \in Rooms : rooms[r].open <=> channels[rooms[r].name] = r
JoinNames == \A c \in Conns : pc[c] \in {"subscribe"} \cup Making => rooms[room[c]].name = name[c]
TableNames ==
  \A c \in Conns, n \in Channels :
    table[c][n] # 0 => mems[table[c][n]].owner = c /\ RoomOf(table[c][n]).name = n
NamesInv == ChannelNames /\ JoinNames /\ TableNames

\* Who has taken a membership out of the table is alone with it.
AloneInv ==
  /\ \A m \in Mems, p \in Procs : Holds(p, m) => ~InTable(m)
  /\ \A m \in Mems, p, q \in Procs : Holds(p, m) /\ Holds(q, m) => p = q
  /\ \A c \in Conns : pc[c] \in {"insert", "undone"} => ~InTable(cur[c])
  /\ \A c \in Conns, p \in Procs : pc[c] = "insert" => ~Holds(p, cur[c])

\* A membership is somebody's until it is torn down.
Kept(m) ==
  LET o == mems[m].owner
  IN \/ InTable(m)
     \/ \E p \in Procs : Holds(p, m)
     \/ cur[o] = m /\ pc[o] = "insert"
     \/ ~mems[m].live /\ (mems[m].pump = "done" \/ (cur[o] = m /\ pc[o] = "undone"))
KeptInv ==
  /\ \A m \in Mems : Kept(m)
  /\ \A p \in Procs : pc[p] \in {"await", "announcePart"} => ~mems[cur[p]].live
  /\ \A p \in Procs : pc[p] = "announcePart" => mems[cur[p]].pump = "done"

\* An entry of a channel is of an open one, and of somebody joining or not yet removed.
Present(m) ==
  \/ InTable(m)
  \/ \E p \in Procs : Holds(p, m) /\ (cur[p] = m => pc[p] \in {"leave", "undoRemove"})
EntryInv ==
  \A r \in Rooms, k \in Nicks :
    LET c == rooms[r].members[k]
    IN c # NoConn =>
         /\ Nick[c] = k /\ rooms[r].open
         /\ \/ pc[c] \in {"subscribe", "insert"} /\ room[c] = r
            \/ \E m \in Mems : mems[m].owner = c /\ mems[m].room = r /\ Present(m)

\* The connection table names nobody whose teardown has passed it.
TableInv ==
  \A k \in Nicks :
    conns[k] # NoConn =>
      /\ Nick[conns[k]] = k
      /\ pc[conns[k]] \notin {"off", "register", "leaveAll", "leaving", "gone"}
      /\ pc[conns[k]] \in Leaving => conns[k] \in reading

\* Only a connection's own goroutine adds to its table, after it looked.
RoomToJoin ==
  /\ IsFiniteSet({n \in Channels : channels[n] # 0})
  /\ Cardinality({n \in Channels : channels[n] # 0}) <= MaxChannels
  /\ \A c \in Conns : IsFiniteSet(Joined(c)) /\ Cardinality(Joined(c)) <= MaxChannelsPerConn
  /\ \A c \in Conns : pc[c] \in {"checkBan", "channelFor", "create", "subscribe", "insert"} =>
                        table[c][name[c]] = 0 /\ Cardinality(Joined(c)) < MaxChannelsPerConn

\* Only the connections of the setting are made.
MadeInv ==
  /\ \A c \in Conns : pc[c] # "off" => c \in given.conns
  /\ \A m \in Mems : mems[m].owner \in given.conns
  /\ \A k \in Nicks : conns[k] # NoConn => conns[k] \in given.conns

\* What a moderator has resolved.
Resolved(d) ==
  /\ order[d].target # NoConn => Nick[order[d].target] = order[d].nick /\ order[d].target \in given.conns
  /\ ~given.directory /\ pc[d] \notin {"idle", "finished"} => order[d].target # NoConn
  /\ order[d].verb \in given.verbs \cup {"none"}
  /\ pc[d] = "part" \/ pc[d] \in Leaving => order[d].verb = "ban" /\ order[d].target \in Conns
  /\ pc[d] \in Leaving => mems[cur[d]].owner = order[d].target /\ RoomOf(cur[d]).name = order[d].scope
OrderInv == \A d \in Mods : Resolved(d)

\* The two halves of BanHolds: for a room's bans, and for the server-wide ones.
RoomBan ==
  OnePerNick /\ ~given.directory =>
  \A m \in Mems :
    Established(m) /\ <<RoomOf(m).name, NickOf(m)>> \in bans =>
      \E d \in Mods :
        /\ pc[d] = "part"
        /\ order[d].target = mems[m].owner /\ order[d].scope = RoomOf(m).name
ServerBan ==
  OnePerNick /\ ~given.directory =>
  \A c \in given.conns :
    given.garbled \subseteq Conns /\ sock[c] /\ <<Global, Nick[c]>> \in bans =>
      \E d \in Mods :
        /\ pc[d] \in {"lookup", "announce"}
        /\ order[d].verb = "ban" /\ order[d].scope = Global /\ order[d].target = c

\* In a simple setting whoever a moderator parts is banned, and stays so, so they
\* have no second membership of the room before the first is torn down.
SimplyBanned ==
  Simple => \A d \in Mods : pc[d] = "part" \/ pc[d] \in Leaving => <<order[d].scope, order[d].nick>> \in bans
SimplyOut ==
  Simple => \A c \in Conns, d \in Mods :
    pc[c] \in {"channelFor", "create", "subscribe", "insert"} /\ pc[d] \in Leaving =>
      ~(order[d].target = c /\ order[d].scope = name[c])
Active(m) ==
  \/ InTable(m)
  \/ \E p \in Procs : Holds(p, m)
  \/ cur[mems[m].owner] = m /\ pc[mems[m].owner] \in Making
SimplyOne ==
  Simple => \A m, q \in Mems :
    Active(m) /\ Active(q) /\ mems[m].owner = mems[q].owner /\ RoomOf(m).name = RoomOf(q).name => m = q

\* In a simple setting nobody but its connection writes an entry.
SimplyListed ==
  Simple =>
    /\ \A m \in Mems :
         Present(m) \/ (cur[mems[m].owner] = m /\ pc[mems[m].owner] = "insert") =>
           RoomOf(m).members[NickOf(m)] = mems[m].owner
    /\ \A c \in Conns : pc[c] \in {"subscribe", "insert"} => rooms[room[c]].members[Nick[c]] = c

\* What the room was last told of a member follows from who has the membership, and
\* from whether their JOIN can be encoded.
MineIn(L, k) == {i \in 1 .. Len(L) : L[i].nick = k /\ L[i].kind \in {"JOIN", "PART"}}
HasLast(L, k) == MineIn(L, k) # {} => \E i \in MineIn(L, k) : \A j \in MineIn(L, k) : j <= i
Told == \A r \in Rooms, k \in Nicks : HasLast(rooms[r].log, k)
Unannounced(m) ==
  cur[mems[m].owner] = m /\
  pc[mems[m].owner] \in {"insert", "recheckBan", "undo", "undoRemove", "undoClose", "undone", "announceJoin"}
SimplyTold ==
  Simple =>
    /\ \A m \in Mems :
         InTable(m) /\ ~Unannounced(m) /\ Sayable(mems[m].room, mems[m].owner) =>
           LastOf(mems[m].room, NickOf(m)) = "JOIN"
    /\ \A r \in Rooms, c \in given.conns :
         rooms[r].open /\ LastOf(r, Nick[c]) = "JOIN" =>
           /\ Sayable(r, c)
           /\ \E m \in Mems :
                /\ mems[m].owner = c /\ mems[m].room = r
                /\ (InTable(m) \/ \E p \in Procs : Holds(p, m)) /\ ~Unannounced(m)

-----------------------------------------------------------------------------
(* What the steps do to the two sequences of objects *)

\* A joiner enters its channel after one lookup, or after two.
Enters(c) == ChannelFor(c) \/ CreateChannel(c)

\* One membership is replaced, and the others are as they were.
LEMMA MemsChange ==
  ASSUME mems \in Seq(MemType), NEW i \in Mems, NEW rec \in MemType,
         mems' = [mems EXCEPT ![i] = rec]
  PROVE  /\ mems' \in Seq(MemType) /\ Len(mems') = Len(mems)
         /\ mems'[i] = rec
         /\ \A m \in Mems \ {i} : mems'[m] = mems[m]
<1> USE DEF Mems, Rooms
<1>1. mems \in [1 .. Len(mems) -> MemType] /\ Len(mems) \in Nat
  OBVIOUS
<1>2. mems' \in [1 .. Len(mems) -> MemType]
  BY <1>1
<1>3. mems' \in Seq(MemType) /\ Len(mems') = Len(mems)
  BY <1>1, <1>2
<1>4. QED
  BY <1>1, <1>3

\* One channel object is replaced, and the others are as they were.
LEMMA RoomsChange ==
  ASSUME rooms \in Seq(RoomType), NEW i \in Rooms, NEW rec \in RoomType,
         rooms' = [rooms EXCEPT ![i] = rec]
  PROVE  /\ rooms' \in Seq(RoomType) /\ Len(rooms') = Len(rooms)
         /\ rooms'[i] = rec
         /\ \A r \in Rooms \ {i} : rooms'[r] = rooms[r]
<1> USE DEF Mems, Rooms
<1>1. rooms \in [1 .. Len(rooms) -> RoomType] /\ Len(rooms) \in Nat
  OBVIOUS
<1>2. rooms' \in [1 .. Len(rooms) -> RoomType]
  BY <1>1
<1>3. rooms' \in Seq(RoomType) /\ Len(rooms') = Len(rooms)
  BY <1>1, <1>2
<1>4. QED
  BY <1>1, <1>3

\* A membership's pump and subscription change; whose and where it is do not.
LEMMA MemSet ==
  ASSUME mems \in Seq(MemType), NEW i \in Mems
  PROVE  /\ \A u \in {"none", "running", "lagged", "done"} :
              /\ [mems EXCEPT ![i].pump = u] = [mems EXCEPT ![i] = [mems[i] EXCEPT !.pump = u]]
              /\ [mems[i] EXCEPT !.pump = u] \in MemType
         /\ [mems EXCEPT ![i].live = FALSE] = [mems EXCEPT ![i] = [mems[i] EXCEPT !.live = FALSE]]
         /\ [mems[i] EXCEPT !.live = FALSE] \in MemType
         /\ [mems EXCEPT ![i].pump = "lagged", ![i].live = FALSE]
              = [mems EXCEPT ![i] = [mems[i] EXCEPT !.pump = "lagged", !.live = FALSE]]
         /\ [mems[i] EXCEPT !.pump = "lagged", !.live = FALSE] \in MemType
<1> USE DEF Mems, Rooms
<1>1. mems[i] \in MemType
  OBVIOUS
<1>2. ASSUME NEW u \in {"none", "running", "lagged", "done"}
      PROVE  [mems[i] EXCEPT !.pump = u] \in MemType
  BY <1>1, <1>2 DEF MemType
<1>3. [mems[i] EXCEPT !.live = FALSE] \in MemType
  BY <1>1 DEF MemType
<1>4. [mems[i] EXCEPT !.pump = "lagged", !.live = FALSE] \in MemType
  BY <1>1 DEF MemType
<1>5. [mems EXCEPT ![i].pump = "lagged", ![i].live = FALSE]
              = [mems EXCEPT ![i] = [mems[i] EXCEPT !.pump = "lagged", !.live = FALSE]]
  OBVIOUS
<1>6. QED
  BY <1>2, <1>3, <1>4, <1>5

\* What a log holds.
EntryType == [kind : {"JOIN", "PART", "ban", "unban"}, nick : Nicks]

\* An entry of a channel is set or cleared.
LEMMA EntryEffect ==
  ASSUME rooms \in Seq(RoomType), NEW r \in Rooms, NEW k \in Nicks, NEW c \in Conns \cup {NoConn},
         rooms' = [rooms EXCEPT ![r].members[k] = c]
  PROVE  /\ rooms' \in Seq(RoomType) /\ Len(rooms') = Len(rooms)
         /\ \A s \in Rooms : /\ rooms'[s].name = rooms[s].name
                             /\ rooms'[s].open = rooms[s].open
                             /\ rooms'[s].log = rooms[s].log
                             /\ \A j \in Nicks : rooms'[s].members[j] =
                                  IF s = r /\ j = k THEN c ELSE rooms[s].members[j]
<1> USE DEF Mems, Rooms
<1> DEFINE mm == [rooms[r].members EXCEPT ![k] = c]
           rec == [rooms[r] EXCEPT !.members = mm]
<1>1. rooms[r] \in RoomType
  OBVIOUS
<1>2. mm \in [Nicks -> Conns \cup {NoConn}]
  BY <1>1 DEF RoomType
<1>3. rooms' = [rooms EXCEPT ![r] = rec]
  OBVIOUS
<1>4. rec \in RoomType
  BY <1>1, <1>2 DEF RoomType
<1>5. rec.name = rooms[r].name /\ rec.open = rooms[r].open /\ rec.log = rooms[r].log /\ rec.members = mm
  BY <1>1 DEF RoomType
<1>6. \A j \in Nicks : mm[j] = IF j = k THEN c ELSE rooms[r].members[j]
  BY <1>1 DEF RoomType
<1> HIDE DEF rec, mm
<1>7. /\ rooms' \in Seq(RoomType) /\ Len(rooms') = Len(rooms) /\ rooms'[r] = rec
      /\ \A s \in Rooms \ {r} : rooms'[s] = rooms[s]
  BY <1>3, <1>4, RoomsChange
<1>8. ASSUME NEW s \in Rooms
      PROVE  /\ rooms'[s].name = rooms[s].name
             /\ rooms'[s].open = rooms[s].open
             /\ rooms'[s].log = rooms[s].log
             /\ \A j \in Nicks : rooms'[s].members[j] =
                  IF s = r /\ j = k THEN c ELSE rooms[s].members[j]
  <2>1. CASE s = r
    BY <1>5, <1>6, <1>7, <2>1
  <2>2. CASE s # r
    BY <1>7, <2>2
  <2>3. QED
    BY <2>1, <2>2
<1>9. QED
  BY <1>7, <1>8

\* A channel is swept.
LEMMA SweepEffect ==
  ASSUME rooms \in Seq(RoomType), NEW r \in Rooms,
         rooms' = [rooms EXCEPT ![r].open = FALSE]
  PROVE  /\ rooms' \in Seq(RoomType) /\ Len(rooms') = Len(rooms)
         /\ ~rooms'[r].open
         /\ \A s \in Rooms : /\ rooms'[s].name = rooms[s].name
                             /\ rooms'[s].members = rooms[s].members
                             /\ rooms'[s].log = rooms[s].log
                             /\ s # r => rooms'[s].open = rooms[s].open
<1> USE DEF Mems, Rooms
<1> DEFINE rec == [rooms[r] EXCEPT !.open = FALSE]
<1>1. rooms[r] \in RoomType
  OBVIOUS
<1>3. rooms' = [rooms EXCEPT ![r] = rec]
  OBVIOUS
<1>4. rec \in RoomType
  BY <1>1 DEF RoomType
<1>5. rec.name = rooms[r].name /\ ~rec.open /\ rec.log = rooms[r].log /\ rec.members = rooms[r].members
  BY <1>1 DEF RoomType
<1> HIDE DEF rec
<1>7. /\ rooms' \in Seq(RoomType) /\ Len(rooms') = Len(rooms) /\ rooms'[r] = rec
      /\ \A s \in Rooms \ {r} : rooms'[s] = rooms[s]
  BY <1>3, <1>4, RoomsChange
<1>8. QED
  BY <1>5, <1>7

-----------------------------------------------------------------------------
(* The type invariant, with the locals of each goroutine *)

\* The parts of the invariant that type the variables give the type invariant.
LEMMA Typed == HandsInv => TypeOK
BY DEF HandsInv, PcInv, TypeInv, OutsideTypes, RoomTypes, MemTypes, HandTypes, TypeOK

\* At first nobody is anywhere and nothing is made.
LEMMA HandsInit == Init => HandsInv
<1> SUFFICES ASSUME Init PROVE HandsInv
  OBVIOUS
<1>1. AnyName \in Channels
  BY MembershipAssumption DEF AnyName
<1>2. given \in Setting
  BY MembershipAssumption DEF Init
<1>3. rooms \in Seq(RoomType) /\ Len(rooms) = 0 /\ mems \in Seq(MemType) /\ Len(mems) = 0
  BY DEF Init
<1>4. PcInv
  BY MembershipAssumption DEF Init, PcInv, Procs, ConnLabels, ModLabels
<1>5. TypeInv
  BY <1>1, <1>2, <1>3, <1>4, MembershipAssumption
     DEF Init, PcInv, TypeInv, OutsideTypes, RoomTypes, MemTypes, HandTypes, Procs, Mems, Rooms,
         OrderType, NoOrder, Setting
<1>6. LocalsInv
  BY <1>1, <1>2, <1>3, MembershipAssumption
     DEF Init, LocalsInv, ConnLocals, ModLocals, HandLocals, Procs, Mems, Rooms, Leaving, Making, Joining
<1>7. QED
  BY <1>4, <1>5, <1>6 DEF HandsInv

\* A goroutine goes only to places of its own.
LEMMA PcNext == PcInv /\ [Next]_vars => PcInv'
<1> SUFFICES ASSUME PcInv, [Next]_vars PROVE PcInv'
  OBVIOUS
<1> USE MembershipAssumption DEF PcInv, handVars, Goto, Procs, ConnLabels, ModLabels, Joining, Leaving
<1>1. ASSUME NEW c \in Conns, ClientStep(c) PROVE PcInv'
  BY <1>1 DEF ClientStep, Connect, SocketDies, StartJoin, StartPart
<1>2. ASSUME NEW c \in Conns, ConnStep(c) PROVE PcInv'
  <2>1. CASE Register(c) \/ WriteReady(c) \/ Autojoin(c) \/ StartReading(c) \/ StopReading(c) \/ Unregister(c)
    BY <2>1 DEF Register, WriteReady, Autojoin, StartReading, StopReading, Unregister
  <2>2. CASE LeaveAll(c) \/ LeaveNext(c) \/ CheckBan(c) \/ Enters(c) \/ Subscribe(c) \/ Insert(c)
    BY <2>2 DEF LeaveAll, LeaveNext, CheckBan, Enters, ChannelFor, CreateChannel, EnterChannel, Subscribe,
          Insert
  <2>3. CASE RecheckBan(c) \/ Undo(c) \/ Undone(c) \/ AnnounceJoin(c) \/ StartPump(c)
    BY <2>3 DEF RecheckBan, Undo, Undone, AnnounceJoin, StartPump, JoinReturns
  <2>4. QED
    BY <1>2, <2>1, <2>2, <2>3 DEF ConnStep, Enters
<1>3. ASSUME NEW p \in Procs, LeaveStep(p) PROVE PcInv'
  <2>1. CASE Remove(p) \/ CloseSub(p)
    BY <2>1 DEF Remove, CloseSub
  <2>2. CASE Await(p) \/ AnnouncePart(p)
    BY <2>2 DEF Await, AnnouncePart
  <2>3. QED
    BY <1>3, <2>1, <2>2 DEF LeaveStep
<1>4. ASSUME NEW d \in Mods, NEW v \in given.verbs, NEW s \in given.scopes, NEW k \in Nicks, Resolve(d, v, s, k)
      PROVE  PcInv'
  BY <1>4 DEF Resolve
<1>5. ASSUME NEW d \in Mods, ModStep(d) PROVE PcInv'
  BY <1>5 DEF ModStep, Store, PartTarget, Lookup, Announce, EnforceBan, AnnounceFails
<1>6. ASSUME NEW m \in Mems, PumpStep(m) PROVE PcInv'
  BY <1>6 DEF PumpStep, PumpEnds, PumpFails, PumpLags, PumpDrops
<1>7. ASSUME NEW n \in Channels, Sweep(n) PROVE PcInv'
  BY <1>7 DEF Sweep
<1>8. ASSUME NEW b \in bans, Expire(b) PROVE PcInv'
  BY <1>8 DEF Expire
<1>9. CASE UNCHANGED vars
  BY <1>9 DEF vars
<1>10. QED
  BY <1>1, <1>2, <1>3, <1>4, <1>5, <1>6, <1>7, <1>8, <1>9 DEF Next, Step

\* Which steps touch what.
LEMMA RoomSteps ==
  ASSUME [Next]_vars
  PROVE  \/ UNCHANGED <<rooms, channels, room>>
         \/ UNCHANGED <<rooms, channels>> /\ \E c \in Conns : Undone(c) \/ StartPump(c)
         \/ \E c \in Conns : Enters(c) \/ AnnounceJoin(c)
         \/ \E p \in Procs : Remove(p) \/ AnnouncePart(p)
         \/ \E d \in Mods : Announce(d)
         \/ \E n \in Channels : Sweep(n)
<1> USE DEF roomVars, handVars
<1>1. ASSUME NEW c \in Conns, ClientStep(c) PROVE UNCHANGED <<rooms, channels, room>>
  BY <1>1 DEF ClientStep, Connect, SocketDies, StartJoin, StartPart
<1>2. ASSUME NEW c \in Conns, ConnStep(c), ~Enters(c), ~AnnounceJoin(c)
      PROVE  UNCHANGED <<rooms, channels>> /\ (UNCHANGED room \/ Undone(c) \/ StartPump(c))
  BY <1>2 DEF ConnStep, Enters, Register, WriteReady, Autojoin, StartReading, StopReading, Unregister, LeaveAll,
              LeaveNext, CheckBan, Subscribe, Insert, RecheckBan, Undo, Undone, StartPump
<1>3. ASSUME NEW p \in Procs, LeaveStep(p), ~Remove(p), ~AnnouncePart(p)
      PROVE  UNCHANGED <<rooms, channels, room>>
  BY <1>3 DEF LeaveStep, CloseSub, Await
<1>4. ASSUME NEW d \in Mods, NEW v \in given.verbs, NEW s \in given.scopes, NEW k \in Nicks, Resolve(d, v, s, k)
      PROVE  UNCHANGED <<rooms, channels, room>>
  BY <1>4 DEF Resolve
<1>5. ASSUME NEW d \in Mods, ModStep(d), ~Announce(d) PROVE UNCHANGED <<rooms, channels, room>>
  BY <1>5 DEF ModStep, Store, PartTarget, Lookup, EnforceBan, AnnounceFails
<1>6. ASSUME NEW m \in Mems, PumpStep(m) PROVE UNCHANGED <<rooms, channels, room>>
  BY <1>6 DEF PumpStep, PumpEnds, PumpFails, PumpLags, PumpDrops
<1>7. ASSUME NEW b \in bans, Expire(b) PROVE UNCHANGED <<rooms, channels, room>>
  BY <1>7 DEF Expire
<1>8. CASE UNCHANGED vars
  BY <1>8 DEF vars
<1>9. QED
  BY <1>1, <1>2, <1>3, <1>4, <1>5, <1>6, <1>7, <1>8 DEF Next, Step

\* Which steps touch memberships, tables, or what a goroutine works on.
LEMMA MemSteps ==
  ASSUME [Next]_vars
  PROVE  \/ UNCHANGED <<mems, table, cur>>
         \/ UNCHANGED <<mems, table>> /\ \E c \in Conns : LeaveNext(c)
         \/ UNCHANGED <<mems, table>> /\ \E p \in Procs : AnnouncePart(p)
         \/ \E c \in Conns : LeaveAll(c) \/ Subscribe(c) \/ Insert(c) \/ Undo(c) \/ Undone(c) \/ StartPump(c)
         \/ \E c \in Conns : \E n \in given.channels : StartPart(c, n)
         \/ \E p \in Procs : CloseSub(p)
         \/ \E d \in Mods : PartTarget(d)
         \/ \E m \in Mems : PumpStep(m)
<1> USE DEF memVars, handVars
<1>1. ASSUME NEW c \in Conns, ClientStep(c), ~\E n \in given.channels : StartPart(c, n)
      PROVE  UNCHANGED <<mems, table, cur>>
  BY <1>1 DEF ClientStep, Connect, SocketDies, StartJoin
<1>2. ASSUME NEW c \in Conns, ConnStep(c), ~LeaveAll(c), ~Subscribe(c), ~Insert(c), ~Undo(c),
             ~Undone(c), ~StartPump(c)
      PROVE  UNCHANGED <<mems, table>> /\ (UNCHANGED cur \/ LeaveNext(c))
  BY <1>2 DEF ConnStep, Register, WriteReady, Autojoin, StartReading, StopReading, Unregister,
              LeaveNext, CheckBan, Enters, ChannelFor, CreateChannel, EnterChannel, RecheckBan, AnnounceJoin
<1>3. ASSUME NEW p \in Procs, LeaveStep(p), ~CloseSub(p)
      PROVE  UNCHANGED <<mems, table>> /\ (UNCHANGED cur \/ AnnouncePart(p))
  BY <1>3 DEF LeaveStep, Remove, Await, AnnouncePart
<1>4. ASSUME NEW d \in Mods, NEW v \in given.verbs, NEW s \in given.scopes, NEW k \in Nicks, Resolve(d, v, s, k)
      PROVE  UNCHANGED <<mems, table, cur>>
  BY <1>4 DEF Resolve
<1>5. ASSUME NEW d \in Mods, ModStep(d), ~PartTarget(d) PROVE UNCHANGED <<mems, table, cur>>
  BY <1>5 DEF ModStep, Store, Announce, Lookup, EnforceBan, AnnounceFails
<1>7. ASSUME NEW b \in bans, Expire(b) PROVE UNCHANGED <<mems, table, cur>>
  BY <1>7 DEF Expire
<1>8. ASSUME NEW n \in Channels, Sweep(n) PROVE UNCHANGED <<mems, table, cur>>
  BY <1>8 DEF Sweep
<1>9. CASE UNCHANGED vars
  BY <1>9 DEF vars
<1>10. QED
  BY <1>1, <1>2, <1>3, <1>4, <1>5, <1>7, <1>8, <1>9 DEF Next, Step

\* The setting never changes.
LEMMA GivenSame == OutsideTypes /\ [Next]_vars => given' = given /\ given \in Setting
BY MembershipAssumption DEF Next, vars, OutsideTypes

\* The step that makes a membership.
LEMMA SubscribeEffect ==
  ASSUME HandsInv, NEW c \in Conns, Subscribe(c)
  PROVE  /\ mems' \in Seq(MemType) /\ Len(mems') = Len(mems) + 1
         /\ \A m \in Mems : mems'[m] = mems[m]
         /\ mems'[Len(mems) + 1].owner = c /\ mems'[Len(mems) + 1].room = room[c]
         /\ mems'[Len(mems) + 1].pump = "none" /\ mems'[Len(mems) + 1].live = rooms[room[c]].open
         /\ room[c] \in Rooms
<1> DEFINE rec == [owner |-> c, room |-> room[c], base |-> Len(rooms[room[c]].log),
                   live |-> rooms[room[c]].open, pump |-> "none"]
<1>1. room[c] \in Rooms /\ mems \in Seq(MemType)
  BY DEF HandsInv, LocalsInv, ConnLocals, ModLocals, HandLocals, TypeInv, MemTypes, Subscribe, Rooms
<1>2. rooms[room[c]] \in RoomType
  BY <1>1 DEF HandsInv, TypeInv, RoomTypes, Rooms
<1>3. rec \in MemType
  BY <1>1, <1>2 DEF MemType, RoomType, Rooms
<1>4. /\ rec.owner = c /\ rec.room = room[c] /\ rec.pump = "none" /\ rec.live = rooms[room[c]].open
      /\ mems' = Append(mems, rec)
  BY DEF Subscribe
<1> HIDE DEF rec
<1>5. QED
  BY <1>1, <1>3, <1>4 DEF Mems

\* The steps that change one.
MemKept(i) ==
  /\ mems' \in Seq(MemType) /\ Len(mems') = Len(mems)
  /\ mems'[i].owner = mems[i].owner /\ mems'[i].room = mems[i].room
  /\ \A m \in Mems \ {i} : mems'[m] = mems[m]

\* A pump starts, lags or stops.
LEMMA PumpEffect ==
  ASSUME mems \in Seq(MemType), NEW i \in Mems, NEW u \in {"none", "running", "lagged", "done"},
         mems' = [mems EXCEPT ![i].pump = u]
  PROVE  MemKept(i) /\ mems'[i].pump = u /\ mems'[i].live = mems[i].live
<1> DEFINE rec == [mems[i] EXCEPT !.pump = u]
<1>1. rec \in MemType /\ mems' = [mems EXCEPT ![i] = rec]
  BY MemSet
<1>2. mems[i] \in MemType
  BY DEF Mems
<1>3. rec.owner = mems[i].owner /\ rec.room = mems[i].room /\ rec.live = mems[i].live /\ rec.pump = u
  BY <1>2 DEF MemType
<1> HIDE DEF rec
<1>4. QED
  BY <1>1, <1>3, MemsChange DEF MemKept

\* A subscription is closed.
LEMMA CloseEffect ==
  ASSUME mems \in Seq(MemType), NEW i \in Mems, mems' = [mems EXCEPT ![i].live = FALSE]
  PROVE  MemKept(i) /\ mems'[i].pump = mems[i].pump /\ ~mems'[i].live
<1> DEFINE rec == [mems[i] EXCEPT !.live = FALSE]
<1>1. rec \in MemType /\ mems' = [mems EXCEPT ![i] = rec]
  BY MemSet
<1>2. mems[i] \in MemType
  BY DEF Mems
<1>3. rec.owner = mems[i].owner /\ rec.room = mems[i].room /\ rec.pump = mems[i].pump /\ ~rec.live
  BY <1>2 DEF MemType
<1> HIDE DEF rec
<1>4. QED
  BY <1>1, <1>3, MemsChange DEF MemKept

\* A pump that runs goes on to its end, and opens no subscription.
LEMMA PumpStepEffect ==
  ASSUME mems \in Seq(MemType), NEW i \in Mems, PumpStep(i)
  PROVE  /\ MemKept(i) /\ mems[i].pump \in {"running", "lagged"} /\ mems'[i].pump \in {"lagged", "done"}
         /\ mems'[i].live => mems[i].live
<1>1. mems[i] \in MemType
  BY DEF Mems
<1>2. CASE PumpEnds(i) \/ PumpFails(i) \/ PumpDrops(i)
  <2>1. mems' = [mems EXCEPT ![i].pump = "done"] /\ mems[i].pump \in {"running", "lagged"}
    BY <1>2 DEF PumpEnds, PumpFails, PumpDrops
  <2>2. QED
    BY <2>1, PumpEffect
<1>3. CASE PumpLags(i)
  <2> DEFINE rec == [mems[i] EXCEPT !.pump = "lagged", !.live = FALSE]
  <2>1. rec \in MemType /\ mems' = [mems EXCEPT ![i] = rec] /\ mems[i].pump = "running"
    BY <1>3, MemSet DEF PumpLags
  <2>2. rec.owner = mems[i].owner /\ rec.room = mems[i].room /\ rec.pump = "lagged" /\ ~rec.live
    BY <1>1 DEF MemType
  <2> HIDE DEF rec
  <2>3. QED
    BY <2>1, <2>2, MemsChange DEF MemKept
<1>4. QED
  BY <1>2, <1>3 DEF PumpStep

\* One membership at most changes, and nobody moves it.
LEMMA MemsLast ==
  ASSUME HandsInv, [Next]_vars
  PROVE  /\ mems' \in Seq(MemType) /\ Len(mems') >= Len(mems)
         /\ \A m \in Mems : mems'[m].owner = mems[m].owner /\ mems'[m].room = mems[m].room
         /\ Len(mems') # Len(mems) => \E c \in Conns : Subscribe(c)
<1> USE DEF MemKept, Mems
<1>0. mems \in Seq(MemType)
  BY DEF HandsInv, TypeInv, MemTypes
<1>1. CASE UNCHANGED mems
  BY <1>0, <1>1
<1>2. ASSUME NEW c \in Conns, LeaveAll(c) \/ Insert(c) \/ Undo(c) \/ \E n \in given.channels : StartPart(c, n)
      PROVE  UNCHANGED mems
  BY <1>2 DEF LeaveAll, Insert, Undo, StartPart
<1>3. ASSUME NEW c \in Conns, Subscribe(c)
      PROVE  mems' \in Seq(MemType) /\ Len(mems') = Len(mems) + 1 /\ \A m \in Mems : mems'[m] = mems[m]
  BY <1>3, SubscribeEffect
<1>4. ASSUME NEW c \in Conns, Undone(c) \/ StartPump(c) PROVE MemKept(cur[c])
  <2>1. cur[c] \in Mems
    BY <1>4 DEF Undone, StartPump, HandsInv, LocalsInv, ConnLocals, ModLocals, HandLocals, Making, Joining
  <2>2. mems' = [mems EXCEPT ![cur[c]].pump = "done"] \/ mems' = [mems EXCEPT ![cur[c]].pump = "running"]
    BY <1>4 DEF Undone, StartPump
  <2>3. QED
    BY <1>0, <2>1, <2>2, PumpEffect
<1>5. ASSUME NEW p \in Procs, CloseSub(p) PROVE MemKept(cur[p])
  <2>1. cur[p] \in Mems
    BY <1>5 DEF CloseSub, HandsInv, PcInv, LocalsInv, ConnLocals, ModLocals, HandLocals, Making, Joining,
          Leaving, Procs, ModLabels
  <2>2. QED
    BY <1>0, <1>5, <2>1, CloseEffect DEF CloseSub
<1>6. ASSUME NEW d \in Mods, PartTarget(d) PROVE UNCHANGED mems
  BY <1>6 DEF PartTarget
<1>7. ASSUME NEW m \in Mems, PumpStep(m) PROVE MemKept(m)
  BY <1>0, <1>7, PumpStepEffect
<1>8. ASSUME NEW i, MemKept(i)
      PROVE  /\ mems' \in Seq(MemType) /\ Len(mems') = Len(mems)
             /\ \A m \in Mems : mems'[m].owner = mems[m].owner /\ mems'[m].room = mems[m].room
  BY <1>0, <1>8
<1>9. UNCHANGED mems \/ (\E c \in Conns : Subscribe(c)) \/ (\E i : MemKept(i))
  BY <1>2, <1>4, <1>5, <1>6, <1>7, MemSteps
<1>10. QED
  BY <1>0, <1>1, <1>3, <1>8, <1>9

\* The steps that change rooms.  A channel keeps its name, and only its joiner's entry
\* is set and only a leaver's cleared.
RoomsWritten ==
  /\ rooms' \in Seq(RoomType) /\ Len(rooms') = Len(rooms)
  /\ \A r \in Rooms : rooms'[r].name = rooms[r].name
EntrySet(r, k, c) ==
  /\ RoomsWritten
  /\ \A s \in Rooms : /\ rooms'[s].open = rooms[s].open /\ rooms'[s].log = rooms[s].log
                      /\ \A j \in Nicks : rooms'[s].members[j] =
                           IF s = r /\ j = k THEN c ELSE rooms[s].members[j]
LogWritten(r, kind, who, words) ==
  /\ RoomsWritten
  /\ \A s \in Rooms : /\ rooms'[s].open = rooms[s].open /\ rooms'[s].members = rooms[s].members
                      /\ s # r \/ ~rooms[s].open \/ ~Encodes(r, {who} \cup words) => rooms'[s].log = rooms[s].log
  /\ rooms[r].open /\ Encodes(r, {who} \cup words) =>
       rooms'[r].log = Append(rooms[r].log, [kind |-> kind, nick |-> who])

\* An open ring's log gains the announcement; a closed one, and one given what cannot
\* be encoded, ignores it.
LEMMA BroadcastLogs ==
  ASSUME rooms \in Seq(RoomType), NEW r \in Rooms,
         NEW kind \in {"JOIN", "PART", "ban", "unban"}, NEW who \in Nicks, NEW words,
         Broadcast(r, kind, who, words)
  PROVE  LogWritten(r, kind, who, words)
<1> USE DEF Mems, Rooms, LogWritten, RoomsWritten
<1> DEFINE e == [kind |-> kind, nick |-> who]
           rec == [rooms[r] EXCEPT !.log = Append(rooms[r].log, e)]
<1>1. rooms[r] \in RoomType /\ e \in EntryType
  BY DEF EntryType
<1>2. CASE ~(rooms[r].open /\ Encodes(r, {who} \cup words))
  BY <1>2 DEF Broadcast
<1>3. CASE rooms[r].open /\ Encodes(r, {who} \cup words)
  <2>1. rooms' = [rooms EXCEPT ![r] = rec]
    BY <1>3 DEF Broadcast
  <2>2. Append(rooms[r].log, e) \in Seq(EntryType)
    BY <1>1 DEF RoomType, EntryType
  <2>3. rec \in RoomType
    BY <1>1, <2>2 DEF RoomType, EntryType
  <2>4. /\ rec.name = rooms[r].name /\ rec.open = rooms[r].open /\ rec.members = rooms[r].members
        /\ rec.log = Append(rooms[r].log, e)
    BY <1>1 DEF RoomType
  <2> HIDE DEF rec
  <2>5. QED
    BY <1>3, <2>1, <2>3, <2>4, RoomsChange
<1>4. QED
  BY <1>1, <1>2, <1>3 DEF RoomType

\* A connection has a nick.
LEMMA NickType == ASSUME OutsideTypes, NEW c \in Conns PROVE Nick[c] \in Nicks
BY MembershipAssumption DEF OutsideTypes, Setting, Nick

\* A membership is a connection's, in a channel object that was made.
LEMMA MemFacts ==
  ASSUME HandsInv, NEW m \in Mems
  PROVE  mems[m].owner \in Conns /\ mems[m].room \in Rooms /\ NickOf(m) \in Nicks
<1>1. mems[m] \in MemType /\ mems[m].room \in Rooms
  BY DEF HandsInv, TypeInv, MemTypes, Mems
<1>2. mems[m].owner \in Conns
  BY <1>1 DEF MemType
<1>3. QED
  BY <1>1, <1>2, NickType DEF HandsInv, TypeInv, NickOf

\* An entry is set or cleared, and nothing else of a channel.
LEMMA EntryWritten ==
  ASSUME rooms \in Seq(RoomType), NEW r \in Rooms, NEW k \in Nicks, NEW c \in Conns \cup {NoConn},
         rooms' = [rooms EXCEPT ![r].members[k] = c]
  PROVE  EntrySet(r, k, c)
<1>1. /\ rooms' \in Seq(RoomType) /\ Len(rooms') = Len(rooms)
      /\ \A s \in Rooms : /\ rooms'[s].name = rooms[s].name
                          /\ rooms'[s].open = rooms[s].open
                          /\ rooms'[s].log = rooms[s].log
                          /\ \A j \in Nicks : rooms'[s].members[j] =
                               IF s = r /\ j = k THEN c ELSE rooms[s].members[j]
  BY EntryEffect
<1>2. QED
  BY <1>1 DEF EntrySet, RoomsWritten

\* A joiner finds the channel, makes it, or finds that there are too many.
LEMMA ChannelForEffect ==
  ASSUME HandsInv, NEW c \in Conns, Enters(c)
  PROVE  \/ /\ channels[name[c]] \in Rooms /\ EntrySet(channels[name[c]], Nick[c], c)
            /\ room' = [room EXCEPT ![c] = channels[name[c]]] /\ pc' = [pc EXCEPT ![c] = "subscribe"]
            /\ UNCHANGED channels
         \/ /\ channels[name[c]] = 0 /\ ~ChannelsFull
            /\ rooms' \in Seq(RoomType) /\ Len(rooms') = Len(rooms) + 1
            /\ \A r \in Rooms : rooms'[r] = rooms[r]
            /\ rooms'[Len(rooms) + 1].name = name[c] /\ rooms'[Len(rooms) + 1].open
            /\ rooms'[Len(rooms) + 1].log = << >>
            /\ \A k \in Nicks : rooms'[Len(rooms) + 1].members[k] = IF k = Nick[c] THEN c ELSE NoConn
            /\ channels' = [channels EXCEPT ![name[c]] = Len(rooms) + 1]
            /\ room' = [room EXCEPT ![c] = Len(rooms) + 1] /\ pc' = [pc EXCEPT ![c] = "subscribe"]
         \/ UNCHANGED <<rooms, channels, room>> /\ \E l \in {"create", "serving"} : pc' = [pc EXCEPT ![c] = l]
<1> DEFINE new == [name |-> name[c], open |-> TRUE, log |-> << >>,
                   members |-> [k \in Nicks |-> IF k = Nick[c] THEN c ELSE NoConn]]
<1>1. /\ rooms \in Seq(RoomType) /\ name[c] \in Channels /\ Nick[c] \in Nicks
      /\ channels[name[c]] \in 0 .. Len(rooms)
  BY NickType DEF HandsInv, TypeInv, RoomTypes, HandTypes
<1>2. CASE channels[name[c]] # 0
  <2>1. channels[name[c]] \in Rooms
    BY <1>1, <1>2 DEF Rooms
  <2>2. /\ rooms' = [rooms EXCEPT ![channels[name[c]]].members[Nick[c]] = c]
        /\ room' = [room EXCEPT ![c] = channels[name[c]]] /\ pc' = [pc EXCEPT ![c] = "subscribe"]
        /\ UNCHANGED channels
    BY <1>2 DEF Enters, ChannelFor, CreateChannel, EnterChannel, AddEntry, Goto
  <2>3. EntrySet(channels[name[c]], Nick[c], c)
    BY <1>1, <2>1, <2>2, EntryWritten
  <2>4. QED
    BY <2>1, <2>2, <2>3
<1>3. CASE channels[name[c]] = 0 /\ ~ChannelsFull /\ CreateChannel(c)
  <2>1. new \in RoomType
    BY <1>1 DEF RoomType
  <2>2. /\ new.name = name[c] /\ new.open /\ new.log = << >>
        /\ \A k \in Nicks : new.members[k] = IF k = Nick[c] THEN c ELSE NoConn
    OBVIOUS
  <2>3. /\ rooms' = Append(rooms, new) /\ channels' = [channels EXCEPT ![name[c]] = Len(rooms) + 1]
        /\ room' = [room EXCEPT ![c] = Len(rooms) + 1] /\ pc' = [pc EXCEPT ![c] = "subscribe"]
    BY <1>3 DEF Enters, ChannelFor, CreateChannel, EnterChannel, Goto
  <2> HIDE DEF new
  <2>4. QED
    BY <1>1, <1>3, <2>1, <2>2, <2>3 DEF Rooms
<1>4. CASE channels[name[c]] = 0 /\ (ChannelFor(c) \/ ChannelsFull)
  BY <1>4 DEF Enters, ChannelFor, CreateChannel, EnterChannel, Goto
<1>5. QED
  BY <1>2, <1>3, <1>4 DEF Enters

\* A leaver's entry goes if it is the leaver's still.
LEMMA RemoveEffect ==
  ASSUME HandsInv, NEW p \in Procs, Remove(p)
  PROVE  LET m == cur[p]
             o == mems[m].owner
         IN /\ m \in Mems /\ o \in Conns /\ mems[m].room \in Rooms /\ Nick[o] \in Nicks
            /\ \/ UNCHANGED rooms /\ rooms[mems[m].room].members[Nick[o]] # o
               \/ EntrySet(mems[m].room, Nick[o], NoConn) /\ rooms[mems[m].room].members[Nick[o]] = o
<1> DEFINE m == cur[p]
           o == mems[m].owner
<1>1. m \in Mems
  BY DEF Remove, HandsInv, LocalsInv, ConnLocals, ModLocals, HandLocals, PcInv, Procs, ModLabels, Leaving,
        Making, Joining
<1>2. m \in Mems /\ o \in Conns /\ mems[m].room \in Rooms /\ Nick[o] \in Nicks /\ rooms \in Seq(RoomType)
  BY <1>1, MemFacts DEF HandsInv, TypeInv, RoomTypes, NickOf
<1>3. CASE rooms[mems[m].room].members[Nick[o]] = o
  BY <1>2, <1>3, EntryWritten DEF Remove, DropEntry
<1>4. CASE rooms[mems[m].room].members[Nick[o]] # o
  BY <1>2, <1>4 DEF Remove, DropEntry
<1>5. QED
  BY <1>2, <1>3, <1>4

\* The three announcements.
LEMMA AnnounceEffect ==
  ASSUME HandsInv
  PROVE  /\ \A c \in Conns : AnnounceJoin(c) => room[c] \in Rooms /\ LogWritten(room[c], "JOIN", Nick[c], {c})
         /\ \A p \in Procs : AnnouncePart(p) =>
              /\ cur[p] \in Mems /\ mems[cur[p]].room \in Rooms
              /\ LogWritten(mems[cur[p]].room, "PART", NickOf(cur[p]), {})
         /\ \A d \in Mods : Announce(d) =>
              \E r \in todo[d] \cap Rooms : /\ LogWritten(r, order[d].verb, order[d].nick, {d})
                                            /\ order[d].verb \in {"ban", "unban"}
                                            /\ todo' = [todo EXCEPT ![d] = @ \ {r}]
<1>1. rooms \in Seq(RoomType) /\ mems \in Seq(MemType)
  BY DEF HandsInv, TypeInv, RoomTypes, MemTypes
<1>2. ASSUME NEW c \in Conns, AnnounceJoin(c)
      PROVE  room[c] \in Rooms /\ LogWritten(room[c], "JOIN", Nick[c], {c})
  <2>1. room[c] \in Rooms /\ Nick[c] \in Nicks /\ Broadcast(room[c], "JOIN", Nick[c], {c})
    BY <1>2, NickType DEF HandsInv, TypeInv, LocalsInv, ConnLocals, ModLocals, HandLocals, AnnounceJoin,
          Making, Joining
  <2>2. QED
    BY <1>1, <2>1, BroadcastLogs
<1>3. ASSUME NEW p \in Procs, AnnouncePart(p)
      PROVE  /\ cur[p] \in Mems /\ mems[cur[p]].room \in Rooms
             /\ LogWritten(mems[cur[p]].room, "PART", NickOf(cur[p]), {})
  <2>1. cur[p] \in Mems
    BY <1>3 DEF HandsInv, LocalsInv, ConnLocals, ModLocals, HandLocals, AnnouncePart, Leaving
  <2>2. mems[cur[p]].room \in Rooms /\ NickOf(cur[p]) \in Nicks
    BY <2>1, MemFacts
  <2>4. Broadcast(mems[cur[p]].room, "PART", NickOf(cur[p]), {})
    BY <1>3 DEF AnnouncePart
  <2>5. QED
    BY <1>1, <2>1, <2>2, <2>4, BroadcastLogs
<1>4. ASSUME NEW d \in Mods, Announce(d)
      PROVE  \E r \in todo[d] \cap Rooms : /\ LogWritten(r, order[d].verb, order[d].nick, {d})
                                           /\ order[d].verb \in {"ban", "unban"}
                                           /\ todo' = [todo EXCEPT ![d] = @ \ {r}]
  <2>1. PICK r \in todo[d] : Broadcast(r, order[d].verb, order[d].nick, {d}) /\ todo' = [todo EXCEPT ![d] = @ \ {r}]
    BY <1>4 DEF Announce
  <2>2. r \in Rooms /\ order[d].verb \in {"ban", "unban"} /\ order[d].nick \in Nicks
    BY <1>4, <2>1 DEF Announce, HandsInv, TypeInv, HandTypes, LocalsInv, ConnLocals, ModLocals, HandLocals,
          OrderType
  <2>3. LogWritten(r, order[d].verb, order[d].nick, {d})
    BY <1>1, <2>1, <2>2, BroadcastLogs
  <2>4. QED
    BY <2>1, <2>2, <2>3
<1>5. QED
  BY <1>2, <1>3, <1>4

\* A channel swept has no entry; it is closed and forgotten.
LEMMA SweptEffect ==
  ASSUME HandsInv, NEW n \in Channels, Sweep(n)
  PROVE  /\ channels[n] \in Rooms /\ RoomsWritten /\ ~rooms'[channels[n]].open
         /\ channels' = [channels EXCEPT ![n] = 0]
         /\ \A k \in Nicks : rooms[channels[n]].members[k] = NoConn
         /\ \A s \in Rooms : /\ rooms'[s].members = rooms[s].members /\ rooms'[s].log = rooms[s].log
                             /\ s # channels[n] => rooms'[s].open = rooms[s].open
<1>1. rooms \in Seq(RoomType) /\ channels[n] \in Rooms
  BY DEF HandsInv, TypeInv, RoomTypes, Sweep, Rooms
<1>2. rooms' = [rooms EXCEPT ![channels[n]].open = FALSE]
  BY DEF Sweep
<1>3. QED
  BY <1>1, <1>2, SweepEffect DEF Sweep, RoomsWritten

\* No channel object is renamed, and at most one is made.
LEMMA RoomsLast ==
  ASSUME HandsInv, [Next]_vars
  PROVE  /\ rooms' \in Seq(RoomType) /\ Len(rooms') >= Len(rooms)
         /\ \A r \in Rooms : rooms'[r].name = rooms[r].name
         /\ Len(rooms') # Len(rooms) => \E c \in Conns : Enters(c)
<1>1. rooms \in Seq(RoomType) /\ Len(rooms) \in Nat
  BY DEF HandsInv, TypeInv, RoomTypes
<1>2. CASE UNCHANGED rooms
  BY <1>1, <1>2
<1>3. CASE RoomsWritten
  BY <1>1, <1>3 DEF RoomsWritten
<1>4. ASSUME NEW c \in Conns, Enters(c)
      PROVE  UNCHANGED rooms \/ RoomsWritten
             \/ (rooms' \in Seq(RoomType) /\ Len(rooms') = Len(rooms) + 1 /\ \A r \in Rooms : rooms'[r] = rooms[r])
  BY <1>4, ChannelForEffect DEF EntrySet
<1>5. ASSUME NEW c \in Conns, AnnounceJoin(c) PROVE RoomsWritten
  BY <1>5, AnnounceEffect DEF LogWritten
<1>6. ASSUME NEW p \in Procs, Remove(p) \/ AnnouncePart(p) PROVE UNCHANGED rooms \/ RoomsWritten
  BY <1>6, AnnounceEffect, RemoveEffect DEF LogWritten, EntrySet
<1>7. ASSUME NEW d \in Mods, Announce(d) PROVE RoomsWritten
  BY <1>7, AnnounceEffect DEF LogWritten
<1>8. ASSUME NEW n \in Channels, Sweep(n) PROVE RoomsWritten
  BY <1>8, SweptEffect
<1>9. UNCHANGED rooms \/ RoomsWritten \/ \E c \in Conns : Enters(c)
  BY <1>5, <1>6, <1>7, <1>8, RoomSteps
<1>10. QED
  BY <1>1, <1>2, <1>3, <1>4, <1>9

\* The sockets, the connection table and the bans keep their types.
LEMMA OutsideNext == HandsInv /\ [Next]_vars => OutsideTypes'
<1> SUFFICES ASSUME HandsInv, [Next]_vars PROVE OutsideTypes'
  OBVIOUS
<1>0. OutsideTypes /\ given' = given /\ given \in Setting
  BY GivenSame DEF HandsInv, TypeInv
<1> USE DEF OutsideTypes, connVars
<1>1. ASSUME NEW c \in Conns, ClientStep(c) PROVE OutsideTypes'
  BY <1>0, <1>1 DEF ClientStep, Connect, SocketDies, StartJoin, StartPart
<1>2. ASSUME NEW c \in Conns, ConnStep(c) PROVE OutsideTypes'
  <2>1. CASE Register(c) \/ WriteReady(c) \/ Autojoin(c) \/ StartReading(c) \/ StopReading(c) \/ Unregister(c)
    BY <1>0, <2>1, NickType DEF Register, WriteReady, Autojoin, StartReading, StopReading, Unregister
  <2>2. CASE LeaveAll(c) \/ LeaveNext(c) \/ CheckBan(c) \/ Enters(c) \/ Subscribe(c) \/ Insert(c)
    BY <1>0, <2>2 DEF LeaveAll, LeaveNext, CheckBan, Enters, ChannelFor, CreateChannel, EnterChannel,
          Subscribe, Insert
  <2>3. CASE RecheckBan(c) \/ Undo(c) \/ Undone(c) \/ AnnounceJoin(c) \/ StartPump(c)
    BY <1>0, <2>3 DEF RecheckBan, Undo, Undone, AnnounceJoin, StartPump
  <2>4. QED
    BY <1>2, <2>1, <2>2, <2>3 DEF ConnStep, Enters
<1>3. ASSUME NEW p \in Procs, LeaveStep(p) PROVE OutsideTypes'
  BY <1>0, <1>3 DEF LeaveStep, Remove, CloseSub, Await, AnnouncePart
<1>4. ASSUME NEW d \in Mods, NEW v \in given.verbs, NEW s \in given.scopes, NEW k \in Nicks, Resolve(d, v, s, k)
      PROVE  OutsideTypes'
  BY <1>0, <1>4 DEF Resolve
<1>5. ASSUME NEW d \in Mods, ModStep(d) PROVE OutsideTypes'
  <2>1. CASE Store(d)
    <3>1. order[d] \in OrderType /\ order[d].nick \in Nicks
      BY <2>1 DEF Store, HandsInv, TypeInv, HandTypes, LocalsInv, ConnLocals, ModLocals, HandLocals
    <3>2. order[d].scope \in Channels \cup {Global}
      BY <3>1 DEF OrderType
    <3>3. QED
      BY <1>0, <2>1, <3>1, <3>2 DEF Store
  <2>2. CASE PartTarget(d) \/ Lookup(d) \/ Announce(d) \/ AnnounceFails(d) \/ EnforceBan(d)
    BY <1>0, <2>2 DEF PartTarget, Lookup, Announce, EnforceBan, AnnounceFails
  <2>3. QED
    BY <1>5, <2>1, <2>2 DEF ModStep
<1>6. ASSUME NEW m \in Mems, PumpStep(m) PROVE OutsideTypes'
  BY <1>0, <1>6 DEF PumpStep, PumpEnds, PumpFails, PumpLags, PumpDrops
<1>7. ASSUME NEW n \in Channels, Sweep(n) PROVE OutsideTypes'
  BY <1>0, <1>7 DEF Sweep
<1>8. ASSUME NEW b \in bans, Expire(b) PROVE OutsideTypes'
  BY <1>0, <1>8 DEF Expire
<1>9. CASE UNCHANGED vars
  BY <1>0, <1>9 DEF vars
<1>10. QED
  BY <1>1, <1>2, <1>3, <1>4, <1>5, <1>6, <1>7, <1>8, <1>9 DEF Next, Step

\* So do the channels.
LEMMA RoomTypesNext == HandsInv /\ [Next]_vars => RoomTypes'
<1> SUFFICES ASSUME HandsInv, [Next]_vars PROVE RoomTypes'
  OBVIOUS
<1>0. RoomTypes /\ rooms' \in Seq(RoomType) /\ Len(rooms) \in Nat /\ Len(rooms') \in Nat /\ Len(rooms') >= Len(rooms)
  BY RoomsLast DEF HandsInv, TypeInv, RoomTypes
<1>1. CASE UNCHANGED <<rooms, channels, room>>
  BY <1>0, <1>1 DEF RoomTypes
<1>2. ASSUME NEW c \in Conns, Undone(c) \/ StartPump(c), UNCHANGED <<rooms, channels>> PROVE RoomTypes'
  BY <1>0, <1>2 DEF RoomTypes, Undone, StartPump, JoinReturns
<1>3. ASSUME NEW c \in Conns, Enters(c) PROVE RoomTypes'
  <2>1. name[c] \in Channels
    BY DEF HandsInv, TypeInv, HandTypes
  <2>2. \A i \in 0 .. Len(rooms) : i \in 0 .. Len(rooms')
    BY <1>0
  <2>3. channels \in [Channels -> 0 .. Len(rooms')] /\ room \in [Conns -> 0 .. Len(rooms')]
    BY <1>0, <2>2 DEF RoomTypes
  <2>4. CASE UNCHANGED channels \/ channels' = [channels EXCEPT ![name[c]] = Len(rooms')]
    <3>1. channels' \in [Channels -> 0 .. Len(rooms')]
      BY <1>0, <2>1, <2>3, <2>4
    <3>2. \E r \in 0 .. Len(rooms') : UNCHANGED room \/ room' = [room EXCEPT ![c] = r]
      BY <1>0, <1>3, <2>2, ChannelForEffect DEF Rooms
    <3>3. room' \in [Conns -> 0 .. Len(rooms')]
      BY <2>3, <3>2
    <3>4. QED
      BY <1>0, <3>1, <3>3 DEF RoomTypes
  <2>5. QED
    BY <1>3, <2>4, ChannelForEffect
<1>4. ASSUME NEW c \in Conns, AnnounceJoin(c) PROVE RoomTypes'
  BY <1>0, <1>4 DEF RoomTypes, AnnounceJoin, handVars
<1>5. ASSUME NEW p \in Procs, Remove(p) \/ AnnouncePart(p) PROVE RoomTypes'
  BY <1>0, <1>5 DEF RoomTypes, Remove, AnnouncePart, handVars
<1>6. ASSUME NEW d \in Mods, Announce(d) PROVE RoomTypes'
  BY <1>0, <1>6 DEF RoomTypes, Announce
<1>7. ASSUME NEW n \in Channels, Sweep(n) PROVE RoomTypes'
  BY <1>0, <1>7 DEF RoomTypes, Sweep, handVars
<1>8. QED
  BY <1>1, <1>2, <1>3, <1>4, <1>5, <1>6, <1>7, RoomSteps

\* One place of one table changes.
TableWritten(c, n, m) ==
  \A d \in Conns, k \in Channels : table'[d][k] = IF d = c /\ k = n THEN m ELSE table[d][k]

\* What writing one place of a table does to every place.
LEMMA TableEffect ==
  ASSUME NEW N \in Nat, table \in [Conns -> [Channels -> 0 .. N]],
         NEW c \in Conns, NEW n \in Channels, NEW m \in 0 .. N,
         table' = [table EXCEPT ![c][n] = m]
  PROVE  table' \in [Conns -> [Channels -> 0 .. N]] /\ TableWritten(c, n, m)
<1> DEFINE row == [table[c] EXCEPT ![n] = m]
<1>1. row \in [Channels -> 0 .. N]
  OBVIOUS
<1>2. table' = [table EXCEPT ![c] = row]
  OBVIOUS
<1>3. \A k \in Channels : row[k] = IF k = n THEN m ELSE table[c][k]
  OBVIOUS
<1> HIDE DEF row
<1>4. table' \in [Conns -> [Channels -> 0 .. N]]
  BY <1>1, <1>2
<1>5. QED
  BY <1>2, <1>3, <1>4 DEF TableWritten

\* So do the memberships and the tables.
LEMMA MemTypesNext == HandsInv /\ [Next]_vars => MemTypes'
<1> SUFFICES ASSUME HandsInv, [Next]_vars PROVE MemTypes'
  OBVIOUS
<1>0. MemTypes /\ mems' \in Seq(MemType) /\ Len(mems) \in Nat /\ Len(mems') \in Nat /\ Len(mems') >= Len(mems)
  BY MemsLast DEF HandsInv, TypeInv, MemTypes
<1>1. \A m \in Mems' : mems'[m].room \in Rooms'
  <2>1. Rooms \subseteq Rooms'
    BY RoomsLast DEF Rooms, HandsInv, TypeInv, RoomTypes
  <2>2. CASE Len(mems') = Len(mems)
    BY <1>0, <2>1, <2>2, MemsLast DEF MemTypes, Mems
  <2>3. ASSUME NEW c \in Conns, Subscribe(c) PROVE \A m \in Mems' : mems'[m].room \in Rooms'
    BY <1>0, <2>1, <2>3, SubscribeEffect DEF MemTypes, Mems
  <2>4. QED
    BY <2>2, <2>3, MemsLast
<1>2. /\ table \in [Conns -> [Channels -> 0 .. Len(mems')]] /\ cur \in [Procs -> 0 .. Len(mems')]
      /\ name \in [Conns -> Channels]
  <2>1. \A i \in 0 .. Len(mems) : i \in 0 .. Len(mems')
    BY <1>0
  <2>2. QED
    BY <1>0, <2>1 DEF MemTypes, HandsInv, TypeInv, HandTypes
<1> SUFFICES /\ table' \in [Conns -> [Channels -> 0 .. Len(mems')]]
             /\ cur' \in [Procs -> 0 .. Len(mems')]
  BY <1>0, <1>1 DEF MemTypes
<1> DEFINE OK == /\ table' \in [Conns -> [Channels -> 0 .. Len(mems')]]
                 /\ cur' \in [Procs -> 0 .. Len(mems')]
<1>3. CASE UNCHANGED <<table, cur>>
  BY <1>2, <1>3
<1>4. ASSUME NEW c \in Conns, LeaveNext(c), UNCHANGED <<mems, table>> PROVE OK
  BY <1>2, <1>4 DEF LeaveNext, HandsInv, TypeInv, HandTypes, Mems
<1>5. ASSUME NEW p \in Procs, AnnouncePart(p) PROVE OK
  BY <1>0, <1>2, <1>5 DEF AnnouncePart, memVars
<1>6. ASSUME NEW c \in Conns, LeaveAll(c) PROVE OK
  BY <1>0, <1>2, <1>6 DEF LeaveAll
<1>7. ASSUME NEW c \in Conns, Subscribe(c) PROVE OK
  BY <1>0, <1>2, <1>7, SubscribeEffect DEF Subscribe, Procs
<1> DEFINE Table == table' \in [Conns -> [Channels -> 0 .. Len(mems')]]
<1>t. ASSUME NEW c \in Conns, NEW n \in Channels, NEW m \in 0 .. Len(mems'), table' = [table EXCEPT ![c][n] = m]
      PROVE  Table
  BY <1>0, <1>2, <1>t, TableEffect
<1> HIDE DEF Table
<1>8. ASSUME NEW c \in Conns, Insert(c) \/ Undo(c) PROVE Table /\ UNCHANGED cur
  <2>1. cur[c] \in 0 .. Len(mems') /\ 0 \in 0 .. Len(mems') /\ name[c] \in Channels /\ UNCHANGED cur
    BY <1>0, <1>2, <1>8 DEF Procs, Insert, Undo, handVars
  <2>2. CASE UNCHANGED table
    BY <1>2, <2>1, <2>2 DEF Table
  <2>3. CASE \E m \in 0 .. Len(mems') : table' = [table EXCEPT ![c][name[c]] = m]
    BY <1>t, <2>1, <2>3
  <2>4. QED
    BY <1>8, <2>1, <2>2, <2>3 DEF Insert, Undo
<1>9. ASSUME NEW c \in Conns, Undone(c) \/ StartPump(c) PROVE OK
  <2>1. cur' = [cur EXCEPT ![c] = 0] /\ UNCHANGED table
    BY <1>9 DEF Undone, StartPump, JoinReturns
  <2>2. 0 \in 0 .. Len(mems')
    BY <1>0
  <2>3. QED
    BY <1>2, <2>1, <2>2 DEF Table
<1>10. ASSUME NEW c \in Conns, NEW n \in given.channels, StartPart(c, n) PROVE OK
  <2>1. n \in Channels
    BY GivenSame DEF HandsInv, TypeInv, Setting
  <2>2. table[c][n] \in 0 .. Len(mems') /\ 0 \in 0 .. Len(mems')
    BY <1>0, <1>2, <2>1
  <2>3. Table
    BY <1>t, <1>10, <2>1, <2>2 DEF StartPart
  <2>4. QED
    BY <1>2, <1>10, <2>2, <2>3 DEF StartPart, Table
<1>11. ASSUME NEW p \in Procs, CloseSub(p) PROVE OK
  BY <1>2, <1>11 DEF CloseSub, handVars
<1>12. ASSUME NEW d \in Mods, PartTarget(d) PROVE OK
  <2>1. order[d].target \in Conns /\ order[d].scope \in Channels
    BY <1>12 DEF PartTarget, HandsInv, LocalsInv, ConnLocals, ModLocals, HandLocals
  <2>2. table[order[d].target][order[d].scope] \in 0 .. Len(mems')
    BY <1>2, <2>1
  <2>3. UNCHANGED <<table, cur>> \/ (Table /\ cur' = [cur EXCEPT ![d] = table[order[d].target][order[d].scope]])
    <3>1. 0 \in 0 .. Len(mems')
      BY <1>0
    <3>2. QED
      BY <1>12, <1>t, <2>1, <3>1 DEF PartTarget
  <2>4. QED
    BY <1>2, <2>2, <2>3 DEF Table
<1>13. ASSUME NEW m \in Mems, PumpStep(m) PROVE OK
  BY <1>2, <1>13 DEF PumpStep, PumpEnds, PumpFails, PumpLags, PumpDrops, handVars
<1>14. QED
  BY <1>2, <1>3, <1>4, <1>5, <1>6, <1>7, <1>8, <1>9, <1>10, <1>11, <1>12, <1>13, MemSteps DEF Table

\* Which steps touch what a goroutine has still to do.
LEMMA TodoSteps ==
  ASSUME [Next]_vars
  PROVE  \/ UNCHANGED todo
         \/ \E c \in Conns : LeaveAll(c) \/ LeaveNext(c)
         \/ \E d \in Mods : Lookup(d) \/ Announce(d) \/ AnnounceFails(d)
<1> USE DEF handVars
<1>1. ASSUME NEW c \in Conns, ClientStep(c) PROVE UNCHANGED todo
  BY <1>1 DEF ClientStep, Connect, SocketDies, StartJoin, StartPart
<1>2. ASSUME NEW c \in Conns, ConnStep(c), ~LeaveAll(c), ~LeaveNext(c) PROVE UNCHANGED todo
  BY <1>2 DEF ConnStep, Register, WriteReady, Autojoin, StartReading, StopReading, Unregister,
              CheckBan, Enters, ChannelFor, CreateChannel, EnterChannel, Subscribe, Insert, RecheckBan,
                    Undo, Undone, AnnounceJoin, StartPump
<1>3. ASSUME NEW p \in Procs, LeaveStep(p) PROVE UNCHANGED todo
  BY <1>3 DEF LeaveStep, Remove, CloseSub, Await, AnnouncePart
<1>4. ASSUME NEW d \in Mods, NEW v \in given.verbs, NEW s \in given.scopes, NEW k \in Nicks, Resolve(d, v, s, k)
      PROVE  UNCHANGED todo
  BY <1>4 DEF Resolve
<1>5. ASSUME NEW d \in Mods, ModStep(d), ~Lookup(d), ~Announce(d), ~AnnounceFails(d) PROVE UNCHANGED todo
  BY <1>5 DEF ModStep, Store, PartTarget, EnforceBan
<1>6. ASSUME NEW m \in Mems, PumpStep(m) PROVE UNCHANGED todo
  BY <1>6 DEF PumpStep, PumpEnds, PumpFails, PumpLags, PumpDrops
<1>7. ASSUME NEW n \in Channels, Sweep(n) PROVE UNCHANGED todo
  BY <1>7 DEF Sweep
<1>8. ASSUME NEW b \in bans, Expire(b) PROVE UNCHANGED todo
  BY <1>8 DEF Expire
<1>9. CASE UNCHANGED vars
  BY <1>9 DEF vars
<1>10. QED
  BY <1>1, <1>2, <1>3, <1>4, <1>5, <1>6, <1>7, <1>8, <1>9 DEF Next, Step

\* Which steps touch what a join or a moderator is about.
LEMMA OrderSteps ==
  ASSUME [Next]_vars
  PROVE  \/ UNCHANGED <<name, order>>
         \/ \E c \in Conns : Autojoin(c) \/ (\E n \in given.channels : StartJoin(c, n)) \/ Undone(c) \/ StartPump(c)
         \/ \E d \in Mods, v \in given.verbs, s \in given.scopes, k \in Nicks : Resolve(d, v, s, k)
         \/ \E d \in Mods : EnforceBan(d) \/ AnnounceFails(d)
<1> USE DEF handVars
<1>1. ASSUME NEW c \in Conns, ClientStep(c), ~\E n \in given.channels : StartJoin(c, n)
      PROVE  UNCHANGED <<name, order>>
  BY <1>1 DEF ClientStep, Connect, SocketDies, StartPart
<1>2. ASSUME NEW c \in Conns, ConnStep(c), ~Autojoin(c), ~Undone(c), ~StartPump(c)
      PROVE  UNCHANGED <<name, order>>
  BY <1>2 DEF ConnStep, Register, WriteReady, StartReading, StopReading, Unregister, LeaveAll, LeaveNext,
              CheckBan, Enters, ChannelFor, CreateChannel, EnterChannel, Subscribe, Insert, RecheckBan,
                    Undo, AnnounceJoin
<1>3. ASSUME NEW p \in Procs, LeaveStep(p) PROVE UNCHANGED <<name, order>>
  BY <1>3 DEF LeaveStep, Remove, CloseSub, Await, AnnouncePart
<1>5. ASSUME NEW d \in Mods, ModStep(d), ~EnforceBan(d), ~AnnounceFails(d) PROVE UNCHANGED <<name, order>>
  BY <1>5 DEF ModStep, Store, PartTarget, Lookup, Announce
<1>6. ASSUME NEW m \in Mems, PumpStep(m) PROVE UNCHANGED <<name, order>>
  BY <1>6 DEF PumpStep, PumpEnds, PumpFails, PumpLags, PumpDrops
<1>7. ASSUME NEW n \in Channels, Sweep(n) PROVE UNCHANGED <<name, order>>
  BY <1>7 DEF Sweep
<1>8. ASSUME NEW b \in bans, Expire(b) PROVE UNCHANGED <<name, order>>
  BY <1>8 DEF Expire
<1>9. CASE UNCHANGED vars
  BY <1>9 DEF vars
<1>10. QED
  BY <1>1, <1>2, <1>3, <1>5, <1>6, <1>7, <1>8, <1>9 DEF Next, Step

\* So do the locals.
LEMMA HandTypesNext == HandsInv /\ [Next]_vars => HandTypes'
<1> SUFFICES ASSUME HandsInv, [Next]_vars PROVE HandTypes'
  OBVIOUS
<1>0. /\ HandTypes /\ given \in Setting
      /\ \A c \in Conns : todo[c] \subseteq Mems'
      /\ \A d \in Mods : todo[d] \subseteq Rooms'
  <2>1. Mems \subseteq Mems' /\ Rooms \subseteq Rooms'
    BY RoomsLast, MemsLast DEF Mems, Rooms, HandsInv, TypeInv, RoomTypes, MemTypes
  <2>2. QED
    BY <2>1, GivenSame DEF HandsInv, TypeInv, HandTypes
<1>n. /\ todo' \in [Procs -> SUBSET Nat] /\ (\A c \in Conns : todo'[c] \subseteq Mems')
      /\ \A d \in Mods : todo'[d] \subseteq Rooms'
  <2> DEFINE Todo == /\ todo' \in [Procs -> SUBSET Nat] /\ (\A c \in Conns : todo'[c] \subseteq Mems')
                     /\ \A d \in Mods : todo'[d] \subseteq Rooms'
  <2>1. ASSUME NEW c \in Conns, LeaveAll(c) PROVE Todo
    <3>1. {table[c][n] : n \in Joined(c)} \subseteq Mems
      BY DEF Joined, HandsInv, TypeInv, MemTypes, Mems
    <3>2. Mems' = Mems /\ Mems \subseteq Nat
      BY <2>1 DEF LeaveAll, Mems, HandsInv, TypeInv, MemTypes
    <3>3. QED
      BY <1>0, <2>1, <3>1, <3>2, MembershipAssumption DEF LeaveAll, HandTypes, Procs
  <2>2. ASSUME NEW c \in Conns, LeaveNext(c) PROVE Todo
    <3>1. UNCHANGED todo \/ \E m : todo' = [todo EXCEPT ![c] = @ \ {m}]
      BY <2>2 DEF LeaveNext
    <3>2. QED
      BY <1>0, <3>1 DEF HandTypes, Procs
  <2>3. ASSUME NEW d \in Mods, Lookup(d) PROVE Todo
    <3> DEFINE o == order[d]
               here == {channels[o.scope]} \ {0}
               all == {mems[table[o.target][n]].room : n \in Joined(o.target)}
               new == IF o.scope # Global THEN here ELSE IF o.target # NoConn THEN all ELSE {}
    <3>1. o \in OrderType
      BY DEF HandsInv, TypeInv, HandTypes
    <3>2. o.scope # Global => here \subseteq Rooms
      BY <3>1 DEF OrderType, HandsInv, TypeInv, RoomTypes, Rooms
    <3>3. o.target # NoConn => all \subseteq Rooms
      BY <3>1 DEF OrderType, HandsInv, TypeInv, MemTypes, Joined, Mems
    <3>4. new \subseteq Rooms /\ todo' = [todo EXCEPT ![d] = new]
      BY <2>3, <3>2, <3>3 DEF Lookup
    <3>5. Rooms' = Rooms /\ Rooms \subseteq Nat
      BY <2>3 DEF Lookup, roomVars, Rooms, HandsInv, TypeInv, RoomTypes
    <3> HIDE DEF new
    <3>6. QED
      BY <1>0, <3>4, <3>5, MembershipAssumption DEF HandTypes, Procs
  <2>4. ASSUME NEW d \in Mods, Announce(d) \/ AnnounceFails(d) PROVE Todo
    <3>1. \E S : todo' = [todo EXCEPT ![d] = @ \ S]
      <4>1. ASSUME NEW r, todo' = [todo EXCEPT ![d] = @ \ {r}] PROVE \E S : todo' = [todo EXCEPT ![d] = @ \ S]
        BY <4>1
      <4>2. todo[d] \ todo[d] = {}
        OBVIOUS
      <4>3. ASSUME todo' = [todo EXCEPT ![d] = {}] PROVE \E S : todo' = [todo EXCEPT ![d] = @ \ S]
        BY <4>2, <4>3
      <4>4. QED
        BY <2>4, <4>1, <4>3 DEF Announce, AnnounceFails
    <3>2. todo' \in [Procs -> SUBSET Nat] /\ \A p \in Procs : todo'[p] \subseteq todo[p]
      BY <1>0, <3>1 DEF HandTypes
    <3>3. Conns \subseteq Procs /\ Mods \subseteq Procs
      BY DEF Procs
    <3>4. QED
      BY <1>0, <3>2, <3>3
  <2>5. ASSUME UNCHANGED todo PROVE Todo
    <3>1. todo \in [Procs -> SUBSET Nat]
      BY <1>0 DEF HandTypes
    <3>2. QED
      BY <1>0, <2>5, <3>1
  <2>6. UNCHANGED todo \/ (\E c \in Conns : LeaveAll(c) \/ LeaveNext(c)) \/ (\E d \in Mods : Lookup(d) \/ Announce(d) \/ AnnounceFails(d))
    BY TodoSteps
  <2> HIDE DEF Todo
  <2>7. Todo
    BY <2>1, <2>2, <2>3, <2>4, <2>5, <2>6
  <2>8. QED
    BY <2>7 DEF Todo
<1>h. name' \in [Conns -> Channels] /\ order' \in [Mods -> OrderType]
  <2>1. AnyName \in Channels
    BY MembershipAssumption DEF AnyName
  <2>2. CASE UNCHANGED <<name, order>>
    BY <1>0, <2>2 DEF HandTypes
  <2>3. ASSUME NEW c \in Conns, Autojoin(c) \/ (\E n \in given.channels : StartJoin(c, n)) PROVE name' \in [Conns -> Channels] /\ UNCHANGED order
    BY <1>0, <2>3 DEF HandTypes, Autojoin, StartJoin, Setting, HandsInv, TypeInv, OutsideTypes
  <2>4. ASSUME NEW c \in Conns, Undone(c) \/ StartPump(c) PROVE name' \in [Conns -> Channels] /\ UNCHANGED order
    BY <1>0, <2>1, <2>4 DEF HandTypes, Undone, StartPump, JoinReturns
  <2>5. ASSUME NEW d \in Mods, NEW v \in given.verbs, NEW s \in given.scopes, NEW k \in Nicks, Resolve(d, v, s, k)
        PROVE  order' \in [Mods -> OrderType] /\ UNCHANGED name
    <3>1. [verb |-> v, scope |-> s, nick |-> k, target |-> conns[k]] \in OrderType
      BY <1>0 DEF Setting, OrderType, HandsInv, TypeInv, OutsideTypes
    <3>2. QED
      BY <1>0, <2>5, <3>1 DEF HandTypes, Resolve
  <2>6. ASSUME NEW d \in Mods, EnforceBan(d) \/ AnnounceFails(d) PROVE order' \in [Mods -> OrderType] /\ UNCHANGED name
    BY <1>0, <2>6 DEF HandTypes, EnforceBan, AnnounceFails, NoOrder, OrderType
  <2>7. QED
    BY <1>0, <2>2, <2>3, <2>4, <2>5, <2>6, OrderSteps DEF HandTypes
<1>q. QED
  BY <1>0, <1>n, <1>h DEF HandTypes

\* Every variable keeps its type.
LEMMA TypeNext == HandsInv /\ [Next]_vars => TypeInv'
BY OutsideNext, RoomTypesNext, MemTypesNext, HandTypesNext DEF TypeInv

\* A goroutine's step leaves the others' places and locals alone.
Others(a) ==
  /\ \A p \in Procs \ {a} : pc'[p] = pc[p] /\ cur'[p] = cur[p] /\ todo'[p] = todo[p]
  /\ \A c \in Conns \ {a} : room'[c] = room[c] /\ name'[c] = name[c]
  /\ \A d \in Mods \ {a} : order'[d] = order[d]

\* Each step is of one goroutine, of a pump, of the janitor or of the clock.
LEMMA OthersLemma ==
  ASSUME HandsInv
  PROVE  /\ \A c \in Conns : ClientStep(c) \/ ConnStep(c) => Others(c)
         /\ \A p \in Procs : LeaveStep(p) => Others(p)
         /\ \A d \in Mods, v \in given.verbs, s \in given.scopes, k \in Nicks : Resolve(d, v, s, k) => Others(d)
         /\ \A d \in Mods : ModStep(d) => Others(d)
         /\ \A m \in Mems : PumpStep(m) => UNCHANGED <<pc, handVars>>
         /\ \A n \in Channels : Sweep(n) => UNCHANGED <<pc, handVars>>
         /\ \A b \in bans : Expire(b) => UNCHANGED <<pc, handVars>>
<1> USE DEF handVars, Goto
<1>0. /\ pc = [p \in Procs |-> pc[p]] /\ cur = [p \in Procs |-> cur[p]] /\ todo = [p \in Procs |-> todo[p]]
      /\ room = [c \in Conns |-> room[c]] /\ name = [c \in Conns |-> name[c]]
      /\ order = [d \in Mods |-> order[d]]
  BY DEF HandsInv, PcInv, TypeInv, RoomTypes, MemTypes, HandTypes
<1>1. ASSUME NEW c \in Conns, ClientStep(c) PROVE Others(c)
  BY <1>0, <1>1 DEF Others, ClientStep, Connect, SocketDies, StartJoin, StartPart
<1>2. ASSUME NEW c \in Conns, ConnStep(c) PROVE Others(c)
  <2>1. CASE Register(c) \/ WriteReady(c) \/ Autojoin(c) \/ StartReading(c) \/ StopReading(c) \/ Unregister(c)
    BY <1>0, <2>1 DEF Others, Register, WriteReady, Autojoin, StartReading, StopReading, Unregister
  <2>2. CASE LeaveAll(c) \/ LeaveNext(c) \/ CheckBan(c) \/ Subscribe(c) \/ Insert(c)
    BY <1>0, <2>2 DEF Others, LeaveAll, LeaveNext, CheckBan, Subscribe, Insert
  <2>3. CASE Enters(c)
    BY <1>0, <2>3 DEF Others, Enters, ChannelFor, CreateChannel, EnterChannel
  <2>4. CASE RecheckBan(c) \/ Undo(c) \/ Undone(c) \/ AnnounceJoin(c) \/ StartPump(c)
    BY <1>0, <2>4 DEF Others, RecheckBan, Undo, Undone, AnnounceJoin, StartPump, JoinReturns
  <2>5. QED
    BY <1>2, <2>1, <2>2, <2>3, <2>4 DEF ConnStep, Enters
<1>3. ASSUME NEW p \in Procs, LeaveStep(p) PROVE Others(p)
  BY <1>0, <1>3 DEF Others, LeaveStep, Remove, CloseSub, Await, AnnouncePart
<1>4. ASSUME NEW d \in Mods, NEW v \in given.verbs, NEW s \in given.scopes, NEW k \in Nicks, Resolve(d, v, s, k)
      PROVE  Others(d)
  BY <1>0, <1>4 DEF Others, Resolve
<1>5. ASSUME NEW d \in Mods, ModStep(d) PROVE Others(d)
  BY <1>0, <1>5 DEF Others, ModStep, Store, PartTarget, Lookup, Announce, EnforceBan, AnnounceFails
<1>6. ASSUME NEW m \in Mems, PumpStep(m) PROVE UNCHANGED <<pc, handVars>>
  BY <1>6 DEF PumpStep, PumpEnds, PumpFails, PumpLags, PumpDrops
<1>7. ASSUME NEW n \in Channels, Sweep(n) PROVE UNCHANGED <<pc, handVars>>
  BY <1>7 DEF Sweep
<1>8. ASSUME NEW b \in bans, Expire(b) PROVE UNCHANGED <<pc, handVars>>
  BY <1>8 DEF Expire
<1>9. QED
  BY <1>1, <1>2, <1>3, <1>4, <1>5, <1>6, <1>7, <1>8

\* A pump that has not started is started, or given up, by its own connection.
LEMMA PumpLast ==
  ASSUME HandsInv, [Next]_vars, NEW m \in Mems, mems[m].pump = "none"
  PROVE  mems'[m].pump = "none" \/ \E c \in Conns : (Undone(c) \/ StartPump(c)) /\ cur[c] = m /\ mems[m].owner = c
<1>0. mems \in Seq(MemType)
  BY DEF HandsInv, TypeInv, MemTypes
<1>1. CASE UNCHANGED mems
  BY <1>1
<1>2. ASSUME NEW c \in Conns, LeaveAll(c) \/ Insert(c) \/ Undo(c) \/ \E n \in given.channels : StartPart(c, n)
      PROVE  UNCHANGED mems
  BY <1>2 DEF LeaveAll, Insert, Undo, StartPart
<1>3. ASSUME NEW c \in Conns, Subscribe(c) PROVE mems'[m] = mems[m]
  BY <1>3, SubscribeEffect
<1>4. ASSUME NEW c \in Conns, Undone(c) \/ StartPump(c), cur[c] # m PROVE mems'[m] = mems[m]
  <2>1. cur[c] \in Mems
    BY <1>4 DEF Undone, StartPump, HandsInv, LocalsInv, ConnLocals, Making, Joining
  <2>2. mems' = [mems EXCEPT ![cur[c]].pump = "done"] \/ mems' = [mems EXCEPT ![cur[c]].pump = "running"]
    BY <1>4 DEF Undone, StartPump
  <2>3. MemKept(cur[c])
    BY <1>0, <2>1, <2>2, PumpEffect
  <2>4. QED
    BY <1>4, <2>3 DEF MemKept
<1>5. ASSUME NEW c \in Conns, Undone(c) \/ StartPump(c), cur[c] = m PROVE mems[m].owner = c
  BY <1>5 DEF Undone, StartPump, HandsInv, LocalsInv, ConnLocals, Making, Joining
<1>6. ASSUME NEW p \in Procs, CloseSub(p) PROVE mems'[m].pump = "none"
  <2>1. cur[p] \in Mems
    BY <1>6 DEF CloseSub, HandsInv, PcInv, LocalsInv, ConnLocals, HandLocals, Making, Joining, Leaving,
          Procs, ModLabels
  <2>2. MemKept(cur[p]) /\ mems'[cur[p]].pump = mems[cur[p]].pump
    BY <1>0, <1>6, <2>1, CloseEffect DEF CloseSub
  <2>3. QED
    BY <2>2 DEF MemKept
<1>7. ASSUME NEW d \in Mods, PartTarget(d) PROVE UNCHANGED mems
  BY <1>7 DEF PartTarget
<1>8. ASSUME NEW i \in Mems, PumpStep(i) PROVE mems'[m] = mems[m]
  BY <1>0, <1>8, PumpStepEffect DEF MemKept
<1>9. QED
  BY <1>1, <1>2, <1>3, <1>4, <1>5, <1>6, <1>7, <1>8, MemSteps

\* A goroutine moves by its own steps only.
LEMMA Movers ==
  ASSUME HandsInv, [Next]_vars
  PROVE  /\ \A c \in Conns : ClientStep(c) \/ ConnStep(c) \/ LeaveStep(c) \/ UNCHANGED <<pc, handVars>>
                             \/ \E a \in Procs \ {c} : Others(a)
         /\ \A d \in Mods : (\E v \in given.verbs, s \in given.scopes, k \in Nicks : Resolve(d, v, s, k))
                            \/ ModStep(d) \/ LeaveStep(d) \/ UNCHANGED <<pc, handVars>>
                            \/ \E a \in Procs \ {d} : Others(a)
<1>1. Conns \subseteq Procs /\ Mods \subseteq Procs /\ Conns \cap Mods = {}
  BY MembershipAssumption DEF Procs
<1>2. UNCHANGED vars => UNCHANGED <<pc, handVars>>
  BY DEF vars, handVars
<1>3. \/ \E c \in Conns : ClientStep(c) \/ ConnStep(c)
      \/ \E p \in Procs : LeaveStep(p)
      \/ \E d \in Mods : (\E v \in given.verbs, s \in given.scopes, k \in Nicks : Resolve(d, v, s, k)) \/ ModStep(d)
      \/ UNCHANGED <<pc, handVars>>
  BY <1>2, OthersLemma DEF Next, Step
<1>4. ASSUME NEW c \in Conns
      PROVE  ClientStep(c) \/ ConnStep(c) \/ LeaveStep(c) \/ UNCHANGED <<pc, handVars>>
             \/ \E a \in Procs \ {c} : Others(a)
  BY <1>1, <1>3, OthersLemma
<1>5. ASSUME NEW d \in Mods
      PROVE  (\E v \in given.verbs, s \in given.scopes, k \in Nicks : Resolve(d, v, s, k))
             \/ ModStep(d) \/ LeaveStep(d) \/ UNCHANGED <<pc, handVars>>
             \/ \E a \in Procs \ {d} : Others(a)
  BY <1>1, <1>3, OthersLemma
<1>6. QED
  BY <1>4, <1>5

\* What holds of the locals of a goroutine that does not move goes on holding.
LEMMA LocalsFrame ==
  ASSUME HandsInv, [Next]_vars
  PROVE  /\ \A c \in Conns : /\ pc'[c] = pc[c] /\ cur'[c] = cur[c] /\ room'[c] = room[c]
                             /\ ~Undone(c) /\ ~StartPump(c)
                             => ConnLocals(c)'
         /\ \A d \in Mods : pc'[d] = pc[d] /\ order'[d] = order[d] => ModLocals(d)'
         /\ \A p \in Procs : pc'[p] = pc[p] /\ cur'[p] = cur[p] => HandLocals(p)'
<1>0. /\ Mems \subseteq Mems' /\ Rooms \subseteq Rooms'
      /\ \A m \in Mems : mems'[m].owner = mems[m].owner /\ mems'[m].room = mems[m].room
  BY MemsLast, RoomsLast DEF Mems, Rooms, HandsInv, TypeInv, MemTypes, RoomTypes
<1>1. ASSUME NEW c \in Conns, pc'[c] = pc[c], cur'[c] = cur[c], room'[c] = room[c], ~Undone(c), ~StartPump(c)
      PROVE  ConnLocals(c)'
  <2>1. ConnLocals(c)
    BY DEF HandsInv, LocalsInv
  <2>2. pc[c] \in Making => mems'[cur[c]].pump = "none"
    BY <1>1, <2>1, PumpLast DEF ConnLocals
  <2>3. QED
    BY <1>0, <1>1, <2>1, <2>2 DEF ConnLocals
<1>2. ASSUME NEW d \in Mods, pc'[d] = pc[d], order'[d] = order[d] PROVE ModLocals(d)'
  BY <1>2 DEF HandsInv, LocalsInv, ModLocals
<1>3. ASSUME NEW p \in Procs, pc'[p] = pc[p], cur'[p] = cur[p] PROVE HandLocals(p)'
  BY <1>0, <1>3 DEF HandsInv, LocalsInv, HandLocals
<1>4. QED
  BY <1>1, <1>2, <1>3

\* One goroutine moves: its own locals are what is left to look at.
LEMMA LocalsOfMover ==
  ASSUME HandsInv, [Next]_vars, NEW a \in Procs, Others(a),
         \A c \in Conns : Undone(c) \/ StartPump(c) => c = a
  PROVE  /\ a \in Conns /\ ConnLocals(a)' /\ HandLocals(a)' => LocalsInv'
         /\ a \in Mods /\ ModLocals(a)' /\ HandLocals(a)' => LocalsInv'
<1>1. Conns \subseteq Procs /\ Mods \subseteq Procs /\ Conns \cap Mods = {}
  BY MembershipAssumption DEF Procs
<1>2. \A c \in Conns \ {a} : ConnLocals(c)'
  BY <1>1, LocalsFrame DEF Others
<1>3. \A d \in Mods \ {a} : ModLocals(d)'
  BY <1>1, LocalsFrame DEF Others
<1>4. \A p \in Procs \ {a} : HandLocals(p)'
  BY LocalsFrame DEF Others
<1>5. QED
  BY <1>1, <1>2, <1>3, <1>4 DEF LocalsInv

\* Each goroutine's locals hold what its place in the code says.
LEMMA LocalsNext == HandsInv /\ [Next]_vars => LocalsInv'
<1> SUFFICES ASSUME HandsInv, [Next]_vars PROVE LocalsInv'
  OBVIOUS
<1> USE DEF Goto, Leaving, Making, Joining
<1>0. TypeInv /\ TypeInv' /\ PcInv' /\ PcInv /\ given' = given /\ given \in Setting
  BY TypeNext, PcNext, GivenSame DEF HandsInv, TypeInv
<1>a. Conns \subseteq Procs /\ Mods \subseteq Procs /\ Conns \cap Mods = {}
  BY MembershipAssumption DEF Procs
<1>b. ASSUME NEW c \in Conns, Others(c), ConnLocals(c)', HandLocals(c)' PROVE LocalsInv'
  <2>1. \A d \in Conns : Undone(d) \/ StartPump(d) => d = c
    BY <1>0, <1>b DEF Others, Undone, StartPump, JoinReturns, PcInv, Procs
  <2>2. QED
    BY <1>a, <1>b, <2>1, LocalsOfMover
<1>c. ASSUME NEW d \in Mods, Others(d), ModLocals(d)', HandLocals(d)' PROVE LocalsInv'
  <2>1. \A c \in Conns : ~(Undone(c) \/ StartPump(c))
    BY <1>0, <1>a, <1>c DEF Others, Undone, StartPump, JoinReturns, PcInv, Procs
  <2>2. QED
    BY <1>a, <1>c, <2>1, LocalsOfMover
<1>l. /\ \A c \in Conns : ConnLocals(c) /\ HandLocals(c)
      /\ \A d \in Mods : ModLocals(d) /\ HandLocals(d)
  BY <1>a DEF HandsInv, LocalsInv
<1>m. /\ Mems \subseteq Mems' /\ Rooms \subseteq Rooms'
      /\ \A m \in Mems : mems'[m].owner = mems[m].owner /\ mems'[m].room = mems[m].room
  BY MemsLast, RoomsLast DEF Mems, Rooms, HandsInv, TypeInv, MemTypes, RoomTypes
<1>p. /\ pc \in [Procs -> ConnLabels \cup ModLabels] /\ cur \in [Procs -> Nat]
      /\ room \in [Conns -> Nat] /\ order \in [Mods -> OrderType]
  BY <1>0 DEF PcInv, TypeInv, MemTypes, RoomTypes, HandTypes
<1>1. ASSUME NEW c \in Conns, ClientStep(c) PROVE LocalsInv'
  <2>1. Others(c)
    BY <1>1, OthersLemma
  <2>2. CASE Connect(c) \/ SocketDies(c) \/ \E n \in given.channels : StartJoin(c, n)
    <3>1. HandLocals(c)' /\ ConnLocals(c)'
      <4>1. /\ pc'[c] = pc[c] \/ (pc'[c] \notin Making \cup Leaving \cup {"subscribe"}
                                 /\ pc[c] \notin Making \cup Leaving)
            /\ cur'[c] = cur[c] /\ room'[c] = room[c] /\ UNCHANGED <<mems, rooms>>
        BY <1>a, <1>p, <2>2 DEF Connect, SocketDies, StartJoin, handVars, memVars, roomVars
      <4>2. QED
        BY <1>l, <4>1 DEF HandLocals, ConnLocals, Mems, Rooms
    <3>2. QED
      BY <1>b, <2>1, <3>1
  <2>3. CASE \E n \in given.channels : StartPart(c, n)
    <3>1. PICK n \in given.channels : StartPart(c, n)
      BY <2>3
    <3>2. n \in Channels
      BY <1>0 DEF Setting
    <3>3. table[c][n] \in Mems
      BY <1>0, <3>1, <3>2 DEF StartPart, TypeInv, MemTypes, Mems
    <3>4. HandLocals(c)' /\ ConnLocals(c)'
      BY <1>a, <1>m, <1>p, <3>1, <3>3 DEF StartPart, HandLocals, ConnLocals
    <3>5. QED
      BY <1>b, <2>1, <3>4
  <2>4. QED
    BY <1>1, <2>2, <2>3 DEF ClientStep
<1>2. ASSUME NEW c \in Conns, ConnStep(c) PROVE LocalsInv'
  <2>0. Others(c)
    BY <1>2, OthersLemma
  <2> SUFFICES HandLocals(c)' /\ ConnLocals(c)'
    BY <1>b, <2>0
  <2>1. CASE Register(c) \/ WriteReady(c) \/ Autojoin(c) \/ StartReading(c) \/ StopReading(c) \/ Unregister(c)
             \/ LeaveAll(c) \/ CheckBan(c)
    <3>1. /\ pc'[c] = pc[c] \/ (pc'[c] \notin Making \cup Leaving \cup {"subscribe"}
                               /\ pc[c] \notin Making \cup Leaving)
          /\ cur'[c] = cur[c] /\ room'[c] = room[c] /\ UNCHANGED <<mems, rooms>>
      BY <1>a, <1>p, <2>1 DEF Register, WriteReady, Autojoin, StartReading, StopReading, Unregister, LeaveAll,
                              CheckBan, handVars, memVars, roomVars
    <3>2. QED
      BY <1>l, <3>1 DEF HandLocals, ConnLocals, Mems, Rooms
  <2>2. CASE LeaveNext(c)
    <3>1. todo[c] \subseteq Mems
      BY <1>0 DEF TypeInv, HandTypes
    <3>2. QED
      BY <1>a, <1>l, <1>m, <1>p, <2>2, <3>1 DEF LeaveNext, HandLocals, ConnLocals
  <2>3. CASE Enters(c)
    <3>1. UNCHANGED <<mems, cur>> /\ pc[c] \in {"channelFor", "create"} /\ rooms \in Seq(RoomType)
      BY <1>0, <2>3 DEF Enters, ChannelFor, CreateChannel, EnterChannel, memVars, TypeInv, RoomTypes
    <3>r. room \in [Conns -> 0 .. Len(rooms)]
      BY <1>0 DEF TypeInv, RoomTypes
    <3>2. pc'[c] = "subscribe" => room'[c] \in Rooms'
      <4>1. CASE channels[name[c]] \in Rooms /\ EntrySet(channels[name[c]], Nick[c], c)
                 /\ room' = [room EXCEPT ![c] = channels[name[c]]]
        BY <3>r, <4>1 DEF EntrySet, RoomsWritten, Rooms
      <4>2. CASE /\ rooms' \in Seq(RoomType) /\ Len(rooms') = Len(rooms) + 1
                 /\ room' = [room EXCEPT ![c] = Len(rooms) + 1]
        BY <3>1, <3>r, <4>2 DEF Rooms
      <4>3. CASE \E l \in {"create", "serving"} : pc' = [pc EXCEPT ![c] = l]
        BY <1>a, <1>p, <4>3
      <4>4. QED
        BY <1>0, <2>3, <4>1, <4>2, <4>3, ChannelForEffect
    <3>3. pc'[c] \in {"create", "subscribe", "serving"}
      BY <1>a, <1>p, <2>3, ChannelForEffect
    <3>4. QED
      BY <1>a, <1>l, <3>1, <3>2, <3>3 DEF HandLocals, ConnLocals
  <2>4. CASE Subscribe(c)
    <3>1. /\ cur'[c] = Len(mems) + 1 /\ pc'[c] = "insert" /\ room'[c] = room[c]
          /\ mems \in Seq(MemType) /\ room[c] \in Rooms
      BY <1>0, <1>a, <1>p, <2>4, SubscribeEffect DEF Subscribe, TypeInv, MemTypes
    <3>2. QED
      BY <1>m, <2>4, <3>1, SubscribeEffect DEF HandLocals, ConnLocals, Mems
  <2>5. CASE Insert(c) \/ RecheckBan(c) \/ Undo(c) \/ AnnounceJoin(c)
    <3>1. /\ pc'[c] \in Making /\ pc[c] \in Making /\ cur'[c] = cur[c] /\ room'[c] = room[c] /\ UNCHANGED mems
          /\ pc'[c] \notin Leaving
      BY <1>a, <1>p, <2>5 DEF Insert, RecheckBan, Undo, AnnounceJoin, handVars, memVars
    <3>2. QED
      BY <1>l, <1>m, <3>1 DEF HandLocals, ConnLocals, Mems
  <2>6. CASE Undone(c) \/ StartPump(c)
    <3>1. pc'[c] = "serving" /\ cur'[c] = 0
      BY <1>a, <1>p, <2>6 DEF Undone, StartPump, JoinReturns
    <3>2. QED
      BY <3>1 DEF HandLocals, ConnLocals
  <2>7. QED
    BY <1>2, <2>1, <2>2, <2>3, <2>4, <2>5, <2>6 DEF ConnStep, Enters
<1>3. ASSUME NEW p \in Procs, LeaveStep(p) PROVE LocalsInv'
  <2>0. Others(p)
    BY <1>3, OthersLemma
  <2>1. HandLocals(p)'
    <3>1. \/ pc'[p] \in Leaving \cup Making /\ cur'[p] = cur[p] /\ pc[p] \in Leaving \cup {"undoRemove", "undoClose"}
          \/ pc'[p] \in {"lookup", "serving", "leaving"} /\ cur'[p] = 0
      BY <1>3, <1>p DEF LeaveStep, Remove, CloseSub, Await, AnnouncePart, handVars
    <3>2. p \in Conns \/ pc[p] \notin {"undoRemove", "undoClose"}
      BY <1>0 DEF Procs, PcInv, ModLabels
    <3>3. pc[p] \in Leaving \cup {"undoRemove", "undoClose"} => cur[p] \in Mems
      BY <1>a, <1>l, <3>2 DEF HandLocals, ConnLocals, Procs
    <3>4. QED
      BY <1>m, <3>1, <3>3 DEF HandLocals
  <2>2. CASE p \in Mods
    <3>1. ModLocals(p)'
      BY <1>3, <1>l, <1>p, <2>2 DEF LeaveStep, Remove, CloseSub, Await, AnnouncePart, ModLocals, handVars
    <3>2. QED
      BY <1>c, <2>0, <2>1, <2>2, <3>1
  <2>3. CASE p \in Conns
    <3>1. \/ pc'[p] \notin {"subscribe"} \cup Making
          \/ /\ pc[p] \in {"undoRemove", "undoClose"} /\ room'[p] = room[p] /\ cur'[p] = cur[p]
             /\ (UNCHANGED mems \/ CloseSub(p))
      BY <1>3, <1>p, <1>a, <2>3 DEF LeaveStep, Remove, CloseSub, Await, AnnouncePart, handVars, memVars
    <3>2. CloseSub(p) => mems'[cur[p]].pump = mems[cur[p]].pump
      BY <1>0, <1>l, <2>3, CloseEffect DEF CloseSub, HandLocals, ConnLocals, TypeInv, MemTypes
    <3>3. ConnLocals(p)'
      BY <1>l, <1>m, <2>3, <3>1, <3>2 DEF ConnLocals
    <3>4. QED
      BY <1>b, <2>0, <2>1, <2>3, <3>3
  <2>4. QED
    BY <2>2, <2>3 DEF Procs
<1>4. ASSUME NEW d \in Mods, NEW v \in given.verbs, NEW s \in given.scopes, NEW k \in Nicks, Resolve(d, v, s, k)
      PROVE  LocalsInv'
  <2>1. Others(d)
    BY <1>4, OthersLemma
  <2>2. v # "none"
    BY <1>0 DEF Setting
  <2>3. HandLocals(d)' /\ ModLocals(d)'
    BY <1>4, <1>a, <1>l, <1>p, <2>2 DEF Resolve, HandLocals, ModLocals
  <2>4. QED
    BY <1>c, <2>1, <2>3
<1>5. ASSUME NEW d \in Mods, ModStep(d) PROVE LocalsInv'
  <2>0. Others(d)
    BY <1>5, OthersLemma
  <2> SUFFICES HandLocals(d)' /\ ModLocals(d)'
    BY <1>c, <2>0
  <2>1. CASE Store(d)
    <3>1. order[d] \in OrderType
      BY <1>p
    <3>2. pc'[d] = "part" => order[d].target \in Conns /\ order[d].scope \in Channels
      BY <1>a, <1>p, <2>1, <3>1 DEF Store, OrderType
    <3>3. QED
      BY <1>a, <1>l, <1>p, <2>1, <3>2 DEF Store, HandLocals, ModLocals, handVars
  <2>2. CASE PartTarget(d)
    <3>1. order[d].target \in Conns /\ order[d].scope \in Channels
      BY <1>l, <2>2 DEF PartTarget, ModLocals
    <3>2. table[order[d].target][order[d].scope] \in 0 .. Len(mems) /\ mems \in Seq(MemType)
      BY <1>0, <3>1 DEF TypeInv, MemTypes
    <3>3. order' = order /\ pc[d] = "part" /\ UNCHANGED mems
      BY <2>2 DEF PartTarget
    <3>4. \/ cur'[d] \in Mems /\ pc'[d] = "leave"
          \/ cur'[d] = cur[d] /\ pc'[d] = "lookup"
      BY <1>a, <1>p, <2>2, <3>2 DEF PartTarget, Mems
    <3>5. QED
      BY <1>l, <3>3, <3>4 DEF HandLocals, ModLocals, Mems
  <2>3. CASE Lookup(d) \/ Announce(d) \/ AnnounceFails(d) \/ EnforceBan(d)
    BY <1>a, <1>l, <1>p, <2>3 DEF Lookup, Announce, EnforceBan, AnnounceFails, HandLocals, ModLocals
  <2>4. QED
    BY <1>5, <2>1, <2>2, <2>3 DEF ModStep
<1>6. CASE UNCHANGED <<pc, handVars>>
  <2>1. \A c \in Conns : ~(Undone(c) \/ StartPump(c))
    BY <1>a, <1>p, <1>6 DEF Undone, StartPump, JoinReturns
  <2>2. QED
    BY <1>6, <2>1, LocalsFrame DEF handVars, LocalsInv
<1>7. QED
  <2>1. UNCHANGED vars => UNCHANGED <<pc, handVars>>
    BY DEF vars, handVars
  <2>2. QED
    BY <1>1, <1>2, <1>3, <1>4, <1>5, <1>6, <2>1, OthersLemma DEF Next, Step

\* Types and locals are kept together: each needs the other.
LEMMA HandsNext == HandsInv /\ [Next]_vars => HandsInv'
BY PcNext, TypeNext, LocalsNext DEF HandsInv

-----------------------------------------------------------------------------
(* Names *)

\* Which steps touch a table, and which place of it.
LEMMA TableSteps ==
  ASSUME HandsInv, [Next]_vars
  PROVE  \/ UNCHANGED table
         \/ \E c \in Conns : LeaveAll(c)
         \/ \E c \in Conns : Insert(c) /\ TableWritten(c, name[c], cur[c]) /\ UNCHANGED mems
         \/ \E c \in Conns : Undo(c) /\ TableWritten(c, name[c], 0) /\ table[c][name[c]] = cur[c] /\ UNCHANGED mems
         \/ \E c \in Conns, n \in Channels :
              /\ StartPart(c, n) /\ TableWritten(c, n, 0) /\ UNCHANGED mems
              /\ table[c][n] \in Mems
         \/ \E d \in Mods : 
              /\ PartTarget(d) /\ TableWritten(order[d].target, order[d].scope, 0) /\ UNCHANGED mems
              /\ order[d].target \in Conns /\ order[d].scope \in Channels
              /\ table[order[d].target][order[d].scope] \in Mems
<1>0. /\ table \in [Conns -> [Channels -> 0 .. Len(mems)]] /\ Len(mems) \in Nat
      /\ cur \in [Procs -> 0 .. Len(mems)] /\ name \in [Conns -> Channels] /\ given.channels \subseteq Channels
  BY GivenSame DEF HandsInv, TypeInv, MemTypes, HandTypes, Setting
<1>1. ASSUME NEW c \in Conns, Insert(c) PROVE TableWritten(c, name[c], cur[c]) /\ UNCHANGED mems
  <2>1. cur[c] \in 0 .. Len(mems) /\ name[c] \in Channels
    BY <1>0 DEF Procs
  <2>2. table' = [table EXCEPT ![c][name[c]] = cur[c]] /\ UNCHANGED mems
    BY <1>1 DEF Insert
  <2>3. QED
    BY <1>0, <2>1, <2>2, TableEffect
<1>2. ASSUME NEW c \in Conns, Undo(c), ~UNCHANGED table
      PROVE  TableWritten(c, name[c], 0) /\ table[c][name[c]] = cur[c] /\ UNCHANGED mems
  <2>1. 0 \in 0 .. Len(mems) /\ name[c] \in Channels
    BY <1>0
  <2>2. table' = [table EXCEPT ![c][name[c]] = 0] /\ UNCHANGED mems /\ table[c][name[c]] = cur[c]
    BY <1>2 DEF Undo
  <2>3. QED
    BY <1>0, <2>1, <2>2, TableEffect
<1>3. ASSUME NEW c \in Conns, NEW n \in given.channels, StartPart(c, n)
      PROVE  n \in Channels /\ TableWritten(c, n, 0) /\ UNCHANGED mems /\ table[c][n] \in Mems
  <2>1. 0 \in 0 .. Len(mems) /\ n \in Channels
    BY <1>0
  <2>2. table' = [table EXCEPT ![c][n] = 0] /\ UNCHANGED mems /\ table[c][n] # 0
    BY <1>3 DEF StartPart
  <2>3. table[c][n] \in Mems
    BY <1>0, <2>1, <2>2 DEF Mems
  <2>4. TableWritten(c, n, 0)
    BY <1>0, <2>1, <2>2, TableEffect
  <2>5. QED
    BY <2>1, <2>2, <2>3, <2>4
<1>4. ASSUME NEW d \in Mods, PartTarget(d), ~UNCHANGED table
      PROVE  /\ TableWritten(order[d].target, order[d].scope, 0) /\ UNCHANGED mems
             /\ order[d].target \in Conns /\ order[d].scope \in Channels
             /\ table[order[d].target][order[d].scope] \in Mems
  <2>1. 0 \in 0 .. Len(mems) /\ order[d].target \in Conns /\ order[d].scope \in Channels
    BY <1>0, <1>4 DEF PartTarget, HandsInv, LocalsInv, ModLocals
  <2>2. /\ table' = [table EXCEPT ![order[d].target][order[d].scope] = 0] /\ UNCHANGED mems
        /\ table[order[d].target][order[d].scope] # 0
    BY <1>4 DEF PartTarget
  <2>3. table[order[d].target][order[d].scope] \in Mems
    BY <1>0, <2>1, <2>2 DEF Mems
  <2>4. TableWritten(order[d].target, order[d].scope, 0)
    BY <1>0, <2>1, <2>2, TableEffect
  <2>5. QED
    BY <2>1, <2>2, <2>3, <2>4
<1>5. ASSUME NEW c \in Conns, Subscribe(c) \/ Undone(c) \/ StartPump(c) PROVE UNCHANGED table
  BY <1>5 DEF Subscribe, Undone, StartPump
<1>6. ASSUME NEW p \in Procs, CloseSub(p) PROVE UNCHANGED table
  BY <1>6 DEF CloseSub
<1>7. ASSUME NEW m \in Mems, PumpStep(m) PROVE UNCHANGED table
  BY <1>7 DEF PumpStep, PumpEnds, PumpFails, PumpLags, PumpDrops
<1>8. QED
  BY <1>1, <1>2, <1>3, <1>4, <1>5, <1>6, <1>7, MemSteps

\* A name leads to its one open channel object, found, made or swept under channelsMu.
LEMMA ChannelNamesNext == HandsInv /\ ChannelNames /\ [Next]_vars => ChannelNames'
<1> SUFFICES ASSUME HandsInv, ChannelNames, [Next]_vars PROVE ChannelNames'
  OBVIOUS
<1>0. /\ rooms \in Seq(RoomType) /\ channels \in [Channels -> 0 .. Len(rooms)]
      /\ name \in [Conns -> Channels]
      /\ \A r \in Rooms : rooms[r].name \in Channels
  <2>1. rooms \in Seq(RoomType) /\ channels \in [Channels -> 0 .. Len(rooms)] /\ name \in [Conns -> Channels]
    BY DEF HandsInv, TypeInv, RoomTypes, HandTypes
  <2>2. \A r \in Rooms : rooms[r] \in RoomType
    BY <2>1 DEF Rooms
  <2>3. QED
    BY <2>1, <2>2 DEF RoomType
<1>1. CASE UNCHANGED <<rooms, channels>>
  BY <1>1 DEF ChannelNames, Rooms
<1>2. CASE RoomsWritten /\ UNCHANGED channels /\ \A r \in Rooms : rooms'[r].open = rooms[r].open
  <2>1. Rooms' = Rooms /\ \A r \in Rooms : rooms'[r].name = rooms[r].name /\ rooms'[r].open = rooms[r].open
    BY <1>2 DEF RoomsWritten, Rooms
  <2>2. \A n \in Channels : channels[n] # 0 => channels[n] \in Rooms
    BY <1>0 DEF Rooms
  <2>3. QED
    BY <1>2, <2>1, <2>2 DEF ChannelNames
<1>3. ASSUME NEW c \in Conns, Enters(c) PROVE ChannelNames'
  <2>1. CASE channels[name[c]] \in Rooms /\ EntrySet(channels[name[c]], Nick[c], c) /\ UNCHANGED channels
    BY <1>2, <2>1 DEF EntrySet
  <2>2. CASE /\ channels[name[c]] = 0 /\ Len(rooms') = Len(rooms) + 1
             /\ \A r \in Rooms : rooms'[r] = rooms[r]
             /\ rooms'[Len(rooms) + 1].name = name[c] /\ rooms'[Len(rooms) + 1].open
             /\ channels' = [channels EXCEPT ![name[c]] = Len(rooms) + 1]
    <3>1. Rooms' = Rooms \cup {Len(rooms) + 1} /\ Len(rooms) + 1 \notin Rooms
      BY <1>0, <2>2 DEF Rooms
    <3>2. \A n \in Channels : channels[n] # 0 => channels[n] \in Rooms
      BY <1>0 DEF Rooms
    <3>3. \A r \in Rooms : r # 0
      BY DEF Rooms
    <3>4. \A n \in Channels : channels'[n] = IF n = name[c] THEN Len(rooms) + 1 ELSE channels[n]
      BY <1>0, <2>2
    <3>5. \A n \in Channels : channels'[n] # 0 => rooms'[channels'[n]].name = n
      BY <1>0, <2>2, <3>1, <3>2, <3>4 DEF ChannelNames
    <3>6. ASSUME NEW r \in Rooms PROVE rooms'[r].open <=> channels'[rooms'[r].name] = r
      <4>1. rooms'[r] = rooms[r] /\ r # Len(rooms) + 1 /\ r # 0
        BY <2>2, <3>1, <3>3
      <4>2. rooms[r].name = name[c] => ~rooms[r].open
        BY <2>2, <4>1 DEF ChannelNames
      <4>3. QED
        BY <1>0, <3>4, <4>1, <4>2 DEF ChannelNames
    <3>7. QED
      BY <1>0, <2>2, <3>1, <3>4, <3>5, <3>6 DEF ChannelNames
  <2>3. CASE UNCHANGED <<rooms, channels, room>>
    BY <1>1, <2>3
  <2>4. QED
    BY <1>3, <2>1, <2>2, <2>3, ChannelForEffect
<1>4. ASSUME NEW c \in Conns, AnnounceJoin(c) PROVE ChannelNames'
  <2>1. UNCHANGED channels
    BY <1>4 DEF AnnounceJoin
  <2>2. QED
    BY <1>2, <1>4, <2>1, AnnounceEffect DEF LogWritten
<1>5. ASSUME NEW p \in Procs, Remove(p) PROVE ChannelNames'
  <2>1. UNCHANGED channels
    BY <1>5 DEF Remove
  <2>2. QED
    BY <1>1, <1>2, <1>5, <2>1, RemoveEffect DEF EntrySet
<1>6. ASSUME NEW p \in Procs, AnnouncePart(p) PROVE ChannelNames'
  <2>1. UNCHANGED channels
    BY <1>6 DEF AnnouncePart
  <2>2. QED
    BY <1>2, <1>6, <2>1, AnnounceEffect DEF LogWritten
<1>7. ASSUME NEW d \in Mods, Announce(d) PROVE ChannelNames'
  <2>1. UNCHANGED channels
    BY <1>7 DEF Announce
  <2>2. QED
    BY <1>2, <1>7, <2>1, AnnounceEffect DEF LogWritten
<1>8. ASSUME NEW n \in Channels, Sweep(n) PROVE ChannelNames'
  <2>1. /\ channels[n] \in Rooms /\ RoomsWritten /\ ~rooms'[channels[n]].open
        /\ channels' = [channels EXCEPT ![n] = 0]
        /\ \A s \in Rooms : s # channels[n] => rooms'[s].open = rooms[s].open
    BY <1>8, SweptEffect
  <2>2. \A k \in Channels : channels'[k] = IF k = n THEN 0 ELSE channels[k]
    BY <1>0, <2>1
  <2>3. Rooms' = Rooms /\ (\A r \in Rooms : rooms'[r].name = rooms[r].name /\ r # 0)
    BY <2>1 DEF RoomsWritten, Rooms
  <2>4. rooms[channels[n]].name = n
    BY <2>1, <2>3 DEF ChannelNames
  <2>5. \A k \in Channels : channels'[k] # 0 => rooms'[channels'[k]].name = k
    <3>1. \A k \in Channels : channels[k] # 0 => channels[k] \in Rooms
      BY <1>0 DEF Rooms
    <3>2. QED
      BY <2>2, <2>3, <3>1 DEF ChannelNames
  <2>6. \A r \in Rooms : rooms'[r].open <=> channels'[rooms'[r].name] = r
    <3>1. SUFFICES ASSUME NEW r \in Rooms PROVE rooms'[r].open <=> channels'[rooms[r].name] = r
      BY <2>3
    <3>2. rooms[r].name \in Channels /\ r # 0 /\ (rooms[r].open <=> channels[rooms[r].name] = r)
      BY <1>0, <2>3 DEF ChannelNames
    <3>3. CASE r = channels[n]
      BY <2>1, <2>2, <2>4, <3>2, <3>3
    <3>4. CASE r # channels[n]
      <4>1. rooms[r].name = n => ~rooms[r].open
        BY <3>2, <3>4
      <4>2. QED
        BY <2>1, <2>2, <3>2, <3>4, <4>1
    <3>5. QED
      BY <3>3, <3>4
  <2>7. QED
    BY <2>3, <2>5, <2>6 DEF ChannelNames
<1>9. QED
  BY <1>1, <1>3, <1>4, <1>5, <1>6, <1>7, <1>8, RoomSteps

\* A joiner's channel object is of the name it joins.
LEMMA JoinNamesNext == HandsInv /\ ChannelNames /\ JoinNames /\ [Next]_vars => JoinNames'
<1> SUFFICES ASSUME HandsInv, ChannelNames, JoinNames, [Next]_vars, NEW c \in Conns,
                    pc'[c] \in {"subscribe"} \cup Making
             PROVE  rooms'[room'[c]].name = name'[c]
  BY DEF JoinNames
<1> USE DEF Goto, Making, Joining
<1>0. /\ pc \in [Procs -> ConnLabels \cup ModLabels] /\ rooms \in Seq(RoomType)
      /\ c \in Procs /\ \A r \in Rooms : rooms'[r].name = rooms[r].name
      /\ channels \in [Channels -> 0 .. Len(rooms)] /\ room \in [Conns -> 0 .. Len(rooms)]
  BY RoomsLast DEF HandsInv, PcInv, TypeInv, RoomTypes, Procs
<1>1. CASE pc[c] \in {"subscribe"} \cup Making /\ room'[c] = room[c] /\ name'[c] = name[c]
  BY <1>0, <1>1 DEF HandsInv, LocalsInv, ConnLocals, JoinNames
<1>2. CASE Enters(c)
  <2>1. /\ UNCHANGED name
        /\ \/ channels[name[c]] \in Rooms /\ room'[c] = channels[name[c]]
           \/ room'[c] = Len(rooms) + 1 /\ rooms'[Len(rooms) + 1].name = name[c]
    BY <1>0, <1>2, ChannelForEffect DEF Enters, ChannelFor, CreateChannel, EnterChannel
  <2>2. name[c] \in Channels /\ \A r \in Rooms : r # 0
    BY DEF HandsInv, TypeInv, HandTypes, Rooms
  <2>3. channels[name[c]] \in Rooms => rooms'[channels[name[c]]].name = name[c]
    BY <1>0, <2>2 DEF ChannelNames
  <2>4. QED
    BY <2>1, <2>3
<1>3. CASE ~Enters(c) /\ ~(pc[c] \in {"subscribe"} \cup Making /\ room'[c] = room[c] /\ name'[c] = name[c])
  <2>1. ASSUME ClientStep(c) PROVE FALSE
    BY <1>0, <1>3, <2>1 DEF ClientStep, Connect, SocketDies, StartJoin, StartPart, handVars
  <2>2. ASSUME ConnStep(c) PROVE FALSE
    BY <1>0, <1>3, <2>2 DEF ConnStep, Enters, Register, WriteReady, Autojoin, StartReading, StopReading,
          Unregister,
       LeaveAll, LeaveNext, CheckBan, Subscribe, Insert, RecheckBan, Undo, Undone, AnnounceJoin, StartPump,
       JoinReturns, handVars
  <2>3. ASSUME LeaveStep(c) PROVE FALSE
    BY <1>0, <1>3, <2>3 DEF LeaveStep, Remove, CloseSub, Await, AnnouncePart, handVars
  <2>4. ASSUME NEW a \in Procs \ {c}, Others(a) PROVE FALSE
    BY <1>0, <1>3, <2>4 DEF Others
  <2>5. ASSUME UNCHANGED <<pc, handVars>> PROVE FALSE
    BY <1>3, <2>5 DEF handVars
  <2>6. QED
    BY <2>1, <2>2, <2>3, <2>4, <2>5, Movers
<1>4. QED
  BY <1>1, <1>2, <1>3

\* A table's places are its owner's, under the right names.
LEMMA TableNamesNext == HandsInv /\ JoinNames /\ TableNames /\ [Next]_vars => TableNames'
<1> SUFFICES ASSUME HandsInv, JoinNames, TableNames, [Next]_vars,
                    NEW c \in Conns, NEW n \in Channels, table'[c][n] # 0
             PROVE  mems'[table'[c][n]].owner = c /\ rooms'[mems'[table'[c][n]].room].name = n
  BY DEF TableNames, RoomOf
<1>0. /\ table \in [Conns -> [Channels -> 0 .. Len(mems)]] /\ Len(mems) \in Nat
      /\ \A m \in Mems : mems'[m].owner = mems[m].owner /\ mems'[m].room = mems[m].room /\ mems[m].room \in Rooms
      /\ \A r \in Rooms : rooms'[r].name = rooms[r].name
  BY RoomsLast, MemsLast DEF HandsInv, TypeInv, MemTypes
<1>1. CASE table'[c][n] = table[c][n]
  <2>1. table[c][n] \in Mems
    BY <1>0, <1>1 DEF Mems
  <2>2. QED
    BY <1>0, <1>1, <2>1 DEF TableNames, RoomOf
<1>2. ASSUME NEW d \in Conns, Insert(d), TableWritten(d, name[d], cur[d]), table'[c][n] # table[c][n]
      PROVE  mems'[table'[c][n]].owner = c /\ rooms'[mems'[table'[c][n]].room].name = n
  <2>1. d = c /\ n = name[c] /\ table'[c][n] = cur[c]
    BY <1>2 DEF TableWritten
  <2>2. cur[c] \in Mems /\ mems[cur[c]].owner = c /\ rooms[mems[cur[c]].room].name = n
    BY <1>2, <2>1 DEF Insert, HandsInv, LocalsInv, ConnLocals, JoinNames, Making
  <2>3. QED
    BY <1>0, <2>1, <2>2
<1>3. ASSUME NEW d \in Conns, LeaveAll(d) PROVE table'[c][n] \in {0, table[c][n]}
  BY <1>0, <1>3 DEF LeaveAll
<1>4. ASSUME NEW d \in Conns, NEW k \in Channels, TableWritten(d, k, 0) PROVE table'[c][n] \in {0, table[c][n]}
  BY <1>4 DEF TableWritten
<1>5. QED
  BY <1>0, <1>1, <1>2, <1>3, <1>4, TableSteps DEF HandsInv, TypeInv, HandTypes

\* Names are kept.
LEMMA NamesNext == HandsInv /\ NamesInv /\ [Next]_vars => NamesInv'
BY ChannelNamesNext, JoinNamesNext, TableNamesNext DEF NamesInv

\* At first there is nothing to name.
LEMMA NamesInit == Init => NamesInv
BY DEF Init, NamesInv, ChannelNames, JoinNames, TableNames, Rooms, Making, Joining, Procs

-----------------------------------------------------------------------------
(* Who reads, who is away, and who is known by a nick *)

\* Which steps touch the connection table and who reads.
LEMMA ReadingSteps ==
  ASSUME [Next]_vars
  PROVE  \/ UNCHANGED <<reading, conns>>
         \/ \E c \in Conns : StartReading(c) \/ StopReading(c) \/ Register(c) \/ Unregister(c)
<1> USE DEF connVars
<1>1. ASSUME NEW c \in Conns, ClientStep(c) PROVE UNCHANGED <<reading, conns>>
  BY <1>1 DEF ClientStep, Connect, SocketDies, StartJoin, StartPart
<1>2. ASSUME NEW c \in Conns, ConnStep(c), ~StartReading(c), ~StopReading(c), ~Register(c), ~Unregister(c)
      PROVE  UNCHANGED <<reading, conns>>
  BY <1>2 DEF ConnStep, WriteReady, Autojoin, LeaveAll, LeaveNext, CheckBan, Enters, ChannelFor,
        CreateChannel, EnterChannel, Subscribe, Insert,
              RecheckBan, Undo, Undone, AnnounceJoin, StartPump
<1>3. ASSUME NEW p \in Procs, LeaveStep(p) PROVE UNCHANGED <<reading, conns>>
  BY <1>3 DEF LeaveStep, Remove, CloseSub, Await, AnnouncePart
<1>4. ASSUME NEW d \in Mods, NEW v \in given.verbs, NEW s \in given.scopes, NEW k \in Nicks, Resolve(d, v, s, k)
      PROVE  UNCHANGED <<reading, conns>>
  BY <1>4 DEF Resolve
<1>5. ASSUME NEW d \in Mods, ModStep(d) PROVE UNCHANGED <<reading, conns>>
  BY <1>5 DEF ModStep, Store, PartTarget, Lookup, Announce, EnforceBan, AnnounceFails
<1>6. ASSUME NEW m \in Mems, PumpStep(m) PROVE UNCHANGED <<reading, conns>>
  BY <1>6 DEF PumpStep, PumpEnds, PumpFails, PumpLags, PumpDrops
<1>7. ASSUME NEW n \in Channels, Sweep(n) PROVE UNCHANGED <<reading, conns>>
  BY <1>7 DEF Sweep
<1>8. ASSUME NEW b \in bans, Expire(b) PROVE UNCHANGED <<reading, conns>>
  BY <1>8 DEF Expire
<1>9. CASE UNCHANGED vars
  BY <1>9 DEF vars
<1>10. QED
  BY <1>1, <1>2, <1>3, <1>4, <1>5, <1>6, <1>7, <1>8, <1>9 DEF Next, Step

\* Only a connection that stopped reading tears its own memberships down one by one.
LEMMA ReadNext == HandsInv /\ NamesInv /\ ReadInv /\ [Next]_vars => ReadInv'
<1> SUFFICES ASSUME HandsInv, NamesInv, ReadInv, [Next]_vars, NEW c \in Conns PROVE ReadLocals(c)'
  BY DEF ReadInv
<1> USE DEF Goto, Away, Leaving
<1>0. /\ pc \in [Procs -> ConnLabels \cup ModLabels] /\ cur \in [Procs -> 0 .. Len(mems)]
      /\ todo \in [Procs -> SUBSET Nat] /\ todo[c] \subseteq Mems /\ c \in Procs /\ c \notin Mods
      /\ pc[c] \in Leaving => cur[c] \in Mems
  BY MembershipAssumption DEF HandsInv, PcInv, TypeInv, MemTypes, HandTypes, Procs, LocalsInv, HandLocals
<1>1. ReadLocals(c)
  BY DEF ReadInv
<1>2. \A m \in Mems : mems'[m].owner = mems[m].owner
  BY MemsLast
<1>3. CASE StartReading(c)
  <2>1. pc[c] = "serving" /\ UNCHANGED <<pc, cur, todo, mems>>
    BY <1>3 DEF StartReading, handVars, memVars
  <2>2. QED
    BY <1>1, <2>1 DEF ReadLocals
<1>4. CASE ~StartReading(c) /\ (UNCHANGED <<pc, handVars>> \/ \E a \in Procs \ {c} : Others(a))
  <2>1. pc'[c] = pc[c] /\ cur'[c] = cur[c] /\ todo'[c] = todo[c]
    BY <1>0, <1>4 DEF Others, handVars
  <2>2. c \in reading' <=> c \in reading
    <3>1. ASSUME NEW a \in Conns, StartReading(a) \/ StopReading(a), a # c PROVE c \in reading' <=> c \in reading
      BY <3>1 DEF StartReading, StopReading
    <3>2. ~StopReading(c)
      BY <1>0, <2>1 DEF StopReading
    <3>3. ASSUME NEW a \in Conns, Register(a) \/ Unregister(a) PROVE reading' = reading
      BY <3>3 DEF Register, Unregister
    <3>4. QED
      BY <1>4, <3>1, <3>2, <3>3, ReadingSteps
  <2>3. QED
    BY <1>0, <1>1, <1>2, <2>1, <2>2 DEF ReadLocals
<1>5. CASE ClientStep(c)
  <2>1. reading' = reading
    BY <1>5 DEF ClientStep, Connect, SocketDies, StartJoin, StartPart, connVars
  <2>2. CASE Connect(c) \/ SocketDies(c) \/ \E n \in given.channels : StartJoin(c, n)
    <3>1. /\ pc'[c] = pc[c] \/ (pc[c] \in {"off", "serving"} /\ pc'[c] \notin Leaving \cup {"leaving"}
                               /\ (pc'[c] \in Away => pc[c] = "off"))
          /\ cur' = cur /\ todo' = todo
      BY <1>0, <2>2 DEF Connect, SocketDies, StartJoin, handVars
    <3>2. QED
      BY <1>0, <1>1, <1>2, <2>1, <3>1 DEF ReadLocals
  <2>3. ASSUME NEW n \in given.channels, StartPart(c, n) PROVE ReadLocals(c)'
    <3>1. /\ pc[c] = "serving" /\ pc'[c] = "leave" /\ c \in reading /\ table[c][n] # 0
          /\ cur'[c] = table[c][n] /\ todo' = todo
      BY <1>0, <2>3 DEF StartPart
    <3>2. n \in Channels
      BY GivenSame DEF HandsInv, TypeInv, Setting
    <3>3. table[c][n] \in Mems /\ mems[table[c][n]].owner = c
      BY <3>1, <3>2 DEF HandsInv, TypeInv, MemTypes, Mems, NamesInv, TableNames
    <3>4. QED
      BY <1>1, <1>2, <2>1, <3>1, <3>3 DEF ReadLocals
  <2>4. QED
    BY <1>5, <2>2, <2>3 DEF ClientStep
<1>6. CASE ConnStep(c)
  <2>1. CASE LeaveAll(c)
    <3>1. /\ pc[c] = "leaveAll" /\ pc'[c] = "leaving" /\ reading' = reading /\ cur' = cur
          /\ todo'[c] = {table[c][n] : n \in Joined(c)} /\ mems' = mems
      BY <1>0, <2>1 DEF LeaveAll, connVars
    <3>2. cur[c] = 0 /\ c \notin reading
      BY <1>0, <1>1, <3>1 DEF ReadLocals, HandsInv, LocalsInv, HandLocals, Making, Joining
    <3>3. \A n \in Joined(c) : table[c][n] # 0 /\ mems[table[c][n]].owner = c
      BY DEF Joined, NamesInv, TableNames
    <3>4. QED
      BY <3>1, <3>2, <3>3 DEF ReadLocals
  <2>2. CASE LeaveNext(c)
    <3>1. /\ pc[c] = "leaving" /\ reading' = reading
          /\ \/ /\ pc'[c] = "leave" /\ cur'[c] \in todo[c] /\ todo'[c] = todo[c] \ {cur'[c]}
             \/ pc'[c] = "gone" /\ todo' = todo /\ cur' = cur /\ todo[c] = {}
      BY <1>0, <2>2 DEF LeaveNext, connVars
    <3>2. QED
      BY <1>0, <1>1, <1>2, <3>1 DEF ReadLocals
  <2>3. CASE Subscribe(c)
    <3>1. /\ pc[c] = "subscribe" /\ pc'[c] = "insert" /\ reading' = reading /\ todo' = todo
      BY <1>0, <2>3 DEF Subscribe, connVars
    <3>2. QED
      BY <1>1, <3>1 DEF ReadLocals
  <2>4. CASE Enters(c)
    <3>1. pc[c] \in {"channelFor", "create"} /\ pc'[c] \in {"create", "subscribe", "serving"}
      BY <1>0, <2>4 DEF Enters, ChannelFor, CreateChannel, EnterChannel
    <3>2. reading' = reading /\ todo' = todo
      BY <2>4 DEF Enters, ChannelFor, CreateChannel, EnterChannel, connVars
    <3>3. QED
      BY <1>1, <3>1, <3>2 DEF ReadLocals
  <2>5. CASE StopReading(c)
    <3>1. pc[c] = "serving" /\ pc'[c] = "unregister" /\ c \notin reading' /\ todo' = todo
      BY <1>0, <2>5 DEF StopReading, handVars
    <3>2. QED
      BY <1>1, <3>1 DEF ReadLocals
  <2>6. CASE Register(c) \/ WriteReady(c) \/ Autojoin(c) \/ Unregister(c) \/ CheckBan(c)
    <3>1. /\ reading' = reading /\ todo' = todo
          /\ pc[c] \in Away \ {"leaving"} \/ (pc[c] \in {"serving", "checkBan"} /\ pc'[c] \notin Away)
          /\ pc'[c] \notin Leaving \cup {"leaving"}
      BY <1>0, <2>6 DEF Register, WriteReady, Autojoin, Unregister, CheckBan, handVars, connVars
    <3>2. QED
      BY <1>1, <3>1 DEF ReadLocals
  <2>7. CASE Insert(c) \/ RecheckBan(c) \/ Undo(c) \/ Undone(c) \/ AnnounceJoin(c) \/ StartPump(c)
    <3>1. /\ reading' = reading /\ todo' = todo
          /\ pc[c] \in Making /\ pc'[c] \in Making \cup {"serving"}
      BY <1>0, <2>7 DEF Insert, RecheckBan, Undo, Undone, AnnounceJoin, StartPump, JoinReturns,
                        handVars, connVars, Making, Joining
    <3>2. QED
      BY <1>1, <3>1 DEF ReadLocals, Making, Joining
  <2>8. QED
    BY <1>3, <1>6, <2>1, <2>2, <2>3, <2>4, <2>5, <2>6, <2>7 DEF ConnStep, Enters
<1>7. CASE LeaveStep(c)
  <2>1. reading' = reading /\ todo' = todo
    BY <1>7 DEF LeaveStep, Remove, CloseSub, Await, AnnouncePart, handVars, connVars
  <2>2. CASE Remove(c) \/ CloseSub(c) \/ Await(c)
    <3>1. /\ cur' = cur
          /\ \/ pc[c] \in Leaving /\ pc'[c] \in Leaving
             \/ pc[c] \in Making /\ pc'[c] \in Making
      BY <1>0, <2>2 DEF Remove, CloseSub, Await, handVars, Making, Joining
    <3>2. QED
      BY <1>0, <1>1, <1>2, <2>1, <3>1 DEF ReadLocals, Making, Joining
  <2>3. CASE AnnouncePart(c)
    <3>1. pc[c] = "announcePart" /\ cur'[c] = 0 /\ pc'[c] = IF c \in reading THEN "serving" ELSE "leaving"
      BY <1>0, <2>3 DEF AnnouncePart
    <3>2. \A m \in Mems : m # 0
      BY DEF Mems
    <3>3. QED
      BY <1>0, <1>1, <1>2, <2>1, <3>1, <3>2 DEF ReadLocals
  <2>4. QED
    BY <1>7, <2>2, <2>3 DEF LeaveStep
<1>8. QED
  BY <1>3, <1>4, <1>5, <1>6, <1>7, Movers

\* At first nobody reads.
LEMMA ReadInit == Init => ReadInv
BY DEF Init, ReadInv, ReadLocals, Procs, Leaving

\* The connections made are those of the setting.
LEMMA MadeInit == Init => MadeInv
BY DEF Init, MadeInv, Procs, Mems

\* No other connection is ever made, registered or joined.
LEMMA MadeNext == HandsInv /\ MadeInv /\ [Next]_vars => MadeInv'
<1> SUFFICES ASSUME HandsInv, MadeInv, [Next]_vars PROVE MadeInv'
  OBVIOUS
<1>0. given' = given /\ pc \in [Procs -> ConnLabels \cup ModLabels] /\ Conns \subseteq Procs
  BY GivenSame DEF HandsInv, PcInv, TypeInv, Procs
<1>1. ASSUME NEW c \in Conns, pc'[c] # "off", pc[c] = "off" PROVE c \in given.conns
  <2>1. ASSUME ClientStep(c) PROVE c \in given.conns
    BY <1>0, <1>1, <2>1 DEF ClientStep, Connect, SocketDies, StartJoin, StartPart, Goto
  <2>2. ~ConnStep(c)
    BY <1>0, <1>1 DEF ConnStep, Register, WriteReady, Autojoin, StartReading, StopReading, Unregister,
       LeaveAll, LeaveNext, CheckBan, Enters, ChannelFor, CreateChannel, EnterChannel, Subscribe, Insert,
             RecheckBan, Undo, Undone, AnnounceJoin,
       StartPump
  <2>3. ~LeaveStep(c)
    BY <1>0, <1>1 DEF LeaveStep, Remove, CloseSub, Await, AnnouncePart
  <2>4. QED
    BY <1>0, <1>1, <2>1, <2>2, <2>3, Movers DEF Others
<1>2. ASSUME NEW m \in Mems' PROVE mems'[m].owner \in given.conns
  <2>1. CASE m \in Mems
    BY <2>1, MemsLast DEF MadeInv
  <2>2. CASE m \notin Mems
    <3>1. PICK c \in Conns : Subscribe(c)
      BY <2>2, MemsLast DEF Mems
    <3>2. m = Len(mems) + 1
      BY <2>2, <3>1, SubscribeEffect DEF Mems, HandsInv, TypeInv, MemTypes
    <3>3. QED
      BY <3>1, <3>2, SubscribeEffect DEF Subscribe, MadeInv
  <2>3. QED
    BY <2>1, <2>2
<1>3. ASSUME NEW k \in Nicks, conns'[k] # NoConn PROVE conns'[k] \in given.conns
  <2>1. CASE conns'[k] = conns[k]
    BY <1>3, <2>1 DEF MadeInv
  <2>2. ASSUME NEW c \in Conns, Register(c) PROVE conns'[k] \in {conns[k], c} /\ c \in given.conns
    BY <2>2 DEF Register, MadeInv, HandsInv, TypeInv, OutsideTypes
  <2>3. ASSUME NEW c \in Conns, Unregister(c) PROVE conns'[k] \in {conns[k], NoConn}
    BY <2>3 DEF Unregister, HandsInv, TypeInv, OutsideTypes
  <2>4. ASSUME NEW c \in Conns, StartReading(c) \/ StopReading(c) PROVE conns'[k] = conns[k]
    BY <2>4 DEF StartReading, StopReading
  <2>5. QED
    BY <1>3, <2>1, <2>2, <2>3, <2>4, ReadingSteps
<1>4. QED
  BY <1>0, <1>1, <1>2, <1>3 DEF MadeInv


\* Who the connection table names is not gone, and nobody's teardown has passed it.
LEMMA TableInit == Init => TableInv
BY DEF Init, TableInv

\* Only Register sets a place of the connection table, and Unregister clears its own.
LEMMA TableNext == HandsInv /\ TableInv /\ [Next]_vars => TableInv'
<1> SUFFICES ASSUME HandsInv, TableInv, [Next]_vars, NEW k \in Nicks, conns'[k] # NoConn
             PROVE  /\ Nick[conns'[k]] = k
                    /\ pc'[conns'[k]] \notin {"off", "register", "leaveAll", "leaving", "gone"}
                    /\ pc'[conns'[k]] \in Leaving => conns'[k] \in reading'
  BY GivenSame DEF TableInv, HandsInv, TypeInv, Nick
<1> DEFINE c == conns'[k]
<1> USE DEF Goto, Leaving
<1>0. /\ pc \in [Procs -> ConnLabels \cup ModLabels] /\ Conns \subseteq Procs
      /\ conns \in [Nicks -> Conns \cup {NoConn}] /\ \A a \in Conns : a \notin Mods
  BY MembershipAssumption DEF HandsInv, PcInv, TypeInv, OutsideTypes, Procs
<1>1. ASSUME NEW a \in Conns, Register(a), conns'[k] # conns[k]
      PROVE  c = a /\ Nick[a] = k /\ pc'[a] = "ready"
  BY <1>0, <1>1 DEF Register
<1>2. ASSUME conns'[k] = conns[k]
      PROVE  /\ Nick[c] = k
             /\ pc'[c] \notin {"off", "register", "leaveAll", "leaving", "gone"}
             /\ pc'[c] \in Leaving => c \in reading'
  <2>0. /\ c \in Conns /\ Nick[c] = k
        /\ pc[c] \notin {"off", "register", "leaveAll", "leaving", "gone"}
        /\ pc[c] \in Leaving => c \in reading
    BY <1>0, <1>2 DEF TableInv
  <2> HIDE DEF c
  <2>1. CASE UNCHANGED <<pc, handVars>> \/ \E a \in Procs \ {c} : Others(a)
    <3>1. pc'[c] = pc[c]
      BY <1>0, <2>0, <2>1 DEF Others
    <3>2. pc[c] \in Leaving => c \in reading'
      <4>1. ASSUME NEW a \in Conns, StopReading(a), pc[c] \in Leaving PROVE c \in reading'
        BY <2>0, <4>1 DEF StopReading
      <4>2. ASSUME NEW a \in Conns, StartReading(a) \/ Register(a) \/ Unregister(a), pc[c] \in Leaving
            PROVE  c \in reading'
        BY <2>0, <4>2 DEF StartReading, Register, Unregister
      <4>3. QED
        BY <2>0, <4>1, <4>2, ReadingSteps
    <3>3. QED
      BY <2>0, <3>1, <3>2
  <2>2. CASE ClientStep(c)
    BY <1>0, <2>0, <2>2 DEF ClientStep, Connect, SocketDies, StartJoin, StartPart, connVars
  <2>3. CASE ConnStep(c)
    <3>1. ~Unregister(c)
      BY <1>0, <1>2, <2>0 DEF Unregister, c
    <3>2. \/ pc'[c] = pc[c] /\ reading \subseteq reading'
          \/ pc'[c] \in (ConnLabels \ Leaving) \ {"off", "register", "leaveAll", "leaving", "gone"}
      BY <1>0, <2>0, <2>3, <3>1 DEF ConnStep, Register, WriteReady, Autojoin, StartReading, StopReading,
         LeaveAll, LeaveNext, CheckBan, Enters, ChannelFor, CreateChannel, EnterChannel, Subscribe, Insert,
               RecheckBan, Undo, Undone, AnnounceJoin,
         StartPump, JoinReturns, ConnLabels, Joining, connVars
    <3>3. QED
      BY <2>0, <3>2
  <2>4. CASE LeaveStep(c)
    BY <1>0, <2>0, <2>4 DEF LeaveStep, Remove, CloseSub, Await, AnnouncePart, connVars
  <2>5. QED
    BY <2>0, <2>1, <2>2, <2>3, <2>4, Movers
<1>3. ASSUME NEW a \in Conns, Unregister(a) PROVE conns'[k] = conns[k]
  BY <1>0, <1>3 DEF Unregister, HandsInv, TypeInv, OutsideTypes
<1>4. ASSUME NEW a \in Conns, StartReading(a) \/ StopReading(a) PROVE conns'[k] = conns[k]
  BY <1>4 DEF StartReading, StopReading
<1>5. QED
  BY <1>1, <1>2, <1>3, <1>4, ReadingSteps

-----------------------------------------------------------------------------
(* Room to join *)

\* Nobody but its own connection fills a place of a table.
LEMMA JoinedSteps ==
  ASSUME HandsInv, [Next]_vars, NEW c \in Conns
  PROVE  \/ \A n \in Channels : table'[c][n] \in {table[c][n], 0}
         \/ Insert(c) /\ TableWritten(c, name[c], cur[c])
<1>1. ASSUME NEW a \in Conns, LeaveAll(a) PROVE \A n \in Channels : table'[c][n] \in {table[c][n], 0}
  BY <1>1 DEF LeaveAll, HandsInv, TypeInv, MemTypes
<1>2. ASSUME NEW a, NEW k, TableWritten(a, k, 0) PROVE \A n \in Channels : table'[c][n] \in {table[c][n], 0}
  BY <1>2 DEF TableWritten
<1>3. ASSUME NEW a \in Conns, a # c, TableWritten(a, name[a], cur[a])
      PROVE  \A n \in Channels : table'[c][n] \in {table[c][n], 0}
  BY <1>3 DEF TableWritten
<1>4. QED
  BY <1>1, <1>2, <1>3, TableSteps

\* At first there is all the room the limits give.
LEMMA RoomToJoinInit == Init => RoomToJoin
<1> SUFFICES ASSUME Init PROVE RoomToJoin
  OBVIOUS
<1>1. {n \in Channels : channels[n] # 0} = {}
  BY DEF Init
<1>2. \A c \in Conns : Joined(c) = {}
  BY DEF Init, Joined
<1>3. IsFiniteSet({}) /\ Cardinality({}) = 0
  BY FS_EmptySet
<1>4. \A c \in Conns : pc[c] = "off"
  BY DEF Init, Procs
<1>5. 0 <= MaxChannels /\ 0 <= MaxChannelsPerConn
  BY MembershipAssumption
<1>6. QED
  BY <1>1, <1>2, <1>3, <1>4, <1>5 DEF RoomToJoin

\* A channel is made only when there is room for it.
LEMMA ChannelsLast ==
  ASSUME HandsInv, RoomToJoin, [Next]_vars
  PROVE  LET S == {n \in Channels : channels'[n] # 0} IN IsFiniteSet(S) /\ Cardinality(S) <= MaxChannels
<1> DEFINE R == {n \in Channels : channels[n] # 0}
           S == {n \in Channels : channels'[n] # 0}
<1>0. channels \in [Channels -> 0 .. Len(rooms)] /\ name \in [Conns -> Channels] /\ Len(rooms) \in Nat
  BY DEF HandsInv, TypeInv, RoomTypes, HandTypes
<1>1. IsFiniteSet(R) /\ Cardinality(R) <= MaxChannels /\ Cardinality(R) \in Nat /\ MaxChannels \in Nat
  BY FS_CardinalityType, MembershipAssumption DEF RoomToJoin
<1>2. ASSUME channels' = channels PROVE IsFiniteSet(S) /\ Cardinality(S) <= MaxChannels
  BY <1>1, <1>2
<1>3. ASSUME NEW c \in Conns, Enters(c), channels' # channels
      PROVE  IsFiniteSet(S) /\ Cardinality(S) <= MaxChannels
  <2>1. channels' = [channels EXCEPT ![name[c]] = Len(rooms) + 1] /\ ~ChannelsFull
    BY <1>3, ChannelForEffect
  <2>2. S = R \cup {name[c]}
    BY <1>0, <2>1
  <2>3. Cardinality(R) < MaxChannels
    BY <1>1, <2>1 DEF ChannelsFull
  <2>4. IsFiniteSet(S) /\ (Cardinality(S) = Cardinality(R) + 1 \/ Cardinality(S) = Cardinality(R))
    <3> HIDE DEF R
    <3>1. IsFiniteSet(R \cup {name[c]})
          /\ Cardinality(R \cup {name[c]}) = IF name[c] \in R THEN Cardinality(R) ELSE Cardinality(R) + 1
      BY <1>1, FS_AddElement
    <3> HIDE DEF S
    <3>2. QED
      BY <2>2, <3>1
  <2>5. Cardinality(S) \in Nat
    BY <2>4, FS_CardinalityType
  <2> HIDE DEF R, S
  <2>6. QED
    BY <1>1, <2>3, <2>4, <2>5
<1>4. ASSUME NEW n \in Channels, Sweep(n) PROVE IsFiniteSet(S) /\ Cardinality(S) <= MaxChannels
  <2>1. S \subseteq R
    BY <1>0, <1>4 DEF Sweep
  <2>2. IsFiniteSet(S) /\ Cardinality(S) <= Cardinality(R) /\ Cardinality(S) \in Nat
    BY <1>1, <2>1, FS_Subset, FS_CardinalityType
  <2> HIDE DEF R, S
  <2>3. QED
    BY <1>1, <2>2
<1>5. channels' = channels \/ (\E c \in Conns : Enters(c)) \/ \E n \in Channels : Sweep(n)
  <2>1. ASSUME NEW c \in Conns, AnnounceJoin(c) PROVE channels' = channels
    BY <2>1 DEF AnnounceJoin
  <2>2. ASSUME NEW p \in Procs, Remove(p) \/ AnnouncePart(p) PROVE channels' = channels
    BY <2>2 DEF Remove, AnnouncePart
  <2>3. ASSUME NEW d \in Mods, Announce(d) PROVE channels' = channels
    BY <2>3 DEF Announce
  <2>4. QED
    BY <2>1, <2>2, <2>3, RoomSteps
<1>6. QED
  BY <1>2, <1>3, <1>4, <1>5

\* A connection joins with a free place for the channel, and room for one more.
PlaceFree(c) ==
  pc[c] \in {"checkBan", "channelFor", "create", "subscribe", "insert"} =>
    table[c][name[c]] = 0 /\ Cardinality(Joined(c)) < MaxChannelsPerConn

\* The limits are looked at in the critical section that counts, or by the only goroutine that adds.
LEMMA RoomToJoinNext == HandsInv /\ RoomToJoin /\ [Next]_vars => RoomToJoin'
<1> SUFFICES ASSUME HandsInv, RoomToJoin, [Next]_vars PROVE RoomToJoin'
  OBVIOUS
<1>1. SUFFICES ASSUME NEW c \in Conns
               PROVE  /\ IsFiniteSet(Joined(c)') /\ Cardinality(Joined(c)') <= MaxChannelsPerConn
                      /\ PlaceFree(c)'
  BY ChannelsLast DEF RoomToJoin, PlaceFree
<1>2. /\ IsFiniteSet(Joined(c)) /\ Cardinality(Joined(c)) <= MaxChannelsPerConn /\ PlaceFree(c)
      /\ Cardinality(Joined(c)) \in Nat /\ MaxChannelsPerConn \in Nat
  BY FS_CardinalityType, MembershipAssumption DEF RoomToJoin, PlaceFree
<1>3. /\ pc \in [Procs -> ConnLabels \cup ModLabels] /\ name \in [Conns -> Channels] /\ c \in Procs /\ c \notin Mods
      /\ given.channels \subseteq Channels
  BY MembershipAssumption DEF HandsInv, PcInv, TypeInv, HandTypes, Procs, OutsideTypes, Setting
<1>4. ASSUME \A n \in Channels : table'[c][n] \in {table[c][n], 0}
      PROVE  /\ IsFiniteSet(Joined(c)') /\ Cardinality(Joined(c)') <= MaxChannelsPerConn
             /\ PlaceFree(c)'
  <2>1. Joined(c)' \subseteq Joined(c)
    BY <1>4 DEF Joined
  <2>2. IsFiniteSet(Joined(c)') /\ Cardinality(Joined(c)') <= Cardinality(Joined(c)) /\ Cardinality(Joined(c)') \in Nat
    BY <1>2, <2>1, FS_Subset, FS_CardinalityType
  <2>3. pc'[c] \in {"checkBan", "channelFor", "create", "subscribe", "insert"} =>
          table[c][name'[c]] = 0 /\ Cardinality(Joined(c)) < MaxChannelsPerConn /\ name'[c] \in Channels
    <3> USE DEF Goto
    <3>1. CASE UNCHANGED <<pc, handVars>> \/ \E a \in Procs \ {c} : Others(a)
      <4>1. pc'[c] = pc[c] /\ name'[c] = name[c]
        BY <1>3, <3>1 DEF Others, handVars
      <4>2. QED
        BY <1>2, <1>3, <4>1 DEF PlaceFree
    <3>2. CASE LeaveStep(c)
      BY <1>3, <3>2 DEF LeaveStep, Remove, CloseSub, Await, AnnouncePart
    <3>3. CASE ClientStep(c)
      <4>1. ASSUME NEW n \in given.channels, StartJoin(c, n)
            PROVE  table[c][name'[c]] = 0 /\ Cardinality(Joined(c)) < MaxChannelsPerConn /\ name'[c] \in Channels
        BY <1>3, <4>1 DEF StartJoin, MayJoin
      <4>2. CASE Connect(c) \/ SocketDies(c) \/ \E n \in given.channels : StartPart(c, n)
        <5>1. pc'[c] \notin {"checkBan", "channelFor", "create", "subscribe", "insert"} \/ (pc' = pc /\ name' = name)
          BY <1>3, <4>2 DEF Connect, SocketDies, StartPart, handVars
        <5>2. QED
          BY <1>2, <1>3, <5>1 DEF PlaceFree
      <4>3. QED
        BY <3>3, <4>1, <4>2 DEF ClientStep
    <3>4. CASE ConnStep(c)
      <4>1. CASE Autojoin(c)
        <5>1. \/ \E n \in auto[c] : MayJoin(c, n) /\ name' = [name EXCEPT ![c] = n]
              \/ UNCHANGED <<name, pc>>
          BY <4>1 DEF Autojoin
        <5>2. auto[c] \subseteq Channels
          BY DEF HandsInv, TypeInv, OutsideTypes
        <5>3. QED
          BY <1>2, <1>3, <5>1, <5>2 DEF MayJoin, PlaceFree
      <4>2. CASE CheckBan(c) \/ Enters(c) \/ Subscribe(c)
        <5>1. pc[c] \in {"checkBan", "channelFor", "create", "subscribe"} /\ name' = name
          BY <4>2 DEF CheckBan, Enters, ChannelFor, CreateChannel, EnterChannel, Subscribe, handVars
        <5>2. QED
          BY <1>2, <1>3, <5>1 DEF PlaceFree
      <4>3. CASE ~Autojoin(c) /\ ~CheckBan(c) /\ ~Enters(c) /\ ~Subscribe(c)
        <5>1. pc'[c] \notin {"checkBan", "channelFor", "create", "subscribe", "insert"}
          BY <1>3, <3>4, <4>3 DEF ConnStep, Enters, Register, WriteReady, StartReading, StopReading,
                Unregister, LeaveAll,
             LeaveNext, Insert, RecheckBan, Undo, Undone, AnnounceJoin, StartPump, JoinReturns
        <5>2. QED
          BY <5>1
      <4>4. QED
        BY <4>1, <4>2, <4>3
    <3>5. QED
      BY <3>1, <3>2, <3>3, <3>4, Movers
  <2>4. QED
    BY <1>2, <1>4, <2>2, <2>3 DEF PlaceFree
<1>5. ASSUME Insert(c), TableWritten(c, name[c], cur[c])
      PROVE  /\ IsFiniteSet(Joined(c)') /\ Cardinality(Joined(c)') <= MaxChannelsPerConn
             /\ PlaceFree(c)'
  <2>1. pc[c] = "insert" /\ pc'[c] = "recheckBan"
    BY <1>3, <1>5 DEF Insert, Goto
  <2>2. cur[c] # 0
    BY <2>1 DEF HandsInv, LocalsInv, ConnLocals, Making, Mems
  <2>3. Joined(c)' = Joined(c) \cup {name[c]}
    BY <1>3, <1>5, <2>2 DEF Joined, TableWritten
  <2>4. Cardinality(Joined(c)) < MaxChannelsPerConn
    BY <1>2, <2>1 DEF PlaceFree
  <2>5. IsFiniteSet(Joined(c)') /\ Cardinality(Joined(c)') <= Cardinality(Joined(c)) + 1
    BY <1>2, <2>3, FS_AddElement
  <2>6. Cardinality(Joined(c)') \in Nat
    BY <2>5, FS_CardinalityType
  <2>7. QED
    BY <1>2, <2>1, <2>4, <2>5, <2>6 DEF PlaceFree
<1>6. QED
  BY <1>4, <1>5, JoinedSteps

-----------------------------------------------------------------------------
(* Who has a membership *)

\* A membership's place in the tables.
LEMMA PlaceFrame ==
  ASSUME HandsInv, [Next]_vars, NEW m \in Mems
  PROVE  /\ m \in Mems' /\ mems[m].owner \in Conns /\ RoomOf(m).name \in Channels
         /\ InTable(m)' <=> table'[mems[m].owner][RoomOf(m).name] = m
<1>1. mems[m].owner \in Conns /\ mems[m].room \in Rooms /\ rooms[mems[m].room] \in RoomType
  BY MemFacts DEF HandsInv, TypeInv, RoomTypes, Rooms
<1>2. /\ mems'[m].owner = mems[m].owner /\ mems'[m].room = mems[m].room
      /\ rooms'[mems[m].room].name = rooms[mems[m].room].name
  BY <1>1, MemsLast, RoomsLast
<1>3. m \in Mems'
  BY MemsLast DEF Mems, HandsInv, TypeInv, MemTypes
<1>4. QED
  BY <1>1, <1>2, <1>3 DEF InTable, RoomOf, RoomType

\* A table's place is filled by its connection's insert only.
LEMMA InTableNew ==
  ASSUME HandsInv, NamesInv, [Next]_vars, NEW m \in Mems', InTable(m)'
  PROVE  /\ m \in Mems
         /\ InTable(m) \/ \E c \in Conns : Insert(c) /\ cur[c] = m
<1> DEFINE o == mems'[m].owner
           n == rooms'[mems'[m].room].name
<1>1. table'[o][n] = m /\ o \in Conns /\ n \in Channels /\ m # 0
  <2>1. o \in Conns /\ n \in Channels
    <3>1. mems' \in Seq(MemType) /\ rooms' \in Seq(RoomType) /\ mems'[m].room \in 1 .. Len(rooms')
      BY HandsNext DEF HandsInv, TypeInv, RoomTypes, MemTypes, Rooms
    <3>2. mems'[m] \in MemType /\ rooms'[mems'[m].room] \in RoomType
      BY <3>1 DEF Mems
    <3>3. QED
      BY <3>2 DEF MemType, RoomType
  <2>2. QED
    BY <2>1 DEF InTable, RoomOf, Mems
<1>2. table \in [Conns -> [Channels -> 0 .. Len(mems)]] /\ mems \in Seq(MemType) /\ Conns \subseteq Procs
  BY DEF HandsInv, TypeInv, MemTypes, Procs
<1> HIDE DEF o, n
<1>3. table[o][n] = m \/ \E c \in Conns : Insert(c) /\ cur[c] = m
  <2>1. ASSUME NEW c \in Conns, LeaveAll(c) PROVE table'[o][n] \in {table[o][n], 0}
    BY <1>1, <1>2, <2>1 DEF LeaveAll
  <2>2. ASSUME NEW c \in Conns, NEW k, TableWritten(c, k, 0) PROVE table'[o][n] \in {table[o][n], 0}
    BY <1>1, <2>2 DEF TableWritten
  <2>3. ASSUME NEW c \in Conns, Insert(c), TableWritten(c, name[c], cur[c])
        PROVE  table'[o][n] \in {table[o][n], cur[c]}
    BY <1>1, <2>3 DEF TableWritten
  <2>4. QED
    BY <1>1, <2>1, <2>2, <2>3, TableSteps
<1>4. m \in Mems
  <2>1. ASSUME NEW c \in Conns, Insert(c) PROVE cur[c] \in Mems
    BY <2>1 DEF Insert, HandsInv, LocalsInv, ConnLocals, Making
  <2>2. QED
    BY <1>1, <1>2, <1>3, <2>1 DEF Mems
<1>5. o = mems[m].owner /\ n = rooms[mems[m].room].name
  BY <1>4, MemFacts, MemsLast, RoomsLast DEF o, n
<1>6. QED
  BY <1>3, <1>4, <1>5 DEF InTable, RoomOf

\* Whoever takes a membership out of a table has it then.
LEMMA InTableGone ==
  ASSUME HandsInv, NamesInv, RoomToJoin, [Next]_vars, NEW m \in Mems, InTable(m), ~InTable(m)'
  PROVE  \E p \in Procs : Holds(p, m)' /\ (cur'[p] = m => pc'[p] \in {"leave", "undoRemove"})
<1> DEFINE o == mems[m].owner
           n == RoomOf(m).name
<1> USE DEF Goto
<1>1. table[o][n] = m /\ table'[o][n] # m /\ o \in Conns /\ n \in Channels /\ m # 0
  BY PlaceFrame DEF InTable, Mems
<1>2. /\ table \in [Conns -> [Channels -> 0 .. Len(mems)]] /\ pc \in [Procs -> ConnLabels \cup ModLabels]
      /\ cur \in [Procs -> 0 .. Len(mems)] /\ todo \in [Procs -> SUBSET Nat]
      /\ Conns \subseteq Procs /\ Mods \subseteq Procs
  BY DEF HandsInv, PcInv, TypeInv, MemTypes, HandTypes, Procs
<1> HIDE DEF o, n
<1>3. ASSUME NEW c \in Conns, LeaveAll(c)
      PROVE  \E p \in Procs : Holds(p, m)' /\ (cur'[p] = m => pc'[p] \in {"leave", "undoRemove"})
  <2>1. c = o
    BY <1>1, <1>2, <1>3 DEF LeaveAll
  <2>2. m \in todo'[c]
    BY <1>1, <1>2, <1>3, <2>1 DEF LeaveAll, Joined
  <2>3. cur'[c] = 0
    BY <1>2, <1>3 DEF LeaveAll, HandsInv, LocalsInv, HandLocals, Making, Joining, Leaving
  <2>4. QED
    BY <1>1, <1>2, <2>2, <2>3 DEF Holds
<1>4. ASSUME NEW p \in Procs, cur'[p] = m, pc'[p] \in {"leave", "undoRemove"}
      PROVE  \E q \in Procs : Holds(q, m)' /\ (cur'[q] = m => pc'[q] \in {"leave", "undoRemove"})
  BY <1>4 DEF Holds, Leaving
<1>5. ASSUME NEW c \in Conns, Insert(c), TableWritten(c, name[c], cur[c]) PROVE FALSE
  <2>1. c = o /\ n = name[c]
    BY <1>1, <1>5 DEF TableWritten
  <2>2. table[c][name[c]] = 0
    BY <1>5 DEF Insert, RoomToJoin
  <2>3. QED
    BY <1>1, <2>1, <2>2
<1>6. ASSUME NEW c \in Conns, Undo(c), TableWritten(c, name[c], 0), table[c][name[c]] = cur[c]
      PROVE  cur'[c] = m /\ pc'[c] = "undoRemove"
  <2>1. c = o /\ name[c] = n
    BY <1>1, <1>6 DEF TableWritten
  <2>2. QED
    BY <1>1, <1>2, <1>6, <2>1 DEF Undo, handVars
<1>7. ASSUME NEW c \in Conns, NEW k \in Channels, StartPart(c, k), TableWritten(c, k, 0)
      PROVE  cur'[c] = m /\ pc'[c] = "leave"
  <2>1. c = o /\ k = n
    BY <1>1, <1>7 DEF TableWritten
  <2>2. QED
    BY <1>1, <1>2, <1>7, <2>1 DEF StartPart
<1>8. ASSUME NEW d \in Mods, PartTarget(d), TableWritten(order[d].target, order[d].scope, 0)
      PROVE  cur'[d] = m /\ pc'[d] = "leave"
  <2>1. order[d].target = o /\ order[d].scope = n
    BY <1>1, <1>8 DEF TableWritten
  <2>2. QED
    BY <1>1, <1>2, <1>8, <2>1 DEF PartTarget
<1>9. QED
  BY <1>1, <1>2, <1>3, <1>4, <1>5, <1>6, <1>7, <1>8, TableSteps

\* A goroutine comes to hold a membership by taking it out of the table.
LEMMA HoldsNew ==
  ASSUME HandsInv, NamesInv, ReadInv, [Next]_vars, NEW p \in Procs, NEW m \in Mems', Holds(p, m)'
  PROVE  /\ m \in Mems
         /\ Holds(p, m) \/ (InTable(m) /\ ~InTable(m)')
<1> USE DEF Goto
<1>0. /\ pc \in [Procs -> ConnLabels \cup ModLabels] /\ cur \in [Procs -> 0 .. Len(mems)]
      /\ todo \in [Procs -> SUBSET Nat] /\ \A c \in Conns : todo[c] \subseteq Mems
      /\ table \in [Conns -> [Channels -> 0 .. Len(mems)]]
      /\ \A c \in Conns : c \in Procs /\ c \notin Mods
      /\ p \in Conns \/ (p \in Mods /\ p \notin Conns)
      /\ m # 0
  BY MembershipAssumption DEF HandsInv, PcInv, TypeInv, MemTypes, HandTypes, Procs, Mems
<1>1. cur'[p] = m \/ (p \in Conns /\ m \in todo'[p])
  BY DEF Holds
<1>2. pc[p] \in Leaving \cup {"undoRemove", "undoClose"} => cur[p] \in Mems
  BY <1>0 DEF HandsInv, LocalsInv, HandLocals, ConnLocals, Making, Joining, ModLabels, PcInv, Leaving
<1>3. ASSUME pc'[p] = pc[p], cur'[p] = cur[p], todo'[p] = todo[p] PROVE Holds(p, m) /\ m \in Mems
  BY <1>0, <1>2, <1>3 DEF Holds
<1>4. ASSUME NEW o \in Conns, NEW n \in Channels, table[o][n] = m, table'[o][n] # m
      PROVE  m \in Mems /\ InTable(m) /\ ~InTable(m)'
  <2>1. m \in Mems /\ mems[m].owner = o /\ RoomOf(m).name = n
    BY <1>0, <1>4 DEF NamesInv, TableNames, Mems, HandsInv, TypeInv, MemTypes
  <2>2. QED
    BY <1>4, <2>1, PlaceFrame DEF InTable
<1>5. CASE UNCHANGED <<pc, handVars>> \/ \E a \in Procs \ {p} : Others(a)
  <2>1. pc'[p] = pc[p] /\ cur'[p] = cur[p] /\ todo'[p] = todo[p]
    BY <1>5 DEF Others, handVars
  <2>2. QED
    BY <1>3, <2>1
<1>6. ASSUME p \in Conns, NEW n \in Channels, StartPart(p, n)
      PROVE  m \in Mems /\ (Holds(p, m) \/ (InTable(m) /\ ~InTable(m)'))
  <2>1. cur'[p] = table[p][n] /\ todo' = todo /\ table'[p][n] = 0
    BY <1>0, <1>6 DEF StartPart
  <2>2. m \in todo[p] \/ m = table[p][n]
    BY <1>1, <2>1
  <2>3. QED
    BY <1>0, <1>4, <1>6, <2>1, <2>2 DEF Holds
<1>7. CASE p \in Conns /\ ClientStep(p)
  <2>1. CASE \E n \in given.channels : StartPart(p, n)
    <3>1. given.channels \subseteq Channels
      BY GivenSame DEF HandsInv, TypeInv, Setting
    <3>2. QED
      BY <1>6, <1>7, <2>1, <3>1
  <2>2. CASE Connect(p) \/ SocketDies(p) \/ \E n \in given.channels : StartJoin(p, n)
    <3>1. pc' = pc \/ pc'[p] \notin Leaving \cup {"undoRemove", "undoClose"}
      BY <1>0, <2>2 DEF Connect, SocketDies, StartJoin, Leaving
    <3>2. cur' = cur /\ todo' = todo
      BY <2>2 DEF Connect, SocketDies, StartJoin, handVars
    <3>3. QED
      BY <1>0, <1>2, <3>1, <3>2 DEF Holds
  <2>3. QED
    BY <1>7, <2>1, <2>2 DEF ClientStep
<1>8. CASE p \in Conns /\ ConnStep(p)
  <2>1. CASE LeaveAll(p)
    <3>1. pc'[p] = "leaving" /\ todo'[p] = {table[p][n] : n \in Joined(p)} /\ \A n \in Channels : table'[p][n] = 0
      BY <1>0, <1>8, <2>1 DEF LeaveAll
    <3>2. PICK n \in Channels : m = table[p][n]
      BY <3>1 DEF Holds, Leaving, Joined
    <3>3. QED
      BY <1>0, <1>4, <1>8, <3>1, <3>2
  <2>2. CASE LeaveNext(p)
    <3>1. m \in todo[p]
      BY <1>0, <2>2 DEF LeaveNext, Holds, Leaving
    <3>2. QED
      BY <1>0, <1>8, <3>1 DEF Holds
  <2>3. CASE Undo(p)
    <3>1. /\ pc[p] = "undo" /\ cur' = cur /\ todo' = todo
          /\ \/ table[p][name[p]] = cur[p] /\ table'[p][name[p]] = 0
             \/ pc'[p] = "undone"
      BY <1>0, <1>8, <2>3 DEF Undo, handVars, HandsInv, TypeInv, HandTypes
    <3>2. m \in todo[p] \/ (cur[p] = m /\ table[p][name[p]] = m /\ table'[p][name[p]] = 0)
      BY <1>8, <3>1 DEF Holds, Leaving
    <3>3. name[p] \in Channels
      BY <1>8 DEF HandsInv, TypeInv, HandTypes
    <3>4. QED
      BY <1>0, <1>4, <1>8, <3>2, <3>3 DEF Holds
  <2>4. CASE ~LeaveAll(p) /\ ~LeaveNext(p) /\ ~Undo(p)
    <3>1. todo' = todo /\ (pc' = pc \/ pc'[p] \notin Leaving \cup {"undoRemove", "undoClose"})
          /\ (pc' = pc => cur' = cur)
      BY <1>0, <1>8, <2>4 DEF ConnStep, Register, WriteReady, Autojoin, StartReading, StopReading, Unregister,
         CheckBan, Enters, ChannelFor, CreateChannel, EnterChannel, Subscribe, Insert, RecheckBan, Undone,
               AnnounceJoin, StartPump, JoinReturns, Leaving,
         handVars
    <3>2. QED
      BY <1>0, <1>2, <3>1 DEF Holds
  <2>5. QED
    BY <2>1, <2>2, <2>3, <2>4
<1>9. CASE LeaveStep(p)
  <2>1. todo' = todo /\ (pc'[p] \in Leaving \cup {"undoRemove", "undoClose"} =>
                           cur' = cur /\ pc[p] \in Leaving \cup {"undoRemove", "undoClose"})
    BY <1>0, <1>9 DEF LeaveStep, Remove, CloseSub, Await, AnnouncePart, Leaving, handVars
  <2>2. QED
    BY <1>0, <1>2, <2>1 DEF Holds
<1>10. CASE p \in Mods /\ ModStep(p)
  <2>1. CASE PartTarget(p)
    <3>1. pc[p] = "part" /\ order[p].target \in Conns /\ order[p].scope \in Channels
      BY <1>10, <2>1 DEF PartTarget, HandsInv, LocalsInv, ModLocals
    <3>2. cur'[p] = m /\ pc'[p] \in Leaving
      BY <1>0, <1>10, <2>1 DEF PartTarget, Holds, Leaving
    <3>3. table[order[p].target][order[p].scope] = m /\ table'[order[p].target][order[p].scope] = 0
      BY <1>0, <1>10, <2>1, <3>1, <3>2 DEF PartTarget, Leaving
    <3>4. QED
      BY <1>0, <1>4, <3>1, <3>3
  <2>2. CASE ~PartTarget(p)
    <3>1. pc' = pc \/ pc'[p] \notin Leaving \cup {"undoRemove", "undoClose"}
      BY <1>0, <1>10, <2>2 DEF ModStep, Store, Lookup, Announce, EnforceBan, AnnounceFails, Leaving
    <3>2. cur' = cur
      BY <1>10, <2>2 DEF ModStep, Store, Lookup, Announce, EnforceBan, AnnounceFails, handVars
    <3>3. QED
      BY <1>0, <1>2, <1>10, <3>1, <3>2 DEF Holds
  <2>3. QED
    BY <2>1, <2>2
<1>11. ASSUME p \in Mods, NEW v \in given.verbs, NEW s \in given.scopes, NEW k \in Nicks, Resolve(p, v, s, k)
       PROVE  m \in Mems /\ (Holds(p, m) \/ (InTable(m) /\ ~InTable(m)'))
  BY <1>0, <1>11 DEF Resolve, Holds, Leaving
<1>12. QED
  BY <1>0, <1>5, <1>7, <1>8, <1>9, <1>10, <1>11, Movers

\* It holds it until it is done with it.
LEMMA HoldsGone ==
  ASSUME HandsInv, ReadInv, [Next]_vars, NEW p \in Procs, NEW m \in Mems, Holds(p, m), ~Holds(p, m)'
  PROVE  cur[p] = m /\ (AnnouncePart(p) \/ (CloseSub(p) /\ pc[p] = "undoClose"))
<1> USE DEF Goto, Leaving
<1>0. /\ pc \in [Procs -> ConnLabels \cup ModLabels] /\ cur \in [Procs -> 0 .. Len(mems)]
      /\ todo \in [Procs -> SUBSET Nat]
      /\ \A c \in Conns : c \in Procs /\ c \notin Mods
      /\ p \in Conns \/ (p \in Mods /\ p \notin Conns)
  BY MembershipAssumption DEF HandsInv, PcInv, TypeInv, MemTypes, HandTypes, Procs
<1>1. CASE UNCHANGED <<pc, handVars>> \/ \E a \in Procs \ {p} : Others(a)
  BY <1>1 DEF Others, handVars, Holds
<1>2. CASE p \in Conns /\ ClientStep(p)
  BY <1>0, <1>2 DEF ClientStep, Connect, SocketDies, StartJoin, StartPart, handVars, Holds
<1>3. CASE p \in Conns /\ ConnStep(p)
  <2>1. CASE LeaveAll(p)
    <3>1. pc[p] = "leaveAll" /\ todo[p] = {}
      BY <1>3, <2>1 DEF LeaveAll, ReadInv, ReadLocals
    <3>2. QED
      BY <3>1 DEF Holds
  <2>2. CASE LeaveNext(p)
    BY <1>0, <2>2 DEF LeaveNext, Holds
  <2>3. CASE ~LeaveAll(p) /\ ~LeaveNext(p)
    <3>1. todo' = todo /\ pc[p] \notin Leaving \cup {"undoRemove", "undoClose"}
      BY <1>0, <1>3, <2>3 DEF ConnStep, Register, WriteReady, Autojoin, StartReading, StopReading, Unregister,
         CheckBan, Enters, ChannelFor, CreateChannel, EnterChannel, Subscribe, Insert, RecheckBan, Undo,
               Undone, AnnounceJoin, StartPump, JoinReturns,
         handVars
    <3>2. QED
      BY <3>1 DEF Holds
  <2>4. QED
    BY <2>1, <2>2, <2>3
<1>4. CASE LeaveStep(p)
  BY <1>0, <1>4 DEF LeaveStep, Remove, CloseSub, Await, AnnouncePart, handVars, Holds
<1>5. CASE p \in Mods /\ ModStep(p)
  <2>1. pc[p] \notin Leaving \cup {"undoRemove", "undoClose"}
    BY <1>5 DEF ModStep, Store, PartTarget, Lookup, Announce, EnforceBan, AnnounceFails
  <2>2. QED
    BY <1>0, <1>5, <2>1 DEF Holds
<1>6. ASSUME p \in Mods, NEW v \in given.verbs, NEW s \in given.scopes, NEW k \in Nicks, Resolve(p, v, s, k)
      PROVE  FALSE
  BY <1>0, <1>6 DEF Resolve, Holds
<1>7. QED
  BY <1>0, <1>1, <1>2, <1>3, <1>4, <1>5, <1>6, Movers

\* Two goroutines never move in one step.
LEMMA OneMoves ==
  ASSUME HandsInv, [Next]_vars, NEW p \in Procs, NEW q \in Procs, p # q
  PROVE  (pc'[p] = pc[p] /\ cur'[p] = cur[p] /\ todo'[p] = todo[p])
         \/ (pc'[q] = pc[q] /\ cur'[q] = cur[q] /\ todo'[q] = todo[q])
BY Movers, OthersLemma DEF Others, Procs, handVars

\* Who is making a membership has not moved since.
LEMMA InsertFrame ==
  ASSUME HandsInv, [Next]_vars, NEW c \in Conns, pc'[c] = "insert"
  PROVE  \/ pc[c] = "insert" /\ cur'[c] = cur[c] /\ room'[c] = room[c] /\ name'[c] = name[c]
         \/ Subscribe(c) /\ cur'[c] = Len(mems) + 1 /\ cur'[c] \notin Mems /\ room'[c] = room[c] /\ name'[c] = name[c]
<1> USE DEF Goto
<1>0. /\ pc \in [Procs -> ConnLabels \cup ModLabels] /\ cur \in [Procs -> 0 .. Len(mems)]
      /\ c \in Procs /\ c \notin Mods /\ Len(mems) \in Nat
  BY MembershipAssumption DEF HandsInv, PcInv, TypeInv, MemTypes, HandTypes, Procs
<1>1. CASE UNCHANGED <<pc, handVars>> \/ \E a \in Procs \ {c} : Others(a)
  BY <1>0, <1>1 DEF Others, handVars
<1>2. CASE ClientStep(c)
  BY <1>0, <1>2 DEF ClientStep, Connect, SocketDies, StartJoin, StartPart, handVars
<1>3. CASE Subscribe(c)
  BY <1>0, <1>3 DEF Subscribe, Mems
<1>4. CASE ConnStep(c) /\ ~Subscribe(c)
  BY <1>0, <1>4 DEF ConnStep, Register, WriteReady, Autojoin, StartReading, StopReading, Unregister, LeaveAll,
     LeaveNext, CheckBan, Enters, ChannelFor, CreateChannel, EnterChannel, Insert, RecheckBan, Undo,
           Undone, AnnounceJoin, StartPump, JoinReturns, handVars
<1>5. CASE LeaveStep(c)
  BY <1>0, <1>5 DEF LeaveStep, Remove, CloseSub, Await, AnnouncePart
<1>6. QED
  BY <1>1, <1>2, <1>3, <1>4, <1>5, Movers

\* How a join comes to be undone.
LEMMA UndoneFrame ==
  ASSUME HandsInv, [Next]_vars, NEW c \in Conns, pc'[c] = "undone"
  PROVE  /\ cur'[c] = cur[c]
         /\ \/ pc[c] = "undone"
            \/ pc[c] = "undoClose" /\ CloseSub(c)
            \/ pc[c] = "undo" /\ table[c][name[c]] # cur[c] /\ table' = table /\ mems' = mems
<1> USE DEF Goto
<1>0. /\ pc \in [Procs -> ConnLabels \cup ModLabels] /\ cur \in [Procs -> 0 .. Len(mems)]
      /\ c \in Procs /\ c \notin Mods
  BY MembershipAssumption DEF HandsInv, PcInv, TypeInv, MemTypes, HandTypes, Procs
<1>1. CASE UNCHANGED <<pc, handVars>> \/ \E a \in Procs \ {c} : Others(a)
  BY <1>0, <1>1 DEF Others, handVars
<1>2. CASE ClientStep(c)
  BY <1>0, <1>2 DEF ClientStep, Connect, SocketDies, StartJoin, StartPart, handVars
<1>3. CASE Undo(c)
  BY <1>0, <1>3 DEF Undo, handVars
<1>4. CASE ConnStep(c) /\ ~Undo(c)
  BY <1>0, <1>4 DEF ConnStep, Register, WriteReady, Autojoin, StartReading, StopReading, Unregister, LeaveAll,
     LeaveNext, CheckBan, Enters, ChannelFor, CreateChannel, EnterChannel, Subscribe, Insert, RecheckBan,
           Undone, AnnounceJoin, StartPump, JoinReturns, handVars
<1>5. CASE LeaveStep(c)
  BY <1>0, <1>5 DEF LeaveStep, Remove, CloseSub, Await, AnnouncePart, handVars
<1>6. QED
  BY <1>1, <1>2, <1>3, <1>4, <1>5, Movers

\* At first nobody has a membership.
LEMMA AloneInit == Init => AloneInv
BY DEF Init, AloneInv, Mems, Procs

\* Taking a membership out of the table leaves it to one goroutine.
LEMMA AloneNext == HandsInv /\ NamesInv /\ ReadInv /\ AloneInv /\ [Next]_vars => AloneInv'
<1> SUFFICES ASSUME HandsInv, NamesInv, ReadInv, AloneInv, [Next]_vars PROVE AloneInv'
  OBVIOUS
<1>0. Conns \subseteq Procs /\ \A c \in Conns : pc[c] \in Making => cur[c] \in Mems /\ mems[cur[c]].owner = c
  BY DEF Procs, HandsInv, LocalsInv, ConnLocals
<1>1. ASSUME NEW m \in Mems', NEW p \in Procs, Holds(p, m)' PROVE ~InTable(m)'
  <2>1. m \in Mems /\ (Holds(p, m) \/ ~InTable(m)')
    BY <1>1, HoldsNew
  <2>2. ASSUME Holds(p, m), InTable(m)' PROVE FALSE
    <3>1. ~InTable(m)
      BY <2>1, <2>2 DEF AloneInv
    <3>2. PICK c \in Conns : Insert(c) /\ cur[c] = m
      BY <2>2, <3>1, InTableNew
    <3>3. QED
      BY <2>2, <3>2 DEF Insert, AloneInv
  <2>3. QED
    BY <2>1, <2>2
<1>2. ASSUME NEW m \in Mems', NEW p \in Procs, NEW q \in Procs, Holds(p, m)', Holds(q, m)' PROVE p = q
  <2>1. /\ m \in Mems
        /\ Holds(p, m) \/ (InTable(m) /\ ~InTable(m)')
        /\ Holds(q, m) \/ (InTable(m) /\ ~InTable(m)')
    BY <1>2, HoldsNew
  <2>2. CASE InTable(m)
    <3>1. ~Holds(p, m) /\ ~Holds(q, m)
      BY <2>1, <2>2 DEF AloneInv
    <3>2. ASSUME p # q PROVE FALSE
      BY <1>2, <3>1, <3>2, OneMoves DEF Holds
    <3>3. QED
      BY <3>2
  <2>3. CASE ~InTable(m)
    BY <2>1, <2>3 DEF AloneInv
  <2>4. QED
    BY <2>2, <2>3
<1>3. ASSUME NEW c \in Conns, pc'[c] = "insert" PROVE ~InTable(cur[c])' /\ \A p \in Procs : ~Holds(p, cur[c])'
  <2>1. CASE pc[c] = "insert" /\ cur'[c] = cur[c]
    <3>1. cur[c] \in Mems /\ mems[cur[c]].owner = c /\ ~InTable(cur[c]) /\ \A p \in Procs : ~Holds(p, cur[c])
      BY <1>0, <2>1 DEF AloneInv, Making
    <3>2. ASSUME NEW a \in Conns, Insert(a), cur[a] = cur[c] PROVE FALSE
      <4>1. a = c
        BY <1>0, <3>1, <3>2 DEF Insert, Making
      <4>2. pc'[c] = "recheckBan"
        BY <1>0, <3>2, <4>1 DEF Insert, Goto, HandsInv, PcInv
      <4>3. QED
        BY <1>3, <4>2
    <3>3. cur[c] \in Mems'
      BY <3>1, PlaceFrame
    <3>4. ~InTable(cur[c])'
      BY <2>1, <3>1, <3>2, <3>3, PlaceFrame, InTableNew DEF InTable, RoomOf
    <3>5. ASSUME NEW p \in Procs, Holds(p, cur[c])' PROVE FALSE
      BY <2>1, <3>1, <3>3, <3>5, HoldsNew DEF Holds
    <3>6. QED
      BY <3>4, <3>5
  <2>2. CASE cur'[c] \notin Mems
    <3>1. cur'[c] \in Mems'
      BY <1>3, HandsNext DEF HandsInv, LocalsInv, ConnLocals, Making
    <3>2. QED
      BY <2>2, <3>1, HoldsNew, InTableNew DEF Holds, InTable, RoomOf
  <2>3. QED
    BY <1>3, <2>1, <2>2, InsertFrame
<1>4. ASSUME NEW c \in Conns, pc'[c] = "undone" PROVE ~InTable(cur[c])'
  <2>1. cur'[c] = cur[c] /\ pc[c] \in {"undone", "undoClose", "undo"}
    BY <1>4, UndoneFrame
  <2>2. cur[c] \in Mems /\ mems[cur[c]].owner = c /\ mems[cur[c]].room = room[c] /\ rooms[room[c]].name = name[c]
    BY <2>1 DEF HandsInv, LocalsInv, ConnLocals, Making, Joining, NamesInv, JoinNames
  <2>3. ASSUME NEW a \in Conns, Insert(a), cur[a] = cur[c] PROVE FALSE
    BY <1>0, <2>1, <2>2, <2>3 DEF Insert, Making
  <2>4. CASE ~InTable(cur[c])
    <3>1. cur[c] \in Mems'
      BY <2>2, PlaceFrame
    <3>2. QED
      BY <2>1, <2>2, <2>3, <2>4, <3>1, InTableNew DEF InTable, RoomOf
  <2>5. CASE InTable(cur[c])
    <3>1. pc[c] = "undo" /\ table[c][name[c]] # cur[c]
      BY <1>0, <1>4, <2>2, <2>5, UndoneFrame DEF AloneInv, Holds
    <3>2. QED
      BY <2>2, <2>5, <3>1 DEF InTable, RoomOf
  <2>6. QED
    BY <2>4, <2>5
<1>5. QED
  BY <1>1, <1>2, <1>3, <1>4 DEF AloneInv

\* A closed subscription stays closed, and a stopped pump stopped.
LEMMA DeadStays ==
  ASSUME HandsInv, [Next]_vars, NEW m \in Mems
  PROVE  /\ mems'[m].live => mems[m].live
         /\ mems[m].pump = "done" => mems'[m].pump = "done"
<1> DEFINE Stays == /\ mems'[m].live => mems[m].live
                    /\ mems[m].pump = "done" => mems'[m].pump = "done"
<1>0. mems \in Seq(MemType)
  BY DEF HandsInv, TypeInv, MemTypes
<1>1. ASSUME mems' = mems PROVE Stays
  BY <1>1
<1>2. ASSUME NEW c \in Conns, Subscribe(c) PROVE Stays
  BY <1>2, SubscribeEffect
<1>3. ASSUME NEW c \in Conns, LeaveAll(c) \/ Insert(c) \/ Undo(c) PROVE mems' = mems
  BY <1>3 DEF LeaveAll, Insert, Undo
<1>4. ASSUME NEW c \in Conns, Undone(c) \/ StartPump(c) PROVE Stays
  <2>1. cur[c] \in Mems /\ mems[cur[c]].pump = "none"
    BY <1>4 DEF Undone, StartPump, HandsInv, LocalsInv, ConnLocals, Making, Joining
  <2>2. PICK u \in {"done", "running"} : mems' = [mems EXCEPT ![cur[c]].pump = u]
    BY <1>4 DEF Undone, StartPump
  <2>3. MemKept(cur[c]) /\ mems'[cur[c]].live = mems[cur[c]].live
    BY <1>0, <2>1, <2>2, PumpEffect
  <2>4. QED
    BY <2>1, <2>3 DEF MemKept
<1>5. ASSUME NEW c \in Conns, NEW n \in given.channels, StartPart(c, n) PROVE mems' = mems
  BY <1>5 DEF StartPart
<1>6. ASSUME NEW d \in Mods, PartTarget(d) PROVE mems' = mems
  BY <1>6 DEF PartTarget
<1>7. ASSUME NEW p \in Procs, CloseSub(p) PROVE Stays
  <2>1. cur[p] \in Mems
    BY <1>7 DEF CloseSub, HandsInv, PcInv, LocalsInv, ConnLocals, HandLocals, Making, Joining, Leaving,
          Procs, ModLabels
  <2>2. MemKept(cur[p]) /\ mems'[cur[p]].pump = mems[cur[p]].pump /\ ~mems'[cur[p]].live
    BY <1>0, <1>7, <2>1, CloseEffect DEF CloseSub
  <2>3. QED
    BY <2>2 DEF MemKept
<1>8. ASSUME NEW q \in Mems, PumpStep(q) PROVE Stays
  <2>1. MemKept(q) /\ mems[q].pump \in {"running", "lagged"} /\ (mems'[q].live => mems[q].live)
    BY <1>0, <1>8, PumpStepEffect
  <2>2. QED
    BY <2>1 DEF MemKept
<1>9. QED
  BY <1>1, <1>2, <1>3, <1>4, <1>5, <1>6, <1>7, <1>8, MemSteps

\* At first there is no membership to keep.
LEMMA KeptInit == Init => KeptInv
BY DEF Init, KeptInv, Mems, Procs

\* A membership just made is inserted; a join undone stops its pump.
LEMMA KeptByOwner ==
  ASSUME HandsInv, NamesInv, [Next]_vars, NEW m \in Mems
  PROVE  LET o == mems[m].owner
         IN /\ cur[o] = m /\ pc[o] = "insert" => InTable(m)' \/ (cur'[o] = m /\ pc'[o] = "insert")
            /\ cur[o] = m /\ pc[o] = "undone" => (cur'[o] = m /\ pc'[o] = "undone") \/ mems'[m].pump = "done"
<1> DEFINE o == mems[m].owner
<1> USE DEF Goto
<1>0. /\ pc \in [Procs -> ConnLabels \cup ModLabels] /\ cur \in [Procs -> 0 .. Len(mems)]
      /\ o \in Conns /\ o \in Procs /\ o \notin Mods /\ mems \in Seq(MemType) /\ name \in [Conns -> Channels]
      /\ table \in [Conns -> [Channels -> 0 .. Len(mems)]]
  BY MemFacts, MembershipAssumption DEF HandsInv, PcInv, TypeInv, MemTypes, HandTypes, Procs
<1> HIDE DEF o
<1>1. CASE UNCHANGED <<pc, handVars>> \/ \E a \in Procs \ {o} : Others(a)
  <2>1. pc'[o] = pc[o] /\ cur'[o] = cur[o]
    BY <1>0, <1>1 DEF Others, handVars
  <2>2. QED
    BY <2>1 DEF o
<1>2. CASE ClientStep(o)
  <2>1. pc[o] \in {"insert", "undone"} => pc' = pc /\ cur' = cur
    BY <1>2 DEF ClientStep, Connect, SocketDies, StartJoin, StartPart, handVars
  <2>2. QED
    BY <2>1 DEF o
<1>3. CASE LeaveStep(o)
  <2>1. pc[o] \notin {"insert", "undone"}
    BY <1>3 DEF LeaveStep, Remove, CloseSub, Await, AnnouncePart
  <2>2. QED
    BY <2>1 DEF o
<1>4. CASE ConnStep(o)
  <2>1. ASSUME cur[o] = m, pc[o] = "insert" PROVE InTable(m)'
    <3>1. Insert(o)
      BY <1>4, <2>1 DEF ConnStep, Register, WriteReady, Autojoin, StartReading, StopReading, Unregister,
            LeaveAll,
         LeaveNext, CheckBan, Enters, ChannelFor, CreateChannel, EnterChannel, Subscribe, RecheckBan, Undo,
               Undone, AnnounceJoin, StartPump
    <3>2. table'[o][name[o]] = m
      BY <1>0, <2>1, <3>1 DEF Insert
    <3>3. RoomOf(m).name = name[o]
      BY <1>0, <2>1 DEF RoomOf, HandsInv, LocalsInv, ConnLocals, Making, NamesInv, JoinNames
    <3>4. QED
      BY <3>2, <3>3, PlaceFrame DEF o
  <2>2. ASSUME cur[o] = m, pc[o] = "undone" PROVE mems'[m].pump = "done"
    <3>1. Undone(o)
      BY <1>4, <2>2 DEF ConnStep, Register, WriteReady, Autojoin, StartReading, StopReading, Unregister,
            LeaveAll,
         LeaveNext, CheckBan, Enters, ChannelFor, CreateChannel, EnterChannel, Subscribe, Insert,
               RecheckBan, Undo, AnnounceJoin, StartPump
    <3>2. mems' = [mems EXCEPT ![m].pump = "done"]
      BY <2>2, <3>1 DEF Undone
    <3>3. QED
      BY <1>0, <3>2, PumpEffect
  <2>3. QED
    BY <2>1, <2>2 DEF o
<1>5. QED
  BY <1>0, <1>1, <1>2, <1>3, <1>4, Movers DEF o

\* A membership is not let go of before its subscription is closed and its pump has stopped.
LEMMA KeptNext == HandsInv /\ NamesInv /\ ReadInv /\ RoomToJoin /\ KeptInv /\ [Next]_vars => KeptInv'
<1> SUFFICES ASSUME HandsInv, NamesInv, ReadInv, RoomToJoin, KeptInv, [Next]_vars PROVE KeptInv'
  OBVIOUS
<1>0. /\ pc \in [Procs -> ConnLabels \cup ModLabels] /\ cur \in [Procs -> 0 .. Len(mems)] /\ mems \in Seq(MemType)
      /\ \A c \in Conns : c \in Procs /\ c \notin Mods
  BY MembershipAssumption DEF HandsInv, PcInv, TypeInv, MemTypes, Procs
<1>1. ASSUME NEW m \in Mems PROVE Kept(m)'
  <2> DEFINE o == mems[m].owner
  <2>1. mems'[m].owner = o /\ o \in Conns /\ (mems'[m].live => mems[m].live)
        /\ (mems[m].pump = "done" => mems'[m].pump = "done")
    BY MemFacts, MemsLast, DeadStays
  <2>2. CASE InTable(m)
    BY <2>2, InTableGone DEF Kept
  <2>3. ASSUME NEW p \in Procs, Holds(p, m) PROVE Kept(m)'
    <3>1. CASE Holds(p, m)'
      BY <3>1 DEF Kept
    <3>2. CASE AnnouncePart(p) /\ cur[p] = m
      <4>1. ~mems[m].live /\ mems[m].pump = "done"
        BY <3>2 DEF AnnouncePart, KeptInv
      <4>2. QED
        BY <2>1, <4>1 DEF Kept
    <3>3. CASE CloseSub(p) /\ pc[p] = "undoClose" /\ cur[p] = m
      <4>1. p \in Conns /\ o = p
        BY <3>3 DEF HandsInv, PcInv, LocalsInv, ConnLocals, Making, Joining, Procs, ModLabels, Leaving
      <4>2. pc'[p] = "undone" /\ cur' = cur /\ mems' = [mems EXCEPT ![m].live = FALSE]
        BY <1>0, <3>3 DEF CloseSub, Goto, handVars
      <4>3. ~mems'[m].live
        BY <1>0, <4>2, CloseEffect
      <4>4. QED
        BY <2>1, <3>3, <4>1, <4>2, <4>3 DEF Kept
    <3>4. QED
      BY <2>3, <3>1, <3>2, <3>3, HoldsGone
  <2>4. CASE cur[o] = m /\ pc[o] = "insert"
    BY <2>1, <2>4, KeptByOwner DEF Kept
  <2>5. CASE ~mems[m].live /\ (mems[m].pump = "done" \/ (cur[o] = m /\ pc[o] = "undone"))
    BY <2>1, <2>5, KeptByOwner DEF Kept
  <2>6. QED
    BY <2>2, <2>3, <2>4, <2>5 DEF KeptInv, Kept
<1>2. ASSUME NEW m \in Mems', m \notin Mems PROVE Kept(m)'
  <2>1. PICK c \in Conns : Subscribe(c)
    BY <1>2, MemsLast DEF Mems
  <2>2. m = Len(mems) + 1 /\ mems'[m].owner = c
    BY <1>0, <1>2, <2>1, SubscribeEffect DEF Mems
  <2>3. cur'[c] = m /\ pc'[c] = "insert"
    BY <1>0, <2>1, <2>2 DEF Subscribe, Goto
  <2>4. QED
    BY <2>2, <2>3 DEF Kept
<1>3. ASSUME NEW p \in Procs, pc'[p] \in {"await", "announcePart"}
      PROVE  ~mems'[cur'[p]].live /\ (pc'[p] = "announcePart" => mems'[cur'[p]].pump = "done")
  <2>1. \/ pc[p] = pc'[p] /\ cur'[p] = cur[p]
        \/ CloseSub(p) /\ cur' = cur /\ pc'[p] = "await"
        \/ Await(p) /\ cur' = cur /\ mems' = mems /\ pc[p] = "await"
    <3> USE DEF Goto
    <3>1. CASE UNCHANGED <<pc, handVars>> \/ \E a \in Procs \ {p} : Others(a)
      BY <3>1 DEF Others, handVars
    <3>2. CASE p \in Conns /\ ClientStep(p)
      BY <1>0, <1>3, <3>2 DEF ClientStep, Connect, SocketDies, StartJoin, StartPart, handVars
    <3>3. CASE p \in Conns /\ ConnStep(p)
      BY <1>0, <1>3, <3>3 DEF ConnStep, Register, WriteReady, Autojoin, StartReading, StopReading,
            Unregister, LeaveAll,
         LeaveNext, CheckBan, Enters, ChannelFor, CreateChannel, EnterChannel, Subscribe, Insert,
               RecheckBan, Undo, Undone, AnnounceJoin, StartPump, JoinReturns, handVars
    <3>4. CASE LeaveStep(p)
      BY <1>0, <1>3, <3>4 DEF LeaveStep, Remove, CloseSub, Await, AnnouncePart, handVars, memVars
    <3>5. CASE p \in Mods /\ ModStep(p)
      BY <1>0, <1>3, <3>5 DEF ModStep, Store, PartTarget, Lookup, Announce, EnforceBan, AnnounceFails, handVars
    <3>6. ASSUME p \in Mods, NEW v \in given.verbs, NEW s \in given.scopes, NEW k \in Nicks, Resolve(p, v, s, k)
          PROVE FALSE
      BY <1>0, <1>3, <3>6 DEF Resolve
    <3>7. QED
      BY <3>1, <3>2, <3>3, <3>4, <3>5, <3>6, Movers DEF Procs
  <2>2. pc[p] \in {"closeSub", "await", "announcePart"} => cur[p] \in Mems
    BY DEF HandsInv, LocalsInv, HandLocals, Leaving
  <2>3. CASE pc[p] = pc'[p] /\ cur'[p] = cur[p]
    BY <1>3, <2>2, <2>3, DeadStays DEF KeptInv
  <2>4. CASE CloseSub(p) /\ cur' = cur /\ pc'[p] = "await"
    <3>1. cur[p] \in Mems /\ mems' = [mems EXCEPT ![cur[p]].live = FALSE]
      BY <1>0, <2>2, <2>4 DEF CloseSub, Goto
    <3>2. ~mems'[cur[p]].live
      BY <1>0, <3>1, CloseEffect
    <3>3. QED
      BY <2>4, <3>2
  <2>5. CASE Await(p) /\ cur' = cur /\ mems' = mems /\ pc[p] = "await"
    BY <2>5 DEF Await, KeptInv
  <2>6. QED
    BY <2>1, <2>3, <2>4, <2>5
<1>4. QED
  BY <1>1, <1>2, <1>3 DEF KeptInv

-----------------------------------------------------------------------------
(* Entries *)

\* At first no channel has an entry.
LEMMA EntryInit == Init => EntryInv
BY DEF Init, EntryInv, Rooms

\* An entry is a joiner's until it goes.
LEMMA EntrySteps ==
  ASSUME HandsInv, NamesInv, [Next]_vars, NEW r \in Rooms', NEW k \in Nicks, NEW c \in Conns,
         rooms'[r].members[k] = c
  PROVE  \/ r \in Rooms /\ rooms[r].members[k] = c /\ rooms'[r].open = rooms[r].open
         \/ pc'[c] = "subscribe" /\ room'[c] = r /\ Nick[c] = k /\ rooms'[r].open
<1> DEFINE Old == r \in Rooms /\ rooms[r].members[k] = c /\ rooms'[r].open = rooms[r].open
           New == pc'[c] = "subscribe" /\ room'[c] = r /\ Nick[c] = k /\ rooms'[r].open
<1>0. /\ pc \in [Procs -> ConnLabels \cup ModLabels] /\ room \in [Conns -> 0 .. Len(rooms)] /\ rooms \in Seq(RoomType)
      /\ Conns \subseteq Procs /\ c # NoConn /\ Len(rooms) \in Nat
  BY MembershipAssumption DEF HandsInv, PcInv, TypeInv, RoomTypes, Procs
<1>1. ASSUME rooms' = rooms PROVE Old
  BY <1>1 DEF Rooms
<1>2. ASSUME NEW s, NEW j, NEW a \in Conns \cup {NoConn}, EntrySet(s, j, a), ~(s = r /\ j = k) PROVE Old
  BY <1>2 DEF EntrySet, RoomsWritten, Rooms
<1>3. ASSUME NEW s, NEW kind, NEW who, NEW words, LogWritten(s, kind, who, words) PROVE Old
  BY <1>3 DEF LogWritten, RoomsWritten, Rooms
<1>4. ASSUME NEW a \in Conns, Enters(a) PROVE Old \/ New
  <2>1. CASE /\ channels[name[a]] \in Rooms /\ EntrySet(channels[name[a]], Nick[a], a)
             /\ room' = [room EXCEPT ![a] = channels[name[a]]] /\ pc' = [pc EXCEPT ![a] = "subscribe"]
             /\ UNCHANGED channels
    <3>1. CASE channels[name[a]] = r /\ Nick[a] = k
      <4>1. a = c /\ rooms'[r].open = rooms[r].open
        BY <2>1, <3>1 DEF EntrySet
      <4>2. rooms[r].open
        <5>1. name[a] \in Channels
          BY DEF HandsInv, TypeInv, HandTypes
        <5>2. channels[name[a]] # 0
          BY <2>1 DEF Rooms
        <5>3. QED
          BY <2>1, <3>1, <5>1, <5>2 DEF NamesInv, ChannelNames
      <4>3. QED
        BY <1>0, <2>1, <3>1, <4>1, <4>2
    <3>2. CASE ~(channels[name[a]] = r /\ Nick[a] = k)
      BY <1>2, <2>1, <3>2
    <3>3. QED
      BY <3>1, <3>2
  <2>2. CASE /\ Len(rooms') = Len(rooms) + 1
             /\ \A s \in Rooms : rooms'[s] = rooms[s]
             /\ rooms'[Len(rooms) + 1].open
             /\ \A j \in Nicks : rooms'[Len(rooms) + 1].members[j] = IF j = Nick[a] THEN a ELSE NoConn
             /\ room' = [room EXCEPT ![a] = Len(rooms) + 1] /\ pc' = [pc EXCEPT ![a] = "subscribe"]
    <3>1. CASE r \in Rooms
      BY <2>2, <3>1
    <3>2. CASE r = Len(rooms) + 1
      BY <1>0, <2>2, <3>2
    <3>3. QED
      BY <1>0, <2>2, <3>1, <3>2 DEF Rooms
  <2>3. QED
    BY <1>1, <1>4, <2>1, <2>2, ChannelForEffect
<1>5. ASSUME NEW p \in Procs, Remove(p) PROVE Old
  <2> DEFINE o == mems[cur[p]].owner
             s == mems[cur[p]].room
  <2>1. CASE EntrySet(s, Nick[o], NoConn)
    <3>1. ~(s = r /\ Nick[o] = k)
      BY <1>0, <2>1 DEF EntrySet, RoomsWritten, Rooms
    <3> HIDE DEF s, o
    <3>2. QED
      BY <1>2, <2>1, <3>1
  <2>2. QED
    BY <1>1, <1>5, <2>1, RemoveEffect
<1>6. ASSUME NEW n \in Channels, Sweep(n) PROVE Old
  <2>1. RoomsWritten /\ r \in Rooms /\ rooms'[r].members = rooms[r].members
    BY <1>6, SweptEffect DEF RoomsWritten, Rooms
  <2>2. r # channels[n]
    BY <1>0, <1>6, <2>1, SweptEffect
  <2>3. QED
    BY <1>6, <2>1, <2>2, SweptEffect
<1>7. ASSUME NEW a \in Conns, AnnounceJoin(a) PROVE Old
  BY <1>3, <1>7, AnnounceEffect
<1>8. ASSUME NEW p \in Procs, AnnouncePart(p) PROVE Old
  BY <1>3, <1>8, AnnounceEffect
<1>9. ASSUME NEW d \in Mods, Announce(d) PROVE Old
  <2>1. PICK s \in todo[d] \cap Rooms : LogWritten(s, order[d].verb, order[d].nick, {d})
    BY <1>9, AnnounceEffect
  <2>2. QED
    BY <1>3, <2>1
<1> HIDE DEF Old, New
<1>10. Old \/ New
  BY <1>1, <1>4, <1>5, <1>6, <1>7, <1>8, <1>9, RoomSteps
<1>11. QED
  BY <1>10 DEF Old, New

\* Who has yet to remove a member's entry does so next.
LEMMA LeaverFrame ==
  ASSUME HandsInv, ReadInv, [Next]_vars, NEW p \in Procs, NEW m \in Mems,
         Holds(p, m), cur[p] = m => pc[p] \in {"leave", "undoRemove"}
  PROVE  \/ Holds(p, m)' /\ (cur'[p] = m => pc'[p] \in {"leave", "undoRemove"})
         \/ Remove(p) /\ cur[p] = m
<1> USE DEF Goto, Leaving
<1>0. /\ pc \in [Procs -> ConnLabels \cup ModLabels] /\ cur \in [Procs -> 0 .. Len(mems)]
      /\ \A c \in Conns : c \in Procs /\ c \notin Mods
      /\ p \in Conns \/ (p \in Mods /\ p \notin Conns)
  BY MembershipAssumption DEF HandsInv, PcInv, TypeInv, MemTypes, Procs
<1>1. Holds(p, m)' \/ (Remove(p) /\ cur[p] = m)
  <2>1. ASSUME AnnouncePart(p) \/ (CloseSub(p) /\ pc[p] = "undoClose") PROVE cur[p] # m
    BY <2>1 DEF AnnouncePart, CloseSub
  <2>2. QED
    BY <2>1, HoldsGone
<1>2. CASE UNCHANGED <<pc, handVars>> \/ \E a \in Procs \ {p} : Others(a)
  BY <1>1, <1>2 DEF Others, handVars
<1>3. CASE cur[p] = m
  <2>1. pc[p] \in {"leave", "undoRemove"}
    BY <1>3
  <2>2. ASSUME p \in Conns, ClientStep(p) PROVE pc'[p] = pc[p]
    BY <1>0, <2>1, <2>2 DEF ClientStep, Connect, SocketDies, StartJoin, StartPart
  <2>3. ASSUME p \in Conns, ConnStep(p) PROVE pc'[p] = pc[p]
    BY <1>0, <2>1, <2>3 DEF ConnStep, Register, WriteReady, Autojoin, StartReading, StopReading,
          Unregister, LeaveAll,
         LeaveNext, CheckBan, Enters, ChannelFor, CreateChannel, EnterChannel, Subscribe, Insert,
               RecheckBan, Undo, Undone, AnnounceJoin, StartPump
  <2>4. ASSUME LeaveStep(p) PROVE Remove(p)
    BY <2>1, <2>4 DEF LeaveStep, CloseSub, Await, AnnouncePart
  <2>5. ASSUME p \in Mods, ModStep(p) PROVE FALSE
    BY <2>1, <2>5 DEF ModStep, Store, PartTarget, Lookup, Announce, EnforceBan, AnnounceFails
  <2>6. ASSUME NEW v \in given.verbs, NEW s \in given.scopes, NEW k \in Nicks, Resolve(p, v, s, k) PROVE FALSE
    BY <2>1, <2>6 DEF Resolve
  <2>7. QED
    BY <1>0, <1>1, <1>2, <1>3, <2>1, <2>2, <2>3, <2>4, <2>5, <2>6, Movers
<1>4. CASE cur[p] # m
  <2>1. p \in Conns /\ m \in todo[p] /\ p \notin reading /\ pc[p] \in {"leaving"} \cup Leaving
    BY <1>4 DEF Holds, ReadInv, ReadLocals
  <2>2. ASSUME ClientStep(p) PROVE cur' = cur
    BY <2>1, <2>2 DEF ClientStep, Connect, SocketDies, StartJoin, StartPart, handVars
  <2>3. ASSUME ConnStep(p) PROVE cur' = cur \/ pc'[p] = "leave"
    <3>1. LeaveNext(p)
      BY <2>1, <2>3 DEF ConnStep, Register, WriteReady, Autojoin, StartReading, StopReading, Unregister,
            LeaveAll,
         CheckBan, Enters, ChannelFor, CreateChannel, EnterChannel, Subscribe, Insert, RecheckBan, Undo,
               Undone, AnnounceJoin, StartPump
    <3>2. QED
      BY <1>0, <3>1 DEF LeaveNext
  <2>4. ASSUME LeaveStep(p) PROVE cur' = cur \/ cur'[p] = 0
    BY <1>0, <2>4 DEF LeaveStep, Remove, CloseSub, Await, AnnouncePart, handVars
  <2>5. m # 0
    BY DEF Mems
  <2>6. QED
    BY <1>0, <1>1, <1>2, <1>4, <2>1, <2>2, <2>3, <2>4, <2>5, Movers
<1>5. QED
  BY <1>3, <1>4

\* A joiner subscribes, then inserts.
LEMMA JoinerFrame ==
  ASSUME HandsInv, NamesInv, [Next]_vars, NEW c \in Conns, pc[c] \in {"subscribe", "insert"}
  PROVE  /\ room'[c] = room[c]
         /\ \/ pc'[c] \in {"subscribe", "insert"}
            \/ \E m \in Mems : /\ cur[c] = m /\ mems[m].owner = c /\ mems[m].room = room[c]
                               /\ cur'[c] = m /\ pc'[c] = "recheckBan" /\ InTable(m)'
<1> USE DEF Goto
<1>0. /\ pc \in [Procs -> ConnLabels \cup ModLabels] /\ cur \in [Procs -> 0 .. Len(mems)]
      /\ c \in Procs /\ c \notin Mods
  BY MembershipAssumption DEF HandsInv, PcInv, TypeInv, MemTypes, Procs
<1>1. CASE UNCHANGED <<pc, handVars>> \/ \E a \in Procs \ {c} : Others(a)
  BY <1>0, <1>1 DEF Others, handVars
<1>2. CASE ClientStep(c)
  BY <1>0, <1>2 DEF ClientStep, Connect, SocketDies, StartJoin, StartPart, handVars
<1>3. CASE LeaveStep(c)
  BY <1>3 DEF LeaveStep, Remove, CloseSub, Await, AnnouncePart
<1>4. CASE ConnStep(c)
  <2>1. Subscribe(c) \/ Insert(c)
    BY <1>4 DEF ConnStep, Register, WriteReady, Autojoin, StartReading, StopReading, Unregister, LeaveAll,
       LeaveNext, CheckBan, Enters, ChannelFor, CreateChannel, EnterChannel, RecheckBan, Undo, Undone,
             AnnounceJoin, StartPump
  <2>2. CASE Subscribe(c)
    BY <1>0, <2>2 DEF Subscribe
  <2>3. CASE Insert(c)
    <3>1. pc[c] = "insert" /\ pc'[c] = "recheckBan" /\ cur' = cur /\ room' = room
      BY <1>0, <2>3 DEF Insert, handVars
    <3>2. PICK m \in Mems : m = cur[c] /\ mems[m].owner = c /\ mems[m].room = room[c]
      BY <3>1 DEF HandsInv, LocalsInv, ConnLocals, Making
    <3>3. table'[c][name[c]] = m
      BY <2>3, <3>2 DEF Insert, HandsInv, TypeInv, MemTypes, HandTypes
    <3>4. RoomOf(m).name = name[c]
      BY <3>1, <3>2 DEF RoomOf, NamesInv, JoinNames, Making
    <3>5. InTable(m)'
      BY <3>2, <3>3, <3>4, PlaceFrame
    <3>6. QED
      BY <3>1, <3>2, <3>5
  <2>4. QED
    BY <2>1, <2>2, <2>3
<1>5. QED
  BY <1>1, <1>2, <1>3, <1>4, Movers

\* An entry stays until its connection's membership, or join, has gone by Remove.
LEMMA EntryNext == HandsInv /\ NamesInv /\ ReadInv /\ RoomToJoin /\ EntryInv /\ [Next]_vars => EntryInv'
<1> SUFFICES ASSUME HandsInv, NamesInv, ReadInv, RoomToJoin, EntryInv, [Next]_vars,
                    NEW r \in Rooms', NEW k \in Nicks, rooms'[r].members[k] # NoConn
             PROVE  LET c == rooms'[r].members[k]
                    IN /\ Nick[c] = k /\ rooms'[r].open
                       /\ \/ pc'[c] \in {"subscribe", "insert"} /\ room'[c] = r
                          \/ \E m \in Mems' : mems'[m].owner = c /\ mems'[m].room = r /\ Present(m)'
  BY GivenSame DEF EntryInv, HandsInv, TypeInv, Nick
<1> DEFINE c == rooms'[r].members[k]
<1>0. c \in Conns
  <2>1. rooms'[r] \in RoomType
    BY HandsNext DEF HandsInv, TypeInv, RoomTypes, Rooms
  <2>2. QED
    BY <2>1 DEF RoomType
<1> HIDE DEF c
<1>1. CASE pc'[c] = "subscribe" /\ room'[c] = r /\ Nick[c] = k /\ rooms'[r].open
  BY <1>1 DEF c
<1>2. CASE r \in Rooms /\ rooms[r].members[k] = c /\ rooms'[r].open = rooms[r].open
  <2>0. c # NoConn
    BY DEF c
  <2>1. /\ Nick[c] = k /\ rooms'[r].open
        /\ \/ pc[c] \in {"subscribe", "insert"} /\ room[c] = r
           \/ \E m \in Mems : mems[m].owner = c /\ mems[m].room = r /\ Present(m)
    BY <1>2, <2>0 DEF EntryInv
  <2>2. ASSUME NEW m \in Mems, mems[m].owner = c, mems[m].room = r, Present(m)'
        PROVE  \E q \in Mems' : mems'[q].owner = c /\ mems'[q].room = r /\ Present(q)'
    BY <2>2, MemsLast, PlaceFrame
  <2>3. CASE pc[c] \in {"subscribe", "insert"} /\ room[c] = r
    <3>1. CASE pc'[c] \in {"subscribe", "insert"} /\ room'[c] = r
      BY <2>1, <3>1 DEF c
    <3>2. ASSUME NEW m \in Mems, mems[m].owner = c, mems[m].room = r, InTable(m)'
          PROVE  \E q \in Mems' : mems'[q].owner = c /\ mems'[q].room = r /\ Present(q)'
      BY <2>2, <3>2 DEF Present
    <3>3. QED
      BY <1>0, <2>1, <2>3, <3>1, <3>2, JoinerFrame DEF c
  <2>4. ASSUME NEW m \in Mems, mems[m].owner = c, mems[m].room = r, InTable(m) PROVE Present(m)'
    BY <2>4, InTableGone DEF Present
  <2>5. ASSUME NEW m \in Mems, mems[m].owner = c, mems[m].room = r, NEW p \in Procs, Holds(p, m),
               cur[p] = m => pc[p] \in {"leave", "undoRemove"}
        PROVE  Present(m)'
    <3>1. ASSUME Remove(p), cur[p] = m PROVE FALSE
      <4>1. \/ rooms[r].members[Nick[c]] # c
            \/ EntrySet(r, Nick[c], NoConn)
        BY <2>5, <3>1, RemoveEffect
      <4>2. rooms[r].members[k] = c /\ rooms'[r].members[k] = c /\ Nick[c] = k /\ c # NoConn
        BY <1>2, <2>0, <2>1 DEF c
      <4>3. QED
        BY <1>2, <4>1, <4>2 DEF EntrySet
    <3>2. QED
      BY <2>5, <3>1, LeaverFrame DEF Present
  <2>6. ASSUME NEW m \in Mems, mems[m].owner = c, mems[m].room = r, Present(m)
        PROVE  \E q \in Mems' : mems'[q].owner = c /\ mems'[q].room = r /\ Present(q)'
    BY <2>2, <2>4, <2>5, <2>6 DEF Present
  <2>7. CASE \E m \in Mems : mems[m].owner = c /\ mems[m].room = r /\ Present(m)
    BY <2>1, <2>6, <2>7 DEF c
  <2>8. QED
    BY <2>1, <2>3, <2>7
<1>3. QED
  BY <1>0, <1>1, <1>2, EntrySteps DEF c

-----------------------------------------------------------------------------
(* What a moderator does, and to whom *)

\* At first no moderator has resolved anybody.
LEMMA OrderInit == Init => OrderInv
BY MembershipAssumption DEF Init, OrderInv, Resolved, NoOrder, Leaving, Procs

\* A moderator acts on the connection it resolved, and on its memberships only.
LEMMA OrderNext == HandsInv /\ NamesInv /\ TableInv /\ MadeInv /\ OrderInv /\ [Next]_vars => OrderInv'
<1> SUFFICES ASSUME HandsInv, NamesInv, TableInv, MadeInv, OrderInv, [Next]_vars, NEW d \in Mods
             PROVE  Resolved(d)'
  BY DEF OrderInv
<1> USE DEF Goto, Leaving
<1>0. /\ pc \in [Procs -> ConnLabels \cup ModLabels] /\ cur \in [Procs -> 0 .. Len(mems)]
      /\ order \in [Mods -> OrderType] /\ d \in Procs /\ d \notin Conns
      /\ given' = given /\ Nick' = Nick /\ Resolved(d)
  BY GivenSame, MembershipAssumption DEF HandsInv, PcInv, TypeInv, MemTypes, HandTypes, Procs, OrderInv, Nick
<1>1. ASSUME NEW m \in Mems PROVE mems'[m].owner = mems[m].owner /\ RoomOf(m)'.name = RoomOf(m).name
  BY MemFacts, MemsLast, RoomsLast DEF RoomOf
<1>2. pc[d] \in Leaving => cur[d] \in Mems
  BY <1>0 DEF HandsInv, LocalsInv, HandLocals
<1>3. ASSUME pc'[d] = pc[d] \/ (pc[d] \in Leaving /\ pc'[d] \in Leaving),
             cur'[d] = cur[d], order'[d] = order[d]
      PROVE  Resolved(d)'
  BY <1>0, <1>1, <1>2, <1>3 DEF Resolved, RoomOf
<1>4. CASE UNCHANGED <<pc, handVars>> \/ \E a \in Procs \ {d} : Others(a)
  <2>1. pc'[d] = pc[d] /\ cur'[d] = cur[d] /\ order'[d] = order[d]
    BY <1>0, <1>4 DEF Others, handVars
  <2>2. QED
    BY <1>3, <2>1
<1>5. CASE LeaveStep(d)
  <2>1. CASE AnnouncePart(d)
    <3>1. pc[d] = "announcePart" /\ pc'[d] = "lookup" /\ order' = order
      BY <1>0, <2>1 DEF AnnouncePart
    <3>2. QED
      BY <1>0, <3>1 DEF Resolved
  <2>2. CASE ~AnnouncePart(d)
    <3>1. /\ pc[d] \in Leaving /\ pc'[d] \in Leaving
          /\ cur' = cur /\ order' = order
      BY <1>0, <1>5, <2>2 DEF LeaveStep, Remove, CloseSub, Await, HandsInv, PcInv, ModLabels, handVars
    <3>2. QED
      BY <1>3, <3>1
  <2>3. QED
    BY <2>1, <2>2
<1>6. ASSUME NEW v \in given.verbs, NEW s \in given.scopes, NEW k \in Nicks, Resolve(d, v, s, k) PROVE Resolved(d)'
  <2>1. /\ pc'[d] = "store" /\ order'[d] = [verb |-> v, scope |-> s, nick |-> k, target |-> conns[k]]
        /\ conns[k] # NoConn \/ given.directory
    BY <1>0, <1>6 DEF Resolve
  <2>2. conns[k] # NoConn => Nick[conns[k]] = k /\ conns[k] \in given.conns
    BY DEF TableInv, MadeInv
  <2>3. QED
    BY <1>0, <2>1, <2>2 DEF Resolved
<1>7. CASE Store(d)
  <2>1. /\ pc[d] = "store" /\ order' = order
        /\ pc'[d] = IF order[d].verb = "ban" /\ order[d].scope # Global /\ order[d].target # NoConn
                      THEN "part" ELSE "lookup"
    BY <1>0, <1>7 DEF Store, handVars
  <2>2. order[d].target \in Conns \cup {NoConn}
    BY <1>0 DEF OrderType
  <2>3. QED
    BY <1>0, <2>1, <2>2 DEF Resolved
<1>8. CASE PartTarget(d)
  <2>1. pc[d] = "part" /\ order' = order /\ order[d].target \in Conns /\ order[d].scope \in Channels
    BY <1>8 DEF PartTarget, HandsInv, LocalsInv, ModLocals
  <2>2. \/ pc'[d] = "leave" /\ cur'[d] = table[order[d].target][order[d].scope] /\ cur'[d] # 0
        \/ pc'[d] = "lookup"
    BY <1>0, <1>8 DEF PartTarget
  <2>3. CASE pc'[d] = "lookup"
    BY <1>0, <2>1, <2>3 DEF Resolved
  <2>4. CASE pc'[d] = "leave" /\ cur'[d] = table[order[d].target][order[d].scope] /\ cur'[d] # 0
    <3>1. PICK m \in Mems : m = cur'[d]
      BY <2>1, <2>4 DEF HandsInv, TypeInv, MemTypes, Mems
    <3>2. mems[m].owner = order[d].target /\ RoomOf(m).name = order[d].scope
      BY <2>1, <2>4, <3>1 DEF NamesInv, TableNames
    <3>3. mems'[m].owner = order[d].target /\ RoomOf(m)'.name = order[d].scope
      BY <1>1, <3>2
    <3>4. QED
      BY <1>0, <2>1, <2>4, <3>1, <3>3 DEF Resolved, RoomOf
  <2>5. QED
    BY <2>2, <2>3, <2>4
<1>9. CASE Lookup(d) \/ Announce(d)
  <2>1. /\ pc[d] \in {"lookup", "announce"} /\ pc'[d] = "announce" /\ order' = order
    BY <1>0, <1>9 DEF Lookup, Announce
  <2>2. QED
    BY <1>0, <2>1 DEF Resolved
<1>10. CASE EnforceBan(d) \/ AnnounceFails(d)
  <2>1. pc'[d] = "finished" /\ order'[d] = NoOrder
    BY <1>0, <1>10 DEF EnforceBan, AnnounceFails
  <2>2. QED
    BY <1>0, <2>1 DEF Resolved, NoOrder
<1>11. QED
  BY <1>4, <1>5, <1>6, <1>7, <1>8, <1>9, <1>10, Movers DEF ModStep

-----------------------------------------------------------------------------
(* A ban holds *)

\* A ban is stored by the moderator who is about to part its target, or to close its socket.
LEMMA BansSteps ==
  ASSUME HandsInv, [Next]_vars, NEW s \in Channels \cup {Global}, NEW k \in Nicks, <<s, k>> \in bans'
  PROVE  \/ <<s, k>> \in bans
         \/ \E d \in Mods : /\ Store(d) /\ order[d].verb = "ban" /\ order[d].scope = s /\ order[d].nick = k
                            /\ (order[d].target # NoConn => pc'[d] = IF s = Global THEN "lookup" ELSE "part")
                            /\ order' = order /\ UNCHANGED <<table, mems, rooms, cur>>
<1>0. pc \in [Procs -> ConnLabels \cup ModLabels] /\ Mods \subseteq Procs
  BY DEF HandsInv, PcInv, Procs
<1>1. ASSUME NEW c \in Conns, ClientStep(c) PROVE bans' = bans
  BY <1>1 DEF ClientStep, Connect, SocketDies, StartJoin, StartPart
<1>2. ASSUME NEW c \in Conns, ConnStep(c) PROVE bans' = bans
  BY <1>2 DEF ConnStep, Register, WriteReady, Autojoin, StartReading, StopReading, Unregister, LeaveAll,
       LeaveNext, CheckBan, Enters, ChannelFor, CreateChannel, EnterChannel, Subscribe, Insert, RecheckBan,
             Undo, Undone, AnnounceJoin, StartPump
<1>3. ASSUME NEW p \in Procs, LeaveStep(p) PROVE bans' = bans
  BY <1>3 DEF LeaveStep, Remove, CloseSub, Await, AnnouncePart
<1>4. ASSUME NEW d \in Mods, NEW v \in given.verbs, NEW t \in given.scopes, NEW j \in Nicks, Resolve(d, v, t, j)
      PROVE  bans' = bans
  BY <1>4 DEF Resolve
<1>5. ASSUME NEW d \in Mods, ModStep(d), ~Store(d) PROVE bans' = bans
  BY <1>5 DEF ModStep, PartTarget, Lookup, Announce, EnforceBan, AnnounceFails
<1>6. ASSUME NEW d \in Mods, Store(d), <<s, k>> \notin bans
      PROVE  /\ order[d].verb = "ban" /\ order[d].scope = s /\ order[d].nick = k
             /\ (order[d].target # NoConn => pc'[d] = IF s = Global THEN "lookup" ELSE "part")
             /\ order' = order /\ UNCHANGED <<table, mems, rooms, cur>>
  <2>1. order[d].verb = "ban" /\ order[d].scope = s /\ order[d].nick = k
    BY <1>6 DEF Store
  <2>2. QED
    BY <1>0, <1>6, <2>1 DEF Store, Goto, memVars, roomVars, handVars
<1>7. ASSUME NEW m \in Mems, PumpStep(m) PROVE bans' = bans
  BY <1>7 DEF PumpStep, PumpEnds, PumpFails, PumpLags, PumpDrops
<1>8. ASSUME NEW n \in Channels, Sweep(n) PROVE bans' = bans
  BY <1>8 DEF Sweep
<1>9. ASSUME NEW b \in bans, Expire(b) PROVE bans' \subseteq bans
  BY <1>9 DEF Expire
<1>10. CASE UNCHANGED vars
  BY <1>10 DEF vars
<1>11. QED
  BY <1>1, <1>2, <1>3, <1>4, <1>5, <1>6, <1>7, <1>8, <1>9, <1>10 DEF Next, Step

\* A membership is established by its connection's second look at the bans.
LEMMA EstablishedSteps ==
  ASSUME HandsInv, NamesInv, [Next]_vars, NEW m \in Mems', Established(m)'
  PROVE  /\ m \in Mems
         /\ \/ Established(m)
            \/ ~Banned(RoomOf(m).name, mems[m].owner) /\ bans' = bans
<1> USE DEF Goto
<1>1. m \in Mems /\ InTable(m)'
  BY InTableNew DEF Established
<1> DEFINE c == mems[m].owner
<1>0. /\ pc \in [Procs -> ConnLabels \cup ModLabels] /\ cur \in [Procs -> 0 .. Len(mems)]
      /\ c \in Conns /\ c \in Procs /\ c \notin Mods /\ mems'[m].owner = c
  BY <1>1, MemFacts, MemsLast, MembershipAssumption DEF HandsInv, PcInv, TypeInv, MemTypes, Procs
<1>2. ASSUME NEW a \in Conns, Insert(a), cur[a] = m PROVE FALSE
  <2>1. a = c
    BY <1>2 DEF Insert, HandsInv, LocalsInv, ConnLocals, Making
  <2>2. pc'[c] = "recheckBan" /\ cur'[c] = m
    BY <1>0, <1>2, <2>1 DEF Insert, handVars
  <2>3. QED
    BY <1>0, <2>2 DEF Established
<1>3. InTable(m)
  BY <1>1, <1>2, InTableNew
<1>4. ASSUME cur[c] = m, pc[c] \in {"recheckBan", "undo"}
      PROVE  ~Banned(RoomOf(m).name, c) /\ bans' = bans
  <2>0. ~(cur'[c] = m /\ pc'[c] \in {"recheckBan", "undo"})
    BY <1>0 DEF Established
  <2>1. RecheckBan(c) \/ Undo(c)
    <3>1. ASSUME UNCHANGED <<pc, handVars>> \/ \E a \in Procs \ {c} : Others(a) PROVE FALSE
      BY <1>0, <1>4, <2>0, <3>1 DEF Others, handVars
    <3>2. ASSUME ClientStep(c) PROVE FALSE
      BY <1>4, <2>0, <3>2 DEF ClientStep, Connect, SocketDies, StartJoin, StartPart, handVars
    <3>3. ~LeaveStep(c)
      BY <1>4 DEF LeaveStep, Remove, CloseSub, Await, AnnouncePart
    <3>4. ASSUME ConnStep(c) PROVE RecheckBan(c) \/ Undo(c)
      BY <1>4, <3>4 DEF ConnStep, Register, WriteReady, Autojoin, StartReading, StopReading, Unregister,
            LeaveAll,
         LeaveNext, CheckBan, Enters, ChannelFor, CreateChannel, EnterChannel, Subscribe, Insert, Undone,
               AnnounceJoin, StartPump
    <3>5. QED
      BY <1>0, <3>1, <3>2, <3>3, <3>4, Movers
  <2>2. RoomOf(m).name = name[c]
    <3>1. mems[m].room = room[c] /\ rooms[room[c]].name = name[c]
      BY <1>0, <1>4 DEF HandsInv, LocalsInv, ConnLocals, Making, Joining, NamesInv, JoinNames
    <3>2. QED
      BY <3>1 DEF RoomOf
  <2>3. CASE RecheckBan(c)
    <3>1. cur' = cur /\ bans' = bans /\ pc'[c] = IF Banned(name[c], c) THEN "undo" ELSE "announceJoin"
      BY <1>0, <2>3 DEF RecheckBan, handVars
    <3>2. QED
      BY <1>4, <2>0, <2>2, <3>1
  <2>4. CASE Undo(c)
    <3>1. table[c][name[c]] = m
      BY <1>3, <2>2 DEF InTable
    <3>2. table'[c][name[c]] = 0
      BY <1>0, <1>4, <2>4, <3>1 DEF Undo, HandsInv, TypeInv, MemTypes, HandTypes
    <3>3. table'[c][name[c]] = m
      BY <1>1, <2>2, PlaceFrame
    <3>4. QED
      BY <3>2, <3>3 DEF Mems
  <2>5. QED
    BY <2>1, <2>3, <2>4
<1>5. QED
  BY <1>1, <1>3, <1>4 DEF Established

\* A moderator about to part somebody parts them.
LEMMA PartFrame ==
  ASSUME HandsInv, [Next]_vars, NEW d \in Mods, pc[d] = "part"
  PROVE  \/ pc'[d] = "part" /\ order'[d] = order[d]
         \/ PartTarget(d)
<1>1. ASSUME NEW v \in given.verbs, NEW s \in given.scopes, NEW k \in Nicks, Resolve(d, v, s, k) PROVE FALSE
  BY <1>1 DEF Resolve
<1>2. ASSUME ModStep(d) PROVE PartTarget(d)
  BY <1>2 DEF ModStep, Store, Lookup, Announce, EnforceBan, AnnounceFails
<1>3. ~LeaveStep(d)
  BY DEF LeaveStep, Remove, CloseSub, Await, AnnouncePart
<1>4. ASSUME UNCHANGED <<pc, handVars>> \/ \E a \in Procs \ {d} : Others(a)
      PROVE  pc'[d] = "part" /\ order'[d] = order[d]
  BY <1>4 DEF Others, handVars, Procs
<1>5. QED
  BY <1>1, <1>2, <1>3, <1>4, Movers

\* At first nobody is banned.
LEMMA BanInit == Init => RoomBan /\ ServerBan
BY DEF Init, RoomBan, ServerBan, Mems

\* A ban and a membership are each stored before looking for the other.
LEMMA RoomBanNext ==
  HandsInv /\ NamesInv /\ MadeInv /\ OrderInv /\ RoomBan /\ [Next]_vars => RoomBan'
<1> SUFFICES ASSUME HandsInv, NamesInv, MadeInv, OrderInv, RoomBan, [Next]_vars, OnePerNick, ~given.directory,
                    NEW m \in Mems', Established(m)', (<<RoomOf(m).name, NickOf(m)>> \in bans)'
             PROVE  \E d \in Mods : /\ pc'[d] = "part"
                                    /\ order'[d].target = mems'[m].owner
                                    /\ order'[d].scope = RoomOf(m)'.name
  BY GivenSame DEF RoomBan, HandsInv, TypeInv, OnePerNick, Nick
<1>1. m \in Mems /\ (Established(m) \/ (~Banned(RoomOf(m).name, mems[m].owner) /\ bans' = bans))
  BY EstablishedSteps
<1> DEFINE o == mems[m].owner
           n == RoomOf(m).name
<1>2. /\ mems'[m].owner = o /\ RoomOf(m)'.name = n /\ Nick'[o] = Nick[o]
      /\ o \in Conns /\ n \in Channels /\ Nick[o] \in Nicks /\ o \in given.conns
  BY <1>1, MemFacts, MemsLast, RoomsLast, PlaceFrame, NickType, GivenSame
     DEF RoomOf, Nick, HandsInv, TypeInv, MadeInv
<1>3. <<n, Nick[o]>> \in bans'
  BY <1>2 DEF NickOf, RoomOf
<1>n. NickOf(m) = Nick[o]
  BY DEF NickOf
<1> HIDE DEF o, n
<1>4. ASSUME NEW d \in Mods, Store(d), order[d].verb = "ban", order[d].scope = n, order[d].nick = Nick[o],
             order[d].target # NoConn => pc'[d] = "part", order' = order
      PROVE  pc'[d] = "part" /\ order'[d].target = o /\ order'[d].scope = n
  <2>1. order[d].target # NoConn /\ Nick[order[d].target] = Nick[o] /\ order[d].target \in given.conns
    BY <1>4 DEF Store, OrderInv, Resolved
  <2>2. QED
    BY <1>2, <1>4, <2>1 DEF OnePerNick
<1>5. CASE <<n, Nick[o]>> \in bans
  <2>1. Established(m)
    BY <1>1, <1>5 DEF Banned, n, o
  <2>2. PICK d \in Mods : pc[d] = "part" /\ order[d].target = o /\ order[d].scope = n
    BY <1>1, <1>5, <1>n, <2>1 DEF RoomBan, n, o
  <2>3. ASSUME PartTarget(d) PROVE FALSE
    <3>1. table[o][n] = m /\ m # 0 /\ table'[o][n] = m
      BY <1>1, <2>1, PlaceFrame DEF Established, InTable, Mems, n, o
    <3>2. table'[o][n] = 0
      BY <1>2, <2>2, <2>3, <3>1 DEF PartTarget, HandsInv, TypeInv, MemTypes
    <3>3. QED
      BY <3>1, <3>2
  <2>4. QED
    BY <1>2, <2>2, <2>3, PartFrame
<1>6. CASE <<n, Nick[o]>> \notin bans
  <2>1. n # Global
    BY <1>2, MembershipAssumption
  <2>2. QED
    BY <1>2, <1>3, <1>4, <1>6, <2>1, BansSteps
<1>7. QED
  BY <1>5, <1>6

\* A socket is opened by a connection that is not banned from everywhere.
LEMMA SocketNew ==
  ASSUME HandsInv, [Next]_vars, NEW c \in Conns, sock'[c], ~sock[c]
  PROVE  <<Global, Nick[c]>> \notin bans /\ bans' = bans
<1> USE DEF connVars
<1>0. sock \in [Conns -> BOOLEAN]
  BY DEF HandsInv, TypeInv, OutsideTypes
<1>1. ASSUME NEW a \in Conns, ClientStep(a) PROVE <<Global, Nick[c]>> \notin bans /\ bans' = bans
  <2>1. CASE Connect(a)
    BY <1>0, <2>1 DEF Connect, Banned
  <2>2. CASE ~Connect(a)
    BY <1>0, <1>1, <2>2 DEF ClientStep, SocketDies, StartJoin, StartPart
  <2>3. QED
    BY <2>1, <2>2
<1>2. ASSUME NEW a \in Conns, ConnStep(a) PROVE FALSE
  BY <1>0, <1>2 DEF ConnStep, Register, WriteReady, Autojoin, StartReading, StopReading, Unregister, LeaveAll,
     LeaveNext, CheckBan, ChannelFor, CreateChannel, Subscribe, Insert, RecheckBan, Undo, Undone, AnnounceJoin,
     StartPump
<1>3. ASSUME NEW p \in Procs, LeaveStep(p) PROVE FALSE
  BY <1>3 DEF LeaveStep, Remove, CloseSub, Await, AnnouncePart
<1>4. ASSUME NEW d \in Mods, NEW v \in given.verbs, NEW t \in given.scopes, NEW j \in Nicks, Resolve(d, v, t, j)
      PROVE  FALSE
  BY <1>4 DEF Resolve
<1>5. ASSUME NEW d \in Mods, ModStep(d) PROVE FALSE
  BY <1>0, <1>5 DEF ModStep, Store, PartTarget, Lookup, Announce, EnforceBan, AnnounceFails
<1>6. ASSUME NEW m \in Mems, PumpStep(m) PROVE FALSE
  BY <1>0, <1>6 DEF PumpStep, PumpEnds, PumpFails, PumpLags, PumpDrops
<1>7. ASSUME NEW n \in Channels, Sweep(n) PROVE FALSE
  BY <1>7 DEF Sweep
<1>8. ASSUME NEW b \in bans, Expire(b) PROVE FALSE
  BY <1>8 DEF Expire
<1>9. CASE UNCHANGED vars
  BY <1>9 DEF vars
<1>10. QED
  BY <1>1, <1>2, <1>3, <1>4, <1>5, <1>6, <1>7, <1>8, <1>9 DEF Next, Step

\* A moderator who has stored a ban goes on to enforce it, unless it cannot be announced.
LEMMA AnnounceFrame ==
  ASSUME HandsInv, [Next]_vars, NEW d \in Mods, pc[d] \in {"lookup", "announce"}
  PROVE  \/ pc'[d] \in {"lookup", "announce"} /\ order'[d] = order[d]
         \/ EnforceBan(d) \/ AnnounceFails(d)
<1> USE DEF Goto
<1>0. pc \in [Procs -> ConnLabels \cup ModLabels] /\ d \in Procs
  BY DEF HandsInv, PcInv, Procs
<1>1. ASSUME NEW v \in given.verbs, NEW s \in given.scopes, NEW k \in Nicks, Resolve(d, v, s, k) PROVE FALSE
  BY <1>1 DEF Resolve
<1>2. ASSUME ModStep(d), ~EnforceBan(d), ~AnnounceFails(d)
      PROVE  pc'[d] \in {"lookup", "announce"} /\ order'[d] = order[d]
  BY <1>0, <1>2 DEF ModStep, Store, PartTarget, Lookup, Announce
<1>3. ~LeaveStep(d)
  BY DEF LeaveStep, Remove, CloseSub, Await, AnnouncePart
<1>4. ASSUME UNCHANGED <<pc, handVars>> \/ \E a \in Procs \ {d} : Others(a)
      PROVE  pc'[d] = pc[d] /\ order'[d] = order[d]
  BY <1>4 DEF Others, handVars, Procs
<1>5. QED
  BY <1>1, <1>2, <1>3, <1>4, Movers

\* A server-wide ban and a connection meet before the socket is opened, or in the call.
LEMMA ServerBanNext ==
  HandsInv /\ OrderInv /\ ServerBan /\ [Next]_vars => ServerBan'
<1> SUFFICES ASSUME HandsInv, OrderInv, ServerBan, [Next]_vars, OnePerNick, ~given.directory,
                    NEW c \in given.conns, given.garbled \subseteq Conns, sock'[c], <<Global,
                          Nick[c]>> \in bans'
             PROVE  \E d \in Mods : /\ pc'[d] \in {"lookup", "announce"}
                                    /\ order'[d].verb = "ban" /\ order'[d].scope = Global
                                    /\ order'[d].target = c
  BY GivenSame DEF ServerBan, HandsInv, TypeInv, OnePerNick, Nick
<1>1. c \in Conns /\ Nick[c] \in Nicks
  BY GivenSame, NickType DEF HandsInv, TypeInv, Setting
<1>2. CASE <<Global, Nick[c]>> \notin bans
  <2>1. PICK d \in Mods : /\ Store(d) /\ order[d].verb = "ban" /\ order[d].scope = Global
                          /\ order[d].nick = Nick[c] /\ order' = order
                          /\ (order[d].target # NoConn => pc'[d] = "lookup")
    BY <1>1, <1>2, BansSteps
  <2>2. order[d].target # NoConn /\ Nick[order[d].target] = Nick[c] /\ order[d].target \in given.conns
    BY <2>1 DEF Store, OrderInv, Resolved
  <2>3. order[d].target = c
    BY <2>2 DEF OnePerNick
  <2>4. QED
    BY <2>1, <2>2, <2>3
<1>3. CASE <<Global, Nick[c]>> \in bans
  <2>1. sock[c]
    BY <1>1, <1>3, SocketNew
  <2>2. PICK d \in Mods : /\ pc[d] \in {"lookup", "announce"}
                          /\ order[d].verb = "ban" /\ order[d].scope = Global /\ order[d].target = c
    BY <1>3, <2>1 DEF ServerBan
  <2>3. ASSUME EnforceBan(d) PROVE FALSE
    <3>1. sock' = [sock EXCEPT ![c] = FALSE]
      BY <1>1, <2>2, <2>3, MembershipAssumption DEF EnforceBan
    <3>2. QED
      BY <1>1, <3>1 DEF HandsInv, TypeInv, OutsideTypes
  <2>4. ASSUME AnnounceFails(d) PROVE FALSE
    <3>1. PICK r \in todo[d] : ~Encodes(r, {order[d].nick, d})
      BY <2>4 DEF AnnounceFails
    <3>2. r \in Rooms /\ order[d].nick \in Nicks
      BY <2>2 DEF HandsInv, TypeInv, HandTypes, LocalsInv, ModLocals
    <3>3. rooms[r] \in RoomType
      BY <3>2 DEF HandsInv, TypeInv, RoomTypes, Rooms
    <3>n. rooms[r].name \in Channels
      BY <3>3 DEF RoomType
    <3>4. QED
      BY <3>1, <3>2, <3>n, MembershipAssumption DEF Encodes
  <2>5. QED
    BY <2>2, <2>3, <2>4, AnnounceFrame
<1>4. QED
  BY <1>2, <1>3

-----------------------------------------------------------------------------
(* The simple settings: whom a moderator parts is banned and stays out *)

\* Whether the setting is simple never changes.
LEMMA SimpleSame == HandsInv /\ [Next]_vars => (Simple' <=> Simple) /\ (OnePerNick' <=> OnePerNick)
BY GivenSame DEF HandsInv, TypeInv, Simple, OnePerNick, Nick

\* Nobody is unbanned, and no ban runs out.
LEMMA SimpleBans ==
  ASSUME HandsInv, OrderInv, Simple, [Next]_vars
  PROVE  bans \subseteq bans'
<1>1. ASSUME NEW c \in Conns, ClientStep(c) PROVE bans' = bans
  BY <1>1 DEF ClientStep, Connect, SocketDies, StartJoin, StartPart
<1>2. ASSUME NEW c \in Conns, ConnStep(c) PROVE bans' = bans
  BY <1>2 DEF ConnStep, Register, WriteReady, Autojoin, StartReading, StopReading, Unregister, LeaveAll,
       LeaveNext, CheckBan, Enters, ChannelFor, CreateChannel, EnterChannel, Subscribe, Insert, RecheckBan,
             Undo, Undone, AnnounceJoin, StartPump
<1>3. ASSUME NEW p \in Procs, LeaveStep(p) PROVE bans' = bans
  BY <1>3 DEF LeaveStep, Remove, CloseSub, Await, AnnouncePart
<1>4. ASSUME NEW d \in Mods, NEW v \in given.verbs, NEW t \in given.scopes, NEW j \in Nicks, Resolve(d, v, t, j)
      PROVE  bans' = bans
  BY <1>4 DEF Resolve
<1>5. ASSUME NEW d \in Mods, ModStep(d), ~Store(d) PROVE bans' = bans
  BY <1>5 DEF ModStep, PartTarget, Lookup, Announce, EnforceBan, AnnounceFails
<1>6. ASSUME NEW d \in Mods, Store(d) PROVE bans \subseteq bans'
  <2>1. order[d].verb = "ban"
    <3>1. order[d].verb \in {"none", "ban", "unban"} /\ order[d].verb # "none"
      BY <1>6 DEF Store, HandsInv, TypeInv, HandTypes, OrderType, LocalsInv, ModLocals
    <3>2. order[d].verb # "unban"
      BY <3>1 DEF OrderInv, Resolved, Simple
    <3>3. QED
      BY <3>1, <3>2
  <2>2. QED
    BY <1>6, <2>1 DEF Store
<1>7. ASSUME NEW m \in Mems, PumpStep(m) PROVE bans' = bans
  BY <1>7 DEF PumpStep, PumpEnds, PumpFails, PumpLags, PumpDrops
<1>8. ASSUME NEW n \in Channels, Sweep(n) PROVE bans' = bans
  BY <1>8 DEF Sweep
<1>9. ASSUME NEW b \in bans, Expire(b) PROVE FALSE
  BY <1>9 DEF Expire, Simple
<1>10. CASE UNCHANGED vars
  BY <1>10 DEF vars
<1>11. QED
  BY <1>1, <1>2, <1>3, <1>4, <1>5, <1>6, <1>7, <1>8, <1>9, <1>10 DEF Next, Step

\* A moderator comes to part somebody by storing a ban, and to tear down a membership
\* by taking it out of the table.
LEMMA ModFrame ==
  ASSUME HandsInv, [Next]_vars, NEW d \in Mods, pc'[d] = "part" \/ pc'[d] \in Leaving
  PROVE  /\ order'[d] = order[d]
         /\ \/ pc'[d] = pc[d]
            \/ pc[d] \in Leaving /\ pc'[d] \in Leaving
            \/ PartTarget(d) /\ table[order[d].target][order[d].scope] # 0
            \/ Store(d) /\ order[d].verb = "ban"
<1> USE DEF Goto, Leaving
<1>0. pc \in [Procs -> ConnLabels \cup ModLabels] /\ d \in Procs /\ pc[d] \in ModLabels
  BY DEF HandsInv, PcInv, Procs
<1>1. CASE UNCHANGED <<pc, handVars>> \/ \E a \in Procs \ {d} : Others(a)
  BY <1>0, <1>1 DEF Others, handVars
<1>2. ASSUME NEW v \in given.verbs, NEW s \in given.scopes, NEW k \in Nicks, Resolve(d, v, s, k) PROVE FALSE
  BY <1>0, <1>2 DEF Resolve
<1>3. CASE LeaveStep(d)
  BY <1>0, <1>3 DEF LeaveStep, Remove, CloseSub, Await, AnnouncePart, ModLabels, handVars
<1>4. CASE ModStep(d)
  BY <1>0, <1>4 DEF ModStep, Store, PartTarget, Lookup, Announce, EnforceBan, AnnounceFails, handVars
<1>5. QED
  BY <1>1, <1>2, <1>3, <1>4, Movers

\* At first no moderator parts anybody.
LEMMA SimplyBannedInit == Init => SimplyBanned /\ SimplyOut
BY MembershipAssumption DEF Init, SimplyBanned, SimplyOut, Procs, Leaving

\* Whoever a moderator parts is banned.
LEMMA SimplyBannedNext == HandsInv /\ OrderInv /\ SimplyBanned /\ [Next]_vars => SimplyBanned'
<1> SUFFICES ASSUME HandsInv, OrderInv, SimplyBanned, [Next]_vars, Simple, NEW d \in Mods,
                    pc'[d] = "part" \/ pc'[d] \in Leaving
             PROVE  <<order'[d].scope, order'[d].nick>> \in bans'
  BY SimpleSame DEF SimplyBanned, Leaving
<1>1. order'[d] = order[d] /\ bans \subseteq bans'
  BY ModFrame, SimpleBans
<1>2. CASE pc'[d] = pc[d] \/ pc[d] \in Leaving \/ PartTarget(d)
  BY <1>1, <1>2 DEF SimplyBanned, PartTarget
<1>3. CASE Store(d) /\ order[d].verb = "ban"
  BY <1>1, <1>3 DEF Store
<1>4. QED
  BY <1>2, <1>3, ModFrame

\* A joiner past its first look at the bans came from it unbanned.
LEMMA JoinFrame ==
  ASSUME HandsInv, [Next]_vars, NEW c \in Conns, pc'[c] \in {"channelFor", "create", "subscribe", "insert"}
  PROVE  /\ name'[c] = name[c]
         /\ \/ pc[c] \in {"channelFor", "create", "subscribe", "insert"}
            \/ pc[c] = "checkBan" /\ ~Banned(name[c], c) /\ CheckBan(c)
<1> USE DEF Goto
<1>0. pc \in [Procs -> ConnLabels \cup ModLabels] /\ c \in Procs /\ c \notin Mods
  BY MembershipAssumption DEF HandsInv, PcInv, Procs
<1>1. CASE UNCHANGED <<pc, handVars>> \/ \E a \in Procs \ {c} : Others(a)
  BY <1>0, <1>1 DEF Others, handVars
<1>2. CASE ClientStep(c)
  BY <1>0, <1>2 DEF ClientStep, Connect, SocketDies, StartJoin, StartPart, handVars
<1>3. CASE LeaveStep(c)
  BY <1>0, <1>3 DEF LeaveStep, Remove, CloseSub, Await, AnnouncePart
<1>4. CASE ConnStep(c) /\ ~Autojoin(c)
  BY <1>0, <1>4 DEF ConnStep, Register, WriteReady, StartReading, StopReading, Unregister, LeaveAll,
     LeaveNext, CheckBan, Enters, ChannelFor, CreateChannel, EnterChannel, Subscribe, Insert, RecheckBan,
           Undo, Undone, AnnounceJoin, StartPump, JoinReturns, handVars
<1>5. ~Autojoin(c)
  BY <1>0 DEF Autojoin
<1>6. QED
  BY <1>1, <1>2, <1>3, <1>4, <1>5, Movers

\* Whoever a moderator parts is kept out by the first look at the bans, or had a free place already.
LEMMA SimplyOutNext ==
  HandsInv /\ RoomToJoin /\ OrderInv /\ SimplyBanned /\ SimplyOut /\ [Next]_vars => SimplyOut'
<1> SUFFICES ASSUME HandsInv, RoomToJoin, OrderInv, SimplyBanned, SimplyOut, [Next]_vars, Simple,
                    NEW c \in Conns, NEW d \in Mods,
                    pc'[c] \in {"channelFor", "create", "subscribe", "insert"}, pc'[d] \in Leaving,
                    order'[d].target = c, order'[d].scope = name'[c]
             PROVE  FALSE
  BY SimpleSame DEF SimplyOut, Leaving
<1>1. order'[d] = order[d] /\ name'[c] = name[c]
  BY ModFrame, JoinFrame
<1>2. c # NoConn /\ pc \in [Procs -> ConnLabels \cup ModLabels] /\ c \in Procs /\ d \in Procs /\ c # d
  BY MembershipAssumption DEF HandsInv, PcInv, Procs
<1>3. CASE pc[d] \in Leaving
  <2>1. Banned(name[c], c)
    BY <1>1, <1>2, <1>3 DEF SimplyBanned, OrderInv, Resolved, Banned
  <2>2. QED
    BY <1>1, <1>3, <2>1, JoinFrame DEF SimplyOut
<1>4. CASE PartTarget(d) /\ table[order[d].target][order[d].scope] # 0
  <2>1. pc[c] \in {"channelFor", "create", "subscribe", "insert"}
    <3>1. pc'[c] = pc[c]
      BY <1>2, <1>4 DEF PartTarget, Goto
    <3>2. QED
      BY <3>1
  <2>2. QED
    BY <1>1, <1>4, <2>1 DEF RoomToJoin
<1>5. CASE Store(d)
  BY <1>2, <1>5 DEF Store, Goto, Leaving
<1>6. QED
  BY <1>3, <1>4, <1>5, ModFrame

-----------------------------------------------------------------------------
(* One membership of a room at a time *)

\* Who is making a membership goes on with it.
LEMMA MakingFrame ==
  ASSUME HandsInv, [Next]_vars, NEW c \in Conns, pc'[c] \in Making
  PROVE  \/ Subscribe(c) /\ cur'[c] = Len(mems) + 1 /\ cur'[c] \notin Mems /\ pc'[c] = "insert"
         \/ pc[c] \in Making /\ cur'[c] = cur[c] /\ (pc[c] = "startPump" => pc'[c] = "startPump")
<1> USE DEF Goto, Making, Joining
<1>0. /\ pc \in [Procs -> ConnLabels \cup ModLabels] /\ cur \in [Procs -> 0 .. Len(mems)]
      /\ c \in Procs /\ c \notin Mods /\ Len(mems) \in Nat
  BY MembershipAssumption DEF HandsInv, PcInv, TypeInv, MemTypes, Procs
<1>1. CASE UNCHANGED <<pc, handVars>> \/ \E a \in Procs \ {c} : Others(a)
  BY <1>0, <1>1 DEF Others, handVars
<1>2. CASE ClientStep(c)
  BY <1>0, <1>2 DEF ClientStep, Connect, SocketDies, StartJoin, StartPart, handVars
<1>3. CASE LeaveStep(c)
  BY <1>0, <1>3 DEF LeaveStep, Remove, CloseSub, Await, AnnouncePart, handVars
<1>4. CASE Subscribe(c)
  BY <1>0, <1>4 DEF Subscribe, Mems
<1>5. CASE ConnStep(c) /\ ~Subscribe(c)
  <2>1. CASE Insert(c) \/ RecheckBan(c) \/ Undo(c) \/ AnnounceJoin(c)
    BY <1>0, <2>1 DEF Insert, RecheckBan, Undo, AnnounceJoin, handVars
  <2>2. CASE Undone(c) \/ StartPump(c)
    BY <1>0, <2>2 DEF Undone, StartPump, JoinReturns
  <2>3. CASE ~(Insert(c) \/ RecheckBan(c) \/ Undo(c) \/ AnnounceJoin(c) \/ Undone(c) \/ StartPump(c))
    BY <1>0, <1>5, <2>3 DEF ConnStep, Register, WriteReady, Autojoin, StartReading, StopReading,
          Unregister, LeaveAll,
       LeaveNext, CheckBan, Enters, ChannelFor, CreateChannel, EnterChannel, handVars
  <2>4. QED
    BY <2>1, <2>2, <2>3
<1>6. QED
  BY <1>1, <1>2, <1>3, <1>4, <1>5, Movers

\* A connection holds memberships of its own only.
LEMMA HolderOwns ==
  ASSUME HandsInv, ReadInv, NEW c \in Conns, NEW m \in Mems, Holds(c, m)
  PROVE  mems[m].owner = c
BY DEF Holds, ReadInv, ReadLocals, HandsInv, LocalsInv, ConnLocals, Making, Joining

\* What is somebody's was so, or has just been made.
LEMMA ActiveNew ==
  ASSUME HandsInv, NamesInv, ReadInv, [Next]_vars, NEW m \in Mems', Active(m)'
  PROVE  \/ m \in Mems /\ Active(m)
         \/ \E c \in Conns : Subscribe(c) /\ m = Len(mems) + 1
<1>1. CASE m \notin Mems
  <2>1. PICK c \in Conns : Subscribe(c)
    BY <1>1, MemsLast DEF Mems
  <2>2. m = Len(mems) + 1
    BY <1>1, <2>1, SubscribeEffect DEF Mems, HandsInv, TypeInv, MemTypes
  <2>3. QED
    BY <2>1, <2>2
<1>2. CASE m \in Mems
  <2> DEFINE o == mems[m].owner
  <2>0. mems'[m].owner = o /\ o \in Conns
    BY <1>2, MemFacts, MemsLast
  <2>1. CASE InTable(m)'
    <3>1. ASSUME NEW c \in Conns, Insert(c), cur[c] = m PROVE cur[o] = m /\ pc[o] \in Making
      BY <3>1 DEF Insert, HandsInv, LocalsInv, ConnLocals, Making
    <3>2. QED
      BY <1>2, <2>1, <3>1, InTableNew DEF Active
  <2>2. CASE \E p \in Procs : Holds(p, m)'
    BY <1>2, <2>2, HoldsNew DEF Active
  <2>3. CASE cur'[o] = m /\ pc'[o] \in Making
    BY <1>2, <2>0, <2>3, MakingFrame DEF Active
  <2>4. QED
    BY <2>0, <2>1, <2>2, <2>3 DEF Active
<1>3. QED
  BY <1>1, <1>2

\* A joiner about to subscribe has no membership of that name.
LEMMA SubscribesAlone ==
  ASSUME HandsInv, ReadInv, RoomToJoin, OrderInv, SimplyOut, Simple,
         NEW c \in Conns, pc[c] = "subscribe", NEW q \in Mems, mems[q].owner = c, RoomOf(q).name = name[c]
  PROVE  ~Active(q)
<1>1. ~InTable(q)
  BY DEF InTable, RoomToJoin, Mems
<1>2. ASSUME NEW p \in Procs, Holds(p, q) PROVE FALSE
  <2>1. CASE p \in Conns
    <3>1. p = c
      BY <1>2, <2>1, HolderOwns
    <3>2. QED
      BY <1>2, <3>1 DEF Holds, Leaving, ReadInv, ReadLocals
  <2>2. CASE p \in Mods
    <3>1. pc[p] \in Leaving /\ cur[p] = q
      BY <1>2, <2>2, MembershipAssumption DEF Holds, HandsInv, PcInv, ModLabels
    <3>2. order[p].target = c /\ order[p].scope = name[c]
      BY <2>2, <3>1 DEF OrderInv, Resolved
    <3>3. QED
      BY <2>2, <3>1, <3>2 DEF SimplyOut
  <2>3. QED
    BY <2>1, <2>2 DEF Procs
<1>3. QED
  BY <1>1, <1>2 DEF Active, Making, Joining

\* At first there is no membership.
LEMMA SimplyOneInit == Init => SimplyOne
BY DEF Init, SimplyOne, Mems

\* No second membership of a room is made before the first is torn down.
LEMMA SimplyOneNext ==
  HandsInv /\ NamesInv /\ ReadInv /\ RoomToJoin /\ OrderInv /\ SimplyOut /\ SimplyOne /\ [Next]_vars => SimplyOne'
<1> SUFFICES ASSUME HandsInv, NamesInv, ReadInv, RoomToJoin, OrderInv, SimplyOut, SimplyOne, [Next]_vars, Simple,
                    NEW m \in Mems', NEW q \in Mems', Active(m)', Active(q)',
                    mems'[m].owner = mems'[q].owner, RoomOf(m)'.name = RoomOf(q)'.name
             PROVE  m = q
  BY SimpleSame DEF SimplyOne
<1>1. ASSUME NEW a \in Mems PROVE mems'[a].owner = mems[a].owner /\ RoomOf(a)'.name = RoomOf(a).name
  BY MemFacts, MemsLast, RoomsLast DEF RoomOf
<1>2. CASE m \in Mems /\ Active(m) /\ q \in Mems /\ Active(q)
  BY <1>1, <1>2 DEF SimplyOne
<1>3. ASSUME NEW c \in Conns, Subscribe(c), NEW a \in Mems, Active(a), NEW b \in Mems', b = Len(mems) + 1,
             mems'[a].owner = mems'[b].owner, RoomOf(a)'.name = RoomOf(b)'.name
      PROVE  FALSE
  <2>1. mems'[b].owner = c /\ mems'[b].room = room[c] /\ pc[c] = "subscribe"
    BY <1>3, SubscribeEffect DEF Subscribe
  <2>2. rooms'[room[c]].name = name[c]
    BY <1>3, <2>1, SubscribeEffect, RoomsLast DEF NamesInv, JoinNames
  <2>3. mems[a].owner = c /\ RoomOf(a).name = name[c]
    BY <1>1, <1>3, <2>1, <2>2 DEF RoomOf
  <2>4. QED
    BY <1>3, <2>1, <2>3, SubscribesAlone
<1>4. QED
  BY <1>2, <1>3, ActiveNew

-----------------------------------------------------------------------------
(* A member is listed *)

\* Whose entry is to be removed still was so.
LEMMA PresentBack ==
  ASSUME HandsInv, NamesInv, ReadInv, [Next]_vars, NEW m \in Mems, NEW p \in Procs,
         Holds(p, m)', cur'[p] = m => pc'[p] \in {"leave", "undoRemove"}
  PROVE  InTable(m) \/ (Holds(p, m) /\ (cur[p] = m => pc[p] \in {"leave", "undoRemove"}))
<1> USE DEF Goto, Leaving
<1>0. /\ pc \in [Procs -> ConnLabels \cup ModLabels] /\ cur \in [Procs -> 0 .. Len(mems)]
      /\ todo \in [Procs -> SUBSET Nat]
      /\ \A c \in Conns : c \in Procs /\ c \notin Mods
      /\ p \in Conns \/ (p \in Mods /\ p \notin Conns)
  BY MembershipAssumption DEF HandsInv, PcInv, TypeInv, MemTypes, HandTypes, Procs
<1>1. m \in Mems'
  BY PlaceFrame
<1>2. InTable(m) \/ Holds(p, m)
  BY <1>1, HoldsNew
<1>3. ASSUME Holds(p, m), cur[p] = m, pc[p] \notin {"leave", "undoRemove"} PROVE FALSE
  <2>1. pc[p] \in {"closeSub", "await", "announcePart", "undoClose"}
        /\ (p \in Conns => m \notin todo[p])
    BY <1>3 DEF Holds, ReadInv, ReadLocals
  <2>2. CASE UNCHANGED <<pc, handVars>> \/ \E a \in Procs \ {p} : Others(a)
    BY <1>3, <2>2 DEF Others, handVars
  <2>3. ASSUME p \in Conns, ClientStep(p) PROVE pc' = pc /\ cur' = cur
    BY <2>1, <2>3 DEF ClientStep, Connect, SocketDies, StartJoin, StartPart, handVars
  <2>4. ASSUME p \in Conns PROVE ~ConnStep(p)
    BY <2>1 DEF ConnStep, Register, WriteReady, Autojoin, StartReading, StopReading, Unregister, LeaveAll,
         LeaveNext, CheckBan, Enters, ChannelFor, CreateChannel, EnterChannel, Subscribe, Insert,
               RecheckBan, Undo, Undone, AnnounceJoin, StartPump
  <2>5. ASSUME p \in Mods PROVE ~ModStep(p)
    BY <2>1 DEF ModStep, Store, PartTarget, Lookup, Announce, EnforceBan, AnnounceFails
  <2>6. ASSUME NEW v \in given.verbs, NEW s \in given.scopes, NEW k \in Nicks PROVE ~Resolve(p, v, s, k)
    BY <2>1 DEF Resolve
  <2>7. CASE LeaveStep(p)
    <3>1. todo' = todo /\ pc'[p] \notin {"leave", "undoRemove"}
      BY <1>0, <2>1, <2>7 DEF LeaveStep, Remove, CloseSub, Await, AnnouncePart, handVars
    <3>2. p \in Conns => m \notin todo'[p]
      BY <2>1, <3>1
    <3>3. QED
      BY <3>1, <3>2 DEF Holds
  <2>8. QED
    BY <1>0, <1>3, <2>2, <2>3, <2>4, <2>5, <2>6, <2>7, Movers
<1>4. QED
  BY <1>2, <1>3

\* While nobody is on two connections at once, an entry goes by the leave of a
\* membership of its own connection in that room.
LEMMA EntryGoes ==
  ASSUME HandsInv, MadeInv, OnePerNick, [Next]_vars, NEW r \in Rooms, NEW c \in given.conns,
         rooms[r].members[Nick[c]] = c, rooms'[r].members[Nick[c]] # c
  PROVE  \E p \in Procs : Remove(p) /\ cur[p] \in Mems /\ mems[cur[p]].owner = c /\ mems[cur[p]].room = r
<1>0. c \in Conns /\ c # NoConn /\ Nick[c] \in Nicks
  BY NickType, GivenSame, MembershipAssumption DEF HandsInv, TypeInv, Setting
<1>1. rooms' # rooms
  OBVIOUS
<1>2. ASSUME NEW s, NEW kind, NEW who, NEW words, LogWritten(s, kind, who, words) PROVE FALSE
  BY <1>2 DEF LogWritten
<1>3. ASSUME NEW a \in Conns, Enters(a) PROVE FALSE
  <2>1. CASE EntrySet(channels[name[a]], Nick[a], a)
    <3>1. Nick[a] = Nick[c] /\ a # c
      BY <1>0, <2>1 DEF EntrySet
    <3>2. a \in given.conns
      BY <1>3 DEF Enters, ChannelFor, CreateChannel, EnterChannel, MadeInv
    <3>3. QED
      BY <3>1, <3>2 DEF OnePerNick
  <2>2. QED
    BY <1>1, <1>3, <2>1, ChannelForEffect
<1>4. ASSUME NEW p \in Procs, Remove(p)
      PROVE  cur[p] \in Mems /\ mems[cur[p]].owner = c /\ mems[cur[p]].room = r
  <2>1. PICK m \in Mems : /\ m = cur[p] /\ mems[m].owner \in Conns
                          /\ EntrySet(mems[m].room, Nick[mems[m].owner], NoConn)
    BY <1>1, <1>4, RemoveEffect
  <2>2. mems[m].room = r /\ Nick[mems[m].owner] = Nick[c]
    BY <1>0, <2>1 DEF EntrySet
  <2>3. mems[m].owner \in given.conns
    BY DEF MadeInv
  <2>4. QED
    BY <2>1, <2>2, <2>3 DEF OnePerNick
<1>5. ASSUME NEW n \in Channels, Sweep(n) PROVE FALSE
  BY <1>5, SweptEffect
<1>6. ASSUME NEW a \in Conns, AnnounceJoin(a) PROVE FALSE
  BY <1>2, <1>6, AnnounceEffect
<1>7. ASSUME NEW p \in Procs, AnnouncePart(p) PROVE FALSE
  BY <1>2, <1>7, AnnounceEffect
<1>8. ASSUME NEW d \in Mods, Announce(d) PROVE FALSE
  <2>1. PICK s \in todo[d] \cap Rooms : LogWritten(s, order[d].verb, order[d].nick, {d})
    BY <1>8, AnnounceEffect
  <2>2. QED
    BY <1>2, <2>1
<1>9. QED
  BY <1>1, <1>3, <1>4, <1>5, <1>6, <1>7, <1>8, RoomSteps

\* Until its entry goes, a member is listed.
Listed(m) == RoomOf(m).members[NickOf(m)] = mems[m].owner
ToList(m) == Present(m) \/ (cur[mems[m].owner] = m /\ pc[mems[m].owner] = "insert")

\* Whose entry is needed needed it before, its making apart.
LEMMA ToListNew ==
  ASSUME HandsInv, NamesInv, ReadInv, [Next]_vars, NEW m \in Mems, ToList(m)'
  PROVE  ToList(m) /\ Active(m)
<1> DEFINE o == mems[m].owner
<1>0. mems'[m].owner = o /\ o \in Conns /\ m \in Mems'
  BY MemFacts, MemsLast, PlaceFrame
<1>1. CASE InTable(m)'
  <2>1. ASSUME NEW c \in Conns, Insert(c), cur[c] = m PROVE cur[o] = m /\ pc[o] = "insert"
    BY <2>1 DEF Insert, HandsInv, LocalsInv, ConnLocals, Making
  <2>2. QED
    BY <1>0, <1>1, <2>1, InTableNew DEF ToList, Present, Active, Making
<1>2. ASSUME NEW p \in Procs, Holds(p, m)', cur'[p] = m => pc'[p] \in {"leave", "undoRemove"}
      PROVE  ToList(m) /\ Active(m)
  BY <1>2, PresentBack DEF ToList, Present, Active
<1>3. CASE cur'[o] = m /\ pc'[o] = "insert"
  BY <1>0, <1>3, InsertFrame DEF ToList, Active, Making
<1>4. QED
  BY <1>0, <1>1, <1>2, <1>3 DEF ToList, Present

\* A joiner in the room it joins was put there.
LEMMA SubscribeFrame ==
  ASSUME HandsInv, [Next]_vars, NEW c \in Conns, pc'[c] \in {"subscribe", "insert"}
  PROVE  (pc[c] \in {"subscribe", "insert"} /\ room'[c] = room[c]) \/ Enters(c)
<1> USE DEF Goto
<1>0. /\ pc \in [Procs -> ConnLabels \cup ModLabels]
      /\ c \in Procs /\ c \notin Mods
  BY MembershipAssumption DEF HandsInv, PcInv, Procs
<1>1. CASE UNCHANGED <<pc, handVars>> \/ \E a \in Procs \ {c} : Others(a)
  BY <1>0, <1>1 DEF Others, handVars
<1>2. CASE ClientStep(c)
  BY <1>0, <1>2 DEF ClientStep, Connect, SocketDies, StartJoin, StartPart, handVars
<1>3. CASE LeaveStep(c)
  BY <1>0, <1>3 DEF LeaveStep, Remove, CloseSub, Await, AnnouncePart
<1>4. CASE ConnStep(c) /\ ~Enters(c)
  BY <1>0, <1>4 DEF ConnStep, Enters, Register, WriteReady, Autojoin, StartReading, StopReading,
        Unregister, LeaveAll,
     LeaveNext, CheckBan, Subscribe, Insert, RecheckBan, Undo, Undone, AnnounceJoin, StartPump,
           JoinReturns, handVars
<1>5. QED
  BY <1>1, <1>2, <1>3, <1>4, Movers

\* At first nobody is a member.
LEMMA SimplyListedInit == Init => SimplyListed
BY DEF Init, SimplyListed, Mems, Procs

\* Nobody's entry goes before their own membership does.
LEMMA SimplyListedNext ==
  HandsInv /\ NamesInv /\ ReadInv /\ AloneInv /\ RoomToJoin /\ MadeInv /\ OrderInv /\ SimplyOut /\ SimplyOne
    /\ SimplyListed /\ [Next]_vars => SimplyListed'
<1> SUFFICES ASSUME HandsInv, NamesInv, ReadInv, AloneInv, RoomToJoin, MadeInv, OrderInv, SimplyOut, SimplyOne,
                    SimplyListed, [Next]_vars, Simple
             PROVE  /\ \A m \in Mems' : ToList(m)' => Listed(m)'
                    /\ \A c \in Conns : pc'[c] \in {"subscribe", "insert"} => rooms'[room'[c]].members[Nick[c]] = c
  BY SimpleSame, GivenSame DEF SimplyListed, ToList, Listed, HandsInv, TypeInv, Nick
<1>0. /\ OnePerNick /\ \A c \in Conns : c \in Procs /\ c \notin Mods
      /\ pc \in [Procs -> ConnLabels \cup ModLabels] /\ cur \in [Procs -> 0 .. Len(mems)]
      /\ todo \in [Procs -> SUBSET Nat] /\ \A n : Nick'[n] = Nick[n]
  BY MembershipAssumption, GivenSame DEF Simple, HandsInv, PcInv, TypeInv, MemTypes, HandTypes, Procs, Nick
\* Who removes a membership's entry has it and does not look for the entry again.
<1>1. ASSUME NEW p \in Procs, Remove(p), NEW q \in Mems, cur[p] = q
      PROVE  Holds(p, q) /\ Active(q) /\ Holds(p, q)' /\ cur'[p] = q /\ pc'[p] \notin {"leave", "undoRemove"}
  <2>1. /\ pc[p] \in {"leave", "undoRemove"} /\ cur'[p] = q /\ pc'[p] \in {"closeSub", "undoClose"}
    BY <1>0, <1>1 DEF Remove, Goto, handVars
  <2>2. QED
    BY <1>1, <2>1 DEF Holds, Leaving, Active
<1>2. ASSUME NEW m \in Mems, ToList(m)' PROVE Listed(m)'
  <2> DEFINE o == mems[m].owner
             r == mems[m].room
  <2> USE DEF NickOf
  <2>1. ToList(m) /\ Active(m) /\ rooms[r].members[Nick[o]] = o
    BY <1>2, ToListNew DEF SimplyListed, ToList, RoomOf, NickOf
  <2>2. o \in given.conns /\ r \in Rooms /\ mems'[m].owner = o /\ mems'[m].room = r /\ m \in Mems'
    BY MemFacts, MemsLast, PlaceFrame DEF MadeInv
  <2>3. ASSUME rooms'[r].members[Nick[o]] # o PROVE FALSE
    <3>1. PICK p \in Procs, q \in Mems : Remove(p) /\ cur[p] = q /\ mems[q].owner = o /\ mems[q].room = r
      <4>1. \E p \in Procs : Remove(p) /\ cur[p] \in Mems /\ mems[cur[p]].owner = o /\ mems[cur[p]].room = r
        <5> HIDE DEF o, r
        <5>1. QED
          BY <1>0, <2>1, <2>2, <2>3, EntryGoes
      <4>2. QED
        BY <4>1
    <3>2. q = m
      BY <1>1, <2>1, <3>1 DEF SimplyOne, RoomOf
    <3>3. Holds(p, m)' /\ cur'[p] = m /\ pc'[p] \notin {"leave", "undoRemove"}
      BY <1>1, <3>1, <3>2
    <3>4. AloneInv'
      BY AloneNext
    <3>5. ~InTable(m)'
      BY <2>2, <3>3, <3>4 DEF AloneInv
    <3>6. ASSUME NEW a \in Procs, Holds(a, m)' PROVE a = p
      BY <2>2, <3>3, <3>4, <3>6 DEF AloneInv
    <3>7. ASSUME cur'[o] = m, pc'[o] = "insert" PROVE FALSE
      <4>1. cur[o] = m /\ pc[o] = "insert"
        BY <2>2, <3>7, InsertFrame, MemFacts
      <4>2. QED
        BY <1>1, <3>1, <3>2, <4>1, MemFacts DEF AloneInv
    <3>8. QED
      BY <1>2, <2>2, <3>3, <3>5, <3>6, <3>7 DEF ToList, Present
  <2>4. QED
    BY <1>0, <2>2, <2>3 DEF Listed, RoomOf, NickOf
<1>3. ASSUME NEW m \in Mems', m \notin Mems PROVE Listed(m)'
  <2>1. PICK c \in Conns : Subscribe(c)
    BY <1>3, MemsLast DEF Mems
  <2>2. m = Len(mems) + 1 /\ mems'[m].owner = c /\ mems'[m].room = room[c]
    BY <1>3, <2>1, SubscribeEffect DEF Mems, HandsInv, TypeInv, MemTypes
  <2>3. rooms' = rooms /\ pc[c] = "subscribe"
    BY <2>1 DEF Subscribe, roomVars
  <2>4. rooms[room[c]].members[Nick[c]] = c
    BY <2>3 DEF SimplyListed
  <2>5. QED
    BY <1>0, <2>2, <2>3, <2>4 DEF Listed, RoomOf, NickOf
<1>4. ASSUME NEW c \in Conns, pc'[c] \in {"subscribe", "insert"} PROVE rooms'[room'[c]].members[Nick[c]] = c
  <2>1. CASE Enters(c)
    BY <1>0, <1>4, <2>1, ChannelForEffect, NickType DEF EntrySet, HandsInv, TypeInv, RoomTypes
  <2>2. CASE pc[c] \in {"subscribe", "insert"} /\ room'[c] = room[c]
    <3>1. rooms[room[c]].members[Nick[c]] = c /\ room[c] \in Rooms /\ rooms[room[c]].name = name[c]
      BY <2>2 DEF SimplyListed, HandsInv, LocalsInv, ConnLocals, Making, NamesInv, JoinNames
    <3>2. c \in given.conns
      BY <2>2 DEF MadeInv
    <3>3. ASSUME NEW p \in Procs, Remove(p), NEW q \in Mems, cur[p] = q, mems[q].owner = c, mems[q].room = room[c]
          PROVE  FALSE
      <4>1. Holds(p, q) /\ Active(q) /\ RoomOf(q).name = name[c]
        BY <1>1, <3>1, <3>3 DEF RoomOf
      <4>2. pc[c] = "insert"
        BY <2>2, <3>3, <4>1, SubscribesAlone
      <4>3. PICK m \in Mems : m = cur[c] /\ mems[m].owner = c /\ mems[m].room = room[c]
        BY <4>2 DEF HandsInv, LocalsInv, ConnLocals, Making
      <4>4. Active(m) /\ RoomOf(m).name = name[c]
        BY <3>1, <4>2, <4>3 DEF Active, Making, RoomOf
      <4>5. m = q
        BY <3>3, <4>1, <4>3, <4>4 DEF SimplyOne
      <4>6. QED
        BY <4>1, <4>2, <4>3, <4>5 DEF AloneInv
    <3>4. rooms'[room[c]].members[Nick[c]] = c
      BY <1>0, <3>1, <3>2, <3>3, EntryGoes
    <3>5. QED
      BY <2>2, <3>4
  <2>3. QED
    BY <1>4, <2>1, <2>2, SubscribeFrame
<1>5. QED
  BY <1>2, <1>3, <1>4

-----------------------------------------------------------------------------
(* What a room was last told of somebody *)

LastIn(L, k) ==
  IF MineIn(L, k) = {} THEN "PART"
  ELSE L[CHOOSE i \in MineIn(L, k) : \A j \in MineIn(L, k) : j <= i].kind

\* What a room was last told is a matter of its log.
LEMMA LastOfLog == \A r, k : LastOf(r, k) = LastIn(rooms[r].log, k)
BY DEF LastOf, LastIn, MineIn

\* There is a last one as soon as there is one, and it is a JOIN or a PART.
LEMMA LastAppend ==
  ASSUME NEW L \in Seq(EntryType), NEW e \in EntryType, NEW k, HasLast(L, k)
  PROVE  /\ HasLast(Append(L, e), k)
         /\ LastIn(Append(L, e), k) = IF e.nick = k /\ e.kind \in {"JOIN", "PART"} THEN e.kind ELSE LastIn(L, k)
<1> DEFINE M == Append(L, e)
           n == Len(L) + 1
<1>1. n \in Nat /\ Len(M) = n /\ M[n] = e /\ \A i \in 1 .. Len(L) : M[i] = L[i] /\ i < n
  OBVIOUS
<1>2. CASE e.nick = k /\ e.kind \in {"JOIN", "PART"}
  <2>1. n \in MineIn(M, k) /\ \A j \in MineIn(M, k) : j <= n
    BY <1>1, <1>2 DEF MineIn
  <2>2. \A i \in MineIn(M, k) : (\A j \in MineIn(M, k) : j <= i) => i = n
    BY <1>1, <2>1 DEF MineIn
  <2>3. (CHOOSE i \in MineIn(M, k) : \A j \in MineIn(M, k) : j <= i) = n
    BY <2>1, <2>2
  <2>4. QED
    BY <1>1, <1>2, <2>1, <2>3 DEF HasLast, LastIn
<1>3. CASE ~(e.nick = k /\ e.kind \in {"JOIN", "PART"})
  <2>1. MineIn(M, k) = MineIn(L, k)
    BY <1>1, <1>3 DEF MineIn
  <2>2. CASE MineIn(L, k) = {}
    BY <1>3, <2>1, <2>2 DEF HasLast, LastIn
  <2>3. CASE MineIn(L, k) # {}
    <3>1. (CHOOSE i \in MineIn(L, k) : \A j \in MineIn(L, k) : j <= i) \in 1 .. Len(L)
      BY <2>3 DEF HasLast, MineIn
    <3>2. QED
      BY <1>1, <1>3, <2>1, <2>3, <3>1 DEF HasLast, LastIn
  <2>4. QED
    BY <2>2, <2>3
<1>4. QED
  BY <1>2, <1>3

\* The last word on somebody is a JOIN or a PART.
LEMMA LastType ==
  ASSUME NEW L \in Seq(EntryType), NEW k, HasLast(L, k)
  PROVE  LastIn(L, k) \in {"JOIN", "PART"}
<1>1. CASE MineIn(L, k) = {}
  BY <1>1 DEF LastIn
<1>2. CASE MineIn(L, k) # {}
  <2>1. (CHOOSE i \in MineIn(L, k) : \A j \in MineIn(L, k) : j <= i) \in MineIn(L, k)
    BY <1>2 DEF HasLast
  <2>2. QED
    BY <1>2, <2>1 DEF LastIn, MineIn
<1>3. QED
  BY <1>1, <1>2

\* A log is of announcements.
LEMMA LogType == ASSUME HandsInv, NEW r \in Rooms PROVE rooms[r].log \in Seq(EntryType)
<1>1. rooms[r] \in RoomType
  BY DEF HandsInv, TypeInv, RoomTypes, Rooms
<1>2. QED
  BY <1>1 DEF RoomType, EntryType

\* What is written in a room: a join, a leave, or a sanction.
Joins(r, who) ==
  \E c \in Conns : AnnounceJoin(c) /\ room[c] = r /\ who = Nick[c] /\ Sayable(r, c)
Parts(r, who) ==
  \E p \in Procs : AnnouncePart(p) /\ cur[p] \in Mems /\ mems[cur[p]].room = r /\ who = NickOf(cur[p])
Written(r, kind, who) ==
  /\ rooms[r].open
  /\ rooms'[r].log = Append(rooms[r].log, [kind |-> kind, nick |-> who])
  /\ kind = "JOIN" => Joins(r, who)
  /\ kind = "PART" => Parts(r, who)

\* A join and a leave are announced in the room, once, by the goroutine that has the membership.
LEMMA LogSteps ==
  ASSUME HandsInv, [Next]_vars, NEW r \in Rooms
  PROVE  \/ rooms'[r].log = rooms[r].log
         \/ \E kind \in {"JOIN", "PART", "ban", "unban"}, who \in Nicks : Written(r, kind, who)
<1> DEFINE Same == rooms'[r].log = rooms[r].log
<1>1. ASSUME rooms' = rooms PROVE Same
  BY <1>1
<1>2. ASSUME NEW s, NEW kind, NEW who, NEW words, LogWritten(s, kind, who, words)
      PROVE  Same \/ (s = r /\ rooms[r].open /\ Encodes(r, {who} \cup words) /\ rooms'[r].log = Append(rooms[r].log, [kind |-> kind, nick |-> who]))
  BY <1>2 DEF LogWritten
<1>3. ASSUME NEW c \in Conns, Enters(c) PROVE Same
  BY <1>3, ChannelForEffect DEF EntrySet
<1>4. ASSUME NEW p \in Procs, Remove(p) PROVE Same
  BY <1>4, RemoveEffect DEF EntrySet
<1>5. ASSUME NEW n \in Channels, Sweep(n) PROVE Same
  BY <1>5, SweptEffect
<1>6. ASSUME NEW c \in Conns, AnnounceJoin(c)
      PROVE  Same \/ (/\ rooms[r].open /\ room[c] = r /\ Nick[c] \in Nicks /\ Sayable(r, c)
                      /\ rooms'[r].log = Append(rooms[r].log, [kind |-> "JOIN", nick |-> Nick[c]]))
  <2>1. LogWritten(room[c], "JOIN", Nick[c], {c}) /\ Nick[c] \in Nicks
    BY <1>6, AnnounceEffect, NickType DEF HandsInv, TypeInv
  <2>2. Same \/ (/\ room[c] = r /\ rooms[r].open /\ Encodes(r, {Nick[c]} \cup {c})
                 /\ rooms'[r].log = Append(rooms[r].log, [kind |-> "JOIN", nick |-> Nick[c]]))
    BY <1>2, <2>1
  <2>3. Encodes(r, {Nick[c]} \cup {c}) => Sayable(r, c)
    BY DEF Sayable, Encodes
  <2>4. QED
    BY <2>1, <2>2, <2>3
<1>7. ASSUME NEW p \in Procs, AnnouncePart(p)
      PROVE  Same \/ (/\ rooms[r].open /\ cur[p] \in Mems /\ mems[cur[p]].room = r /\ NickOf(cur[p]) \in Nicks
                      /\ rooms'[r].log = Append(rooms[r].log, [kind |-> "PART", nick |-> NickOf(cur[p])]))
  BY <1>2, <1>7, AnnounceEffect, MemFacts
<1>8. ASSUME NEW d \in Mods, Announce(d)
      PROVE  Same \/ (/\ rooms[r].open /\ order[d].verb \in {"ban", "unban"} /\ order[d].nick \in Nicks
                      /\ rooms'[r].log = Append(rooms[r].log, [kind |-> order[d].verb, nick |-> order[d].nick]))
  <2>1. PICK s \in todo[d] \cap Rooms : LogWritten(s, order[d].verb, order[d].nick, {d}) /\ order[d].verb \in {"ban", "unban"}
    BY <1>8, AnnounceEffect
  <2>2. order[d].nick \in Nicks
    BY <1>8 DEF Announce, HandsInv, LocalsInv, ModLocals
  <2>3. QED
    BY <1>2, <2>1, <2>2
<1>9. ASSUME NEW c \in Conns, AnnounceJoin(c), ~Same PROVE Nick[c] \in Nicks /\ Written(r, "JOIN", Nick[c])
  BY <1>6, <1>9 DEF Written, Joins
<1>10. ASSUME NEW p \in Procs, AnnouncePart(p), ~Same PROVE NickOf(cur[p]) \in Nicks /\ Written(r, "PART", NickOf(cur[p]))
  BY <1>7, <1>10 DEF Written, Parts
<1>11. ASSUME NEW d \in Mods, Announce(d), ~Same
       PROVE  \E kind \in {"ban", "unban"}, who \in Nicks : Written(r, kind, who)
  BY <1>8, <1>11 DEF Written
<1>12. Same \/ \E kind \in {"JOIN", "PART", "ban", "unban"}, who \in Nicks : Written(r, kind, who)
  <2> HIDE DEF Same
  <2>1. QED
    BY <1>1, <1>3, <1>4, <1>5, <1>9, <1>10, <1>11, RoomSteps
<1>13. QED
  BY <1>12

\* A new room has been told nothing.
LEMMA NewLog ==
  ASSUME HandsInv, [Next]_vars, NEW r \in Rooms', r \notin Rooms
  PROVE  rooms'[r].log = << >>
<1>1. PICK c \in Conns : Enters(c)
  BY RoomsLast DEF Rooms
<1>2. Len(rooms) \in Nat
  BY DEF HandsInv, TypeInv, RoomTypes
<1>3. QED
  BY <1>1, <1>2, ChannelForEffect DEF Rooms, EntrySet, RoomsWritten

\* At first nothing was told.
LEMMA ToldInit == Init => Told
BY DEF Init, Told, Rooms

\* A log that tells of somebody has a last word on them.
LEMMA ToldNext == HandsInv /\ Told /\ [Next]_vars => Told'
<1> SUFFICES ASSUME HandsInv, Told, [Next]_vars, NEW r \in Rooms', NEW k \in Nicks
             PROVE  HasLast(rooms'[r].log, k)
  BY DEF Told
<1>1. CASE r \in Rooms
  <2>1. HasLast(rooms[r].log, k) /\ rooms[r].log \in Seq(EntryType)
    BY <1>1, LogType DEF Told
  <2>2. ASSUME NEW kind \in {"JOIN", "PART", "ban", "unban"}, NEW who \in Nicks,
               rooms'[r].log = Append(rooms[r].log, [kind |-> kind, nick |-> who])
        PROVE  HasLast(rooms'[r].log, k)
    <3>1. [kind |-> kind, nick |-> who] \in EntryType
      BY DEF EntryType
    <3>2. QED
      BY <2>1, <2>2, <3>1, LastAppend
  <2>3. CASE rooms'[r].log = rooms[r].log
    BY <2>1, <2>3
  <2>4. ASSUME rooms'[r].log # rooms[r].log PROVE HasLast(rooms'[r].log, k)
    <3>1. \E kind \in {"JOIN", "PART", "ban", "unban"}, who \in Nicks :
            rooms'[r].log = Append(rooms[r].log, [kind |-> kind, nick |-> who])
      BY <1>1, <2>4, LogSteps DEF Written
    <3>2. QED
      BY <2>2, <3>1
  <2>5. QED
    BY <2>3, <2>4
<1>2. CASE r \notin Rooms
  BY <1>2, NewLog DEF HasLast, MineIn
<1>3. QED
  BY <1>1, <1>2

-----------------------------------------------------------------------------
(* What a room was last told of somebody is so *)

\* A channel that was swept stays closed.
LEMMA OpenLast == ASSUME HandsInv, [Next]_vars, NEW r \in Rooms, rooms'[r].open PROVE rooms[r].open
<1>1. ASSUME NEW c \in Conns, Enters(c) PROVE rooms[r].open
  BY <1>1, ChannelForEffect DEF EntrySet
<1>2. ASSUME NEW p \in Procs, Remove(p) PROVE rooms[r].open
  BY <1>2, RemoveEffect DEF EntrySet
<1>3. ASSUME NEW n \in Channels, Sweep(n) PROVE rooms[r].open
  BY <1>3, SweptEffect
<1>4. ASSUME NEW s, NEW kind, NEW who, NEW words, LogWritten(s, kind, who, words) PROVE rooms[r].open
  BY <1>4 DEF LogWritten
<1>5. ASSUME NEW c \in Conns, AnnounceJoin(c) PROVE rooms[r].open
  BY <1>4, <1>5, AnnounceEffect
<1>6. ASSUME NEW p \in Procs, AnnouncePart(p) PROVE rooms[r].open
  BY <1>4, <1>6, AnnounceEffect
<1>7. ASSUME NEW d \in Mods, Announce(d) PROVE rooms[r].open
  <2>1. PICK s \in todo[d] \cap Rooms : LogWritten(s, order[d].verb, order[d].nick, {d})
    BY <1>7, AnnounceEffect
  <2>2. QED
    BY <1>4, <2>1
<1>8. QED
  BY <1>1, <1>2, <1>3, <1>5, <1>6, <1>7, RoomSteps

\* A membership is announced once, and not again unannounced.
LEMMA UnannouncedBack ==
  ASSUME HandsInv, [Next]_vars, NEW m \in Mems, Unannounced(m)'
  PROVE  Unannounced(m)
<1> DEFINE o == mems[m].owner
<1>1. mems'[m].owner = o /\ o \in Conns
  BY MemFacts, MemsLast
<1>2. cur'[o] = m /\ pc'[o] \in Making /\ pc'[o] # "startPump"
  BY <1>1 DEF Unannounced, Making, Joining
<1>3. pc[o] \in Making /\ cur[o] = m /\ pc[o] # "startPump"
  BY <1>1, <1>2, MakingFrame
<1>4. QED
  BY <1>3 DEF Unannounced, Making, Joining

\* A membership comes to be announced by its connection's JOIN, unless the join is undone.
LEMMA AnnouncedNew ==
  ASSUME HandsInv, [Next]_vars, NEW m \in Mems, Unannounced(m), ~Unannounced(m)'
  PROVE  LET o == mems[m].owner IN cur[o] = m /\ (AnnounceJoin(o) \/ Undone(o))
<1> DEFINE o == mems[m].owner
<1> USE DEF Goto
<1>0. /\ pc \in [Procs -> ConnLabels \cup ModLabels] /\ o \in Conns /\ o \in Procs /\ o \notin Mods
      /\ mems'[m].owner = o
      /\ cur[o] = m
      /\ pc[o] \in {"insert", "recheckBan", "undo", "undoRemove", "undoClose", "undone", "announceJoin"}
      /\ ~(/\ cur'[o] = m
           /\ pc'[o] \in {"insert", "recheckBan", "undo", "undoRemove", "undoClose", "undone", "announceJoin"})
  BY MemFacts, MemsLast, MembershipAssumption DEF HandsInv, PcInv, Procs, Unannounced
<1> HIDE DEF o
<1>1. CASE UNCHANGED <<pc, handVars>> \/ \E a \in Procs \ {o} : Others(a)
  BY <1>0, <1>1 DEF Others, handVars
<1>2. CASE ClientStep(o)
  BY <1>0, <1>2 DEF ClientStep, Connect, SocketDies, StartJoin, StartPart, handVars
<1>3. CASE LeaveStep(o)
  BY <1>0, <1>3 DEF LeaveStep, Remove, CloseSub, Await, AnnouncePart, handVars
<1>4. CASE ConnStep(o)
  <2>1. CASE AnnounceJoin(o) \/ Undone(o)
    BY <1>0, <2>1 DEF o
  <2>2. CASE Insert(o) \/ RecheckBan(o) \/ Undo(o)
    BY <1>0, <2>2 DEF Insert, RecheckBan, Undo, handVars
  <2>3. CASE ~(AnnounceJoin(o) \/ Undone(o) \/ Insert(o) \/ RecheckBan(o) \/ Undo(o))
    BY <1>0, <1>4, <2>3 DEF ConnStep, Register, WriteReady, Autojoin, StartReading, StopReading,
          Unregister, LeaveAll,
       LeaveNext, CheckBan, Enters, ChannelFor, CreateChannel, EnterChannel, Subscribe, StartPump
  <2>4. QED
    BY <2>1, <2>2, <2>3
<1>5. QED
  BY <1>0, <1>1, <1>2, <1>3, <1>4, Movers

\* At first no room was told of anybody.
LEMMA SimplyToldInit == Init => SimplyTold
BY DEF Init, SimplyTold, Mems, Rooms

\* The leave of somebody is that of their one membership of the room.
LEMMA OnlyLeave ==
  ASSUME HandsInv, MadeInv, SimplyOne, Simple, NEW p \in Procs, AnnouncePart(p), cur[p] \in Mems,
         NEW m \in Mems, Active(m), mems[m].room = mems[cur[p]].room, NickOf(m) = NickOf(cur[p])
  PROVE  Holds(p, m) /\ cur[p] = m
<1>1. PICK q \in Mems : q = cur[p]
  OBVIOUS
<1>2. Holds(p, q)
  BY <1>1 DEF AnnouncePart, Holds, Leaving
<1>3. mems[q].owner = mems[m].owner
  BY <1>1 DEF MadeInv, Simple, OnePerNick, NickOf
<1>4. q = m
  BY <1>1, <1>2, <1>3 DEF SimplyOne, Active, RoomOf
<1>5. QED
  BY <1>1, <1>2, <1>4

\* The last word on somebody is a JOIN exactly while their announced membership is not torn down.
LEMMA SimplyToldNext ==
  HandsInv /\ NamesInv /\ ReadInv /\ AloneInv /\ KeptInv /\ EntryInv /\ RoomToJoin /\ MadeInv
    /\ SimplyOne /\ SimplyListed /\ Told /\ SimplyTold /\ [Next]_vars => SimplyTold'
<1> DEFINE Speaks(r, c) == ({rooms'[r].name} \cup {Nick[c], c}) \cap given.garbled = {}
<1> SUFFICES ASSUME HandsInv, NamesInv, ReadInv, AloneInv, KeptInv, EntryInv, RoomToJoin, MadeInv,
                    SimplyOne, SimplyListed, Told, SimplyTold, [Next]_vars, Simple
             PROVE  /\ \A m \in Mems' :
                         InTable(m)' /\ ~Unannounced(m)' /\ Speaks(mems'[m].room, mems'[m].owner) =>
                           LastIn(rooms'[mems'[m].room].log, Nick[mems'[m].owner]) = "JOIN"
                    /\ \A r \in Rooms', c \in given.conns :
                         rooms'[r].open /\ LastIn(rooms'[r].log, Nick[c]) = "JOIN" =>
                           /\ Speaks(r, c)
                           /\ \E m \in Mems' :
                                /\ mems'[m].owner = c /\ mems'[m].room = r
                                /\ (InTable(m)' \/ \E p \in Procs : Holds(p, m)') /\ ~Unannounced(m)'
  <2>1. \A r, k : LastOf(r, k)' = LastIn(rooms'[r].log, k)
    BY DEF LastOf, LastIn, MineIn
  <2>2. HandsInv /\ [Next]_vars => given' = given /\ \A c : Nick'[c] = Nick[c]
    BY GivenSame DEF HandsInv, TypeInv, Nick
  <2>3. QED
    BY <2>1, <2>2, SimpleSame DEF SimplyTold, NickOf, Sayable, Encodes
<1>0. \A r, k : LastOf(r, k) = LastIn(rooms[r].log, k)
  BY LastOfLog
<1>s. \A r \in Rooms : \A c : Speaks(r, c) <=> Sayable(r, c)
  BY RoomsLast DEF Sayable, Encodes
<1> HIDE DEF Speaks
<1>1. ASSUME NEW m \in Mems', InTable(m)', ~Unannounced(m)', Speaks(mems'[m].room, mems'[m].owner)
      PROVE  LastIn(rooms'[mems'[m].room].log, Nick[mems'[m].owner]) = "JOIN"
  <2> DEFINE o == mems[m].owner
             r == mems[m].room
             k == Nick[o]
  <2>1. m \in Mems
    BY <1>1, InTableNew
  <2>2. /\ mems'[m].owner = o /\ mems'[m].room = r /\ o \in Conns /\ r \in Rooms /\ k \in Nicks
        /\ HasLast(rooms[r].log, k) /\ rooms[r].log \in Seq(EntryType) /\ NickOf(m) = k
        /\ Sayable(r, o)
    BY <1>1, <1>s, <2>1, MemFacts, MemsLast, LogType DEF Told, NickOf
  <2>3. InTable(m)
    <3>1. ASSUME NEW c \in Conns, Insert(c), cur[c] = m PROVE FALSE
      <4>1. c = o /\ pc'[c] = "recheckBan" /\ cur'[c] = m
        BY <3>1 DEF Insert, Goto, HandsInv, PcInv, LocalsInv, ConnLocals, Making, Procs, handVars
      <4>2. QED
        BY <1>1, <2>2, <4>1 DEF Unannounced
    <3>2. QED
      BY <1>1, <3>1, InTableNew
  <2>4. CASE ~Unannounced(m)
    <3>1. LastIn(rooms[r].log, k) = "JOIN"
      BY <1>0, <2>1, <2>2, <2>3, <2>4 DEF SimplyTold
    <3>2. ASSUME NEW kind \in {"JOIN", "PART", "ban", "unban"}, NEW who \in Nicks,
                 rooms'[r].log = Append(rooms[r].log, [kind |-> kind, nick |-> who]),
                 kind = "PART" => who # k
          PROVE  LastIn(rooms'[r].log, k) = "JOIN"
      <4>1. [kind |-> kind, nick |-> who] \in EntryType
        BY DEF EntryType
      <4>2. QED
        BY <2>2, <3>1, <3>2, <4>1, LastAppend
    <3>3. ASSUME NEW p \in Procs, AnnouncePart(p), cur[p] \in Mems, mems[cur[p]].room = r, NickOf(cur[p]) = k
          PROVE  FALSE
      <4>1. Holds(p, m)
        BY <2>1, <2>2, <2>3, <3>3, OnlyLeave DEF Active
      <4>2. QED
        BY <2>1, <2>3, <4>1 DEF AloneInv
    <3> HIDE DEF o, r, k
    <3>4. CASE rooms'[r].log = rooms[r].log
      BY <2>2, <3>1, <3>4 DEF k, o, r
    <3>5. ASSUME rooms'[r].log # rooms[r].log PROVE LastIn(rooms'[r].log, k) = "JOIN"
      <4>1. PICK kind \in {"JOIN", "PART", "ban", "unban"}, who \in Nicks : Written(r, kind, who)
        BY <2>2, <3>5, LogSteps
      <4>2. kind = "PART" => who # k
        BY <3>3, <4>1 DEF Written, Parts
      <4>3. QED
        BY <3>2, <4>1, <4>2 DEF Written
    <3>6. QED
      BY <2>2, <3>4, <3>5 DEF k, o, r
  <2>5. CASE Unannounced(m)
    <3>1. cur[o] = m /\ (AnnounceJoin(o) \/ Undone(o))
      BY <1>1, <2>1, <2>5, AnnouncedNew
    <3>2. ~Undone(o)
      BY <2>2, <2>3, <3>1 DEF Undone, AloneInv
    <3>3. room[o] = r /\ AnnounceJoin(o)
      BY <2>2, <3>1, <3>2 DEF AnnounceJoin, HandsInv, LocalsInv, ConnLocals, Making, Joining
    <3>4. rooms[r].members[k] = o /\ o # NoConn
      BY <2>1, <2>2, <2>3, MembershipAssumption DEF SimplyListed, Present, RoomOf
    <3>5. rooms[r].open
      BY <2>2, <3>4 DEF EntryInv
    <3>6. rooms'[r].log = Append(rooms[r].log, [kind |-> "JOIN", nick |-> k])
      <4>1. Encodes(r, {k} \cup {o})
        BY <2>2 DEF Sayable, Encodes
      <4>2. QED
        BY <2>2, <3>3, <3>5, <4>1, AnnounceEffect DEF LogWritten
    <3>7. [kind |-> "JOIN", nick |-> k] \in EntryType
      BY <2>2 DEF EntryType
    <3>8. LastIn(rooms'[r].log, k) = "JOIN"
      BY <2>2, <3>6, <3>7, LastAppend
    <3>9. QED
      BY <2>2, <3>8
  <2>6. QED
    BY <2>4, <2>5
<1>2. ASSUME NEW r \in Rooms', NEW c \in given.conns, rooms'[r].open, LastIn(rooms'[r].log, Nick[c]) = "JOIN"
      PROVE  /\ Speaks(r, c)
             /\ \E m \in Mems' : /\ mems'[m].owner = c /\ mems'[m].room = r
                                 /\ (InTable(m)' \/ \E p \in Procs : Holds(p, m)') /\ ~Unannounced(m)'
  <2>1. r \in Rooms
    <3>1. ASSUME r \notin Rooms PROVE LastIn(rooms'[r].log, Nick[c]) = "PART"
      BY <3>1, NewLog DEF LastIn, MineIn
    <3>2. QED
      BY <1>2, <3>1
  <2>2. /\ rooms[r].open /\ c \in Conns /\ Nick[c] \in Nicks
        /\ HasLast(rooms[r].log, Nick[c]) /\ rooms[r].log \in Seq(EntryType)
    BY <1>2, <2>1, OpenLast, LogType, NickType, GivenSame DEF Told, HandsInv, TypeInv, Setting
  <2>3. CASE LastIn(rooms[r].log, Nick[c]) = "JOIN"
    <3>1. PICK m \in Mems : /\ mems[m].owner = c /\ mems[m].room = r
                            /\ (InTable(m) \/ \E p \in Procs : Holds(p, m)) /\ ~Unannounced(m)
      BY <1>0, <2>1, <2>2, <2>3 DEF SimplyTold
    <3>s. Sayable(r, c)
      BY <1>0, <2>1, <2>2, <2>3 DEF SimplyTold
    <3>2. ASSUME NEW p \in Procs, Holds(p, m), ~Holds(p, m)' PROVE FALSE
      <4>1. CASE AnnouncePart(p) /\ cur[p] = m
        <5>1. rooms'[r].log = Append(rooms[r].log, [kind |-> "PART", nick |-> Nick[c]])
          <6>1. Encodes(r, {Nick[c]} \cup {})
            BY <3>s DEF Sayable, Encodes
          <6>2. QED
            BY <2>2, <3>1, <4>1, <6>1, AnnounceEffect DEF LogWritten, NickOf
        <5>2. [kind |-> "PART", nick |-> Nick[c]] \in EntryType
          BY <2>2 DEF EntryType
        <5>3. LastIn(rooms'[r].log, Nick[c]) = "PART"
          BY <2>2, <5>1, <5>2, LastAppend
        <5>4. QED
          BY <1>2, <5>3
      <4>2. CASE CloseSub(p) /\ pc[p] = "undoClose" /\ cur[p] = m
        <5>1. p \in Conns
          BY <4>2 DEF HandsInv, PcInv, ModLabels, Procs, Leaving
        <5>2. p = c
          BY <3>1, <3>2, <5>1, HolderOwns
        <5>3. QED
          BY <3>1, <4>2, <5>2 DEF Unannounced
      <4>3. QED
        BY <3>2, <4>1, <4>2, HoldsGone
    <3>3. InTable(m)' \/ \E p \in Procs : Holds(p, m)'
      BY <3>1, <3>2, InTableGone
    <3>4. ~Unannounced(m)'
      BY <3>1, UnannouncedBack
    <3>5. QED
      BY <1>s, <2>1, <3>1, <3>3, <3>4, <3>s, MemsLast, PlaceFrame
  <2>4. CASE LastIn(rooms[r].log, Nick[c]) # "JOIN"
    <3>1. AnnounceJoin(c) /\ room[c] = r /\ Sayable(r, c)
      <4>1. ASSUME NEW kind \in {"JOIN", "PART", "ban", "unban"}, NEW who \in Nicks,
                   rooms'[r].log = Append(rooms[r].log, [kind |-> kind, nick |-> who])
            PROVE  kind = "JOIN" /\ who = Nick[c]
        <5>1. [kind |-> kind, nick |-> who] \in EntryType
          BY DEF EntryType
        <5>2. QED
          BY <1>2, <2>2, <2>4, <4>1, <5>1, LastAppend
      <4>2. PICK a \in Conns : AnnounceJoin(a) /\ room[a] = r /\ Nick[a] = Nick[c] /\ Sayable(r, a)
        <5>1. rooms'[r].log # rooms[r].log
          BY <1>2, <2>4
        <5>2. PICK kind \in {"JOIN", "PART", "ban", "unban"}, who \in Nicks : Written(r, kind, who)
          BY <2>1, <5>1, LogSteps
        <5>3. kind = "JOIN" /\ who = Nick[c]
          BY <4>1, <5>2 DEF Written
        <5>4. QED
          BY <5>2, <5>3 DEF Written, Joins
      <4>3. a \in given.conns
        BY <4>2 DEF AnnounceJoin, MadeInv
      <4>4. a = c
        BY <4>2, <4>3 DEF Simple, OnePerNick
      <4>5. QED
        BY <4>2, <4>4
    <3>2. PICK m \in Mems : m = cur[c] /\ mems[m].owner = c /\ mems[m].room = r /\ mems[m].pump = "none"
      BY <2>2, <3>1 DEF AnnounceJoin, HandsInv, LocalsInv, ConnLocals, Making, Joining
    <3>3. InTable(m) \/ \E p \in Procs : Holds(p, m)
      BY <3>1, <3>2 DEF AnnounceJoin, KeptInv, Kept
    <3>4. /\ table' = table /\ mems' = mems /\ cur' = cur /\ todo' = todo
          /\ pc'[c] = "startPump" /\ \A p \in Procs : p # c => pc'[p] = pc[p]
      BY <2>2, <3>1 DEF AnnounceJoin, Goto, HandsInv, PcInv, Procs, memVars, handVars
    <3>5. pc[c] = "announceJoin"
      BY <3>1 DEF AnnounceJoin
    <3>6. ASSUME NEW p \in Procs, Holds(p, m) PROVE Holds(p, m)'
      BY <3>4, <3>5, <3>6 DEF Holds, Leaving
    <3>7. InTable(m)' \/ \E p \in Procs : Holds(p, m)'
      BY <3>3, <3>4, <3>6, PlaceFrame DEF InTable
    <3>8. ~Unannounced(m)'
      BY <3>2, <3>4 DEF Unannounced
    <3>9. QED
      BY <1>s, <2>1, <3>1, <3>2, <3>4, <3>7, <3>8, PlaceFrame
  <2>5. QED
    BY <2>3, <2>4
<1>3. QED
  BY <1>1, <1>2

-----------------------------------------------------------------------------
(* Who waits for whom *)

\* A pump that has not begun is its connection's to begin.
StartedInv ==
  \A m \in Mems : mems[m].pump = "none" => cur[mems[m].owner] = m /\ pc[mems[m].owner] \in Making

\* No pump goes back.
LEMMA PumpBack ==
  ASSUME HandsInv, [Next]_vars, NEW m \in Mems, mems'[m].pump = "none"
  PROVE  mems[m].pump = "none" /\ \A c \in Conns : Undone(c) \/ StartPump(c) => cur[c] # m
<1>0. mems \in Seq(MemType)
  BY DEF HandsInv, TypeInv, MemTypes
<1>1. CASE UNCHANGED mems /\ ~\E c \in Conns : Undone(c) \/ StartPump(c)
  BY <1>1
<1>2. ASSUME NEW c \in Conns, LeaveAll(c) \/ Insert(c) \/ Undo(c) \/ \E n \in given.channels : StartPart(c, n)
      PROVE  UNCHANGED mems
  BY <1>2 DEF LeaveAll, Insert, Undo, StartPart
<1>3. ASSUME NEW c \in Conns, Subscribe(c) PROVE mems'[m] = mems[m]
  BY <1>3, SubscribeEffect
<1>4. ASSUME NEW c \in Conns, Undone(c) \/ StartPump(c) PROVE mems'[m] = mems[m] /\ cur[c] # m
  <2>1. cur[c] \in Mems
    BY <1>4 DEF Undone, StartPump, HandsInv, LocalsInv, ConnLocals, Making, Joining
  <2>2. mems' = [mems EXCEPT ![cur[c]].pump = "done"] \/ mems' = [mems EXCEPT ![cur[c]].pump = "running"]
    BY <1>4 DEF Undone, StartPump
  <2>3. MemKept(cur[c]) /\ mems'[cur[c]].pump \in {"done", "running"}
    BY <1>0, <2>1, <2>2, PumpEffect
  <2>4. QED
    BY <2>3 DEF MemKept
<1>5. ASSUME NEW p \in Procs, CloseSub(p) PROVE mems'[m].pump = mems[m].pump
  <2>1. cur[p] \in Mems
    BY <1>5 DEF CloseSub, HandsInv, PcInv, LocalsInv, ConnLocals, HandLocals, Making, Joining, Leaving,
          Procs, ModLabels
  <2>2. MemKept(cur[p]) /\ mems'[cur[p]].pump = mems[cur[p]].pump
    BY <1>0, <1>5, <2>1, CloseEffect DEF CloseSub
  <2>3. QED
    BY <2>2 DEF MemKept
<1>6. ASSUME NEW d \in Mods, PartTarget(d) PROVE UNCHANGED mems
  BY <1>6 DEF PartTarget
<1>7. ASSUME NEW i \in Mems, PumpStep(i) PROVE mems'[m] = mems[m]
  BY <1>0, <1>7, PumpStepEffect DEF MemKept
<1>8. mems[m].pump = "none"
  BY <1>2, <1>3, <1>4, <1>5, <1>6, <1>7, MemSteps
<1>9. QED
  BY <1>4, <1>8

\* Who is making a membership makes it to the end.
LEMMA MakingGoesOn ==
  ASSUME HandsInv, [Next]_vars, NEW c \in Conns, pc[c] \in Making
  PROVE  \/ Undone(c) \/ StartPump(c)
         \/ pc'[c] \in Making /\ cur'[c] = cur[c]
<1> USE DEF Goto, Making, Joining
<1>0. /\ pc \in [Procs -> ConnLabels \cup ModLabels] /\ cur \in [Procs -> 0 .. Len(mems)]
      /\ c \in Procs /\ c \notin Mods
  BY MembershipAssumption DEF HandsInv, PcInv, TypeInv, MemTypes, Procs
<1>1. CASE UNCHANGED <<pc, handVars>> \/ \E a \in Procs \ {c} : Others(a)
  BY <1>0, <1>1 DEF Others, handVars
<1>2. CASE ClientStep(c)
  BY <1>0, <1>2 DEF ClientStep, Connect, SocketDies, StartJoin, StartPart, handVars
<1>3. CASE LeaveStep(c)
  BY <1>0, <1>3 DEF LeaveStep, Remove, CloseSub, Await, AnnouncePart, handVars
<1>4. CASE Insert(c) \/ RecheckBan(c) \/ Undo(c) \/ AnnounceJoin(c)
  BY <1>0, <1>4 DEF Insert, RecheckBan, Undo, AnnounceJoin, handVars
<1>5. CASE ConnStep(c) /\ ~(Insert(c) \/ RecheckBan(c) \/ Undo(c) \/ AnnounceJoin(c) \/ Undone(c) \/ StartPump(c))
  BY <1>0, <1>5 DEF ConnStep, Register, WriteReady, Autojoin, StartReading, StopReading, Unregister, LeaveAll,
     LeaveNext, CheckBan, Enters, ChannelFor, CreateChannel, EnterChannel, Subscribe
<1>6. QED
  BY <1>1, <1>2, <1>3, <1>4, <1>5, Movers

\* At first there is no pump to begin.
LEMMA StartedInit == Init => StartedInv
BY DEF Init, StartedInv, Mems

\* A pump is begun, or given up, by the join that made its membership.
LEMMA StartedNext == HandsInv /\ StartedInv /\ [Next]_vars => StartedInv'
<1> SUFFICES ASSUME HandsInv, StartedInv, [Next]_vars, NEW m \in Mems', mems'[m].pump = "none"
             PROVE  cur'[mems'[m].owner] = m /\ pc'[mems'[m].owner] \in Making
  BY DEF StartedInv
<1>1. CASE m \notin Mems
  <2>1. PICK c \in Conns : Subscribe(c)
    BY <1>1, MemsLast DEF Mems
  <2>2. m = Len(mems) + 1 /\ mems'[m].owner = c
    BY <1>1, <2>1, SubscribeEffect DEF Mems, HandsInv, TypeInv, MemTypes
  <2>3. cur'[c] = Len(mems) + 1 /\ pc'[c] = "insert"
    BY <2>1 DEF Subscribe, Goto, HandsInv, PcInv, TypeInv, MemTypes, Procs
  <2>4. QED
    BY <2>2, <2>3 DEF Making
<1>2. CASE m \in Mems
  <2> DEFINE o == mems[m].owner
  <2>1. mems'[m].owner = o /\ o \in Conns
    BY <1>2, MemFacts, MemsLast
  <2>2. Undone(o) \/ StartPump(o) => cur[o] # m
    BY <1>2, <2>1, PumpBack
  <2>3. mems[m].pump = "none"
    BY <1>2, PumpBack
  <2>4. cur[o] = m /\ pc[o] \in Making
    BY <1>2, <2>3 DEF StartedInv
  <2>5. cur'[o] = m /\ pc'[o] \in Making
    BY <2>1, <2>2, <2>4, MakingGoesOn
  <2>6. QED
    BY <2>1, <2>5
<1>3. QED
  BY <1>1, <1>2

-----------------------------------------------------------------------------
(* The theorems *)

\* The invariant: each part is kept with the help of those before it.
IInv ==
  /\ HandsInv /\ NamesInv /\ ReadInv /\ TableInv /\ RoomToJoin /\ MadeInv
  /\ AloneInv /\ KeptInv /\ EntryInv
  /\ OrderInv /\ RoomBan /\ ServerBan /\ SimplyBanned /\ SimplyOut /\ SimplyOne /\ SimplyListed
  /\ Told /\ SimplyTold /\ StartedInv

\* The invariant holds at first ...
LEMMA IInvInit == Init => IInv
BY HandsInit, NamesInit, ReadInit, TableInit, RoomToJoinInit, MadeInit, AloneInit, KeptInit, EntryInit,
   OrderInit, BanInit, SimplyBannedInit, SimplyOneInit, SimplyListedInit, ToldInit, SimplyToldInit,
   StartedInit DEF IInv

\* ... and every step keeps it.
LEMMA IInvNext == IInv /\ [Next]_vars => IInv'
BY HandsNext, NamesNext, ReadNext, TableNext, RoomToJoinNext, MadeNext, AloneNext, KeptNext, EntryNext,
   OrderNext, RoomBanNext, ServerBanNext, SimplyBannedNext, SimplyOutNext, SimplyOneNext, SimplyListedNext,
         ToldNext,
   SimplyToldNext, StartedNext DEF IInv

\* The inductive invariant is an invariant.
THEOREM Inductive == Spec => []IInv
BY IInvInit, IInvNext, PTL DEF Spec

\* Every variable has its type, whatever the setting.
THEOREM TypeCorrect == Spec => []TypeOK
<1>1. IInv => TypeOK
  BY Typed DEF IInv
<1>2. QED
  BY <1>1, Inductive, PTL

\* However joins interleave, neither limit is passed, and the rings still open are
\* those of the channels that exist.
THEOREM LimitsAreHeld == Spec => []LimitsHold
<1>1. IInv => LimitsHold
  BY DEF IInv, LimitsHold, RoomToJoin, NamesInv, ChannelNames
<1>2. QED
  BY <1>1, Inductive, PTL

\* Nobody stays in a room they are banned from, unless a moderator is about to part them,
\* nor on a socket, banned from everywhere, unless a moderator is about to close it.
THEOREM BansHold == Spec => []BanHolds
<1>1. IInv => BanHolds
  BY DEF IInv, RoomBan, ServerBan, BanHolds
<1>2. QED
  BY <1>1, Inductive, PTL

\* What nobody leaks follows from who has each membership.
LEMMA NothingLeaksNow == IInv => NothingLeaks
<1> SUFFICES ASSUME IInv PROVE NothingLeaks
  OBVIOUS
<1>1. ASSUME NEW m \in Mems
      PROVE  LET o == mems[m].owner
                 holders == {p \in Procs : Holds(p, m)}
             IN /\ Cardinality(holders) + (IF InTable(m) THEN 1 ELSE 0) <= 1
                /\ holders = {} /\ ~InTable(m) /\ ~(cur[o] = m) => ~mems[m].live /\ mems[m].pump = "done"
  <2> DEFINE holders == {p \in Procs : Holds(p, m)}
  <2>1. CASE holders = {}
    <3>1. Cardinality(holders) = 0
      BY <2>1, FS_EmptySet
    <3>2. Cardinality(holders) + (IF InTable(m) THEN 1 ELSE 0) <= 1
      <4> HIDE DEF holders
      <4>1. QED
        BY <3>1
    <3>3. Kept(m)
      BY DEF IInv, KeptInv
    <3>4. QED
      BY <2>1, <3>2, <3>3 DEF Kept
  <2>2. ASSUME NEW p \in Procs, Holds(p, m)
        PROVE  holders # {} /\ Cardinality(holders) + (IF InTable(m) THEN 1 ELSE 0) <= 1
    <3>1. holders = {p}
      BY <2>2 DEF IInv, AloneInv
    <3>2. Cardinality(holders) = 1
      BY <3>1, FS_Singleton
    <3>3. ~InTable(m)
      BY <2>2 DEF IInv, AloneInv
    <3>4. holders # {}
      BY <3>1
    <3> HIDE DEF holders
    <3>5. QED
      BY <3>2, <3>3, <3>4
  <2>3. QED
    BY <2>1, <2>2
<1>2. ASSUME NEW r \in Rooms, NEW k \in Nicks, rooms[r].members[k] # NoConn
      PROVE  LET c == rooms[r].members[k]
             IN \/ pc[c] \in {"subscribe", "insert"} /\ room[c] = r
                \/ \E m \in Mems :
                     /\ mems[m].owner = c /\ mems[m].room = r
                     /\ \/ InTable(m)
                        \/ \E p \in Procs : Holds(p, m) /\ (cur[p] = m => pc[p] \in {"leave", "undoRemove"})
  BY <1>2 DEF IInv, EntryInv, Present
<1>3. ASSUME NEW k \in Nicks, conns[k] # NoConn
      PROVE  pc[conns[k]] \notin {"off", "register", "leaveAll", "leaving", "gone"}
  BY <1>3 DEF IInv, TableInv
<1>4. QED
  BY <1>1, <1>2, <1>3 DEF NothingLeaks

\* Each membership is in its owner's table, or held by the one goroutine that tears it
\* down, or torn down; and neither a member list nor the connection table names
\* somebody whose teardown has passed it.
THEOREM NothingIsLeaked == Spec => []NothingLeaks
BY NothingLeaksNow, Inductive, PTL

\* Nobody waits in a circle, whatever joins, parts, bans and teardowns overlap: who waits
\* for a pump waits for one that can end, or for a join that waits for nobody.
THEOREM NobodyWaitsForever == Spec => []WaitsEnd
<1>1. ASSUME IInv, NEW p \in Procs, pc[p] = "await"
      PROVE  LET m == cur[p]
                 o == mems[m].owner
             IN /\ ~mems[m].live
                /\ mems[m].pump = "none" =>
                     /\ o # p /\ cur[o] = m
                     /\ pc[o] \in {"recheckBan", "undo", "undone", "announceJoin", "startPump"}
  <2> DEFINE m == cur[p]
             o == mems[m].owner
  <2>1. m \in Mems /\ o \in Conns
    <3>1. m \in Mems
      BY <1>1 DEF IInv, HandsInv, LocalsInv, HandLocals, Leaving
    <3>2. QED
      BY <1>1, <3>1, MemFacts DEF IInv
  <2>2. ~mems[m].live
    BY <1>1 DEF IInv, KeptInv
  <2>3. Holds(p, m)
    BY <1>1 DEF Holds, Leaving
  <2>4. ASSUME mems[m].pump = "none"
        PROVE  o # p /\ cur[o] = m /\ pc[o] \in {"recheckBan", "undo", "undone", "announceJoin", "startPump"}
    <3>1. cur[o] = m /\ pc[o] \in Making
      BY <1>1, <2>1, <2>4 DEF IInv, StartedInv
    <3>2. o # p
      BY <1>1, <3>1 DEF Making, Joining
    <3>3. ~Holds(o, m)
      BY <1>1, <2>1, <2>3, <3>2 DEF IInv, AloneInv, Procs
    <3>4. pc[o] \notin {"undoRemove", "undoClose"}
      BY <3>1, <3>3 DEF Holds
    <3>5. pc[o] # "insert"
      BY <1>1, <2>1, <2>3, <3>1 DEF IInv, AloneInv
    <3> HIDE DEF m, o
    <3>6. QED
      BY <3>1, <3>2, <3>4, <3>5 DEF Making, Joining
  <2>5. QED
    BY <2>2, <2>4
<1>2. IInv => WaitsEnd
  BY <1>1 DEF WaitsEnd
<1>3. QED
  BY <1>2, Inductive, PTL

\* What a roster says follows from the last word, the entries and who has each membership.
LEMMA RosterAgreesNow == IInv => RosterAgrees
<1> SUFFICES ASSUME IInv, Simple, NEW m \in Mems
             PROVE  LET o == mems[m].owner
                        r == mems[m].room
                        busy == \E q \in Mems : mems[q].owner = o /\ mems[q].room = r /\
                                  (InTable(q) \/ \E p \in Procs : cur[p] = q \/ (p \in Conns /\ q \in todo[p]))
                        joining == pc[o] \in {"subscribe", "insert"} /\ room[o] = r
                        listed == RoomOf(m).members[Nick[o]] = o
                    IN /\ Settled(m) => /\ RoomOf(m).open /\ channels[RoomOf(m).name] = r
                                        /\ LastOf(r, Nick[o]) = (IF Sayable(r, o) THEN "JOIN" ELSE "PART")
                                        /\ listed
                       /\ RoomOf(m).open /\ ~busy => LastOf(r, Nick[o]) = "PART" /\ (listed => joining)
  BY DEF RosterAgrees
<1> DEFINE o == mems[m].owner
           r == mems[m].room
<1>1. o \in Conns /\ o # NoConn /\ r \in Rooms /\ Nick[o] \in Nicks /\ o \in given.conns
  BY MemFacts, MembershipAssumption DEF IInv, MadeInv, NickOf
<1>t. LastOf(r, Nick[o]) \in {"JOIN", "PART"}
  <2>1. HasLast(rooms[r].log, Nick[o]) /\ rooms[r].log \in Seq(EntryType)
    BY <1>1, LogType DEF IInv, Told
  <2>2. QED
    BY <2>1, LastType, LastOfLog
<1>2. ASSUME Settled(m)
      PROVE  /\ RoomOf(m).open /\ channels[RoomOf(m).name] = r /\ RoomOf(m).members[Nick[o]] = o
             /\ LastOf(r, Nick[o]) = IF Sayable(r, o) THEN "JOIN" ELSE "PART"
  <2>1. InTable(m) /\ mems[m].pump = "running"
    BY <1>2 DEF Settled
  <2>2. RoomOf(m).members[Nick[o]] = o
    BY <2>1 DEF IInv, SimplyListed, Present, NickOf
  <2>3. RoomOf(m).open
    BY <1>1, <2>2 DEF IInv, EntryInv, RoomOf
  <2>4. channels[RoomOf(m).name] = r
    BY <1>1, <2>3 DEF IInv, NamesInv, ChannelNames, RoomOf
  <2>5. ~Unannounced(m)
    BY <1>1, <2>1 DEF Unannounced, IInv, HandsInv, LocalsInv, ConnLocals, Making, Joining
  <2>6. Sayable(r, o) => LastOf(r, Nick[o]) = "JOIN"
    BY <2>1, <2>5 DEF IInv, SimplyTold, NickOf
  <2>7. LastOf(r, Nick[o]) = "JOIN" => Sayable(r, o)
    BY <1>1, <2>3 DEF IInv, SimplyTold, RoomOf
  <2>8. QED
    BY <1>t, <2>2, <2>3, <2>4, <2>6, <2>7
<1>3. ASSUME RoomOf(m).open,
             ~\E q \in Mems : mems[q].owner = o /\ mems[q].room = r /\
                (InTable(q) \/ \E p \in Procs : cur[p] = q \/ (p \in Conns /\ q \in todo[p]))
      PROVE  /\ LastOf(r, Nick[o]) = "PART"
             /\ RoomOf(m).members[Nick[o]] = o => pc[o] \in {"subscribe", "insert"} /\ room[o] = r
  <2>1. ASSUME NEW q \in Mems, mems[q].owner = o, mems[q].room = r PROVE ~InTable(q) /\ \A p \in Procs : ~Holds(p, q)
    BY <1>3, <2>1 DEF Holds
  <2>2. LastOf(r, Nick[o]) # "JOIN"
    BY <1>1, <1>3, <2>1 DEF IInv, SimplyTold, RoomOf
  <2>4. ASSUME RoomOf(m).members[Nick[o]] = o PROVE pc[o] \in {"subscribe", "insert"} /\ room[o] = r
    <3>1. \/ pc[o] \in {"subscribe", "insert"} /\ room[o] = r
          \/ \E q \in Mems : mems[q].owner = o /\ mems[q].room = r /\ Present(q)
      BY <1>1, <2>4 DEF IInv, EntryInv, RoomOf
    <3>2. QED
      BY <2>1, <3>1 DEF Present
  <2>5. QED
    BY <1>t, <2>2, <2>4
<1>4. QED
  BY <1>2, <1>3

\* What a room was told, whom it lists and who is in it agree, in a simple setting.
THEOREM RosterIsTrue == Spec => []RosterAgrees
BY RosterAgreesNow, Inductive, PTL

\* In a simple setting no sweep takes a channel from under a member: what the code says
\* of an empty channel is true as long as nobody is on two connections at once.
THEOREM SweepsSpareTheSimple == Spec => [](Simple => SweepSparesMembers)
<1>1. RosterAgrees => (Simple => SweepSparesMembers)
  BY DEF RosterAgrees, SweepSparesMembers
<1>2. QED
  BY <1>1, RosterIsTrue, PTL

\* Only Unregister clears a place of the connection table, and only Remove an entry.
LEMMA TeardownStep ==
  ASSUME IInv, [Next]_vars
  PROVE  /\ \A k \in Nicks :
              conns[k] # NoConn /\ conns'[k] = NoConn => pc[conns[k]] = "unregister"
         /\ \A r \in Rooms, k \in Nicks :
              rooms[r].members[k] # NoConn /\ rooms'[r].members[k] = NoConn =>
                \E p \in Procs : /\ pc[p] \in {"leave", "undoRemove"} /\ pc'[p] # pc[p]
                                 /\ mems[cur[p]].owner = rooms[r].members[k]
<1>0. HandsInv /\ conns \in [Nicks -> Conns \cup {NoConn}] /\ pc \in [Procs -> ConnLabels \cup ModLabels]
      /\ NoConn \notin Conns
  BY MembershipAssumption DEF IInv, HandsInv, PcInv, TypeInv, OutsideTypes
<1>1. ASSUME NEW k \in Nicks, conns[k] # NoConn, conns'[k] = NoConn PROVE pc[conns[k]] = "unregister"
  <2>1. ASSUME NEW c \in Conns, StartReading(c) \/ StopReading(c) \/ Register(c) PROVE FALSE
    BY <1>0, <1>1, <2>1 DEF StartReading, StopReading, Register
  <2>2. ASSUME NEW c \in Conns, Unregister(c) PROVE pc[conns[k]] = "unregister"
    BY <1>0, <1>1, <2>2 DEF Unregister
  <2>3. QED
    BY <1>1, <2>1, <2>2, ReadingSteps
<1>2. ASSUME NEW r \in Rooms, NEW k \in Nicks, rooms[r].members[k] # NoConn, rooms'[r].members[k] = NoConn
      PROVE  \E p \in Procs : /\ pc[p] \in {"leave", "undoRemove"} /\ pc'[p] # pc[p]
                              /\ mems[cur[p]].owner = rooms[r].members[k]
  <2>1. ASSUME NEW p \in Procs, Remove(p)
        PROVE  /\ pc[p] \in {"leave", "undoRemove"} /\ pc'[p] # pc[p]
               /\ mems[cur[p]].owner = rooms[r].members[k]
    <3>1. pc[p] \in {"leave", "undoRemove"} /\ pc'[p] \in {"closeSub", "undoClose"}
      BY <1>0, <2>1 DEF Remove, Goto
    <3>2. PICK m \in Mems : /\ m = cur[p]
                            /\ EntrySet(mems[m].room, Nick[mems[m].owner], NoConn)
                            /\ rooms[mems[m].room].members[Nick[mems[m].owner]] = mems[m].owner
      BY <1>0, <1>2, <2>1, RemoveEffect
    <3>3. mems[m].room = r /\ Nick[mems[m].owner] = k
      BY <1>2, <3>2 DEF EntrySet
    <3>4. QED
      BY <3>1, <3>2, <3>3
  <2>2. ASSUME NEW s, NEW kind, NEW who, NEW words, LogWritten(s, kind, who, words) PROVE FALSE
    BY <1>2, <2>2 DEF LogWritten
  <2>3. ASSUME NEW c \in Conns, Enters(c) PROVE FALSE
    BY <1>0, <1>2, <2>3, ChannelForEffect DEF EntrySet
  <2>4. ASSUME NEW n \in Channels, Sweep(n) PROVE FALSE
    BY <1>0, <1>2, <2>4, SweptEffect
  <2>5. ASSUME NEW c \in Conns, AnnounceJoin(c) PROVE FALSE
    BY <1>0, <2>2, <2>5, AnnounceEffect
  <2>6. ASSUME NEW p \in Procs, AnnouncePart(p) PROVE FALSE
    BY <1>0, <2>2, <2>6, AnnounceEffect
  <2>7. ASSUME NEW d \in Mods, Announce(d) PROVE FALSE
    <3>1. PICK s \in todo[d] \cap Rooms : LogWritten(s, order[d].verb, order[d].nick, {d})
      BY <1>0, <2>7, AnnounceEffect
    <3>2. QED
      BY <2>2, <3>1
  <2>8. QED
    BY <1>2, <2>1, <2>3, <2>4, <2>5, <2>6, <2>7, RoomSteps
<1>3. QED
  BY <1>1, <1>2

\* A reconnect is spared by the teardown of the connection it replaces: an entry of the
\* connection table, or of a member list, goes only with a teardown of whom it names.
THEOREM ReconnectIsSpared == Spec => TeardownSparesReconnect
<1>1. IInv /\ [Next]_vars =>
        [/\ \A k \in Nicks :
              conns[k] # NoConn /\ conns'[k] = NoConn => pc[conns[k]] = "unregister"
         /\ \A r \in Rooms, k \in Nicks :
              rooms[r].members[k] # NoConn /\ rooms'[r].members[k] = NoConn =>
                \E p \in Procs : /\ pc[p] \in {"leave", "undoRemove"} /\ pc'[p] # pc[p]
                                 /\ mems[cur[p]].owner = rooms[r].members[k]]_vars
  BY TeardownStep
<1>2. QED
  BY <1>1, Inductive, PTL DEF Spec, TeardownSparesReconnect
=============================================================================
