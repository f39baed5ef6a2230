------------------------------- MODULE LoadGen ------------------------------
(***************************************************************************)
(* A run of the load generator (internal/loadgen/loadgen.go): Run with its *)
(* barrier and its dialer, and for each connection a client and a reader,  *)
(* which share a context and a socket.  The server, and the WebSocket      *)
(* library, do what they may: refuse, answer late or never, drop.          *)
(***************************************************************************)
EXTENDS Histogram

CONSTANTS
  Conns, Channels,   \* Config
  Speakers,     \* how many of Conns its SpeakPercent, a float, comes to
  Timed,        \* its Duration is not zero
  JoinBuffer,   \* capacity of client.joins, 4
  AutoJoins,    \* rooms the server joins a new connection to, one after the other
  Latencies,    \* what a message may have taken
  Fragile,      \* bound: the connections the server may drop
  MaxMsgs,      \* bound on messages sent, and on those with a timestamp a connection is sent
  MaxReceived   \* bound on messages received by all

ASSUME LoadGenAssumption ==   \* Config.check
  /\ Conns \in Nat \ {0} /\ Channels \in Nat \ {0}
  /\ Speakers \in 0 .. Conns /\ Timed \in BOOLEAN
  /\ JoinBuffer \in Nat \ {0} /\ AutoJoins \in Nat
  /\ Fragile \subseteq 0 .. Conns - 1 /\ MaxMsgs \in Nat /\ MaxReceived \in Nat
  /\ Latencies \subseteq Nat

Clients == 0 .. Conns - 1

speakersIn(i) == (Speakers - i + Channels - 1) \div Channels
membersIn(i)  == (Conns - i + Channels - 1) \div Channels

\* Chosen within its own channel.
speaks(i) ==
  LET pos == i \div Channels
      members == membersIn(i % Channels)
      speaking == speakersIn(i % Channels)
  IN (pos * speaking) \div members # ((pos + 1) * speaking) \div members

VARIABLES
  run,       \* Run: "barrier", "timing", "waiting" (for wg) or "reported"
  stopped,   \* runCtx is cancelled
  settling,  \* the WaitGroup of those not settled yet
  start,     \* the channel is closed
  spawned,   \* how far the dialer is
  cl,        \* per connection: client, reader, context, socket
  st,        \* stats, with one of history: the messages received without a timestamp
  result     \* what Run returned, or NoStats

runVars == <<run, stopped, settling, start, spawned, result>>
vars    == <<runVars, cl, st>>

NoStats == [dialed |-> 0, dialFailed |-> 0, lost |-> 0, sent |-> 0, sendFailed |-> 0,
            received |-> 0, untimed |-> 0, latency |-> EmptyHistogram]

\* at is where the client is; "shut" is closed on this side, "cut" not found out yet.
\* fault is history: the server, or the network, let this connection down.
Fresh == [at |-> "none", reader |-> "none", dead |-> FALSE, sock |-> "none",
          joins |-> << >>, told |-> 0, asked |-> FALSE, lat |-> EmptyHistogram,
          settled |-> FALSE, fault |-> FALSE]

Init ==
  /\ run = "barrier" /\ stopped = FALSE /\ start = FALSE
  /\ settling = Conns /\ spawned = 0
  /\ cl = [c \in Clients |-> Fresh]
  /\ st = NoStats /\ result = NoStats

Live(c) == ~stopped /\ ~cl[c].dead    \* connCtx.Err() == nil
Count(f, n) == st' = [st EXCEPT ![f] = @ + n]
If(b) == IF b THEN 1 ELSE 0
Go(c, from, to) == cl[c].at = from /\ cl' = [cl EXCEPT ![c].at = to]

-----------------------------------------------------------------------------
(* client.run *)

\* dial: the handshake and READY, for which nothing but the run's end is a deadline.
Dialled(c) ==
  /\ cl[c].at = "dial" /\ ~stopped
  /\ cl' = [cl EXCEPT ![c].at = "first", ![c].reader = "read", ![c].sock = "open"]
  /\ Count("dialed", 1)
  /\ UNCHANGED runVars

Refused(c) == Go(c, "dial", "end") /\ Count("dialFailed", 1) /\ UNCHANGED runVars

\* waitJoin: any room first, then the one asked for.
AfterJoin(c) ==
  IF cl[c].at = "first" THEN IF Channels = 1 THEN "joined" ELSE "ask"
  ELSE IF Head(cl[c].joins) = "own" THEN "part" ELSE "own"

TakeJoin(c) ==
  /\ cl[c].at \in {"first", "own"} /\ cl[c].joins # << >>
  /\ cl' = [cl EXCEPT ![c].joins = Tail(@), ![c].at = AfterJoin(c)]
  /\ UNCHANGED <<runVars, st>>

\* JOIN of its own room, then PART of the one it was put in.
SettleSend(c) ==
  /\ cl[c].at \in {"ask", "part"} /\ cl[c].sock # "shut" /\ Live(c)
  /\ cl' = [cl EXCEPT ![c].at = IF @ = "ask" THEN "own" ELSE "joined", ![c].asked = TRUE]
  /\ UNCHANGED <<runVars, st>>

SettleTimeoutUnsafe(c) ==
  /\ cl[c].at \in {"first", "own"} /\ ~Live(c)
  /\ cl' = [cl EXCEPT ![c].at = "unsettled"]
  /\ UNCHANGED <<runVars, st>>

\* The end of the context, or of settleTimeout; the reader, who shares the socket,
\* is the one to close it.
SettleTimeout(c) ==
  /\ cl[c].at \in {"first", "own"}
  /\ cl' = [cl EXCEPT ![c].at = "unsettled", ![c].fault = @ \/ Live(c)]
  /\ UNCHANGED <<runVars, st>>

NeverJoined(c) == Go(c, "unsettled", "leave") /\ Count("lost", If(Live(c))) /\ UNCHANGED runVars

\* settled(), once: that of a client ready for the barrier, and the deferred one, which
\* comes after CloseNow and is its last.
SettledUnsafe(c, from, to) ==
  /\ cl[c].at = from
  /\ cl' = [cl EXCEPT ![c].at = to, ![c].settled = TRUE, ![c].sock = IF to = "gone" THEN "shut" ELSE @]
  /\ settling' = settling - 1
  /\ UNCHANGED <<run, stopped, start, spawned, result, st>>

Settled(c, from, to) ==
  /\ cl[c].at = from
  /\ cl' = [cl EXCEPT ![c].at = to, ![c].settled = TRUE, ![c].sock = IF to = "gone" THEN "shut" ELSE @]
  /\ settling' = settling - If(~cl[c].settled)
  /\ UNCHANGED <<run, stopped, start, spawned, result, st>>

AwaitStart(c) ==
  /\ \/ start /\ Go(c, "ready", "speak")
     \/ ~Live(c) /\ Go(c, "ready", "leave")
  /\ UNCHANGED <<runVars, st>>

\* speak: a message; a ping that goes out changes nothing.
Say(c) ==
  /\ cl[c].at = "speak" /\ speaks(c) /\ st.sent < MaxMsgs
  /\ cl[c].sock # "shut" /\ Live(c)
  /\ Count("sent", 1)
  /\ UNCHANGED <<runVars, cl>>

\* send: the library closes the socket of a write that failed, or that was given up on.
SendFails(c) ==
  /\ cl[c].at \in {"ask", "part", "speak"}
  /\ cl' = [cl EXCEPT ![c].sock = "shut", ![c].fault = @ \/ (Live(c) /\ cl[c].sock = "open"),
                      ![c].at = IF @ = "speak" THEN "close" ELSE "unsettled"]
  \* settle's own deadline, if it was that, is nobody's failure to send
  /\ \/ Count("sendFailed", If(Live(c)))
     \/ cl[c].at # "speak" /\ UNCHANGED st
  /\ UNCHANGED runVars

SpeakEnds(c) == ~Live(c) /\ Go(c, "speak", "close") /\ UNCHANGED <<runVars, st>>

\* ws.Close, which gives the server a few seconds and no more.
Close(c) ==
  /\ cl[c].at = "close"
  /\ cl' = [cl EXCEPT ![c].at = "leave", ![c].sock = "shut"]
  /\ UNCHANGED <<runVars, st>>

\* The deferred calls, in their order.
Dead(c) ==
  /\ cl[c].at = "leave"
  /\ cl' = [cl EXCEPT ![c].at = "merge", ![c].dead = TRUE]
  /\ UNCHANGED <<runVars, st>>

\* What nobody uses any more is forgotten.
Over(c) == [Fresh EXCEPT !.at = "end", !.reader = cl[c].reader, !.dead = TRUE, !.sock = cl[c].sock,
                         !.settled = cl[c].settled, !.fault = cl[c].fault]

MergeLatencyUnsafe(c) ==
  /\ cl[c].at = "merge"
  /\ cl' = [cl EXCEPT ![c] = Over(c)]
  /\ st' = [st EXCEPT !.latency = Merge(@, cl[c].lat)]
  /\ UNCHANGED runVars

MergeLatency(c) ==
  /\ cl[c].at = "merge" /\ cl[c].reader = "done"
  /\ cl' = [cl EXCEPT ![c] = Over(c)]
  /\ st' = [st EXCEPT !.latency = Merge(@, cl[c].lat)]
  /\ UNCHANGED runVars

-----------------------------------------------------------------------------
(* client.read *)

\* A MSG, and how long it took, if it says when it was sent; not everybody's does.
ReadMsg(c) ==
  /\ cl[c].reader = "read" /\ cl[c].sock # "shut" /\ st.received < MaxReceived
  /\ \/ /\ cl[c].lat.count < MaxMsgs
        /\ \E d \in Latencies : cl' = [cl EXCEPT ![c].lat = Record(@, d)]
        /\ Count("received", 1)
     \/ /\ st' = [st EXCEPT !.received = @ + 1, !.untimed = @ + 1]
        /\ UNCHANGED cl
  /\ UNCHANGED runVars

\* One of its own JOINs; settle may not be there to take it, and may have enough.
ReadJoin(c) ==
  /\ cl[c].reader = "read" /\ cl[c].sock # "shut"
  /\ \/ cl[c].told < AutoJoins
     \/ cl[c].told = AutoJoins /\ cl[c].asked
  /\ cl' = [cl EXCEPT ![c].told = @ + 1,
                      ![c].joins = IF Len(@) = JoinBuffer THEN @
                                   ELSE Append(@, IF cl[c].told < AutoJoins THEN "auto" ELSE "own")]
  /\ UNCHANGED <<runVars, st>>

ReadFailsUnsafe(c) ==
  /\ cl[c].reader = "read" /\ (cl[c].sock # "open" \/ ~Live(c))
  /\ cl' = [cl EXCEPT ![c].reader = "failed", ![c].sock = "shut"]
  /\ Count("lost", 1)
  /\ UNCHANGED runVars

\* The library ends a read with its context, and closes the socket.
ReadFails(c) ==
  /\ cl[c].reader = "read" /\ (cl[c].sock # "open" \/ ~Live(c))
  /\ cl' = [cl EXCEPT ![c].reader = "failed", ![c].sock = "shut"]
  /\ Count("lost", If(Live(c)))
  /\ UNCHANGED runVars

ReaderEnds(c) ==
  /\ cl[c].reader = "failed"
  /\ cl' = [cl EXCEPT ![c].reader = "done", ![c].dead = TRUE]
  /\ UNCHANGED <<runVars, st>>

\* The server: a lag drop, a ban, a crash, an answer nobody can use.
Drop(c) ==
  /\ c \in Fragile /\ cl[c].sock = "open" /\ Live(c)
  /\ cl' = [cl EXCEPT ![c].sock = "cut", ![c].fault = TRUE]
  /\ UNCHANGED <<runVars, st>>

-----------------------------------------------------------------------------
(* Run *)

\* The dialer goes on after the run was cancelled, without its pauses.
Spawn ==
  /\ spawned < Conns
  /\ spawned' = spawned + 1
  /\ cl' = [cl EXCEPT ![spawned].at = "dial"]
  /\ UNCHANGED <<run, stopped, settling, start, result, st>>

Barrier ==
  /\ settling = 0 /\ ~start
  /\ start' = TRUE
  /\ UNCHANGED <<run, stopped, settling, spawned, result, cl, st>>

Begin ==
  /\ run = "barrier" /\ (start \/ stopped)
  /\ run' = "timing"
  /\ UNCHANGED <<stopped, settling, start, spawned, result, cl, st>>

\* The Duration is over, if there is one, or the run was cancelled.
TimeUp ==
  /\ run = "timing" /\ (Timed \/ stopped)
  /\ run' = "waiting" /\ stopped' = TRUE
  /\ UNCHANGED <<settling, start, spawned, result, cl, st>>

Interrupt ==
  /\ run \in {"barrier", "timing"} /\ ~stopped
  /\ stopped' = TRUE
  /\ UNCHANGED <<run, settling, start, spawned, result, cl, st>>

Report ==
  /\ run = "waiting" /\ \A c \in Clients : cl[c].at = "gone"
  /\ run' = "reported" /\ result' = st
  /\ UNCHANGED <<stopped, settling, start, spawned, cl, st>>

-----------------------------------------------------------------------------
ClientStep(c) ==
  \/ TakeJoin(c) \/ SettleSend(c) \/ SettleTimeout(c) \/ NeverJoined(c)
  \/ Settled(c, "joined", "ready") \/ Settled(c, "end", "gone")
  \/ AwaitStart(c) \/ SendFails(c) \/ SpeakEnds(c)
  \/ Close(c) \/ Dead(c) \/ MergeLatency(c)

ReaderStep(c) == ReadFails(c) \/ ReaderEnds(c)

Next ==
  \/ \E c \in Clients :
       \/ Dialled(c) \/ Refused(c) \/ ClientStep(c) \/ Say(c)
       \/ ReaderStep(c) \/ ReadMsg(c) \/ ReadJoin(c) \/ Drop(c)
  \/ Spawn \/ Barrier \/ Begin \/ TimeUp \/ Interrupt \/ Report

Spec == Init /\ [][Next]_vars

\* What happens by itself: some goroutine that can go on does, timeouts run out, and
\* the library lets go of a socket whose context has ended.  That a handshake is
\* answered is nobody's promise, but a cancelled one does end.
ByItself ==
  \/ \E c \in Clients : ClientStep(c) \/ ReaderStep(c) \/ (stopped /\ Refused(c))
  \/ Spawn \/ Barrier \/ Begin \/ TimeUp \/ Report

\* Weak fairness of all of it together is enough: each of its steps is a last one.
FairSpec == Spec /\ WF_vars(ByItself)

-----------------------------------------------------------------------------
(* Properties *)

Places == {"none", "dial", "first", "ask", "own", "part", "joined", "unsettled",
           "ready", "speak", "close", "leave", "merge", "end", "gone"}
Histograms == [buckets : [Buckets -> Nat], count : Nat, max : Nat]
Connections ==
  [at : Places, reader : {"none", "read", "failed", "done"}, dead : BOOLEAN,
   sock : {"none", "open", "cut", "shut"}, joins : Seq({"auto", "own"}), told : Nat,
   asked : BOOLEAN, lat : Histograms, settled : BOOLEAN, fault : BOOLEAN]
Snapshots ==
  [dialed : Nat, dialFailed : Nat, lost : Nat, sent : Nat, sendFailed : Nat,
   received : Nat, untimed : Nat, latency : Histograms]

\* Every variable has its type, and no reader has put more into a buffer than it holds.
TypeOK ==
  /\ run \in {"barrier", "timing", "waiting", "reported"}
  /\ stopped \in BOOLEAN /\ start \in BOOLEAN
  /\ settling \in 0 .. Conns /\ spawned \in 0 .. Conns
  /\ cl \in [Clients -> Connections]
  /\ \A c \in Clients : Len(cl[c].joins) <= JoinBuffer
  /\ st \in Snapshots /\ result \in Snapshots

Faulty == {c \in Clients : cl[c].fault}

\* A run that is interrupted, or that has a Duration and whose connections were all
\* either refused or made, ends with a report: whatever the server does to them, and
\* though it may have forgotten one in the middle of its joins (loadgen.go:183-192, 243, 309).
RunReturns ==
  (stopped \/ (Timed /\ \A c \in Clients : cl[c].at \notin {"none", "dial"})) ~> run = "reported"

\* Nobody talks, or is told it may, while anybody is still on its way into its room, or
\* still to be dialled, however many have come and gone by then: the ratio would
\* measure the ramp (loadgen.go:133, 243).
NobodySpeaksEarly ==
  start \/ (\E c \in Clients : cl[c].at = "speak") =>
    \A c \in Clients : cl[c].at \in {"ready", "speak", "close", "leave", "merge", "end", "gone"}

\* The report is of everything: each connection was dialled or refused, each message
\* received has its latency in it unless it had no timestamp (loadgen.go:440-443), and
\* nobody is counting any more (loadgen.go:195-197, 263).
SnapshotComplete ==
  run = "reported" =>
    /\ result = st
    /\ st.dialed + st.dialFailed = Conns
    /\ st.latency.count + st.untimed = st.received

\* Losses and failed writes are the server's, or the network's: those of a run that
\* ends by itself are none, however its sockets are closed.  A connection may be
\* counted lost twice, by its reader and by settle (loadgen.go:318, 431).
LossesAreFaults ==
  /\ st.lost <= 2 * Cardinality(Faulty)
  /\ st.sendFailed <= Cardinality(Faulty)

\* Whatever the crowd and the rooms: each room has the speakers meant for it, chosen
\* among its own members, and rooms differ by one at most (loadgen.go:92, 97).
SpreadEvenly ==
  \A r \in 0 .. Channels - 1 :
    LET room == {i \in Clients : i % Channels = r}
    IN /\ Cardinality(room) = membersIn(r)
       /\ Cardinality({i \in room : speaks(i)}) = speakersIn(r)
       /\ speakersIn(0) - speakersIn(r) \in {0, 1}

\* Histogram's promise, on its own inputs: once, before anything is recorded.
LatencyBounds == spawned = 0 /\ ~stopped => QuantileBounds
=============================================================================
