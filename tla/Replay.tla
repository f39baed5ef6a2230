------------------------------- MODULE Replay -------------------------------
(***************************************************************************)
(* A channel's traffic and what somebody who joins is shown of it:         *)
(* handleMsg, broadcastTo with its History append, the rings of the codecs *)
(* and internal/history.  A joiner subscribes first and reads the backlog  *)
(* afterwards, so it may be sent a message twice but must not miss one     *)
(* (README.md:69).  Messages are their ids.  History is filed under the    *)
(* channel's name; the lock that orders a fan-out belongs to the channel   *)
(* value, which is replaced when an empty channel is swept and made again. *)
(* Who is a member, and the frames that are not messages, are Membership's;*)
(* what a message has to pass before it is given an id is Filter's.        *)
(***************************************************************************)
EXTENDS Filter, FiniteSets, TLC

CONSTANTS
  Speakers,   \* connections that send messages
  Joiners,    \* connections that join and read
  Codecs,
  CodecOf,    \* CodecOf[j]: the codec joiner j negotiated
  Backlog,    \* cfg.Backlog: the size of the window
  Values,     \* 1 .. n: the channel values there can be, in the order made
  Sweeps,     \* moderators remove speakers, and the janitor runs
  EncodeFails,\* a codec may fail on a message
  MaxSeq,     \* bound on ids
  Nobody

ASSUME ReplayAssumption ==
  /\ CodecOf \in [Joiners -> Codecs]
  /\ Backlog \in Nat \ {0} /\ MaxSeq \in Nat
  /\ Sweeps \in BOOLEAN /\ EncodeFails \in BOOLEAN
  /\ Values = 1 .. Cardinality(Values) /\ 1 \in Values
  /\ Nobody \notin Speakers /\ Speakers \cap Joiners = {}

VARIABLES
  seq,      \* app.seq
  channel,  \* app.channels[name]: the channel value there, or 0
  made,     \* channel values made so far
  ring,     \* per value and codec: what its ring was given
  closed,   \* per value: its rings are closed
  sendMu,   \* per value: the speaker that holds it, or Nobody
  window,   \* history.Memory's messages for the name
  member,   \* per speaker and joiner: the value it is a member of, or 0
  speaker,  \* per speaker: where it is in handleMsg, with what value and id,
            \* and the rings still to be given the message
  joiner,   \* per joiner: "out", "added", "subscribed" or "reading"
  cursor,   \* per joiner: its position in its ring
  backlog,  \* per joiner: what its BACKLOG frame held
  live,     \* per joiner: what its pump wrote that its client had not got
  posted    \* history: per value, the messages fanned out, in the order of the
            \* History appends

roomVars == <<channel, made, closed, member>>
clientVars == <<joiner, cursor, backlog, live>>
vars == <<seq, roomVars, ring, sendMu, window, speaker, clientVars, posted>>

AtRest == [at |-> "rest", ch |-> 0, id |-> 0, todo |-> {}]

Init ==
  /\ seq = 0
  /\ channel = 1 /\ made = 1
  /\ ring = [v \in Values |-> [c \in Codecs |-> << >>]]
  /\ closed = [v \in Values |-> FALSE]
  /\ sendMu = [v \in Values |-> Nobody]
  /\ window = << >>
  /\ member = [x \in Speakers \cup Joiners |-> IF x \in Speakers THEN 1 ELSE 0]
  /\ speaker = [s \in Speakers |-> AtRest]
  /\ joiner = [j \in Joiners |-> "out"]
  /\ cursor = [j \in Joiners |-> 0]
  /\ backlog = [j \in Joiners |-> << >>]
  /\ live = [j \in Joiners |-> << >>]
  /\ posted = [v \in Values |-> << >>]

-----------------------------------------------------------------------------
(* A message: handleMsg and broadcastTo *)

\* The membership is looked up once; the checks that may refuse the message, Filter's
\* among them, end the handler, which is not to take this step.
Accept(s) ==
  /\ speaker[s] = AtRest /\ member[s] # 0
  /\ seq < MaxSeq
  /\ speaker' = [speaker EXCEPT ![s] = [AtRest EXCEPT !.at = "accepted", !.ch = member[s]]]
  /\ UNCHANGED <<seq, roomVars, ring, sendMu, window, clientVars, posted>>

\* The variants named ...Unsafe are not the code: each is a plausible mistake in
\* the definition after it, and a run shows which property it would break.
LockUnsafe(s) ==
  /\ speaker[s].at = "accepted"
  /\ sendMu' = [sendMu EXCEPT ![speaker[s].ch] = s]
  /\ seq' = seq + 1
  /\ speaker' = [speaker EXCEPT ![s].at = "append", ![s].id = seq', ![s].todo = Codecs]
  /\ UNCHANGED <<roomVars, ring, window, clientVars, posted>>

\* sendMu, the id, and every codec's encoding before any is sent.
Lock(s) ==
  /\ speaker[s].at = "accepted"
  /\ sendMu[speaker[s].ch] = Nobody
  /\ seq' = seq + 1
  /\ \/ /\ sendMu' = [sendMu EXCEPT ![speaker[s].ch] = s]
        /\ speaker' = [speaker EXCEPT ![s].at = "append", ![s].id = seq', ![s].todo = Codecs]
     \/ /\ EncodeFails
        /\ speaker' = [speaker EXCEPT ![s] = AtRest]
        /\ UNCHANGED sendMu
  /\ UNCHANGED <<roomVars, ring, window, clientVars, posted>>

\* Memory.Append: a full window loses its oldest.
Window(w, id) == Append(IF Len(w) = Backlog THEN Tail(w) ELSE w, id)

\* after(id): History is told before the rings are.
AppendHistory(s) ==
  /\ speaker[s].at = "append"
  /\ window' = Window(window, speaker[s].id)
  /\ posted' = [posted EXCEPT ![speaker[s].ch] = Append(@, speaker[s].id)]
  /\ speaker' = [speaker EXCEPT ![s].at = "fan"]
  /\ UNCHANGED <<seq, roomVars, ring, sendMu, clientVars>>

BroadcastUnsafe(s, c) ==
  /\ speaker[s].at \in {"append", "fan"} /\ c \in speaker[s].todo
  /\ LET v == speaker[s].ch
     IN ring' = IF closed[v] THEN ring ELSE [ring EXCEPT ![v][c] = Append(@, speaker[s].id)]
  /\ speaker' = [speaker EXCEPT ![s].todo = @ \ {c}]
  /\ UNCHANGED <<seq, roomVars, sendMu, window, clientVars, posted>>

\* One ring after another, in no order; a closed ring takes nothing.
Broadcast(s, c) ==
  /\ speaker[s].at = "fan" /\ c \in speaker[s].todo
  /\ LET v == speaker[s].ch
     IN ring' = IF closed[v] THEN ring ELSE [ring EXCEPT ![v][c] = Append(@, speaker[s].id)]
  /\ speaker' = [speaker EXCEPT ![s].todo = @ \ {c}]
  /\ UNCHANGED <<seq, roomVars, sendMu, window, clientVars, posted>>

Unlock(s) ==
  /\ speaker[s].at = "fan" /\ speaker[s].todo = {}
  /\ sendMu' = [sendMu EXCEPT ![speaker[s].ch] = Nobody]
  /\ speaker' = [speaker EXCEPT ![s] = AtRest]
  /\ UNCHANGED <<seq, roomVars, ring, window, clientVars, posted>>

-----------------------------------------------------------------------------
(* The room *)

\* channelFor: what is registered under the name, or a new value.
Enter(x) ==
  /\ member[x] = 0
  /\ IF channel # 0
       THEN /\ member' = [member EXCEPT ![x] = channel]
            /\ UNCHANGED <<channel, made>>
       ELSE /\ made + 1 \in Values
            /\ made' = made + 1 /\ channel' = made'
            /\ member' = [member EXCEPT ![x] = made']
  /\ UNCHANGED closed

Rejoin(s) ==
  /\ Sweeps /\ speaker[s] = AtRest
  /\ Enter(s)
  /\ UNCHANGED <<seq, ring, sendMu, window, speaker, clientVars, posted>>

\* A moderator's goroutine parts the speaker, whatever that one is doing.
Removed(s) ==
  /\ Sweeps /\ member[s] # 0
  /\ member' = [member EXCEPT ![s] = 0]
  /\ UNCHANGED <<seq, channel, made, closed, ring, sendMu, window, speaker, clientVars, posted>>

SweepChannels ==
  /\ Sweeps /\ channel # 0
  /\ \A x \in DOMAIN member : member[x] # channel
  /\ closed' = [closed EXCEPT ![channel] = TRUE]
  /\ channel' = 0
  /\ UNCHANGED <<seq, made, member, ring, sendMu, window, speaker, clientVars, posted>>

-----------------------------------------------------------------------------
(* A joiner: join, as far as it is shown messages, and its pump *)

JoinRoom(j) ==
  /\ joiner[j] = "out"
  /\ Enter(j)
  /\ joiner' = [joiner EXCEPT ![j] = "added"]
  /\ UNCHANGED <<seq, ring, sendMu, window, speaker, cursor, backlog, live, posted>>

RingOf(j) == ring[member[j]][CodecOf[j]]

Subscribe(j) ==
  /\ joiner[j] = "added"
  /\ joiner' = [joiner EXCEPT ![j] = "subscribed"]
  /\ cursor' = [cursor EXCEPT ![j] = Len(RingOf(j))]
  /\ UNCHANGED <<seq, roomVars, ring, sendMu, window, speaker, backlog, live, posted>>

\* Recent, under no lock of the channel's; a History that fails shows nothing.
SendBacklog(j) ==
  /\ joiner[j] = "subscribed"
  /\ joiner' = [joiner EXCEPT ![j] = "reading"]
  /\ \E recent \in {window, << >>} : backlog' = [backlog EXCEPT ![j] = recent]
  /\ UNCHANGED <<seq, roomVars, ring, sendMu, window, speaker, cursor, live, posted>>

\* The client's side of it: a message it has from the backlog is ignored.
Pump(j) ==
  /\ joiner[j] = "reading" /\ cursor[j] < Len(RingOf(j))
  /\ cursor' = [cursor EXCEPT ![j] = @ + 1]
  /\ LET id == RingOf(j)[cursor'[j]]
     IN live' = IF id \in Range(backlog[j]) THEN live ELSE [live EXCEPT ![j] = Append(@, id)]
  /\ UNCHANGED <<seq, roomVars, ring, sendMu, window, speaker, joiner, backlog, posted>>

-----------------------------------------------------------------------------
Next ==
  \/ \E s \in Speakers :
       \/ Accept(s) \/ Lock(s) \/ AppendHistory(s)
       \/ \E c \in Codecs : Broadcast(s, c)
       \/ Unlock(s) \/ Rejoin(s) \/ Removed(s)
  \/ SweepChannels
  \/ \E j \in Joiners : JoinRoom(j) \/ Subscribe(j) \/ SendBacklog(j) \/ Pump(j)

Spec == Init /\ [][Next]_vars

-----------------------------------------------------------------------------
(* Properties *)

\* Every variable has its type, and the window its bound.
TypeOK ==
  /\ seq \in Nat
  /\ channel \in Values \cup {0} /\ made \in Values
  /\ ring \in [Values -> [Codecs -> Seq(Nat)]]
  /\ closed \in [Values -> BOOLEAN]
  /\ sendMu \in [Values -> Speakers \cup {Nobody}]
  /\ window \in Seq(Nat) /\ Len(window) <= Backlog
  /\ member \in [Speakers \cup Joiners -> Values \cup {0}]
  /\ speaker \in [Speakers -> [at : {"rest", "accepted", "append", "fan"},
                               ch : Values \cup {0}, id : Nat, todo : SUBSET Codecs]]
  /\ joiner \in [Joiners -> {"out", "added", "subscribed", "reading"}]
  /\ cursor \in [Joiners -> Nat]
  /\ backlog \in [Joiners -> Seq(Nat)] /\ live \in [Joiners -> Seq(Nat)]
  /\ posted \in [Values -> Seq(Nat)]

\* A room's messages have one order: that of their ids, which are drawn under sendMu,
\* of the History appends, and of every codec's ring, so no two clients, and no
\* backlog, disagree (channel.go:19-21, init.go:172).  This is a promise about one
\* channel value: a message still on its way through a swept one may reach History
\* after a later id from the value made next.
OneOrder ==
  \A v \in Values :
    /\ \A i, k \in DOMAIN posted[v] : i < k => posted[v][i] < posted[v][k]
    /\ \A c \in Codecs : IsPrefix(ring[v][c], posted[v])

CaughtUp(j) ==
  /\ joiner[j] = "reading" /\ cursor[j] = Len(RingOf(j))
  /\ sendMu[member[j]] = Nobody

Shown(j) == Range(backlog[j]) \cup Range(live[j])

\* A joiner that has caught up has been shown every message of its room from some
\* point on: backlog and live traffic overlap or meet, and leave no gap, however
\* many messages were sent while it joined (README.md:69-71).
NoGap ==
  \A j \in Joiners : CaughtUp(j) =>
    LET said == posted[member[j]]
    IN \E k \in 1 .. Len(said) + 1 :
         Shown(j) \cap Range(said) = Range(SubSeq(said, k, Len(said)))

\* The filters' promise, on texts of their own: once, while there is no message yet.
FiltersAgree == seq = 0 /\ (\A j \in Joiners : joiner[j] = "out") => FilterAgrees
=============================================================================
