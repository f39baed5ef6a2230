------------------------------ MODULE Private -------------------------------
(***************************************************************************)
(* Private messages and the life of the connections they go between:       *)
(* handlePriv on the sender's read pump, the recipient's queue and private *)
(* pump, serve around them, the directory app.conns, and the goodbyes of a *)
(* shutdown (conn.go, init.go, shutdown.go).  A message is its id.         *)
(***************************************************************************)
EXTENDS Integers, Sequences, SequencesExt, FiniteSets, FiniteSetsExt

CONSTANTS
  Conns,       \* connections; several may be of one nick, one after the other
  Nicks,
  NickOf,      \* NickOf[c]
  Talkers,     \* those whose clients send private messages
  PrivBuffer,  \* cfg.PrivBuffer
  MaxSeq,      \* bound on private messages
  Garbled,     \* those of them that a codec may be unable to encode
  Fragile,     \* those whose socket may fail, or whose peer leave
  MayStop,     \* the server may be shut down
  NoConn

ASSUME PrivateAssumption ==
  /\ NickOf \in [Conns -> Nicks] /\ Talkers \subseteq Conns /\ NoConn \notin Conns
  /\ PrivBuffer \in Nat \ {0} /\ MaxSeq \in Nat /\ Garbled \subseteq Nat
  /\ Fragile \subseteq Conns /\ MayStop \in BOOLEAN

VARIABLES
  life,      \* of a connection's serve: "new", "registered", "reading",
             \* "leaving", "parted", "cancelled" or "gone"
  alive,     \* its socket works
  conns,     \* app.conns: per nick, the connection, or NoConn
  priv,      \* its queue: messages, each with its sender
  pump,      \* privPump: "none", "run", "write" or "exit"
  writing,   \* the message privPump has taken
  got,       \* what was written to it
  ask,       \* handlePriv: where it is, and the connection it has looked up
  seq,       \* app.seq
  stop,      \* shutdown: "no", "goodbyes" or "stopped"
  greet,     \* the connections close has still to say goodbye to
  \* history: messages refused, echoed to their sender, lost with a connection
  refused, echoed, lost

serveVars == <<life, conns>>
queueVars == <<priv, pump, writing, got>>
sendVars  == <<ask, seq, refused, echoed>>
stopVars  == <<stop, greet>>
privVars == <<serveVars, alive, queueVars, sendVars, lost, stopVars>>

Quiet == [at |-> "rest", to |-> NoConn, id |-> 0]
NoMsg == [id |-> 0, from |-> NoConn]

PrivInit ==
  /\ life = [c \in Conns |-> "new"]
  /\ alive = [c \in Conns |-> TRUE]
  /\ conns = [n \in Nicks |-> NoConn]
  /\ priv = [c \in Conns |-> << >>]
  /\ pump = [c \in Conns |-> "none"]
  /\ writing = [c \in Conns |-> NoMsg]
  /\ got = [c \in Conns |-> << >>]
  /\ ask = [c \in Conns |-> Quiet]
  /\ seq = 0
  /\ stop = "no" /\ greet = {}
  /\ refused = {} /\ echoed = {} /\ lost = {}

-----------------------------------------------------------------------------
(* serve *)

\* register, which takes over the nick from an older connection.
Register(c) ==
  /\ life[c] = "new"
  /\ life' = [life EXCEPT ![c] = "registered"]
  /\ conns' = [conns EXCEPT ![NickOf[c]] = c]
  /\ UNCHANGED <<alive, queueVars, sendVars, lost, stopVars>>

Forget(c) == conns' = IF conns[NickOf[c]] = c THEN [conns EXCEPT ![NickOf[c]] = NoConn] ELSE conns

\* READY goes out and the pump starts, or the write fails and it all ends here,
\* with whatever was queued meanwhile.
Ready(c) ==
  /\ life[c] = "registered"
  /\ \/ /\ alive[c]
        /\ life' = [life EXCEPT ![c] = "reading"]
        /\ pump' = [pump EXCEPT ![c] = "run"]
        /\ UNCHANGED <<alive, conns, lost>>
     \/ /\ c \in Fragile \/ ~alive[c]
        /\ Forget(c)
        /\ alive' = [alive EXCEPT ![c] = FALSE]
        /\ life' = [life EXCEPT ![c] = "gone"]
        /\ pump' = [pump EXCEPT ![c] = "exit"]
        /\ lost' = lost \cup Range(priv[c])
  /\ UNCHANGED <<priv, writing, got, sendVars, stopVars>>

\* The socket failed, the peer left, or ctx was cancelled: Read returns.
ReadEnds(c) ==
  /\ life[c] = "reading" /\ ask[c] = Quiet
  /\ c \in Fragile \/ ~alive[c] \/ stop = "stopped"
  /\ alive' = [alive EXCEPT ![c] = FALSE]
  /\ life' = [life EXCEPT ![c] = "leaving"]
  /\ UNCHANGED <<conns, queueVars, sendVars, lost, stopVars>>

\* unregister comes first ...
Unregister(c) ==
  /\ life[c] = "leaving"
  /\ Forget(c)
  /\ life' = [life EXCEPT ![c] = "parted"]
  /\ UNCHANGED <<alive, queueVars, sendVars, lost, stopVars>>

\* ... then leaveAll, which is Membership's, and the cancel of the pumps.
Cancel(c) ==
  /\ life[c] = "parted"
  /\ life' = [life EXCEPT ![c] = "cancelled"]
  /\ UNCHANGED <<conns, alive, queueVars, sendVars, lost, stopVars>>

\* pumps.Wait, and serve returns.
Gone(c) ==
  /\ life[c] = "cancelled" /\ pump[c] = "exit"
  /\ life' = [life EXCEPT ![c] = "gone"]
  /\ lost' = lost \cup Range(priv[c])
  /\ UNCHANGED <<conns, alive, queueVars, sendVars, stopVars>>

-----------------------------------------------------------------------------
(* privPump *)

\* The variants named ...Unsafe or ...Mislaid are not the code: each is a plausible
\* mistake in the definition after it, and a run shows which property it would break.
TakeUnsafe(c) ==
  /\ pump[c] = "run" /\ priv[c] # << >>
  /\ writing' = [writing EXCEPT ![c] = Last(priv[c])]
  /\ priv' = [priv EXCEPT ![c] = Front(@)]
  /\ pump' = [pump EXCEPT ![c] = "write"]
  /\ UNCHANGED <<serveVars, alive, got, sendVars, lost, stopVars>>

Take(c) ==
  /\ pump[c] = "run" /\ priv[c] # << >>
  /\ writing' = [writing EXCEPT ![c] = Head(priv[c])]
  /\ priv' = [priv EXCEPT ![c] = Tail(@)]
  /\ pump' = [pump EXCEPT ![c] = "write"]
  /\ UNCHANGED <<serveVars, alive, got, sendVars, lost, stopVars>>

\* A failed write closes the socket and ends the pump.
Write(c) ==
  /\ pump[c] = "write"
  /\ \/ /\ alive[c]
        /\ got' = [got EXCEPT ![c] = Append(@, writing[c])]
        /\ pump' = [pump EXCEPT ![c] = "run"]
        /\ UNCHANGED <<alive, lost>>
     \/ /\ c \in Fragile \/ ~alive[c]
        /\ alive' = [alive EXCEPT ![c] = FALSE]
        /\ lost' = lost \cup {writing[c]}
        /\ pump' = [pump EXCEPT ![c] = "exit"]
        /\ UNCHANGED got
  /\ writing' = [writing EXCEPT ![c] = NoMsg]
  /\ UNCHANGED <<serveVars, priv, sendVars, stopVars>>

\* select may prefer this to what is still queued.
SeeDone(c) ==
  /\ pump[c] = "run"
  /\ life[c] = "cancelled" \/ stop = "stopped"
  /\ pump' = [pump EXCEPT ![c] = "exit"]
  /\ UNCHANGED <<serveVars, alive, priv, writing, got, sendVars, lost, stopVars>>

-----------------------------------------------------------------------------
(* handlePriv *)

\* Past its checks (a refusal ends the handler, which then does not get here):
\* the directory is read once.
Lookup(c, n) ==
  /\ c \in Talkers /\ life[c] = "reading" /\ ask[c] = Quiet
  /\ n # NickOf[c] /\ conns[n] # NoConn
  /\ seq < MaxSeq
  /\ ask' = [ask EXCEPT ![c] = [at |-> "deliver", to |-> conns[n], id |-> 0]]
  /\ UNCHANGED <<serveVars, alive, queueVars, seq, refused, echoed, lost, stopVars>>

Fits(c) == Len(priv[ask[c].to]) < PrivBuffer

DeliverMislaid(c) ==
  /\ ask[c].at = "deliver"
  /\ seq' = seq + 1
  /\ priv' = IF Fits(c) THEN [priv EXCEPT ![ask[c].to] = Append(@, [id |-> seq', from |-> c])]
                        ELSE priv
  /\ ask' = [ask EXCEPT ![c].at = "echo", ![c].id = seq']
  /\ UNCHANGED <<serveVars, alive, pump, writing, got, refused, echoed, lost, stopVars>>

\* An id, then the recipient's encoding, ErrProtocol if there is none, then the queue
\* if there is room in it, and ErrBacklog if not.
Deliver(c) ==
  /\ ask[c].at = "deliver"
  /\ seq' = seq + 1
  /\ \/ /\ Fits(c)
        /\ priv' = [priv EXCEPT ![ask[c].to] = Append(@, [id |-> seq', from |-> c])]
        /\ ask' = [ask EXCEPT ![c].at = "echo", ![c].id = seq']
        /\ UNCHANGED refused
     \/ /\ ~Fits(c) \/ seq' \in Garbled
        /\ refused' = refused \cup {seq'}
        /\ ask' = [ask EXCEPT ![c] = Quiet]
        /\ UNCHANGED priv
  /\ UNCHANGED <<serveVars, alive, pump, writing, got, echoed, lost, stopVars>>

\* The sender's copy, a blocking write on its own socket; one its codec cannot encode
\* is logged, and the sender is told nothing.
Echo(c) ==
  /\ ask[c].at = "echo"
  /\ ask' = [ask EXCEPT ![c] = Quiet]
  /\ \/ echoed' = echoed \cup {ask[c].id} /\ UNCHANGED alive
     \/ echoed' = echoed \cup {ask[c].id} /\ c \in Fragile /\ alive' = [alive EXCEPT ![c] = FALSE]
     \/ ask[c].id \in Garbled /\ UNCHANGED <<echoed, alive>>
  /\ UNCHANGED <<serveVars, queueVars, seq, refused, lost, stopVars>>

-----------------------------------------------------------------------------
(* run and close *)

Snapshot ==
  /\ MayStop /\ stop = "no"
  /\ stop' = "goodbyes"
  /\ greet' = Range(conns) \ {NoConn}
  /\ UNCHANGED <<serveVars, alive, queueVars, sendVars, lost>>

\* conn.close, one connection after the other.
SayGoodbye(c) ==
  /\ c \in greet
  /\ greet' = greet \ {c}
  /\ alive' = [alive EXCEPT ![c] = FALSE]
  /\ UNCHANGED <<serveVars, queueVars, sendVars, lost, stop>>

StopConn ==
  /\ stop = "goodbyes" /\ greet = {}
  /\ stop' = "stopped"
  /\ UNCHANGED <<serveVars, alive, queueVars, sendVars, lost, greet>>

-----------------------------------------------------------------------------
Serve(c) == Ready(c) \/ ReadEnds(c) \/ Unregister(c) \/ Cancel(c) \/ Gone(c)
Pumping(c) == Take(c) \/ Write(c) \/ SeeDone(c)
Asking(c) == Deliver(c) \/ Echo(c)

PrivNext ==
  \/ \E c \in Conns :
       \/ Register(c)
       \/ Serve(c)
       \/ Pumping(c)
       \/ Asking(c)
       \/ \E n \in Nicks : Lookup(c, n)
       \/ SayGoodbye(c)
  \/ Snapshot
  \/ StopConn

PrivSpec == PrivInit /\ [][PrivNext]_privVars

-----------------------------------------------------------------------------
(* Properties *)

Messages == [id : 1 .. seq, from : Conns]

\* Every variable has its type, and a queue its bound.
PrivTypeOK ==
  /\ life \in [Conns -> {"new", "registered", "reading", "leaving", "parted", "cancelled", "gone"}]
  /\ alive \in [Conns -> BOOLEAN]
  /\ conns \in [Nicks -> Conns \cup {NoConn}]
  /\ priv \in [Conns -> Seq(Messages)] /\ \A c \in Conns : Len(priv[c]) <= PrivBuffer
  /\ got \in [Conns -> Seq(Messages)]
  /\ writing \in [Conns -> Messages \cup {NoMsg}]
  /\ pump \in [Conns -> {"none", "run", "write", "exit"}]
  /\ seq \in Nat
  /\ ask \in [Conns -> [at : {"rest", "deliver", "echo"}, to : Conns \cup {NoConn}, id : 0 .. seq]]
  /\ stop \in {"no", "goodbyes", "stopped"}
  /\ greet \subseteq Conns
  /\ refused \subseteq 1 .. seq /\ echoed \subseteq 1 .. seq
  /\ lost \subseteq Messages

Ids(q) == {q[i].id : i \in DOMAIN q}

\* Where a message can be once its sender was not refused.
Placed(c) == <<Ids(priv[c]), {writing[c].id} \ {0}, Ids(got[c])>>

Somewhere == UNION {Placed(c)[i] : c \in Conns, i \in 1 .. 3}

\* What the sender is told is so: a message refused, as one too many or as one the
\* recipient's codec cannot encode, is never written, one echoed was queued, and no
\* message is in two places or in none unless a connection took it down (conn.go:331-356).
AnswersAreTrue ==
  /\ refused \cap Somewhere = {}
  /\ Somewhere \cup refused \cup {m.id : m \in lost} = 1 .. seq
  /\ echoed \subseteq Somewhere \cup {m.id : m \in lost}
  /\ \A c, d \in Conns, i, j \in 1 .. 3 :
       <<c, i>> # <<d, j>> => Placed(c)[i] \cap Placed(d)[j] = {}

\* A recipient gets the messages of one sender in the order they were sent.
SendersOrder ==
  \A c \in Conns : \A i, k \in DOMAIN got[c] :
    i < k /\ got[c][i].from = got[c][k].from => got[c][i].id < got[c][k].id

=============================================================================
