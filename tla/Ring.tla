-------------------------------- MODULE Ring --------------------------------
(***************************************************************************)
(* internal/broadcast/ring.go: the ring with a read lock, which SeqRing    *)
(* replaces.  Broadcast, Close and Subscribe each hold mu; Recv holds its  *)
(* read side while it copies, or while it registers to sleep, so each of   *)
(* those sections is one action.                                           *)
(*                                                                         *)
(* A message is its sequence number, a notify channel the number of those  *)
(* before it.                                                              *)
(***************************************************************************)
EXTENDS Integers, Sequences, FiniteSets

CONSTANTS
  Writers,       \* goroutines that call Broadcast and Close
  Readers,       \* subscriptions, each with its one reader and its owner
  Capacity,      \* len(buf)
  Batch,         \* len(dst)
  MaxBroadcasts  \* bound on messages ever broadcast

ASSUME RingAssumption ==
  /\ IsFiniteSet(Readers)
  /\ Capacity \in Nat \ {0} /\ Batch \in Nat \ {0} /\ MaxBroadcasts \in Nat

VARIABLES
  buf, seq, notify, closed, waiters, subs, drops,
  fired,  \* the notify channels that have been closed
  wake,   \* per writer: the notify channel it is to close, or None
  pos, err,
  rpc,    \* where each reader is in Subscribe or Recv
  seen,   \* per reader: the notify channel it sleeps on
  out     \* per reader: what its last successful Recv returned

lockedVars == <<buf, seq, notify, closed>>
countVars  == <<waiters, subs, drops>>
writerVars == <<fired, wake>>
readerVars == <<pos, err, rpc, seen, out>>
vars == <<lockedVars, countVars, writerVars, readerVars>>

None == -1
NoErr     == "none"
ErrClosed == "closed"
ErrLagged == "lagged"

Slot(n) == n % Capacity

Init ==
  /\ buf = [i \in 0 .. Capacity - 1 |-> 0]
  /\ seq = 0 /\ notify = 0 /\ closed = FALSE
  /\ waiters = 0 /\ subs = 0 /\ drops = 0
  /\ fired = {}
  /\ wake = [w \in Writers |-> None]
  /\ pos = [r \in Readers |-> 0]
  /\ err = [r \in Readers |-> NoErr]
  /\ rpc = [r \in Readers |-> "absent"]
  /\ seen = [r \in Readers |-> 0]
  /\ out = [r \in Readers |-> << >>]

RGoto(r, label) == rpc' = [rpc EXCEPT ![r] = label]

\* Replace the notify channel; the old one is closed once the lock is released.
SwapNotify(w) ==
  /\ wake' = [wake EXCEPT ![w] = notify]
  /\ notify' = notify + 1

\* The variants named ...Unsafe are not the code: each is a plausible mistake in
\* the definition after it, and a run shows which property it would break.
BroadcastUnsafe(w) ==
  /\ wake[w] = None /\ ~closed /\ seq < MaxBroadcasts
  /\ buf' = [buf EXCEPT ![Slot(seq)] = seq]
  /\ seq' = seq + 1
  /\ UNCHANGED <<notify, closed, countVars, writerVars, readerVars>>

Broadcast(w) ==
  /\ wake[w] = None
  /\ ~closed
  /\ seq < MaxBroadcasts
  /\ buf' = [buf EXCEPT ![Slot(seq)] = seq]
  /\ seq' = seq + 1
  /\ IF waiters > 0 THEN SwapNotify(w) ELSE UNCHANGED <<notify, wake>>
  /\ UNCHANGED <<closed, countVars, fired, readerVars>>

Close(w) ==
  /\ wake[w] = None
  /\ ~closed
  /\ closed' = TRUE
  /\ SwapNotify(w)
  /\ UNCHANGED <<buf, seq, countVars, fired, readerVars>>

FireWake(w) ==
  /\ wake[w] # None
  /\ fired' = fired \cup {wake[w]}
  /\ wake' = [wake EXCEPT ![w] = None]
  /\ UNCHANGED <<lockedVars, countVars, readerVars>>

\* Once: only the first reason counts and subs falls only once.
Finish(r, e) ==
  IF err[r] = NoErr
    THEN err' = [err EXCEPT ![r] = e] /\ subs' = subs - 1
    ELSE UNCHANGED <<err, subs>>

Subscribe(r) ==
  /\ rpc[r] = "absent"
  /\ IF closed
       THEN err' = [err EXCEPT ![r] = ErrClosed] /\ UNCHANGED <<pos, subs>>
       ELSE pos' = [pos EXCEPT ![r] = seq] /\ subs' = subs + 1 /\ UNCHANGED err
  /\ RGoto(r, "idle")
  /\ UNCHANGED <<lockedVars, waiters, drops, writerVars, seen, out>>

CloseSub(r) ==
  /\ rpc[r] # "absent"
  /\ err[r] = NoErr
  /\ Finish(r, ErrClosed)
  /\ UNCHANGED <<lockedVars, waiters, drops, writerVars, pos, rpc, seen, out>>

-----------------------------------------------------------------------------
(* Recv *)

Recv(r) ==
  /\ rpc[r] = "idle"
  /\ RGoto(r, "top")
  /\ UNCHANGED <<lockedVars, countVars, writerVars, pos, err, seen, out>>

LoadErr(r) ==
  /\ rpc[r] = "top"
  /\ RGoto(r, IF err[r] = NoErr THEN "read" ELSE "idle")
  /\ UNCHANGED <<lockedVars, countVars, writerVars, pos, err, seen, out>>

\* How many messages this call can return.
Count(r) == IF seq - pos[r] < Batch THEN seq - pos[r] ELSE Batch

LaggedUnsafe(r) == seq - pos[r] > Capacity + 1

Lagged(r) == seq - pos[r] > Capacity

\* Under the read lock: too far behind ...
SeeLag(r) ==
  /\ rpc[r] = "read"
  /\ Lagged(r)
  /\ RGoto(r, "lag")
  /\ UNCHANGED <<lockedVars, countVars, writerVars, pos, err, seen, out>>

\* ... or something to return ...
Copy(r) ==
  /\ rpc[r] = "read"
  /\ ~Lagged(r) /\ Count(r) > 0
  /\ out' = [out EXCEPT ![r] = [i \in 1 .. Count(r) |-> buf[Slot(pos[r] + i - 1)]]]
  /\ pos' = [pos EXCEPT ![r] = @ + Count(r)]
  /\ RGoto(r, "idle")
  /\ UNCHANGED <<lockedVars, countVars, writerVars, err, seen>>

SeeClosedUnsafe(r) ==
  /\ rpc[r] = "read"
  /\ closed
  /\ RGoto(r, "ended")
  /\ UNCHANGED <<lockedVars, countVars, writerVars, pos, err, seen, out>>

\* ... or nothing, ever again ...
SeeClosed(r) ==
  /\ rpc[r] = "read"
  /\ ~Lagged(r) /\ Count(r) = 0 /\ closed
  /\ RGoto(r, "ended")
  /\ UNCHANGED <<lockedVars, countVars, writerVars, pos, err, seen, out>>

\* ... or nothing yet: register before unlocking, and sleep.
Register(r) ==
  /\ rpc[r] = "read"
  /\ ~Lagged(r) /\ Count(r) = 0 /\ ~closed
  /\ seen' = [seen EXCEPT ![r] = notify]
  /\ waiters' = waiters + 1
  /\ RGoto(r, "asleep")
  /\ UNCHANGED <<lockedVars, subs, drops, writerVars, pos, err, out>>

\* select: the captured notify channel, or done.
Awaken(r) ==
  /\ rpc[r] = "asleep"
  /\ seen[r] \in fired \/ err[r] # NoErr
  /\ RGoto(r, "deregister")
  /\ UNCHANGED <<lockedVars, countVars, writerVars, pos, err, seen, out>>

Deregister(r) ==
  /\ rpc[r] = "deregister"
  /\ waiters' = waiters - 1
  /\ RGoto(r, "top")
  /\ UNCHANGED <<lockedVars, subs, drops, writerVars, pos, err, seen, out>>

\* After unlocking; an owner's Close may come between these two.
CountDrop(r) ==
  /\ rpc[r] = "lag"
  /\ drops' = drops + 1
  /\ RGoto(r, "lagged")
  /\ UNCHANGED <<lockedVars, waiters, subs, writerVars, pos, err, seen, out>>

FinishRecv(r) ==
  /\ rpc[r] \in {"lagged", "ended"}
  /\ Finish(r, IF rpc[r] = "lagged" THEN ErrLagged ELSE ErrClosed)
  /\ RGoto(r, "idle")
  /\ UNCHANGED <<lockedVars, waiters, drops, writerVars, pos, seen, out>>

-----------------------------------------------------------------------------
RecvStep(r) ==
  \/ LoadErr(r)
  \/ SeeLag(r)
  \/ Copy(r)
  \/ SeeClosed(r)
  \/ Register(r)
  \/ Awaken(r)
  \/ Deregister(r)
  \/ CountDrop(r)
  \/ FinishRecv(r)

WriterNext(w) == Broadcast(w) \/ Close(w) \/ FireWake(w)

ReaderNext(r) == Subscribe(r) \/ CloseSub(r) \/ Recv(r) \/ RecvStep(r)

Next ==
  \/ \E w \in Writers : WriterNext(w)
  \/ \E r \in Readers : ReaderNext(r)

Spec == Init /\ [][Next]_vars

-----------------------------------------------------------------------------
(* Properties *)

Labels == {"absent", "idle", "top", "read", "lag", "lagged", "ended", "asleep", "deregister"}

\* Every variable has its type.
TypeOK ==
  /\ buf \in [0 .. Capacity - 1 -> Nat]
  /\ seq \in Nat /\ notify \in Nat /\ closed \in BOOLEAN
  /\ waiters \in Int /\ subs \in Int /\ drops \in Nat
  /\ fired \in SUBSET Nat
  /\ wake \in [Writers -> Nat \cup {None}]
  /\ pos \in [Readers -> Nat]
  /\ err \in [Readers -> {NoErr, ErrClosed, ErrLagged}]
  /\ rpc \in [Readers -> Labels]
  /\ seen \in [Readers -> Nat]
  /\ out \in [Readers -> Seq(Nat)]

InRecv(r) == rpc[r] \notin {"absent", "idle"}

\* What the ring shows a caller of the Broadcaster interface.
AbsEnd ==
  [r \in Readers |-> IF rpc[r] = "absent" THEN "absent"
                     ELSE IF err[r] = NoErr THEN "live" ELSE err[r]]
AbsReceiving == [r \in Readers |-> InRecv(r) /\ rpc[r] # "top"]

Contract == INSTANCE Fanout WITH
  Subs      <- Readers,
  sent      <- seq,
  cursor    <- pos,
  end       <- AbsEnd,
  receiving <- AbsReceiving

\* The same contract SeqRing keeps: Fanout.
ImplementsFanout == Contract!Spec

\* The window the contract rests on: the last Capacity messages are each in
\* their slot, no reader is ahead of the writers, and one about to be dropped
\* really is more than Capacity behind.
WindowInv ==
  /\ \A n \in 0 .. seq - 1 : n + Capacity >= seq => buf[Slot(n)] = n
  /\ \A r \in Readers :
       /\ pos[r] <= seq
       /\ rpc[r] \in {"lag", "lagged"} => seq - pos[r] > Capacity
       /\ rpc[r] = "absent" => err[r] = NoErr

\* No lost wakeup (ring.go:54-55): a sleeper with something to read or a Close to
\* notice sleeps on a channel that is closed or about to be.
NoLostWakeup ==
  \A r \in Readers :
    rpc[r] = "asleep" /\ (seq # pos[r] \/ closed) =>
      seen[r] \in fired \/ \E w \in Writers : wake[w] = seen[r]

\* Each registered sleeper is counted, each subscription leaves the count once.
CountedOnce ==
  /\ waiters = Cardinality({r \in Readers : rpc[r] \in {"asleep", "deregister"}})
  /\ subs = Cardinality({r \in Readers : rpc[r] # "absent" /\ err[r] = NoErr})

\* A subscription the ring's Close ends has been given everything broadcast:
\* seq and closed are read under one lock.  SeqRing does not keep this.
DrainedBeforeClosed ==
  [][\A r \in Readers : rpc[r] = "ended" /\ rpc'[r] = "idle" => seq = pos[r]]_vars

=============================================================================
