------------------------------ MODULE SeqRing -------------------------------
(***************************************************************************)
(* internal/broadcast/seqring.go: the ring every channel is built on.      *)
(* Broadcasts are serialised by wmu; a subscriber reads without a lock,    *)
(* validates each batch against begin (a seqlock), and sleeps on a notify  *)
(* channel that Broadcast replaces and closes.  Every action is one load   *)
(* or store of an atomic, or one lock operation with the loads it orders.  *)
(*                                                                         *)
(* A message is its sequence number, so a slot read in the wrong lap is a  *)
(* wrong message.  A notify channel is the number of those before it.      *)
(***************************************************************************)
EXTENDS Integers, Sequences, FiniteSets

CONSTANTS
  Writers,       \* goroutines that call Broadcast and Close
  NoWriter,      \* wmu is free
  Readers,       \* subscriptions, each with its one reader and its owner
  Capacity,      \* len(buf)
  Batch,         \* len(dst)
  MaxBroadcasts  \* bound on messages ever broadcast

ASSUME SeqRingAssumption ==
  /\ NoWriter \notin Writers
  /\ IsFiniteSet(Readers)
  /\ Capacity \in Nat \ {0}
  /\ Batch \in Nat \ {0}
  /\ MaxBroadcasts \in Nat

VARIABLES
  buf, wmu, closed, begin, published, notify, waiters, subs, drops,
  fired,  \* the notify channels that have been closed
  wpc,    \* where each writer is in Broadcast or Close
  wake,   \* per writer: the notify channel it is to close
  pos, err,
  rpc,    \* where each reader is in Subscribe or Recv
  pub,    \* per reader: its copy of published
  seen,   \* per reader: its copy of notify
  dst,    \* per reader: what it has copied so far
  out     \* per reader: what its last successful Recv returned

ringVars   == <<buf, begin, published>>
wakeVars   == <<notify, waiters, fired>>
countVars  == <<subs, drops>>
writerVars == <<wmu, wpc, wake>>
readerVars == <<pos, err, rpc, pub, seen, dst, out>>
vars == <<ringVars, wakeVars, countVars, writerVars, readerVars, closed>>

Slot(n) == n % Capacity

NoErr     == "none"
ErrClosed == "closed"
ErrLagged == "lagged"

Init ==
  /\ buf = [i \in 0 .. Capacity - 1 |-> 0]
  /\ wmu = NoWriter
  /\ closed = FALSE
  /\ begin = 0
  /\ published = 0
  /\ notify = 0
  /\ waiters = 0
  /\ subs = 0
  /\ drops = 0
  /\ fired = {}
  /\ wpc = [w \in Writers |-> "idle"]
  /\ wake = [w \in Writers |-> 0]
  /\ pos = [r \in Readers |-> 0]
  /\ err = [r \in Readers |-> NoErr]
  /\ rpc = [r \in Readers |-> "absent"]
  /\ pub = [r \in Readers |-> 0]
  /\ seen = [r \in Readers |-> 0]
  /\ dst = [r \in Readers |-> << >>]
  /\ out = [r \in Readers |-> << >>]

WGoto(w, label) == wpc' = [wpc EXCEPT ![w] = label]
RGoto(r, label) == rpc' = [rpc EXCEPT ![r] = label]

-----------------------------------------------------------------------------
(* Broadcast *)

\* Finding it closed unlocks and returns, which changes nothing.
BroadcastLock(w) ==
  /\ wpc[w] = "idle"
  /\ wmu = NoWriter
  /\ ~closed
  /\ published < MaxBroadcasts
  /\ wmu' = w
  /\ WGoto(w, "begin")
  /\ UNCHANGED <<ringVars, wakeVars, countVars, readerVars, wake, closed>>

StoreBegin(w) ==
  /\ wpc[w] = "begin"
  /\ begin' = published + 1
  /\ WGoto(w, "slot")
  /\ UNCHANGED <<buf, published, wakeVars, countVars, readerVars, wmu, wake, closed>>

StoreSlot(w) ==
  /\ wpc[w] = "slot"
  /\ buf' = [buf EXCEPT ![Slot(published)] = published]
  /\ WGoto(w, "publish")
  /\ UNCHANGED <<begin, published, wakeVars, countVars, readerVars, wmu, wake, closed>>

StorePublished(w) ==
  /\ wpc[w] = "publish"
  /\ published' = published + 1
  /\ WGoto(w, "waiters")
  /\ UNCHANGED <<buf, begin, wakeVars, countVars, readerVars, wmu, wake, closed>>

\* Nobody asleep: unlock and return.  Otherwise swap the notify channel.
LoadWaiters(w) ==
  /\ wpc[w] = "waiters"
  /\ IF waiters > 0
       THEN WGoto(w, "swap") /\ UNCHANGED wmu
       ELSE WGoto(w, "idle") /\ wmu' = NoWriter
  /\ UNCHANGED <<ringVars, wakeVars, countVars, readerVars, wake, closed>>

\* Swap the notify channel for a fresh one, and unlock: Broadcast and Close.
SwapNotify(w) ==
  /\ wpc[w] = "swap"
  /\ wake' = [wake EXCEPT ![w] = notify]
  /\ notify' = notify + 1
  /\ wmu' = NoWriter
  /\ WGoto(w, "wake")
  /\ UNCHANGED <<ringVars, waiters, fired, countVars, readerVars, closed>>

\* close(wake), outside the lock.
FireWake(w) ==
  /\ wpc[w] = "wake"
  /\ fired' = fired \cup {wake[w]}
  /\ WGoto(w, "idle")
  /\ UNCHANGED <<ringVars, notify, waiters, countVars, readerVars, wmu, wake, closed>>

(* Close *)

\* The variants named ...Unsafe are not the code: each is a plausible mistake in
\* the definition after it, and a run shows which property it would break.
CloseRingUnsafe(w) ==
  /\ wpc[w] = "idle"
  /\ wmu = NoWriter
  /\ closed' = TRUE
  /\ UNCHANGED <<ringVars, wakeVars, countVars, readerVars, writerVars>>

CloseRing(w) ==
  /\ wpc[w] = "idle"
  /\ wmu = NoWriter
  /\ ~closed
  /\ wmu' = w
  /\ closed' = TRUE
  /\ WGoto(w, "swap")
  /\ UNCHANGED <<ringVars, wakeVars, countVars, readerVars, wake>>

-----------------------------------------------------------------------------
(* Subscribe and Sub.Close *)

FinishUnsafe(r, e) == err' = [err EXCEPT ![r] = e] /\ subs' = subs - 1

\* finish: once, so only the first reason counts and subs falls only once.
Finish(r, e) ==
  IF err[r] = NoErr
    THEN err' = [err EXCEPT ![r] = e] /\ subs' = subs - 1
    ELSE UNCHANGED <<err, subs>>

\* subs.Add and closed.Load: counted even when closed, where finish evens it out.
SubscribeCount(r) ==
  /\ rpc[r] = "absent"
  /\ IF closed
       THEN /\ RGoto(r, "idle")
            /\ err' = [err EXCEPT ![r] = ErrClosed]
            /\ UNCHANGED subs
       ELSE /\ RGoto(r, "cursor")
            /\ subs' = subs + 1
            /\ UNCHANGED err
  /\ UNCHANGED <<ringVars, wakeVars, writerVars, drops, closed, pos, pub, seen, dst, out>>

SubscribeCursor(r) ==
  /\ rpc[r] = "cursor"
  /\ pos' = [pos EXCEPT ![r] = published]
  /\ RGoto(r, "idle")
  /\ UNCHANGED <<ringVars, wakeVars, writerVars, countVars, closed, err, pub, seen, dst, out>>

\* The owner ends the subscription while its reader may be anywhere in Recv.
CloseSub(r) ==
  /\ rpc[r] \notin {"absent", "cursor"}
  /\ err[r] = NoErr
  /\ Finish(r, ErrClosed)
  /\ UNCHANGED <<ringVars, wakeVars, writerVars, drops, closed, pos, rpc, pub, seen, dst, out>>

-----------------------------------------------------------------------------
(* Recv *)

\* Reader-local steps leave everything shared alone.
SharedUnchanged == UNCHANGED <<ringVars, wakeVars, countVars, writerVars, closed, err>>

Recv(r) ==
  /\ rpc[r] = "idle"
  /\ RGoto(r, "top")
  /\ SharedUnchanged
  /\ UNCHANGED <<pos, pub, seen, dst, out>>

\* Top of the loop: an ended subscription returns its reason, for good.
LoadErr(r) ==
  /\ rpc[r] = "top"
  /\ RGoto(r, IF err[r] = NoErr THEN "load" ELSE "idle")
  /\ SharedUnchanged
  /\ UNCHANGED <<pos, pub, seen, dst, out>>

LoadPublishedUnsafe(r) ==
  /\ rpc[r] = "load"
  /\ pub' = [pub EXCEPT ![r] = published]
  /\ RGoto(r, CASE published = pos[r]             -> "drained"
                [] published >= pos[r] + Capacity -> "lag"
                [] OTHER                          -> "copy")
  /\ dst' = [dst EXCEPT ![r] = << >>]
  /\ SharedUnchanged
  /\ UNCHANGED <<pos, seen, out>>

\* published.Load, and the branch on how far behind that says the reader is.
LoadPublished(r) ==
  /\ rpc[r] = "load"
  /\ pub' = [pub EXCEPT ![r] = published]
  /\ RGoto(r, CASE published = pos[r]            -> "drained"
                [] published > pos[r] + Capacity -> "lag"
                [] OTHER                         -> "copy")
  /\ dst' = [dst EXCEPT ![r] = << >>]
  /\ SharedUnchanged
  /\ UNCHANGED <<pos, seen, out>>

\* Nothing to read.  closed is loaded after published was.
LoadClosed(r) ==
  /\ rpc[r] = "drained"
  /\ IF closed
       THEN RGoto(r, "idle") /\ Finish(r, ErrClosed)
       ELSE RGoto(r, "capture") /\ UNCHANGED <<err, subs>>
  /\ UNCHANGED <<ringVars, wakeVars, writerVars, drops, closed, pos, pub, seen, dst, out>>

CaptureNotify(r) ==
  /\ rpc[r] = "capture"
  /\ seen' = [seen EXCEPT ![r] = notify]
  /\ RGoto(r, "register")
  /\ SharedUnchanged
  /\ UNCHANGED <<pos, pub, dst, out>>

Register(r) ==
  /\ rpc[r] = "register"
  /\ waiters' = waiters + 1
  /\ RGoto(r, "recheck")
  /\ UNCHANGED <<ringVars, notify, fired, countVars, writerVars, closed, err>>
  /\ UNCHANGED <<pos, pub, seen, dst, out>>

RecheckPublishedUnsafe(r) ==
  /\ rpc[r] = "recheck"
  /\ RGoto(r, "recheckClosed")
  /\ SharedUnchanged
  /\ UNCHANGED <<pos, pub, seen, dst, out>>

\* published.Load() != s.pos || r.closed.Load(), left to right.
RecheckPublished(r) ==
  /\ rpc[r] = "recheck"
  /\ RGoto(r, IF published # pos[r] THEN "deregister" ELSE "recheckClosed")
  /\ SharedUnchanged
  /\ UNCHANGED <<pos, pub, seen, dst, out>>

RecheckClosed(r) ==
  /\ rpc[r] = "recheckClosed"
  /\ RGoto(r, IF closed THEN "deregister" ELSE "asleep")
  /\ SharedUnchanged
  /\ UNCHANGED <<pos, pub, seen, dst, out>>

\* select: the captured notify channel, or done.
Awaken(r) ==
  /\ rpc[r] = "asleep"
  /\ seen[r] \in fired \/ err[r] # NoErr
  /\ RGoto(r, "deregister")
  /\ SharedUnchanged
  /\ UNCHANGED <<pos, pub, seen, dst, out>>

Deregister(r) ==
  /\ rpc[r] = "deregister"
  /\ waiters' = waiters - 1
  /\ RGoto(r, "top")
  /\ UNCHANGED <<ringVars, notify, fired, countVars, writerVars, closed, err>>
  /\ UNCHANGED <<pos, pub, seen, dst, out>>

\* The next sequence to copy; the code advances s.pos itself, and only the
\* reader looks at it, so here pos moves once the batch is known to be good.
At(r) == pos[r] + Len(dst[r])

MoreToCopy(r) == At(r) < pub[r] /\ Len(dst[r]) < Batch

CopySlot(r) ==
  /\ rpc[r] = "copy"
  /\ MoreToCopy(r)
  /\ dst' = [dst EXCEPT ![r] = Append(@, buf[Slot(At(r))])]
  /\ SharedUnchanged
  /\ UNCHANGED <<pos, rpc, pub, seen, out>>

ValidateUnsafe(r) ==
  /\ rpc[r] = "copy"
  /\ ~MoreToCopy(r)
  /\ RGoto(r, "idle")
  /\ pos' = [pos EXCEPT ![r] = At(r)]
  /\ out' = [out EXCEPT ![r] = dst[r]]
  /\ dst' = [dst EXCEPT ![r] = << >>]
  /\ SharedUnchanged
  /\ UNCHANGED <<pub, seen>>

\* The seqlock check.  Failing rewinds and retries rather than drops.
Validate(r) ==
  /\ rpc[r] = "copy"
  /\ ~MoreToCopy(r)
  /\ IF begin > pos[r] + Capacity
       THEN RGoto(r, "top") /\ UNCHANGED <<pos, out>>
       ELSE /\ RGoto(r, "idle")
            /\ pos' = [pos EXCEPT ![r] = At(r)]
            /\ out' = [out EXCEPT ![r] = dst[r]]
  /\ dst' = [dst EXCEPT ![r] = << >>]
  /\ SharedUnchanged
  /\ UNCHANGED <<pub, seen>>

\* lag: counted, then finished, so an owner's Close may come in between.
CountDrop(r) ==
  /\ rpc[r] = "lag"
  /\ drops' = drops + 1
  /\ RGoto(r, "lagged")
  /\ UNCHANGED <<ringVars, wakeVars, writerVars, subs, closed, err, pos, pub, seen, dst, out>>

FinishLagged(r) ==
  /\ rpc[r] = "lagged"
  /\ Finish(r, ErrLagged)
  /\ RGoto(r, "idle")
  /\ UNCHANGED <<ringVars, wakeVars, writerVars, drops, closed, pos, pub, seen, dst, out>>

-----------------------------------------------------------------------------
\* A writer in the middle of a call: what it does once it holds the lock.
WriterStep(w) ==
  \/ StoreBegin(w)
  \/ StoreSlot(w)
  \/ StorePublished(w)
  \/ LoadWaiters(w)
  \/ SwapNotify(w)
  \/ FireWake(w)

\* A reader in the middle of a Recv.
RecvStep(r) ==
  \/ LoadErr(r)
  \/ LoadPublished(r)
  \/ LoadClosed(r)
  \/ CaptureNotify(r)
  \/ Register(r)
  \/ RecheckPublished(r)
  \/ RecheckClosed(r)
  \/ Awaken(r)
  \/ Deregister(r)
  \/ CopySlot(r)
  \/ Validate(r)
  \/ CountDrop(r)
  \/ FinishLagged(r)

WriterNext(w) == BroadcastLock(w) \/ CloseRing(w) \/ WriterStep(w)

ReaderNext(r) ==
  \/ SubscribeCount(r)
  \/ SubscribeCursor(r)
  \/ CloseSub(r)
  \/ Recv(r)
  \/ RecvStep(r)

Next ==
  \/ \E w \in Writers : WriterNext(w)
  \/ \E r \in Readers : ReaderNext(r)

Spec == Init /\ [][Next]_vars

\* Goroutines that are runnable run.  Nobody need call Broadcast, Close or Recv.
Fairness ==
  /\ \A w \in Writers : WF_vars(WriterStep(w))
  /\ \A r \in Readers : WF_vars(RecvStep(r))

FairSpec == Spec /\ Fairness

-----------------------------------------------------------------------------
(* Properties *)

Registered == {"recheck", "recheckClosed", "asleep", "deregister"}
Locked     == {"begin", "slot", "publish", "waiters", "swap"}
WriterLabels == {"idle", "wake"} \cup Locked
ReaderLabels == {"absent", "cursor", "idle", "top", "load", "drained", "capture", "register",
                 "copy", "lag", "lagged"} \cup Registered
InRecv(r)  == rpc[r] \notin {"absent", "cursor", "idle"}

\* Every variable has its type.
TypeOK ==
  /\ buf \in [0 .. Capacity - 1 -> Nat]
  /\ wmu \in Writers \cup {NoWriter}
  /\ closed \in BOOLEAN
  /\ begin \in Nat /\ published \in Nat /\ notify \in Nat
  /\ waiters \in Int /\ subs \in Int /\ drops \in Nat
  /\ fired \in SUBSET Nat
  /\ wpc \in [Writers -> WriterLabels]
  /\ wake \in [Writers -> Nat]
  /\ pos \in [Readers -> Nat]
  /\ err \in [Readers -> {NoErr, ErrClosed, ErrLagged}]
  /\ rpc \in [Readers -> ReaderLabels]
  /\ pub \in [Readers -> Nat]
  /\ seen \in [Readers -> Nat]
  /\ dst \in [Readers -> Seq(Nat)]
  /\ out \in [Readers -> Seq(Nat)]

\* What broadcast.go promises (Fanout): every batch returned is the next
\* messages in order, none torn, skipped, repeated or from another lap; a
\* subscriber is dropped only once more than Capacity behind; nothing is
\* delivered by a Recv that began after the subscription ended.
EndOf(r) ==
  IF rpc[r] \in {"absent", "cursor"} THEN "absent"
  ELSE IF err[r] = NoErr THEN "live" ELSE err[r]

AbsEnd       == [r \in Readers |-> EndOf(r)]
AbsReceiving == [r \in Readers |-> InRecv(r) /\ rpc[r] # "top"]

Contract == INSTANCE Fanout WITH
  Subs      <- Readers,
  sent      <- published,
  cursor    <- pos,
  end       <- AbsEnd,
  receiving <- AbsReceiving

ImplementsFanout == Contract!Spec

\* No lost wakeup (seqring.go:53-54, 96-97): a reader asleep on a channel that
\* is still open, with something to read or a Close to notice, is about to be
\* woken: a writer is past its store and has yet to look for waiters, to swap
\* that channel out, or to close it.
NoLostWakeup ==
  \A r \in Readers :
    (rpc[r] = "asleep" /\ seen[r] \notin fired /\ (published # pos[r] \/ closed)) =>
      \E w \in Writers :
        \/ wpc[w] \in {"waiters", "swap"} /\ notify = seen[r]
        \/ wpc[w] = "wake" /\ wake[w] = seen[r]

\* Whatever order a lag, an owner's Close and a ring's Close land in, each
\* subscription leaves the count once, is counted as a drop at most once, and
\* every subscription that ended ErrLagged was counted.
CountedOnce ==
  /\ subs = Cardinality({r \in Readers : rpc[r] # "absent" /\ err[r] = NoErr})
  /\ drops >= Cardinality({r \in Readers : err[r] = ErrLagged})
  /\ drops <= Cardinality({r \in Readers : err[r] # NoErr \/ rpc[r] = "lagged"})

\* A Recv that has something to report reports it: it does not sleep through a
\* message, a Close of the ring or a Close of its subscription, and it does not
\* retry forever against a writer (seqring.go:175-176).
RecvReturns ==
  \A r \in Readers :
    (InRecv(r) /\ (published # pos[r] \/ closed \/ err[r] # NoErr)) ~> ~InRecv(r)

-----------------------------------------------------------------------------
(* The inductive invariant behind Contract and NoLostWakeup *)

\* The lock's holder is the one writer inside it; begin is one ahead of
\* published exactly while that writer is between its two stores; a ring is
\* not closed while a message is being written.
LockInv ==
  /\ \A w \in Writers : wpc[w] \in Locked <=> wmu = w
  /\ \A w \in Writers : wpc[w] \in {"slot", "publish"} => begin = published + 1
  /\ (\A w \in Writers : wpc[w] \notin {"slot", "publish"}) => begin = published
  /\ \A w \in Writers : wpc[w] \in {"begin", "slot", "publish"} => ~closed

\* A slot holds the message it should until begin has moved a lap past it.
SlotInv ==
  /\ \A n \in 0 .. published - 1 : n + Capacity >= begin => buf[Slot(n)] = n
  /\ \A w \in Writers : wpc[w] = "publish" => buf[Slot(published)] = published

\* What a reader has copied is right, unless begin has moved a lap past it, and
\* a reader about to be dropped really is more than Capacity behind.
CopyInv ==
  \A r \in Readers :
    /\ rpc[r] \in {"absent", "cursor"} => err[r] = NoErr
    /\ pos[r] <= published
    /\ rpc[r] \in {"lag", "lagged"} => published > pos[r] + Capacity
    /\ rpc[r] = "copy" =>
         /\ pos[r] < pub[r] /\ pub[r] <= published
         /\ At(r) <= pub[r] /\ Len(dst[r]) <= Batch
         /\ \A k \in 1 .. Len(dst[r]) :
              dst[r][k] = pos[r] + k - 1 \/ begin > pos[r] + k - 1 + Capacity

\* The sleeping protocol.  Every notify channel swapped out is closed or about to
\* be; registered readers are counted; a reader on the current channel has
\* nothing to wake for unless a writer is still to look for it.
SwappedInv ==
  \A n \in 0 .. notify - 1 :
    n \in fired \/ \E w \in Writers : wpc[w] = "wake" /\ wake[w] = n

CountInv == waiters = Cardinality({r \in Readers : rpc[r] \in Registered})

SleepInv ==
  \A r \in Readers :
    /\ seen[r] <= notify
    /\ rpc[r] \in {"recheckClosed", "asleep"} /\ seen[r] = notify /\ published # pos[r] =>
         \E w \in Writers : wpc[w] \in {"waiters", "swap"}
    /\ rpc[r] = "asleep" /\ seen[r] = notify /\ closed => \E w \in Writers : wpc[w] = "swap"

WakeInv == SwappedInv /\ CountInv /\ SleepInv

\* What a slot holds and what a reader has copied of it, as far as the lock,
\* begin and published allow either to be relied on.
SeqlockInv == LockInv /\ SlotInv /\ CopyInv

\* The invariant the proofs carry.
Inv == TypeOK /\ SeqlockInv

=============================================================================
