------------------------------- MODULE Records -------------------------------
(***************************************************************************)
(* What becomes of a moderator's command: the Store changes in memory      *)
(* first, the record of it is queued for the one worker that tells the     *)
(* Sanctions hook, and speakers are refused by what the Store says then.   *)
(* Around it the life of the process (init.go, shutdown.go): start, stop,  *)
(* drain, crash and start again.  Mutes stand for bans too: the Store and  *)
(* the hook treat both alike, and what a ban does to memberships is        *)
(* Membership's.                                                           *)
(***************************************************************************)
EXTENDS Store, Sequences, FiniteSets

CONSTANTS
  Handlers,      \* connection goroutines that moderate
  Reach,         \* Reach[h]: the entries handler h acts on, with a duration
                 \* for its mutes; 0 is a command without one
  Speakers,      \* connections that talk
  KeyOf,         \* KeyOf[p]: whose connection it is
  RecordQueue,   \* capacity of the records channel
  HookFails,     \* Sanctions.Record may return an error
  Garblers,      \* handlers whose announcements some codec may fail to encode
  MaxActs,       \* bound on moderation commands
  MaxActsAgain,  \* and after a restart
  MaxTime,       \* bound on the clock
  Nobody         \* neither a scope nor anybody's key

ASSUME RecordsAssumption ==
  /\ IsFiniteSet(Handlers)
  /\ Reach \in [Handlers -> SUBSET (Entries \X Nat)]
  /\ KeyOf \in [Speakers -> Keys]
  /\ RecordQueue \in Nat \ {0} /\ MaxActs \in Nat /\ MaxActsAgain \in Nat /\ MaxTime \in Nat
  /\ HookFails \in BOOLEAN /\ Garblers \subseteq Handlers
  /\ Nobody \notin Scopes \cup Keys

VARIABLES
  phase,    \* of the process: "running", "stopping" or "exited"
  now,      \* the clock
  mutes,    \* app.mod
  speaking, \* per speaker: the scope it was cleared to speak in, or Nobody
  doing,    \* per handler: the record it has still to queue, or Nothing
  records,  \* the queue
  worker,   \* "run", "write", "drain", "drainWrite" or "done"
  job,      \* what the worker is writing, or Nothing
  kept,     \* the Sanctions hook's store, which Active hands back
  dropped, failed,
  \* history: what was decided, whatever the janitor forgets; how many messages of
  \* a connection went out in a scope after it was muted there; how many acts there
  \* were, how many of them nobody was told of, how many are in the hook's store; how
  \* the process ended (a crash, or a drain out of time), and whether one ever did
  decided, late, acts, unsaid, written, crashed, expired, restarted

storeVars  == <<mutes, decided>>
actVars    == <<storeVars, doing, acts, unsaid>>
workerVars == <<worker, job, kept, failed, written>>
lifeVars   == <<phase, crashed, restarted>>
vars == <<actVars, now, speaking, late, records, workerVars, dropped, lifeVars, expired>>

Nothing == [entry |-> <<Global, Nobody>>, until |-> Absent, late |-> FALSE]
Jobs    == [entry : Entries, until : Nat \cup {Absent}, late : BOOLEAN]

\* What a record does to a map, the hook's as the Store's; a lift has no deadline.
Apply(m, j) == IF j.until = Absent THEN Clear(m, j.entry) ELSE Set(m, j.entry, j.until)

Init ==
  /\ phase = "running" /\ now = 1
  /\ mutes = Empty /\ decided = Empty /\ kept = Empty
  /\ speaking = [p \in Speakers |-> Nobody]
  /\ late = [p \in Speakers |-> [s \in Scopes |-> 0]]
  /\ doing = [h \in Handlers |-> Nothing]
  /\ records = << >>
  /\ worker = "run" /\ job = Nothing
  /\ dropped = 0 /\ failed = 0 /\ acts = 0 /\ unsaid = 0 /\ written = 0
  /\ crashed = FALSE /\ expired = FALSE /\ restarted = FALSE

-----------------------------------------------------------------------------
(* A moderator: handleMod, announceModeration, recordSanction *)

\* deadline: no duration is for good.
Deadline(d) == IF d = 0 THEN Forever ELSE now + d

\* Mute or Unmute, with what is to be recorded of it.
Act(h, e, until) ==
  /\ phase # "exited" /\ acts < (IF restarted THEN MaxActsAgain ELSE MaxActs)
  /\ doing[h] = Nothing
  /\ LET j == [entry |-> e, until |-> until, late |-> phase = "stopping"]
     IN /\ mutes' = Apply(mutes, j) /\ decided' = Apply(decided, j)
        /\ doing' = [doing EXCEPT ![h] = j]
  /\ acts' = acts + 1
  /\ UNCHANGED <<unsaid, now, speaking, records, workerVars, dropped, lifeVars, expired>>

\* An announcement that cannot be encoded ends the handler: the act stands, its
\* moderator is answered with an error, and there is no record of it.
Unannounced(h) ==
  /\ phase # "exited" /\ doing[h] # Nothing /\ h \in Garblers
  /\ unsaid' = unsaid + 1
  /\ doing' = [doing EXCEPT ![h] = Nothing]
  /\ UNCHANGED <<storeVars, acts, now, speaking, records, workerVars, dropped, lifeVars, expired>>

\* The variants named ...Unsafe are not the code: each is a plausible mistake in
\* the definition after it, and a run shows which property it would break.
RecordUnsafe(h) ==
  /\ phase # "exited" /\ doing[h] # Nothing
  /\ records' = IF Len(records) < RecordQueue THEN Append(records, doing[h]) ELSE records
  /\ doing' = [doing EXCEPT ![h] = Nothing]
  /\ UNCHANGED <<storeVars, acts, unsaid, now, speaking, workerVars, dropped, lifeVars, expired>>

\* A full queue drops the record, and says so.
Record(h) ==
  /\ phase # "exited" /\ doing[h] # Nothing
  /\ IF Len(records) < RecordQueue
       THEN /\ records' = Append(records, [doing[h] EXCEPT !.late = phase = "stopping"])
            /\ UNCHANGED dropped
       ELSE dropped' = dropped + 1 /\ UNCHANGED records
  /\ doing' = [doing EXCEPT ![h] = Nothing]
  /\ UNCHANGED <<storeVars, acts, unsaid, now, speaking, workerVars, lifeVars, expired>>

-----------------------------------------------------------------------------
(* A speaker: the mute check of handleMsg, or of handlePriv, where only a  *)
(* server-wide mute counts, and the message going out.  Being refused      *)
(* changes nothing.                                                        *)

ClearedUnsafe(p, s) ==
  /\ phase # "exited" /\ speaking[p] = Nobody
  /\ ~Stands(mutes[(IF mutes[s, KeyOf[p]] = Absent THEN Global ELSE s), KeyOf[p]], now)
  /\ speaking' = [speaking EXCEPT ![p] = s]
  /\ UNCHANGED <<actVars, now, records, workerVars, dropped, lifeVars, expired>>

Cleared(p, s) ==
  /\ phase # "exited" /\ speaking[p] = Nobody
  /\ ~Active(mutes, s, KeyOf[p], now)
  /\ speaking' = [speaking EXCEPT ![p] = s]
  /\ UNCHANGED <<actVars, now, records, workerVars, dropped, lifeVars, expired>>

Speak(p) ==
  /\ phase # "exited" /\ speaking[p] # Nobody
  /\ speaking' = [speaking EXCEPT ![p] = Nobody]
  /\ UNCHANGED <<actVars, now, records, workerVars, dropped, lifeVars, expired>>

-----------------------------------------------------------------------------
(* The janitor, and time *)

Sweep ==
  /\ phase = "running"
  /\ mutes' = Swept(mutes, now)
  /\ UNCHANGED <<decided, doing, acts, unsaid, now, speaking, records, workerVars, dropped, lifeVars, expired>>

Tick ==
  /\ phase # "exited" /\ now < MaxTime
  /\ now' = now + 1
  /\ UNCHANGED <<actVars, speaking, records, workerVars, dropped, lifeVars, expired>>

-----------------------------------------------------------------------------
(* recordWorker *)

TakeUnsafe ==
  /\ phase # "exited"
  /\ worker \in {"run", "drain"} /\ records # << >>
  /\ job' = records[Len(records)]
  /\ records' = SubSeq(records, 1, Len(records) - 1)
  /\ worker' = IF worker = "run" THEN "write" ELSE "drainWrite"
  /\ UNCHANGED <<actVars, now, speaking, kept, failed, written, dropped, lifeVars, expired>>

\* select over the queue and ctx.Done: with both ready, either.
Take ==
  /\ phase # "exited"
  /\ worker \in {"run", "drain"} /\ records # << >>
  /\ job' = Head(records)
  /\ records' = Tail(records)
  /\ worker' = IF worker = "run" THEN "write" ELSE "drainWrite"
  /\ UNCHANGED <<actVars, now, speaking, kept, failed, written, dropped, lifeVars, expired>>

\* runRecord: an error is counted and logged, never retried, and
\* the drain may be out of its five seconds.
Write ==
  /\ phase # "exited"
  /\ worker \in {"write", "drainWrite"}
  /\ \/ /\ kept' = Apply(kept, job)
        /\ written' = written + 1
        /\ UNCHANGED failed
     \/ /\ HookFails
        /\ failed' = failed + 1
        /\ UNCHANGED <<kept, written>>
  /\ job' = Nothing
  /\ \/ /\ worker' = IF worker = "write" THEN "run" ELSE "drain"
        /\ UNCHANGED expired
     \/ worker = "drainWrite" /\ worker' = "done" /\ expired' = TRUE
  /\ UNCHANGED <<actVars, now, speaking, records, dropped, lifeVars>>

WorkerMoves(from, to) ==
  /\ worker = from /\ worker' = to
  /\ UNCHANGED <<actVars, now, speaking, records, job, kept, failed, written, dropped, lifeVars, expired>>

SeeStopUnsafe == phase = "stopping" /\ WorkerMoves("run", "done")
SeeStop == phase = "stopping" /\ WorkerMoves("run", "drain")

DrainedUnsafe == phase # "exited" /\ records = << >> /\ WorkerMoves("drain", "run")

\* Nothing left, as of now: close(recordsDone).
Drained == phase # "exited" /\ records = << >> /\ WorkerMoves("drain", "done")

-----------------------------------------------------------------------------
(* The process *)

PhaseMoves(to) ==
  /\ phase' = to
  /\ UNCHANGED <<actVars, now, speaking, records, workerVars, dropped, restarted, expired>>

\* app.close, as far as stopConn: handlers already running are not waited for.
Stop == phase = "running" /\ PhaseMoves("stopping") /\ UNCHANGED crashed

\* <-recordsDone, and main returns.
Exit == phase = "stopping" /\ worker = "done" /\ PhaseMoves("exited") /\ UNCHANGED crashed

Crash == phase # "exited" /\ PhaseMoves("exited") /\ crashed' = TRUE

\* loadSanctions puts back what the hook hands it, before the listener starts.
Restart ==
  /\ phase = "exited" /\ ~restarted
  /\ phase' = "running" /\ restarted' = TRUE /\ crashed' = FALSE /\ expired' = FALSE
  /\ mutes' = kept /\ decided' = kept
  /\ speaking' = [p \in Speakers |-> Nobody]
  /\ doing' = [h \in Handlers |-> Nothing]
  /\ records' = << >> /\ worker' = "run" /\ job' = Nothing
  /\ dropped' = 0 /\ failed' = 0 /\ acts' = 0 /\ unsaid' = 0 /\ written' = 0
  /\ UNCHANGED <<kept, now>>

-----------------------------------------------------------------------------
WorkerStep == Take \/ Write \/ SeeStop \/ Drained

Step ==
  \/ \E h \in Handlers :
       \/ \E r \in Reach[h] : Act(h, r[1], Deadline(r[2])) \/ Act(h, r[1], Absent)
       \/ Record(h)
       \/ Unannounced(h)
  \/ \E p \in Speakers : (\E s \in Scopes : Cleared(p, s)) \/ Speak(p)
  \/ Sweep
  \/ Tick
  \/ WorkerStep
  \/ Stop
  \/ Exit
  \/ Crash
  \/ Restart

\* A message that goes out in a scope where its sender is muted by now is late.
CountLate ==
  late' = [p \in Speakers |-> [s \in Scopes |->
             IF ~Active(decided', s, KeyOf[p], now') THEN 0
             ELSE IF speaking[p] = s /\ speaking'[p] = Nobody /\ phase' = phase THEN late[p][s] + 1
             ELSE late[p][s]]]

Next == Step /\ CountLate

Spec == Init /\ [][Next]_vars

\* The worker runs when it can, the hook returns, and main waits only for it.
FairSpec == Spec /\ WF_vars(WorkerStep /\ CountLate) /\ WF_vars(Exit /\ CountLate)

-----------------------------------------------------------------------------
(* Properties *)

\* Every variable has its type, and the queue its bound.
TypeOK ==
  /\ phase \in {"running", "stopping", "exited"}
  /\ now \in Nat
  /\ mutes \in Maps /\ decided \in Maps /\ kept \in Maps
  /\ speaking \in [Speakers -> Scopes \cup {Nobody}]
  /\ late \in [Speakers -> [Scopes -> Nat]]
  /\ doing \in [Handlers -> Jobs \cup {Nothing}]
  /\ records \in Seq(Jobs) /\ Len(records) <= RecordQueue
  /\ worker \in {"run", "write", "drain", "drainWrite", "done"}
  /\ job \in Jobs \cup {Nothing}
  /\ dropped \in Nat /\ failed \in Nat /\ acts \in Nat /\ unsaid \in Nat /\ written \in Nat
  /\ crashed \in BOOLEAN /\ expired \in BOOLEAN /\ restarted \in BOOLEAN

InHand  == IF job = Nothing THEN 0 ELSE 1
Pending == {h \in Handlers : doing[h] # Nothing}
Quiet   == Pending = {} /\ records = << >> /\ job = Nothing

\* A mute is looked at once, before the message goes out, so one that lands in
\* between is late by one message of each connection and no more: not for a channel
\* entry that ran out before the server-wide one, nor for what the janitor swept
\* (conn.go:294, moderation.go:71-92).
LateByOne == \A p \in Speakers, s \in Scopes : late[p][s] <= 1

\* Every act is written, or refused by the hook or the queue and counted as such, or
\* still on its way, or its moderator was told that it could not be announced
\* (moderation.go:86-91): none goes missing in between (hooks.go:204-212).
EveryActAccounted ==
  acts = written + failed + dropped + unsaid + Len(records) + Cardinality(Pending)
         + InHand

\* One worker, so records are written in the order things happened (hooks.go:267):
\* once all is quiet, and nothing was lost or left unannounced, the hook's store and
\* the Store agree on who is under a sanction, though only one of them is swept: a
\* restart brings back the sanctions in force, no more and no fewer.
StoreAgrees ==
  phase = "running" /\ Quiet /\ dropped = 0 /\ failed = 0 /\ unsaid = 0 =>
    \A s \in Scopes, k \in Keys : Active(kept, s, k, now) <=> Active(mutes, s, k, now)

\* A shutdown that is given its time leaves nothing unwritten that was queued
\* before it began.
QueuedIsWritten ==
  phase = "exited" /\ ~crashed /\ ~expired =>
    /\ job = Nothing
    /\ \A i \in 1 .. Len(records) : records[i].late

\* The process does exit: the worker notices the stop, and the drain ends.
ShutdownEnds == phase = "stopping" ~> phase = "exited"
=============================================================================
