------------------------------- MODULE MapChan ------------------------------
(***************************************************************************)
(* The baseline Broadcaster (internal/broadcast/broadcast.go): a buffered  *)
(* channel per subscriber, filled under a read lock that broadcasts share, *)
(* and a second pass under the write lock that drops those whose channel   *)
(* was full.  Broadcasts overlap, so MapChan promises less than Fanout: no *)
(* order between two of them, and a subscriber that is about to be dropped *)
(* may still be sent what comes after the message it missed.               *)
(*                                                                         *)
(* What is done under the write lock is one step, which no reader shares.  *)
(***************************************************************************)
EXTENDS Integers, Sequences, FiniteSets

CONSTANTS
  Writers,   \* goroutines that broadcast
  Subs,
  Buffer,    \* cap(ch)
  MaxMsgs    \* bound on messages

ASSUME MapChanAssumption == IsFiniteSet(Subs) /\ Buffer \in Nat \ {0} /\ MaxMsgs \in Nat

VARIABLES
  subs,      \* MapChan.subs
  closed,    \* MapChan.closed
  drops,     \* MapChan.drops
  ch,        \* per subscription: what its channel holds
  shut,      \* per subscription: its channel is closed
  lagged,    \* per subscription
  sent,      \* messages broadcast so far; each is its number
  pc,        \* per writer: "idle", "send" (it holds the read lock) or "drop"
  msg,       \* per writer: its message
  todo,      \* per writer: subscriptions its loop has not come to
  slow,      \* per writer: those that were full
  got,       \* per subscription: how many messages Recv returned
  end,       \* per subscription: "absent", "live", "lagged" or "closed"
  \* history: what a subscription was not sent, and a send to, or a close of, a
  \* closed channel, which panics
  missed, panicked

mapVars  == <<subs, closed, drops, shut, lagged>>
loopVars == <<sent, pc, msg, todo, slow>>
vars == <<mapVars, ch, loopVars, got, end, missed, panicked>>

Init ==
  /\ subs = {} /\ closed = FALSE /\ drops = 0
  /\ ch = [s \in Subs |-> << >>]
  /\ shut = [s \in Subs |-> FALSE]
  /\ lagged = [s \in Subs |-> FALSE]
  /\ sent = 0
  /\ pc = [w \in Writers |-> "idle"]
  /\ msg = [w \in Writers |-> 0]
  /\ todo = [w \in Writers |-> {}]
  /\ slow = [w \in Writers |-> {}]
  /\ got = [s \in Subs |-> 0]
  /\ end = [s \in Subs |-> "absent"]
  /\ missed = [s \in Subs |-> {}]
  /\ panicked = FALSE

NoReaders == \A w \in Writers : pc[w] # "send"

\* finish: once, and the reason before the close.
Finish(S, lag) ==
  /\ lagged' = [s \in Subs |-> IF s \in S /\ ~shut[s] THEN lag ELSE lagged[s]]
  /\ shut' = [s \in Subs |-> shut[s] \/ s \in S]

-----------------------------------------------------------------------------
(* Broadcast *)

Begin(w) ==
  /\ pc[w] = "idle" /\ sent < MaxMsgs
  /\ sent' = sent + 1
  /\ pc' = [pc EXCEPT ![w] = "send"]
  /\ msg' = [msg EXCEPT ![w] = sent]
  /\ todo' = [todo EXCEPT ![w] = subs]
  /\ UNCHANGED <<mapVars, ch, slow, got, end, missed, panicked>>

\* The map's order is any; a full channel is not waited for.
Send(w, s) ==
  /\ pc[w] = "send" /\ s \in todo[w]
  /\ IF Len(ch[s]) < Buffer
       THEN /\ ch' = [ch EXCEPT ![s] = Append(@, msg[w])]
            /\ UNCHANGED <<slow, missed>>
       ELSE /\ slow' = [slow EXCEPT ![w] = @ \cup {s}]
            /\ missed' = [missed EXCEPT ![s] = @ \cup {msg[w]}]
            /\ UNCHANGED ch
  /\ todo' = [todo EXCEPT ![w] = @ \ {s}]
  /\ panicked' = (panicked \/ shut[s])
  /\ UNCHANGED <<mapVars, sent, pc, msg, got, end>>

\* The variants named ...Unsafe, ...Forgets or ...Twice are not the code: each is a plausible
\* mistake in the definition after it, and a run shows which property it would break.
EndSendForgets(w) ==
  /\ pc[w] = "send" /\ todo[w] = {}
  /\ pc' = [pc EXCEPT ![w] = IF \E x \in Writers \ {w} : pc[x] = "send" THEN "idle"
                             ELSE IF slow[w] = {} THEN "idle" ELSE "drop"]
  /\ slow' = [slow EXCEPT ![w] = IF pc'[w] = "idle" THEN {} ELSE @]
  /\ UNCHANGED <<mapVars, ch, sent, msg, todo, got, end, missed, panicked>>

EndSend(w) ==
  /\ pc[w] = "send" /\ todo[w] = {}
  /\ pc' = [pc EXCEPT ![w] = IF slow[w] = {} THEN "idle" ELSE "drop"]
  /\ UNCHANGED <<mapVars, ch, sent, msg, todo, slow, got, end, missed, panicked>>

DropUnsafe(w) ==
  /\ pc[w] = "drop"
  /\ subs' = subs \ slow[w]
  /\ Finish(slow[w] \cap subs, TRUE)
  /\ drops' = drops + Cardinality(slow[w] \cap subs)
  /\ pc' = [pc EXCEPT ![w] = "idle"]
  /\ slow' = [slow EXCEPT ![w] = {}]
  /\ UNCHANGED <<closed, ch, sent, msg, todo, got, end, missed, panicked>>

DropTwice(w) ==
  /\ pc[w] = "drop" /\ NoReaders
  /\ subs' = subs \ slow[w]
  /\ Finish(slow[w], TRUE)
  /\ drops' = drops + Cardinality(slow[w])
  /\ pc' = [pc EXCEPT ![w] = "idle"]
  /\ slow' = [slow EXCEPT ![w] = {}]
  /\ UNCHANGED <<closed, ch, sent, msg, todo, got, end, missed, panicked>>

\* Those another dropper or a Close took out meanwhile are left alone.
Drop(w) ==
  /\ pc[w] = "drop" /\ NoReaders
  /\ subs' = subs \ slow[w]
  /\ Finish(slow[w] \cap subs, TRUE)
  /\ drops' = drops + Cardinality(slow[w] \cap subs)
  /\ pc' = [pc EXCEPT ![w] = "idle"]
  /\ slow' = [slow EXCEPT ![w] = {}]
  /\ UNCHANGED <<closed, ch, sent, msg, todo, got, end, missed, panicked>>

-----------------------------------------------------------------------------
(* Subscriptions *)

Subscribe(s) ==
  /\ end[s] = "absent" /\ NoReaders
  /\ end' = [end EXCEPT ![s] = "live"]
  /\ IF closed
       THEN Finish({s}, FALSE) /\ UNCHANGED subs
       ELSE subs' = subs \cup {s} /\ UNCHANGED <<shut, lagged>>
  /\ UNCHANGED <<closed, drops, ch, loopVars, got, missed, panicked>>

CloseSub(s) ==
  /\ s \in subs /\ NoReaders
  /\ subs' = subs \ {s}
  /\ Finish({s}, FALSE)
  /\ UNCHANGED <<closed, drops, ch, loopVars, got, end, missed, panicked>>

Close ==
  /\ ~closed /\ NoReaders
  /\ closed' = TRUE
  /\ subs' = {}
  /\ Finish(subs, FALSE)
  /\ UNCHANGED <<drops, ch, loopVars, got, end, missed, panicked>>

\* Recv waits for one message, takes what else is there and there is room for,
\* and reports the end on a call of its own: as many receives, one by one.
Receive(s) ==
  /\ end[s] = "live" /\ ch[s] # << >>
  /\ ch' = [ch EXCEPT ![s] = Tail(@)]
  /\ got' = [got EXCEPT ![s] = @ + 1]
  /\ UNCHANGED <<mapVars, loopVars, end, missed, panicked>>

ReportEnd(s) ==
  /\ end[s] = "live" /\ ch[s] = << >> /\ shut[s]
  /\ end' = [end EXCEPT ![s] = IF lagged[s] THEN "lagged" ELSE "closed"]
  /\ UNCHANGED <<mapVars, ch, loopVars, got, missed, panicked>>

-----------------------------------------------------------------------------
Broadcasting(w) == (\E s \in Subs : Send(w, s)) \/ EndSend(w) \/ Drop(w)

Next ==
  \/ \E w \in Writers : Begin(w) \/ Broadcasting(w)
  \/ \E s \in Subs : Subscribe(s) \/ CloseSub(s) \/ Receive(s) \/ ReportEnd(s)
  \/ Close

Spec == Init /\ [][Next]_vars

-----------------------------------------------------------------------------
(* Properties *)

\* Every variable has its type, and a channel its capacity.
TypeOK ==
  /\ subs \subseteq Subs /\ closed \in BOOLEAN /\ drops \in Nat
  /\ \A s \in Subs : ch[s] \in Seq(0 .. MaxMsgs) /\ Len(ch[s]) <= Buffer
  /\ shut \in [Subs -> BOOLEAN] /\ lagged \in [Subs -> BOOLEAN]
  /\ sent \in 0 .. MaxMsgs /\ msg \in [Writers -> 0 .. MaxMsgs]
  /\ pc \in [Writers -> {"idle", "send", "drop"}]
  /\ todo \in [Writers -> SUBSET Subs] /\ slow \in [Writers -> SUBSET Subs]
  /\ got \in [Subs -> Nat]
  /\ end \in [Subs -> {"absent", "live", "lagged", "closed"}]

\* No message is sent to a closed channel: whoever closes one has the write lock,
\* so no broadcast is in its loop (broadcast.go:97, 141).
NeverPanics ==
  /\ ~panicked
  /\ \A s \in Subs, w \in Writers : pc[w] = "send" /\ s \in todo[w] => ~shut[s]

\* A subscription that missed a message does not go on as if it had not: a
\* broadcast still has it on its list, or it is over (broadcast.go:1).
NoSilentGap ==
  \A s \in subs : missed[s] # {} => \E w \in Writers : s \in slow[w]

\* drops counts the subscriptions that ended for lagging, each once, and nobody is
\* told it lagged who missed nothing.
DropsCounted ==
  /\ drops = Cardinality({s \in Subs : lagged[s]})
  /\ \A s \in Subs : lagged[s] => missed[s] # {}
=============================================================================
