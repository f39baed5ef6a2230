------------------------------- MODULE Fanout -------------------------------
(***************************************************************************)
(* What a Broadcaster promises its subscribers, whichever implementation   *)
(* is behind the interface (internal/broadcast/broadcast.go).  One history *)
(* of messages grows at its end.  A subscriber starts at the end, is given *)
(* contiguous runs of the history, and its subscription ends with a        *)
(* reason: it fell more than Capacity behind, or it was closed.            *)
(*                                                                         *)
(* A message is the number of messages broadcast before it.                *)
(***************************************************************************)
EXTENDS Naturals, Sequences

CONSTANTS
  Subs,      \* subscriptions
  Capacity,  \* how far behind a subscriber may be and still be owed it all
  Batch      \* len(dst): the most one Recv returns

VARIABLES
  sent,      \* messages broadcast so far
  closed,    \* the Broadcaster was closed
  cursor,    \* per subscription: the next message it is owed
  end,       \* per subscription: why it ended, or that it has not
  receiving, \* per subscription: a Recv is past the point where it saw it live
  out        \* per subscription: what its last Recv returned

vars == <<sent, closed, cursor, end, receiving, out>>

Absent == "absent"
Live   == "live"
Lagged == "lagged"
Closed == "closed"

\* The n messages from s on, in order.
RunFrom(s, n) == [i \in 1 .. n |-> s + i - 1]

Init ==
  /\ sent = 0
  /\ closed = FALSE
  /\ cursor = [s \in Subs |-> 0]
  /\ end = [s \in Subs |-> Absent]
  /\ receiving = [s \in Subs |-> FALSE]
  /\ out = [s \in Subs |-> << >>]

Publish ==
  /\ ~closed
  /\ sent' = sent + 1
  /\ UNCHANGED <<closed, cursor, end, receiving, out>>

CloseAll ==
  /\ closed' = TRUE
  /\ UNCHANGED <<sent, cursor, end, receiving, out>>

\* A new subscriber sees what happens next, not what the history still holds.
\* Subscribing to a closed Broadcaster is not an error: Recv reports the end.
Subscribe(s) ==
  /\ end[s] = Absent
  /\ \/ /\ end' = [end EXCEPT ![s] = Live]
        /\ cursor' = [cursor EXCEPT ![s] = sent]
     \/ /\ closed
        /\ end' = [end EXCEPT ![s] = Closed]
        /\ UNCHANGED cursor
  /\ UNCHANGED <<sent, closed, receiving, out>>

\* Only a live subscription is received from ...
StartReceiving(s) ==
  /\ end[s] = Live
  /\ receiving' = [receiving EXCEPT ![s] = TRUE]
  /\ UNCHANGED <<sent, closed, cursor, end, out>>

StopReceiving(s) ==
  /\ receiving' = [receiving EXCEPT ![s] = FALSE]
  /\ UNCHANGED <<sent, closed, cursor, end, out>>

\* ... and a Recv under way when it ends may still return what it was owed.
Deliver(s, n) ==
  /\ receiving[s]
  /\ cursor[s] + n <= sent
  /\ out' = [out EXCEPT ![s] = RunFrom(cursor[s], n)]
  /\ cursor' = [cursor EXCEPT ![s] = @ + n]
  /\ receiving' = [receiving EXCEPT ![s] = FALSE]
  /\ UNCHANGED <<sent, closed, end>>

DropLagged(s) ==
  /\ receiving[s]
  /\ end[s] = Live
  /\ sent - cursor[s] > Capacity
  /\ end' = [end EXCEPT ![s] = Lagged]
  /\ receiving' = [receiving EXCEPT ![s] = FALSE]
  /\ UNCHANGED <<sent, closed, cursor, out>>

NoticeClosed(s) ==
  /\ receiving[s]
  /\ end[s] = Live
  /\ closed
  /\ end' = [end EXCEPT ![s] = Closed]
  /\ receiving' = [receiving EXCEPT ![s] = FALSE]
  /\ UNCHANGED <<sent, closed, cursor, out>>

\* The owner closes its subscription, from any goroutine.
CloseSub(s) ==
  /\ end[s] = Live
  /\ end' = [end EXCEPT ![s] = Closed]
  /\ UNCHANGED <<sent, closed, cursor, receiving, out>>

Next ==
  \/ Publish
  \/ CloseAll
  \/ \E s \in Subs :
       \/ Subscribe(s)
       \/ StartReceiving(s)
       \/ StopReceiving(s)
       \/ \E n \in 1 .. Batch : Deliver(s, n)
       \/ DropLagged(s)
       \/ NoticeClosed(s)
       \/ CloseSub(s)

Spec == Init /\ [][Next]_vars
=============================================================================
