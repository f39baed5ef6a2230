-------------------------------- MODULE Cork --------------------------------
(***************************************************************************)
(* Several goroutines write to one socket: pumps, the read pump's replies, *)
(* a moderator.  The library flushes after every message; corkConn         *)
(* (cork.go) holds what it flushes while anybody is between cork and       *)
(* uncork, and the last one out sends it (conn.go, write and writeBatch).  *)
(* The library's own Close and CloseNow are modelled as far as they decide *)
(* who closes the socket and when (vendor/github.com/coder/websocket); its *)
(* answer to a close frame of the peer's is part of the read failing.      *)
(*                                                                         *)
(* uncork writes with the lock held that every other writer needs, so the  *)
(* write is one step, with whatever outcome it has.                        *)
(***************************************************************************)
EXTENDS Integers, Sequences, SequencesExt, FiniteSets

CONSTANTS
  Writers,      \* goroutines that write frames
  MaxFrames,    \* the most frames of one batch
  MaxBatches,   \* bound on the batches of one writer
  SocketFails   \* the peer may stop reading, or be gone

ASSUME CorkAssumption ==
  MaxFrames \in Nat \ {0} /\ MaxBatches \in Nat /\ SocketFails \in BOOLEAN

VARIABLES
  pc,         \* per writer: "idle", "corked", "failed", "closing" or "gone"
  left,       \* per writer: frames of its batch not yet written
  batches,    \* per writer: batches begun
  corked,     \* corkConn.writers, as the set it counts
  held,       \* corkConn.held
  armed,      \* a write deadline is set on the socket
  wire,       \* what reached the peer
  broken,     \* a write to the socket failed
  gone,       \* the read failed: the peer left, or was silent for too long
  closing,    \* the library: somebody is closing the connection
  closeSent,  \* the library: a close frame was written
  closed,     \* the library: the connection is closed
  farewell,   \* conn.close: "none", "begin", "frame", "wait" or "done"
  written     \* history: what the library took to write, in order

sockVars == <<corked, held, armed, wire, broken>>
libVars  == <<gone, closing, closeSent, closed, farewell>>
corkVars == <<pc, left, batches, sockVars, libVars, written>>

Goodbye == <<"goodbye">>  \* a close frame, with its status and reason

CorkInit ==
  /\ pc = [w \in Writers |-> "idle"]
  /\ left = [w \in Writers |-> 0]
  /\ batches = [w \in Writers |-> 0]
  /\ corked = {} /\ held = << >> /\ armed = FALSE
  /\ wire = << >> /\ broken = FALSE
  /\ gone = FALSE /\ closing = FALSE /\ closeSent = FALSE /\ closed = FALSE
  /\ farewell = "none"
  /\ written = << >>

\* The frames of a writer are told apart by its batch and what was left of it.
Frame(w) == <<w, batches[w], left[w]>>

\* net.Conn's Write: all of it, or an error and some of it.
SocketWrite(p) ==
  \/ /\ ~broken /\ ~closed
     /\ wire' = wire \o p
     /\ UNCHANGED broken
  \/ /\ SocketFails \/ broken \/ closed
     /\ broken' = TRUE
     /\ IF broken \/ closed THEN UNCHANGED wire
                            ELSE \E n \in 0 .. Len(p) - 1 : wire' = wire \o SubSeq(p, 1, n)

-----------------------------------------------------------------------------
(* A writer *)

CorkUp(w) ==
  /\ pc[w] = "idle" /\ batches[w] < MaxBatches
  /\ corked' = corked \cup {w}
  /\ armed' = TRUE
  /\ \E n \in 1 .. MaxFrames : left' = [left EXCEPT ![w] = n]
  /\ batches' = [batches EXCEPT ![w] = @ + 1]
  /\ pc' = [pc EXCEPT ![w] = "corked"]
  /\ UNCHANGED <<held, wire, broken, libVars, written>>

\* ws.Write refuses once a close frame is out or the connection closed;
\* otherwise corkConn.Write, which holds the frame, as this writer is corked.
WriteTo(w) ==
  /\ pc[w] = "corked" /\ left[w] > 0
  /\ IF closeSent \/ closed
       THEN /\ pc' = [pc EXCEPT ![w] = "failed"]
            /\ UNCHANGED <<left, held, written>>
       ELSE /\ held' = Append(held, Frame(w))
            /\ written' = Append(written, Frame(w))
            /\ left' = [left EXCEPT ![w] = @ - 1]
            /\ UNCHANGED pc
  /\ UNCHANGED <<batches, corked, armed, wire, broken, libVars>>

Finishing(w) == pc[w] = "failed" \/ (pc[w] = "corked" /\ left[w] = 0)

\* The variants named ...Unsafe or ...Disarms are not the code: each is a plausible
\* mistake in the definition after it, and a run shows which property it would break.
UncorkUnsafe(w) ==
  /\ Finishing(w)
  /\ pc' = [pc EXCEPT ![w] = IF @ = "failed" THEN "closing" ELSE "idle"]
  /\ corked' = IF pc[w] = "failed" THEN corked ELSE corked \ {w}
  /\ IF corked' = {} /\ held # << >> THEN SocketWrite(held) ELSE UNCHANGED <<wire, broken>>
  /\ held' = IF corked' = {} THEN << >> ELSE held
  /\ armed' = (armed /\ corked' # {})
  /\ UNCHANGED <<left, batches, libVars, written>>

UncorkDisarms(w) ==
  /\ Finishing(w)
  /\ corked' = corked \ {w}
  /\ armed' = FALSE
  /\ IF corked' = {} /\ held # << >> THEN SocketWrite(held) ELSE UNCHANGED <<wire, broken>>
  /\ held' = IF corked' = {} THEN << >> ELSE held
  /\ pc' = [pc EXCEPT ![w] = IF @ = "failed" THEN "closing" ELSE "idle"]
  /\ UNCHANGED <<left, batches, libVars, written>>

\* The last one out flushes for all and clears the deadline; its error, or the
\* library's before it, has it close the socket.
Uncork(w) ==
  /\ Finishing(w)
  /\ corked' = corked \ {w}
  /\ IF corked' = {} /\ held # << >> THEN SocketWrite(held) ELSE UNCHANGED <<wire, broken>>
  /\ held' = IF corked' = {} THEN << >> ELSE held
  /\ armed' = (armed /\ corked' # {})
  /\ pc' = [pc EXCEPT ![w] =
              IF @ = "failed" \/ (corked' = {} /\ held # << >> /\ broken') THEN "closing" ELSE "idle"]
  /\ UNCHANGED <<left, batches, libVars, written>>

CloseNowUnsafe(w) ==
  /\ pc[w] = "closing"
  /\ closed
  /\ pc' = [pc EXCEPT ![w] = "gone"]
  /\ UNCHANGED <<left, batches, sockVars, libVars, written>>

\* ws.CloseNow: whoever is first closes, the others wait for it.
CloseNow(w) ==
  /\ pc[w] = "closing"
  /\ closing => closed
  /\ closing' = TRUE /\ closed' = TRUE
  /\ pc' = [pc EXCEPT ![w] = "gone"]
  /\ UNCHANGED <<left, batches, sockVars, gone, closeSent, farewell, written>>

-----------------------------------------------------------------------------
(* conn.close, for a ban, a lag or a shutdown: ws.Close *)

BeginClose ==
  /\ farewell = "none"
  /\ farewell' = IF closing THEN "wait" ELSE "frame"
  /\ closing' = TRUE
  /\ UNCHANGED <<pc, left, batches, sockVars, gone, closeSent, closed, written>>

CloseFrameUnsafe ==
  /\ farewell = "frame"
  /\ farewell' = "wait"
  /\ IF closed
       THEN UNCHANGED <<sockVars, closeSent, written>>
       ELSE /\ SocketWrite(<<Goodbye>>)
            /\ closeSent' = ~broken'
            /\ written' = IF closeSent' THEN Append(written, Goodbye) ELSE written
            /\ UNCHANGED <<corked, held, armed>>
  /\ UNCHANGED <<pc, left, batches, gone, closing, closed>>

\* corkConn.Write again, and this writer is not corked: held if another is,
\* else written at once.  No frame is written after it.
CloseFrame ==
  /\ farewell = "frame"
  /\ farewell' = "wait"
  /\ IF closed
       THEN UNCHANGED <<sockVars, closeSent, written>>
       ELSE IF corked # {}
       THEN /\ held' = Append(held, Goodbye)
            /\ closeSent' = TRUE
            /\ written' = Append(written, Goodbye)
            /\ UNCHANGED <<corked, armed, wire, broken>>
       ELSE /\ SocketWrite(<<Goodbye>>)
            /\ closeSent' = ~broken'
            /\ written' = IF closeSent' THEN Append(written, Goodbye) ELSE written
            /\ UNCHANGED <<corked, held, armed>>
  /\ UNCHANGED <<pc, left, batches, gone, closing, closed>>

\* The peer's answer, or five seconds without one, which is longer than any
\* writer stays corked that is not itself waiting for the end.
Handshake ==
  /\ farewell = "wait"
  /\ \/ closed
     \/ closeSent /\ \E i \in DOMAIN wire : wire[i] = Goodbye
     \/ \A w \in corked : pc[w] = "closing"
  /\ closed' = TRUE
  /\ farewell' = "done"
  /\ UNCHANGED <<pc, left, batches, sockVars, gone, closing, closeSent, written>>

\* The read pump's Read fails, and the library closes the socket under it.
ReadFails ==
  /\ SocketFails /\ ~closed
  /\ gone' = TRUE /\ closed' = TRUE
  /\ UNCHANGED <<pc, left, batches, sockVars, closing, closeSent, farewell, written>>

-----------------------------------------------------------------------------
CorkNext ==
  \/ \E w \in Writers : CorkUp(w) \/ WriteTo(w) \/ Uncork(w) \/ CloseNow(w)
  \/ BeginClose
  \/ CloseFrame
  \/ Handshake
  \/ ReadFails

CorkSpec == CorkInit /\ [][CorkNext]_corkVars

\* A writer that has corked goes on to uncork, and Close and CloseNow go on to
\* their end; nobody has to begin.
CorkFairSpec ==
  /\ CorkSpec
  /\ \A w \in Writers : WF_corkVars(WriteTo(w) \/ Uncork(w) \/ CloseNow(w))
  /\ WF_corkVars(CloseFrame) /\ WF_corkVars(Handshake)

-----------------------------------------------------------------------------
(* Properties *)

Frames == (Writers \X (1 .. MaxBatches) \X (1 .. MaxFrames)) \cup {Goodbye}

\* Every variable has its type, and the count of writers is the number of
\* goroutines between their cork and their uncork.
CorkTypeOK ==
  /\ pc \in [Writers -> {"idle", "corked", "failed", "closing", "gone"}]
  /\ left \in [Writers -> 0 .. MaxFrames]
  /\ batches \in [Writers -> 0 .. MaxBatches]
  /\ corked = {w \in Writers : pc[w] \in {"corked", "failed"}}
  /\ held \in Seq(Frames) /\ wire \in Seq(Frames) /\ written \in Seq(Frames)
  /\ {armed, broken, gone, closing, closeSent, closed} \subseteq BOOLEAN
  /\ farewell \in {"none", "frame", "wait", "done"}

\* The wire carries the frames in the order the library wrote them, whoever
\* flushed them, with nothing after a close frame; and while the socket works
\* none that the library took is missing (cork.go:28, 61).
WireKeepsOrder ==
  /\ IsPrefix(wire, written)
  /\ ~broken /\ ~closed => wire \o held = written
  /\ \A i \in DOMAIN written : written[i] = Goodbye => i = Len(written)

\* A deadline is armed exactly while somebody is corked: no flush is without a
\* bound, and no frame outside a cork meets a deadline left behind
\* (state/server.md:296-303, state/loadgen.md:940-944).
DeadlineCoversCork == armed <=> corked # {}

\* A close frame, with its reason, never goes down with a socket that works:
\* uncork comes before CloseNow (conn.go:393).
FarewellNotLost ==
  closed /\ closeSent /\ ~broken /\ ~gone =>
    \E i \in DOMAIN wire : wire[i] = Goodbye

\* What is held goes out, or is given up, once the writers pause.
HeldGoesOut == held # << >> ~> held = << >>

\* Whoever closes gets out: the writers that failed, and the moderator.
ClosersReturn ==
  /\ \A w \in Writers : pc[w] = "closing" ~> pc[w] = "gone"
  /\ farewell = "frame" ~> farewell = "done"
=============================================================================
