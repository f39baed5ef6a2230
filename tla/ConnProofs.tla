----------------------------- MODULE ConnProofs -----------------------------
(***************************************************************************)
(* What a connection rests on, proved for any number of them: its write    *)
(* path (Cork), its rate limits (RateLimit) and its private messages       *)
(* (Private), which have no variable in common.                            *)
(***************************************************************************)
EXTENDS Cork, RateLimit, Private, FiniteSetTheorems, TLAPS

-----------------------------------------------------------------------------
(* Cork *)

\* IsPrefix, one element at a time.
Starts(s, t) == Len(s) <= Len(t) /\ \A i \in 1 .. Len(s) : s[i] = t[i]

\* Starts is IsPrefix.
LEMMA StartsIsPrefix ==
  ASSUME NEW S, NEW s \in Seq(S), NEW t \in Seq(S), Starts(s, t)
  PROVE  IsPrefix(s, t)
BY DEF Starts, IsPrefix

\* Appending to the second of two sequences appends to both.
LEMMA AppendAfter ==
  ASSUME NEW S, NEW s \in Seq(S), NEW t \in Seq(S), NEW x \in S
  PROVE  s \o Append(t, x) = Append(s \o t, x)
OBVIOUS

\* What begins a sequence begins a longer one.
LEMMA StartsLonger ==
  ASSUME NEW S, NEW s \in Seq(S), NEW t \in Seq(S), NEW x \in S, Starts(s, t)
  PROVE  Starts(s, Append(t, x))
BY DEF Starts

\* A sequence and the first of another begin the two.
LEMMA StartsConcat ==
  ASSUME NEW S, NEW s \in Seq(S), NEW t \in Seq(S), NEW n \in 0 .. Len(t)
  PROVE  Starts(s \o SubSeq(t, 1, n), s \o t)
BY DEF Starts

\* Nothing more changes nothing.
LEMMA NothingAfter ==
  ASSUME NEW S, NEW s \in Seq(S)
  PROVE  s \o << >> = s /\ Starts(s, s) /\ SubSeq(s, 1, 0) = << >>
BY DEF Starts

\* A close frame is no frame of a message.
LEMMA FrameIsNotGoodbye == ASSUME NEW w PROVE Frame(w) # Goodbye
<1>1. Len(Frame(w)) = 3
  BY DEF Frame
<1>2. Len(Goodbye) = 1
  BY DEF Goodbye
<1> QED BY <1>1, <1>2

-----------------------------------------------------------------------------
(* Types, and that nothing is held with nobody corked *)

\* A writer in the middle of a batch has begun one.
BegunInv == \A w \in Writers : pc[w] # "idle" => batches[w] > 0

\* Writing to the socket keeps the types of what it changes.
LEMMA SocketWriteType ==
  ASSUME CorkTypeOK, NEW p \in Seq(Frames), SocketWrite(p)
  PROVE  broken' \in BOOLEAN /\ wire' \in Seq(Frames)
<1>1. CASE wire' = wire \o p /\ broken' = broken
  BY <1>1 DEF CorkTypeOK
<1>2. CASE wire' = wire /\ broken' = TRUE
  BY <1>2 DEF CorkTypeOK
<1>3. ASSUME NEW n \in 0 .. Len(p) - 1, wire' = wire \o SubSeq(p, 1, n), broken' = TRUE
      PROVE  broken' \in BOOLEAN /\ wire' \in Seq(Frames)
  <2>1. SubSeq(p, 1, n) \in Seq(Frames)
    OBVIOUS
  <2> QED BY <1>3, <2>1 DEF CorkTypeOK
<1> QED BY <1>1, <1>2, <1>3 DEF SocketWrite

\* What a writer writes next is a frame.
LEMMA FrameType ==
  ASSUME CorkTypeOK, BegunInv, NEW w \in Writers, pc[w] = "corked", left[w] > 0
  PROVE  Frame(w) \in Frames
<1>1. batches[w] \in 0 .. MaxBatches /\ left[w] \in 0 .. MaxFrames
  BY DEF CorkTypeOK
<1>2. batches[w] \in 1 .. MaxBatches /\ left[w] \in 1 .. MaxFrames
  BY <1>1, CorkAssumption DEF BegunInv
<1> QED BY <1>2 DEF Frame, Frames

\* Init has the types.
LEMMA CorkTypeInit == CorkInit => CorkTypeOK /\ BegunInv
<1> SUFFICES ASSUME CorkInit PROVE CorkTypeOK /\ BegunInv
  OBVIOUS
<1>1. held \in Seq(Frames) /\ wire \in Seq(Frames) /\ written \in Seq(Frames)
  BY DEF CorkInit
<1>2. /\ pc \in [Writers -> {"idle", "corked", "failed", "closing", "gone"}]
      /\ left \in [Writers -> 0 .. MaxFrames] /\ batches \in [Writers -> 0 .. MaxBatches]
      /\ corked = {w \in Writers : pc[w] \in {"corked", "failed"}}
  BY CorkAssumption DEF CorkInit
<1> QED BY <1>1, <1>2 DEF CorkInit, CorkTypeOK, BegunInv

\* Every step keeps the types.
LEMMA CorkTypeNext == CorkTypeOK /\ BegunInv /\ [CorkNext]_corkVars => (CorkTypeOK /\ BegunInv)'
<1> SUFFICES ASSUME CorkTypeOK, BegunInv, [CorkNext]_corkVars PROVE (CorkTypeOK /\ BegunInv)'
  OBVIOUS
<1> USE CorkAssumption
<1>1. ASSUME NEW w \in Writers, CorkUp(w) PROVE (CorkTypeOK /\ BegunInv)'
  <2>1. left' \in [Writers -> 0 .. MaxFrames] /\ batches' \in [Writers -> 0 .. MaxBatches]
    BY <1>1 DEF CorkUp, CorkTypeOK
  <2>2. /\ pc' \in [Writers -> {"idle", "corked", "failed", "closing", "gone"}]
        /\ corked' = {v \in Writers : pc'[v] \in {"corked", "failed"}}
    BY <1>1 DEF CorkUp, CorkTypeOK
  <2>3. BegunInv'
    BY <1>1 DEF CorkUp, CorkTypeOK, BegunInv
  <2> QED BY <1>1, <2>1, <2>2, <2>3 DEF CorkUp, CorkTypeOK, libVars
<1>2. ASSUME NEW w \in Writers, WriteTo(w) PROVE (CorkTypeOK /\ BegunInv)'
  <2>1. Frame(w) \in Frames
    BY <1>2, FrameType DEF WriteTo, CorkTypeOK, BegunInv
  <2>2. held' \in Seq(Frames) /\ written' \in Seq(Frames)
    <3>1. \A s \in Seq(Frames) : Append(s, Frame(w)) \in Seq(Frames)
      BY <2>1
    <3> QED BY <1>2, <3>1 DEF WriteTo, CorkTypeOK
  <2>3. /\ pc' \in [Writers -> {"idle", "corked", "failed", "closing", "gone"}]
        /\ corked' = {v \in Writers : pc'[v] \in {"corked", "failed"}}
    BY <1>2 DEF WriteTo, CorkTypeOK
  <2>4. left' \in [Writers -> 0 .. MaxFrames]
    <3>1. left' = left \/ (left' = [left EXCEPT ![w] = @ - 1] /\ left[w] > 0)
      BY <1>2 DEF WriteTo
    <3>2. left[w] > 0 => left[w] - 1 \in 0 .. MaxFrames
      BY DEF CorkTypeOK
    <3> QED BY <3>1, <3>2 DEF CorkTypeOK
  <2>5. BegunInv'
    BY <1>2 DEF WriteTo, CorkTypeOK, BegunInv
  <2> QED BY <1>2, <2>2, <2>3, <2>4, <2>5 DEF WriteTo, CorkTypeOK, libVars
<1>3. ASSUME NEW w \in Writers, Uncork(w) PROVE (CorkTypeOK /\ BegunInv)'
  <2>1. broken' \in BOOLEAN /\ wire' \in Seq(Frames)
    BY <1>3, SocketWriteType DEF Uncork, CorkTypeOK
  <2>2. held' \in Seq(Frames)
    BY <1>3 DEF Uncork, CorkTypeOK
  <2>3. pc' \in [Writers -> {"idle", "corked", "failed", "closing", "gone"}]
    BY <1>3 DEF Uncork, CorkTypeOK
  <2>4. corked' = {v \in Writers : pc'[v] \in {"corked", "failed"}}
    BY <1>3 DEF Uncork, CorkTypeOK
  <2>5. BegunInv'
    BY <1>3 DEF Uncork, Finishing, CorkTypeOK, BegunInv
  <2> QED BY <1>3, <2>1, <2>2, <2>3, <2>4, <2>5 DEF Uncork, CorkTypeOK, libVars
<1>4. ASSUME NEW w \in Writers, CloseNow(w) PROVE (CorkTypeOK /\ BegunInv)'
  BY <1>4 DEF CloseNow, CorkTypeOK, BegunInv, sockVars
<1>5. CASE BeginClose
  BY <1>5 DEF BeginClose, CorkTypeOK, BegunInv, sockVars
<1>6. CASE CloseFrame
  <2>1. Goodbye \in Frames /\ <<Goodbye>> \in Seq(Frames)
    BY DEF Frames
  <2>2. broken' \in BOOLEAN /\ wire' \in Seq(Frames)
    BY <1>6, <2>1, SocketWriteType DEF CloseFrame, CorkTypeOK, sockVars
  <2>3. held' \in Seq(Frames) /\ written' \in Seq(Frames)
    <3>1. \A s \in Seq(Frames) : Append(s, Goodbye) \in Seq(Frames)
      BY <2>1
    <3> QED BY <1>6, <3>1 DEF CloseFrame, CorkTypeOK, sockVars
  <2>4. closeSent' \in BOOLEAN
    BY <1>6, <2>2 DEF CloseFrame, CorkTypeOK
  <2> QED BY <1>6, <2>2, <2>3, <2>4 DEF CloseFrame, CorkTypeOK, BegunInv, sockVars
<1>7. CASE Handshake
  BY <1>7 DEF Handshake, CorkTypeOK, BegunInv, sockVars
<1>8. CASE ReadFails
  BY <1>8 DEF ReadFails, CorkTypeOK, BegunInv, sockVars
<1>9. CASE UNCHANGED corkVars
  BY <1>9 DEF corkVars, sockVars, libVars, CorkTypeOK, BegunInv
<1> QED BY <1>1, <1>2, <1>3, <1>4, <1>5, <1>6, <1>7, <1>8, <1>9 DEF CorkNext

\* Every variable keeps its type, and corkConn.writers counts who is between cork
\* and uncork (cork.go:20).
THEOREM CorkTypeCorrect == CorkSpec => []CorkTypeOK
<1>1. CorkSpec => [](CorkTypeOK /\ BegunInv)
  BY CorkTypeInit, CorkTypeNext, PTL DEF CorkSpec
<1> QED BY <1>1, PTL

-----------------------------------------------------------------------------
(* The deadline *)

\* Somebody is corked exactly while a write deadline is armed (cork.go:38, 65-70,
\* state/server.md:296-303).
THEOREM DeadlineCovers == CorkSpec => []DeadlineCoversCork
<1>1. CorkInit => DeadlineCoversCork
  BY DEF CorkInit, DeadlineCoversCork
<1>2. DeadlineCoversCork /\ [CorkNext]_corkVars => DeadlineCoversCork'
  <2> SUFFICES ASSUME DeadlineCoversCork, [CorkNext]_corkVars PROVE DeadlineCoversCork'
    OBVIOUS
  <2>1. ASSUME NEW w \in Writers, CorkUp(w) PROVE DeadlineCoversCork'
    BY <2>1 DEF CorkUp, DeadlineCoversCork
  <2>2. ASSUME NEW w \in Writers, Uncork(w) PROVE DeadlineCoversCork'
    BY <2>2 DEF Uncork, DeadlineCoversCork
  <2>3. ASSUME NEW w \in Writers, WriteTo(w) \/ CloseNow(w) PROVE DeadlineCoversCork'
    BY <2>3 DEF WriteTo, CloseNow, DeadlineCoversCork, sockVars
  <2>4. CASE BeginClose \/ CloseFrame \/ Handshake \/ ReadFails \/ UNCHANGED corkVars
    BY <2>4 DEF BeginClose, CloseFrame, Handshake, ReadFails, DeadlineCoversCork, corkVars, sockVars
  <2> QED BY <2>1, <2>2, <2>3, <2>4 DEF CorkNext
<1> QED BY <1>1, <1>2, PTL DEF CorkSpec

-----------------------------------------------------------------------------
(* The wire *)

\* What is on the wire begins what was written; while no write has failed, what is held is
\* the rest.  Nothing is held with nobody corked to send it; and the close frame, if
\* there was one, is the last.
WireInv ==
  /\ Starts(wire, written)
  /\ ~broken => wire \o held = written
  /\ corked = {} => held = << >>
  /\ farewell \in {"none", "frame"} => ~closeSent
  /\ \A i \in 1 .. Len(written) : written[i] = Goodbye => i = Len(written) /\ closeSent

\* What goes out continues the wire.
LEMMA SocketWriteKeeps ==
  ASSUME CorkTypeOK, WireInv, NEW p \in Seq(Frames), SocketWrite(p),
         ~broken => wire \o p = written
  PROVE  Starts(wire', written) /\ (~broken' => wire' = written)
<1>1. CASE wire' = wire \o p /\ broken' = broken
  <2>1. CASE broken
    BY <1>1, <2>1 DEF SocketWrite, WireInv
  <2>2. CASE ~broken
    BY <1>1, <2>2, NothingAfter DEF CorkTypeOK
  <2> QED BY <2>1, <2>2
<1>2. CASE wire' = wire /\ broken' = TRUE
  BY <1>2 DEF WireInv
<1>3. ASSUME NEW n \in 0 .. Len(p) - 1, wire' = wire \o SubSeq(p, 1, n), broken' = TRUE, ~broken
      PROVE  Starts(wire', written) /\ (~broken' => wire' = written)
  <2>1. Starts(wire \o SubSeq(p, 1, n), wire \o p)
    BY StartsConcat DEF CorkTypeOK
  <2> QED BY <1>3, <2>1
<1>4. CASE broken \/ closed
  BY <1>2, <1>4 DEF SocketWrite
<1>5. CASE ~broken /\ ~closed
  BY <1>1, <1>3, <1>5 DEF SocketWrite
<1> QED BY <1>4, <1>5

\* The wire is in order at first ...
LEMMA WireInit == CorkInit => WireInv
BY DEF CorkInit, WireInv, Starts

\* ... and every step keeps it so.
LEMMA WireNext == CorkTypeOK /\ BegunInv /\ WireInv /\ [CorkNext]_corkVars => WireInv'
<1> SUFFICES ASSUME CorkTypeOK, BegunInv, WireInv, [CorkNext]_corkVars PROVE WireInv'
  OBVIOUS
<1>1. ASSUME NEW w \in Writers, CorkUp(w) PROVE WireInv'
  BY <1>1 DEF CorkUp, WireInv, libVars
<1>2. ASSUME NEW w \in Writers, WriteTo(w) PROVE WireInv'
  <2>1. CASE closeSent \/ closed
    BY <1>2, <2>1 DEF WriteTo, WireInv, libVars
  <2>2. CASE ~closeSent /\ ~closed
    <3>1. Frame(w) \in Frames /\ Frame(w) # Goodbye
      BY <1>2, FrameType, FrameIsNotGoodbye DEF WriteTo
    <3>2. held' = Append(held, Frame(w)) /\ written' = Append(written, Frame(w))
      BY <1>2, <2>2 DEF WriteTo
    <3>3. Starts(wire', written')
      BY <1>2, <3>1, <3>2, StartsLonger DEF WriteTo, CorkTypeOK, WireInv
    <3>4. ~broken' => wire' \o held' = written'
      <4>1. wire \o Append(held, Frame(w)) = Append(wire \o held, Frame(w))
        BY <3>1, AppendAfter DEF CorkTypeOK
      <4> QED BY <1>2, <3>2, <4>1 DEF WriteTo, WireInv
    <3>5. corked' # {}
      BY <1>2 DEF WriteTo, CorkTypeOK
    <3>6. \A i \in 1 .. Len(written') : written'[i] # Goodbye
      BY <2>2, <3>1, <3>2 DEF CorkTypeOK, WireInv
    <3> QED BY <1>2, <3>3, <3>4, <3>5, <3>6 DEF WriteTo, WireInv, libVars
  <2> QED BY <2>1, <2>2
<1>3. ASSUME NEW w \in Writers, Uncork(w) PROVE WireInv'
  <2>1. CASE corked' = {} /\ held # << >>
    <3>1. SocketWrite(held) /\ held' = << >> /\ written' = written
      BY <1>3, <2>1 DEF Uncork
    <3>2. Starts(wire', written) /\ (~broken' => wire' = written)
      BY <3>1, SocketWriteKeeps DEF CorkTypeOK, WireInv
    <3>3. written \o << >> = written
      BY NothingAfter DEF CorkTypeOK
    <3> QED BY <1>3, <3>1, <3>2, <3>3 DEF Uncork, WireInv, libVars
  <2>2. CASE ~(corked' = {} /\ held # << >>)
    BY <1>3, <2>2 DEF Uncork, WireInv, libVars
  <2> QED BY <2>1, <2>2
<1>4. ASSUME NEW w \in Writers, CloseNow(w) PROVE WireInv'
  BY <1>4 DEF CloseNow, WireInv, sockVars
<1>5. CASE BeginClose
  BY <1>5 DEF BeginClose, WireInv, sockVars
<1>6. CASE CloseFrame
  <2>0. Goodbye \in Frames /\ ~closeSent
    BY <1>6 DEF CloseFrame, WireInv, Frames
  <2>1. CASE closed
    BY <1>6, <2>1 DEF CloseFrame, WireInv, sockVars
  <2>2. CASE written' = Append(written, Goodbye) /\ closeSent'
    <3>1. \A i \in 1 .. Len(written') : written'[i] = Goodbye => i = Len(written')
      <4>1. \A i \in 1 .. Len(written) : written[i] # Goodbye
        BY <2>0 DEF WireInv
      <4>2. written \in Seq(Frames) /\ written' = Append(written, Goodbye)
        BY <2>2 DEF CorkTypeOK
      <4>3. /\ Len(written) \in Nat /\ Len(written') = Len(written) + 1
            /\ \A i \in 1 .. Len(written) : written'[i] = written[i]
        BY <4>2
      <4>4. QED
        BY <4>1, <4>3
    <3>2. CASE ~closed /\ corked # {}
      <4>1. held' = Append(held, Goodbye) /\ wire' = wire /\ broken' = broken /\ corked' = corked
        BY <1>6, <3>2 DEF CloseFrame
      <4>2. Starts(wire', written')
        BY <2>0, <2>2, <4>1, StartsLonger DEF CorkTypeOK, WireInv
      <4>3. ~broken' => wire' \o held' = written'
        <5>1. wire \o Append(held, Goodbye) = Append(wire \o held, Goodbye)
          BY <2>0, AppendAfter DEF CorkTypeOK
        <5> QED BY <2>2, <4>1, <5>1 DEF WireInv
      <4> QED BY <1>6, <2>2, <3>1, <3>2, <4>1, <4>2, <4>3 DEF CloseFrame, WireInv
    <3>3. CASE ~closed /\ corked = {}
      <4>1. SocketWrite(<<Goodbye>>) /\ ~broken' /\ held = << >> /\ held' = << >> /\ corked' = corked
        BY <1>6, <2>0, <2>2, <3>3 DEF CloseFrame, WireInv
      <4>2. wire' = wire \o <<Goodbye>> /\ ~broken
        BY <4>1 DEF SocketWrite
      <4>3. wire = written
        BY <4>1, <4>2, NothingAfter DEF CorkTypeOK, WireInv
      <4>4. wire' = written' /\ written' \in Seq(Frames)
        BY <2>0, <2>2, <4>2, <4>3 DEF CorkTypeOK
      <4>5. Starts(wire', written') /\ wire' \o held' = written'
        BY <4>1, <4>4, NothingAfter
      <4> QED BY <1>6, <2>2, <3>1, <4>1, <4>5 DEF CloseFrame, WireInv
    <3> QED BY <2>1, <3>2, <3>3
  <2>3. CASE ~closed /\ corked = {} /\ ~closeSent'
    <3>1. SocketWrite(<<Goodbye>>) /\ broken' /\ held' = held /\ corked' = corked /\ written' = written
      BY <1>6, <2>3 DEF CloseFrame, CorkTypeOK, SocketWrite
    <3>2. \A n \in 0 .. Len(<<Goodbye>>) - 1 : n = 0
      OBVIOUS
    <3>3. wire \o SubSeq(<<Goodbye>>, 1, 0) = wire
      <4>1. <<Goodbye>> \in Seq(Frames)
        BY <2>0
      <4>2. SubSeq(<<Goodbye>>, 1, 0) = << >> /\ wire \o << >> = wire
        BY <4>1, NothingAfter DEF CorkTypeOK
      <4> QED BY <4>2
    <3>4. wire' = wire
      <4>1. CASE broken \/ closed
        BY <3>1, <4>1 DEF SocketWrite
      <4>2. CASE ~broken /\ ~closed
        <5>1. PICK n \in 0 .. Len(<<Goodbye>>) - 1 : wire' = wire \o SubSeq(<<Goodbye>>, 1, n)
          BY <3>1, <4>2 DEF SocketWrite
        <5> QED BY <3>2, <3>3, <5>1
      <4> QED BY <4>1, <4>2
    <3> QED BY <1>6, <2>3, <3>1, <3>4 DEF CloseFrame, WireInv
  <2> QED BY <1>6, <2>1, <2>2, <2>3 DEF CloseFrame
<1>7. CASE Handshake
  BY <1>7 DEF Handshake, WireInv, sockVars
<1>8. CASE ReadFails
  BY <1>8 DEF ReadFails, WireInv, sockVars
<1>9. CASE UNCHANGED corkVars
  BY <1>9 DEF corkVars, sockVars, libVars, WireInv
<1> QED BY <1>1, <1>2, <1>3, <1>4, <1>5, <1>6, <1>7, <1>8, <1>9 DEF CorkNext

\* The wire carries the frames in the order the library wrote them, nothing after a close
\* frame, and none is missing while the socket works: cork.go:28, 61.
THEOREM WireInOrder == CorkSpec => []WireKeepsOrder
<1>1. CorkSpec => [](CorkTypeOK /\ BegunInv /\ WireInv)
  BY CorkTypeInit, CorkTypeNext, WireInit, WireNext, PTL DEF CorkSpec
<1>2. CorkTypeOK /\ WireInv => WireKeepsOrder
  <2> SUFFICES ASSUME CorkTypeOK, WireInv PROVE WireKeepsOrder
    OBVIOUS
  <2>1. IsPrefix(wire, written)
    BY StartsIsPrefix DEF CorkTypeOK, WireInv
  <2> QED BY <2>1 DEF CorkTypeOK, WireInv, WireKeepsOrder
<1> QED BY <1>1, <1>2, PTL

-----------------------------------------------------------------------------
(* The close frame *)

\* A close frame was written, and whoever wrote it was the one to close.
SentInv ==
  /\ farewell = "frame" => closing
  /\ closeSent => closing /\ \E i \in 1 .. Len(written) : written[i] = Goodbye

\* Every step keeps who has sent the close frame.
LEMMA SentNext == CorkTypeOK /\ BegunInv /\ SentInv /\ [CorkNext]_corkVars => SentInv'
<1> SUFFICES ASSUME CorkTypeOK, BegunInv, SentInv, [CorkNext]_corkVars PROVE SentInv'
  OBVIOUS
<1>1. ASSUME NEW w \in Writers, WriteTo(w) PROVE SentInv'
  BY <1>1 DEF WriteTo, SentInv, libVars
<1>2. ASSUME NEW w \in Writers, CorkUp(w) \/ Uncork(w) \/ CloseNow(w) PROVE SentInv'
  BY <1>2 DEF CorkUp, Uncork, CloseNow, SentInv, libVars
<1>3. CASE CloseFrame
  <2>1. CASE written' = Append(written, Goodbye) /\ closing' = closing /\ closing
    <3>1. Goodbye \in Frames
      BY DEF Frames
    <3>2. Len(written) + 1 \in 1 .. Len(written') /\ written'[Len(written) + 1] = Goodbye
      BY <2>1, <3>1 DEF CorkTypeOK
    <3> QED BY <1>3, <2>1, <3>2 DEF CloseFrame, SentInv
  <2>2. CASE written' = written /\ (closeSent' => closeSent)
    BY <1>3, <2>2 DEF CloseFrame, SentInv
  <2> QED BY <1>3, <2>1, <2>2 DEF CloseFrame, SentInv
<1>4. CASE BeginClose \/ Handshake \/ ReadFails
  BY <1>4 DEF BeginClose, Handshake, ReadFails, SentInv
<1>5. CASE UNCHANGED corkVars
  BY <1>5 DEF corkVars, libVars, SentInv
<1> QED BY <1>1, <1>2, <1>3, <1>4, <1>5 DEF CorkNext

\* Every step keeps the close frame from going down.
LEMMA FarewellNext == CorkTypeOK /\ WireInv /\ SentInv /\ FarewellNotLost /\ [CorkNext]_corkVars => FarewellNotLost'
<1> SUFFICES ASSUME CorkTypeOK, WireInv, SentInv, FarewellNotLost, [CorkNext]_corkVars PROVE FarewellNotLost'
  OBVIOUS
<1>1. CASE /\ closed' = closed /\ closeSent' = closeSent /\ gone' = gone /\ wire' = wire /\ broken' = broken
  BY <1>1 DEF FarewellNotLost
<1>2. ASSUME NEW w \in Writers, CorkUp(w) \/ WriteTo(w) PROVE FarewellNotLost'
  BY <1>1, <1>2 DEF CorkUp, WriteTo, libVars
<1>3. ASSUME NEW w \in Writers, Uncork(w) PROVE FarewellNotLost'
  \* A flush into a closed socket fails.
  <2>1. CASE closed /\ SocketWrite(held)
    BY <2>1 DEF SocketWrite, FarewellNotLost
  <2>2. CASE ~closed
    BY <1>3, <2>2 DEF Uncork, libVars, FarewellNotLost
  <2> QED BY <1>1, <1>3, <2>1, <2>2 DEF Uncork, libVars
<1>4. ASSUME NEW w \in Writers, CloseNow(w) PROVE FarewellNotLost'
  \* Whoever closes first has sent no close frame.
  <2>1. CASE closed
    BY <1>1, <1>4, <2>1 DEF CloseNow, sockVars
  <2>2. CASE ~closed
    BY <1>4, <2>2 DEF CloseNow, SentInv, FarewellNotLost
  <2> QED BY <2>1, <2>2
<1>5. CASE CloseFrame
  BY <1>1, <1>5 DEF CloseFrame, FarewellNotLost, sockVars
<1>6. CASE Handshake
  <2>1. UNCHANGED <<gone, closeSent, sockVars>>
    BY <1>6 DEF Handshake
  <2>2. CASE closed \/ \E i \in DOMAIN wire : wire[i] = Goodbye
    BY <1>6, <2>1, <2>2 DEF FarewellNotLost, sockVars
  <2>3. CASE \A w \in corked : pc[w] = "closing"
    <3>1. corked = {} /\ held = << >>
      BY <2>3 DEF CorkTypeOK, WireInv
    <3>2. ~broken => wire = written
      BY <3>1, NothingAfter DEF CorkTypeOK, WireInv
    <3>3. closeSent => \E i \in DOMAIN written : written[i] = Goodbye
      BY DEF SentInv, CorkTypeOK
    <3> QED BY <2>1, <3>2, <3>3 DEF FarewellNotLost, sockVars
  <2> QED BY <1>6, <2>2, <2>3 DEF Handshake
<1>7. CASE ReadFails
  BY <1>7 DEF ReadFails, FarewellNotLost
<1>8. CASE BeginClose \/ UNCHANGED corkVars
  BY <1>1, <1>8 DEF BeginClose, corkVars, sockVars, libVars
<1> QED BY <1>2, <1>3, <1>4, <1>5, <1>6, <1>7, <1>8 DEF CorkNext

\* The close frame, with the reason for it, does not go down with a socket that works
\* (conn.go:393).
THEOREM FarewellArrives == CorkSpec => []FarewellNotLost
<1>1. CorkInit => SentInv /\ FarewellNotLost
  BY DEF CorkInit, SentInv, FarewellNotLost
<1> QED BY <1>1, CorkTypeInit, CorkTypeNext, WireInit, WireNext, SentNext, FarewellNext, PTL DEF CorkSpec

-----------------------------------------------------------------------------
(* RateLimit *)

-----------------------------------------------------------------------------
(* A bucket *)

BucketOK(b, t) ==
  /\ b.burst \in Bursts \cup {0}
  /\ b.tokens \in 0 .. b.burst * Interval
  /\ b.last \in Never .. t

Record == [burst : Nat, tokens : Int, last : Int]

\* Bursts, and the units of a burst, are numbers.
LEMMA BurstUnits == \A n \in Bursts \cup {0} : n \in Nat /\ n * Interval \in Nat
<1>1. Interval \in Nat /\ Bursts \subseteq Nat
  BY RateLimitAssumption
<1>2. \A n \in Nat, m \in Nat : n * m \in Nat
  OBVIOUS
<1> QED BY <1>1, <1>2

\* A new bucket is within its bounds.
LEMMA FullOK ==
  ASSUME NEW n \in Bursts, NEW t \in Nat
  PROVE  Full(n) \in Record /\ BucketOK(Full(n), t)
<1>1. n \in Nat /\ n * Interval \in Nat
  BY BurstUnits
<1> QED BY <1>1 DEF Full, BucketOK, Record, Never

\* So is what is left of one.
LEMMA CollectedOK == ASSUME NEW t \in Nat PROVE Collected \in Record /\ BucketOK(Collected, t)
<1>1. 0 * Interval \in Nat
  BY BurstUnits
<1> QED BY <1>1 DEF Collected, BucketOK, Record, Never

\* A refill keeps a bucket within its bounds, whatever time it is for.
LEMMA RefillOK ==
  ASSUME NEW b \in Record, NEW t \in Nat, BucketOK(b, t), NEW s \in 0 .. t
  PROVE  Refill(b, s) \in Record /\ BucketOK(Refill(b, s), t) /\ Refill(b, s).burst = b.burst
<1> DEFINE units == b.burst * Interval
<1>1. units \in Nat /\ b.tokens \in 0 .. units
  BY BurstUnits DEF BucketOK
<1>2. b.last \in Never .. t /\ b.burst \in Bursts \cup {0} /\ b.burst \in Nat /\ b.tokens \in Int
  BY DEF BucketOK, Record
<1> HIDE DEF units
<1> DEFINE last == IF b.last = Never THEN s ELSE b.last
           more == b.tokens + (s - last)
           r    == Refill(b, s)
<1>3. last \in 0 .. t
  BY <1>2 DEF Never
<1>4. CASE s > last
  <2> DEFINE kept == IF more > units THEN units ELSE more
  <2>1. r = [b EXCEPT !.tokens = kept, !.last = s]
    BY <1>4 DEF Refill, units
  <2>2. kept \in 0 .. units
    BY <1>1, <1>3, <1>4
  <2> HIDE DEF kept, r
  <2>3. r.burst = b.burst /\ r.last = s /\ r.tokens = kept
    BY <2>1 DEF Record
  <2>4. r \in Record
    <3>1. kept \in Int /\ s \in Int
      BY <1>1, <2>2
    <3> QED BY <2>1, <3>1 DEF Record
  <2>5. BucketOK(r, t)
    BY <1>2, <2>2, <2>3 DEF BucketOK, Never, units
  <2> QED BY <2>3, <2>4, <2>5 DEF r
<1>5. CASE ~(s > last)
  <2>1. r = [b EXCEPT !.last = last]
    BY <1>5 DEF Refill
  <2>2. r.burst = b.burst /\ r.last = last /\ r.tokens = b.tokens
    BY <2>1 DEF Record
  <2>3. r \in [burst : Nat, tokens : Int, last : Int]
    BY <1>2, <1>3, <2>1 DEF Record
  <2> QED BY <1>1, <1>2, <1>3, <2>2, <2>3 DEF BucketOK, Record, Never, units
<1> QED BY <1>4, <1>5

-----------------------------------------------------------------------------
(* Types *)

LimitTypeInv ==
  /\ clock \in Times
  /\ bucket \in [Buckets -> Record]
  /\ \A b \in Buckets : BucketOK(bucket[b], clock)
  /\ limiters \in [Keys -> Buckets \cup {NoBucket}]
  /\ refs \in [Keys -> Nat]
  /\ key \in [Clients -> Keys \cup {NoKey}]
  /\ limit \in [Clients -> Buckets \cup {NoBucket}]
  /\ now \in [Clients -> Idling .. clock] /\ tick \in Idling .. clock
  /\ opens \in 0 .. MaxOpens
  /\ spent \in [Keys -> [Times \X Times -> Nat]]
  /\ \A c \in Clients : now[c] # Idling => limit[c] # NoBucket

\* A step that changes one bucket, and keeps that one right, keeps all.
LEMMA BucketStep ==
  ASSUME LimitTypeInv, clock' = clock, NEW b \in Buckets, NEW x \in Record, BucketOK(x, clock),
         bucket' = [bucket EXCEPT ![b] = x]
  PROVE  bucket' \in [Buckets -> Record] /\ \A d \in Buckets : BucketOK(bucket'[d], clock')
BY DEF LimitTypeInv

\* Init has the types.
LEMMA LimitTypeInit == LimitInit => LimitTypeInv
<1> SUFFICES ASSUME LimitInit PROVE LimitTypeInv
  OBVIOUS
<1>1. Collected \in Record /\ BucketOK(Collected, 0)
  BY CollectedOK
<1>2. bucket \in [Buckets -> Record] /\ \A b \in Buckets : BucketOK(bucket[b], clock)
  BY <1>1 DEF LimitInit
<1>3. spent \in [Keys -> [Times \X Times -> Nat]]
  BY DEF LimitInit
<1>4. /\ limiters \in [Keys -> Buckets \cup {NoBucket}] /\ refs \in [Keys -> Nat]
      /\ key \in [Clients -> Keys \cup {NoKey}] /\ limit \in [Clients -> Buckets \cup {NoBucket}]
  BY DEF LimitInit
<1>5. /\ clock \in Times /\ opens \in 0 .. MaxOpens
      /\ now \in [Clients -> Idling .. clock] /\ tick \in Idling .. clock
  BY RateLimitAssumption DEF LimitInit, Times, Idling
<1>6. \A c \in Clients : now[c] = Idling
  BY DEF LimitInit
<1> QED BY <1>2, <1>3, <1>4, <1>5, <1>6 DEF LimitTypeInv

\* Every step keeps the types.
LEMMA LimitTypeNext == LimitTypeInv /\ [LimitNext]_limitVars => LimitTypeInv'
<1> SUFFICES ASSUME LimitTypeInv, [LimitNext]_limitVars PROVE LimitTypeInv'
  OBVIOUS
<1>0. clock \in Nat /\ MaxTime \in Nat
  BY RateLimitAssumption DEF LimitTypeInv, Times
<1>1. ASSUME NEW c \in Clients, NEW k \in Keys \cup {NoKey}, Acquire(c, k) PROVE LimitTypeInv'
  <2>1. key' \in [Clients -> Keys \cup {NoKey}] /\ opens' \in 0 .. MaxOpens /\ now[c] = Idling
    BY <1>1, RateLimitAssumption DEF Acquire, LimitTypeInv
  <2>2. CASE Known(k)
    <3>1. k \in Keys /\ limiters[k] \in Buckets
      BY <2>2 DEF Known, LimitTypeInv
    <3>2. CASE limit' = [limit EXCEPT ![c] = limiters[k]] /\ refs' = [refs EXCEPT ![k] = @ + 1]
               /\ UNCHANGED <<bucket, limiters>>
      <4>1. refs' \in [Keys -> Nat] /\ limit' \in [Clients -> Buckets \cup {NoBucket}]
        BY <3>1, <3>2 DEF LimitTypeInv
      <4>2. \A d \in Clients : now[d] # Idling => limit'[d] # NoBucket
        BY <2>1, <3>1, <3>2, RateLimitAssumption DEF LimitTypeInv
      <4> QED BY <1>1, <2>1, <3>2, <4>1, <4>2 DEF Acquire, LimitTypeInv
    <3> QED BY <1>1, <2>2, <3>2 DEF Acquire
  <2>3. CASE ~Known(k)
    <3>1. PICK n \in Bursts, b \in Unused :
             /\ bucket' = [bucket EXCEPT ![b] = Full(n)]
             /\ limit' = [limit EXCEPT ![c] = b]
             /\ IF k = NoKey
                  THEN UNCHANGED <<limiters, refs>>
                  ELSE /\ limiters' = [limiters EXCEPT ![k] = b]
                       /\ refs' = [refs EXCEPT ![k] = @ + 1]
      BY <1>1, <2>3 DEF Acquire
    <3>2. b \in Buckets /\ b # NoBucket
      BY RateLimitAssumption DEF Unused
    <3>3. Full(n) \in Record /\ BucketOK(Full(n), clock) /\ clock' = clock
      BY <1>0, <1>1, FullOK DEF Acquire
    <3>4. bucket' \in [Buckets -> Record] /\ \A d \in Buckets : BucketOK(bucket'[d], clock')
      BY <3>1, <3>2, <3>3, BucketStep
    <3>5. /\ limit' \in [Clients -> Buckets \cup {NoBucket}]
          /\ \A d \in Clients : now[d] # Idling => limit'[d] # NoBucket
      BY <2>1, <3>1, <3>2 DEF LimitTypeInv
    <3>6. limiters' \in [Keys -> Buckets \cup {NoBucket}] /\ refs' \in [Keys -> Nat]
      <4>1. CASE k = NoKey
        BY <3>1, <4>1 DEF LimitTypeInv
      <4>2. CASE k # NoKey
        <5>1. k \in Keys /\ limiters' = [limiters EXCEPT ![k] = b] /\ refs' = [refs EXCEPT ![k] = @ + 1]
          BY <3>1, <4>2
        <5> QED BY <3>2, <5>1 DEF LimitTypeInv
      <4> QED BY <4>1, <4>2
    <3> QED BY <1>1, <2>1, <3>4, <3>5, <3>6 DEF Acquire, LimitTypeInv
  <2> QED BY <2>2, <2>3
<1>2. ASSUME NEW c \in Clients, ReadClock(c) PROVE LimitTypeInv'
  <2>1. now' \in [Clients -> Idling .. clock]
    BY <1>0, <1>2 DEF ReadClock, LimitTypeInv, Idling
  <2> QED BY <1>2, <2>1 DEF ReadClock, LimitTypeInv
<1>3. ASSUME NEW c \in Clients, AllowAt(c) PROVE LimitTypeInv'
  <2> DEFINE b  == Refill(bucket[limit[c]], now[c])
             ok == b.tokens >= Interval
             x  == IF ok THEN [b EXCEPT !.tokens = @ - Interval] ELSE b
  <2>1. limit[c] \in Buckets /\ now[c] \in 0 .. clock
    BY <1>0, <1>3 DEF AllowAt, LimitTypeInv, Idling
  <2>2. b \in Record /\ BucketOK(b, clock)
    BY <1>0, <2>1, RefillOK DEF LimitTypeInv
  <2>3. /\ bucket' = [bucket EXCEPT ![limit[c]] = x] /\ now' = [now EXCEPT ![c] = Idling]
        /\ (spent' = spent \/ (key[c] # NoKey /\ spent' = [spent EXCEPT ![key[c]][<<now[c], clock>>] = @ + 1]))
    BY <1>3 DEF AllowAt
  <2> HIDE DEF b
  <2>4. x \in Record /\ BucketOK(x, clock)
    <3>1. CASE ok
      <4>1. b.burst * Interval \in Nat /\ Interval \in Nat
        BY <2>2, BurstUnits, RateLimitAssumption DEF BucketOK
      <4>2. x = [b EXCEPT !.tokens = b.tokens - Interval] /\ b.tokens >= Interval
        BY <3>1
      <4>3. b.tokens - Interval \in 0 .. b.burst * Interval
        BY <2>2, <4>1, <4>2 DEF BucketOK
      <4> HIDE DEF x
      <4>4. x.burst = b.burst /\ x.last = b.last /\ x.tokens = b.tokens - Interval /\ x \in Record
        BY <2>2, <4>1, <4>2 DEF Record
      <4> QED BY <2>2, <4>3, <4>4 DEF BucketOK
    <3>2. CASE ~ok
      BY <2>2, <3>2
    <3> QED BY <3>1, <3>2
  <2> HIDE DEF x
  <2>5. bucket' \in [Buckets -> Record] /\ \A d \in Buckets : BucketOK(bucket'[d], clock')
    BY <1>3, <2>1, <2>3, <2>4, BucketStep DEF AllowAt
  <2>6. now' \in [Clients -> Idling .. clock] /\ \A d \in Clients : now'[d] # Idling => now[d] # Idling
    BY <1>0, <2>3 DEF LimitTypeInv, Idling
  <2>7. spent' \in [Keys -> [Times \X Times -> Nat]]
    <3>1. CASE spent' = spent
      BY <3>1 DEF LimitTypeInv
    <3>2. CASE key[c] # NoKey /\ spent' = [spent EXCEPT ![key[c]][<<now[c], clock>>] = @ + 1]
      <4>1. key[c] \in Keys /\ <<now[c], clock>> \in Times \X Times
        BY <1>0, <2>1, <3>2 DEF LimitTypeInv, Times
      <4>2. spent[key[c]] \in [Times \X Times -> Nat]
        BY <4>1 DEF LimitTypeInv
      <4>3. [spent[key[c]] EXCEPT ![<<now[c], clock>>] = @ + 1] \in [Times \X Times -> Nat]
        BY <4>1, <4>2
      <4>4. spent' = [spent EXCEPT ![key[c]] = [spent[key[c]] EXCEPT ![<<now[c], clock>>] = @ + 1]]
        BY <3>2
      <4> QED BY <4>1, <4>3, <4>4 DEF LimitTypeInv
    <3> QED BY <2>3, <3>1, <3>2
  <2> QED BY <1>3, <2>5, <2>6, <2>7 DEF AllowAt, LimitTypeInv
<1>4. ASSUME NEW c \in Clients, Release(c) PROVE LimitTypeInv'
  <2>1. /\ limit' = [limit EXCEPT ![c] = NoBucket] /\ key' = [key EXCEPT ![c] = NoKey]
        /\ limit[c] \in Buckets /\ now[c] = Idling
    BY <1>4 DEF Release, LimitTypeInv
  <2>2. bucket' \in [Buckets -> Record] /\ \A d \in Buckets : BucketOK(bucket'[d], clock')
    <3>1. CASE bucket' = bucket
      BY <1>4, <3>1 DEF Release, LimitTypeInv
    <3>2. CASE bucket' = [bucket EXCEPT ![limit[c]] = Collected]
      BY <1>0, <1>4, <2>1, <3>2, CollectedOK, BucketStep DEF Release
    <3> QED BY <1>4, <3>1, <3>2 DEF Release
  <2>3. refs' \in [Keys -> Nat]
    <3>1. refs' = refs \/ (refs' = [refs EXCEPT ![key[c]] = @ - 1] /\ key[c] \in Keys /\ refs[key[c]] > 0)
      BY <1>4 DEF Release, Known, LimitTypeInv
    <3> QED BY <3>1 DEF LimitTypeInv
  <2>4. \A d \in Clients : now[d] # Idling => limit'[d] # NoBucket
    BY <2>1 DEF LimitTypeInv
  <2>5. limit' \in [Clients -> Buckets \cup {NoBucket}] /\ key' \in [Clients -> Keys \cup {NoKey}]
    BY <2>1 DEF LimitTypeInv
  <2>6. /\ clock' = clock /\ limiters' = limiters /\ now' = now
        /\ tick' = tick /\ opens' = opens /\ spent' = spent
    BY <1>4 DEF Release
  <2>7. \A d \in Clients : now'[d] # Idling => limit'[d] # NoBucket
    BY <2>4, <2>6
  <2> QED BY <2>2, <2>3, <2>5, <2>6, <2>7 DEF LimitTypeInv
<1>5. CASE Tick
  <2>1. tick' \in Idling .. clock'
    BY <1>0, <1>5 DEF Tick, Idling
  <2> QED BY <1>5, <2>1 DEF Tick, LimitTypeInv
<1>6. CASE SweepLimiters
  <2> DEFINE looked == [b \in Buckets |->
                          IF \E k \in Candidates : limiters[k] = b THEN Refill(bucket[b], tick)
                                                                   ELSE bucket[b]]
             idle   == {k \in Candidates : IsFull(looked[limiters[k]])}
             freed  == {limiters[k] : k \in idle} \ Range(limit)
  <2>1. /\ bucket' = [b \in Buckets |-> IF b \in freed THEN Collected ELSE looked[b]]
        /\ limiters' = [k \in Keys |-> IF k \in idle THEN NoBucket ELSE limiters[k]]
        /\ tick \in 0 .. clock /\ tick' = Idling /\ clock' = clock
    BY <1>0, <1>6 DEF SweepLimiters, LimitTypeInv, Idling
  <2>2. \A b \in Buckets : looked[b] \in Record /\ BucketOK(looked[b], clock)
    BY <1>0, <2>1, RefillOK DEF LimitTypeInv
  <2>3. bucket' \in [Buckets -> Record] /\ \A b \in Buckets : BucketOK(bucket'[b], clock')
    <3> HIDE DEF looked, freed
    <3> QED BY <1>0, <2>1, <2>2, CollectedOK
  <2>4. limiters' \in [Keys -> Buckets \cup {NoBucket}]
    <3> HIDE DEF idle
    <3> QED BY <2>1 DEF LimitTypeInv
  <2>5. tick' \in Idling .. clock
    BY <1>0, <2>1 DEF Idling
  <2> QED BY <1>6, <2>3, <2>4, <2>5 DEF SweepLimiters, LimitTypeInv
<1>7. CASE Pass
  <2>1. clock' = clock + 1 /\ clock' \in Times
    BY <1>0, <1>7 DEF Pass, Times
  <2>2. \A b \in Buckets : BucketOK(bucket[b], clock')
    BY <1>0, <2>1 DEF BucketOK, LimitTypeInv, Never
  <2>3. now \in [Clients -> Idling .. clock'] /\ tick \in Idling .. clock'
    BY <1>0, <2>1 DEF LimitTypeInv, Idling
  <2> QED BY <1>7, <2>1, <2>2, <2>3 DEF Pass, LimitTypeInv
<1>8. CASE UNCHANGED limitVars
  BY <1>8 DEF limitVars, LimitTypeInv
<1> QED BY <1>1, <1>2, <1>3, <1>4, <1>5, <1>6, <1>7, <1>8 DEF LimitNext

\* Every variable keeps its type: no bucket holds less than nothing or more than its
\* burst, or was refilled to a time still to come (ratelimit.go:38-60).
THEOREM LimitTypeCorrect == LimitSpec => []LimitTypeOK
<1>1. LimitSpec => []LimitTypeInv
  BY LimitTypeInit, LimitTypeNext, PTL DEF LimitSpec
<1>2. LimitTypeInv => LimitTypeOK
  BY DEF LimitTypeInv, LimitTypeOK, BucketOK
<1> QED BY <1>1, <1>2, PTL

-----------------------------------------------------------------------------
(* Who holds which bucket *)

\* Connections are finitely many.
LEMMA HoldersFinite ==
  \A k : IsFiniteSet(Holders(k)) /\ Cardinality(Holders(k)) \in Nat
<1>1. \A k : Holders(k) \subseteq Clients
  BY DEF Holders
<1> QED BY <1>1, RateLimitAssumption, FS_Subset, FS_CardinalityType

\* A key whose holders stay keeps its count.
LEMMA HoldersSame ==
  ASSUME HoldersShareOneBucket, NEW k \in Keys, Holders(k)' = Holders(k), refs'[k] = refs[k],
         \A c \in Holders(k) : limit'[c] = limit[c] /\ limiters'[k] = limiters[k]
  PROVE  refs'[k] = Cardinality(Holders(k)') /\ \A c \in Holders(k)' : limit'[c] = limiters'[k]
BY DEF HoldersShareOneBucket

\* One holder more is one more ...
LEMMA HoldersJoin ==
  ASSUME NEW k, NEW c \in Clients, c \notin Holders(k), Holders(k)' = Holders(k) \cup {c}
  PROVE  Cardinality(Holders(k)') = Cardinality(Holders(k)) + 1
BY HoldersFinite, FS_AddElement

\* ... and one less is one less.
LEMMA HoldersLeave ==
  ASSUME NEW k, NEW c \in Holders(k), Holders(k)' = Holders(k) \ {c}
  PROVE  Cardinality(Holders(k)') = Cardinality(Holders(k)) - 1 /\ Cardinality(Holders(k)) > 0
<1>1. Cardinality(Holders(k)') = Cardinality(Holders(k)) - 1
  BY HoldersFinite, FS_RemoveElement
<1>2. Cardinality(Holders(k)) # 0
  BY HoldersFinite, FS_EmptySet
<1> QED BY <1>1, <1>2, HoldersFinite

\* Every step keeps the count of a key, and its holders together.
LEMMA SharedNext == LimitTypeInv /\ HoldersShareOneBucket /\ [LimitNext]_limitVars => HoldersShareOneBucket'
<1> SUFFICES ASSUME LimitTypeInv, HoldersShareOneBucket, [LimitNext]_limitVars, NEW k \in Keys
             PROVE  /\ refs'[k] = Cardinality(Holders(k)')
                    /\ \A c \in Holders(k)' : limit'[c] = limiters'[k]
  BY DEF HoldersShareOneBucket
<1> DEFINE Goal == refs'[k] = Cardinality(Holders(k)') /\ \A c \in Holders(k)' : limit'[c] = limiters'[k]
<1>0. k # NoKey
  BY RateLimitAssumption
<1>1. ASSUME NEW c \in Clients, NEW q \in Keys \cup {NoKey}, Acquire(c, q) PROVE Goal
  <2>1. /\ limit[c] = NoBucket /\ key' = [key EXCEPT ![c] = q]
        /\ \E b \in Buckets : b # NoBucket /\ limit' = [limit EXCEPT ![c] = b]
    BY <1>1, RateLimitAssumption DEF Acquire, Known, Unused, LimitTypeInv
  <2>2. c \notin Holders(k)
    BY <2>1 DEF Holders
  <2>3. CASE q # k
    <3>1. Holders(k)' = Holders(k)
      BY <2>1, <2>3 DEF Holders, LimitTypeInv
    <3>2. refs'[k] = refs[k] /\ limiters'[k] = limiters[k]
      BY <1>1, <2>3 DEF Acquire, LimitTypeInv
    <3>3. \A d \in Holders(k) : limit'[d] = limit[d]
      BY <2>1, <2>2 DEF Holders, LimitTypeInv
    <3> QED BY <3>1, <3>2, <3>3, HoldersSame
  <2>4. CASE q = k
    <3>1. Holders(k)' = Holders(k) \cup {c}
      BY <2>1, <2>4 DEF Holders, LimitTypeInv
    <3>2. refs'[k] = refs[k] + 1 /\ limit'[c] = limiters'[k]
      BY <1>0, <1>1, <2>4 DEF Acquire, LimitTypeInv
    <3>3. \A d \in Holders(k) : limit'[d] = limiters'[k]
      <4> SUFFICES ASSUME NEW d \in Holders(k) PROVE limit'[d] = limiters'[k]
        OBVIOUS
      <4>1. limit[d] = limiters[k] /\ limit[d] # NoBucket /\ d # c /\ d \in Clients
        BY <2>2 DEF HoldersShareOneBucket, Holders
      <4>2. Known(k)
        BY <1>0, <4>1 DEF Known
      <4> QED BY <1>1, <2>4, <4>1, <4>2 DEF Acquire, LimitTypeInv
    <3>4. refs'[k] = Cardinality(Holders(k)')
      BY <2>2, <3>1, <3>2, HoldersJoin DEF HoldersShareOneBucket
    <3> QED BY <3>1, <3>2, <3>3, <3>4
  <2> QED BY <2>3, <2>4
<1>2. ASSUME NEW c \in Clients, Release(c) PROVE Goal
  <2>1. limit' = [limit EXCEPT ![c] = NoBucket] /\ key' = [key EXCEPT ![c] = NoKey]
        /\ limit[c] # NoBucket /\ limiters' = limiters
    BY <1>2 DEF Release
  <2>2. CASE key[c] # k
    <3>1. Holders(k)' = Holders(k) /\ c \notin Holders(k)
      BY <1>0, <2>1, <2>2 DEF Holders, LimitTypeInv
    <3>2. refs'[k] = refs[k]
      BY <1>2, <2>2 DEF Release, LimitTypeInv
    <3>3. \A d \in Holders(k) : limit'[d] = limit[d]
      BY <2>1, <3>1 DEF Holders, LimitTypeInv
    <3> QED BY <2>1, <3>1, <3>2, <3>3, HoldersSame
  <2>3. CASE key[c] = k
    <3>1. Holders(k)' = Holders(k) \ {c} /\ c \in Holders(k)
      BY <1>0, <2>1, <2>3 DEF Holders, LimitTypeInv
    <3>2. /\ Cardinality(Holders(k)') = Cardinality(Holders(k)) - 1
          /\ Cardinality(Holders(k)) > 0
      BY <3>1, HoldersLeave
    <3>3. Known(k) /\ refs[k] > 0
      BY <1>0, <2>1, <3>1, <3>2 DEF Known, HoldersShareOneBucket
    <3>4. refs'[k] = refs[k] - 1
      BY <1>2, <2>3, <3>3 DEF Release, LimitTypeInv
    <3>5. \A d \in Holders(k)' : limit'[d] = limit[d] /\ d \in Holders(k)
      BY <2>1, <3>1 DEF Holders, LimitTypeInv
    <3> QED BY <2>1, <3>2, <3>4, <3>5 DEF HoldersShareOneBucket
  <2> QED BY <2>2, <2>3
<1>3. CASE SweepLimiters
  <2>1. limit' = limit /\ key' = key /\ refs' = refs
    BY <1>3 DEF SweepLimiters
  <2>2. Holders(k)' = Holders(k)
    BY <2>1 DEF Holders
  <2>3. CASE Holders(k) = {}
    BY <2>1, <2>2, <2>3, HoldersSame
  <2>4. CASE Holders(k) # {}
    <3>1. k \notin Candidates
      <4>1. Cardinality(Holders(k)) # 0
        BY <2>4, HoldersFinite, FS_EmptySet
      <4> QED BY <4>1 DEF Candidates, HoldersShareOneBucket
    <3>2. limiters'[k] = limiters[k]
      BY <1>3, <3>1 DEF SweepLimiters
    <3> QED BY <2>1, <2>2, <3>2, HoldersSame
  <2> QED BY <2>3, <2>4
<1>4. CASE UNCHANGED <<limiters, refs, key, limit>>
  <2>1. Holders(k)' = Holders(k)
    BY <1>4 DEF Holders
  <2> QED BY <1>4, <2>1, HoldersSame
<1> QED BY <1>1, <1>2, <1>3, <1>4 DEF LimitNext, ReadClock, AllowAt, Tick, Pass, limitVars

\* An entry is counted once for each open connection of its key, and they all hold
\* its own bucket: none is left with one that was swept (hooks.go:119-172).
THEOREM BucketsAreShared == LimitSpec => []HoldersShareOneBucket
<1>1. LimitInit => HoldersShareOneBucket
  <2> SUFFICES ASSUME LimitInit PROVE HoldersShareOneBucket
    OBVIOUS
  <2>1. \A k \in Keys : Holders(k) = {}
    BY DEF LimitInit, Holders
  <2> QED BY <2>1, FS_EmptySet DEF LimitInit, HoldersShareOneBucket
<1>2. LimitSpec => [](LimitTypeInv /\ HoldersShareOneBucket)
  BY <1>1, LimitTypeInit, LimitTypeNext, SharedNext, PTL DEF LimitSpec
<1> QED BY <1>2, PTL

-----------------------------------------------------------------------------
(* What is allowed within a window *)

\* A call is in Calls by the times it was made and answered at, and by its number.
LEMMA CallsHas ==
  ASSUME NEW k \in Keys, NEW from \in Times, NEW to \in Times, NEW x
  PROVE  x \in Calls(k, from, to) <=>
           \E w \in Times \X Times : /\ w[1] >= from /\ w[2] <= to
                                     /\ \E i \in 1 .. spent[k][w] : x = <<w, i>>
BY DEF Calls

\* One more call allowed is one more in the windows it falls in ...
LEMMA OneMore ==
  ASSUME LimitTypeInv, NEW k \in Keys, NEW u \in Times \X Times,
         spent' = [spent EXCEPT ![k][u] = @ + 1],
         NEW from \in Times, NEW to \in Times, IsFiniteSet(Calls(k, from, to))
  PROVE  /\ IsFiniteSet(Calls(k, from, to)')
         /\ u[1] >= from /\ u[2] <= to => AllowedWithin(k, from, to)' = AllowedWithin(k, from, to) + 1
         /\ ~(u[1] >= from /\ u[2] <= to) => AllowedWithin(k, from, to)' = AllowedWithin(k, from, to)
<1> DEFINE n == spent[k][u] + 1
<1>1. /\ spent[k][u] \in Nat /\ spent'[k][u] = n
      /\ \A w \in Times \X Times : w # u => spent'[k][w] = spent[k][w]
      /\ \A w \in Times \X Times : spent[k][w] \in Nat
  <2>1. spent \in [Keys -> [Times \X Times -> Nat]]
    BY DEF LimitTypeInv
  <2>2. spent[k] \in [Times \X Times -> Nat] /\ spent'[k] = [spent[k] EXCEPT ![u] = @ + 1]
    BY <2>1
  <2>3. QED
    BY <2>2
<1>2. 1 .. n = 1 .. spent[k][u] \cup {n} /\ n \notin 1 .. spent[k][u]
  BY <1>1
<1> HIDE DEF n
<1>3. ASSUME NEW x
      PROVE  x \in Calls(k, from, to)' <=>
               \/ x \in Calls(k, from, to)
               \/ u[1] >= from /\ u[2] <= to /\ x = <<u, n>>
  <2>1. x \in Calls(k, from, to)' <=>
          \E w \in Times \X Times : /\ w[1] >= from /\ w[2] <= to
                                    /\ \E i \in 1 .. spent'[k][w] : x = <<w, i>>
    BY DEF Calls
  <2>2. QED
    BY <1>1, <1>2, <2>1, CallsHas
<1>4. <<u, n>> \notin Calls(k, from, to)
  BY <1>2, CallsHas
<1>5. CASE u[1] >= from /\ u[2] <= to
  <2>1. Calls(k, from, to)' = Calls(k, from, to) \cup {<<u, n>>}
    BY <1>3, <1>5
  <2>2. QED
    BY <1>4, <1>5, <2>1, FS_AddElement DEF AllowedWithin
<1>6. CASE ~(u[1] >= from /\ u[2] <= to)
  <2>1. Calls(k, from, to)' = Calls(k, from, to)
    BY <1>3, <1>6
  <2>2. QED
    BY <1>6, <2>1 DEF AllowedWithin
<1>7. QED
  BY <1>5, <1>6

\* ... and a wider window has no fewer.
LEMMA WiderWindow ==
  ASSUME NEW k \in Keys, NEW from \in Times, NEW to \in Times, IsFiniteSet(Calls(k, from, MaxTime))
  PROVE  AllowedWithin(k, from, to) <= AllowedWithin(k, from, MaxTime)
<1>1. MaxTime \in Times /\ \A t \in Times : t <= MaxTime
  BY RateLimitAssumption DEF Times
<1>2. Calls(k, from, to) \subseteq Calls(k, from, MaxTime)
  BY <1>1, CallsHas
<1>3. QED
  BY <1>2, FS_Subset, FS_CardinalityType DEF AllowedWithin

\* What a refill earns: never more tokens than time, and it is then as late as it can be.
LEMMA RefillEarns ==
  ASSUME NEW b \in Record, NEW t \in Nat, BucketOK(b, t), NEW s \in 0 .. t
  PROVE  /\ Refill(b, s).last >= s
         /\ b.last = Never => Refill(b, s).last = s
         /\ b.last # Never => Refill(b, s).tokens - b.tokens <= Refill(b, s).last - b.last
<1> DEFINE units == b.burst * Interval
           r     == Refill(b, s)
<1>1. units \in Nat /\ b.tokens \in 0 .. units /\ b.last \in Never .. t /\ b.tokens \in Int /\ b.last \in Int
  BY BurstUnits DEF BucketOK, Record
<1> DEFINE last == IF b.last = Never THEN s ELSE b.last
           more == b.tokens + (s - last)
           kept == IF more > units THEN units ELSE more
<1>2. last \in 0 .. t /\ (b.last = Never => last = s) /\ (b.last # Never => last = b.last)
  BY <1>1 DEF Never
<1>3. /\ s > last => r = [b EXCEPT !.tokens = kept, !.last = s]
      /\ ~(s > last) => r = [b EXCEPT !.last = last]
  BY DEF Refill
<1>4. units \in Nat /\ kept \in Int /\ kept <= more
  BY <1>1, <1>2
<1> HIDE DEF units, kept, last, r
<1>5. /\ s > last => r.tokens = kept /\ r.last = s
      /\ ~(s > last) => r.tokens = b.tokens /\ r.last = last
  BY <1>3 DEF Record
<1>6. CASE s > last
  BY <1>1, <1>2, <1>4, <1>5, <1>6 DEF r
<1>7. CASE ~(s > last)
  BY <1>1, <1>2, <1>5, <1>7 DEF r
<1>8. QED
  BY <1>6, <1>7

\* The units that calls made since then have taken, and what a bucket has earned since.
Used(k, from) == AllowedWithin(k, from, MaxTime) * Interval

Earned(b, from) == b.last - from + b.burst * Interval - b.tokens

\* A bucket pays for the calls since any time out of what was in it and what it earned.
\* One that was swept was full again, so everything was paid for by then; and the next
\* one of its key looks at no earlier time.
Unopened(k) == limiters[k] = NoBucket \/ bucket[limiters[k]].last = Never

BudgetOf(k, from) ==
  AllowedWithin(k, from, MaxTime) > 0 =>
    /\ Unopened(k) =>
         /\ Used(k, from) <= clock - from
         /\ tick # Idling => Used(k, from) <= tick - from
         /\ \A c \in Holders(k) : now[c] # Idling => Used(k, from) <= now[c] - from
    /\ ~Unopened(k) => Used(k, from) <= Earned(bucket[limiters[k]], from)

Budget == \A k \in Keys, from \in Times : BudgetOf(k, from)

FiniteInv == \A k \in Keys, from \in Times, to \in Times : IsFiniteSet(Calls(k, from, to))

\* A key's bucket is of no other key, and of no connection that is on its own.
DistinctInv ==
  /\ \A j, k \in Keys : limiters[j] = limiters[k] /\ limiters[j] # NoBucket => j = k
  /\ \A c \in Clients, k \in Keys :
       key[c] = NoKey /\ limit[c] # NoBucket => limit[c] # limiters[k]

PaidInv ==
  /\ LimitTypeInv /\ HoldersShareOneBucket
  /\ DistinctInv /\ FiniteInv /\ Budget

\* Buckets stay distinct: a new one is nobody's.
LEMMA DistinctNext ==
  LimitTypeInv /\ DistinctInv /\ [LimitNext]_limitVars => DistinctInv'
<1> SUFFICES ASSUME LimitTypeInv, DistinctInv, [LimitNext]_limitVars PROVE DistinctInv'
  OBVIOUS
<1>0. /\ limiters \in [Keys -> Buckets \cup {NoBucket}] /\ key \in [Clients -> Keys \cup {NoKey}]
      /\ limit \in [Clients -> Buckets \cup {NoBucket}] /\ NoKey \notin Keys /\ NoBucket \notin Buckets
  BY RateLimitAssumption DEF LimitTypeInv
<1>1. ASSUME NEW c \in Clients, NEW q \in Keys \cup {NoKey}, Acquire(c, q) PROVE DistinctInv'
  <2>1. key' = [key EXCEPT ![c] = q]
    BY <1>1 DEF Acquire
  <2>2. CASE Known(q)
    <3>1. q # NoKey /\ limit' = [limit EXCEPT ![c] = limiters[q]] /\ limiters' = limiters
      BY <1>1, <2>2 DEF Acquire, Known
    <3>2. QED
      BY <1>0, <2>1, <3>1 DEF DistinctInv
  <2>3. CASE ~Known(q)
    <3>1. PICK b \in Unused :
             /\ limit' = [limit EXCEPT ![c] = b]
             /\ IF q = NoKey THEN limiters' = limiters ELSE limiters' = [limiters EXCEPT ![q] = b]
      BY <1>1, <2>3 DEF Acquire
    <3>2. /\ b \in Buckets /\ \A k \in Keys : limiters[k] # b
          /\ \A d \in Clients : limit[d] # b
      BY <1>0 DEF Unused, Range
    <3>3. CASE q = NoKey
      BY <1>0, <2>1, <3>1, <3>2, <3>3 DEF DistinctInv
    <3>4. CASE q # NoKey
      <4>1. q \in Keys /\ limiters' = [limiters EXCEPT ![q] = b]
        BY <3>1, <3>4
      <4>2. /\ limiters'[q] = b /\ \A k \in Keys \ {q} : limiters'[k] = limiters[k]
            /\ limit'[c] = b /\ \A d \in Clients \ {c} : limit'[d] = limit[d]
            /\ key'[c] = q /\ \A d \in Clients \ {c} : key'[d] = key[d]
        BY <1>0, <2>1, <3>1, <4>1
      <4>3. QED
        BY <1>0, <3>2, <3>4, <4>2 DEF DistinctInv
    <3>5. QED
      BY <3>3, <3>4
  <2>4. QED
    BY <2>2, <2>3
<1>2. ASSUME NEW c \in Clients, Release(c) PROVE DistinctInv'
  <2>1. limit' = [limit EXCEPT ![c] = NoBucket] /\ key' = [key EXCEPT ![c] = NoKey] /\ limiters' = limiters
    BY <1>2 DEF Release
  <2>2. QED
    BY <1>0, <2>1 DEF DistinctInv
<1>3. CASE SweepLimiters
  <2>1. limit' = limit /\ key' = key /\ \A k \in Keys : limiters'[k] \in {limiters[k], NoBucket}
    BY <1>3 DEF SweepLimiters
  <2>2. QED
    BY <1>0, <2>1 DEF DistinctInv
<1>4. CASE UNCHANGED <<limiters, key, limit>>
  BY <1>4 DEF DistinctInv
<1>5. QED
  BY <1>1, <1>2, <1>3, <1>4 DEF LimitNext, ReadClock, AllowAt, Tick, Pass, limitVars

\* Finitely many calls are allowed.
LEMMA FiniteNext ==
  LimitTypeInv /\ FiniteInv /\ [LimitNext]_limitVars => FiniteInv'
<1> SUFFICES ASSUME LimitTypeInv, FiniteInv, [LimitNext]_limitVars,
                    NEW k \in Keys, NEW from \in Times, NEW to \in Times
             PROVE  IsFiniteSet(Calls(k, from, to)')
  BY DEF FiniteInv
<1>1. CASE spent'[k] = spent[k]
  <2>1. Calls(k, from, to)' = Calls(k, from, to)
    BY <1>1 DEF Calls
  <2>2. QED
    BY <2>1 DEF FiniteInv
<1>2. ASSUME NEW c \in Clients, AllowAt(c), spent' # spent, key[c] = k PROVE IsFiniteSet(Calls(k, from, to)')
  <2>1. /\ spent' = [spent EXCEPT ![k][<<now[c], clock>>] = @ + 1]
        /\ <<now[c], clock>> \in Times \X Times
    BY <1>2, RateLimitAssumption DEF AllowAt, LimitTypeInv, Times, Idling
  <2>2. QED
    BY <2>1, OneMore DEF FiniteInv
<1>3. ASSUME NEW c \in Clients, AllowAt(c), key[c] # k PROVE spent'[k] = spent[k]
  BY <1>3 DEF AllowAt, LimitTypeInv
<1>4. QED
  BY <1>1, <1>2, <1>3 DEF LimitNext, Acquire, ReadClock, Release, Tick, SweepLimiters, Pass, limitVars

\* What has been used is a number, and one call more is a token more.
LEMMA UsedType ==
  ASSUME FiniteInv, NEW k \in Keys, NEW from \in Times
  PROVE  /\ AllowedWithin(k, from, MaxTime) \in Nat /\ Used(k, from) \in Nat
         /\ AllowedWithin(k, from, MaxTime) = 0 => Used(k, from) = 0
         /\ (AllowedWithin(k, from, MaxTime) + 1) * Interval = Used(k, from) + Interval
<1>1. MaxTime \in Times /\ Interval \in Nat
  BY RateLimitAssumption DEF Times
<1>2. AllowedWithin(k, from, MaxTime) \in Nat
  BY <1>1, FS_CardinalityType DEF FiniteInv, AllowedWithin
<1>3. \A n \in Nat : n * Interval \in Nat /\ 0 * Interval = 0 /\ (n + 1) * Interval = n * Interval + Interval
  BY <1>1
<1>4. QED
  BY <1>2, <1>3 DEF Used

\* The numbers the budget is about.
LEMMA BudgetTypes ==
  ASSUME LimitTypeInv, NEW b \in Buckets
  PROVE  /\ clock \in Nat /\ tick \in Int /\ (tick # Idling => tick \in 0 .. clock)
         /\ \A c \in Clients : now[c] \in Int /\ (now[c] # Idling => now[c] \in 0 .. clock)
         /\ bucket[b] \in Record /\ BucketOK(bucket[b], clock)
         /\ bucket[b].tokens \in Int /\ bucket[b].last \in Int
         /\ bucket[b].burst * Interval \in Nat
         /\ bucket[b].tokens <= bucket[b].burst * Interval /\ bucket[b].tokens >= 0
         /\ bucket[b].last <= clock
<1>1. clock \in Nat /\ tick \in Idling .. clock /\ now \in [Clients -> Idling .. clock]
  BY RateLimitAssumption DEF LimitTypeInv, Times
<1>2. bucket[b] \in Record /\ BucketOK(bucket[b], clock)
  BY DEF LimitTypeInv
<1>3. bucket[b].burst * Interval \in Nat
  BY <1>2, BurstUnits DEF BucketOK
<1>4. /\ bucket[b].tokens \in 0 .. bucket[b].burst * Interval /\ bucket[b].last \in Never .. clock
      /\ bucket[b].tokens \in Int /\ bucket[b].last \in Int
  BY <1>2 DEF BucketOK, Record
<1>5. QED
  BY <1>1, <1>2, <1>3, <1>4 DEF Idling, Never

\* A step that leaves the key's calls and bucket alone only makes them older.
LEMMA BudgetFrame ==
  ASSUME LimitTypeInv, FiniteInv, NEW k \in Keys, NEW from \in Times, BudgetOf(k, from),
         spent'[k] = spent[k], limiters'[k] = limiters[k],
         limiters[k] # NoBucket => bucket'[limiters[k]] = bucket[limiters[k]],
         clock' \in Nat, clock' >= clock, tick' = Idling \/ tick' = tick \/ tick' = clock,
         \A c \in Holders(k)' : now'[c] # Idling =>
           now'[c] = clock \/ (c \in Holders(k) /\ now'[c] = now[c])
  PROVE  BudgetOf(k, from)'
<1>1. AllowedWithin(k, from, MaxTime)' = AllowedWithin(k, from, MaxTime)
  BY DEF AllowedWithin, Calls
<1>2. Used(k, from)' = Used(k, from) /\ Used(k, from) \in Nat
  BY <1>1, UsedType DEF Used
<1>3. clock \in Nat /\ from \in Nat /\ Idling \in Int
  BY RateLimitAssumption DEF LimitTypeInv, Times, Idling
<1>4. Unopened(k)' = Unopened(k)
  BY DEF Unopened
<1>5. CASE Unopened(k)
  BY <1>1, <1>2, <1>3, <1>4, <1>5 DEF BudgetOf
<1>6. CASE ~Unopened(k)
  <2>1. Earned(bucket[limiters[k]], from)' = Earned(bucket[limiters[k]], from)
    BY <1>6 DEF Earned, Unopened
  <2>2. QED
    BY <1>1, <1>2, <1>4, <1>6, <2>1 DEF BudgetOf
<1>7. QED
  BY <1>5, <1>6

\* A call pays for itself out of what the bucket has.
LEMMA BudgetAllow ==
  ASSUME PaidInv, LimitTypeInv', NEW k \in Keys, NEW from \in Times, NEW c \in Clients, AllowAt(c), key[c] = k
  PROVE  BudgetOf(k, from)'
<1> DEFINE t == now[c]
           old == bucket[limit[c]]
           r == Refill(old, t)
           ok == r.tokens >= Interval
<1>0. PICK b \in Buckets : b = limit[c] /\ b = limiters[k] /\ limiters' = limiters /\ b # NoBucket /\ clock' = clock
  <2>1. limit[c] \in Buckets /\ NoBucket \notin Buckets
    BY RateLimitAssumption DEF AllowAt, PaidInv, LimitTypeInv
  <2>2. limit[c] = limiters[k]
    BY <2>1 DEF PaidInv, HoldersShareOneBucket, Holders
  <2>3. limiters' = limiters /\ clock' = clock
    BY DEF AllowAt
  <2>4. QED
    BY <2>1, <2>2, <2>3
<1>1. /\ old = bucket[b] /\ k # NoKey /\ MaxTime \in Times /\ from \in Nat
      /\ Interval \in Nat \ {0} /\ t \in 0 .. clock /\ clock \in Times /\ clock \in Nat /\ clock <= MaxTime
  BY <1>0, RateLimitAssumption DEF AllowAt, PaidInv, LimitTypeInv, Times, Idling
<1>2. LimitTypeInv /\ FiniteInv /\ BudgetOf(k, from) /\ c \in Holders(k)
  BY <1>0 DEF PaidInv, Budget, Holders
<1>3. /\ old \in Record /\ BucketOK(old, clock) /\ old.tokens \in Int /\ old.last \in Int
      /\ old.burst * Interval \in Nat /\ old.tokens <= old.burst * Interval
  BY <1>1, <1>2, BudgetTypes
<1>4. /\ r.last >= t /\ r \in Record /\ r.burst = old.burst
      /\ old.last = Never => r.last = t
      /\ old.last # Never => r.tokens - old.tokens <= r.last - old.last
      /\ BucketOK(r, clock)
  BY <1>1, <1>3, RefillEarns, RefillOK
<1>5. r.tokens \in Int /\ r.last \in Int /\ r.tokens <= old.burst * Interval /\ r.last # Never
  BY <1>1, <1>3, <1>4 DEF Record, BucketOK, Never
<1> HIDE DEF r
<1>6. /\ ok => bucket' = [bucket EXCEPT ![b] = [r EXCEPT !.tokens = @ - Interval]]
               /\ spent' = [spent EXCEPT ![k][<<t, clock>>] = @ + 1]
      /\ ~ok => bucket' = [bucket EXCEPT ![b] = r] /\ spent' = spent
  BY <1>0, <1>1 DEF AllowAt, r
<1>7. bucket \in [Buckets -> Record]
  BY <1>2 DEF LimitTypeInv
<1>8. /\ bucket'[b].last = r.last /\ bucket'[b].burst = old.burst
      /\ bucket'[b].tokens = IF ok THEN r.tokens - Interval ELSE r.tokens
  <2>1. CASE ok
    <3>1. bucket'[b] = [r EXCEPT !.tokens = @ - Interval]
      BY <1>6, <1>7, <2>1
    <3>2. QED
      BY <1>4, <2>1, <3>1 DEF Record
  <2>2. CASE ~ok
    <3>1. bucket'[b] = r
      BY <1>6, <1>7, <2>2
    <3>2. QED
      BY <1>4, <2>2, <3>1
  <2>3. QED
    BY <2>1, <2>2
<1> DEFINE A == AllowedWithin(k, from, MaxTime)
           U == Used(k, from)
           E == r.last - from + old.burst * Interval - r.tokens
<1>9. /\ A \in Nat /\ U \in Nat /\ (A = 0 => U = 0) /\ (A + 1) * Interval = U + Interval
  BY <1>2, UsedType
<1>10. IF ok /\ t >= from THEN A' = A + 1 /\ U' = U + Interval ELSE A' = A /\ U' = U
  <2>1. CASE ok
    <3>1. /\ <<t, clock>> \in Times \X Times /\ <<t, clock>>[1] = t /\ <<t, clock>>[2] = clock
          /\ IsFiniteSet(Calls(k, from, MaxTime))
      BY <1>1, <1>2 DEF Times, FiniteInv
    <3>2. IF t >= from THEN A' = A + 1 ELSE A' = A
      BY <1>1, <1>2, <1>6, <2>1, <3>1, OneMore
    <3>3. QED
      BY <1>9, <2>1, <3>2 DEF Used
  <2>2. CASE ~ok
    BY <1>6, <2>2 DEF AllowedWithin, Used, Calls
  <2>3. QED
    BY <2>1, <2>2
<1>11. ~Unopened(k)'
  BY <1>0, <1>5, <1>8 DEF Unopened
<1>12. Earned(bucket[limiters[k]], from)' = IF ok THEN E + Interval ELSE E
  BY <1>0, <1>1, <1>3, <1>5, <1>8 DEF Earned
<1>13. A > 0 => U <= E
  <2>1. CASE Unopened(k)
    <3>1. A > 0 => U <= t - from
      BY <1>2, <2>1 DEF BudgetOf, AllowAt
    <3>2. r.last = t
      BY <1>0, <1>1, <1>4, <2>1 DEF Unopened
    <3>3. QED
      BY <1>1, <1>3, <1>5, <1>9, <3>1, <3>2
  <2>2. CASE ~Unopened(k)
    <3>1. A > 0 => U <= Earned(old, from)
      BY <1>0, <1>1, <1>2, <2>2 DEF BudgetOf
    <3>2. r.tokens - old.tokens <= r.last - old.last
      BY <1>0, <1>1, <1>4, <2>2 DEF Unopened
    <3>3. QED
      BY <1>1, <1>3, <1>5, <1>9, <3>1, <3>2 DEF Earned
  <2>3. QED
    BY <2>1, <2>2
<1>14. E \in Int /\ (t >= from => E >= 0)
  BY <1>1, <1>3, <1>4, <1>5
<1>15. A' > 0 => U' <= Earned(bucket[limiters[k]], from)'
  <2> HIDE DEF A, U, E
  <2>1. CASE ok /\ t >= from
    BY <1>1, <1>9, <1>10, <1>12, <1>13, <1>14, <2>1
  <2>2. CASE ~(ok /\ t >= from)
    BY <1>1, <1>9, <1>10, <1>12, <1>13, <1>14, <2>2
  <2>3. QED
    BY <2>1, <2>2
<1>16. QED
  BY <1>11, <1>15 DEF BudgetOf

\* A bucket is full again when the sweep forgets it: what it was used for is earned.
LEMMA BudgetSweep ==
  ASSUME PaidInv, LimitTypeInv', NEW k \in Keys, NEW from \in Times, SweepLimiters, k \in Candidates
  PROVE  BudgetOf(k, from)'
<1> DEFINE old == bucket[limiters[k]]
           r == Refill(old, tick)
           looked == [b \in Buckets |->
                        IF \E j \in Candidates : limiters[j] = b THEN Refill(bucket[b], tick)
                                                                 ELSE bucket[b]]
           idle   == {j \in Candidates : IsFull(looked[limiters[j]])}
           freed  == {limiters[j] : j \in idle} \ Range(limit)
<1>1. /\ limiters[k] \in Buckets /\ limiters[k] # NoBucket /\ LimitTypeInv /\ FiniteInv /\ DistinctInv
      /\ BudgetOf(k, from) /\ spent' = spent /\ clock' = clock /\ tick' = Idling /\ tick # Idling
      /\ from \in Nat
  <2>1. LimitTypeInv /\ FiniteInv /\ DistinctInv /\ BudgetOf(k, from)
    BY DEF PaidInv, Budget
  <2>2. spent' = spent /\ clock' = clock /\ tick' = Idling /\ tick # Idling
    BY DEF SweepLimiters
  <2>3. limiters[k] \in Buckets /\ limiters[k] # NoBucket
    BY <2>1 DEF Candidates, LimitTypeInv
  <2>4. QED
    BY <2>1, <2>2, <2>3 DEF Times
<1>2. /\ bucket' = [b \in Buckets |-> IF b \in freed THEN Collected ELSE looked[b]]
      /\ limiters' = [j \in Keys |-> IF j \in idle THEN NoBucket ELSE limiters[j]]
  BY DEF SweepLimiters
<1>3. looked[limiters[k]] = r
  BY <1>1
<1>4. /\ tick \in 0 .. clock /\ clock \in Nat /\ old \in Record /\ BucketOK(old, clock)
      /\ old.tokens \in Int /\ old.last \in Int /\ old.burst * Interval \in Nat
  BY <1>1, BudgetTypes
<1>5. /\ r.last >= tick /\ r \in Record /\ r.burst = old.burst /\ BucketOK(r, clock)
      /\ old.last = Never => r.last = tick
      /\ old.last # Never => r.tokens - old.tokens <= r.last - old.last
  BY <1>4, RefillEarns, RefillOK
<1>6. /\ r.tokens \in Int /\ r.last \in Int /\ r.tokens <= old.burst * Interval /\ r.last # Never
      /\ r.last <= clock
  BY <1>4, <1>5 DEF Record, BucketOK, Never
<1> DEFINE A == AllowedWithin(k, from, MaxTime)
           U == Used(k, from)
           E == r.last - from + old.burst * Interval - r.tokens
<1>7. A' = A /\ U' = U /\ U \in Nat
  BY <1>1, UsedType DEF AllowedWithin, Calls, Used
<1>8. A > 0 => U <= E
  <2>1. CASE Unopened(k)
    <3>1. A > 0 => U <= tick - from
      BY <1>1, <2>1 DEF BudgetOf
    <3>2. r.last = tick
      BY <1>1, <1>5, <2>1 DEF Unopened
    <3>3. QED
      BY <1>1, <1>4, <1>6, <1>7, <3>1, <3>2
  <2>2. CASE ~Unopened(k)
    <3>1. A > 0 => U <= Earned(old, from)
      BY <1>1, <2>2 DEF BudgetOf
    <3>2. r.tokens - old.tokens <= r.last - old.last
      BY <1>1, <1>5, <2>2 DEF Unopened
    <3>3. QED
      BY <1>1, <1>4, <1>5, <1>6, <1>7, <3>1, <3>2 DEF Earned
  <2>3. QED
    BY <2>1, <2>2
<1>9. \A c \in Holders(k)' : now'[c] = Idling
  <2>1. Holders(k) = {}
    <3>1. Cardinality(Holders(k)) = 0
      BY DEF Candidates, PaidInv, HoldersShareOneBucket
    <3>2. QED
      BY <3>1, HoldersFinite, FS_EmptySet
  <2>2. Holders(k)' = Holders(k)
    BY DEF SweepLimiters, Holders
  <2>3. QED
    BY <2>1, <2>2
<1>10. CASE k \in idle
  <2>1. limiters'[k] = NoBucket
    BY <1>2, <1>10
  <2>2. r.tokens >= old.burst * Interval
    <3>1. IsFull(r)
      BY <1>3, <1>10
    <3>2. QED
      BY <1>5, <3>1 DEF IsFull
  <2> HIDE DEF A, U, r, old
  <2>3. A > 0 => U <= clock - from
    BY <1>1, <1>4, <1>6, <1>7, <1>8, <2>2
  <2>4. A' > 0 => U' <= clock' - from
    BY <1>1, <1>7, <2>3
  <2>5. QED
    BY <1>1, <1>9, <2>1, <2>4 DEF BudgetOf, Unopened, A, U
<1>11. CASE k \notin idle
  <2>1. limiters'[k] = limiters[k]
    BY <1>2, <1>11
  <2>2. limiters[k] \notin freed
    BY <1>1, <1>11 DEF DistinctInv, Candidates
  <2>3. bucket'[limiters[k]] = r
    BY <1>1, <1>2, <1>3, <2>2
  <2>4. Earned(bucket[limiters[k]], from)' = E /\ ~Unopened(k)'
    BY <1>1, <1>5, <1>6, <2>1, <2>3 DEF Earned, Unopened
  <2>5. QED
    BY <1>7, <1>8, <2>4 DEF BudgetOf
<1>12. QED
  BY <1>10, <1>11

\* Every step keeps the budget.
LEMMA BudgetNext == PaidInv /\ LimitTypeInv' /\ [LimitNext]_limitVars => Budget'
<1> SUFFICES ASSUME PaidInv, LimitTypeInv', [LimitNext]_limitVars, NEW k \in Keys, NEW from \in Times
             PROVE  BudgetOf(k, from)'
  BY DEF Budget
<1>0. /\ LimitTypeInv /\ FiniteInv /\ DistinctInv /\ HoldersShareOneBucket /\ BudgetOf(k, from)
      /\ k # NoKey /\ NoBucket \notin Buckets
  BY RateLimitAssumption DEF PaidInv, Budget
<1>1. /\ limiters \in [Keys -> Buckets \cup {NoBucket}] /\ key \in [Clients -> Keys \cup {NoKey}]
      /\ limit \in [Clients -> Buckets \cup {NoBucket}] /\ bucket \in [Buckets -> Record]
      /\ now \in [Clients -> Idling .. clock]
      /\ clock \in Nat /\ clock' \in Nat /\ clock >= clock
  BY <1>0, RateLimitAssumption DEF LimitTypeInv, Times
<1> DEFINE Stays == /\ spent'[k] = spent[k] /\ limiters'[k] = limiters[k]
                    /\ limiters[k] # NoBucket => bucket'[limiters[k]] = bucket[limiters[k]]
                    /\ clock' >= clock /\ (tick' = Idling \/ tick' = tick \/ tick' = clock)
                    /\ \A c \in Holders(k)' : now'[c] # Idling =>
                         now'[c] = clock \/ (c \in Holders(k) /\ now'[c] = now[c])
<1>2. ASSUME Stays PROVE BudgetOf(k, from)'
  BY <1>0, <1>1, <1>2, BudgetFrame
<1>3. ASSUME NEW c \in Clients, NEW q \in Keys \cup {NoKey}, Acquire(c, q) PROVE BudgetOf(k, from)'
  <2>1. /\ limit[c] = NoBucket /\ key' = [key EXCEPT ![c] = q] /\ now[c] = Idling
        /\ UNCHANGED <<clock, now, tick, spent>>
        /\ \A d \in Clients \ {c} : limit'[d] = limit[d] /\ key'[d] = key[d]
    BY <1>0, <1>1, <1>3 DEF Acquire, LimitTypeInv
  <2>2. \A d \in Holders(k)' : now'[d] # Idling => d \in Holders(k) /\ now'[d] = now[d]
    BY <2>1 DEF Holders
  <2>3. CASE Known(q)
    <3>1. UNCHANGED <<bucket, limiters>>
      BY <1>3, <2>3 DEF Acquire
    <3>2. QED
      BY <1>1, <1>2, <2>1, <2>2, <3>1
  <2>4. CASE ~Known(q)
    <3>1. PICK n \in Bursts, b \in Unused :
             /\ bucket' = [bucket EXCEPT ![b] = Full(n)]
             /\ IF q = NoKey THEN limiters' = limiters ELSE limiters' = [limiters EXCEPT ![q] = b]
      BY <1>3, <2>4 DEF Acquire
    <3>2. b \in Buckets /\ \A j \in Keys : limiters[j] # b
      BY <1>1 DEF Unused, Range
    <3>3. CASE q # k
      <4>1. limiters'[k] = limiters[k] /\ (limiters[k] # NoBucket => bucket'[limiters[k]] = bucket[limiters[k]])
        BY <1>1, <3>1, <3>2, <3>3
      <4>2. QED
        BY <1>1, <1>2, <2>1, <2>2, <4>1
    <3>4. CASE q = k
      <4>1. limiters[k] = NoBucket /\ limiters'[k] = b /\ bucket'[b] = Full(n)
        BY <1>0, <1>1, <2>4, <3>1, <3>2, <3>4 DEF Known
      <4>2. Holders(k) = {}
        BY <1>0, <4>1 DEF Holders, HoldersShareOneBucket
      <4>3. Unopened(k) /\ Unopened(k)'
        BY <4>1 DEF Unopened, Full
      <4>4. /\ AllowedWithin(k, from, MaxTime)' = AllowedWithin(k, from, MaxTime)
            /\ Used(k, from)' = Used(k, from)
        BY <2>1 DEF AllowedWithin, Calls, Used
      <4>5. QED
        BY <1>0, <2>1, <2>2, <4>2, <4>3, <4>4 DEF BudgetOf
    <3>5. QED
      BY <3>3, <3>4
  <2>5. QED
    BY <2>3, <2>4
<1>4. ASSUME NEW c \in Clients, ReadClock(c) PROVE BudgetOf(k, from)'
  <2>1. /\ UNCHANGED <<clock, bucket, limiters, tick, spent>> /\ Holders(k)' = Holders(k)
        /\ now' = [now EXCEPT ![c] = clock]
    BY <1>4 DEF ReadClock, Holders
  <2>2. \A d \in Clients : now'[d] = clock \/ now'[d] = now[d]
    BY <1>1, <2>1
  <2>3. Holders(k) \subseteq Clients
    BY DEF Holders
  <2>4. QED
    BY <1>1, <1>2, <2>1, <2>2, <2>3
<1>5. ASSUME NEW c \in Clients, AllowAt(c), key[c] # k PROVE BudgetOf(k, from)'
  <2>1. limit[c] \in Buckets /\ limit[c] # limiters[k]
    <3>1. limit[c] \in Buckets
      BY <1>0, <1>5 DEF AllowAt, LimitTypeInv
    <3>2. CASE key[c] = NoKey
      BY <1>0, <3>1, <3>2 DEF DistinctInv
    <3>3. CASE key[c] # NoKey
      <4>1. key[c] \in Keys /\ limit[c] = limiters[key[c]]
        BY <1>0, <1>1, <3>1, <3>3 DEF HoldersShareOneBucket, Holders
      <4>2. QED
        BY <1>0, <1>5, <3>1, <4>1 DEF DistinctInv
    <3>4. QED
      BY <3>2, <3>3
  <2>2. /\ UNCHANGED <<clock, limiters, tick>> /\ Holders(k)' = Holders(k)
        /\ now' = [now EXCEPT ![c] = Idling]
        /\ \A b \in Buckets : b # limit[c] => bucket'[b] = bucket[b]
    BY <1>1, <1>5 DEF AllowAt, Holders
  <2>3. spent'[k] = spent[k]
    BY <1>0, <1>5 DEF AllowAt, LimitTypeInv
  <2>4. \A d \in Clients : now'[d] = Idling \/ now'[d] = now[d]
    BY <1>1, <2>2
  <2>5. Holders(k) \subseteq Clients
    BY DEF Holders
  <2>6. QED
    BY <1>1, <1>2, <2>1, <2>2, <2>3, <2>4, <2>5
<1>6. ASSUME NEW c \in Clients, Release(c) PROVE BudgetOf(k, from)'
  <2>1. /\ UNCHANGED <<clock, limiters, now, tick, spent>> /\ limit[c] # NoBucket
        /\ limit' = [limit EXCEPT ![c] = NoBucket] /\ key' = [key EXCEPT ![c] = NoKey]
        /\ bucket' = bucket \/ (key[c] = NoKey /\ bucket' = [bucket EXCEPT ![limit[c]] = Collected])
    BY <1>6 DEF Release
  <2>2. limiters[k] # NoBucket => bucket'[limiters[k]] = bucket[limiters[k]]
    BY <1>0, <1>1, <2>1 DEF DistinctInv
  <2>3. Holders(k)' \subseteq Holders(k)
    BY <1>0, <1>1, <2>1 DEF Holders
  <2>4. QED
    BY <1>1, <1>2, <2>1, <2>2, <2>3
<1>7. CASE SweepLimiters /\ k \in Candidates
  BY <1>7, BudgetSweep
<1>8. CASE SweepLimiters /\ k \notin Candidates
  <2>1. /\ UNCHANGED <<clock, now, spent>> /\ Holders(k)' = Holders(k) /\ tick' = Idling
        /\ limiters'[k] = limiters[k]
    BY <1>8 DEF SweepLimiters, Holders
  <2>2. ASSUME limiters[k] # NoBucket PROVE bucket'[limiters[k]] = bucket[limiters[k]]
    <3>1. limiters[k] \in Buckets /\ \A j \in Candidates : limiters[j] # limiters[k]
      BY <1>0, <1>1, <1>8, <2>2 DEF DistinctInv, Candidates
    <3>2. QED
      BY <1>8, <3>1 DEF SweepLimiters
  <2>3. QED
    BY <1>1, <1>2, <2>1, <2>2
<1>9. CASE Tick \/ Pass \/ UNCHANGED limitVars
  <2>1. /\ UNCHANGED <<now, bucket, limiters, spent>> /\ Holders(k)' = Holders(k) /\ clock' >= clock
        /\ tick' = tick \/ tick' = clock
    BY <1>1, <1>9 DEF Tick, Pass, limitVars, Holders
  <2>2. QED
    BY <1>2, <2>1
<1>10. ASSUME NEW c \in Clients, AllowAt(c), key[c] = k PROVE BudgetOf(k, from)'
  BY <1>10, BudgetAllow
<1>11. QED
  BY <1>3, <1>4, <1>5, <1>6, <1>7, <1>8, <1>9, <1>10 DEF LimitNext

\* A window that ends now or later has the bucket's burst and what it earned.
LEMMA BudgetBound ==
  ASSUME PaidInv, NEW k \in Keys, NEW from \in Times, NEW to \in Times, from <= to, clock <= to
  PROVE  AllowedWithin(k, from, to) * Interval <= Largest * Interval + (to - from)
<1> DEFINE A == AllowedWithin(k, from, MaxTime)
           a == AllowedWithin(k, from, to)
           U == Used(k, from)
<1>1. /\ LimitTypeInv /\ FiniteInv /\ BudgetOf(k, from) /\ MaxTime \in Times
      /\ from \in Nat /\ to \in Nat /\ Interval \in Nat /\ clock \in Nat
  <2>1. LimitTypeInv /\ FiniteInv /\ BudgetOf(k, from)
    BY DEF PaidInv, Budget
  <2>2. clock \in Times
    BY <2>1 DEF LimitTypeInv
  <2>3. MaxTime \in Nat /\ Interval \in Nat
    BY RateLimitAssumption
  <2>4. QED
    BY <2>1, <2>2, <2>3 DEF Times
<1>2. A \in Nat /\ U \in Nat /\ (A = 0 => U = 0)
  BY <1>1, UsedType
<1>3. a \in Nat /\ a <= A
  BY <1>1, WiderWindow, FS_CardinalityType DEF FiniteInv, AllowedWithin
<1>4. a * Interval <= U
  <2>1. \A m, n \in Nat : m <= n => m * Interval <= n * Interval
    <3> SUFFICES ASSUME NEW m \in Nat, NEW n \in Nat, m <= n PROVE m * Interval <= n * Interval
      OBVIOUS
    <3> DEFINE e == n - m
    <3>1. e \in Nat /\ n = m + e
      OBVIOUS
    <3>2. e * Interval \in Nat /\ (m + e) * Interval = m * Interval + e * Interval
      BY <1>1, <3>1
    <3>3. m * Interval \in Nat
      BY <1>1
    <3> HIDE DEF e
    <3>4. QED
      BY <3>1, <3>2, <3>3
  <2>2. QED
    BY <1>2, <1>3, <2>1 DEF Used
<1>5. /\ Largest \in Bursts /\ \A n \in Bursts : n <= Largest
      /\ Largest * Interval \in Nat /\ \A n \in Bursts \cup {0} : n * Interval <= Largest * Interval
  <2>1. Largest \in Bursts /\ \A n \in Bursts : n <= Largest
    BY RateLimitAssumption DEF Largest
  <2>2. Largest \in Nat /\ \A n \in Bursts \cup {0} : n \in Nat /\ n <= Largest
    BY <2>1, RateLimitAssumption
  <2>3. \A n \in Nat : n <= Largest => n * Interval <= Largest * Interval
    <3> SUFFICES ASSUME NEW n \in Nat, n <= Largest PROVE n * Interval <= Largest * Interval
      OBVIOUS
    <3> DEFINE e == Largest - n
    <3>1. e \in Nat /\ Largest = n + e
      BY <2>2
    <3>2. e * Interval \in Nat /\ (n + e) * Interval = n * Interval + e * Interval
      BY <1>1, <3>1
    <3>3. n * Interval \in Nat
      BY <1>1
    <3> HIDE DEF e
    <3>4. QED
      BY <3>1, <3>2, <3>3
  <2>4. QED
    BY <1>1, <2>1, <2>2, <2>3
<1> HIDE DEF a
<1>6. A > 0 => U <= Largest * Interval + (to - from)
  <2>1. CASE Unopened(k)
    BY <1>1, <1>2, <1>5, <2>1 DEF BudgetOf
  <2>2. CASE ~Unopened(k)
    <3> DEFINE b == bucket[limiters[k]]
    <3>1. limiters[k] \in Buckets
      BY <1>1, <2>2 DEF Unopened, LimitTypeInv
    <3>2. /\ b.tokens \in Int /\ b.last \in Int /\ b.burst * Interval \in Nat
          /\ b.tokens >= 0 /\ b.last <= clock /\ b.burst \in Bursts \cup {0}
      BY <1>1, <3>1, BudgetTypes DEF BucketOK
    <3>3. A > 0 => U <= b.last - from + b.burst * Interval - b.tokens
      BY <1>1, <2>2 DEF BudgetOf, Earned
    <3>4. b.burst * Interval <= Largest * Interval
      BY <1>5, <3>2
    <3>5. QED
      BY <1>1, <1>2, <1>5, <3>2, <3>3, <3>4
  <2>3. QED
    BY <2>1, <2>2
<1>7. U <= Largest * Interval + (to - from)
  BY <1>1, <1>2, <1>5, <1>6
<1>8. a * Interval \in Nat
  BY <1>1, <1>3
<1>9. QED
  BY <1>1, <1>2, <1>4, <1>5, <1>7, <1>8 DEF a

FutureBound ==
  \A k \in Keys, from \in Times, to \in Times :
    from <= to /\ clock <= to =>
      AllowedWithin(k, from, to) * Interval <= Largest * Interval + (to - from)

\* A window that is over has seen its last call.
LEMMA PastWindow ==
  ASSUME LimitTypeInv, [LimitNext]_limitVars,
         NEW k \in Keys, NEW from \in Times, NEW to \in Times, ~(clock' <= to)
  PROVE  Calls(k, from, to)' = Calls(k, from, to)
<1>1. ASSUME NEW w \in Times \X Times, w[2] <= to PROVE spent'[k][w] = spent[k][w]
  <2>1. CASE spent'[k] = spent[k]
    BY <2>1
  <2>2. ASSUME NEW c \in Clients, AllowAt(c), spent'[k] # spent[k] PROVE spent'[k][w] = spent[k][w]
    <3>1. /\ spent' = [spent EXCEPT ![k][<<now[c], clock>>] = @ + 1] /\ clock' = clock
          /\ <<now[c], clock>> \in Times \X Times
      BY <2>2, RateLimitAssumption DEF AllowAt, LimitTypeInv, Times, Idling
    <3>2. w # <<now[c], clock>>
      BY <1>1, <3>1
    <3>3. spent \in [Keys -> [Times \X Times -> Nat]]
      BY DEF LimitTypeInv
    <3>4. QED
      BY <3>1, <3>2, <3>3
  <2>3. QED
    BY <2>1, <2>2 DEF LimitNext, Acquire, ReadClock, Release, Tick, SweepLimiters, Pass, limitVars
<1>2. \A x : x \in Calls(k, from, to)' <=> x \in Calls(k, from, to)
  <2> SUFFICES ASSUME NEW x PROVE x \in Calls(k, from, to)' <=> x \in Calls(k, from, to)
    OBVIOUS
  <2>1. x \in Calls(k, from, to)' <=>
          \E w \in Times \X Times : /\ w[1] >= from /\ w[2] <= to
                                    /\ \E i \in 1 .. spent'[k][w] : x = <<w, i>>
    BY DEF Calls
  <2>2. QED
    BY <1>1, <2>1, CallsHas
<1>3. QED
  BY <1>2

\* Of the calls of one key made and answered within a window, however the person
\* reconnects, at most the burst and what the window's length earns are allowed
\* (ratelimit.go:34-60, hooks.go:119-140).
THEOREM WindowsAreBounded == LimitSpec => []WindowBound
<1> DEFINE Inv == PaidInv /\ WindowBound
<1>0. PaidInv => FutureBound
  BY BudgetBound DEF FutureBound
<1>4. PaidInv' => FutureBound'
  BY <1>0, PTL
<1>1. LimitInit => Inv
  <2> SUFFICES ASSUME LimitInit PROVE Inv
    OBVIOUS
  <2>1. \A k \in Keys : Holders(k) = {} /\ refs[k] = 0
    BY DEF LimitInit, Holders
  <2>2. LimitTypeInv /\ HoldersShareOneBucket
    BY <2>1, LimitTypeInit, FS_EmptySet DEF HoldersShareOneBucket
  <2>3. DistinctInv
    BY DEF LimitInit, DistinctInv
  <2>4. ASSUME NEW k \in Keys, NEW from \in Times, NEW to \in Times PROVE Calls(k, from, to) = {}
    <3>1. \A w \in Times \X Times : spent[k][w] = 0
      BY DEF LimitInit
    <3>2. 1 .. 0 = {}
      OBVIOUS
    <3>3. QED
      BY <3>1, <3>2, CallsHas
  <2>5. FiniteInv
    BY <2>4, FS_EmptySet DEF FiniteInv
  <2>6. MaxTime \in Times
    BY RateLimitAssumption DEF Times
  <2>7. Budget
    BY <2>4, <2>6, FS_EmptySet DEF Budget, BudgetOf, AllowedWithin
  <2>8. PaidInv
    BY <2>2, <2>3, <2>5, <2>7 DEF PaidInv
  <2>9. \A k \in Keys, from \in Times, to \in Times : clock <= to
    BY DEF LimitInit, Times
  <2>10. QED
    BY <2>8, <2>9, BudgetBound DEF WindowBound
<1>2. Inv /\ [LimitNext]_limitVars => Inv'
  <2> SUFFICES ASSUME PaidInv, WindowBound, [LimitNext]_limitVars PROVE Inv'
    OBVIOUS
  <2>1. LimitTypeInv' /\ HoldersShareOneBucket' /\ DistinctInv' /\ FiniteInv'
    BY LimitTypeNext, SharedNext, DistinctNext, FiniteNext DEF PaidInv
  <2>2. PaidInv'
    BY <2>1, BudgetNext DEF PaidInv
  <2>3. ASSUME NEW k \in Keys, NEW from \in Times, NEW to \in Times, from <= to
        PROVE  (AllowedWithin(k, from, to) * Interval <= Largest * Interval + (to - from))'
    <3>1. CASE clock' <= to
      BY <1>4, <2>2, <2>3, <3>1 DEF FutureBound
    <3>2. CASE ~(clock' <= to)
      <4>1. Calls(k, from, to)' = Calls(k, from, to)
        BY <2>3, <3>2, PastWindow DEF PaidInv
      <4>2. QED
        BY <2>3, <4>1 DEF WindowBound, AllowedWithin
    <3>3. QED
      BY <3>1, <3>2
  <2>4. QED
    BY <2>2, <2>3 DEF WindowBound
<1>3. QED
  BY <1>1, <1>2, PTL DEF LimitSpec

-----------------------------------------------------------------------------
(* Private *)

\* A sequence of some messages is one of more of them.
LEMMA SeqWider ==
  ASSUME NEW S, NEW T, S \subseteq T, NEW q \in Seq(S)
  PROVE  q \in Seq(T)
OBVIOUS

\* privPump holds a message exactly while it writes, and starts with its connection's
\* reads; a message to deliver has somebody to go to, and one to echo has its id.
PumpInv ==
  \A c \in Conns :
    /\ pump[c] = "write" <=> writing[c] # NoMsg
    /\ life[c] \in {"new", "registered"} => pump[c] = "none"
    /\ ask[c].at = "deliver" => ask[c].to \in Conns
    /\ ask[c].at = "echo" => ask[c].id # 0

PrivTypeInv == PrivTypeOK /\ PumpInv

\* Init has the types.
LEMMA PrivTypeInit == PrivInit => PrivTypeInv
<1> SUFFICES ASSUME PrivInit PROVE PrivTypeInv
  OBVIOUS
<1>1. << >> \in Seq(Messages) /\ Len(<< >>) = 0 /\ 0 <= PrivBuffer
  BY PrivateAssumption
<1>2. Quiet \in [at : {"rest", "deliver", "echo"}, to : Conns \cup {NoConn}, id : 0 .. seq]
  BY DEF PrivInit, Quiet
<1>3. PrivTypeOK
  BY <1>1, <1>2 DEF PrivInit, PrivTypeOK
<1>4. PumpInv
  BY DEF PrivInit, PumpInv, Quiet
<1>5. QED
  BY <1>3, <1>4 DEF PrivTypeInv

\* Every step keeps the types.
LEMMA PrivTypeNext == PrivTypeInv /\ [PrivNext]_privVars => PrivTypeInv'
<1> SUFFICES ASSUME PrivTypeOK, PumpInv, [PrivNext]_privVars PROVE (PrivTypeOK /\ PumpInv)'
  BY DEF PrivTypeInv
<1>0. /\ seq \in Nat /\ NickOf \in [Conns -> Nicks] /\ NoConn \notin Conns
      /\ PrivBuffer \in Nat /\ NoMsg \notin Messages
  BY PrivateAssumption DEF PrivTypeOK, Messages, NoMsg
<1>1. ASSUME NEW c \in Conns, Register(c) PROVE (PrivTypeOK /\ PumpInv)'
  BY <1>0, <1>1 DEF Register, PrivTypeOK, PumpInv, Messages, queueVars, sendVars, stopVars
<1>2. ASSUME NEW c \in Conns, Serve(c) PROVE (PrivTypeOK /\ PumpInv)'
  <2>1. Forget(c) => conns' \in [Nicks -> Conns \cup {NoConn}]
    BY <1>0 DEF Forget, PrivTypeOK
  <2>2. Range(priv[c]) \subseteq Messages
    BY DEF PrivTypeOK, Range
  <2>3. CASE Ready(c)
    <3>1. PrivTypeOK'
      BY <2>1, <2>2, <2>3 DEF Ready, PrivTypeOK, Messages, sendVars, stopVars
    <3>2. PumpInv'
      <4>1. /\ pump' = [pump EXCEPT ![c] = "run"] \/ pump' = [pump EXCEPT ![c] = "exit"]
            /\ life' = [life EXCEPT ![c] = "reading"] \/ life' = [life EXCEPT ![c] = "gone"]
            /\ writing' = writing /\ ask' = ask
        BY <2>3 DEF Ready, sendVars
      <4>2. pump[c] = "none" /\ writing[c] = NoMsg
        BY <2>3 DEF Ready, PumpInv, PrivTypeOK
      <4>3. /\ pump'[c] \in {"run", "exit"} /\ life'[c] \in {"reading", "gone"}
            /\ \A d \in Conns \ {c} : pump'[d] = pump[d] /\ life'[d] = life[d]
        BY <4>1 DEF PrivTypeOK
      <4>4. QED
        BY <4>1, <4>2, <4>3 DEF PumpInv
    <3>3. QED
      BY <3>1, <3>2
  <2>4. CASE ReadEnds(c) \/ Cancel(c)
    BY <2>4 DEF ReadEnds, Cancel, PrivTypeOK, PumpInv, Messages, queueVars, sendVars, stopVars
  <2>5. CASE Unregister(c)
    BY <2>1, <2>5 DEF Unregister, PrivTypeOK, PumpInv, Messages, queueVars, sendVars, stopVars
  <2>6. CASE Gone(c)
    BY <2>2, <2>6 DEF Gone, PrivTypeOK, PumpInv, Messages, queueVars, sendVars, stopVars
  <2>7. QED
    BY <1>2, <2>3, <2>4, <2>5, <2>6 DEF Serve
<1>3. ASSUME NEW c \in Conns, Pumping(c) PROVE (PrivTypeOK /\ PumpInv)'
  <2>1. CASE Take(c)
    <3>1. /\ Head(priv[c]) \in Messages /\ Tail(priv[c]) \in Seq(Messages)
          /\ Len(Tail(priv[c])) <= PrivBuffer
      BY <1>0, <2>1 DEF Take, PrivTypeOK
    <3>2. PrivTypeOK'
      BY <2>1, <3>1 DEF Take, PrivTypeOK, Messages, serveVars, sendVars, stopVars
    <3>3. PumpInv'
      BY <1>0, <2>1, <3>1 DEF Take, PrivTypeOK, PumpInv, serveVars, sendVars
    <3>4. QED
      BY <3>2, <3>3
  <2>2. CASE Write(c)
    <3>1. writing[c] \in Messages
      BY <2>2 DEF Write, PrivTypeOK, PumpInv
    <3>2. Append(got[c], writing[c]) \in Seq(Messages)
      BY <3>1 DEF PrivTypeOK
    <3>3. PrivTypeOK'
      <4>1. got' \in [Conns -> Seq(Messages)] /\ alive' \in [Conns -> BOOLEAN] /\ lost' \subseteq Messages
        <5>1. CASE got' = [got EXCEPT ![c] = Append(@, writing[c])] /\ UNCHANGED <<alive, lost>>
          BY <3>2, <5>1 DEF PrivTypeOK
        <5>2. CASE /\ alive' = [alive EXCEPT ![c] = FALSE] /\ lost' = lost \cup {writing[c]}
                   /\ UNCHANGED got
          BY <3>1, <5>2 DEF PrivTypeOK
        <5>3. QED
          BY <2>2, <5>1, <5>2 DEF Write
      <4>2. pump' \in [Conns -> {"none", "run", "write", "exit"}] /\ writing' \in [Conns -> Messages \cup {NoMsg}]
        BY <2>2 DEF Write, PrivTypeOK
      <4>3. QED
        BY <2>2, <4>1, <4>2 DEF Write, PrivTypeOK, Messages, serveVars, sendVars, stopVars
    <3>4. PumpInv'
      BY <2>2 DEF Write, PrivTypeOK, PumpInv, serveVars, sendVars
    <3>5. QED
      BY <3>3, <3>4
  <2>3. CASE SeeDone(c)
    BY <1>0, <2>3 DEF SeeDone, PrivTypeOK, PumpInv, Messages, serveVars, sendVars, stopVars
  <2>4. QED
    BY <1>3, <2>1, <2>2, <2>3 DEF Pumping
<1>4. ASSUME NEW c \in Conns, NEW n \in Nicks, Lookup(c, n) PROVE (PrivTypeOK /\ PumpInv)'
  <2>1. conns[n] \in Conns /\ 0 \in 0 .. seq
    BY <1>0, <1>4 DEF Lookup, PrivTypeOK
  <2>2. QED
    BY <1>0, <1>4, <2>1 DEF Lookup, PrivTypeOK, PumpInv, Messages, serveVars, queueVars, stopVars
<1>5. ASSUME NEW c \in Conns, Deliver(c) PROVE (PrivTypeOK /\ PumpInv)'
  <2> DEFINE d == ask[c].to
             m == [id |-> seq + 1, from |-> c]
  <2>1. d \in Conns /\ seq' = seq + 1
    BY <1>5 DEF Deliver, PumpInv
  <2>2. Messages \subseteq Messages' /\ m \in Messages' /\ 0 .. seq \subseteq 0 .. seq'
        /\ 1 .. seq \subseteq 1 .. seq' /\ seq' \in 1 .. seq' /\ seq' \in Nat /\ seq' \in 0 .. seq' /\ seq' # 0
    BY <1>0, <2>1 DEF Messages
  <2>3. \A q \in Seq(Messages) : q \in Seq(Messages')
    BY <2>2, SeqWider
  <2>4. priv' \in [Conns -> Seq(Messages')] /\ \A e \in Conns : Len(priv'[e]) <= PrivBuffer
    <3>1. CASE Len(priv[d]) < PrivBuffer /\ priv' # priv
      <4>1. priv' = [priv EXCEPT ![d] = Append(@, m)]
        BY <1>5, <2>1, <3>1 DEF Deliver
      <4>2. Append(priv[d], m) \in Seq(Messages') /\ Len(Append(priv[d], m)) <= PrivBuffer
        BY <1>0, <2>1, <2>2, <2>3, <3>1 DEF PrivTypeOK
      <4>3. QED
        BY <2>1, <2>3, <4>1, <4>2 DEF PrivTypeOK
    <3>2. CASE priv' = priv
      BY <2>3, <3>2 DEF PrivTypeOK
    <3>3. QED
      BY <1>5, <3>1, <3>2 DEF Deliver, Fits
  <2>5. got' \in [Conns -> Seq(Messages')] /\ writing' \in [Conns -> Messages' \cup {NoMsg}]
    BY <1>5, <2>2, <2>3 DEF Deliver, PrivTypeOK
  <2>6. /\ ask' \in [Conns -> [at : {"rest", "deliver", "echo"}, to : Conns \cup {NoConn}, id : 0 .. seq']]
        /\ \A e \in Conns : /\ ask'[e].at = "deliver" => ask'[e].to \in Conns
                            /\ ask'[e].at = "echo" => ask'[e].id # 0
    <3>1. ask \in [Conns -> [at : {"rest", "deliver", "echo"}, to : Conns \cup {NoConn}, id : 0 .. seq']]
      BY <2>2 DEF PrivTypeOK
    <3>2. CASE ask' = [ask EXCEPT ![c].at = "echo", ![c].id = seq']
      BY <2>2, <3>1, <3>2 DEF PumpInv
    <3>3. CASE ask' = [ask EXCEPT ![c] = Quiet]
      <4>1. 0 \in 0 .. seq'
        BY <2>2
      <4>2. QED
        BY <3>1, <3>3, <4>1 DEF PumpInv, Quiet
    <3>4. QED
      BY <1>5, <3>2, <3>3 DEF Deliver
  <2>7. refused' \subseteq 1 .. seq' /\ echoed' \subseteq 1 .. seq' /\ lost' \subseteq Messages'
    BY <1>5, <2>2 DEF Deliver, PrivTypeOK
  <2>8. UNCHANGED <<life, conns, alive, pump, stop, greet, writing>>
    BY <1>5 DEF Deliver, serveVars, stopVars
  <2>9. QED
    BY <2>2, <2>4, <2>5, <2>6, <2>7, <2>8 DEF PrivTypeOK, PumpInv
<1>6. ASSUME NEW c \in Conns, Echo(c) PROVE (PrivTypeOK /\ PumpInv)'
  <2>1. ask' \in [Conns -> [at : {"rest", "deliver", "echo"}, to : Conns \cup {NoConn}, id : 0 .. seq]]
    BY <1>0, <1>6 DEF Echo, PrivTypeOK, Quiet
  <2>2. alive' \in [Conns -> BOOLEAN]
    BY <1>6 DEF Echo, PrivTypeOK
  <2>3. echoed' \subseteq 1 .. seq
    <3>1. ask[c].id \in 1 .. seq
      BY <1>0, <1>6 DEF Echo, PrivTypeOK, PumpInv
    <3>2. QED
      BY <1>6, <3>1 DEF Echo, PrivTypeOK
  <2>4. PumpInv'
    BY <1>6 DEF Echo, PrivTypeOK, PumpInv, Quiet, serveVars, queueVars
  <2>5. QED
    BY <1>6, <2>1, <2>2, <2>3, <2>4 DEF Echo, PrivTypeOK, Messages, serveVars, queueVars, stopVars
<1>7. ASSUME NEW c \in Conns, SayGoodbye(c) PROVE (PrivTypeOK /\ PumpInv)'
  BY <1>7 DEF SayGoodbye, PrivTypeOK, PumpInv, Messages, serveVars, queueVars, sendVars
<1>8. CASE Snapshot
  <2>1. greet' \subseteq Conns
    BY <1>8 DEF Snapshot, PrivTypeOK, Range
  <2>2. QED
    BY <1>8, <2>1 DEF Snapshot, PrivTypeOK, PumpInv, Messages, serveVars, queueVars, sendVars
<1>9. CASE StopConn
  BY <1>9 DEF StopConn, PrivTypeOK, PumpInv, Messages, serveVars, queueVars, sendVars
<1>10. CASE UNCHANGED privVars
  BY <1>10 DEF privVars, PrivTypeOK, PumpInv, Messages, serveVars, queueVars, sendVars, stopVars
<1>11. QED
  BY <1>1, <1>2, <1>3, <1>4, <1>5, <1>6, <1>7, <1>8, <1>9, <1>10 DEF PrivNext, Asking

\* Where a message of the connection c can be, and what was lost with one.
Writing(c) == {writing[c].id} \ {0}
In(c) == Ids(priv[c]) \cup Writing(c) \cup Ids(got[c])
Held == UNION {In(c) : c \in Conns}
LostIds == {m.id : m \in lost}

Increasing(q) == \A i, k \in DOMAIN q : i < k => q[i].id < q[k].id
Before(A, B) == \A x \in A, y \in B : x < y

\* Append adds its message's id ...
LEMMA IdsAppend ==
  ASSUME NEW S, NEW q \in Seq(S), NEW m \in S
  PROVE  Ids(Append(q, m)) = Ids(q) \cup {m.id}
<1> DEFINE r == Append(q, m)
<1>1. /\ DOMAIN q = 1 .. Len(q) /\ DOMAIN r = 1 .. Len(q) + 1 /\ Len(q) \in Nat
      /\ r[Len(q) + 1] = m /\ \A i \in 1 .. Len(q) : r[i] = q[i]
  OBVIOUS
<1> HIDE DEF r
<1>2. \A i \in DOMAIN r : i \in DOMAIN q \/ i = Len(q) + 1
  BY <1>1
<1>3. DOMAIN q \subseteq DOMAIN r /\ Len(q) + 1 \in DOMAIN r
  BY <1>1
<1>4. Ids(r) = Ids(q) \cup {m.id}
  BY <1>1, <1>2, <1>3 DEF Ids
<1>5. QED
  BY <1>4 DEF r

\* ... which comes last, if it is the greatest.
LEMMA IncreasingAppend ==
  ASSUME NEW S, NEW q \in Seq(S), NEW m \in S, Increasing(q), Before(Ids(q), {m.id})
  PROVE  Increasing(Append(q, m))
<1> DEFINE r == Append(q, m)
<1>1. /\ DOMAIN q = 1 .. Len(q) /\ DOMAIN r = 1 .. Len(q) + 1 /\ Len(q) \in Nat
      /\ r[Len(q) + 1] = m /\ \A i \in 1 .. Len(q) : r[i] = q[i]
  OBVIOUS
<1> HIDE DEF r
<1>2. \A i \in DOMAIN q : q[i].id < m.id
  BY DEF Before, Ids
<1>3. \A i, k \in DOMAIN r : i < k => i \in DOMAIN q /\ (k \in DOMAIN q \/ k = Len(q) + 1)
  BY <1>1
<1>4. Increasing(r)
  BY <1>1, <1>2, <1>3 DEF Increasing
<1>5. QED
  BY <1>4 DEF r

\* The first message comes before the rest.
LEMMA IncreasingTail ==
  ASSUME NEW S, NEW q \in Seq(S), q # << >>
  PROVE  /\ Ids(q) = {Head(q).id} \cup Ids(Tail(q))
         /\ Increasing(q) => Increasing(Tail(q)) /\ Before({Head(q).id}, Ids(Tail(q)))
<1> DEFINE r == Tail(q)
<1>1. /\ DOMAIN q = 1 .. Len(q) /\ DOMAIN r = 1 .. Len(q) - 1 /\ Len(q) \in Nat \ {0}
      /\ q[1] = Head(q) /\ \A i \in 1 .. Len(q) - 1 : r[i] = q[i + 1]
  OBVIOUS
<1> HIDE DEF r
<1>2. 1 \in DOMAIN q /\ \A i \in DOMAIN r : i + 1 \in DOMAIN q /\ 1 < i + 1
  BY <1>1
<1>3. \A i \in DOMAIN q : i = 1 \/ (i - 1 \in DOMAIN r /\ i = (i - 1) + 1)
  BY <1>1
<1>4. Ids(q) \subseteq {Head(q).id} \cup Ids(r)
  BY <1>1, <1>3 DEF Ids
<1>5. {Head(q).id} \cup Ids(r) \subseteq Ids(q)
  BY <1>1, <1>2 DEF Ids
<1>6. ASSUME Increasing(q) PROVE Increasing(r) /\ Before({Head(q).id}, Ids(r))
  <2>1. Before({Head(q).id}, Ids(r))
    BY <1>1, <1>2, <1>6 DEF Before, Ids, Increasing
  <2>2. \A i, k \in DOMAIN r : i < k => i + 1 < k + 1
    BY <1>1
  <2>3. Increasing(r)
    BY <1>1, <1>2, <1>6, <2>2 DEF Increasing
  <2>4. QED
    BY <2>1, <2>3
<1>7. QED
  BY <1>4, <1>5, <1>6 DEF r

\* What is queued, being written or written has an id that was drawn.
LEMMA IdsDrawn ==
  ASSUME PrivTypeOK, NEW c \in Conns
  PROVE  In(c) \subseteq 1 .. seq /\ LostIds \subseteq 1 .. seq
<1>1. \A m \in Messages : m.id \in 1 .. seq
  BY DEF Messages
<1>2. \A q \in Seq(Messages) : Ids(q) \subseteq 1 .. seq
  BY <1>1 DEF Ids
<1>3. Writing(c) \subseteq 1 .. seq
  BY <1>1 DEF PrivTypeOK, Writing, NoMsg
<1>4. LostIds \subseteq 1 .. seq
  BY <1>1 DEF PrivTypeOK, LostIds
<1>5. QED
  BY <1>2, <1>3, <1>4 DEF In, PrivTypeOK

\* But for Deliver, a step moves messages along, or loses them with a connection.
Conserve ==
  /\ seq' = seq /\ refused' = refused
  /\ \A c \in Conns : In(c)' \subseteq In(c) /\ In(c) \subseteq In(c)' \cup LostIds'
  /\ LostIds \subseteq LostIds' /\ LostIds' \subseteq LostIds \cup Held

\* A connection's messages are in the order of their ids: written, being written, queued.
LineOf(c) ==
  /\ Increasing(priv[c]) /\ Increasing(got[c])
  /\ Before(Ids(got[c]), Writing(c) \cup Ids(priv[c]))
  /\ Before(Writing(c), Ids(priv[c]))

LineInv == \A c \in Conns : LineOf(c)

\* A step that leaves queues, pumps and losses alone.
LEMMA StillConserve ==
  ASSUME UNCHANGED <<priv, writing, got, lost, seq, refused>>
  PROVE  Conserve /\ \A c \in Conns : LineOf(c)' = LineOf(c)
<1>1. LostIds' = LostIds /\ \A c \in Conns : In(c)' = In(c)
  BY DEF LostIds, In, Writing
<1>2. \A c \in Conns : LineOf(c)' = LineOf(c)
  BY DEF LineOf, Writing
<1>3. QED
  BY <1>1, <1>2 DEF Conserve

\* What a pump does: Take.
LEMMA TakeKeeps ==
  ASSUME PrivTypeInv, LineInv, NEW c \in Conns, Take(c)
  PROVE  Conserve /\ LineInv'
<1> DEFINE m == Head(priv[c])
           q == Tail(priv[c])
<1>1. /\ priv \in [Conns -> Seq(Messages)] /\ writing \in [Conns -> Messages \cup {NoMsg}]
      /\ priv[c] # << >> /\ priv[c] \in Seq(Messages) /\ writing[c] = NoMsg
  BY DEF Take, PrivTypeInv, PrivTypeOK, PumpInv
<1>2. m \in Messages /\ m.id # 0
  <2>1. m \in Messages
    BY <1>1
  <2> HIDE DEF m
  <2>2. QED
    BY <2>1 DEF Messages
<1>3. /\ priv' = [priv EXCEPT ![c] = q] /\ writing' = [writing EXCEPT ![c] = m] /\ got' = got
      /\ lost' = lost /\ seq' = seq /\ refused' = refused
  BY DEF Take, sendVars
<1>4. priv'[c] = q /\ writing'[c] = m /\ \A d \in Conns \ {c} : priv'[d] = priv[d] /\ writing'[d] = writing[d]
  BY <1>1, <1>3
<1> HIDE DEF m
<1>5. Writing(c) = {} /\ Writing(c)' = {m.id}
  BY <1>1, <1>2, <1>4 DEF Writing, NoMsg
<1>6. /\ Ids(priv[c]) = {m.id} \cup Ids(priv'[c])
      /\ Increasing(priv[c]) => Increasing(priv'[c]) /\ Before({m.id}, Ids(priv'[c]))
  BY <1>1, <1>4, IncreasingTail DEF m
<1> HIDE DEF q
<1>7. In(c)' = In(c)
  BY <1>3, <1>5, <1>6 DEF In
<1>8. \A d \in Conns \ {c} : In(d)' = In(d) /\ LineOf(d)' = LineOf(d)
  BY <1>3, <1>4 DEF In, Writing, LineOf
<1>9. LineOf(c)'
  BY <1>3, <1>5, <1>6 DEF LineInv, LineOf, Before
<1>10. LostIds' = LostIds
  BY <1>3 DEF LostIds
<1>11. QED
  BY <1>3, <1>7, <1>8, <1>9, <1>10 DEF Conserve, LineInv

\* What a pump does: Write, which may be its last.
LEMMA WriteKeeps ==
  ASSUME PrivTypeInv, LineInv, NEW c \in Conns, Write(c)
  PROVE  Conserve /\ LineInv'
<1> DEFINE m == writing[c]
<1>1. /\ got \in [Conns -> Seq(Messages)] /\ writing \in [Conns -> Messages \cup {NoMsg}]
      /\ m \in Messages /\ m.id # 0 /\ got[c] \in Seq(Messages)
  <2>1. /\ got \in [Conns -> Seq(Messages)] /\ writing \in [Conns -> Messages \cup {NoMsg}]
        /\ m \in Messages
    BY DEF Write, PrivTypeInv, PrivTypeOK, PumpInv
  <2> HIDE DEF m
  <2>2. m.id # 0
    BY <2>1 DEF Messages
  <2>3. QED
    BY <2>1, <2>2
<1>2. /\ priv' = priv /\ writing' = [writing EXCEPT ![c] = NoMsg]
      /\ seq' = seq /\ refused' = refused
      /\ \/ got' = [got EXCEPT ![c] = Append(@, m)] /\ lost' = lost
         \/ got' = got /\ lost' = lost \cup {m}
  BY DEF Write, sendVars
<1>3. /\ writing'[c] = NoMsg /\ \A d \in Conns \ {c} : got'[d] = got[d] /\ writing'[d] = writing[d]
      /\ \/ got'[c] = Append(got[c], m) /\ lost' = lost
         \/ got'[c] = got[c] /\ lost' = lost \cup {m}
  BY <1>1, <1>2
<1>4. Writing(c) = {m.id} /\ Writing(c)' = {}
  BY <1>1, <1>3 DEF Writing, NoMsg
<1> HIDE DEF m
<1>5. \A d \in Conns \ {c} : In(d)' = In(d) /\ LineOf(d)' = LineOf(d)
  BY <1>2, <1>3 DEF In, Writing, LineOf
<1>6. LineOf(c)
  BY DEF LineInv
<1>7. CASE got'[c] = Append(got[c], m) /\ lost' = lost
  <2>1. Ids(got'[c]) = Ids(got[c]) \cup {m.id}
    BY <1>1, <1>7, IdsAppend
  <2>2. Increasing(got'[c])
    <3>1. Increasing(got[c]) /\ Before(Ids(got[c]), {m.id})
      BY <1>4, <1>6 DEF LineOf, Before
    <3>2. QED
      BY <1>1, <1>7, <3>1, IncreasingAppend
  <2>3. LineOf(c)'
    BY <1>2, <1>4, <1>6, <2>1, <2>2 DEF LineOf, Before
  <2>4. In(c)' = In(c) /\ LostIds' = LostIds
    BY <1>2, <1>4, <1>7, <2>1 DEF In, LostIds
  <2>5. QED
    BY <1>2, <1>5, <2>3, <2>4 DEF Conserve, LineInv
<1>8. CASE got'[c] = got[c] /\ lost' = lost \cup {m}
  <2>1. LineOf(c)'
    BY <1>2, <1>4, <1>6, <1>8 DEF LineOf, Before
  <2>2. LostIds' = LostIds \cup {m.id}
    BY <1>8 DEF LostIds
  <2>3. In(c) = In(c)' \cup {m.id} /\ m.id \in Held
    BY <1>2, <1>4, <1>8 DEF In, Held
  <2>4. QED
    BY <1>2, <1>5, <2>1, <2>2, <2>3 DEF Conserve, LineInv
<1>9. QED
  BY <1>3, <1>7, <1>8

\* What serve does: the losses of a connection that ends.
LEMMA ServeKeeps ==
  ASSUME PrivTypeInv, LineInv, NEW c \in Conns, Serve(c)
  PROVE  Conserve /\ LineInv'
<1>1. /\ UNCHANGED <<priv, writing, got, seq, refused>>
      /\ lost' = lost \/ lost' = lost \cup Range(priv[c])
  BY DEF Serve, Ready, ReadEnds, Unregister, Cancel, Gone, queueVars, sendVars
<1>2. LostIds' = LostIds \/ LostIds' = LostIds \cup Ids(priv[c])
  BY <1>1 DEF LostIds, Ids, Range
<1>3. \A d \in Conns : In(d)' = In(d) /\ LineOf(d)' = LineOf(d)
  BY <1>1 DEF In, Writing, LineOf
<1>4. Ids(priv[c]) \subseteq Held
  BY DEF Held, In
<1>5. QED
  BY <1>1, <1>2, <1>3, <1>4 DEF Conserve, LineInv

\* No message is with two connections ...
ApartInv == \A c, d \in Conns : c # d => In(c) \cap In(d) = {}

\* ... and everything a sender was or is about to be told is so.
ToldInv ==
  /\ refused \cap Held = {}
  /\ Held \cup refused \cup LostIds = 1 .. seq
  /\ echoed \subseteq Held \cup LostIds
  /\ \A c \in Conns : ask[c].at = "echo" => ask[c].id \in Held \cup LostIds

PrivInv == PrivTypeInv /\ LineInv /\ ApartInv /\ ToldInv

\* A step that only moves or loses messages, and tells a sender at most what one was
\* about to be told, keeps what they were told true.
LEMMA ConserveTold ==
  ASSUME PrivInv, Conserve,
         \/ echoed' = echoed
         \/ \E c \in Conns : ask[c].at = "echo" /\ echoed' = echoed \cup {ask[c].id},
         \A c \in Conns : ask'[c].at = "echo" => ask[c].at = "echo" /\ ask'[c].id = ask[c].id
  PROVE  ApartInv' /\ ToldInv'
<1>1. Held' \subseteq Held /\ Held \cup LostIds = Held' \cup LostIds'
  BY DEF Conserve, Held
<1>2. ApartInv'
  BY DEF PrivInv, ApartInv, Conserve
<1>3. refused' \cap Held' = {} /\ Held' \cup refused' \cup LostIds' = 1 .. seq'
  BY <1>1 DEF PrivInv, ToldInv, Conserve
<1>4. echoed' \subseteq Held' \cup LostIds'
  BY <1>1 DEF PrivInv, ToldInv
<1>5. \A c \in Conns : ask'[c].at = "echo" => ask'[c].id \in Held' \cup LostIds'
  BY <1>1 DEF PrivInv, ToldInv
<1>6. QED
  BY <1>2, <1>3, <1>4, <1>5 DEF ToldInv

\* Deliver draws an id, and queues its message or refuses it.
LEMMA DeliverKeeps ==
  ASSUME PrivInv, NEW c \in Conns, Deliver(c)
  PROVE  LineInv' /\ ApartInv' /\ ToldInv'
<1> DEFINE n == seq + 1
           m == [id |-> n, from |-> c]
           Drawn == [id : Nat, from : Conns]
<1>0. PICK d \in Conns : d = ask[c].to
  BY DEF Deliver, PrivInv, PrivTypeInv, PumpInv
<1>1. /\ seq \in Nat /\ seq' = n /\ n \in Nat /\ n # 0 /\ d \in Conns
      /\ \A e \in Conns : In(e) \subseteq 1 .. seq
      /\ LostIds \subseteq 1 .. seq /\ refused \subseteq 1 .. seq /\ n \notin 1 .. seq
      /\ 1 .. n = 1 .. seq \cup {n} /\ \A x \in 1 .. seq : x < n
  <2>1. seq \in Nat /\ seq' = n /\ PrivTypeOK /\ refused \subseteq 1 .. seq
    BY DEF Deliver, PrivInv, PrivTypeInv, PrivTypeOK, PumpInv
  <2>2. \A e \in Conns : In(e) \subseteq 1 .. seq
    BY <2>1, IdsDrawn
  <2>3. LostIds \subseteq 1 .. seq
    BY <2>1, IdsDrawn
  <2>4. QED
    BY <1>0, <2>1, <2>2, <2>3
<1>2. Held \subseteq 1 .. seq
  BY <1>1 DEF Held
<1>3. UNCHANGED <<writing, got, lost, echoed>> /\ LostIds' = LostIds
  BY DEF Deliver, LostIds
<1>4. ask \in [Conns -> [at : {"rest", "deliver", "echo"}, to : Conns \cup {NoConn}, id : 0 .. seq]]
  BY DEF PrivInv, PrivTypeInv, PrivTypeOK
<1>5. CASE /\ priv' = [priv EXCEPT ![d] = Append(@, m)] /\ refused' = refused
           /\ ask' = [ask EXCEPT ![c].at = "echo", ![c].id = n]
  <2>1. /\ priv' = [priv EXCEPT ![d] = Append(@, m)] /\ refused' = refused
        /\ ask' = [ask EXCEPT ![c].at = "echo", ![c].id = n]
    BY <1>5
  <2>2. priv[d] \in Seq(Drawn) /\ m \in Drawn
    <3>1. Messages \subseteq Drawn
      BY <1>1 DEF Messages
    <3>2. priv[d] \in Seq(Messages)
      BY <1>1 DEF PrivInv, PrivTypeInv, PrivTypeOK
    <3>3. m \in Drawn
      BY <1>1
    <3> HIDE DEF m
    <3>4. QED
      BY <3>1, <3>2, <3>3, SeqWider
  <2>3. priv'[d] = Append(priv[d], m) /\ \A e \in Conns \ {d} : priv'[e] = priv[e]
    BY <1>1, <2>1 DEF PrivInv, PrivTypeInv, PrivTypeOK
  <2>0. m.id = n
    OBVIOUS
  <2> HIDE DEF m, Drawn
  <2>4. Ids(priv'[d]) = Ids(priv[d]) \cup {n}
    BY <2>0, <2>2, <2>3, IdsAppend
  <2>5. Increasing(priv'[d])
    <3>1. Increasing(priv[d])
      BY <1>1 DEF PrivInv, LineInv, LineOf
    <3>2. Before(Ids(priv[d]), {m.id})
      BY <1>1, <2>0 DEF In, Before
    <3>3. QED
      BY <2>2, <2>3, <3>1, <3>2, IncreasingAppend
  <2>6. ask'[c].id = n /\ \A e \in Conns \ {c} : ask'[e] = ask[e]
    BY <1>4, <2>1
  <2>7. \A e \in Conns \ {d} : In(e)' = In(e) /\ LineOf(e)' = LineOf(e)
    BY <1>3, <2>3 DEF In, Writing, LineOf
  <2>8. In(d)' = In(d) \cup {n}
    BY <1>3, <2>4 DEF In, Writing
  <2>9. LineOf(d)'
    <3>1. LineOf(d) /\ Writing(d)' = Writing(d) /\ got'[d] = got[d]
      BY <1>1, <1>3 DEF PrivInv, LineInv, Writing
    <3>2. Before(Ids(got[d]), {n}) /\ Before(Writing(d), {n})
      BY <1>1 DEF In, Before
    <3>3. QED
      BY <2>4, <2>5, <3>1, <3>2 DEF LineOf, Before
  <2>10. Held' = Held \cup {n}
    BY <1>1, <2>7, <2>8 DEF Held
  <2>11. LineInv'
    BY <2>7, <2>9 DEF PrivInv, LineInv
  <2>12. ApartInv'
    BY <1>1, <2>7, <2>8 DEF PrivInv, ApartInv
  <2>13. ToldInv'
    <3>1. \A e \in Conns : ask'[e].at = "echo" => ask'[e].id \in Held' \cup LostIds'
      BY <1>3, <2>6, <2>10 DEF PrivInv, ToldInv
    <3>2. QED
      BY <1>1, <1>3, <2>1, <2>10, <3>1 DEF PrivInv, ToldInv
  <2>14. QED
    BY <2>11, <2>12, <2>13
<1>6. CASE priv' = priv /\ refused' = refused \cup {n} /\ ask' = [ask EXCEPT ![c] = Quiet]
  <2>1. priv' = priv /\ refused' = refused \cup {n} /\ ask' = [ask EXCEPT ![c] = Quiet]
    BY <1>6
  <2>2. \A e \in Conns : ask'[e] = ask[e] \/ ask'[e].at = "rest"
    BY <1>4, <2>1 DEF Quiet
  <2>3. \A e \in Conns : In(e)' = In(e) /\ LineOf(e)' = LineOf(e)
    BY <1>3, <2>1 DEF In, Writing, LineOf
  <2>4. Held' = Held
    BY <2>3 DEF Held
  <2>5. LineInv' /\ ApartInv'
    BY <2>3 DEF PrivInv, LineInv, ApartInv
  <2>6. ToldInv'
    BY <1>1, <1>2, <1>3, <2>1, <2>2, <2>4 DEF PrivInv, ToldInv
  <2>7. QED
    BY <2>5, <2>6
<1>7. QED
  BY <1>0, <1>1, <1>5, <1>6 DEF Deliver

\* The invariant holds at first ...
LEMMA PrivInvInit == PrivInit => PrivInv
<1> SUFFICES ASSUME PrivInit PROVE PrivInv
  OBVIOUS
<1>1. PrivTypeInv
  BY PrivTypeInit
<1>2. Ids(<< >>) = {} /\ Increasing(<< >>)
  BY DEF Ids, Increasing
<1>3. \A c \in Conns : Writing(c) = {} /\ priv[c] = << >> /\ got[c] = << >> /\ ask[c].at = "rest"
  BY DEF PrivInit, Writing, NoMsg, Quiet
<1>4. \A c \in Conns : In(c) = {}
  BY <1>2, <1>3 DEF In
<1>5. Held = {} /\ LostIds = {} /\ seq = 0 /\ refused = {} /\ echoed = {}
  BY <1>4 DEF Held, LostIds, PrivInit
<1>6. LineInv
  BY <1>2, <1>3 DEF LineInv, LineOf, Before
<1>7. ApartInv
  BY <1>4 DEF ApartInv
<1>8. ToldInv
  <2>1. 1 .. 0 = {}
    OBVIOUS
  <2>2. QED
    BY <1>3, <1>5, <2>1 DEF ToldInv
<1>9. QED
  BY <1>1, <1>6, <1>7, <1>8 DEF PrivInv

\* ... and every step keeps it.
LEMMA PrivInvNext == PrivInv /\ [PrivNext]_privVars => PrivInv'
<1> SUFFICES ASSUME PrivInv, [PrivNext]_privVars PROVE PrivInv'
  OBVIOUS
<1> DEFINE Echoes == \/ echoed' = echoed
                     \/ \E c \in Conns : ask[c].at = "echo" /\ echoed' = echoed \cup {ask[c].id}
           Asks == \A c \in Conns : ask'[c].at = "echo" => ask[c].at = "echo" /\ ask'[c].id = ask[c].id
<1>0. /\ PrivTypeInv' /\ PrivTypeInv /\ LineInv
      /\ ask \in [Conns -> [at : {"rest", "deliver", "echo"}, to : Conns \cup {NoConn}, id : 0 .. seq]]
  BY PrivTypeNext DEF PrivInv, PrivTypeInv, PrivTypeOK
<1>1. ASSUME Conserve, LineInv', Echoes, Asks PROVE PrivInv'
  BY <1>0, <1>1, ConserveTold DEF PrivInv
<1>2. ASSUME UNCHANGED <<priv, writing, got, lost, seq, refused>> PROVE Conserve /\ LineInv'
  BY <1>0, <1>2, StillConserve DEF LineInv
<1>3. ASSUME NEW c \in Conns, Serve(c) \/ Pumping(c) PROVE PrivInv'
  <2>1. Conserve /\ LineInv'
    <3>1. CASE SeeDone(c)
      BY <1>2, <3>1 DEF SeeDone, sendVars
    <3>2. QED
      BY <1>0, <1>3, <3>1, ServeKeeps, TakeKeeps, WriteKeeps DEF Pumping
  <2>2. UNCHANGED <<ask, echoed>>
    BY <1>3 DEF Serve, Ready, ReadEnds, Unregister, Cancel, Gone, Pumping, Take, Write, SeeDone, sendVars
  <2>3. QED
    BY <1>1, <2>1, <2>2
<1>4. ASSUME NEW c \in Conns, Deliver(c) PROVE PrivInv'
  BY <1>0, <1>4, DeliverKeeps DEF PrivInv
<1>5. ASSUME NEW c \in Conns, Echo(c) PROVE PrivInv'
  <2>1. /\ UNCHANGED <<priv, writing, got, lost, seq, refused>> /\ ask' = [ask EXCEPT ![c] = Quiet]
        /\ ask[c].at = "echo" /\ Echoes
    BY <1>5 DEF Echo, queueVars
  <2>2. Asks
    BY <1>0, <2>1 DEF Quiet
  <2>3. QED
    BY <1>1, <1>2, <2>1, <2>2
<1>6. ASSUME NEW c \in Conns, NEW n \in Nicks, Lookup(c, n) PROVE PrivInv'
  <2>1. /\ UNCHANGED <<priv, writing, got, lost, seq, refused, echoed>>
        /\ ask' = [ask EXCEPT ![c] = [at |-> "deliver", to |-> conns[n], id |-> 0]]
    BY <1>6 DEF Lookup, queueVars
  <2>2. Asks
    BY <1>0, <2>1
  <2>3. QED
    BY <1>1, <1>2, <2>1, <2>2
<1>7. CASE UNCHANGED <<priv, writing, got, lost, seq, refused, echoed, ask>>
  BY <1>1, <1>2, <1>7
<1>8. CASE \E c \in Conns : Register(c) \/ SayGoodbye(c)
  BY <1>7, <1>8 DEF Register, SayGoodbye, queueVars, sendVars
<1>9. CASE Snapshot \/ StopConn \/ UNCHANGED privVars
  BY <1>7, <1>9 DEF Snapshot, StopConn, privVars, queueVars, sendVars
<1>10. QED
  BY <1>3, <1>4, <1>5, <1>6, <1>8, <1>9 DEF PrivNext, Asking

\* Every variable keeps its type, and a queue its bound.
THEOREM PrivTypeCorrect == PrivSpec => []PrivTypeOK
<1>1. PrivTypeInv => PrivTypeOK
  BY DEF PrivTypeInv
<1>2. QED
  BY <1>1, PrivTypeInit, PrivTypeNext, PTL DEF PrivSpec

\* What a sender is told of a private message is so (conn.go:340-346): no message is
\* refused and written, or in two places, or gone but with a connection.
THEOREM AnswersTrue == PrivSpec => []AnswersAreTrue
<1>1. PrivInv => AnswersAreTrue
  <2> SUFFICES ASSUME PrivInv PROVE AnswersAreTrue
    OBVIOUS
  <2>1. \A c \in Conns : Placed(c)[1] = Ids(priv[c]) /\ Placed(c)[2] = Writing(c) /\ Placed(c)[3] = Ids(got[c])
    BY DEF Placed, Writing
  <2>2. \A i \in 1 .. 3 : i = 1 \/ i = 2 \/ i = 3
    OBVIOUS
  <2>3. \A c \in Conns : \A i \in 1 .. 3 : Placed(c)[i] \subseteq In(c)
    BY <2>1, <2>2 DEF In
  <2>4. \A c \in Conns : \A x \in In(c) : \E i \in 1 .. 3 : x \in Placed(c)[i]
    BY <2>1 DEF In
  <2>5. Somewhere = Held
    BY <2>3, <2>4 DEF Somewhere, Held
  <2>6. ASSUME NEW c \in Conns PROVE /\ Placed(c)[1] \cap Placed(c)[2] = {}
                                     /\ Placed(c)[1] \cap Placed(c)[3] = {}
                                     /\ Placed(c)[2] \cap Placed(c)[3] = {}
    <3>1. In(c) \subseteq 1 .. seq /\ seq \in Nat
      BY IdsDrawn DEF PrivInv, PrivTypeInv, PrivTypeOK
    <3>2. LineOf(c)
      BY DEF PrivInv, LineInv
    <3>3. \A x \in In(c) : ~(x < x)
      BY <3>1
    <3>4. QED
      BY <2>1, <3>2, <3>3 DEF LineOf, Before, In
  <2>7. ASSUME NEW c \in Conns, NEW d \in Conns, NEW i \in 1 .. 3, NEW j \in 1 .. 3, <<c, i>> # <<d, j>>
        PROVE  Placed(c)[i] \cap Placed(d)[j] = {}
    <3>1. CASE c = d
      <4>1. i # j
        BY <2>7, <3>1
      <4>2. QED
        BY <2>2, <2>6, <3>1, <4>1
    <3>2. CASE c # d
      BY <2>3, <3>2 DEF PrivInv, ApartInv
    <3>3. QED
      BY <3>1, <3>2
  <2>8. QED
    BY <2>5, <2>7 DEF AnswersAreTrue, PrivInv, ToldInv, LostIds
<1>2. QED
  BY <1>1, PrivInvInit, PrivInvNext, PTL DEF PrivSpec

\* A recipient gets the messages of one sender in the order they were sent, across the
\* queue and the pump (conn.go:180).
THEOREM SendersInOrder == PrivSpec => []SendersOrder
<1>1. PrivInv => SendersOrder
  BY DEF PrivInv, LineInv, LineOf, Increasing, SendersOrder
<1>2. QED
  BY <1>1, PrivInvInit, PrivInvNext, PTL DEF PrivSpec
=============================================================================
