---------------------------- MODULE ReplayProofs -----------------------------
(***************************************************************************)
(* One order of a room's messages, and no gap for a joiner, for any        *)
(* speakers, joiners, codecs, windows and channel values; and the filters, *)
(* for texts of any length.                                                *)
(***************************************************************************)
EXTENDS Replay, WellFoundedInduction, TLAPS

\* Zero, for no channel value, is none.
LEMMA NoValueZero == 0 \notin Values
<1>1. \A n : 0 \notin 1 .. n
  OBVIOUS
<1>2. Values = 1 .. Cardinality(Values)
  BY ReplayAssumption
<1> QED BY <1>1, <1>2

-----------------------------------------------------------------------------
(* Sequences *)

Starts(s, t) == Len(s) <= Len(t) /\ \A i \in 1 .. Len(s) : s[i] = t[i]

Ordered(s) == \A i, k \in DOMAIN s : i < k => s[i] < s[k]

\* Starts is IsPrefix.
LEMMA StartsIsPrefix ==
  ASSUME NEW S, NEW s \in Seq(S), NEW t \in Seq(S), Starts(s, t)
  PROVE  IsPrefix(s, t)
BY DEF Starts, IsPrefix

\* What begins a sequence begins a longer one.
LEMMA StartsLonger ==
  ASSUME NEW S, NEW s \in Seq(S), NEW t \in Seq(S), NEW x \in S, Starts(s, t)
  PROVE  Starts(s, Append(t, x))
BY DEF Starts

\* A prefix that lacks the last element only, and is given it, is still a prefix.
LEMMA StartsNext ==
  ASSUME NEW S, NEW s \in Seq(S), NEW t \in Seq(S), Starts(s, t), Len(s) = Len(t) - 1
  PROVE  Starts(Append(s, t[Len(t)]), t)
BY DEF Starts

\* A greater id at the end keeps the order.
LEMMA OrderedLonger ==
  ASSUME NEW s \in Seq(Nat), NEW x \in Nat, Ordered(s), \A i \in DOMAIN s : s[i] < x
  PROVE  Ordered(Append(s, x))
BY DEF Ordered

\* Appending adds one element to the range.
LEMMA RangeAppend ==
  ASSUME NEW s \in Seq(Nat), NEW x \in Nat
  PROVE  \A y : y \in Range(Append(s, x)) <=> y \in Range(s) \/ y = x
<1> DEFINE t == Append(s, x)
<1>1. /\ DOMAIN t = 1 .. Len(s) + 1 /\ DOMAIN s = 1 .. Len(s) /\ Len(s) \in Nat
      /\ t[Len(s) + 1] = x /\ \A i \in 1 .. Len(s) : t[i] = s[i]
  OBVIOUS
<1> HIDE DEF t
<1>2. \A y : y \in Range(t) <=> \E i \in DOMAIN t : t[i] = y
  BY DEF Range
<1>3. \A y : y \in Range(s) <=> \E i \in DOMAIN s : s[i] = y
  BY DEF Range
<1> QED BY <1>1, <1>2, <1>3 DEF t

-----------------------------------------------------------------------------
(* Types *)

\* The window keeps its bound, whatever is appended to History.
LEMMA WindowType ==
  ASSUME NEW w \in Seq(Nat), Len(w) <= Backlog, NEW id \in Nat
  PROVE  Window(w, id) \in Seq(Nat) /\ Len(Window(w, id)) <= Backlog
<1>1. Backlog \in Nat \ {0}
  BY ReplayAssumption
<1>2. CASE Len(w) = Backlog
  <2>1. Tail(w) \in Seq(Nat) /\ Len(Tail(w)) = Len(w) - 1
    BY <1>1, <1>2
  <2> QED BY <1>1, <1>2, <2>1 DEF Window
<1>3. CASE Len(w) # Backlog
  BY <1>1, <1>3 DEF Window
<1> QED BY <1>2, <1>3

\* Whoever is in a room, or sends a message, has a channel value for it.
Placed ==
  /\ \A j \in Joiners : joiner[j] # "out" => member[j] \in Values
  /\ \A s \in Speakers : speaker[s].at # "rest" => speaker[s].ch \in Values

\* Init has the types.
LEMMA TypeInit == Init => TypeOK
<1> SUFFICES ASSUME Init PROVE TypeOK
  OBVIOUS
<1>1. member \in [Speakers \cup Joiners -> Values \cup {0}]
  BY ReplayAssumption DEF Init
<1>2. ring \in [Values -> [Codecs -> Seq(Nat)]] /\ posted \in [Values -> Seq(Nat)]
  BY DEF Init
<1>3. window \in Seq(Nat) /\ Len(window) <= Backlog
  BY ReplayAssumption DEF Init
<1>4. speaker \in [Speakers -> [at : {"rest", "accepted", "append", "fan"},
                                ch : Values \cup {0}, id : Nat, todo : SUBSET Codecs]]
  BY DEF Init, AtRest
<1>5. cursor \in [Joiners -> Nat] /\ backlog \in [Joiners -> Seq(Nat)] /\ live \in [Joiners -> Seq(Nat)]
  BY DEF Init
<1> QED BY <1>1, <1>2, <1>3, <1>4, <1>5, ReplayAssumption DEF Init, TypeOK

\* Entering a room, which may make its channel value, keeps the types.
LEMMA EnterType ==
  ASSUME TypeOK, NEW x \in Speakers \cup Joiners, Enter(x)
  PROVE  /\ channel' \in Values \cup {0} /\ made' \in Values
         /\ member' \in [Speakers \cup Joiners -> Values \cup {0}]
         /\ closed' \in [Values -> BOOLEAN]
<1>1. CASE channel # 0
  <2>1. member' = [member EXCEPT ![x] = channel] /\ channel' = channel /\ made' = made /\ closed' = closed
    BY <1>1 DEF Enter
  <2> QED BY <2>1 DEF TypeOK
<1>2. CASE channel = 0
  <2>1. member' = [member EXCEPT ![x] = made'] /\ channel' = made' /\ made' \in Values /\ closed' = closed
    BY <1>2 DEF Enter
  <2> QED BY <2>1 DEF TypeOK
<1> QED BY <1>1, <1>2

\* A joiner's ring is one of its channel value, a sequence of ids.
LEMMA RingType ==
  ASSUME TypeOK, Placed, NEW j \in Joiners, joiner[j] # "out"
  PROVE  RingOf(j) \in Seq(Nat)
<1>1. CodecOf[j] \in Codecs /\ member[j] \in Values
  BY ReplayAssumption DEF Placed
<1> QED BY <1>1 DEF RingOf, TypeOK

\* Every step keeps the types.
LEMMA TypeNext == TypeOK /\ Placed /\ [Next]_vars => TypeOK'
<1> SUFFICES ASSUME TypeOK, Placed, [Next]_vars PROVE TypeOK'

  OBVIOUS
<1>1. ASSUME NEW s \in Speakers, Accept(s) PROVE TypeOK'
  BY <1>1 DEF Accept, TypeOK, AtRest, roomVars, clientVars
<1>2. ASSUME NEW s \in Speakers, Lock(s) PROVE TypeOK'
  <2>1. seq' \in Nat
    BY <1>2 DEF Lock, TypeOK
  <2>2. sendMu' \in [Values -> Speakers \cup {Nobody}]
    BY <1>2 DEF Lock, TypeOK
  <2>3. speaker' \in [Speakers -> [at : {"rest", "accepted", "append", "fan"},
                                   ch : Values \cup {0}, id : Nat, todo : SUBSET Codecs]]
    <3>1. CASE speaker' = [speaker EXCEPT ![s].at = "append", ![s].id = seq', ![s].todo = Codecs]
      <4> DEFINE n == [speaker[s] EXCEPT !.at = "append", !.id = seq', !.todo = Codecs]
      <4>1. speaker' = [speaker EXCEPT ![s] = n]
        BY <3>1
      <4>2. n \in [at : {"rest", "accepted", "append", "fan"}, ch : Values \cup {0}, id : Nat, todo : SUBSET Codecs]
        BY <2>1 DEF TypeOK
      <4> QED BY <4>1, <4>2 DEF TypeOK
    <3>2. CASE speaker' = [speaker EXCEPT ![s] = AtRest]
      BY <3>2 DEF TypeOK, AtRest
    <3> QED BY <1>2, <3>1, <3>2 DEF Lock
  <2> QED BY <1>2, <2>1, <2>2, <2>3 DEF Lock, TypeOK, roomVars, clientVars
<1>3. ASSUME NEW s \in Speakers, AppendHistory(s) PROVE TypeOK'
  <2>1. speaker[s].id \in Nat
    BY DEF TypeOK
  <2>2. window' \in Seq(Nat) /\ Len(window') <= Backlog
    BY <1>3, <2>1, WindowType DEF AppendHistory, TypeOK
  <2>3. posted' \in [Values -> Seq(Nat)]
    <3>1. \A q \in Seq(Nat) : Append(q, speaker[s].id) \in Seq(Nat)
      BY <2>1
    <3> QED BY <1>3, <3>1 DEF AppendHistory, TypeOK
  <2> QED BY <1>3, <2>2, <2>3 DEF AppendHistory, TypeOK, roomVars, clientVars
<1>4. ASSUME NEW s \in Speakers, NEW c \in Codecs, Broadcast(s, c) PROVE TypeOK'
  <2>1. \A q \in Seq(Nat) : Append(q, speaker[s].id) \in Seq(Nat)
    BY DEF TypeOK
  <2>2. ring' \in [Values -> [Codecs -> Seq(Nat)]]
    BY <1>4, <2>1 DEF Broadcast, TypeOK
  <2> QED BY <1>4, <2>2 DEF Broadcast, TypeOK, roomVars, clientVars
<1>5. ASSUME NEW s \in Speakers, Unlock(s) PROVE TypeOK'
  BY <1>5 DEF Unlock, TypeOK, AtRest, roomVars, clientVars
<1>6. ASSUME NEW s \in Speakers, Rejoin(s) PROVE TypeOK'
  BY <1>6, EnterType DEF Rejoin, TypeOK, clientVars
<1>7. ASSUME NEW s \in Speakers, Removed(s) PROVE TypeOK'
  BY <1>7 DEF Removed, TypeOK, clientVars
<1>8. CASE SweepChannels
  BY <1>8 DEF SweepChannels, TypeOK, clientVars
<1>9. ASSUME NEW j \in Joiners, JoinRoom(j) PROVE TypeOK'
  BY <1>9, EnterType DEF JoinRoom, TypeOK
<1>10. ASSUME NEW j \in Joiners, Subscribe(j) PROVE TypeOK'
  <2>1. RingOf(j) \in Seq(Nat)
    BY <1>10, RingType DEF Subscribe
  <2>2. Len(RingOf(j)) \in Nat
    BY <2>1
  <2> QED BY <1>10, <2>2 DEF Subscribe, TypeOK, roomVars
<1>11. ASSUME NEW j \in Joiners, SendBacklog(j) PROVE TypeOK'
  <2>1. window \in Seq(Nat) /\ << >> \in Seq(Nat)
    BY DEF TypeOK
  <2>2. PICK recent \in {window, << >>} : backlog' = [backlog EXCEPT ![j] = recent]
    BY <1>11 DEF SendBacklog
  <2>3. backlog' \in [Joiners -> Seq(Nat)]
    BY <2>1, <2>2 DEF TypeOK
  <2>4. joiner' \in [Joiners -> {"out", "added", "subscribed", "reading"}]
    BY <1>11 DEF SendBacklog, TypeOK
  <2> QED BY <1>11, <2>3, <2>4 DEF SendBacklog, TypeOK, roomVars
<1>12. ASSUME NEW j \in Joiners, Pump(j) PROVE TypeOK'
  <2>1. RingOf(j) \in Seq(Nat)
    BY <1>12, RingType DEF Pump
  <2>2. cursor' \in [Joiners -> Nat] /\ cursor'[j] \in 1 .. Len(RingOf(j))
    BY <1>12, <2>1 DEF Pump, TypeOK
  <2>3. RingOf(j)[cursor'[j]] \in Nat
    BY <2>1, <2>2
  <2>4. live' \in [Joiners -> Seq(Nat)]
    <3>1. \A q \in Seq(Nat) : Append(q, RingOf(j)[cursor'[j]]) \in Seq(Nat)
      BY <2>3
    <3> QED BY <1>12, <3>1 DEF Pump, TypeOK
  <2> QED BY <1>12, <2>2, <2>4 DEF Pump, TypeOK, roomVars
<1>13. CASE UNCHANGED vars
  BY <1>13 DEF TypeOK, vars, roomVars, clientVars
<1> QED BY <1>1, <1>2, <1>3, <1>4, <1>5, <1>6, <1>7, <1>8, <1>9, <1>10, <1>11, <1>12, <1>13 DEF Next

\* What a step of a speaker does to the speakers.
LEMMA LockStep ==
  ASSUME TypeOK, NEW s \in Speakers, Lock(s)
  PROVE  /\ speaker[s].at = "accepted"
         /\ \A t \in Speakers \ {s} : speaker'[t] = speaker[t]
         /\ \/ speaker'[s].at = "rest" /\ sendMu' = sendMu
            \/ /\ speaker'[s].at = "append" /\ speaker'[s].ch = speaker[s].ch
               /\ speaker'[s].id = seq' /\ speaker'[s].todo = Codecs
               /\ sendMu' = [sendMu EXCEPT ![speaker[s].ch] = s]
<1>1. speaker[s] \in [at : {"rest", "accepted", "append", "fan"}, ch : Values \cup {0}, id : Nat, todo : SUBSET Codecs]
  BY DEF TypeOK
<1>2. CASE /\ speaker' = [speaker EXCEPT ![s].at = "append", ![s].id = seq', ![s].todo = Codecs]
           /\ sendMu' = [sendMu EXCEPT ![speaker[s].ch] = s]
  <2>1. speaker' = [speaker EXCEPT ![s] = [speaker[s] EXCEPT !.at = "append", !.id = seq', !.todo = Codecs]]
    BY <1>2
  <2> QED BY <1>1, <1>2, <2>1 DEF Lock, TypeOK
<1>3. CASE speaker' = [speaker EXCEPT ![s] = AtRest] /\ sendMu' = sendMu
  BY <1>3 DEF Lock, TypeOK, AtRest
<1> QED BY <1>2, <1>3 DEF Lock

\* What appending to History does to the speakers.
LEMMA AppendStep ==
  ASSUME TypeOK, NEW s \in Speakers, AppendHistory(s)
  PROVE  /\ speaker[s].at = "append" /\ speaker'[s].at = "fan"
         /\ \A t \in Speakers \ {s} : speaker'[t] = speaker[t]
         /\ \A t \in Speakers : /\ speaker'[t].ch = speaker[t].ch /\ speaker'[t].id = speaker[t].id
                                 /\ speaker'[t].todo = speaker[t].todo
BY DEF AppendHistory, TypeOK

\* What a broadcast to one ring does to the speakers.
LEMMA BroadcastStep ==
  ASSUME TypeOK, NEW s \in Speakers, NEW c \in Codecs, Broadcast(s, c)
  PROVE  /\ speaker[s].at = "fan" /\ c \in speaker[s].todo /\ speaker'[s].todo = speaker[s].todo \ {c}
         /\ \A t \in Speakers \ {s} : speaker'[t] = speaker[t]
         /\ \A t \in Speakers : /\ speaker'[t].at = speaker[t].at
                                 /\ speaker'[t].ch = speaker[t].ch /\ speaker'[t].id = speaker[t].id
BY DEF Broadcast, TypeOK

\* Nobody speaks, or has joined, at first.
LEMMA PlacedInit == Init => Placed
BY DEF Init, Placed, AtRest

\* Every step leaves whoever speaks or has joined a channel value.
LEMMA PlacedNext == TypeOK /\ Placed /\ [Next]_vars => Placed'
<1> SUFFICES ASSUME TypeOK, Placed, [Next]_vars PROVE Placed'
  OBVIOUS
<1> USE NoValueZero
<1>1. ASSUME NEW s \in Speakers, Accept(s) PROVE Placed'
  <2>1. member[s] \in Values
    BY <1>1 DEF Accept, TypeOK
  <2> QED BY <1>1, <2>1 DEF Accept, AtRest, Placed, TypeOK, roomVars, clientVars
<1>2. ASSUME NEW s \in Speakers, Lock(s) PROVE Placed'
  <2>1. \A t \in Speakers : speaker'[t].at # "rest" => speaker[t].at # "rest" /\ speaker'[t].ch = speaker[t].ch
    BY <1>2, LockStep
  <2>2. joiner' = joiner /\ member' = member
    BY <1>2 DEF Lock, roomVars, clientVars
  <2> QED BY <2>1, <2>2 DEF Placed
<1>3. ASSUME NEW s \in Speakers, AppendHistory(s) \/ \E c \in Codecs : Broadcast(s, c) PROVE Placed'
  <2>1. \A t \in Speakers : speaker'[t].at # "rest" => speaker[t].at # "rest" /\ speaker'[t].ch = speaker[t].ch
    BY <1>3, AppendStep, BroadcastStep
  <2>2. joiner' = joiner /\ member' = member
    BY <1>3 DEF AppendHistory, Broadcast, roomVars, clientVars
  <2> QED BY <2>1, <2>2 DEF Placed
<1>4. ASSUME NEW s \in Speakers, Unlock(s) PROVE Placed'
  BY <1>4 DEF Unlock, AtRest, Placed, TypeOK, roomVars, clientVars
<1>5. ASSUME NEW s \in Speakers, Rejoin(s) \/ Removed(s) PROVE Placed'
  <2>1. \A j \in Joiners : j # s
    BY ReplayAssumption
  <2>2. speaker' = speaker /\ joiner' = joiner /\ \A j \in Joiners : member'[j] = member[j]
    BY <1>5, <2>1 DEF Rejoin, Removed, Enter, TypeOK, clientVars
  <2> QED BY <2>2 DEF Placed
<1>6. CASE SweepChannels
  BY <1>6 DEF SweepChannels, Placed, clientVars
<1>7. ASSUME NEW j \in Joiners, JoinRoom(j) PROVE Placed'
  <2>1. member'[j] \in Values /\ \A i \in Joiners \ {j} : member'[i] = member[i]
    BY <1>7 DEF JoinRoom, Enter, TypeOK
  <2>2. speaker' = speaker /\ \A i \in Joiners \ {j} : joiner'[i] = joiner[i]
    BY <1>7 DEF JoinRoom, TypeOK
  <2> QED BY <2>1, <2>2 DEF Placed
<1>8. ASSUME NEW j \in Joiners, Subscribe(j) \/ SendBacklog(j) \/ Pump(j) PROVE Placed'
  BY <1>8 DEF Subscribe, SendBacklog, Pump, Placed, TypeOK, roomVars
<1>9. CASE UNCHANGED vars
  BY <1>9 DEF vars, roomVars, clientVars, Placed
<1> QED BY <1>1, <1>2, <1>3, <1>4, <1>5, <1>6, <1>7, <1>8, <1>9 DEF Next

\* Every variable keeps its type, and the window of History its bound
\* (internal/history/history.go:36).
THEOREM TypeCorrect == Spec => []TypeOK
<1>1. Spec => [](TypeOK /\ Placed)
  BY TypeInit, TypeNext, PlacedInit, PlacedNext, PTL DEF Spec
<1> QED BY <1>1, PTL

-----------------------------------------------------------------------------
(* One order *)

\* Whoever has drawn an id and not yet unlocked holds the lock of its channel value.
LockInv ==
  \A s \in Speakers : speaker[s].at \in {"append", "fan"} =>
    /\ sendMu[speaker[s].ch] = s
    /\ speaker[s].id \in 1 .. seq
    /\ speaker[s].at = "append" => speaker[s].todo = Codecs

\* Ids are posted in order, and the one being posted is the greatest of its value.
IdInv ==
  /\ \A v \in Values : Ordered(posted[v]) /\ \A i \in DOMAIN posted[v] : posted[v][i] \in 1 .. seq
  /\ \A s \in Speakers : speaker[s].at = "append" =>
       \A i \in DOMAIN posted[speaker[s].ch] : posted[speaker[s].ch][i] < speaker[s].id
  /\ \A s \in Speakers : speaker[s].at = "fan" =>
       LET said == posted[speaker[s].ch]
       IN Len(said) > 0 /\ said[Len(said)] = speaker[s].id

Owed(v, c) == \E s \in Speakers : speaker[s].at = "fan" /\ speaker[s].ch = v /\ c \in speaker[s].todo

\* A ring has what was posted, but for the last message while it is owed that, and from
\* its close on.
RingInv ==
  \A v \in Values, c \in Codecs :
    /\ Starts(ring[v][c], posted[v])
    /\ ~closed[v] => Len(ring[v][c]) = Len(posted[v]) - (IF Owed(v, c) THEN 1 ELSE 0)

\* Nothing is posted at first.
LEMMA OrderInit == Init => LockInv /\ IdInv /\ RingInv
BY DEF Init, AtRest, LockInv, IdInv, RingInv, Owed, Ordered, Starts

\* The room and its joiners touch none of it.
LEMMA OrderSame ==
  ASSUME TypeOK, LockInv, IdInv, RingInv, UNCHANGED <<seq, ring, sendMu, speaker, posted>>,
         \A v \in Values : closed[v] => closed'[v]
  PROVE  (LockInv /\ IdInv /\ RingInv)'
<1>1. LockInv' /\ IdInv'
  BY DEF LockInv, IdInv
<1>2. \A v, c : Owed(v, c)' = Owed(v, c)
  BY DEF Owed
<1> QED BY <1>1, <1>2 DEF RingInv

\* Two that are fanning out are in different channel values.
LEMMA OneHolder ==
  ASSUME TypeOK, LockInv, NEW s \in Speakers, NEW t \in Speakers,
         speaker[s].at \in {"append", "fan"}, speaker[t].at \in {"append", "fan"},
         speaker[s].ch = speaker[t].ch
  PROVE  s = t
BY DEF LockInv

\* Drawing an id under the lock keeps the order.
LEMMA OrderLock ==
  ASSUME TypeOK, Placed, LockInv, IdInv, RingInv, NEW s \in Speakers, Lock(s)
  PROVE  (LockInv /\ IdInv /\ RingInv)'
<1>0. speaker[s].ch \in Values /\ speaker[s].at = "accepted" /\ sendMu[speaker[s].ch] = Nobody
  BY LockStep DEF Lock, Placed
<1>1. /\ seq' = seq + 1 /\ seq \in Nat
      /\ ring' = ring /\ posted' = posted /\ closed' = closed
  BY DEF Lock, TypeOK, roomVars
<1>2. \A t \in Speakers \ {s} : speaker'[t] = speaker[t]
  BY LockStep
<1>3. \A v, c : Owed(v, c)' <=> Owed(v, c)
  BY <1>0, <1>2, LockStep DEF Owed
<1>4. RingInv'
  BY <1>1, <1>3 DEF RingInv
<1>5. LockInv'
  <2> SUFFICES ASSUME NEW t \in Speakers, speaker'[t].at \in {"append", "fan"}
               PROVE  /\ sendMu'[speaker'[t].ch] = t
                      /\ speaker'[t].id \in 1 .. seq'
                      /\ speaker'[t].at = "append" => speaker'[t].todo = Codecs
    BY DEF LockInv
  <2>1. CASE t = s
    BY <1>0, <1>1, <2>1, LockStep DEF TypeOK
  <2>2. CASE t # s
    <3>1. /\ sendMu[speaker[t].ch] = t /\ speaker[t].id \in 1 .. seq
          /\ speaker[t].at = "append" => speaker[t].todo = Codecs
      BY <1>2, <2>2 DEF LockInv
    <3>2. speaker[t].ch \in Values /\ speaker[t].ch # speaker[s].ch
      BY <1>0, <1>2, <2>2, <3>1, ReplayAssumption DEF Placed
    <3>3. sendMu'[speaker[t].ch] = sendMu[speaker[t].ch]
      BY <3>2, LockStep DEF TypeOK
    <3> QED BY <1>1, <1>2, <2>2, <3>1, <3>3
  <2> QED BY <2>1, <2>2
<1>6. IdInv'
  <2>1. \A v \in Values : Ordered(posted'[v]) /\ \A i \in DOMAIN posted'[v] : posted'[v][i] \in 1 .. seq'
    BY <1>1 DEF IdInv
  <2>2. \A t \in Speakers : speaker'[t].at = "append" =>
          \A i \in DOMAIN posted'[speaker'[t].ch] : posted'[speaker'[t].ch][i] < speaker'[t].id
    <3>1. \A i \in DOMAIN posted[speaker[s].ch] : posted[speaker[s].ch][i] < seq'
      BY <1>0, <1>1 DEF IdInv
    <3> QED BY <1>1, <1>2, <3>1, LockStep DEF IdInv
  <2>3. \A t \in Speakers : speaker'[t].at = "fan" => t # s
    BY LockStep
  <2> QED BY <1>1, <1>2, <2>1, <2>2, <2>3 DEF IdInv
<1> QED BY <1>4, <1>5, <1>6

\* Appending the drawn id keeps the order: it is the greatest of its value.
LEMMA OrderAppend ==
  ASSUME TypeOK, Placed, LockInv, IdInv, RingInv, NEW s \in Speakers, AppendHistory(s)
  PROVE  (LockInv /\ IdInv /\ RingInv)'
<1> DEFINE v == speaker[s].ch
           id == speaker[s].id
<1>0. v \in Values /\ id \in 1 .. seq /\ id \in Nat /\ speaker[s].at = "append" /\ speaker[s].todo = Codecs
  BY AppendStep DEF Placed, LockInv, TypeOK
<1>1. /\ seq' = seq /\ ring' = ring /\ sendMu' = sendMu /\ closed' = closed
      /\ posted'[v] = Append(posted[v], id) /\ \A w \in Values \ {v} : posted'[w] = posted[w]
      /\ posted[v] \in Seq(Nat)
  BY <1>0 DEF AppendHistory, TypeOK, roomVars
<1>2. LockInv'
  BY <1>1, AppendStep DEF LockInv
<1>3. \A t \in Speakers \ {s} : speaker[t].at \in {"append", "fan"} => speaker[t].ch \in Values \ {v}
  BY <1>0, OneHolder DEF Placed
<1>4. IdInv'
  <2>1. Ordered(posted'[v]) /\ \A i \in DOMAIN posted'[v] : posted'[v][i] \in 1 .. seq'
    <3>1. Ordered(Append(posted[v], id))
      BY <1>0, <1>1, OrderedLonger DEF IdInv
    <3>2. \A i \in DOMAIN posted[v] : posted[v][i] \in 1 .. seq
      BY <1>0 DEF IdInv
    <3>3. \A i \in DOMAIN Append(posted[v], id) : Append(posted[v], id)[i] \in 1 .. seq
      BY <1>0, <1>1, <3>2
    <3> QED BY <1>1, <3>1, <3>3
  <2>2. Len(posted'[v]) > 0 /\ posted'[v][Len(posted'[v])] = id
    BY <1>0, <1>1
  <2>3. \A w \in Values : Ordered(posted'[w]) /\ \A i \in DOMAIN posted'[w] : posted'[w][i] \in 1 .. seq'
    BY <1>1, <2>1 DEF IdInv
  <2> HIDE DEF v, id
  <2>4. \A t \in Speakers : speaker'[t].at = "append" =>
          \A i \in DOMAIN posted'[speaker'[t].ch] : posted'[speaker'[t].ch][i] < speaker'[t].id
    <3>1. SUFFICES ASSUME NEW t \in Speakers \ {s}, speaker[t].at = "append"
                   PROVE  \A i \in DOMAIN posted'[speaker[t].ch] : posted'[speaker[t].ch][i] < speaker[t].id
      BY AppendStep
    <3>2. posted'[speaker[t].ch] = posted[speaker[t].ch]
      BY <1>1, <1>3, <3>1
    <3> QED BY <3>1, <3>2 DEF IdInv
  <2>5. \A t \in Speakers : speaker'[t].at = "fan" =>
          Len(posted'[speaker'[t].ch]) > 0 /\ posted'[speaker'[t].ch][Len(posted'[speaker'[t].ch])] = speaker'[t].id
    <3>1. CASE TRUE
      <4>1. speaker'[s].ch = v /\ speaker'[s].id = id
        BY AppendStep DEF v, id
      <4>2. \A t \in Speakers \ {s} : speaker'[t].at = "fan" => speaker[t].ch \in Values \ {v}
        BY <1>3, AppendStep
      <4> QED BY <1>1, <2>2, <4>1, <4>2, AppendStep DEF IdInv
    <3> QED BY <3>1
  <2> QED BY <2>3, <2>4, <2>5 DEF IdInv
<1>5. RingInv'
  <2> SUFFICES ASSUME NEW w \in Values, NEW c \in Codecs
               PROVE  /\ Starts(ring'[w][c], posted'[w])
                      /\ ~closed'[w] => Len(ring'[w][c]) = Len(posted'[w]) - (IF Owed(w, c)' THEN 1 ELSE 0)
    BY DEF RingInv
  <2>0. Starts(ring[w][c], posted[w]) /\ (~closed[w] => Len(ring[w][c]) = Len(posted[w]) - (IF Owed(w, c) THEN 1 ELSE 0))
    BY DEF RingInv
  <2>1. ring[w][c] \in Seq(Nat) /\ posted[w] \in Seq(Nat)
    BY DEF TypeOK
  <2>2. CASE w = v
    <3>1. ~Owed(w, c) /\ Owed(w, c)'
      BY <1>0, <1>3, <2>2, AppendStep DEF Owed
    <3> HIDE DEF v, id
    <3>2. posted'[w] = Append(posted[w], id) /\ ring'[w][c] = ring[w][c] /\ closed'[w] = closed[w]
      BY <1>1, <2>2
    <3>3. Starts(ring[w][c], posted'[w])
      BY <1>0, <2>0, <2>1, <3>2, StartsLonger
    <3>4. Len(posted'[w]) = Len(posted[w]) + 1
      BY <1>0, <2>1, <3>2
    <3>5. ~closed[w] => Len(ring[w][c]) = Len(posted[w])
      BY <2>0, <2>1, <3>1
    <3> QED BY <2>1, <3>1, <3>2, <3>3, <3>4, <3>5
  <2>3. CASE w # v
    <3>1. Owed(w, c)' <=> Owed(w, c)
      BY <1>0, <2>3, AppendStep DEF Owed
    <3> HIDE DEF v, id
    <3>2. posted'[w] = posted[w]
      BY <1>1, <2>3
    <3> QED BY <1>1, <2>0, <3>1, <3>2
  <2> QED BY <2>2, <2>3
<1> QED BY <1>2, <1>4, <1>5

\* A broadcast gives a ring the message it was owed.
LEMMA OrderBroadcast ==
  ASSUME TypeOK, Placed, LockInv, IdInv, RingInv, NEW s \in Speakers, NEW c \in Codecs, Broadcast(s, c)
  PROVE  (LockInv /\ IdInv /\ RingInv)'
<1> DEFINE v == speaker[s].ch
           id == speaker[s].id
<1>0. v \in Values /\ id \in Nat /\ Owed(v, c)
  BY BroadcastStep DEF Placed, TypeOK, Owed
<1>1. seq' = seq /\ sendMu' = sendMu /\ closed' = closed /\ posted' = posted
  BY DEF Broadcast, roomVars
<1>2. LockInv' /\ IdInv'
  <2>1. LockInv'
    <3>1. \A t \in Speakers : speaker'[t].at = "append" => speaker'[t].todo = speaker[t].todo
      BY BroadcastStep
    <3> QED BY <1>1, <3>1, BroadcastStep DEF LockInv
  <2>2. IdInv'
    <3>1. \A t \in Speakers : /\ speaker'[t].at = speaker[t].at /\ speaker'[t].ch = speaker[t].ch
                              /\ speaker'[t].id = speaker[t].id
      BY BroadcastStep
    <3> QED BY <1>1, <3>1 DEF IdInv
  <2> QED BY <2>1, <2>2
<1>3. RingInv'
  <2> SUFFICES ASSUME NEW w \in Values, NEW d \in Codecs
               PROVE  /\ Starts(ring'[w][d], posted[w])
                      /\ ~closed[w] => Len(ring'[w][d]) = Len(posted[w]) - (IF Owed(w, d)' THEN 1 ELSE 0)
    BY <1>1 DEF RingInv
  <2>0. Starts(ring[w][d], posted[w]) /\ (~closed[w] => Len(ring[w][d]) = Len(posted[w]) - (IF Owed(w, d) THEN 1 ELSE 0))
    BY DEF RingInv
  <2>1. ring[w][d] \in Seq(Nat) /\ posted[w] \in Seq(Nat)
    BY DEF TypeOK
  <2>2. CASE w = v /\ d = c
    <3>1. ~Owed(w, d)'
      <4>1. \A t \in Speakers \ {s} : ~(speaker[t].at = "fan" /\ speaker[t].ch = v)
        BY OneHolder, BroadcastStep
      <4> QED BY <2>2, <4>1, BroadcastStep DEF Owed
    <3>2. CASE closed[v]
      <4>1. ring' = ring
        BY <3>2 DEF Broadcast
      <4> QED BY <2>2, <3>2, <4>1 DEF RingInv
    <3>3. CASE ~closed[v]
      <4>1. ring'[v][c] = Append(ring[v][c], id)
        BY <1>0, <3>3 DEF Broadcast, TypeOK
      <4>2. Len(ring[v][c]) = Len(posted[v]) - 1 /\ Starts(ring[v][c], posted[v])
        BY <1>0, <3>3 DEF RingInv
      <4>3. posted[v][Len(posted[v])] = id
        BY BroadcastStep DEF IdInv
      <4>4. Starts(ring'[v][c], posted[v])
        BY <2>1, <2>2, <4>1, <4>2, <4>3, StartsNext
      <4>5. Len(ring'[v][c]) = Len(posted[v])
        BY <2>1, <2>2, <4>1, <4>2
      <4> QED BY <2>1, <2>2, <3>1, <4>4, <4>5
    <3> QED BY <3>2, <3>3
  <2>3. CASE ~(w = v /\ d = c)
    <3>1. ring'[w][d] = ring[w][d]
      BY <1>0, <2>3 DEF Broadcast, TypeOK
    <3>2. Owed(w, d)' <=> Owed(w, d)
      BY <2>3, BroadcastStep DEF Owed
    <3> QED BY <2>0, <3>1, <3>2
  <2> QED BY <2>2, <2>3
<1> QED BY <1>2, <1>3

\* Every step keeps the lock, the ids and the rings in order.
LEMMA OrderNext == TypeOK /\ Placed /\ LockInv /\ IdInv /\ RingInv /\ [Next]_vars => (LockInv /\ IdInv /\ RingInv)'
<1> SUFFICES ASSUME TypeOK, Placed, LockInv, IdInv, RingInv, [Next]_vars PROVE (LockInv /\ IdInv /\ RingInv)'
  OBVIOUS
<1>1. ASSUME NEW s \in Speakers, Accept(s) PROVE (LockInv /\ IdInv /\ RingInv)'
  <2>1. /\ seq' = seq /\ ring' = ring /\ sendMu' = sendMu /\ posted' = posted /\ closed' = closed
        /\ speaker[s].at = "rest" /\ speaker'[s].at = "accepted"
        /\ \A t \in Speakers \ {s} : speaker'[t] = speaker[t]
    BY <1>1 DEF Accept, AtRest, TypeOK, roomVars
  <2>2. \A v, c : Owed(v, c)' <=> Owed(v, c)
    BY <2>1 DEF Owed
  <2>3. LockInv' /\ IdInv'
    <3>1. \A t \in Speakers : speaker'[t].at \in {"append", "fan"} => speaker'[t] = speaker[t]
      BY <2>1
    <3>2. LockInv'
      BY <2>1, <3>1 DEF LockInv
    <3>3. IdInv'
      BY <2>1, <3>1 DEF IdInv
    <3> QED BY <3>2, <3>3
  <2>4. RingInv'
    BY <2>1, <2>2 DEF RingInv
  <2> QED BY <2>3, <2>4
<1>2. ASSUME NEW s \in Speakers, Unlock(s) PROVE (LockInv /\ IdInv /\ RingInv)'
  <2>1. /\ seq' = seq /\ ring' = ring /\ posted' = posted /\ closed' = closed
        /\ speaker[s].at = "fan" /\ speaker[s].todo = {} /\ speaker'[s].at = "rest"
        /\ \A t \in Speakers \ {s} : speaker'[t] = speaker[t]
        /\ sendMu' = [sendMu EXCEPT ![speaker[s].ch] = Nobody]
    BY <1>2 DEF Unlock, AtRest, TypeOK, roomVars
  <2>2. \A v, c : Owed(v, c)' <=> Owed(v, c)
    BY <2>1 DEF Owed
  <2>3. \A t \in Speakers : speaker'[t].at \in {"append", "fan"} => t # s /\ sendMu'[speaker[t].ch] = sendMu[speaker[t].ch]
    BY <2>1, OneHolder DEF TypeOK, Placed
  <2>4. LockInv' /\ IdInv'
    <3>1. \A t \in Speakers : speaker'[t].at \in {"append", "fan"} => speaker'[t] = speaker[t]
      BY <2>1
    <3>2. LockInv'
      BY <2>1, <2>3, <3>1 DEF LockInv
    <3>3. IdInv'
      BY <2>1, <3>1 DEF IdInv
    <3> QED BY <3>2, <3>3
  <2>5. RingInv'
    BY <2>1, <2>2 DEF RingInv
  <2> QED BY <2>4, <2>5
<1>3. ASSUME NEW s \in Speakers, Rejoin(s) \/ Removed(s) PROVE (LockInv /\ IdInv /\ RingInv)'
  BY <1>3, OrderSame DEF Rejoin, Removed, Enter
<1>4. CASE SweepChannels
  BY <1>4, OrderSame DEF SweepChannels, TypeOK
<1>5. ASSUME NEW j \in Joiners, JoinRoom(j) \/ Subscribe(j) \/ SendBacklog(j) \/ Pump(j)
      PROVE  (LockInv /\ IdInv /\ RingInv)'
  BY <1>5, OrderSame DEF JoinRoom, Enter, Subscribe, SendBacklog, Pump, roomVars
<1>6. CASE UNCHANGED vars
  BY <1>6, OrderSame DEF vars, roomVars
<1> QED BY <1>1, <1>2, <1>3, <1>4, <1>5, <1>6, OrderLock, OrderAppend, OrderBroadcast DEF Next

\* The ids of a room are drawn, appended to History and given to every codec's ring in one
\* order (channel.go:19-21, init.go:172).
THEOREM RoomHasOneOrder == Spec => []OneOrder
<1>1. Spec => [](TypeOK /\ Placed /\ LockInv /\ IdInv /\ RingInv)
  BY TypeInit, TypeNext, PlacedInit, PlacedNext, OrderInit, OrderNext, PTL DEF Spec
<1>2. TypeOK /\ IdInv /\ RingInv => OneOrder
  <2> SUFFICES ASSUME TypeOK, IdInv, RingInv PROVE OneOrder
    OBVIOUS
  <2>1. \A v \in Values, c \in Codecs : IsPrefix(ring[v][c], posted[v])
    <3> TAKE v \in Values, c \in Codecs
    <3>1. ring[v][c] \in Seq(Nat) /\ posted[v] \in Seq(Nat) /\ Starts(ring[v][c], posted[v])
      BY DEF TypeOK, RingInv
    <3> QED BY <3>1, StartsIsPrefix
  <2> QED BY <2>1 DEF OneOrder, IdInv, Ordered
<1> QED BY <1>1, <1>2, PTL

-----------------------------------------------------------------------------
(* No gap: what a window holds of a room *)

\* w holds the end of said, from some message on.
HoldsEnd(w, said) ==
  \E k \in 1 .. Len(said) + 1 : \A i \in 1 .. Len(said) : said[i] \in Range(w) <=> k <= i

\* What w holds of said is in said's order.
InOrder(w, said) ==
  \A i, k \in 1 .. Len(w) : i < k /\ w[i] \in Range(said) /\ w[k] \in Range(said) => w[i] < w[k]

\* The range of a sequence, by its indices.
LEMMA RangeSeq ==
  ASSUME NEW s \in Seq(Nat), NEW x
  PROVE  x \in Range(s) <=> \E i \in 1 .. Len(s) : s[i] = x
BY DEF Range

\* The tail of a sequence, by its indices.
LEMMA TailSeq ==
  ASSUME NEW s \in Seq(Nat), Len(s) > 0
  PROVE  /\ Tail(s) \in Seq(Nat) /\ Len(Tail(s)) = Len(s) - 1
         /\ \A i \in 1 .. Len(s) - 1 : Tail(s)[i] = s[i + 1]
         /\ \A x : x \in Range(s) <=> x = s[1] \/ x \in Range(Tail(s))
<1>1. /\ Tail(s) \in Seq(Nat) /\ Len(Tail(s)) = Len(s) - 1
      /\ \A i \in 1 .. Len(s) - 1 : Tail(s)[i] = s[i + 1]
  OBVIOUS
<1>2. ASSUME NEW x PROVE x \in Range(s) <=> x = s[1] \/ x \in Range(Tail(s))
  <2>1. ASSUME NEW i \in 1 .. Len(s), i # 1 PROVE i - 1 \in 1 .. Len(s) - 1 /\ s[i] = Tail(s)[i - 1]
    BY <1>1, <2>1
  <2>2. ASSUME NEW i \in 1 .. Len(s) - 1 PROVE i + 1 \in 1 .. Len(s) /\ s[i + 1] = Tail(s)[i]
    BY <1>1
  <2>3. 1 \in 1 .. Len(s)
    OBVIOUS
  <2>4. x \in Range(s) <=> \E i \in 1 .. Len(s) : s[i] = x
    BY RangeSeq
  <2>5. x \in Range(Tail(s)) <=> \E i \in 1 .. Len(s) - 1 : Tail(s)[i] = x
    BY <1>1, RangeSeq
  <2> QED BY <2>1, <2>2, <2>3, <2>4, <2>5
<1> QED BY <1>1, <1>2

\* A window that loses its oldest still holds the end of what a value posted.
LEMMA TailKeeps ==
  ASSUME NEW w \in Seq(Nat), Len(w) > 0, NEW said \in Seq(Nat), Ordered(said),
         HoldsEnd(w, said), InOrder(w, said)
  PROVE  HoldsEnd(Tail(w), said) /\ InOrder(Tail(w), said)
<1>1. InOrder(Tail(w), said)
  <2>1. \A i \in 1 .. Len(w) - 1 : i + 1 \in 1 .. Len(w) /\ Tail(w)[i] = w[i + 1]
    BY TailSeq
  <2>2. SUFFICES ASSUME NEW i \in 1 .. Len(w) - 1, NEW k \in 1 .. Len(w) - 1, i < k,
                        w[i + 1] \in Range(said), w[k + 1] \in Range(said)
                 PROVE  w[i + 1] < w[k + 1]
    BY <2>1, TailSeq DEF InOrder
  <2> QED BY <2>1, <2>2 DEF InOrder
<1>2. HoldsEnd(Tail(w), said)
  <2>1. PICK k \in 1 .. Len(said) + 1 : \A i \in 1 .. Len(said) : said[i] \in Range(w) <=> k <= i
    BY DEF HoldsEnd
  <2>2. CASE w[1] \notin Range(said)
    <3>1. \A i \in 1 .. Len(said) : said[i] # w[1]
      BY <2>2, RangeSeq
    <3> QED BY <2>1, <3>1, TailSeq DEF HoldsEnd
  <2>3. CASE w[1] \in Range(said)
    <3>1. \A i, m \in 1 .. Len(said) : i < m => said[i] < said[m]
      BY DEF Ordered
    <3>2. \A i \in 1 .. Len(said) : said[i] \in Nat /\ said[i] \in Range(said)
      BY RangeSeq
    <3>3. PICK h \in 1 .. Len(said) : said[h] = w[1]
      BY <2>3, RangeSeq
    <3>4. k <= h
      BY <2>1, <3>3, TailSeq
    <3>5. \A i \in 1 .. Len(said) : said[i] \in Range(Tail(w)) => w[1] < said[i]
      <4>1. SUFFICES ASSUME NEW i \in 1 .. Len(said), said[i] \in Range(Tail(w)) PROVE w[1] < said[i]
        OBVIOUS
      <4>2. PICK m \in 1 .. Len(w) - 1 : Tail(w)[m] = said[i]
        <5>1. Tail(w) \in Seq(Nat) /\ Len(Tail(w)) = Len(w) - 1
          BY TailSeq
        <5> QED BY <4>1, <5>1, RangeSeq
      <4>3. m + 1 \in 1 .. Len(w) /\ 1 \in 1 .. Len(w) /\ 1 < m + 1 /\ w[m + 1] = said[i]
        BY <4>2, TailSeq
      <4> QED BY <2>3, <3>2, <4>3 DEF InOrder
    <3>6. h = k
      <4>1. k \in 1 .. Len(said) /\ (k = h \/ said[k] < said[h])
        BY <3>1, <3>4
      <4>2. said[k] = w[1] \/ w[1] < said[k]
        BY <2>1, <3>5, <4>1, TailSeq
      <4> QED BY <3>2, <3>3, <4>1, <4>2
    <3>7. \A i \in 1 .. Len(said) : said[i] \in Range(Tail(w)) <=> k + 1 <= i
      <4>1. SUFFICES ASSUME NEW i \in 1 .. Len(said) PROVE said[i] \in Range(Tail(w)) <=> k + 1 <= i
        OBVIOUS
      <4>2. CASE i > k
        BY <2>1, <3>1, <3>2, <3>3, <3>6, <4>2, TailSeq
      <4>3. CASE i <= k
        <5>1. i = k \/ said[i] < said[k]
          BY <3>1, <3>6, <4>3
        <5> QED BY <3>2, <3>3, <3>5, <3>6, <4>3, <5>1
      <4> QED BY <4>2, <4>3
    <3>8. k + 1 \in 1 .. Len(said) + 1
      BY <3>6
    <3> QED BY <3>7, <3>8 DEF HoldsEnd
  <2> QED BY <2>2, <2>3
<1> QED BY <1>1, <1>2

\* Another value's message in the window leaves a value's end where it was.
LEMMA AppendElse ==
  ASSUME NEW w \in Seq(Nat), NEW said \in Seq(Nat), NEW x \in Nat, x \notin Range(said),
         HoldsEnd(w, said), InOrder(w, said)
  PROVE  HoldsEnd(Append(w, x), said) /\ InOrder(Append(w, x), said)
<1>1. HoldsEnd(Append(w, x), said)
  <2>1. \A i \in 1 .. Len(said) : said[i] # x
    BY RangeSeq
  <2>2. \A i \in 1 .. Len(said) : said[i] \in Range(Append(w, x)) <=> said[i] \in Range(w)
    BY <2>1, RangeAppend
  <2> QED BY <2>2 DEF HoldsEnd
<1>2. InOrder(Append(w, x), said)
  <2>1. /\ Len(Append(w, x)) = Len(w) + 1 /\ Append(w, x)[Len(w) + 1] = x
        /\ \A i \in 1 .. Len(w) : Append(w, x)[i] = w[i]
    OBVIOUS
  <2>2. \A k \in 1 .. Len(w) + 1 : Append(w, x)[k] \in Range(said) => k \in 1 .. Len(w)
    <3>1. \A k \in 1 .. Len(w) + 1 : k \in 1 .. Len(w) \/ k = Len(w) + 1
      OBVIOUS
    <3> QED BY <2>1, <3>1
  <2> QED BY <2>1, <2>2 DEF InOrder
<1> QED BY <1>1, <1>2

\* A value's own message is its new end, at the end of the window.
LEMMA AppendHere ==
  ASSUME NEW w \in Seq(Nat), NEW said \in Seq(Nat), NEW x \in Nat, x \notin Range(w),
         \A i \in 1 .. Len(said) : said[i] < x, HoldsEnd(w, said), InOrder(w, said)
  PROVE  HoldsEnd(Append(w, x), Append(said, x)) /\ InOrder(Append(w, x), Append(said, x))
<1>0. /\ Len(Append(w, x)) = Len(w) + 1 /\ Append(w, x)[Len(w) + 1] = x
      /\ \A i \in 1 .. Len(w) : Append(w, x)[i] = w[i]
      /\ Len(Append(said, x)) = Len(said) + 1 /\ Append(said, x)[Len(said) + 1] = x
      /\ \A i \in 1 .. Len(said) : Append(said, x)[i] = said[i]
  OBVIOUS
<1>1. HoldsEnd(Append(w, x), Append(said, x))
  <2>1. PICK k \in 1 .. Len(said) + 1 : \A i \in 1 .. Len(said) : said[i] \in Range(w) <=> k <= i
    BY DEF HoldsEnd
  <2>2. \A i \in 1 .. Len(said) : said[i] # x /\ (said[i] \in Range(Append(w, x)) <=> k <= i)
    <3>1. \A i \in 1 .. Len(said) : said[i] # x
      OBVIOUS
    <3> QED BY <2>1, <3>1, RangeAppend
  <2>3. x \in Range(Append(w, x))
    BY RangeAppend
  <2>4. k \in 1 .. Len(Append(said, x)) + 1
    BY <1>0
  <2>5. \A i \in 1 .. Len(Append(said, x)) : Append(said, x)[i] \in Range(Append(w, x)) <=> k <= i
    BY <1>0, <2>2, <2>3
  <2> QED BY <2>4, <2>5 DEF HoldsEnd
<1>2. InOrder(Append(w, x), Append(said, x))
  <2>1. \A i \in 1 .. Len(w) : w[i] # x /\ w[i] \in Nat
    BY RangeSeq
  <2>2. \A y : y \in Range(Append(said, x)) => y = x \/ (y \in Range(said) /\ y < x)
    <3>1. \A y : y \in Range(said) => y < x
      BY RangeSeq
    <3> QED BY <3>1, RangeAppend
  <2> QED BY <1>0, <2>1, <2>2 DEF InOrder
<1> QED BY <1>1, <1>2

-----------------------------------------------------------------------------
(* No gap: the invariant *)

\* Whoever is in a room is in one that is not closed.
RoomInv ==
  /\ \A v \in Values : closed[v] => v <= made
  /\ channel <= made /\ (channel # 0 => ~closed[channel])
  /\ \A x \in Speakers \cup Joiners : member[x] # 0 => ~closed[member[x]]

\* An id is posted once, in one channel value.
OnceInv ==
  /\ \A v, w \in Values : v # w => \A i \in DOMAIN posted[v] : posted[v][i] \notin Range(posted[w])
  /\ \A s \in Speakers : speaker[s].at = "append" =>
       /\ \A v \in Values : speaker[s].id \notin Range(posted[v])
       /\ \A t \in Speakers \ {s} : speaker[t].at = "append" => speaker[t].id # speaker[s].id

Posted(x) == \E v \in Values : x \in Range(posted[v])

\* The window holds the end of what each channel value posted, in order.
EndInv ==
  /\ \A x \in Range(window) : Posted(x)
  /\ \A v \in Values : HoldsEnd(window, posted[v]) /\ InOrder(window, posted[v])

\* The backlog held the messages from k to n of the joiner's room; its ring was read from
\* c on, which is no later than n, and what the backlog did not have is live.
Seen(j, k, n, c) ==
  LET said == posted[member[j]]
  IN /\ k \in 1 .. n + 1 /\ c \in 0 .. n /\ n \in 0 .. Len(said) /\ c <= cursor[j]
     /\ \A i \in 1 .. Len(said) : said[i] \in Range(backlog[j]) <=> i \in k .. n
     /\ \A i \in 1 .. Len(said) : said[i] \in Range(live[j]) <=> i \in c + 1 .. cursor[j] /\ i \notin k .. n

SeenBy(j) ==
  /\ \A x : x \in Range(backlog[j]) \/ x \in Range(live[j]) => Posted(x)
  /\ joiner[j] # "reading" => live[j] = << >>
  /\ joiner[j] \in {"subscribed", "reading"} => cursor[j] <= Len(RingOf(j))
  /\ joiner[j] = "reading" => \E k, n, c \in Nat : Seen(j, k, n, c)

SeenInv == \A j \in Joiners : SeenBy(j)

\* Nothing is in the empty sequence.
LEMMA EmptyRange == \A x : x \notin Range(<< >>)
<1>1. << >> \in Seq(Nat) /\ \A i : i \notin 1 .. Len(<< >>)
  OBVIOUS
<1> QED BY <1>1, RangeSeq

\* Nobody has seen anything at first.
LEMMA GapInit == Init => RoomInv /\ OnceInv /\ EndInv /\ SeenInv
<1> SUFFICES ASSUME Init PROVE RoomInv /\ OnceInv /\ EndInv /\ SeenInv
  OBVIOUS
<1>1. RoomInv
  <2>1. 1 \in Values
    BY ReplayAssumption
  <2> QED BY <2>1, NoValueZero DEF Init, RoomInv
<1>2. OnceInv
  BY EmptyRange DEF Init, OnceInv, AtRest
<1>3. EndInv
  BY EmptyRange DEF Init, EndInv, HoldsEnd, InOrder
<1>4. SeenInv
  BY EmptyRange DEF Init, SeenInv, SeenBy
<1> QED BY <1>1, <1>2, <1>3, <1>4

\* Every step keeps everybody out of closed rooms.
LEMMA RoomNext == TypeOK /\ RoomInv /\ [Next]_vars => RoomInv'
<1> SUFFICES ASSUME TypeOK, RoomInv, [Next]_vars PROVE RoomInv'
  OBVIOUS
<1> USE NoValueZero
<1>0. Values \subseteq Int
  <2>1. \A n : 1 .. n \subseteq Int
    OBVIOUS
  <2> QED BY <2>1, ReplayAssumption
<1>1. ASSUME NEW x \in Speakers \cup Joiners, Enter(x) PROVE RoomInv'
  <2>1. CASE channel # 0
    <3>1. member' = [member EXCEPT ![x] = channel] /\ channel' = channel /\ made' = made /\ closed' = closed
      BY <1>1, <2>1 DEF Enter
    <3> QED BY <2>1, <3>1 DEF RoomInv, TypeOK
  <2>2. CASE channel = 0
    <3>1. /\ member' = [member EXCEPT ![x] = made'] /\ channel' = made' /\ made' = made + 1 /\ made' \in Values
          /\ closed' = closed
      BY <1>1, <2>2 DEF Enter
    <3>2. made \in Int /\ ~closed[made']
      BY <1>0, <3>1 DEF RoomInv, TypeOK
    <3>3. \A v \in Values : closed'[v] => v <= made'
      BY <1>0, <3>1, <3>2 DEF RoomInv
    <3> QED BY <1>0, <3>1, <3>2, <3>3 DEF RoomInv, TypeOK
  <2> QED BY <2>1, <2>2
<1>2. CASE UNCHANGED roomVars
  BY <1>2 DEF RoomInv, roomVars
<1>3. ASSUME NEW s \in Speakers, Removed(s) PROVE RoomInv'
  BY <1>3 DEF Removed, RoomInv, TypeOK
<1>4. CASE SweepChannels
  <2>1. /\ channel \in Values /\ closed' = [closed EXCEPT ![channel] = TRUE] /\ channel' = 0 /\ made' = made
        /\ member' = member /\ \A x \in Speakers \cup Joiners : member[x] # channel
    BY <1>4 DEF SweepChannels, TypeOK
  <2>2. 0 <= made'
    <3>1. \A n : \A m \in 1 .. n : 0 <= m
      OBVIOUS
    <3> QED BY <2>1, <3>1, ReplayAssumption DEF TypeOK
  <2> QED BY <2>1, <2>2 DEF RoomInv, TypeOK
<1>5. ASSUME NEW s \in Speakers,
             Accept(s) \/ Lock(s) \/ AppendHistory(s) \/ (\E c \in Codecs : Broadcast(s, c)) \/ Unlock(s)
      PROVE  RoomInv'
  BY <1>2, <1>5 DEF Accept, Lock, AppendHistory, Broadcast, Unlock
<1>6. ASSUME NEW s \in Speakers, Rejoin(s) PROVE RoomInv'
  BY <1>1, <1>6 DEF Rejoin
<1>7. ASSUME NEW j \in Joiners, JoinRoom(j) \/ Subscribe(j) \/ SendBacklog(j) \/ Pump(j) PROVE RoomInv'
  BY <1>1, <1>2, <1>7 DEF JoinRoom, Subscribe, SendBacklog, Pump
<1>8. CASE UNCHANGED vars
  BY <1>2, <1>8 DEF vars
<1> QED BY <1>3, <1>4, <1>5, <1>6, <1>7, <1>8 DEF Next

\* What an append does to what was posted.
LEMMA PostedStep ==
  ASSUME TypeOK, Placed, LockInv, NEW s \in Speakers, AppendHistory(s)
  PROVE  /\ speaker[s].ch \in Values /\ speaker[s].id \in Nat
         /\ posted'[speaker[s].ch] = Append(posted[speaker[s].ch], speaker[s].id)
         /\ \A w \in Values \ {speaker[s].ch} : posted'[w] = posted[w]
         /\ \A w \in Values : \A x : x \in Range(posted'[w]) <=>
              x \in Range(posted[w]) \/ (w = speaker[s].ch /\ x = speaker[s].id)
         /\ \A x : Posted(x)' <=> Posted(x) \/ x = speaker[s].id
<1> DEFINE v == speaker[s].ch
           id == speaker[s].id
<1>1. v \in Values /\ id \in Nat
  BY AppendStep DEF Placed, TypeOK
<1>2. posted'[v] = Append(posted[v], id) /\ \A w \in Values \ {v} : posted'[w] = posted[w]
  BY <1>1 DEF AppendHistory, TypeOK
<1>3. \A w \in Values : posted[w] \in Seq(Nat)
  BY DEF TypeOK
<1>4. ASSUME NEW w \in Values, NEW x PROVE x \in Range(posted'[w]) <=> x \in Range(posted[w]) \/ (w = v /\ x = id)
  <2>1. CASE w = v
    <3>1. posted[w] \in Seq(Nat) /\ posted'[w] = Append(posted[w], id) /\ id \in Nat
      BY <1>1, <1>2, <1>3, <2>1
    <3> HIDE DEF v, id
    <3>2. x \in Range(Append(posted[w], id)) <=> x \in Range(posted[w]) \/ x = id
      BY <3>1, RangeAppend
    <3> QED BY <2>1, <3>1, <3>2
  <2>2. CASE w # v
    BY <1>2, <2>2
  <2> QED BY <2>1, <2>2
<1>5. ASSUME NEW x PROVE Posted(x)' <=> Posted(x) \/ x = id
  BY <1>1, <1>4 DEF Posted
<1> QED BY <1>1, <1>2, <1>4, <1>5

\* Steps that post nothing keep ids posted once.
LEMMA OnceSame ==
  ASSUME OnceInv, posted' = posted,
         \A s \in Speakers : speaker'[s].at = "append" => speaker[s].at = "append" /\ speaker'[s].id = speaker[s].id
  PROVE  OnceInv'
BY DEF OnceInv

\* Every step keeps ids posted once.
LEMMA OnceNext == TypeOK /\ Placed /\ LockInv /\ IdInv /\ OnceInv /\ [Next]_vars => OnceInv'
<1> SUFFICES ASSUME TypeOK, Placed, LockInv, IdInv, OnceInv, [Next]_vars PROVE OnceInv'
  OBVIOUS
<1>1. ASSUME NEW s \in Speakers, Lock(s) PROVE OnceInv'
  <2>1. posted' = posted /\ seq' = seq + 1 /\ seq \in Nat
    BY <1>1 DEF Lock, TypeOK
  <2>2. \A v \in Values : seq' \notin Range(posted[v])
    <3>1. \A v \in Values : \A i \in 1 .. Len(posted[v]) : posted[v][i] \in 1 .. seq /\ posted[v] \in Seq(Nat)
      BY DEF TypeOK, IdInv
    <3>2. \A v \in Values : \A i \in 1 .. Len(posted[v]) : posted[v][i] # seq'
      BY <2>1, <3>1
    <3> QED BY <3>2, RangeSeq DEF TypeOK
  <2>3. \A t \in Speakers \ {s} : speaker'[t] = speaker[t]
    BY <1>1, LockStep
  <2>4. \A t \in Speakers : speaker[t].at = "append" => speaker[t].id # seq'
    BY <2>1 DEF LockInv
  <2>5. speaker'[s].at = "append" => speaker'[s].id = seq'
    BY <1>1, LockStep
  <2>6. \A v, w \in Values : v # w => \A i \in DOMAIN posted[v] : posted[v][i] \notin Range(posted[w])
    BY DEF OnceInv
  <2>7. ASSUME NEW t \in Speakers, speaker'[t].at = "append"
        PROVE  /\ \A v \in Values : speaker'[t].id \notin Range(posted[v])
               /\ \A u \in Speakers \ {t} : speaker'[u].at = "append" => speaker'[u].id # speaker'[t].id
    BY <2>2, <2>3, <2>4, <2>5, <2>7 DEF OnceInv
  <2> QED BY <2>1, <2>6, <2>7 DEF OnceInv
<1>2. ASSUME NEW s \in Speakers, AppendHistory(s) PROVE OnceInv'
  <2>1. speaker[s].at = "append" /\ speaker'[s].at = "fan" /\ \A t \in Speakers \ {s} : speaker'[t] = speaker[t]
    BY <1>2, AppendStep
  <2>2. ASSUME NEW v \in Values, NEW w \in Values, v # w, NEW x PROVE ~(x \in Range(posted'[v]) /\ x \in Range(posted'[w]))
    <3>1. \A y : ~(y \in Range(posted[v]) /\ y \in Range(posted[w]))
      <4>1. \A i \in 1 .. Len(posted[v]) : posted[v][i] \notin Range(posted[w])
        BY <2>2 DEF OnceInv, TypeOK
      <4>2. \A y : y \in Range(posted[v]) <=> \E i \in 1 .. Len(posted[v]) : posted[v][i] = y
        BY RangeSeq DEF TypeOK
      <4> QED BY <4>1, <4>2
    <3>2. \A u \in Values : speaker[s].id \notin Range(posted[u])
      BY <2>1 DEF OnceInv
    <3> QED BY <1>2, <2>2, <3>1, <3>2, PostedStep
  <2>3. \A v, w \in Values : v # w => \A i \in DOMAIN posted'[v] : posted'[v][i] \notin Range(posted'[w])
    <3>1. \A v \in Values : posted'[v] \in Seq(Nat)
      <4>1. TypeOK'
        BY TypeNext
      <4> QED BY <4>1 DEF TypeOK
    <3>2. \A v \in Values : \A i \in DOMAIN posted'[v] : posted'[v][i] \in Range(posted'[v])
      BY <3>1, RangeSeq
    <3> QED BY <2>2, <3>2
  <2>4. ASSUME NEW t \in Speakers, speaker'[t].at = "append"
        PROVE  /\ \A v \in Values : speaker'[t].id \notin Range(posted'[v])
               /\ \A u \in Speakers \ {t} : speaker'[u].at = "append" => speaker'[u].id # speaker'[t].id
    <3>1. t # s /\ speaker'[t] = speaker[t] /\ speaker[t].id # speaker[s].id
      BY <2>1, <2>4 DEF OnceInv
    <3>2. \A v \in Values : speaker[t].id \notin Range(posted'[v])
      BY <1>2, <2>4, <3>1, PostedStep DEF OnceInv
    <3> QED BY <2>1, <2>4, <3>1, <3>2 DEF OnceInv
  <2> QED BY <2>3, <2>4 DEF OnceInv
<1>3. ASSUME NEW s \in Speakers, Accept(s) \/ (\E c \in Codecs : Broadcast(s, c)) \/ Unlock(s) PROVE OnceInv'
  <2>1. \A t \in Speakers : speaker'[t].at = "append" => speaker[t].at = "append" /\ speaker'[t].id = speaker[t].id
    <3>1. CASE Accept(s)
      BY <3>1 DEF Accept, AtRest, TypeOK
    <3>2. CASE Unlock(s)
      BY <3>2 DEF Unlock, AtRest, TypeOK
    <3> QED BY <1>3, <3>1, <3>2, BroadcastStep
  <2> QED BY <1>3, <2>1, OnceSame DEF Accept, Broadcast, Unlock
<1>4. ASSUME NEW s \in Speakers, Rejoin(s) \/ Removed(s) PROVE OnceInv'
  BY <1>4, OnceSame DEF Rejoin, Removed
<1>5. CASE SweepChannels
  BY <1>5, OnceSame DEF SweepChannels
<1>6. ASSUME NEW j \in Joiners, JoinRoom(j) \/ Subscribe(j) \/ SendBacklog(j) \/ Pump(j) PROVE OnceInv'
  BY <1>6, OnceSame DEF JoinRoom, Subscribe, SendBacklog, Pump
<1>7. CASE UNCHANGED vars
  BY <1>7, OnceSame DEF vars
<1> QED BY <1>1, <1>2, <1>3, <1>4, <1>5, <1>6, <1>7 DEF Next

\* Every step keeps the end of each value's messages in the window.
LEMMA EndNext == TypeOK /\ Placed /\ LockInv /\ IdInv /\ OnceInv /\ EndInv /\ [Next]_vars => EndInv'
<1> SUFFICES ASSUME TypeOK, Placed, LockInv, IdInv, OnceInv, EndInv, [Next]_vars PROVE EndInv'
  OBVIOUS
<1>1. ASSUME NEW s \in Speakers, AppendHistory(s) PROVE EndInv'
  <2> DEFINE v == speaker[s].ch
             id == speaker[s].id
             w == IF Len(window) = Backlog THEN Tail(window) ELSE window
  <2>1. v \in Values /\ id \in Nat /\ speaker[s].at = "append"
    BY <1>1, PostedStep, AppendStep
  <2>2. window' = Append(w, id)
    BY <1>1 DEF AppendHistory, Window
  <2>3. \A u \in Values : posted[u] \in Seq(Nat) /\ Ordered(posted[u])
    BY DEF TypeOK, IdInv
  <2>4. /\ w \in Seq(Nat) /\ \A x : x \in Range(w) => x \in Range(window)
        /\ \A u \in Values : HoldsEnd(w, posted[u]) /\ InOrder(w, posted[u])
    <3>1. CASE Len(window) = Backlog
      <4>1. window \in Seq(Nat) /\ Len(window) > 0
        BY <3>1, ReplayAssumption DEF TypeOK
      <4>2. w = Tail(window)
        BY <3>1
      <4>3. w \in Seq(Nat) /\ \A x : x \in Range(w) => x \in Range(window)
        BY <4>1, <4>2, TailSeq
      <4>4. ASSUME NEW u \in Values PROVE HoldsEnd(Tail(window), posted[u]) /\ InOrder(Tail(window), posted[u])
        BY <2>3, <4>1, TailKeeps DEF EndInv
      <4> QED BY <4>2, <4>3, <4>4
    <3>2. CASE Len(window) # Backlog
      BY <3>2 DEF EndInv, TypeOK
    <3> QED BY <3>1, <3>2
  <2> HIDE DEF w
  <2>5. id \notin Range(w) /\ \A u \in Values : id \notin Range(posted[u])
    <3>1. \A u \in Values : id \notin Range(posted[u])
      BY <2>1 DEF OnceInv
    <3> QED BY <2>4, <3>1 DEF EndInv, Posted
  <2>6. \A x \in Range(window') : Posted(x)'
    <3>1. \A x : x \in Range(window') => x \in Range(w) \/ x = id
      BY <2>1, <2>2, <2>4, RangeAppend
    <3> QED BY <1>1, <2>4, <3>1, PostedStep DEF EndInv
  <2>7. ASSUME NEW u \in Values PROVE HoldsEnd(window', posted'[u]) /\ InOrder(window', posted'[u])
    <3>1. CASE u = v
      <4>1. posted'[u] = Append(posted[u], id)
        BY <1>1, <3>1, PostedStep
      <4>2. \A i \in 1 .. Len(posted[u]) : posted[u][i] < id
        BY <2>1, <2>3, <3>1 DEF IdInv
      <4> HIDE DEF v, id
      <4> QED BY <2>1, <2>2, <2>3, <2>4, <2>5, <4>1, <4>2, AppendHere
    <3>2. CASE u # v
      <4>1. posted'[u] = posted[u]
        BY <1>1, <3>2, PostedStep
      <4> HIDE DEF v, id
      <4> QED BY <2>1, <2>2, <2>3, <2>4, <2>5, <4>1, AppendElse
    <3> QED BY <3>1, <3>2
  <2> QED BY <2>6, <2>7 DEF EndInv
<1>2. CASE window' = window /\ posted' = posted
  BY <1>2 DEF EndInv, Posted
<1>3. ASSUME NEW s \in Speakers, Accept(s) \/ Lock(s) \/ (\E c \in Codecs : Broadcast(s, c)) \/ Unlock(s) \/ Rejoin(s) \/ Removed(s)
      PROVE  EndInv'
  BY <1>2, <1>3 DEF Accept, Lock, Broadcast, Unlock, Rejoin, Removed
<1>4. ASSUME NEW j \in Joiners, JoinRoom(j) \/ Subscribe(j) \/ SendBacklog(j) \/ Pump(j) PROVE EndInv'
  BY <1>2, <1>4 DEF JoinRoom, Subscribe, SendBacklog, Pump
<1>5. CASE SweepChannels \/ UNCHANGED vars
  BY <1>2, <1>5 DEF SweepChannels, vars
<1> QED BY <1>1, <1>3, <1>4, <1>5 DEF Next

\* What a joiner has seen stays described if nothing of it changes.
LEMMA SeenSame ==
  ASSUME NEW j \in Joiners, SeenBy(j), posted' = posted,
         cursor'[j] = cursor[j], backlog'[j] = backlog[j], live'[j] = live[j], joiner'[j] = joiner[j],
         member'[j] = member[j],
         joiner[j] \in {"subscribed", "reading"} => cursor[j] <= Len(RingOf(j)')
  PROVE  SeenBy(j)'
<1>1. \A x : Posted(x)' <=> Posted(x)
  BY DEF Posted
<1>2. \A k, n, c : Seen(j, k, n, c)' <=> Seen(j, k, n, c)
  BY DEF Seen
<1> QED BY <1>1, <1>2 DEF SeenBy

\* A joiner's ring begins what its value posted.
LEMMA RingLength ==
  ASSUME TypeOK, Placed, RingInv, NEW j \in Joiners, joiner[j] # "out"
  PROVE  /\ member[j] \in Values /\ RingOf(j) \in Seq(Nat) /\ posted[member[j]] \in Seq(Nat)
         /\ Starts(RingOf(j), posted[member[j]])
<1>1. CodecOf[j] \in Codecs /\ member[j] \in Values
  BY ReplayAssumption DEF Placed
<1>2. RingOf(j) \in Seq(Nat)
  BY RingType
<1>3. posted[member[j]] \in Seq(Nat) /\ Starts(RingOf(j), posted[member[j]])
  BY <1>1 DEF RingOf, TypeOK, RingInv
<1> QED BY <1>1, <1>2, <1>3

\* A message posted meanwhile does not change what a joiner has seen.
LEMMA SeenAppend ==
  ASSUME TypeOK, Placed, LockInv, RingInv, OnceInv, NEW s \in Speakers, AppendHistory(s), NEW j \in Joiners, SeenBy(j)
  PROVE  SeenBy(j)'
<1> DEFINE v == speaker[s].ch
           id == speaker[s].id
<1>1. /\ cursor' = cursor /\ backlog' = backlog /\ live' = live /\ joiner' = joiner
      /\ member' = member /\ ring' = ring
  BY DEF AppendHistory, clientVars, roomVars
<1>2. \A u \in Values : id \notin Range(posted[u])
  BY AppendStep DEF OnceInv
<1>3. id \notin Range(backlog[j]) /\ id \notin Range(live[j])
  BY <1>2 DEF SeenBy, Posted
<1>4. \A x : Posted(x) => Posted(x)'
  BY PostedStep
<1>5. ASSUME NEW k \in Nat, NEW n \in Nat, NEW c \in Nat, joiner[j] = "reading", Seen(j, k, n, c) PROVE Seen(j, k, n, c)'
  <2> DEFINE m == member[j]
  <2>1. m \in Values /\ posted[m] \in Seq(Nat) /\ cursor[j] \in Nat
    BY <1>5 DEF Placed, TypeOK
  <2>2. CASE m # v
    <3>1. posted'[m] = posted[m]
      BY <2>1, <2>2, PostedStep
    <3> QED BY <1>1, <1>5, <3>1 DEF Seen
  <2>3. CASE m = v
    <3>1. /\ Len(posted'[m]) = Len(posted[m]) + 1 /\ posted'[m][Len(posted[m]) + 1] = id
          /\ \A i \in 1 .. Len(posted[m]) : posted'[m][i] = posted[m][i]
      BY <2>1, <2>3, PostedStep
    <3>2. cursor[j] <= Len(posted[m])
      <4>1. cursor[j] <= Len(RingOf(j)) /\ RingOf(j) \in Seq(Nat) /\ Len(RingOf(j)) <= Len(posted[m])
        BY <1>5, RingLength DEF SeenBy, Starts
      <4> QED BY <2>1, <4>1
    <3>3. /\ k \in 1 .. n + 1 /\ c \in 0 .. n /\ n \in 0 .. Len(posted[m]) /\ c <= cursor[j]
          /\ \A i \in 1 .. Len(posted[m]) : posted[m][i] \in Range(backlog[j]) <=> i \in k .. n
          /\ \A i \in 1 .. Len(posted[m]) : posted[m][i] \in Range(live[j]) <=> i \in c + 1 .. cursor[j] /\ i \notin k .. n
      BY <1>5 DEF Seen
    <3> DEFINE len == Len(posted[m])
    <3>4. len \in Nat /\ len + 1 \notin k .. n /\ len + 1 \notin c + 1 .. cursor[j] /\ n \in 0 .. len + 1
      BY <2>1, <3>2, <3>3
    <3>5. \A i \in 1 .. len + 1 : i \in 1 .. len \/ i = len + 1
      BY <3>4
    <3>6. /\ \A i \in 1 .. len + 1 : posted'[m][i] \in Range(backlog[j]) <=> i \in k .. n
          /\ \A i \in 1 .. len + 1 : posted'[m][i] \in Range(live[j]) <=> i \in c + 1 .. cursor[j] /\ i \notin k .. n
      BY <1>3, <3>1, <3>3, <3>4, <3>5
    <3> QED BY <1>1, <3>1, <3>3, <3>4, <3>6 DEF Seen
  <2> QED BY <2>2, <2>3
<1> QED BY <1>1, <1>4, <1>5 DEF SeenBy, RingOf

\* The backlog reaches at least to where the joiner's ring was entered, because that came
\* first; or there is none, and what the joiner sees begins with its ring.
LEMMA SeenBacklog ==
  ASSUME TypeOK, Placed, RingInv, EndInv, NEW j \in Joiners, SendBacklog(j), SeenBy(j)
  PROVE  SeenBy(j)'
<1> DEFINE said == posted[member[j]]
<1>1. /\ cursor' = cursor /\ live' = live /\ member' = member /\ ring' = ring /\ posted' = posted
      /\ joiner[j] = "subscribed" /\ joiner'[j] = "reading"
      /\ backlog'[j] = window \/ backlog'[j] = << >>
  BY DEF SendBacklog, roomVars, TypeOK
<1>2. /\ said \in Seq(Nat) /\ member[j] \in Values /\ cursor[j] \in Nat
      /\ RingOf(j) \in Seq(Nat) /\ Len(RingOf(j)) <= Len(said)
  <2>1. joiner[j] # "out"
    BY <1>1
  <2>2. RingOf(j) \in Seq(Nat) /\ said \in Seq(Nat) /\ member[j] \in Values /\ Starts(RingOf(j), said)
    BY <2>1, RingLength
  <2> QED BY <2>2 DEF Starts, TypeOK
<1>3. live[j] = << >> /\ cursor[j] <= Len(RingOf(j)) /\ RingOf(j)' = RingOf(j)
  BY <1>1 DEF SeenBy, RingOf
<1>4. PICK k \in 1 .. Len(said) + 1 : \A i \in 1 .. Len(said) : said[i] \in Range(window) <=> k <= i
  BY <1>2 DEF EndInv, HoldsEnd
<1>5. Len(said) \in Nat /\ cursor[j] \in 0 .. Len(said) /\ k \in Nat
  BY <1>2, <1>3
<1>6. \E a \in Nat, n \in 0 .. Len(said) :
        /\ a \in 1 .. n + 1 /\ cursor[j] <= n
        /\ \A i \in 1 .. Len(said) : said[i] \in Range(backlog'[j]) <=> i \in a .. n
  <2>1. CASE backlog'[j] = window
    <3>1. \A i \in 1 .. Len(said) : said[i] \in Range(backlog'[j]) <=> i \in k .. Len(said)
      BY <1>4, <1>5, <2>1
    <3>2. Len(said) \in 0 .. Len(said) /\ k \in Nat /\ k \in 1 .. Len(said) + 1 /\ cursor[j] <= Len(said)
      BY <1>5
    <3> HIDE DEF said
    <3> USE <3>2
    <3> WITNESS k \in Nat, Len(said) \in 0 .. Len(said)
    <3> QED BY <3>1
  <2>2. CASE backlog'[j] = << >>
    <3>1. \A i \in 1 .. Len(said) : said[i] \in Range(backlog'[j]) <=> i \in cursor[j] + 1 .. cursor[j]
      BY <1>5, <2>2, EmptyRange
    <3>2. cursor[j] \in 0 .. Len(said) /\ cursor[j] + 1 \in Nat /\ cursor[j] + 1 \in 1 .. cursor[j] + 1
      BY <1>5
    <3> HIDE DEF said
    <3> USE <3>2
    <3> WITNESS cursor[j] + 1 \in Nat, cursor[j] \in 0 .. Len(said)
    <3> QED BY <3>1
  <2> QED BY <1>1, <2>1, <2>2
<1>7. PICK a \in Nat, n \in 0 .. Len(said) :
        /\ a \in 1 .. n + 1 /\ cursor[j] <= n
        /\ \A i \in 1 .. Len(said) : said[i] \in Range(backlog'[j]) <=> i \in a .. n
  BY <1>6
<1>8. \A x : x \in Range(backlog'[j]) \/ x \in Range(live'[j]) => Posted(x)'
  BY <1>1, <1>3, EmptyRange DEF EndInv, Posted
<1>9. cursor'[j] = cursor[j] /\ cursor[j] \in Nat
  BY <1>1, <1>2
<1>10. Seen(j, a, n, cursor[j])'
  <2>1. \A i \in 1 .. Len(said) : i \notin cursor[j] + 1 .. cursor[j]
    BY <1>2
  <2>2. Seen(j, a, n, cursor[j])' <=>
          /\ a \in 1 .. n + 1 /\ cursor[j] \in 0 .. n /\ n \in 0 .. Len(said) /\ cursor[j] <= cursor[j]
          /\ \A i \in 1 .. Len(said) : said[i] \in Range(backlog'[j]) <=> i \in a .. n
          /\ \A i \in 1 .. Len(said) : said[i] \in Range(live[j]) <=> i \in cursor[j] + 1 .. cursor[j] /\ i \notin a .. n
    BY <1>1 DEF Seen
  <2>3. \A i \in 1 .. Len(said) : said[i] \notin Range(live[j])
    BY <1>3, EmptyRange
  <2>4. cursor[j] \in 0 .. n /\ cursor[j] <= cursor[j]
    BY <1>5, <1>7
  <2> QED BY <1>7, <2>1, <2>2, <2>3, <2>4
<1>11. n \in Nat
  BY <1>5
<1>12. \E x, y, z \in Nat : Seen(j, x, y, z)'
  BY <1>9, <1>10, <1>11
<1> QED BY <1>1, <1>3, <1>8, <1>12 DEF SeenBy

\* The next message of the ring continues what a joiner has seen.
LEMMA SeenPump ==
  ASSUME TypeOK, Placed, IdInv, RingInv, NEW j \in Joiners, Pump(j), SeenBy(j)
  PROVE  SeenBy(j)'
<1> DEFINE said == posted[member[j]]
           at == cursor[j] + 1
           id == said[at]
<1>1. /\ backlog' = backlog /\ member' = member /\ ring' = ring /\ posted' = posted /\ joiner' = joiner
      /\ joiner[j] = "reading" /\ cursor[j] < Len(RingOf(j)) /\ cursor'[j] = at
  BY DEF Pump, roomVars, TypeOK
<1>2. /\ said \in Seq(Nat) /\ member[j] \in Values /\ cursor[j] \in Nat
      /\ RingOf(j) \in Seq(Nat) /\ Len(RingOf(j)) <= Len(said) /\ \A i \in 1 .. Len(RingOf(j)) : RingOf(j)[i] = said[i]
  BY <1>1, RingLength DEF Starts, TypeOK
<1>3. at \in 1 .. Len(RingOf(j)) /\ at \in 1 .. Len(said) /\ RingOf(j)[at] = id /\ id \in Nat /\ id \in Range(said)
  <2>1. at \in 1 .. Len(RingOf(j)) /\ at \in 1 .. Len(said)
    BY <1>1, <1>2
  <2>2. said[at] \in Nat /\ said[at] \in Range(said)
    <3> HIDE DEF said, at
    <3>1. said \in Seq(Nat) /\ at \in 1 .. Len(said)
      BY <1>2, <2>1
    <3> QED BY <3>1, RangeSeq
  <2> QED BY <1>2, <2>1, <2>2
<1>4. live'[j] = IF id \in Range(backlog[j]) THEN live[j] ELSE Append(live[j], id)
  BY <1>1, <1>3 DEF Pump, TypeOK
<1>5. \A i \in 1 .. Len(said) : said[i] = id => i = at
  <2>1. Ordered(said)
    BY <1>2 DEF IdInv
  <2>2. \A i \in 1 .. Len(said) : said[i] \in Nat
    BY <1>2
  <2> HIDE DEF said, at
  <2>3. at \in 1 .. Len(said) /\ id = said[at] /\ DOMAIN said = 1 .. Len(said) /\ Len(said) \in Nat
    BY <1>2, <1>3
  <2> HIDE DEF id
  <2>4. ASSUME NEW i \in 1 .. Len(said), said[i] = said[at] PROVE i = at
    <3>1. i < at \/ at < i => FALSE
      BY <2>1, <2>2, <2>3, <2>4 DEF Ordered
    <3>2. i \in Nat /\ at \in Nat
      BY <2>3
    <3> QED BY <3>1, <3>2
  <2> QED BY <2>3, <2>4
<1>6. \A x : x \in Range(live'[j]) <=> x \in Range(live[j]) \/ (x = id /\ id \notin Range(backlog[j]))
  <2>1. live[j] \in Seq(Nat)
    BY DEF TypeOK
  <2> HIDE DEF id
  <2> QED BY <1>3, <1>4, <2>1, RangeAppend
<1>7. PICK k \in Nat, n \in Nat, c \in Nat : Seen(j, k, n, c)
  BY <1>1 DEF SeenBy
<1> HIDE DEF id, at
<1>8. \A i \in 1 .. Len(said) : said[i] \in Range(live'[j]) <=> i \in c + 1 .. at /\ i \notin k .. n
  <2>1. \A i \in 1 .. Len(said) : said[i] \in Range(backlog[j]) <=> i \in k .. n
    BY <1>7 DEF Seen
  <2>2. \A i \in 1 .. Len(said) : said[i] \in Range(live[j]) <=> i \in c + 1 .. cursor[j] /\ i \notin k .. n
    BY <1>7 DEF Seen
  <2>3. c <= cursor[j] /\ at = cursor[j] + 1 /\ id = said[at]
    BY <1>7 DEF Seen, at, id
  <2>4. \A i \in 1 .. Len(said) : i \in c + 1 .. at <=> i \in c + 1 .. cursor[j] \/ i = at
    <3>1. cursor[j] \in Nat /\ c \in Nat /\ Len(said) \in Nat
      BY <1>2
    <3> QED BY <2>3, <3>1
  <2>5. ASSUME NEW i \in 1 .. Len(said) PROVE said[i] \in Range(live'[j]) <=> i \in c + 1 .. at /\ i \notin k .. n
    BY <1>3, <1>5, <1>6, <2>1, <2>2, <2>3, <2>4
  <2> QED BY <2>5
<1>9. Seen(j, k, n, c)'
  BY <1>1, <1>2, <1>7, <1>8 DEF Seen, at
<1>10. \A x : x \in Range(backlog'[j]) \/ x \in Range(live'[j]) => Posted(x)'
  BY <1>1, <1>2, <1>3, <1>6 DEF SeenBy, Posted
<1>11. RingOf(j)' = RingOf(j) /\ cursor'[j] <= Len(RingOf(j))
  BY <1>1, <1>2 DEF RingOf, at
<1>12. \E a, b, d \in Nat : Seen(j, a, b, d)'
  BY <1>9
<1> QED BY <1>1, <1>10, <1>11, <1>12 DEF SeenBy

\* Every step keeps what each joiner has seen described.
LEMMA SeenNext ==
  TypeOK /\ Placed /\ LockInv /\ IdInv /\ RingInv /\ OnceInv /\ EndInv /\ SeenInv /\ [Next]_vars => SeenInv'
<1> SUFFICES ASSUME TypeOK, Placed, LockInv, IdInv, RingInv, OnceInv, EndInv, SeenInv, [Next]_vars,
                    NEW j \in Joiners
             PROVE  SeenBy(j)'
  BY DEF SeenInv
<1>0. SeenBy(j)
  BY DEF SeenInv
<1>1. ASSUME clientVars' = clientVars, posted' = posted, member'[j] = member[j], ring' = ring PROVE SeenBy(j)'
  <2>1. RingOf(j)' = RingOf(j)
    BY <1>1 DEF RingOf
  <2> QED BY <1>0, <1>1, <2>1, SeenSame DEF clientVars, SeenBy
<1>2. ASSUME NEW s \in Speakers, Accept(s) \/ Lock(s) \/ Unlock(s) PROVE SeenBy(j)'
  BY <1>1, <1>2 DEF Accept, Lock, Unlock, roomVars
<1>3. ASSUME NEW s \in Speakers, AppendHistory(s) PROVE SeenBy(j)'
  BY <1>0, <1>3, SeenAppend
<1>4. ASSUME NEW s \in Speakers, NEW c \in Codecs, Broadcast(s, c) PROVE SeenBy(j)'
  <2>1. /\ posted' = posted /\ cursor' = cursor /\ backlog' = backlog /\ live' = live
        /\ joiner' = joiner /\ member' = member
    BY <1>4 DEF Broadcast, clientVars, roomVars
  <2>2. ASSUME joiner[j] # "out" PROVE Len(RingOf(j)') \in Nat /\ Len(RingOf(j)') >= Len(RingOf(j)) /\ Len(RingOf(j)) \in Nat
    <3>1. CodecOf[j] \in Codecs /\ member[j] \in Values /\ RingOf(j) \in Seq(Nat) /\ speaker[s].id \in Nat
      BY <2>2, ReplayAssumption, RingType DEF Placed, TypeOK
    <3>2. RingOf(j)' = RingOf(j) \/ RingOf(j)' = Append(RingOf(j), speaker[s].id)
      BY <1>4, <2>1, <3>1 DEF Broadcast, RingOf, TypeOK
    <3> QED BY <3>1, <3>2
  <2>3. joiner[j] \in {"subscribed", "reading"} => cursor[j] <= Len(RingOf(j)')
    BY <1>0, <2>2 DEF SeenBy, TypeOK
  <2> QED BY <1>0, <2>1, <2>3, SeenSame
<1>5. ASSUME NEW s \in Speakers, Rejoin(s) \/ Removed(s) PROVE SeenBy(j)'
  <2>1. j # s
    BY ReplayAssumption
  <2>2. member'[j] = member[j]
    BY <1>5, <2>1 DEF Rejoin, Removed, Enter, TypeOK
  <2> QED BY <1>1, <1>5, <2>2 DEF Rejoin, Removed
<1>6. CASE SweepChannels
  BY <1>1, <1>6 DEF SweepChannels
<1>7. ASSUME NEW i \in Joiners, i # j, JoinRoom(i) \/ Subscribe(i) \/ SendBacklog(i) \/ Pump(i) PROVE SeenBy(j)'
  <2>1. /\ posted' = posted /\ ring' = ring /\ cursor'[j] = cursor[j] /\ backlog'[j] = backlog[j] /\ live'[j] = live[j]
        /\ joiner'[j] = joiner[j] /\ member'[j] = member[j]
    BY <1>7 DEF JoinRoom, Enter, Subscribe, SendBacklog, Pump, roomVars, TypeOK
  <2>2. RingOf(j)' = RingOf(j)
    BY <2>1 DEF RingOf
  <2> QED BY <1>0, <2>1, <2>2, SeenSame DEF SeenBy
<1>8. CASE JoinRoom(j)
  <2>1. /\ posted' = posted /\ backlog' = backlog /\ live' = live
        /\ joiner[j] = "out" /\ joiner'[j] = "added"
    BY <1>8 DEF JoinRoom, TypeOK
  <2> QED BY <1>0, <2>1 DEF SeenBy, Posted
<1>9. CASE Subscribe(j)
  <2>1. /\ posted' = posted /\ backlog' = backlog /\ live' = live /\ member' = member /\ ring' = ring
        /\ joiner[j] = "added" /\ joiner'[j] = "subscribed" /\ cursor'[j] = Len(RingOf(j))
    BY <1>9 DEF Subscribe, TypeOK, roomVars
  <2>2. RingOf(j) \in Seq(Nat) /\ RingOf(j)' = RingOf(j)
    BY <2>1, RingType DEF RingOf
  <2>3. cursor'[j] <= Len(RingOf(j)')
    BY <2>1, <2>2
  <2> QED BY <1>0, <2>1, <2>3 DEF SeenBy, Posted
<1>10. CASE SendBacklog(j) \/ Pump(j)
  BY <1>0, <1>10, SeenBacklog, SeenPump
<1>11. CASE UNCHANGED vars
  BY <1>1, <1>11 DEF vars, roomVars
<1> QED BY <1>2, <1>3, <1>4, <1>5, <1>6, <1>7, <1>8, <1>9, <1>10, <1>11 DEF Next

-----------------------------------------------------------------------------
(* No gap: the theorem *)

\* The range of a sequence from some index on.
LEMMA RangeSubSeq ==
  ASSUME NEW s \in Seq(Nat), NEW k \in 1 .. Len(s) + 1
  PROVE  Range(SubSeq(s, k, Len(s))) = {s[i] : i \in k .. Len(s)}
<1> DEFINE t == SubSeq(s, k, Len(s))
<1>1. /\ t \in Seq(Nat) /\ Len(t) = Len(s) - k + 1 /\ Len(s) \in Nat
      /\ \A i \in 1 .. Len(s) - k + 1 : t[i] = s[i + k - 1]
  OBVIOUS
<1>2. \A x : x \in Range(t) <=> \E i \in 1 .. Len(s) - k + 1 : t[i] = x
  BY <1>1, RangeSeq
<1> HIDE DEF t
<1>3. ASSUME NEW i \in k .. Len(s) PROVE i - k + 1 \in 1 .. Len(s) - k + 1 /\ t[i - k + 1] = s[i]
  <2>1. i - k + 1 \in 1 .. Len(s) - k + 1 /\ (i - k + 1) + k - 1 = i
    BY <1>1
  <2> QED BY <1>1, <2>1
<1>4. ASSUME NEW i \in 1 .. Len(s) - k + 1 PROVE i + k - 1 \in k .. Len(s) /\ t[i] = s[i + k - 1]
  BY <1>1
<1>5. \A x : x \in Range(t) <=> x \in {s[i] : i \in k .. Len(s)}
  BY <1>2, <1>3, <1>4
<1> QED BY <1>5 DEF t

\* A joiner that has caught up has all that was posted from some message on.
LEMMA CaughtUpHasAll ==
  ASSUME TypeOK, Placed, LockInv, RingInv, RoomInv, SeenInv, NEW j \in Joiners, CaughtUp(j)
  PROVE  LET said == posted[member[j]]
         IN \E m \in 1 .. Len(said) + 1 : Shown(j) \cap Range(said) = Range(SubSeq(said, m, Len(said)))
<1> DEFINE v == member[j]
           said == posted[v]
<1>1. /\ v \in Values /\ said \in Seq(Nat) /\ RingOf(j) \in Seq(Nat) /\ Len(RingOf(j)) <= Len(said)
      /\ joiner[j] = "reading" /\ cursor[j] = Len(RingOf(j)) /\ sendMu[v] = Nobody
  BY RingLength DEF CaughtUp, Starts
<1>2. ~closed[v]
  BY <1>1, NoValueZero DEF RoomInv
<1>3. CodecOf[j] \in Codecs /\ Nobody \notin Speakers
  BY ReplayAssumption
<1>4. ~Owed(v, CodecOf[j])
  BY <1>1, <1>3 DEF Owed, LockInv
<1>5. Len(said) = cursor[j] /\ cursor[j] \in Nat
  <2>1. Len(RingOf(j)) = Len(said) - 0
    BY <1>1, <1>2, <1>3, <1>4 DEF RingInv, RingOf
  <2> QED BY <1>1, <2>1
<1>6. PICK k \in Nat, n \in Nat, c \in Nat : Seen(j, k, n, c)
  BY <1>1 DEF SeenInv, SeenBy
<1> DEFINE m == IF k < c + 1 THEN k ELSE c + 1
<1>7. \A i \in 1 .. Len(said) : said[i] \in Shown(j) <=> m <= i
  <2>1. /\ k \in 1 .. n + 1 /\ c \in 0 .. n /\ n \in 0 .. Len(said)
        /\ \A i \in 1 .. Len(said) : said[i] \in Range(backlog[j]) <=> i \in k .. n
        /\ \A i \in 1 .. Len(said) : said[i] \in Range(live[j]) <=> i \in c + 1 .. cursor[j] /\ i \notin k .. n
    BY <1>6 DEF Seen
  <2>2. \A i \in 1 .. Len(said) : said[i] \in Shown(j) <=> said[i] \in Range(backlog[j]) \/ said[i] \in Range(live[j])
    BY DEF Shown
  <2>3. \A i \in 1 .. Len(said) : said[i] \in Shown(j) <=> i \in k .. n \/ i \in c + 1 .. cursor[j]
    BY <2>1, <2>2
  <2>4. \A i \in 1 .. Len(said) : i \in k .. n \/ i \in c + 1 .. cursor[j] <=> m <= i
    BY <1>5, <2>1
  <2> QED BY <2>3, <2>4
<1>8. m \in 1 .. Len(said) + 1
  BY <1>5, <1>6 DEF Seen
<1>9. Shown(j) \cap Range(said) = {said[i] : i \in m .. Len(said)}
  <2>1. \A x : x \in Range(said) <=> \E i \in 1 .. Len(said) : said[i] = x
    BY <1>1, RangeSeq
  <2> HIDE DEF m, said
  <2>2. \A i : i \in m .. Len(said) <=> i \in 1 .. Len(said) /\ m <= i
    BY <1>8
  <2> QED BY <1>7, <2>1, <2>2
<1> HIDE DEF m, said
<1>10. Range(SubSeq(said, m, Len(said))) = {said[i] : i \in m .. Len(said)}
  BY <1>1, <1>8, RangeSubSeq
<1> QED BY <1>8, <1>9, <1>10 DEF said

\* Backlog and live traffic leave no gap: a joiner that has caught up was shown every
\* message of its room from some point on (README.md:69-71, membership.go:59).
THEOREM BacklogMeetsLive == Spec => []NoGap
<1> DEFINE Order == LockInv /\ IdInv /\ RingInv
           Gap   == RoomInv /\ OnceInv /\ EndInv /\ SeenInv
<1>1. Init => TypeOK /\ Placed /\ Order /\ Gap
  BY TypeInit, PlacedInit, OrderInit, GapInit
<1>2. TypeOK /\ Placed /\ Order /\ Gap /\ [Next]_vars => (TypeOK /\ Placed /\ Order /\ Gap)'
  BY TypeNext, PlacedNext, OrderNext, RoomNext, OnceNext, EndNext, SeenNext
<1>3. TypeOK /\ Placed /\ Order /\ Gap => NoGap
  BY CaughtUpHasAll DEF NoGap
<1> QED BY <1>1, <1>2, <1>3, PTL DEF Spec

-----------------------------------------------------------------------------
(* Induction *)

\* Of some natural numbers, one is the least.
LEMMA LeastOf ==
  ASSUME NEW S \in SUBSET Nat, S # {}
  PROVE  \E m \in S : \A k \in S : m <= k
<1> DEFINE R == OpToRel(<, Nat)
<1>1. IsWellFoundedOn(R, Nat)
  BY NatLessThanWellFounded
<1>2. \E m \in S : \A k \in S : ~(<<k, m>> \in R)
  <2> HIDE DEF R
  <2> QED BY <1>1, WFMin
<1>3. \A k, m \in Nat : k < m => <<k, m>> \in R
  BY DEF OpToRel
<1> HIDE DEF R
<1>4. PICK m \in S : \A k \in S : ~(<<k, m>> \in R)
  BY <1>2
<1>5. m \in Nat /\ \A k \in S : k \in Nat /\ ~(k < m)
  BY <1>3, <1>4
<1> QED BY <1>5

\* What is in a set with 0, and with the next of whatever is, up to N.
LEMMA UptoInduction ==
  ASSUME NEW N \in Nat, NEW S, 0 \in S, \A i \in 1 .. N : i - 1 \in S => i \in S
  PROVE  \A i \in 0 .. N : i \in S
<1> DEFINE T == {i \in 0 .. N : i \notin S}
<1>1. SUFFICES ASSUME T # {} PROVE FALSE
  OBVIOUS
<1>2. PICK m \in T : \A k \in T : m <= k
  <2>1. T \in SUBSET Nat
    OBVIOUS
  <2> HIDE DEF T
  <2> QED BY <1>1, <2>1, LeastOf
<1>3. m \in 1 .. N /\ m - 1 \in 0 .. N /\ m - 1 \notin T
  BY <1>2
<1> QED BY <1>2, <1>3

\* The functions on 0 .. N that start with a and go from one value to the next by G.
Stepping(A, a, G, N) ==
  {f \in [0 .. N -> A] : f[0] = a /\ \A i \in 1 .. N : f[i] = G[i][f[i - 1]]}

\* There is one: a recursive definition of that form defines a function.
LEMMA StepByStep ==
  ASSUME NEW A, NEW a \in A, NEW G \in [Nat -> [A -> A]], NEW N \in Nat
  PROVE  Stepping(A, a, G, N) # {}
<1> DEFINE S == {n \in Nat : Stepping(A, a, G, n) # {}}
<1>1. 0 \in S
  <2>1. [i \in 0 .. 0 |-> a] \in Stepping(A, a, G, 0)
    BY DEF Stepping
  <2> QED BY <2>1
<1>2. ASSUME NEW n \in Nat, n \in S PROVE n + 1 \in S
  <2>1. PICK f \in Stepping(A, a, G, n) : TRUE
    BY <1>2
  <2>2. /\ f \in [0 .. n -> A] /\ f[0] = a
        /\ \A i \in 1 .. n : f[i] = G[i][f[i - 1]]
    BY <2>1 DEF Stepping
  <2> DEFINE g == [i \in 0 .. n + 1 |-> IF i = n + 1 THEN G[n + 1][f[n]] ELSE f[i]]
  <2>3. G[n + 1] \in [A -> A] /\ f[n] \in A
    BY <2>2
  <2>4. g \in [0 .. n + 1 -> A] /\ g[0] = a
    BY <2>2, <2>3
  <2>5. ASSUME NEW i \in 1 .. n + 1 PROVE g[i] = G[i][g[i - 1]]
    <3>1. i - 1 \in 0 .. n + 1 /\ i - 1 # n + 1 /\ i \in 0 .. n + 1
      OBVIOUS
    <3>2. g[i - 1] = f[i - 1]
      BY <3>1
    <3>3. CASE i = n + 1
      <4>1. g[i] = G[n + 1][f[n]] /\ n = i - 1
        BY <3>1, <3>3
      <4> HIDE DEF g
      <4> QED BY <3>2, <3>3, <4>1
    <3>4. CASE i # n + 1
      <4>1. i \in 1 .. n /\ g[i] = f[i]
        BY <3>4
      <4>2. f[i] = G[i][f[i - 1]]
        BY <2>2, <4>1
      <4> HIDE DEF g
      <4> QED BY <3>2, <4>1, <4>2
    <3> QED BY <3>3, <3>4
  <2>6. g \in Stepping(A, a, G, n + 1)
    <3> HIDE DEF g
    <3> QED BY <2>4, <2>5 DEF Stepping
  <2> QED BY <2>6
<1>3. N \in S
  <2> HIDE DEF S
  <2>1. ASSUME NEW i \in 1 .. N, i - 1 \in S PROVE i \in S
    <3>1. i - 1 \in Nat /\ (i - 1) + 1 = i
      OBVIOUS
    <3> QED BY <1>2, <2>1, <3>1
  <2>2. N \in 0 .. N
    OBVIOUS
  <2> QED BY <1>1, <2>1, <2>2, UptoInduction
<1> QED BY <1>3


-----------------------------------------------------------------------------
(* The filters *)

\* The runs of marks in a text are what the loop makes of each rune.
LEMMA RunsAre ==
  ASSUME NEW t \in Seq(Runes)
  PROVE  /\ Runs(t)[0] = 0
         /\ \A i \in 1 .. Len(t) : Runs(t)[i] = Count(Runs(t)[i - 1], t[i])
<1> DEFINE N == Len(t)
           G == [i \in Nat |-> [x \in Nat |-> Count(x, t[i])]]
<1>1. N \in Nat /\ 0 \in Nat
  OBVIOUS
<1> HIDE DEF N
<1>2. G \in [Nat -> [Nat -> Nat]]
  BY DEF Count
<1>3. Stepping(Nat, 0, G, N) # {}
  <2> HIDE DEF G
  <2> QED BY <1>1, <1>2, StepByStep, Zenon
<1>4. PICK f \in [0 .. N -> Nat] : f[0] = 0 /\ \A i \in 1 .. N : f[i] = G[i][f[i - 1]]
  <2> HIDE DEF G
  <2> QED BY <1>3 DEF Stepping
<1>5. f = [i \in 0 .. N |-> IF i = 0 THEN 0 ELSE Count(f[i - 1], t[i])]
  <2>1. ASSUME NEW k \in 1 .. N PROVE f[k] = Count(f[k - 1], t[k])
    <3>1. k \in Nat /\ k - 1 \in 0 .. N
      BY <1>1
    <3>2. f[k - 1] \in Nat /\ f[k] = G[k][f[k - 1]]
      BY <1>4, <3>1
    <3> QED BY <3>1, <3>2
  <2> QED BY <1>1, <1>4, <2>1
<1>6. Runs(t) = [i \in 0 .. N |-> IF i = 0 THEN 0 ELSE Count(Runs(t)[i - 1], t[i])]
  BY <1>5, Zenon DEF Runs, N
<1> QED BY <1>1, <1>6 DEF N

\* More marks than MaxDiacritics stand one after another in the first i runes.
Stacked(t, i) ==
  \E j \in 1 .. i - MaxDiacritics : \A k \in j .. j + MaxDiacritics : t[k] = "mark"

\* What a run says of the runes so far: it is too long when a stack is among them,
\* and is the marks at the end, after something else, when none is.
RunOK(t, i, run) ==
  /\ run \in Nat
  /\ run > MaxDiacritics <=> Stacked(t, i)
  /\ run <= MaxDiacritics =>
       /\ run <= i
       /\ \A k \in i - run + 1 .. i : t[k] = "mark"
       /\ run < i => t[i - run] # "mark"

LEMMA RunStep ==
  ASSUME MaxDiacritics >= 1, NEW t \in Seq(Runes), NEW i \in 1 .. Len(t), NEW run, RunOK(t, i - 1, run)
  PROVE  RunOK(t, i, Count(run, t[i]))
<1> DEFINE M == MaxDiacritics
           next == Count(run, t[i])
<1>1. M \in Nat /\ M >= 1 /\ i \in Nat /\ i >= 1 /\ i - 1 \in Nat /\ run \in Nat
  BY FilterAssumption DEF RunOK
<1>2. Stacked(t, i) <=> Stacked(t, i - 1) \/ (i - M >= 1 /\ \A k \in i - M .. i : t[k] = "mark")
  <2>1. \A j : j \in 1 .. i - M <=> j \in 1 .. (i - 1) - M \/ (i - M >= 1 /\ j = i - M)
    BY <1>1
  <2>2. (i - M) + M = i
    BY <1>1
  <2> QED BY <2>1, <2>2 DEF Stacked
<1>3. run > M <=> Stacked(t, i - 1)
  BY DEF RunOK
<1>4. CASE run > M
  BY <1>1, <1>2, <1>3, <1>4 DEF RunOK, Count
<1>5. CASE run <= M /\ t[i] = "mark"
  <2>1. next = run + 1
    BY <1>1, <1>5 DEF Count
  <2>2. /\ run <= i - 1 /\ \A k \in i - run .. i - 1 : t[k] = "mark"
        /\ run < i - 1 => t[i - 1 - run] # "mark"
    BY <1>1, <1>5 DEF RunOK
  <2>3. \A k \in i - run .. i : t[k] = "mark"
    BY <1>1, <1>5, <2>2
  <2>4. CASE run = M
    <3>1. Stacked(t, i)
      BY <1>1, <1>2, <2>2, <2>3, <2>4
    <3> QED BY <1>1, <2>1, <2>4, <3>1 DEF RunOK
  <2>5. CASE run < M
    <3>1. ~Stacked(t, i)
      <4>1. SUFFICES ASSUME i - M >= 1, \A k \in i - M .. i : t[k] = "mark" PROVE FALSE
        BY <1>1, <1>2, <1>3, <1>5
      <4>2. run < i - 1 /\ i - 1 - run \in i - M .. i
        BY <1>1, <2>5, <4>1
      <4> QED BY <2>2, <4>1, <4>2
    <3>2. next <= i /\ \A k \in i - next + 1 .. i : t[k] = "mark"
      BY <1>1, <2>1, <2>2, <2>3
    <3>3. next < i => t[i - next] # "mark"
      BY <1>1, <2>1, <2>2
    <3>4. next \in Nat /\ ~(next > M)
      BY <1>1, <2>1, <2>5
    <3> QED BY <3>1, <3>2, <3>3, <3>4 DEF RunOK
  <2> QED BY <1>1, <1>5, <2>4, <2>5
<1>6. CASE run <= M /\ t[i] # "mark"
  <2>1. next = 0
    BY <1>1, <1>6 DEF Count
  <2>2. ~Stacked(t, i)
    <3>1. i \in i - M .. i
      BY <1>1
    <3> QED BY <1>1, <1>2, <1>3, <1>6, <3>1
  <2> QED BY <1>1, <1>6, <2>1, <2>2 DEF RunOK
<1> QED BY <1>1, <1>4, <1>5, <1>6

\* The filter refuses a text for its marks when there is such a stack in it.
LEMMA ZalgoIs ==
  ASSUME NEW t \in Seq(Runes)
  PROVE  Zalgo(t) = IF MaxDiacritics >= 1 /\ Stacked(t, Len(t)) THEN "zalgo" ELSE Allowed
<1>1. CASE ~(MaxDiacritics >= 1)
  BY <1>1 DEF Zalgo
<1>2. CASE MaxDiacritics >= 1
  <2> DEFINE S == {i \in 0 .. Len(t) : RunOK(t, i, Runs(t)[i])}
  <2>1. Len(t) \in Nat /\ MaxDiacritics \in Nat
    BY <1>2, FilterAssumption
  <2>2. 0 \in S
    <3>1. ~Stacked(t, 0) /\ Runs(t)[0] = 0
      BY <1>2, <2>1, RunsAre DEF Stacked
    <3> QED BY <1>2, <2>1, <3>1 DEF RunOK
  <2>3. ASSUME NEW i \in 1 .. Len(t), i - 1 \in S PROVE i \in S
    <3>1. RunOK(t, i, Count(Runs(t)[i - 1], t[i]))
      BY <1>2, <2>3, RunStep
    <3> QED BY <3>1, RunsAre
  <2>4. Len(t) \in S
    <3>1. Len(t) \in 0 .. Len(t)
      BY <2>1
    <3> HIDE DEF S
    <3> QED BY <2>1, <2>2, <2>3, <3>1, UptoInduction
  <2> QED BY <1>2, <2>4 DEF RunOK, Zalgo
<1> QED BY <1>1, <1>2

\* The chain answers what the first of the three to refuse does.
LEMMA ChainIs ==
  ASSUME NEW t, NEW hook
  PROVE  Chain(t, hook) = IF UTF8(t) # Allowed THEN UTF8(t)
                          ELSE IF Zalgo(t) # Allowed THEN Zalgo(t) ELSE hook
<1> DEFINE answers == <<UTF8(t), Zalgo(t), hook>>
           refused == {i \in 1 .. 3 : answers[i] # Allowed}
<1>1. Chain(t, hook) = IF refused = {} THEN Allowed ELSE answers[Min(refused)]
  BY DEF Chain
<1>2. answers[1] = UTF8(t) /\ answers[2] = Zalgo(t) /\ answers[3] = hook
  OBVIOUS
<1>3. \A i : i \in refused <=> i \in {1, 2, 3} /\ answers[i] # Allowed
  OBVIOUS
<1> HIDE DEF answers, refused
<1>4. CASE refused = {}
  BY <1>1, <1>2, <1>3, <1>4
<1>5. CASE refused # {}
  <2>1. Min(refused) \in refused /\ \A i \in refused : Min(refused) <= i
    <3>1. refused \in SUBSET Nat
      BY <1>3
    <3>2. \E m \in refused : \A k \in refused : m =< k
      BY <1>5, <3>1, LeastOf
    <3> QED BY <3>2, Zenon DEF Min
  <2> QED BY <1>1, <1>2, <1>3, <1>5, <2>1
<1> QED BY <1>4, <1>5

\* The filters agree with what is said of them, for texts and windows of any length:
\* the loop that counts marks and forgets them misses no stack and sees none that is
\* not there, and the chain gives the first reason.
THEOREM FiltersSound == FilterAgrees
<1> SUFFICES ASSUME NEW t \in Texts, NEW hook \in {Allowed, "policy"}
             PROVE  Chain(t, hook) =
                      IF \E i \in DOMAIN t : t[i] = "bad" THEN "invalidutf8"
                      ELSE IF MaxDiacritics >= 1 /\ Stacked(t, Len(t)) THEN "zalgo"
                      ELSE hook
  BY DEF FilterAgrees, Stacked
<1>1. t \in Seq(Runes)
  <2>1. PICK m \in 0 .. MaxText : t \in [1 .. m -> Runes]
    BY DEF Texts, BoundedSeq, SeqOf
  <2> QED BY <2>1
<1>2. UTF8(t) = IF \E i \in DOMAIN t : t[i] = "bad" THEN "invalidutf8" ELSE Allowed
  <2>1. DOMAIN t = 1 .. Len(t)
    BY <1>1
  <2> QED BY <2>1 DEF UTF8, Contains
<1>3. "invalidutf8" # Allowed /\ "zalgo" # Allowed
  BY DEF Allowed
<1> QED BY <1>1, <1>2, <1>3, ChainIs, ZalgoIs

\* And so they do before any message is given an id.
THEOREM FiltersAgreed == Spec => []FiltersAgree
<1>1. FiltersAgree
  BY FiltersSound DEF FiltersAgree
<1> QED BY <1>1, PTL
=============================================================================
