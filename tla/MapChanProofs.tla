---------------------------- MODULE MapChanProofs ---------------------------
(***************************************************************************)
(* MapChan, for any writers, subscribers and channel capacity: no send to  *)
(* a closed channel, no subscriber that goes on past a gap, and each drop  *)
(* counted once.                                                           *)
(***************************************************************************)
EXTENDS MapChan, FiniteSetTheorems, TLAPS

\* What the three properties need of the types.
TypeInv ==
  /\ subs \subseteq Subs /\ drops \in Nat
  /\ shut \in [Subs -> BOOLEAN] /\ lagged \in [Subs -> BOOLEAN]
  /\ pc \in [Writers -> {"idle", "send", "drop"}]
  /\ todo \in [Writers -> SUBSET Subs] /\ slow \in [Writers -> SUBSET Subs]
  /\ missed \in [Subs -> SUBSET (0 .. MaxMsgs)]
  /\ sent \in 0 .. MaxMsgs /\ msg \in [Writers -> 0 .. MaxMsgs]
  /\ end \in [Subs -> {"absent", "live", "lagged", "closed"}]

\* Who is in the map has its channel open; and a subscription not made yet is not there.
OpenInv ==
  /\ \A s \in subs : ~shut[s]
  /\ \A s \in Subs : end[s] = "absent" => s \notin subs /\ ~shut[s]
  /\ \A s \in Subs : lagged[s] => shut[s]

\* While a broadcast is in its loop nobody leaves the map, so it sends to open channels.
LoopInv == \A w \in Writers : pc[w] = "send" => todo[w] \subseteq subs

\* A broadcast's list holds those it could not send to, and whoever missed a
\* message and is still in the map is on some list.
SlowInv ==
  /\ \A w \in Writers : \A s \in slow[w] : missed[s] # {}
  /\ \A s \in subs : missed[s] # {} => \E w \in Writers : s \in slow[w]
  /\ \A s \in Subs : lagged[s] => missed[s] # {}
  /\ \A s \in Subs : end[s] = "absent" => missed[s] = {}

CountInv == drops = Cardinality({s \in Subs : lagged[s]})

Inv == TypeInv /\ OpenInv /\ LoopInv /\ SlowInv /\ CountInv /\ ~panicked

\* What Finish does, one subscription at a time.
Finished(S, lag) ==
  /\ shut' \in [Subs -> BOOLEAN] /\ lagged' \in [Subs -> BOOLEAN]
  /\ \A s \in Subs : shut'[s] <=> shut[s] \/ s \in S
  /\ \A s \in Subs : lagged'[s] <=> IF s \in S /\ ~shut[s] THEN lag ELSE lagged[s]

\* Finishing a set of subscriptions, one subscription at a time.
LEMMA FinishEach ==
  ASSUME TypeInv, NEW S \in SUBSET Subs, NEW lag \in BOOLEAN, Finish(S, lag)
  PROVE  Finished(S, lag)
BY DEF Finish, TypeInv, Finished

\* Every step keeps the types.
LEMMA TypeNext == TypeInv /\ [Next]_vars => TypeInv'
<1> SUFFICES ASSUME TypeInv, [Next]_vars PROVE TypeInv'
  OBVIOUS
<1>1. ASSUME NEW w \in Writers, Begin(w) PROVE TypeInv'
  <2>1. sent' \in 0 .. MaxMsgs
    BY <1>1, MapChanAssumption DEF Begin, TypeInv
  <2>2. msg' \in [Writers -> 0 .. MaxMsgs] /\ pc' \in [Writers -> {"idle", "send", "drop"}]
    BY <1>1 DEF Begin, TypeInv
  <2>3. todo' \in [Writers -> SUBSET Subs]
    BY <1>1 DEF Begin, TypeInv
  <2>4. UNCHANGED <<subs, drops, shut, lagged, slow, missed, end>>
    BY <1>1 DEF Begin, mapVars
  <2>5. QED
    BY <2>1, <2>2, <2>3, <2>4 DEF TypeInv
<1>2. ASSUME NEW w \in Writers, NEW s \in Subs, Send(w, s) PROVE TypeInv'
  <2>1. todo' \in [Writers -> SUBSET Subs] /\ slow' \in [Writers -> SUBSET Subs]
    <3>1. todo' = [todo EXCEPT ![w] = @ \ {s}]
      BY <1>2 DEF Send
    <3>2. slow' = slow \/ slow' = [slow EXCEPT ![w] = @ \cup {s}]
      BY <1>2 DEF Send
    <3>3. QED
      BY <3>1, <3>2 DEF TypeInv
  <2>2. missed' \in [Subs -> SUBSET (0 .. MaxMsgs)]
    <3>1. msg[w] \in 0 .. MaxMsgs
      BY DEF TypeInv
    <3>2. missed' = missed \/ missed' = [missed EXCEPT ![s] = @ \cup {msg[w]}]
      BY <1>2 DEF Send
    <3>3. QED
      BY <3>1, <3>2 DEF TypeInv
  <2>3. UNCHANGED <<subs, drops, shut, lagged, sent, pc, msg, end>>
    BY <1>2 DEF Send, mapVars
  <2>4. QED
    BY <2>1, <2>2, <2>3 DEF TypeInv
<1>3. ASSUME NEW w \in Writers, EndSend(w) PROVE TypeInv'
  BY <1>3 DEF EndSend, TypeInv, mapVars
<1>4. ASSUME NEW w \in Writers, Drop(w) PROVE TypeInv'
  <2>1. shut' \in [Subs -> BOOLEAN] /\ lagged' \in [Subs -> BOOLEAN]
    BY <1>4, FinishEach DEF Drop, TypeInv, Finished
  <2>2. drops' \in Nat
    <3>1. slow[w] \cap subs \in SUBSET Subs
      BY DEF TypeInv
    <3>2. Cardinality(slow[w] \cap subs) \in Nat
      BY <3>1, MapChanAssumption, FS_Subset, FS_CardinalityType
    <3>3. QED
      BY <1>4, <3>2 DEF Drop, TypeInv
  <2>3. QED
    BY <1>4, <2>1, <2>2 DEF Drop, TypeInv
<1>5. ASSUME NEW s \in Subs, Subscribe(s) PROVE TypeInv'
  <2>1. shut' \in [Subs -> BOOLEAN] /\ lagged' \in [Subs -> BOOLEAN]
    BY <1>5, FinishEach DEF Subscribe, TypeInv, Finished
  <2>2. QED
    BY <1>5, <2>1 DEF Subscribe, TypeInv, loopVars
<1>6. ASSUME NEW s \in Subs, CloseSub(s) PROVE TypeInv'
  <2>1. shut' \in [Subs -> BOOLEAN] /\ lagged' \in [Subs -> BOOLEAN]
    BY <1>6, FinishEach DEF CloseSub, Finished
  <2>2. QED
    BY <1>6, <2>1 DEF CloseSub, TypeInv, loopVars
<1>7. CASE Close
  <2>1. shut' \in [Subs -> BOOLEAN] /\ lagged' \in [Subs -> BOOLEAN]
    BY <1>7, FinishEach DEF Close, TypeInv, Finished
  <2>2. QED
    BY <1>7, <2>1 DEF Close, TypeInv, loopVars
<1>8. ASSUME NEW s \in Subs, Receive(s) \/ ReportEnd(s) PROVE TypeInv'
  BY <1>8 DEF Receive, ReportEnd, TypeInv, mapVars, loopVars
<1>9. CASE UNCHANGED vars
  BY <1>9 DEF vars, mapVars, loopVars, TypeInv
<1>10. QED
  BY <1>1, <1>2, <1>3, <1>4, <1>5, <1>6, <1>7, <1>8, <1>9 DEF Next, Broadcasting

\* Every step keeps the channels of those in the map open.
LEMMA OpenNext == TypeInv /\ OpenInv /\ [Next]_vars => OpenInv'
<1> SUFFICES ASSUME TypeInv, OpenInv, [Next]_vars PROVE OpenInv'
  OBVIOUS
<1>1. CASE UNCHANGED <<subs, shut, lagged, end>>
  BY <1>1 DEF OpenInv
<1>2. ASSUME NEW S \in SUBSET Subs, NEW lag \in BOOLEAN, Finished(S, lag), end' = end,
             subs' \subseteq subs \ S, \A s \in S : end[s] # "absent"
      PROVE  OpenInv'
  BY <1>2 DEF Finished, OpenInv, TypeInv
<1>3. ASSUME NEW w \in Writers, Drop(w) PROVE OpenInv'
  <2> DEFINE S == slow[w] \cap subs
  <2>1. S \in SUBSET Subs /\ subs' \subseteq subs \ S /\ end' = end
    BY <1>3 DEF Drop, TypeInv
  <2>2. Finished(S, TRUE)
    BY <1>3, <2>1, FinishEach DEF Drop
  <2>3. \A s \in S : end[s] # "absent"
    BY <2>1 DEF OpenInv
  <2> HIDE DEF S
  <2>4. QED
    BY <1>2, <2>1, <2>2, <2>3
<1>4. ASSUME NEW s \in Subs, Subscribe(s) PROVE OpenInv'
  <2>1. end[s] = "absent" /\ end' = [end EXCEPT ![s] = "live"]
    BY <1>4 DEF Subscribe
  <2>2. CASE closed
    <3>1. Finished({s}, FALSE) /\ subs' = subs
      BY <1>4, <2>2, FinishEach DEF Subscribe
    <3>2. QED
      BY <2>1, <3>1 DEF Finished, OpenInv, TypeInv
  <2>3. CASE ~closed
    <3>1. subs' = subs \cup {s} /\ shut' = shut /\ lagged' = lagged
      BY <1>4, <2>3 DEF Subscribe
    <3>2. QED
      BY <2>1, <3>1 DEF OpenInv, TypeInv
  <2>4. QED
    BY <2>2, <2>3
<1>5. ASSUME NEW s \in Subs, CloseSub(s) PROVE OpenInv'
  <2>1. Finished({s}, FALSE) /\ subs' = subs \ {s} /\ end' = end /\ end[s] # "absent"
    BY <1>5, FinishEach DEF CloseSub, OpenInv
  <2>2. {s} \in SUBSET Subs /\ \A q \in {s} : end[q] # "absent"
    BY <2>1
  <2>3. QED
    BY <1>2, <2>1, <2>2
<1>6. CASE Close
  <2>1. subs \in SUBSET Subs /\ \A s \in subs : end[s] # "absent"
    BY DEF TypeInv, OpenInv
  <2>2. Finished(subs, FALSE) /\ subs' = {} /\ end' = end
    BY <1>6, <2>1, FinishEach DEF Close
  <2>3. QED
    BY <1>2, <2>1, <2>2
<1>7. ASSUME NEW s \in Subs, ReportEnd(s) PROVE OpenInv'
  BY <1>7 DEF ReportEnd, mapVars, OpenInv, TypeInv
<1>8. QED
  BY <1>1, <1>3, <1>4, <1>5, <1>6, <1>7
  DEF Next, Broadcasting, vars, mapVars, Begin, Send, EndSend, Receive

\* Every step keeps those a broadcast is to send to in the map.
LEMMA LoopNext == TypeInv /\ LoopInv /\ [Next]_vars => LoopInv'
<1> SUFFICES ASSUME TypeInv, LoopInv, [Next]_vars PROVE LoopInv'
  OBVIOUS
<1>1. CASE UNCHANGED <<subs, pc, todo>>
  BY <1>1 DEF LoopInv
<1>2. ASSUME NEW w \in Writers, Begin(w) \/ (\E s \in Subs : Send(w, s)) \/ EndSend(w) PROVE LoopInv'
  BY <1>2 DEF Begin, Send, EndSend, mapVars, LoopInv, TypeInv
<1>3. ASSUME NEW w \in Writers, Drop(w) PROVE LoopInv'
  BY <1>3 DEF Drop, NoReaders, LoopInv, TypeInv
<1>4. ASSUME NEW s \in Subs, Subscribe(s) \/ CloseSub(s) PROVE LoopInv'
  BY <1>4 DEF Subscribe, CloseSub, NoReaders, loopVars, LoopInv
<1>5. CASE Close
  BY <1>5 DEF Close, NoReaders, loopVars, LoopInv
<1>6. QED
  BY <1>1, <1>2, <1>3, <1>4, <1>5
  DEF Next, Broadcasting, vars, mapVars, loopVars, Receive, ReportEnd

\* Every step keeps those who missed a message on somebody's list, or out of the map.
LEMMA SlowNext == Inv /\ [Next]_vars => SlowInv'
<1> SUFFICES ASSUME Inv, [Next]_vars PROVE SlowInv'
  OBVIOUS
<1>0. TypeInv /\ OpenInv /\ LoopInv /\ SlowInv
  BY DEF Inv
<1>1. CASE UNCHANGED <<subs, slow, missed, lagged, end>>
  BY <1>0, <1>1 DEF SlowInv
<1>2. ASSUME NEW w \in Writers, NEW s \in Subs, Send(w, s) PROVE SlowInv'
  <2>1. CASE Len(ch[s]) < Buffer
    BY <1>1, <1>2, <2>1 DEF Send, mapVars
  <2>2. CASE ~(Len(ch[s]) < Buffer)
    <3>1. /\ slow' = [slow EXCEPT ![w] = @ \cup {s}] /\ missed' = [missed EXCEPT ![s] = @ \cup {msg[w]}]
          /\ UNCHANGED <<subs, lagged, end>> /\ end[s] # "absent"
      BY <1>0, <1>2, <2>2 DEF Send, mapVars, LoopInv, OpenInv
    <3>2. /\ \A v \in Writers : slow[v] \subseteq slow'[v] /\ slow'[v] \subseteq slow[v] \cup {s}
          /\ s \in slow'[w]
          /\ \A q \in Subs \ {s} : missed'[q] = missed[q]
          /\ missed'[s] # {}
      BY <1>0, <3>1 DEF TypeInv
    <3>3. \A v \in Writers : \A q \in slow'[v] : missed'[q] # {}
      BY <1>0, <3>2 DEF SlowInv, TypeInv
    <3>4. \A q \in subs : missed'[q] # {} => \E v \in Writers : q \in slow'[v]
      BY <1>0, <3>2 DEF SlowInv, TypeInv
    <3>5. QED
      BY <1>0, <3>1, <3>2, <3>3, <3>4 DEF SlowInv
  <2>3. QED
    BY <2>1, <2>2
<1>3. ASSUME NEW w \in Writers, Drop(w) PROVE SlowInv'
  <2> DEFINE S == slow[w] \cap subs
  <2>1. /\ S \in SUBSET Subs /\ Finish(S, TRUE) /\ subs' = subs \ slow[w]
        /\ slow' = [slow EXCEPT ![w] = {}] /\ UNCHANGED <<missed, end>>
    BY <1>0, <1>3 DEF Drop, TypeInv
  <2>2. Finished(S, TRUE)
    BY <1>0, <2>1, FinishEach
  <2>3. \A s \in Subs : lagged'[s] => lagged[s] \/ s \in slow[w]
    BY <2>2 DEF Finished
  <2>4. \A s \in Subs : lagged'[s] => missed[s] # {}
    BY <1>0, <2>3 DEF SlowInv
  <2>5. slow'[w] = {} /\ \A v \in Writers \ {w} : slow'[v] = slow[v]
    BY <1>0, <2>1 DEF TypeInv
  <2>6. \A s \in subs' : missed[s] # {} => \E v \in Writers : s \in slow'[v]
    BY <1>0, <2>1, <2>5 DEF SlowInv
  <2>7. \A v \in Writers : \A s \in slow'[v] : missed[s] # {}
    BY <1>0, <2>5 DEF SlowInv
  <2>8. QED
    BY <1>0, <2>1, <2>4, <2>6, <2>7 DEF SlowInv
<1>4. ASSUME UNCHANGED <<slow, missed>>, NEW S \in SUBSET Subs, Finished(S, FALSE),
             \A s \in subs' : s \in subs \/ missed[s] = {},
             \A s \in Subs : end'[s] = "absent" => end[s] = "absent"
      PROVE  SlowInv'
  <2>1. \A s \in Subs : lagged'[s] => lagged[s]
    BY <1>4 DEF Finished
  <2>2. QED
    BY <1>0, <1>4, <2>1 DEF SlowInv
<1>5. ASSUME NEW s \in Subs, Subscribe(s) PROVE SlowInv'
  <2>1. missed[s] = {} /\ \A q \in Subs : end'[q] = "absent" => end[q] = "absent"
    BY <1>0, <1>5 DEF Subscribe, SlowInv, TypeInv
  <2>2. CASE closed
    <3>1. Finished({s}, FALSE) /\ subs' = subs /\ UNCHANGED <<slow, missed>>
      BY <1>0, <1>5, <2>2, FinishEach DEF Subscribe, loopVars
    <3>2. QED
      BY <1>4, <2>1, <3>1
  <2>3. CASE ~closed
    <3>1. subs' = subs \cup {s} /\ UNCHANGED <<lagged, slow, missed>>
      BY <1>5, <2>3 DEF Subscribe, loopVars
    <3>2. QED
      BY <1>0, <2>1, <3>1 DEF SlowInv
  <2>4. QED
    BY <2>2, <2>3
<1>6. ASSUME NEW s \in Subs, CloseSub(s) PROVE SlowInv'
  <2>1. Finished({s}, FALSE) /\ subs' = subs \ {s} /\ UNCHANGED <<slow, missed, end>>
    BY <1>0, <1>6, FinishEach DEF CloseSub, loopVars
  <2>2. QED
    BY <1>4, <2>1
<1>7. CASE Close
  <2>1. Finished(subs, FALSE) /\ subs' = {} /\ UNCHANGED <<slow, missed, end>>
    BY <1>0, <1>7, FinishEach DEF Close, loopVars, TypeInv
  <2>2. subs \in SUBSET Subs
    BY <1>0 DEF TypeInv
  <2>3. QED
    BY <1>4, <2>1, <2>2
<1>8. ASSUME NEW s \in Subs, ReportEnd(s) PROVE SlowInv'
  BY <1>0, <1>8 DEF ReportEnd, mapVars, loopVars, SlowInv, TypeInv
<1>9. QED
  BY <1>1, <1>2, <1>3, <1>5, <1>6, <1>7, <1>8
  DEF Next, Broadcasting, vars, mapVars, loopVars, Begin, EndSend, Receive

\* The subscriptions that ended for lagging.
Dropped == {s \in Subs : lagged[s]}

\* Every step keeps the count of the dropped.
LEMMA CountNext == Inv /\ [Next]_vars => CountInv'
<1> SUFFICES ASSUME Inv, [Next]_vars PROVE CountInv'
  OBVIOUS
<1>0. TypeInv /\ OpenInv /\ drops = Cardinality(Dropped)
  BY DEF Inv, CountInv, Dropped
<1>1. SUFFICES drops' = Cardinality(Dropped')
  BY DEF CountInv, Dropped
<1>2. CASE UNCHANGED <<drops, lagged>>
  BY <1>0, <1>2 DEF Dropped
<1>3. IsFiniteSet(Dropped) /\ Cardinality(Dropped) \in Nat
  <2>1. Dropped \in SUBSET Subs
    BY DEF Dropped
  <2>2. QED
    BY <2>1, MapChanAssumption, FS_Subset, FS_CardinalityType
<1>4. ASSUME NEW w \in Writers, Drop(w) PROVE drops' = Cardinality(Dropped')
  <2> DEFINE S == slow[w] \cap subs
  <2>1. S \in SUBSET Subs /\ Finish(S, TRUE) /\ drops' = drops + Cardinality(S)
    BY <1>0, <1>4 DEF Drop, TypeInv
  <2>2. Finished(S, TRUE)
    BY <1>0, <2>1, FinishEach
  <2>3. \A s \in S : ~shut[s]
    BY <1>0 DEF OpenInv
  <2>4. IsFiniteSet(S) /\ Cardinality(S) \in Nat
    BY <2>1, MapChanAssumption, FS_Subset, FS_CardinalityType
  <2> HIDE DEF S
  <2>5. Dropped' = Dropped \cup S
    BY <2>1, <2>2, <2>3 DEF Finished, Dropped
  <2>6. Dropped \cap S = {}
    BY <1>0, <2>3 DEF OpenInv, Dropped
  <2>7. Cardinality(Dropped') = Cardinality(Dropped) + Cardinality(S)
    <3>1. Cardinality(Dropped \cup S)
             = Cardinality(Dropped) + Cardinality(S) - Cardinality(Dropped \cap S)
      BY <1>3, <2>4, FS_Union
    <3>2. Cardinality(Dropped \cap S) = 0
      BY <2>6, FS_EmptySet
    <3>3. QED
      BY <1>3, <2>4, <2>5, <3>1, <3>2
  <2>8. QED
    BY <1>0, <2>1, <2>7
<1>5. ASSUME drops' = drops, NEW S \in SUBSET Subs, Finished(S, FALSE),
             \A s \in S : lagged[s] => shut[s]
      PROVE  drops' = Cardinality(Dropped')
  <2>1. Dropped' = Dropped
    BY <1>5 DEF Finished, Dropped, Inv, OpenInv
  <2>2. QED
    BY <1>0, <1>5, <2>1
<1>6. \A s \in Subs : lagged[s] => shut[s]
  BY <1>0 DEF OpenInv
<1>7. ASSUME NEW s \in Subs, Subscribe(s) PROVE drops' = Cardinality(Dropped')
  <2>1. CASE closed
    <3>1. Finished({s}, FALSE) /\ drops' = drops
      BY <1>0, <1>7, <2>1, FinishEach DEF Subscribe
    <3>2. {s} \in SUBSET Subs /\ \A q \in {s} : lagged[q] => shut[q]
      BY <1>6
    <3>3. QED
      BY <1>5, <3>1, <3>2
  <2>2. CASE ~closed
    <3>1. drops' = drops /\ lagged' = lagged
      BY <1>7, <2>2 DEF Subscribe
    <3>2. QED
      BY <1>2, <3>1
  <2>3. QED
    BY <2>1, <2>2
<1>8. ASSUME NEW s \in Subs, CloseSub(s) PROVE drops' = Cardinality(Dropped')
  <2>1. Finished({s}, FALSE) /\ drops' = drops
    BY <1>0, <1>8, FinishEach DEF CloseSub
  <2>2. {s} \in SUBSET Subs /\ \A q \in {s} : lagged[q] => shut[q]
    BY <1>6
  <2>3. QED
    BY <1>5, <2>1, <2>2
<1>9. CASE Close
  <2>1. subs \in SUBSET Subs
    BY <1>0 DEF TypeInv
  <2>2. Finished(subs, FALSE) /\ drops' = drops
    BY <1>0, <1>9, <2>1, FinishEach DEF Close
  <2>3. QED
    BY <1>5, <1>6, <2>1, <2>2
<1>10. QED
  BY <1>2, <1>4, <1>7, <1>8, <1>9
  DEF Next, Broadcasting, vars, mapVars, Begin, Send, EndSend, Receive, ReportEnd

\* No step sends to a closed channel.
LEMMA PanicNext == Inv /\ [Next]_vars => ~panicked'
<1> SUFFICES ASSUME Inv, [Next]_vars PROVE ~panicked'
  OBVIOUS
<1>1. ASSUME NEW w \in Writers, NEW s \in Subs, Send(w, s) PROVE ~panicked'
  <2>1. ~shut[s]
    BY <1>1 DEF Send, Inv, LoopInv, OpenInv
  <2>2. QED
    BY <1>1, <2>1 DEF Send, Inv
<1>2. CASE panicked' = panicked
  BY <1>2 DEF Inv
<1>3. QED
  BY <1>1, <1>2
  DEF Next, Broadcasting, vars, Begin, EndSend, Drop, Subscribe, CloseSub, Close, Receive, ReportEnd

\* Init has all of it.
LEMMA Initially == Init => Inv
<1> SUFFICES ASSUME Init PROVE Inv
  OBVIOUS
<1>1. TypeInv
  BY MapChanAssumption DEF Init, TypeInv
<1>2. OpenInv /\ LoopInv /\ SlowInv /\ ~panicked
  BY DEF Init, OpenInv, LoopInv, SlowInv
<1>3. {s \in Subs : lagged[s]} = {}
  BY DEF Init
<1>4. CountInv
  BY <1>3, FS_EmptySet DEF Init, CountInv
<1>5. QED
  BY <1>1, <1>2, <1>4 DEF Inv

\* All of it is invariant.
LEMMA Inductive == Spec => []Inv
<1>1. Inv /\ [Next]_vars => Inv'
  BY TypeNext, OpenNext, LoopNext, SlowNext, CountNext, PanicNext DEF Inv
<1>2. QED
  BY <1>1, Initially, PTL DEF Spec

\* However many broadcasts overlap, none sends to a channel that was closed under it:
\* whoever closes one holds the lock that broadcasts share (broadcast.go:82-106).
THEOREM PanicsNever == Spec => []NeverPanics
<1>1. Inv => NeverPanics
  BY DEF Inv, LoopInv, OpenInv, NeverPanics
<1>2. QED
  BY <1>1, Inductive, PTL

\* Who missed a message is on the list of a broadcast that will drop it, for as long
\* as it is subscribed, though the list is kept over a change of lock (broadcast.go:91).
THEOREM GapsNeverSilent == Spec => []NoSilentGap
<1>1. Inv => NoSilentGap
  BY DEF Inv, SlowInv, NoSilentGap
<1>2. QED
  BY <1>1, Inductive, PTL

\* Each subscription dropped is counted once, and was behind (broadcast.go:97-105).
THEOREM DropsCountedOnce == Spec => []DropsCounted
<1>1. Inv => DropsCounted
  BY DEF Inv, CountInv, SlowInv, DropsCounted
<1>2. QED
  BY <1>1, Inductive, PTL
=============================================================================
