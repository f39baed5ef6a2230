---------------------------- MODULE RecordsProofs ----------------------------
(***************************************************************************)
(* What Records keeps for any handlers, speakers, scopes and people.       *)
(***************************************************************************)
EXTENDS Records, FiniteSetTheorems, TLAPS

\* That nothing is queued is no job.
LEMMA NothingIsNoJob == Nothing \notin Jobs
  BY RecordsAssumption DEF Nothing, Jobs, Entries

\* Applying a record keeps the maps' type.
LEMMA ApplyType == ASSUME NEW m \in Maps, NEW j \in Jobs PROVE Apply(m, j) \in Maps
  BY DEF Apply, Set, Clear, Maps, Jobs, Absent

\* So does a sweep.
LEMMA SweptType == ASSUME NEW m \in Maps, NEW t \in Nat PROVE Swept(m, t) \in Maps
  BY DEF Swept, Maps, Absent

\* Counting a late message keeps the counters' type.
LEMMA LateType ==
  ASSUME late \in [Speakers -> [Scopes -> Nat]], CountLate
  PROVE  late' \in [Speakers -> [Scopes -> Nat]]
  BY DEF CountLate

\* Init has the types.
LEMMA TypeInit == Init => TypeOK
  <1> SUFFICES ASSUME Init PROVE TypeOK
    OBVIOUS
  <1>1. mutes \in Maps /\ decided \in Maps /\ kept \in Maps
    BY DEF Init, Empty, Maps, Absent
  <1>2. records \in Seq(Jobs) /\ Len(records) <= RecordQueue
    BY RecordsAssumption DEF Init
  <1>3. /\ speaking \in [Speakers -> Scopes \cup {Nobody}]
        /\ late \in [Speakers -> [Scopes -> Nat]]
        /\ doing \in [Handlers -> Jobs \cup {Nothing}]
    BY DEF Init
  <1> QED BY <1>1, <1>2, <1>3 DEF Init, TypeOK

\* Every step keeps the types.
LEMMA TypeNext == TypeOK /\ [Next]_vars => TypeOK'
  <1> SUFFICES ASSUME TypeOK, [Next]_vars PROVE TypeOK'
    OBVIOUS
  <1>1. CASE UNCHANGED vars
    BY <1>1 DEF TypeOK, vars, actVars, storeVars, workerVars, lifeVars
  <1>2. CASE Next
    <2>0. late' \in [Speakers -> [Scopes -> Nat]]
      BY <1>2, LateType DEF Next, TypeOK
    <2>1. ASSUME NEW h \in Handlers, NEW r \in Reach[h], NEW u \in Nat \cup {Absent}, Act(h, r[1], u)
          PROVE  TypeOK'
      <3> DEFINE j == [entry |-> r[1], until |-> u, late |-> phase = "stopping"]
      <3>1. j \in Jobs
        BY RecordsAssumption DEF Jobs
      <3>2. Apply(mutes, j) \in Maps /\ Apply(decided, j) \in Maps
        BY <3>1, ApplyType DEF TypeOK
      <3>3. mutes' = Apply(mutes, j) /\ decided' = Apply(decided, j) /\ doing' = [doing EXCEPT ![h] = j]
        BY <2>1 DEF Act
      <3> HIDE DEF j
      <3>4. doing' \in [Handlers -> Jobs \cup {Nothing}]
        BY <3>1, <3>3 DEF TypeOK
      <3>5. mutes' \in Maps /\ decided' \in Maps
        BY <3>2, <3>3
      <3> QED BY <2>0, <2>1, <3>4, <3>5 DEF TypeOK, Act, workerVars, lifeVars
    <2>2. ASSUME NEW h \in Handlers, Record(h) PROVE TypeOK'
      <3>1. doing[h] \in Jobs /\ (phase = "stopping") \in BOOLEAN
        BY <2>2 DEF Record, TypeOK
      <3>2. [doing[h] EXCEPT !.late = phase = "stopping"] \in Jobs
        BY <3>1 DEF Jobs
      <3>3. CASE Len(records) < RecordQueue
        <4>1. records' \in Seq(Jobs) /\ Len(records') <= RecordQueue
          <5> DEFINE x == [doing[h] EXCEPT !.late = phase = "stopping"]
          <5>1. x \in Jobs /\ records' = Append(records, x)
            BY <2>2, <3>2, <3>3 DEF Record
          <5> HIDE DEF x
          <5> QED BY <3>3, <5>1, RecordsAssumption DEF TypeOK
        <4> QED BY <2>0, <2>2, <3>3, <4>1 DEF Record, TypeOK, storeVars, workerVars, lifeVars
      <3>4. CASE ~(Len(records) < RecordQueue)
        BY <2>0, <2>2, <3>4 DEF Record, TypeOK, storeVars, workerVars, lifeVars
      <3> QED BY <3>3, <3>4
    <2>13. ASSUME NEW h \in Handlers, Unannounced(h) PROVE TypeOK'
      BY <2>0, <2>13 DEF Unannounced, TypeOK, storeVars, workerVars, lifeVars
    <2>3. ASSUME NEW p \in Speakers, NEW s \in Scopes, Cleared(p, s) PROVE TypeOK'
      BY <2>0, <2>3 DEF Cleared, TypeOK, actVars, storeVars, workerVars, lifeVars
    <2>4. ASSUME NEW p \in Speakers, Speak(p) PROVE TypeOK'
      BY <2>0, <2>4 DEF Speak, TypeOK, actVars, storeVars, workerVars, lifeVars
    <2>5. CASE Sweep
      <3>1. mutes' \in Maps
        BY <2>5, SweptType DEF Sweep, TypeOK
      <3> QED BY <2>0, <2>5, <3>1 DEF Sweep, TypeOK, workerVars, lifeVars
    <2>6. CASE Tick
      BY <2>0, <2>6 DEF Tick, TypeOK, actVars, storeVars, workerVars, lifeVars
    <2>7. CASE Take
      <3>1. /\ job' \in Jobs \cup {Nothing}
            /\ records' \in Seq(Jobs) /\ Len(records') <= RecordQueue
        BY <2>7, RecordsAssumption DEF Take, TypeOK
      <3> QED BY <2>0, <2>7, <3>1 DEF Take, TypeOK, actVars, storeVars, lifeVars
    <2>8. CASE Write
      <3>1. kept' \in Maps
        <4>1. CASE kept' = kept
          BY <4>1 DEF TypeOK
        <4>2. CASE kept' = Apply(kept, job) /\ job \in Jobs
          BY <4>2, ApplyType DEF TypeOK
        <4>3. CASE kept' = Apply(kept, job) /\ job = Nothing
          <5>1. kept' = [kept EXCEPT ![job.entry] = Absent]
            BY <4>3 DEF Apply, Nothing, Clear, Absent
          <5> QED BY <5>1 DEF TypeOK, Maps, Absent
        <4> QED BY <2>8, <4>1, <4>2, <4>3 DEF Write, TypeOK
      <3>2. worker' \in {"run", "write", "drain", "drainWrite", "done"} /\ expired' \in BOOLEAN
        BY <2>8 DEF Write, TypeOK
      <3>3. failed' \in Nat /\ written' \in Nat
        BY <2>8 DEF Write, TypeOK
      <3> QED BY <2>0, <2>8, <3>1, <3>2, <3>3 DEF Write, TypeOK, actVars, storeVars, lifeVars
    <2>9. CASE SeeStop \/ Drained
      BY <2>0, <2>9 DEF SeeStop, Drained, WorkerMoves, TypeOK, actVars, storeVars, lifeVars
    <2>10. CASE Stop \/ Exit \/ Crash
      BY <2>0, <2>10 DEF Stop, Exit, Crash, PhaseMoves, TypeOK, actVars, storeVars, workerVars
    <2>11. CASE Restart
      <3>1. records' \in Seq(Jobs) /\ Len(records') <= RecordQueue
        BY <2>11, RecordsAssumption DEF Restart
      <3> QED BY <2>0, <2>11, <3>1 DEF Restart, TypeOK
    <2>12. ASSUME NEW h \in Handlers, NEW r \in Reach[h] PROVE Deadline(r[2]) \in Nat
      BY RecordsAssumption DEF Deadline, Forever, TypeOK
    <2> QED
      BY <1>2, <2>1, <2>2, <2>3, <2>4, <2>5, <2>6, <2>7, <2>8, <2>9, <2>10, <2>11, <2>12, <2>13
      DEF Next, Step, WorkerStep
  <1> QED BY <1>1, <1>2

\* Every variable keeps its type, and the queue its bound: hooks.go:206-208.
THEOREM TypeCorrect == Spec => []TypeOK
  BY TypeInit, TypeNext, PTL DEF Spec

-----------------------------------------------------------------------------
(* Every act is accounted for *)

\* The worker has a job exactly while it is writing.
JobShape == job # Nothing <=> worker \in {"write", "drainWrite"}

\* The worker has no job at first.
LEMMA JobShapeInit == Init => JobShape
  BY DEF Init, JobShape

\* Every step keeps the worker with a job exactly while it writes one.
LEMMA JobShapeNext == TypeOK /\ JobShape /\ [Next]_vars => JobShape'
  <1> SUFFICES ASSUME TypeOK, JobShape, [Next]_vars PROVE JobShape'
    OBVIOUS
  <1>1. CASE worker' = worker /\ job' = job
    BY <1>1 DEF JobShape
  <1>2. CASE Take
    <2>1. job' \in Jobs
      BY <1>2 DEF Take, TypeOK
    <2> QED BY <1>2, <2>1, NothingIsNoJob DEF Take, JobShape, TypeOK
  <1>3. CASE Write
    BY <1>3 DEF Write, JobShape
  <1>4. CASE SeeStop \/ Drained
    BY <1>4 DEF SeeStop, Drained, WorkerMoves, JobShape
  <1>5. CASE Restart
    BY <1>5 DEF Restart, JobShape
  <1> QED
    BY <1>1, <1>2, <1>3, <1>4, <1>5
    DEF Next, Step, WorkerStep, vars, workerVars, Act, Record, Unannounced, Cleared, Speak, Sweep, Tick,
        Stop, Exit, Crash, PhaseMoves

\* The acts still to be queued can be counted.
LEMMA PendingFinite == IsFiniteSet(Pending) /\ Cardinality(Pending) \in Nat
  <1>1. Pending \subseteq Handlers
    BY DEF Pending
  <1>2. IsFiniteSet(Pending)
    BY <1>1, RecordsAssumption, FS_Subset
  <1> QED BY <1>2, FS_CardinalityType

\* No act was made at first.
LEMMA AccountedInit == Init => EveryActAccounted
  <1> SUFFICES ASSUME Init PROVE EveryActAccounted
    OBVIOUS
  <1>1. Pending = {}
    BY DEF Init, Pending
  <1>2. Cardinality(Pending) = 0
    BY <1>1, FS_EmptySet
  <1> QED BY <1>2 DEF Init, EveryActAccounted, InHand

\* Every step accounts for the act it moves.
LEMMA AccountedNext == TypeOK /\ JobShape /\ EveryActAccounted /\ [Next]_vars => EveryActAccounted'
  <1> SUFFICES ASSUME TypeOK, JobShape, EveryActAccounted, [Next]_vars PROVE EveryActAccounted'
    OBVIOUS
  <1>0. Cardinality(Pending) \in Nat /\ Len(records) \in Nat /\ InHand \in Nat
    BY PendingFinite DEF TypeOK, InHand
  <1>1. CASE UNCHANGED <<acts, unsaid, written, failed, dropped, records, doing, job>>
    BY <1>1 DEF EveryActAccounted, Pending, InHand
  <1>2. ASSUME NEW h \in Handlers, NEW e \in Entries, NEW u \in Nat \cup {Absent}, Act(h, e, u)
        PROVE  EveryActAccounted'
    <2> DEFINE j == [entry |-> e, until |-> u, late |-> phase = "stopping"]
    <2>1. j # Nothing /\ doing' = [doing EXCEPT ![h] = j] /\ doing[h] = Nothing
      <3>1. j \in Jobs
        BY DEF Jobs
      <3> QED BY <1>2, <3>1, NothingIsNoJob DEF Act
    <2> HIDE DEF j
    <2>2. Pending' = Pending \cup {h} /\ h \notin Pending
      BY <2>1 DEF Pending, TypeOK
    <2>3. Cardinality(Pending') = Cardinality(Pending) + 1
      BY <2>2, PendingFinite, FS_AddElement
    <2> QED BY <1>0, <1>2, <2>3 DEF Act, EveryActAccounted, InHand, workerVars, TypeOK
  <1>3. ASSUME NEW h \in Handlers, Record(h) PROVE EveryActAccounted'
    <2>1. Pending' = Pending \ {h} /\ h \in Pending
      BY <1>3 DEF Record, Pending, TypeOK
    <2>2. Cardinality(Pending') = Cardinality(Pending) - 1
      BY <2>1, PendingFinite, FS_RemoveElement
    <2>3. Len(records') + dropped' = Len(records) + dropped + 1
      <3>1. CASE Len(records) < RecordQueue
        <4>1. PICK x : records' = Append(records, x)
          BY <1>3, <3>1 DEF Record
        <4> QED BY <1>3, <3>1, <4>1 DEF Record, TypeOK
      <3>2. CASE ~(Len(records) < RecordQueue)
        BY <1>3, <3>2 DEF Record, TypeOK
      <3> QED BY <3>1, <3>2
    <2>4. UNCHANGED <<acts, unsaid, written, failed, job>> /\ dropped' \in Nat /\ Len(records') \in Nat
      BY <1>3, TypeNext DEF Record, storeVars, workerVars, TypeOK
    <2>5. InHand' = InHand
      BY <2>4 DEF InHand
    <2>6. acts' = acts /\ unsaid' = unsaid /\ written' = written /\ failed' = failed
      BY <2>4
    <2>7. acts = written + failed + unsaid + (Len(records) + dropped) + Cardinality(Pending) + InHand
      BY <1>0 DEF EveryActAccounted, TypeOK
    <2>8. Cardinality(Pending') \in Nat
      BY <1>0, <2>1, PendingFinite, FS_RemoveElement, FS_CardinalityType
    <2>9. acts' = written' + failed' + unsaid' + (Len(records') + dropped') + Cardinality(Pending') + InHand'
      BY <1>0, <2>2, <2>3, <2>4, <2>5, <2>6, <2>7, <2>8 DEF TypeOK
    <2> QED BY <1>0, <2>4, <2>5, <2>6, <2>8, <2>9 DEF EveryActAccounted, TypeOK
  <1>9. ASSUME NEW h \in Handlers, Unannounced(h) PROVE EveryActAccounted'
    <2>1. Pending' = Pending \ {h} /\ h \in Pending
      BY <1>9 DEF Unannounced, Pending, TypeOK
    <2>2. Cardinality(Pending') = Cardinality(Pending) - 1
      BY <2>1, PendingFinite, FS_RemoveElement
    <2>3. UNCHANGED <<acts, written, failed, dropped, records, job>> /\ unsaid' = unsaid + 1
      BY <1>9 DEF Unannounced, storeVars, workerVars
    <2> QED BY <1>0, <2>2, <2>3 DEF EveryActAccounted, InHand, TypeOK
  <1>4. CASE Take
    <2>1. InHand = 0 /\ InHand' = 1
      BY <1>4, JobShapeNext DEF Take, JobShape, InHand
    <2>2. Len(records') = Len(records) - 1
      BY <1>4 DEF Take, TypeOK
    <2>3. UNCHANGED <<acts, unsaid, written, failed, dropped, doing>>
      BY <1>4 DEF Take, actVars
    <2>4. Cardinality(Pending') = Cardinality(Pending)
      BY <2>3 DEF Pending
    <2> QED BY <1>0, <2>1, <2>2, <2>3, <2>4 DEF EveryActAccounted, TypeOK
  <1>5. CASE Write
    <2>1. InHand = 1 /\ InHand' = 0 /\ written' + failed' = written + failed + 1
      BY <1>5 DEF Write, JobShape, InHand, TypeOK
    <2>2. UNCHANGED <<acts, unsaid, records, dropped, doing>> /\ written' \in Nat /\ failed' \in Nat
      BY <1>5 DEF Write, actVars, TypeOK
    <2>3. Cardinality(Pending') = Cardinality(Pending)
      BY <2>2 DEF Pending
    <2>4. acts' = acts /\ unsaid' = unsaid /\ dropped' = dropped /\ Len(records') = Len(records)
      BY <2>2
    <2>5. acts' = (written + failed + 1) + dropped + unsaid + Len(records) + Cardinality(Pending)
      BY <1>0, <2>1, <2>4 DEF EveryActAccounted, TypeOK
    <2>6. written \in Nat /\ failed \in Nat /\ dropped \in Nat /\ unsaid \in Nat
      BY DEF TypeOK
    <2>7. acts' = (written' + failed') + dropped + unsaid + Len(records) + Cardinality(Pending)
      BY <2>1, <2>5
    <2>8. acts' = written' + failed' + dropped' + unsaid' + Len(records') + Cardinality(Pending') + InHand'
      BY <1>0, <2>1, <2>2, <2>3, <2>4, <2>6, <2>7
    <2> QED BY <2>8 DEF EveryActAccounted
  <1>6. CASE Restart
    <2>1. Pending' = {}
      BY <1>6 DEF Restart, Pending
    <2>2. Cardinality(Pending') = 0
      BY <2>1, FS_EmptySet
    <2> QED BY <1>6, <2>2 DEF Restart, EveryActAccounted, InHand
  <1>7. \A h \in Handlers : \A r \in Reach[h] : r[1] \in Entries /\ Deadline(r[2]) \in Nat
    BY RecordsAssumption DEF Deadline, Forever, TypeOK
  <1>8. CASE Next
    BY <1>1, <1>2, <1>3, <1>4, <1>5, <1>6, <1>7, <1>8, <1>9
    DEF Next, Step, WorkerStep, actVars, storeVars, workerVars, Cleared, Speak, Sweep, Tick,
        SeeStop, Drained, WorkerMoves, Stop, Exit, Crash, PhaseMoves
  <1> QED BY <1>1, <1>8 DEF vars, actVars, workerVars

\* No act goes missing between the handler, the queue and the worker, whatever the
\* queue's capacity and however many handlers there are, but the one whose moderator was
\* told that it could not be announced: hooks.go:204-212, moderation.go:86-91.
THEOREM ActsAccounted == Spec => []EveryActAccounted
  <1>1. Init => TypeOK /\ JobShape /\ EveryActAccounted
    BY TypeInit, JobShapeInit, AccountedInit
  <1>2. TypeOK /\ JobShape /\ EveryActAccounted /\ [Next]_vars => (TypeOK /\ JobShape /\ EveryActAccounted)'
    BY TypeNext, JobShapeNext, AccountedNext
  <1> QED BY <1>1, <1>2, PTL DEF Spec

-----------------------------------------------------------------------------
(* A mute is late by one message at most *)

\* What the janitor takes out of the Store is what no longer counts.
Remembered ==
  \A e \in Entries : mutes[e] = decided[e] \/ (mutes[e] = Absent /\ ~Stands(decided[e], now))

\* What is remembered of a sanction says the same as what was decided, at this time.
LEMMA RememberedMeans ==
  ASSUME Remembered, NEW s \in Scopes, NEW k \in Keys
  PROVE  Active(mutes, s, k, now) <=> Active(decided, s, k, now)
  <1>1. \A t \in {s, Global} : Stands(mutes[t, k], now) <=> Stands(decided[t, k], now)
    <2> SUFFICES ASSUME NEW t \in {s, Global}
                 PROVE  Stands(mutes[t, k], now) <=> Stands(decided[t, k], now)
      OBVIOUS
    <2>1. <<t, k>> \in Entries
      BY StoreAssumption DEF Entries
    <2> QED BY <2>1 DEF Remembered, Stands
  <1> QED BY <1>1 DEF Active

\* Every step keeps what is remembered, or forgets what no longer counts.
LEMMA RememberedNext == TypeOK /\ Remembered /\ [Next]_vars => Remembered'
  <1> SUFFICES ASSUME TypeOK, Remembered, [Next]_vars, NEW e \in Entries
               PROVE  mutes'[e] = decided'[e] \/ (mutes'[e] = Absent /\ ~Stands(decided'[e], now'))
    BY DEF Remembered
  <1>1. CASE UNCHANGED <<mutes, decided, now>>
    BY <1>1 DEF Remembered
  <1>2. ASSUME NEW h \in Handlers, NEW f, NEW u, Act(h, f, u)
        PROVE  mutes'[e] = decided'[e] \/ (mutes'[e] = Absent /\ ~Stands(decided'[e], now'))
    BY <1>2 DEF Act, Apply, Set, Clear, Remembered, TypeOK, Maps
  <1>3. CASE Sweep
    BY <1>3 DEF Sweep, Swept, Remembered, Stands, Absent
  <1>4. CASE Tick
    <2>1. mutes' = mutes /\ decided' = decided /\ now' = now + 1 /\ now \in Nat
      BY <1>4 DEF Tick, TypeOK, actVars, storeVars
    <2>2. decided[e] \in Nat \cup {Absent}
      BY DEF TypeOK, Maps
    <2> QED BY <2>1, <2>2 DEF Remembered, Stands, Forever, Absent
  <1>5. CASE Restart
    BY <1>5 DEF Restart
  <1> QED
    BY <1>1, <1>2, <1>3, <1>4, <1>5
    DEF Next, Step, WorkerStep, vars, actVars, storeVars, Record, Unannounced, Cleared, Speak, Take, Write,
        SeeStop, Drained, WorkerMoves, Stop, Exit, Crash, PhaseMoves

\* Who is cleared to speak somewhere has not been late there.
LateInv ==
  \A p \in Speakers : \A s \in Scopes :
    late[p][s] \in {0, 1} /\ (speaking[p] = s => late[p][s] = 0)

\* Every step keeps a speaker's lateness to one message.
LEMMA LateNext == TypeOK /\ Remembered /\ LateInv /\ [Next]_vars => LateInv'
  <1> SUFFICES ASSUME TypeOK, Remembered, LateInv, [Next]_vars, NEW p \in Speakers, NEW s \in Scopes
               PROVE  late'[p][s] \in {0, 1} /\ (speaking'[p] = s => late'[p][s] = 0)
    BY DEF LateInv
  <1>1. CASE UNCHANGED vars
    BY <1>1 DEF vars, LateInv
  <1>2. CASE Next
    <2>1. late'[p][s] = IF ~Active(decided', s, KeyOf[p], now') THEN 0
                        ELSE IF speaking[p] = s /\ speaking'[p] = Nobody /\ phase' = phase
                               THEN late[p][s] + 1
                        ELSE late[p][s]
      BY <1>2 DEF Next, CountLate
    <2>2. s # Nobody
      BY RecordsAssumption
    <2>3. late[p][s] \in {0, 1} /\ (speaking[p] = s => late[p][s] = 0)
      BY DEF LateInv
    <2>4. late'[p][s] \in {0, 1}
      BY <2>1, <2>3
    <2>5. CASE speaking'[p] = speaking[p]
      BY <2>1, <2>2, <2>3, <2>5
    <2>6. ASSUME NEW q \in Speakers, NEW t \in Scopes, Cleared(q, t), speaking'[p] = s
          PROVE  late'[p][s] = 0
      <3>1. CASE p = q
        <4>1. t = s
          BY <2>6, <3>1 DEF Cleared, TypeOK
        <4>2. ~Active(mutes, s, KeyOf[p], now)
          BY <2>6, <3>1, <4>1 DEF Cleared
        <4>3. ~Active(decided, s, KeyOf[p], now)
          BY <4>2, RememberedMeans, RecordsAssumption
        <4>4. decided' = decided /\ now' = now
          BY <2>6 DEF Cleared, actVars, storeVars
        <4> QED BY <2>1, <4>3, <4>4
      <3>2. CASE p # q
        <4>1. speaking'[p] = speaking[p]
          BY <2>6, <3>2 DEF Cleared, TypeOK
        <4> QED BY <2>5, <2>6, <4>1
      <3> QED BY <3>1, <3>2
    <2>7. ASSUME NEW q \in Speakers, Speak(q), speaking'[p] = s PROVE late'[p][s] = 0
      <3>1. speaking'[p] = IF p = q THEN Nobody ELSE speaking[p]
        BY <2>7 DEF Speak, TypeOK
      <3> QED BY <2>2, <2>5, <2>7, <3>1
    <2>8. CASE Restart
      BY <2>2, <2>4, <2>8 DEF Restart
    <2> QED
      BY <1>2, <2>4, <2>5, <2>6, <2>7, <2>8
      DEF Next, Step, WorkerStep, Act, Record, Unannounced, Sweep, Tick, Take, Write, SeeStop, Drained,
          WorkerMoves, Stop, Exit, Crash, PhaseMoves
  <1> QED BY <1>1, <1>2

\* However many moderators mute and lift, in whatever scopes, and whenever the janitor
\* sweeps: a connection gets at most one message past a mute (conn.go:294).
THEOREM MuteIsLateByOne == Spec => []LateByOne
  <1>1. Init => TypeOK /\ Remembered /\ LateInv
    <2>1. Init => Remembered
      BY DEF Init, Remembered
    <2>2. Init => LateInv
      BY RecordsAssumption DEF Init, LateInv
    <2> QED BY <2>1, <2>2, TypeInit
  <1>2. TypeOK /\ Remembered /\ LateInv /\ [Next]_vars => (TypeOK /\ Remembered /\ LateInv)'
    BY TypeNext, RememberedNext, LateNext
  <1>3. LateInv => LateByOne
    BY DEF LateInv, LateByOne
  <1> QED BY <1>1, <1>2, <1>3, PTL DEF Spec

-----------------------------------------------------------------------------
(* A shutdown that has its time leaves nothing behind *)

AllLate == \A i \in 1 .. Len(records) : records[i].late

\* Once the worker is done, main is going down, and what is still queued came late.
WrittenInv ==
  /\ phase = "running" => worker \in {"run", "write"}
  /\ worker = "done" /\ ~expired => AllLate
  /\ phase = "exited" /\ ~crashed => worker = "done"

\* Every step of a shutdown with time left writes, or has written.
LEMMA WrittenNext == TypeOK /\ WrittenInv /\ [Next]_vars => WrittenInv'
  <1> SUFFICES ASSUME TypeOK, WrittenInv, [Next]_vars PROVE WrittenInv'
    OBVIOUS
  <1>1. CASE UNCHANGED <<phase, worker, expired, records, crashed>>
    BY <1>1 DEF WrittenInv, AllLate
  <1>2. ASSUME NEW h \in Handlers, Record(h) PROVE WrittenInv'
    <2>1. UNCHANGED <<phase, worker, expired, crashed>> /\ phase # "exited"
      BY <1>2 DEF Record, workerVars, lifeVars
    <2>2. ASSUME worker = "done", ~expired PROVE AllLate'
      <3>1. phase = "stopping" /\ AllLate
        BY <2>1, <2>2 DEF WrittenInv, TypeOK
      <3>2. CASE Len(records) < RecordQueue
        <4> DEFINE x == [doing[h] EXCEPT !.late = phase = "stopping"]
        <4>1. records' = Append(records, x)
          BY <1>2, <3>2 DEF Record
        <4>2. x \in Jobs /\ x.late
          BY <1>2, <3>1 DEF Record, TypeOK, Jobs
        <4> HIDE DEF x
        <4> QED BY <3>1, <4>1, <4>2 DEF AllLate, TypeOK
      <3>3. CASE ~(Len(records) < RecordQueue)
        BY <1>2, <3>1, <3>3 DEF Record, AllLate
      <3> QED BY <3>2, <3>3
    <2> QED BY <2>1, <2>2 DEF WrittenInv
  <1>3. CASE Take \/ Write
    BY <1>3 DEF Take, Write, WrittenInv, lifeVars
  <1>4. CASE SeeStop \/ Drained
    BY <1>4 DEF SeeStop, Drained, WorkerMoves, WrittenInv, AllLate, lifeVars
  <1>5. CASE Stop \/ Exit \/ Crash
    BY <1>5 DEF Stop, Exit, Crash, PhaseMoves, WrittenInv, AllLate, workerVars
  <1>6. CASE Restart
    BY <1>6 DEF Restart, WrittenInv
  <1> QED
    BY <1>1, <1>2, <1>3, <1>4, <1>5, <1>6
    DEF Next, Step, WorkerStep, vars, workerVars, lifeVars, Act, Unannounced, Cleared, Speak, Sweep,
        Tick

\* However many records there are, and however the stop falls among the handlers and
\* the worker: what was queued before it is with the hook (hooks.go:224-262).
THEOREM ShutdownWrites == Spec => []QueuedIsWritten
  <1>1. Init => TypeOK /\ JobShape /\ WrittenInv
    BY TypeInit, JobShapeInit DEF Init, WrittenInv
  <1>2. TypeOK /\ JobShape /\ WrittenInv /\ [Next]_vars => (TypeOK /\ JobShape /\ WrittenInv)'
    BY TypeNext, JobShapeNext, WrittenNext
  <1>3. JobShape /\ WrittenInv => QueuedIsWritten
    BY DEF JobShape, WrittenInv, AllLate, QueuedIsWritten
  <1> QED BY <1>1, <1>2, <1>3, PTL DEF Spec

-----------------------------------------------------------------------------
(* The hook's store and the Store agree *)

\* No two handlers moderate the same person in the same scope.  Two that did may change
\* the Store in one order and queue their records in the other.
Apart ==
  \A h \in Handlers : \A g \in Handlers \ {h} : \A r \in Reach[h] : \A q \in Reach[g] : r[1] # q[1]

\* What a handler has still to queue is what was last decided about its entry.
PendingInv ==
  \A h \in Handlers : doing[h] # Nothing =>
    /\ \E r \in Reach[h] : r[1] = doing[h].entry
    /\ doing[h].until = decided[doing[h].entry]

Queued(e)  == \E i \in 1 .. Len(records) : records[i].entry = e
Held(e)    == job # Nothing /\ job.entry = e
Awaited(e) == \E h \in Handlers : doing[h] # Nothing /\ doing[h].entry = e
LastOne(i) == \A l \in i + 1 .. Len(records) : records[l].entry # records[i].entry

\* The last word on an entry: in the queue, else with the worker, else in the hook.
LastWord(e) ==
  /\ \A i \in 1 .. Len(records) : records[i].entry = e /\ LastOne(i) => records[i].until = decided[e]
  /\ ~Queued(e) /\ Held(e) => job.until = decided[e]
  /\ ~Queued(e) /\ ~Held(e) => kept[e] = decided[e]

AgreeInv == dropped = 0 /\ failed = 0 /\ unsaid = 0 => \A e \in Entries : Awaited(e) \/ LastWord(e)

\* Every step keeps an act on its way what was decided of its entry, by who may reach it.
LEMMA PendingNext == Apart /\ TypeOK /\ PendingInv /\ [Next]_vars => PendingInv'
  <1> SUFFICES ASSUME Apart, TypeOK, PendingInv, [Next]_vars,
                      NEW g \in Handlers, doing'[g] # Nothing
               PROVE  /\ \E r \in Reach[g] : r[1] = doing'[g].entry
                      /\ doing'[g].until = decided'[doing'[g].entry]
    BY DEF PendingInv
  <1>1. CASE UNCHANGED <<doing, decided>>
    BY <1>1 DEF PendingInv
  <1>2. ASSUME NEW h \in Handlers, NEW r \in Reach[h], NEW u, Act(h, r[1], u)
        PROVE  /\ \E q \in Reach[g] : q[1] = doing'[g].entry
               /\ doing'[g].until = decided'[doing'[g].entry]
    <2>1. r[1] \in Entries
      BY RecordsAssumption
    <2>2. decided' = [decided EXCEPT ![r[1]] = u]
      BY <1>2 DEF Act, Apply, Set, Clear
    <2>3. CASE g = h
      <3>1. doing'[g].entry = r[1] /\ doing'[g].until = u
        BY <1>2, <2>3 DEF Act, TypeOK
      <3> QED BY <2>1, <2>2, <2>3, <3>1 DEF TypeOK, Maps
    <2>4. CASE g # h
      <3>1. doing'[g] = doing[g]
        BY <1>2, <2>4 DEF Act, TypeOK
      <3>2. PICK q \in Reach[g] : q[1] = doing[g].entry
        BY <3>1 DEF PendingInv
      <3>3. doing[g].entry # r[1]
        BY <2>4, <3>2 DEF Apart
      <3>4. doing[g].entry \in Entries
        BY <3>1 DEF TypeOK, Jobs
      <3>5. decided'[doing[g].entry] = decided[doing[g].entry]
        BY <2>2, <3>3, <3>4 DEF TypeOK, Maps
      <3> QED BY <3>1, <3>2, <3>5 DEF PendingInv
    <2> QED BY <2>3, <2>4
  <1>3. ASSUME NEW h \in Handlers, Record(h)
        PROVE  /\ \E q \in Reach[g] : q[1] = doing'[g].entry
               /\ doing'[g].until = decided'[doing'[g].entry]
    <2>1. doing'[g] = doing[g] /\ decided' = decided
      BY <1>3 DEF Record, TypeOK, storeVars
    <2> QED BY <2>1 DEF PendingInv
  <1>5. ASSUME NEW h \in Handlers, Unannounced(h)
        PROVE  /\ \E q \in Reach[g] : q[1] = doing'[g].entry
               /\ doing'[g].until = decided'[doing'[g].entry]
    <2>1. doing'[g] = doing[g] /\ decided' = decided
      BY <1>5 DEF Unannounced, TypeOK, storeVars
    <2> QED BY <2>1 DEF PendingInv
  <1>4. CASE Restart
    BY <1>4 DEF Restart
  <1> QED
    BY <1>1, <1>2, <1>3, <1>4, <1>5
    DEF Next, Step, WorkerStep, vars, actVars, storeVars, Cleared, Speak, Sweep, Tick, Take,
        Write, SeeStop, Drained, WorkerMoves, Stop, Exit, Crash, PhaseMoves

\* Every step keeps the last word on an entry what was decided.
LEMMA AgreeNext ==
  TypeOK /\ JobShape /\ PendingInv /\ AgreeInv /\ [Next]_vars => AgreeInv'
  <1> SUFFICES ASSUME TypeOK, JobShape, PendingInv, AgreeInv, [Next]_vars,
                      dropped' = 0, failed' = 0, unsaid' = 0, NEW e \in Entries
               PROVE  Awaited(e)' \/ LastWord(e)'
    BY DEF AgreeInv
  <1>1. CASE UNCHANGED <<doing, decided, records, job, kept, dropped, failed, unsaid>>
    BY <1>1 DEF AgreeInv, Awaited, LastWord, Queued, Held, LastOne
  <1>2. ASSUME NEW h \in Handlers, NEW f \in Entries, NEW u \in Nat \cup {Absent}, Act(h, f, u)
        PROVE  Awaited(e)' \/ LastWord(e)'
    <2>1. UNCHANGED <<records, job, kept, dropped, failed, unsaid>> /\ doing[h] = Nothing
      BY <1>2 DEF Act, workerVars
    <2>2. CASE e = f
      <3> DEFINE j == [entry |-> f, until |-> u, late |-> phase = "stopping"]
      <3>1. j \in Jobs /\ j.entry = f
        BY DEF Jobs
      <3>2. doing'[h] = j
        BY <1>2 DEF Act, TypeOK
      <3> HIDE DEF j
      <3> QED BY <2>2, <3>1, <3>2, NothingIsNoJob DEF Awaited
    <2>3. CASE e # f
      <3>1. decided'[e] = decided[e]
        BY <1>2, <2>3 DEF Act, Apply, Set, Clear, TypeOK, Maps
      <3>2. CASE Awaited(e)
        <4>1. PICK g \in Handlers : doing[g] # Nothing /\ doing[g].entry = e
          BY <3>2 DEF Awaited
        <4>2. doing'[g] = doing[g]
          BY <1>2, <2>1, <4>1 DEF Act, TypeOK
        <4> QED BY <4>1, <4>2 DEF Awaited
      <3>3. CASE LastWord(e)
        BY <2>1, <3>1, <3>3 DEF LastWord, Queued, Held, LastOne
      <3> QED BY <2>1, <3>2, <3>3 DEF AgreeInv
    <2> QED BY <2>2, <2>3
  <1>3. ASSUME NEW h \in Handlers, Record(h) PROVE Awaited(e)' \/ LastWord(e)'
    <2> DEFINE x == [doing[h] EXCEPT !.late = phase = "stopping"]
    <2>1. doing[h] \in Jobs /\ doing[h] # Nothing
      BY <1>3 DEF Record, TypeOK
    <2>2. x \in Jobs /\ x.entry = doing[h].entry /\ x.until = decided[x.entry]
      BY <2>1 DEF Jobs, PendingInv
    <2>3. UNCHANGED <<decided, job, kept, failed, unsaid>> /\ doing' = [doing EXCEPT ![h] = Nothing]
      BY <1>3 DEF Record, storeVars, workerVars
    <2>4. records' = Append(records, x) /\ dropped' = dropped
      BY <1>3 DEF Record, TypeOK
    <2> HIDE DEF x
    <2>5. /\ Len(records') = Len(records) + 1 /\ Len(records) \in Nat
          /\ \A i \in 1 .. Len(records) : records'[i] = records[i]
          /\ records'[Len(records) + 1] = x
      BY <2>2, <2>4 DEF TypeOK
    <2>6. CASE x.entry = e
      BY <2>2, <2>3, <2>5, <2>6 DEF LastWord, Queued, LastOne
    <2>7. CASE x.entry # e
      <3>1. CASE Awaited(e)
        <4>1. PICK g \in Handlers : doing[g] # Nothing /\ doing[g].entry = e
          BY <3>1 DEF Awaited
        <4>2. doing'[g] = doing[g]
          BY <2>2, <2>3, <2>7, <4>1 DEF TypeOK
        <4> QED BY <4>1, <4>2 DEF Awaited
      <3>2. CASE LastWord(e)
        <4>1. Queued(e)' <=> Queued(e)
          BY <2>5, <2>7 DEF Queued
        <4>2. ASSUME NEW i \in 1 .. Len(records'), records'[i].entry = e, LastOne(i)'
              PROVE  records'[i].until = decided'[e]
          <5>1. i \in 1 .. Len(records) /\ records'[i] = records[i]
            BY <2>5, <2>7, <4>2
          <5>2. LastOne(i)
            BY <2>5, <4>2, <5>1 DEF LastOne
          <5> QED BY <2>3, <3>2, <4>2, <5>1, <5>2 DEF LastWord
        <4> QED BY <2>3, <3>2, <4>1, <4>2 DEF LastWord, Held
      <3> QED BY <2>3, <2>4, <3>1, <3>2 DEF AgreeInv
    <2> QED BY <2>6, <2>7
  <1>8. ASSUME NEW h \in Handlers PROVE ~Unannounced(h)
    BY DEF Unannounced, TypeOK
  <1>4. CASE Take
    <2>1. /\ UNCHANGED <<doing, decided, kept, dropped, failed, unsaid>>
          /\ job = Nothing /\ job' = Head(records) /\ job' # Nothing /\ records' = Tail(records)
      <3>1. Head(records) \in Jobs
        BY <1>4 DEF Take, TypeOK
      <3> QED BY <1>4, <3>1, NothingIsNoJob DEF Take, JobShape, actVars, storeVars
    <2>2. /\ Len(records') = Len(records) - 1 /\ Len(records) \in Nat \ {0}
          /\ \A i \in 1 .. Len(records') : records'[i] = records[i + 1]
          /\ job' = records[1]
      BY <1>4, <2>1 DEF Take, TypeOK
    <2>3. CASE Awaited(e)
      BY <2>1, <2>3 DEF Awaited
    <2>4. CASE LastWord(e)
      <3>1. Queued(e) <=> Queued(e)' \/ Held(e)'
        <4>1. ASSUME NEW i \in 1 .. Len(records), records[i].entry = e PROVE Queued(e)' \/ Held(e)'
          <5>1. CASE i = 1
            BY <2>1, <2>2, <4>1, <5>1 DEF Held
          <5>2. CASE i # 1
            <6>1. i - 1 \in 1 .. Len(records') /\ records'[i - 1] = records[i]
              BY <2>2, <5>2
            <6> QED BY <4>1, <6>1 DEF Queued
          <5> QED BY <5>1, <5>2
        <4>2. ASSUME NEW i \in 1 .. Len(records'), records'[i].entry = e PROVE Queued(e)
          <5>1. i + 1 \in 1 .. Len(records) /\ records[i + 1].entry = e
            BY <2>2, <4>2
          <5> QED BY <5>1 DEF Queued
        <4>3. ASSUME Held(e)' PROVE Queued(e)
          BY <2>2, <4>3 DEF Held, Queued
        <4> QED BY <4>1, <4>2, <4>3 DEF Queued
      <3>2. ASSUME NEW i \in 1 .. Len(records'), records'[i].entry = e, LastOne(i)'
            PROVE  records'[i].until = decided'[e]
        <4>1. i + 1 \in 1 .. Len(records) /\ records'[i] = records[i + 1]
          BY <2>2
        <4>2. ASSUME NEW l \in i + 2 .. Len(records) PROVE records[l].entry # records[i + 1].entry
          <5>1. l - 1 \in i + 1 .. Len(records') /\ records'[l - 1] = records[l]
            BY <2>2
          <5> QED BY <3>2, <4>1, <5>1 DEF LastOne
        <4>3. LastOne(i + 1)
          BY <2>2, <4>1, <4>2 DEF LastOne
        <4> QED BY <2>1, <2>4, <3>2, <4>1, <4>3 DEF LastWord
      <3>3. ASSUME ~Queued(e)', Held(e)' PROVE job'.until = decided'[e]
        <4>1. ASSUME NEW l \in 2 .. Len(records) PROVE records[l].entry # e
          <5>1. l - 1 \in 1 .. Len(records') /\ records'[l - 1] = records[l]
            BY <2>2
          <5> QED BY <3>3, <5>1 DEF Queued
        <4>2. records[1].entry = e
          BY <2>2, <3>3 DEF Held
        <4>3. LastOne(1) /\ 1 \in 1 .. Len(records)
          BY <2>2, <4>1, <4>2 DEF LastOne
        <4> QED BY <2>1, <2>2, <2>4, <4>2, <4>3 DEF LastWord
      <3> QED BY <2>1, <2>4, <3>1, <3>2, <3>3 DEF LastWord, Held
    <2> QED BY <2>1, <2>3, <2>4 DEF AgreeInv
  <1>5. CASE Write
    <2>1. UNCHANGED <<doing, decided, records, dropped, unsaid>> /\ job' = Nothing
      BY <1>5 DEF Write, actVars, storeVars
    <2>2. job \in Jobs /\ job # Nothing
      BY <1>5 DEF Write, JobShape, TypeOK
    <2>3. kept' = Apply(kept, job) /\ failed' = failed
      BY <1>5 DEF Write, TypeOK
    <2>4. kept'[e] = IF job.entry = e THEN job.until ELSE kept[e]
      BY <2>2, <2>3 DEF Apply, Set, Clear, TypeOK, Maps, Jobs
    <2>5. CASE Awaited(e)
      BY <2>1, <2>5 DEF Awaited
    <2>6. CASE LastWord(e)
      BY <2>1, <2>2, <2>4, <2>6 DEF LastWord, Queued, Held, LastOne
    <2> QED BY <2>1, <2>3, <2>5, <2>6 DEF AgreeInv
  <1>6. CASE Restart
    BY <1>6 DEF Restart, LastWord, Queued, Held, LastOne
  <1>7. \A h \in Handlers : \A r \in Reach[h] : r[1] \in Entries /\ Deadline(r[2]) \in Nat
    BY RecordsAssumption DEF Deadline, Forever, TypeOK
  <1> QED
    BY <1>1, <1>2, <1>3, <1>4, <1>5, <1>6, <1>7, <1>8
    DEF Next, Step, WorkerStep, vars, actVars, storeVars, workerVars, Cleared, Speak, Sweep,
        Tick, SeeStop, Drained, WorkerMoves, Stop, Exit, Crash, PhaseMoves

\* With a moderator to each entry, a restart brings back the sanctions in force, no more and
\* no fewer, once nothing is on its way and nothing was lost, nor left without a record
\* because it could not be announced: hooks.go:267, init.go:240, moderation.go:86-91.
THEOREM RestartBringsBack == ASSUME Apart PROVE Spec => []StoreAgrees
  <1>1. Init => TypeOK /\ JobShape /\ Remembered /\ PendingInv /\ AgreeInv
    <2> SUFFICES ASSUME Init PROVE Remembered /\ PendingInv /\ AgreeInv
      BY TypeInit, JobShapeInit
    <2>1. Remembered /\ PendingInv
      BY DEF Init, Remembered, PendingInv
    <2>2. AgreeInv
      BY DEF Init, AgreeInv, LastWord, Queued, Held, LastOne
    <2> QED BY <2>1, <2>2
  <1>2. TypeOK /\ JobShape /\ Remembered /\ PendingInv /\ AgreeInv /\ [Next]_vars
          => (TypeOK /\ JobShape /\ Remembered /\ PendingInv /\ AgreeInv)'
    BY TypeNext, JobShapeNext, RememberedNext, PendingNext, AgreeNext
  <1>3. Remembered /\ AgreeInv => StoreAgrees
    <2> SUFFICES ASSUME Remembered, AgreeInv, Quiet, dropped = 0, failed = 0, unsaid = 0,
                        NEW s \in Scopes, NEW k \in Keys
                 PROVE  Active(kept, s, k, now) <=> Active(mutes, s, k, now)
      BY DEF StoreAgrees
    <2>1. ASSUME NEW e \in Entries PROVE kept[e] = decided[e]
      <3>1. ~Awaited(e) /\ ~Queued(e) /\ ~Held(e)
        BY DEF Quiet, Pending, Awaited, Queued, Held
      <3> QED BY <3>1 DEF AgreeInv, LastWord
    <2>2. \A t \in {s, Global} : <<t, k>> \in Entries
      BY StoreAssumption DEF Entries
    <2>3. Active(kept, s, k, now) <=> Active(decided, s, k, now)
      BY <2>1, <2>2 DEF Active
    <2> QED BY <2>3, RememberedMeans
  <1> QED BY <1>1, <1>2, <1>3, PTL DEF Spec
=============================================================================
