----------------------------- MODULE RingProofs -----------------------------
(***************************************************************************)
(* Ring, proved for any writers, readers, capacity and batch size: it      *)
(* keeps the contract of Fanout, loses no wakeup, counts each sleeper and  *)
(* each subscription once, and drains a subscription before it ends it.    *)
(***************************************************************************)
EXTENDS Ring, FiniteSetTheorems, TLAPS

\* Division with a remainder.
LEMMA Division ==
  ASSUME NEW c \in Nat \ {0}, NEW n \in Nat
  PROVE  /\ n \div c \in Int
         /\ n % c \in 0 .. c - 1
         /\ n = c * (n \div c) + (n % c)
BY SMT

\* No multiple of c but 0 lies strictly within c of 0.
LEMMA NoMultipleBetween ==
  ASSUME NEW a \in Int, NEW b \in Int, NEW c \in Nat, c * a < c * b, c * b < c * a + c
  PROVE  FALSE
<1>1. a < b
  <2> SUFFICES ASSUME a >= b PROVE c * a >= c * b
    OBVIOUS
  <2> DEFINE d == a - b
  <2>1. d \in Nat /\ a = b + d
    OBVIOUS
  <2>2. c * d \in Nat /\ c * a = c * b + c * d
    BY <2>1
  <2> HIDE DEF d
  <2>3. QED
    BY <2>2
<1>2. c * b >= c * (a + 1)
  <2> DEFINE d == b - (a + 1)
  <2>1. d \in Nat /\ b = a + 1 + d
    BY <1>1
  <2>2. c * d \in Nat /\ c * b = c * (a + 1) + c * d
    BY <2>1
  <2> HIDE DEF d
  <2>3. QED
    BY <2>2
<1>3. c * (a + 1) = c * a + c
  OBVIOUS
<1>4. QED
  BY <1>2, <1>3

\* Numbers less than c apart leave different remainders: the slots of a ring do not collide.
LEMMA RemaindersDiffer ==
  ASSUME NEW c \in Nat \ {0}, NEW m \in Nat, NEW n \in Nat, m < n, n < m + c
  PROVE  m % c # n % c
<1> DEFINE a == m \div c
           b == n \div c
           s == m % c
<1>1. SUFFICES ASSUME s = n % c PROVE FALSE
  OBVIOUS
<1>2. a \in Int /\ b \in Int /\ s \in Int
  BY Division
<1>3. m = c * a + s /\ n = c * b + s
  BY <1>1, Division
<1> HIDE DEF a, b, s
<1>4. c * a \in Int /\ c * b \in Int
  BY <1>2
<1>5. c * a < c * b /\ c * b < c * a + c
  BY <1>2, <1>3, <1>4
<1>6. QED
  BY <1>2, <1>5, NoMultipleBetween

\* Messages less than a lap apart never share a slot.
LEMMA SlotsDiffer ==
  ASSUME NEW m \in Nat, NEW n \in Nat, m < n, n < m + Capacity
  PROVE  Slot(m) # Slot(n)
BY RingAssumption, RemaindersDiffer DEF Slot

\* A slot is an index of buf.
LEMMA SlotInRange == ASSUME NEW n \in Nat PROVE Slot(n) \in 0 .. Capacity - 1
BY RingAssumption, Division DEF Slot

\* What a reader's step leaves alone of the others' state.
LEMMA OthersFrame ==
  ASSUME TypeOK, NEW r \in Readers, ReaderNext(r)
  PROVE  /\ \A q \in Readers \ {r} : UNCHANGED <<pos[q], err[q], rpc[q], seen[q], out[q]>>
         /\ UNCHANGED <<lockedVars, writerVars>>
<1> USE DEF TypeOK, RGoto, readerVars
<1>1. CASE Subscribe(r) \/ CloseSub(r) \/ Recv(r) \/ LoadErr(r)
  BY <1>1 DEF Subscribe, CloseSub, Recv, LoadErr, Finish
<1>2. CASE SeeLag(r) \/ Copy(r) \/ SeeClosed(r) \/ Register(r)
  BY <1>2 DEF SeeLag, Copy, SeeClosed, Register
<1>3. CASE Awaken(r) \/ Deregister(r) \/ CountDrop(r) \/ FinishRecv(r)
  BY <1>3 DEF Awaken, Deregister, CountDrop, FinishRecv, Finish
<1>4. QED
  BY <1>1, <1>2, <1>3 DEF ReaderNext, RecvStep

\* What a writer's step leaves alone.
LEMMA WriterFrame ==
  ASSUME NEW w \in Writers, WriterNext(w)
  PROVE  UNCHANGED <<countVars, readerVars>>
BY DEF WriterNext, Broadcast, Close, FireWake

\* Every step keeps the types.
LEMMA TypeNext == TypeOK /\ [Next]_vars => TypeOK'
<1> SUFFICES ASSUME TypeOK, [Next]_vars PROVE TypeOK'
  OBVIOUS
<1>1. ASSUME NEW w \in Writers, WriterNext(w) PROVE TypeOK'
  <2>1. /\ buf' = buf \/ buf' = [buf EXCEPT ![Slot(seq)] = seq]
        /\ seq' \in {seq, seq + 1} /\ (closed' = closed \/ closed' = TRUE) /\ notify' \in {notify, notify + 1}
        /\ wake' = wake \/ wake' = [wake EXCEPT ![w] = notify] \/ wake' = [wake EXCEPT ![w] = None]
        /\ fired' = fired \/ (wake[w] # None /\ fired' = fired \cup {wake[w]})
    <3>1. CASE Broadcast(w)
      BY <3>1 DEF Broadcast, SwapNotify
    <3>2. CASE Close(w)
      BY <3>2 DEF Close, SwapNotify
    <3>3. CASE FireWake(w)
      BY <3>3 DEF FireWake, lockedVars
    <3>4. QED
      BY <1>1, <3>1, <3>2, <3>3 DEF WriterNext
  <2>2. /\ buf' \in [0 .. Capacity - 1 -> Nat] /\ seq' \in Nat /\ closed' \in BOOLEAN
        /\ notify' \in Nat /\ fired' \in SUBSET Nat /\ wake' \in [Writers -> Nat \cup {None}]
    <3>1. /\ buf \in [0 .. Capacity - 1 -> Nat] /\ seq \in Nat /\ closed \in BOOLEAN
          /\ notify \in Nat /\ fired \in SUBSET Nat /\ wake \in [Writers -> Nat \cup {None}]
      BY DEF TypeOK
    <3>2. buf' \in [0 .. Capacity - 1 -> Nat]
      BY <2>1, <3>1
    <3>3. seq' \in Nat /\ notify' \in Nat
      BY <2>1, <3>1
    <3>8. closed' \in BOOLEAN
      BY <2>1, <3>1
    <3>4. wake[w] # None => wake[w] \in Nat
      BY <3>1
    <3>5. fired' \in SUBSET Nat
      BY <2>1, <3>1, <3>4
    <3>6. wake' \in [Writers -> Nat \cup {None}]
      BY <2>1, <3>1
    <3>7. QED
      BY <3>2, <3>3, <3>5, <3>6, <3>8
  <2>3. UNCHANGED <<countVars, readerVars>>
    BY <1>1, WriterFrame
  <2>4. QED
    BY <2>1, <2>2, <2>3 DEF TypeOK, countVars, readerVars
<1>2. ASSUME NEW r \in Readers, ReaderNext(r) PROVE TypeOK'
  <2>1. UNCHANGED <<lockedVars, writerVars>>
    BY <1>2, OthersFrame
  <2>2. rpc' \in [Readers -> Labels]
    <3>1. \E l \in Labels : rpc' = [rpc EXCEPT ![r] = l]
      <4>1. CASE rpc' = rpc
        BY <4>1 DEF TypeOK
      <4>2. QED
        BY <1>2, <4>1 DEF ReaderNext, RecvStep, RGoto, Subscribe, CloseSub, Recv, LoadErr, SeeLag,
             Copy, SeeClosed, Register, Awaken, Deregister, CountDrop, FinishRecv, Labels
    <3>2. QED
      BY <3>1 DEF TypeOK
  <2>3. err' \in [Readers -> {NoErr, ErrClosed, ErrLagged}] /\ subs' \in Int
    <3>1. /\ err' = err \/ \E e \in {NoErr, ErrClosed, ErrLagged} : err' = [err EXCEPT ![r] = e]
          /\ subs' \in {subs, subs + 1, subs - 1}
      BY <1>2 DEF ReaderNext, RecvStep, Finish, Subscribe, CloseSub, Recv, LoadErr, SeeLag,
           Copy, SeeClosed, Register, Awaken, Deregister, CountDrop, FinishRecv, countVars
    <3>2. err \in [Readers -> {NoErr, ErrClosed, ErrLagged}] /\ subs \in Int
      BY DEF TypeOK
    <3>3. subs' \in Int
      BY <3>1, <3>2
    <3>4. QED
      BY <3>1, <3>2, <3>3
  <2>4. waiters' \in Int /\ drops' \in Nat /\ seen' \in [Readers -> Nat]
    BY <1>2 DEF TypeOK, ReaderNext, RecvStep, Subscribe, CloseSub, Recv, LoadErr, SeeLag,
         Copy, SeeClosed, Register, Awaken, Deregister, CountDrop, FinishRecv, countVars
  <2>5. pos' \in [Readers -> Nat] /\ out' \in [Readers -> Seq(Nat)]
    <3>1. CASE Copy(r)
      <4>1. Count(r) \in Nat
        BY <3>1, RingAssumption DEF Copy, Count, TypeOK
      <4>2. \A i \in 1 .. Count(r) : buf[Slot(pos[r] + i - 1)] \in Nat
        <5>1. \A i \in 1 .. Count(r) : pos[r] + i - 1 \in Nat
          BY <4>1 DEF TypeOK
        <5>2. QED
          BY <5>1, SlotInRange DEF TypeOK
      <4> DEFINE run == [i \in 1 .. Count(r) |-> buf[Slot(pos[r] + i - 1)]]
      <4>3. run \in Seq(Nat) /\ out' = [out EXCEPT ![r] = run]
        BY <3>1, <4>1, <4>2 DEF Copy
      <4> HIDE DEF run
      <4>4. out' \in [Readers -> Seq(Nat)]
        BY <4>3 DEF TypeOK
      <4>5. pos' \in [Readers -> Nat]
        BY <3>1, <4>1 DEF Copy, TypeOK
      <4>6. QED
        BY <4>4, <4>5
    <3>2. CASE out' = out /\ (pos' = pos \/ pos' = [pos EXCEPT ![r] = seq])
      BY <3>2 DEF TypeOK
    <3>3. Copy(r) \/ (out' = out /\ (pos' = pos \/ pos' = [pos EXCEPT ![r] = seq]))
      BY <1>2 DEF ReaderNext, RecvStep, Subscribe, CloseSub, Recv, LoadErr, SeeLag,
           SeeClosed, Register, Awaken, Deregister, CountDrop, FinishRecv
    <3>4. QED
      BY <3>1, <3>2, <3>3
  <2>6. QED
    BY <2>1, <2>2, <2>3, <2>4, <2>5 DEF TypeOK, lockedVars, writerVars
<1>3. CASE UNCHANGED vars
  BY <1>3 DEF TypeOK, vars, lockedVars, countVars, writerVars, readerVars
<1>4. QED
  BY <1>1, <1>2, <1>3 DEF Next

\* Init has the types.
LEMMA TypeInit == Init => TypeOK
<1> SUFFICES ASSUME Init PROVE TypeOK
  OBVIOUS
<1>1. /\ buf \in [0 .. Capacity - 1 -> Nat] /\ wake \in [Writers -> Nat \cup {None}]
      /\ pos \in [Readers -> Nat] /\ seen \in [Readers -> Nat]
  BY DEF Init
<1>2. rpc \in [Readers -> Labels] /\ err \in [Readers -> {NoErr, ErrClosed, ErrLagged}]
  BY DEF Init, Labels
<1>3. out \in [Readers -> Seq(Nat)]
  BY DEF Init
<1>4. /\ seq \in Nat /\ notify \in Nat /\ fired \in SUBSET Nat
      /\ waiters \in Int /\ subs \in Int /\ drops \in Nat
  BY DEF Init
<1>5. closed \in BOOLEAN
  BY DEF Init
<1>6. QED
  BY <1>1, <1>2, <1>3, <1>4, <1>5 DEF TypeOK

-----------------------------------------------------------------------------
(* The window, and what a reader about to end its subscription knows. *)

\* A reader that saw the ring closed had been given everything.
EndedInv == \A r \in Readers : rpc[r] = "ended" => closed /\ seq = pos[r]

Inv == TypeOK /\ WindowInv /\ EndedInv

\* Each conjunct of WindowInv and EndedInv that is about one reader.
ReaderOK(r) ==
  /\ pos[r] <= seq
  /\ rpc[r] \in {"lag", "lagged"} => seq - pos[r] > Capacity
  /\ rpc[r] = "absent" => err[r] = NoErr
  /\ rpc[r] = "ended" => closed /\ seq = pos[r]

\* Every step keeps the window, and what a reader on its way out was given.
LEMMA WindowNext == Inv /\ [Next]_vars => WindowInv' /\ EndedInv'
<1> SUFFICES ASSUME Inv, [Next]_vars PROVE WindowInv' /\ EndedInv'
  OBVIOUS
<1>1. /\ \A r \in Readers : ReaderOK(r)
      /\ \A n \in 0 .. seq - 1 : n + Capacity >= seq => buf[Slot(n)] = n
      /\ TypeOK /\ Capacity \in Nat \ {0} /\ Batch \in Nat \ {0}
  BY RingAssumption DEF Inv, WindowInv, EndedInv, ReaderOK
<1>2. SUFFICES /\ \A r \in Readers : ReaderOK(r)'
               /\ \A n \in 0 .. seq' - 1 : n + Capacity >= seq' => buf'[Slot(n)] = n
  BY DEF WindowInv, EndedInv, ReaderOK
<1>3. ASSUME NEW w \in Writers, Broadcast(w)
      PROVE  /\ \A r \in Readers : ReaderOK(r)'
             /\ \A n \in 0 .. seq' - 1 : n + Capacity >= seq' => buf'[Slot(n)] = n
  <2>1. /\ buf' = [buf EXCEPT ![Slot(seq)] = seq] /\ seq' = seq + 1
        /\ ~closed /\ UNCHANGED <<closed, pos, err, rpc>>
    BY <1>3 DEF Broadcast, readerVars
  <2>2. \A r \in Readers : ReaderOK(r)'
    BY <1>1, <2>1 DEF ReaderOK, TypeOK
  <2>3. ASSUME NEW n \in 0 .. seq' - 1, n + Capacity >= seq' PROVE buf'[Slot(n)] = n
    <3>1. n \in Nat /\ seq \in Nat /\ Slot(n) \in 0 .. Capacity - 1 /\ Slot(seq) \in 0 .. Capacity - 1
      <4>1. n \in Nat /\ seq \in Nat
        BY <1>1, <2>1, <2>3 DEF TypeOK
      <4>2. QED
        BY <4>1, SlotInRange
    <3>2. CASE n = seq
      BY <1>1, <2>1, <3>1, <3>2 DEF TypeOK
    <3>3. CASE n # seq
      <4>1. n < seq /\ seq < n + Capacity
        BY <1>1, <2>1, <2>3, <3>1, <3>3
      <4>2. Slot(n) # Slot(seq)
        BY <3>1, <4>1, SlotsDiffer
      <4>3. buf[Slot(n)] = n
        BY <1>1, <3>1, <4>1
      <4>4. QED
        BY <1>1, <2>1, <3>1, <4>2, <4>3 DEF TypeOK
    <3>4. QED
      BY <3>2, <3>3
  <2>4. QED
    BY <2>2, <2>3
<1>4. ASSUME NEW w \in Writers, Close(w) \/ FireWake(w)
      PROVE  /\ \A r \in Readers : ReaderOK(r)'
             /\ \A n \in 0 .. seq' - 1 : n + Capacity >= seq' => buf'[Slot(n)] = n
  BY <1>1, <1>4 DEF Close, FireWake, ReaderOK, lockedVars, readerVars
<1>5. ASSUME NEW q \in Readers, ReaderNext(q)
      PROVE  /\ \A r \in Readers : ReaderOK(r)'
             /\ \A n \in 0 .. seq' - 1 : n + Capacity >= seq' => buf'[Slot(n)] = n
  <2>1. /\ UNCHANGED <<buf, seq, closed>>
        /\ \A r \in Readers \ {q} : UNCHANGED <<pos[r], err[r], rpc[r]>>
    BY <1>1, <1>5, OthersFrame DEF lockedVars
  <2>2. \A r \in Readers \ {q} : ReaderOK(r)'
    BY <1>1, <2>1 DEF ReaderOK
  <2>3. ReaderOK(q)'
    <3> USE <1>1, <2>1 DEF ReaderOK, TypeOK, RGoto
    <3>1. CASE Subscribe(q)
      BY <3>1 DEF Subscribe
    <3>2. CASE CloseSub(q) \/ Recv(q) \/ LoadErr(q)
      BY <3>2 DEF CloseSub, Recv, LoadErr, Finish
    <3>3. CASE Copy(q)
      BY <3>3 DEF Copy, Count
    <3>4. CASE SeeLag(q) \/ Register(q)
      BY <3>4 DEF SeeLag, Lagged, Register
    <3>5. CASE SeeClosed(q)
      <4>1. seq = pos[q]
        BY <3>5 DEF SeeClosed, Count
      <4>2. QED
        BY <3>5, <4>1 DEF SeeClosed
    <3>6. CASE Awaken(q) \/ Deregister(q) \/ CountDrop(q) \/ FinishRecv(q)
      BY <3>6 DEF Awaken, Deregister, CountDrop, FinishRecv, Finish
    <3>7. QED
      BY <1>5, <3>1, <3>2, <3>3, <3>4, <3>5, <3>6 DEF ReaderNext, RecvStep
  <2>4. QED
    BY <1>1, <2>1, <2>2, <2>3
<1>6. CASE UNCHANGED vars
  BY <1>1, <1>6 DEF vars, lockedVars, readerVars, ReaderOK
<1>7. QED
  BY <1>3, <1>4, <1>5, <1>6 DEF Next, WriterNext

\* The two are invariants, with the types.
LEMMA Inductive == Spec => []Inv
<1>1. Init => Inv
  BY TypeInit, RingAssumption DEF Init, Inv, WindowInv, EndedInv
<1>2. Inv /\ [Next]_vars => Inv'
  BY TypeNext, WindowNext DEF Inv
<1>3. QED
  BY <1>1, <1>2, PTL DEF Spec

\* A subscription the ring's Close ends has been given everything broadcast
\* (ring.go:151-159).
THEOREM DrainsBeforeClosing == Spec => DrainedBeforeClosed
<1>1. Inv /\ [Next]_vars => [\A r \in Readers : rpc[r] = "ended" /\ rpc'[r] = "idle" => seq = pos[r]]_vars
  BY DEF Inv, EndedInv
<1>2. QED
  BY <1>1, Inductive, PTL DEF Spec, DrainedBeforeClosed

-----------------------------------------------------------------------------
(* The counters, and the wakeups that rest on them. *)

Sleepers == {r \in Readers : rpc[r] \in {"asleep", "deregister"}}
Open     == {r \in Readers : rpc[r] # "absent" /\ err[r] = NoErr}

\* Who sleeps and who is subscribed can be counted.
LEMMA SetsFinite ==
  /\ IsFiniteSet(Sleepers) /\ Cardinality(Sleepers) \in Nat
  /\ IsFiniteSet(Open) /\ Cardinality(Open) \in Nat
<1>1. Sleepers \in SUBSET Readers /\ Open \in SUBSET Readers
  BY DEF Sleepers, Open
<1>2. IsFiniteSet(Sleepers) /\ IsFiniteSet(Open)
  BY <1>1, RingAssumption, FS_Subset
<1>3. QED
  BY <1>2, FS_CardinalityType

\* waiters moves with the sleepers, one at a time.
LEMMA WaitersStep ==
  ASSUME TypeOK, waiters = Cardinality(Sleepers), [Next]_vars
  PROVE  waiters' = Cardinality(Sleepers')
<1>1. CASE UNCHANGED <<waiters, Sleepers>>
  BY <1>1
<1>2. ASSUME NEW r \in Readers, ReaderNext(r) PROVE waiters' = Cardinality(Sleepers')
  <2>1. \A q \in Readers \ {r} : rpc'[q] = rpc[q]
    BY <1>2, OthersFrame
  <2>2. CASE Register(r)
    <3>1. rpc[r] = "read" /\ rpc'[r] = "asleep" /\ waiters' = waiters + 1
      BY <2>2 DEF Register, RGoto, TypeOK
    <3>2. Sleepers' = Sleepers \cup {r} /\ r \notin Sleepers
      BY <2>1, <3>1 DEF Sleepers
    <3>3. QED
      BY <3>1, <3>2, SetsFinite, FS_AddElement
  <2>3. CASE Deregister(r)
    <3>1. rpc[r] = "deregister" /\ rpc'[r] = "top" /\ waiters' = waiters - 1
      BY <2>3 DEF Deregister, RGoto, TypeOK
    <3>2. Sleepers' = Sleepers \ {r} /\ r \in Sleepers
      BY <2>1, <3>1 DEF Sleepers
    <3>3. QED
      BY <3>1, <3>2, SetsFinite, FS_RemoveElement
  <2>4. ASSUME waiters' = waiters, rpc'[r] \in {"asleep", "deregister"} <=> r \in Sleepers
        PROVE  waiters' = Cardinality(Sleepers')
    <3>1. Sleepers' = Sleepers
      BY <2>1, <2>4 DEF Sleepers
    <3>2. QED
      BY <2>4, <3>1
  <2>5. Register(r) \/ Deregister(r)
        \/ (waiters' = waiters /\ (rpc'[r] \in {"asleep", "deregister"} <=> r \in Sleepers))
    <3> USE DEF RGoto, Sleepers, TypeOK, countVars
    <3>1. CASE Subscribe(r) \/ CloseSub(r) \/ Recv(r) \/ LoadErr(r)
      BY <3>1 DEF Subscribe, CloseSub, Recv, LoadErr
    <3>2. CASE SeeLag(r) \/ Copy(r) \/ SeeClosed(r)
      BY <3>2 DEF SeeLag, Copy, SeeClosed
    <3>3. CASE Awaken(r) \/ CountDrop(r) \/ FinishRecv(r)
      BY <3>3 DEF Awaken, CountDrop, FinishRecv
    <3>4. QED
      BY <1>2, <3>1, <3>2, <3>3 DEF ReaderNext, RecvStep
  <2>6. QED
    BY <2>2, <2>3, <2>4, <2>5
<1>3. CASE UNCHANGED vars
  BY <1>1, <1>3 DEF vars, countVars, readerVars, Sleepers
<1>4. ASSUME NEW w \in Writers, WriterNext(w) PROVE waiters' = Cardinality(Sleepers')
  BY <1>1, <1>4, WriterFrame DEF countVars, readerVars, Sleepers
<1>5. QED
  BY <1>2, <1>3, <1>4 DEF Next

\* subs moves with the open subscriptions: each leaves once, whoever ends it.
LEMMA SubsStep ==
  ASSUME Inv, subs = Cardinality(Open), [Next]_vars
  PROVE  subs' = Cardinality(Open')
<1>0. TypeOK /\ \A r \in Readers : rpc[r] = "absent" => err[r] = NoErr
  BY DEF Inv, WindowInv
<1>1. CASE UNCHANGED <<subs, Open>>
  BY <1>1
<1>2. ASSUME NEW r \in Readers, ReaderNext(r) PROVE subs' = Cardinality(Open')
  <2>1. \A q \in Readers \ {r} : rpc'[q] = rpc[q] /\ err'[q] = err[q]
    BY <1>0, <1>2, OthersFrame
  <2>2. ASSUME subs' = subs + 1, r \notin Open, rpc'[r] # "absent", err'[r] = NoErr
        PROVE  subs' = Cardinality(Open')
    <3>1. Open' = Open \cup {r}
      BY <2>1, <2>2 DEF Open
    <3>2. QED
      BY <2>2, <3>1, SetsFinite, FS_AddElement
  <2>3. ASSUME subs' = subs - 1, r \in Open, err'[r] # NoErr
        PROVE  subs' = Cardinality(Open')
    <3>1. Open' = Open \ {r}
      BY <2>1, <2>3 DEF Open
    <3>2. QED
      BY <2>3, <3>1, SetsFinite, FS_RemoveElement
  <2>4. ASSUME subs' = subs, (rpc'[r] # "absent" /\ err'[r] = NoErr) <=> r \in Open
        PROVE  subs' = Cardinality(Open')
    <3>1. Open' = Open
      BY <2>1, <2>4 DEF Open
    <3>2. QED
      BY <2>4, <3>1
  <2> USE <1>0 DEF RGoto, Open, TypeOK, countVars, NoErr, ErrClosed, ErrLagged
  <2>5. CASE Subscribe(r) /\ closed
    <3>1. subs' = subs /\ r \notin Open /\ err'[r] # NoErr
      BY <2>5 DEF Subscribe
    <3>2. QED
      BY <2>4, <3>1
  <2>6. CASE Subscribe(r) /\ ~closed
    <3>1. subs' = subs + 1 /\ r \notin Open /\ rpc'[r] # "absent" /\ err'[r] = NoErr
      BY <2>6 DEF Subscribe
    <3>2. QED
      BY <2>2, <3>1
  <2>7. CASE CloseSub(r)
    <3>1. subs' = subs - 1 /\ r \in Open /\ err'[r] # NoErr
      BY <2>7 DEF CloseSub, Finish
    <3>2. QED
      BY <2>3, <3>1
  <2>8. CASE FinishRecv(r)
    <3>1. CASE err[r] = NoErr
      <4>1. subs' = subs - 1 /\ r \in Open /\ err'[r] # NoErr
        BY <2>8, <3>1 DEF FinishRecv, Finish
      <4>2. QED
        BY <2>3, <4>1
    <3>2. CASE err[r] # NoErr
      <4>1. subs' = subs /\ r \notin Open /\ err'[r] # NoErr
        BY <2>8, <3>2 DEF FinishRecv, Finish
      <4>2. QED
        BY <2>4, <4>1
    <3>3. QED
      BY <3>1, <3>2
  <2>9. ASSUME Recv(r) \/ LoadErr(r) \/ SeeLag(r) \/ Copy(r) \/ SeeClosed(r) \/ Register(r)
               \/ Awaken(r) \/ Deregister(r) \/ CountDrop(r)
        PROVE  subs' = subs /\ ((rpc'[r] # "absent" /\ err'[r] = NoErr) <=> r \in Open)
    <3>1. CASE Recv(r) \/ LoadErr(r) \/ SeeLag(r)
      BY <3>1 DEF Recv, LoadErr, SeeLag
    <3>2. CASE Copy(r) \/ SeeClosed(r) \/ Register(r)
      BY <3>2 DEF Copy, SeeClosed, Register
    <3>3. CASE Awaken(r) \/ Deregister(r) \/ CountDrop(r)
      BY <3>3 DEF Awaken, Deregister, CountDrop
    <3>4. QED
      BY <2>9, <3>1, <3>2, <3>3
  <2>10. QED
    BY <1>2, <2>4, <2>5, <2>6, <2>7, <2>8, <2>9 DEF ReaderNext, RecvStep
<1>3. CASE UNCHANGED vars
  BY <1>1, <1>3 DEF vars, countVars, readerVars, Open
<1>4. ASSUME NEW w \in Writers, WriterNext(w) PROVE subs' = Cardinality(Open')
  BY <1>1, <1>4, WriterFrame DEF countVars, readerVars, Open
<1>5. QED
  BY <1>2, <1>3, <1>4 DEF Next

\* Nobody is counted at first.
LEMMA CountsInit == Init => CountedOnce
<1> SUFFICES ASSUME Init PROVE CountedOnce
  OBVIOUS
<1>1. Sleepers = {} /\ Open = {}
  BY DEF Init, Sleepers, Open
<1>2. QED
  BY <1>1, FS_EmptySet DEF Init, CountedOnce, Sleepers, Open

\* Each sleeper is counted while it may sleep, each subscription leaves the count
\* once, whether it lags, is closed by its owner or by the ring (ring.go:192-203).
THEOREM CountedExactlyOnce == Spec => []CountedOnce
<1>1. Inv /\ CountedOnce /\ [Next]_vars => CountedOnce'
  BY WaitersStep, SubsStep DEF Inv, CountedOnce, Sleepers, Open
<1>2. QED
  BY <1>1, CountsInit, Inductive, PTL DEF Spec

\* A sleeper's channel is closed, or about to be, or the current one; and in that
\* case there is nothing yet to wake for.
SleepInv ==
  \A r \in Readers : rpc[r] = "asleep" =>
    \/ seen[r] \in fired
    \/ \E w \in Writers : wake[w] = seen[r]
    \/ seen[r] = notify /\ seq = pos[r] /\ ~closed

\* Every step keeps a sleeper's channel current with nothing to read, or about to be closed.
LEMMA SleepStep ==
  ASSUME TypeOK, CountedOnce, SleepInv, [Next]_vars
  PROVE  SleepInv'
<1> SUFFICES ASSUME NEW r \in Readers, rpc'[r] = "asleep"
             PROVE  \/ seen'[r] \in fired'
                    \/ \E w \in Writers : wake'[w] = seen'[r]
                    \/ seen'[r] = notify' /\ seq' = pos'[r] /\ ~closed'
  BY DEF SleepInv
<1> DEFINE Goal == \/ seen'[r] \in fired'
                   \/ \E w \in Writers : wake'[w] = seen'[r]
                   \/ seen'[r] = notify' /\ seq' = pos'[r] /\ ~closed'
<1>1. ASSUME NEW w \in Writers, WriterNext(w) PROVE Goal
  <2>1. UNCHANGED <<waiters, rpc, seen, pos>>
    BY <1>1, WriterFrame DEF countVars, readerVars
  <2>2. waiters > 0
    <3>1. r \in Sleepers
      BY <2>1 DEF Sleepers
    <3>2. Cardinality(Sleepers) # 0
      BY <3>1, SetsFinite, FS_EmptySet
    <3>3. QED
      BY <3>2, SetsFinite DEF CountedOnce, Sleepers
  <2>3. \/ seen[r] \in fired
        \/ \E v \in Writers : wake[v] = seen[r]
        \/ seen[r] = notify /\ seq = pos[r] /\ ~closed
    BY <2>1 DEF SleepInv
  <2>4. seen[r] # None
    BY DEF TypeOK, None
  <2>5. CASE Broadcast(w) \/ Close(w)
    <3>1. /\ wake' = [wake EXCEPT ![w] = notify] /\ fired' = fired /\ wake[w] = None
      BY <2>2, <2>5 DEF Broadcast, Close, SwapNotify
    <3>2. wake'[w] = notify /\ \A v \in Writers \ {w} : wake'[v] = wake[v]
      BY <3>1 DEF TypeOK
    <3>3. QED
      BY <2>1, <2>3, <2>4, <3>1, <3>2
  <2>6. CASE FireWake(w)
    <3>1. /\ fired' = fired \cup {wake[w]} /\ \A v \in Writers \ {w} : wake'[v] = wake[v]
          /\ UNCHANGED <<notify, seq, closed>>
      BY <2>6 DEF FireWake, TypeOK, lockedVars
    <3>2. QED
      BY <2>1, <2>3, <3>1
  <2>7. QED
    BY <1>1, <2>5, <2>6 DEF WriterNext
<1>2. ASSUME NEW q \in Readers, ReaderNext(q) PROVE Goal
  <2>1. UNCHANGED <<notify, seq, closed, fired, wake>>
    BY <1>2, OthersFrame DEF lockedVars, writerVars
  <2>2. CASE UNCHANGED <<rpc[r], seen[r], pos[r]>>
    BY <2>1, <2>2 DEF SleepInv
  <2>3. CASE q = r
    <3>1. Register(r) \/ UNCHANGED <<rpc[r], seen[r], pos[r]>>
      <4> USE <2>3 DEF RGoto, TypeOK
      <4>1. ~Subscribe(r) /\ ~Recv(r) /\ ~LoadErr(r)
        BY DEF Subscribe, Recv, LoadErr
      <4>2. ~SeeLag(r) /\ ~Copy(r) /\ ~SeeClosed(r)
        BY DEF SeeLag, Copy, SeeClosed
      <4>3. ~Awaken(r) /\ ~Deregister(r) /\ ~CountDrop(r) /\ ~FinishRecv(r)
        BY DEF Awaken, Deregister, CountDrop, FinishRecv
      <4>4. CloseSub(r) => UNCHANGED <<rpc[r], seen[r], pos[r]>>
        BY DEF CloseSub
      <4>5. QED
        BY <1>2, <4>1, <4>2, <4>3, <4>4 DEF ReaderNext, RecvStep
    <3>2. CASE Register(r)
      <4>1. seen'[r] = notify /\ seq = pos[r] /\ ~closed /\ pos' = pos
        BY <3>2, RingAssumption DEF Register, Count, Lagged, TypeOK
      <4>2. QED
        BY <2>1, <4>1
    <3>3. QED
      BY <2>2, <3>1, <3>2
  <2>4. QED
    BY <1>2, <2>2, <2>3, OthersFrame
<1>3. CASE UNCHANGED vars
  BY <1>3 DEF vars, lockedVars, writerVars, readerVars, SleepInv
<1>4. QED
  BY <1>1, <1>2, <1>3 DEF Next

\* No wakeup is lost (ring.go:54-55): a reader that registered under the read lock
\* was counted, or had seen the message.
THEOREM NoWakeupLost == Spec => []NoLostWakeup
<1>1. Init => SleepInv
  BY DEF Init, SleepInv
<1>2. Inv /\ CountedOnce /\ SleepInv /\ [Next]_vars => SleepInv'
  BY SleepStep DEF Inv
<1>3. SleepInv => NoLostWakeup
  BY DEF SleepInv, NoLostWakeup
<1>4. QED
  BY <1>1, <1>2, <1>3, Inductive, CountedExactlyOnce, PTL DEF Spec

-----------------------------------------------------------------------------
(* Every step of the ring is a step of Fanout, or changes nothing it sees. *)

EndOf(r)      == IF rpc[r] = "absent" THEN "absent" ELSE IF err[r] = NoErr THEN "live" ELSE err[r]
Receives(r)   == InRecv(r) /\ rpc[r] # "top"

\* Only Broadcast and Close show: they are Publish and CloseAll.
LEMMA WriterRefines ==
  ASSUME NEW w \in Writers, WriterNext(w)
  PROVE  [Contract!Next]_(Contract!vars)
<1>1. UNCHANGED <<pos, AbsEnd, AbsReceiving, out>>
  BY WriterFrame DEF readerVars, AbsEnd, AbsReceiving, InRecv
<1>2. CASE Broadcast(w)
  <2>1. Contract!Publish
    BY <1>1, <1>2 DEF Broadcast, Contract!Publish
  <2>2. QED
    BY <2>1 DEF Contract!Next
<1>3. CASE Close(w)
  <2>1. Contract!CloseAll
    BY <1>1, <1>3 DEF Close, Contract!CloseAll
  <2>2. QED
    BY <2>1 DEF Contract!Next
<1>4. CASE FireWake(w)
  BY <1>1, <1>4 DEF FireWake, lockedVars, Contract!vars
<1>5. QED
  BY <1>2, <1>3, <1>4 DEF WriterNext

\* A reader's step changes its own entries of the mapped functions only.
LEMMA AbsFrame ==
  ASSUME TypeOK, NEW r \in Readers, ReaderNext(r)
  PROVE  /\ AbsEnd' = [AbsEnd EXCEPT ![r] = EndOf(r)']
         /\ AbsReceiving' = [AbsReceiving EXCEPT ![r] = Receives(r)']
         /\ UNCHANGED <<seq, closed>>
<1>1. \A q \in Readers \ {r} : UNCHANGED <<err[q], rpc[q]>>
  BY OthersFrame
<1>2. \A q \in Readers \ {r} : UNCHANGED <<EndOf(q), InRecv(q), rpc[q]>>
  BY <1>1 DEF EndOf, InRecv
<1>3. UNCHANGED <<seq, closed>>
  BY OthersFrame DEF lockedVars
<1>4. QED
  BY <1>2, <1>3 DEF AbsEnd, AbsReceiving, EndOf, Receives

\* Each step of a reader is its counterpart of Fanout, or shows nothing.
LEMMA ReaderRefines ==
  ASSUME Inv, NEW r \in Readers, ReaderNext(r)
  PROVE  [Contract!Next]_(Contract!vars)
<1>1. /\ AbsEnd' = [AbsEnd EXCEPT ![r] = EndOf(r)']
      /\ AbsReceiving' = [AbsReceiving EXCEPT ![r] = Receives(r)']
      /\ UNCHANGED <<seq, closed>>
  BY AbsFrame DEF Inv
<1>2. AbsEnd[r] = EndOf(r) /\ AbsReceiving[r] = Receives(r)
  BY DEF AbsEnd, AbsReceiving, EndOf, Receives
<1>3. ReaderOK(r) /\ TypeOK /\ Capacity \in Nat \ {0} /\ Batch \in Nat \ {0}
  BY RingAssumption DEF Inv, WindowInv, EndedInv, ReaderOK
<1> USE DEF NoErr, ErrClosed, ErrLagged, RGoto
<1>4. CASE UNCHANGED <<pos, out, EndOf(r), Receives(r)>>
  <2>1. UNCHANGED <<AbsEnd, AbsReceiving>>
    BY <1>1, <1>2, <1>4 DEF AbsEnd, AbsReceiving
  <2>2. QED
    BY <1>1, <1>4, <2>1 DEF Contract!vars
<1>5. ASSUME Recv(r) \/ SeeLag(r) \/ SeeClosed(r) \/ Register(r) \/ Awaken(r) \/ CountDrop(r)
      PROVE  UNCHANGED <<pos, out, EndOf(r), Receives(r)>>
  <2> USE <1>3 DEF EndOf, Receives, InRecv, TypeOK
  <2>1. CASE Recv(r) \/ SeeLag(r)
    BY <2>1 DEF Recv, SeeLag
  <2>2. CASE SeeClosed(r) \/ Register(r)
    BY <2>2 DEF SeeClosed, Register
  <2>3. CASE Awaken(r) \/ CountDrop(r)
    BY <2>3 DEF Awaken, CountDrop
  <2>4. QED
    BY <1>5, <2>1, <2>2, <2>3
<1>6. CASE Subscribe(r)
  <2>1. /\ EndOf(r) = "absent" /\ ~Receives(r) /\ ~Receives(r)' /\ out' = out
        /\ IF closed THEN EndOf(r)' = "closed" /\ pos' = pos
                     ELSE EndOf(r)' = "live" /\ pos' = [pos EXCEPT ![r] = seq]
    BY <1>3, <1>6 DEF Subscribe, EndOf, Receives, InRecv, TypeOK, ReaderOK
  <2>2. AbsReceiving' = AbsReceiving
    BY <1>1, <1>2, <2>1 DEF AbsReceiving
  <2>3. Contract!Subscribe(r)
    BY <1>1, <1>2, <2>1, <2>2 DEF Contract!Subscribe, Contract!Absent, Contract!Live, Contract!Closed
  <2>4. QED
    BY <2>3 DEF Contract!Next
<1>7. CASE CloseSub(r)
  <2>1. /\ EndOf(r) = "live" /\ EndOf(r)' = "closed" /\ Receives(r)' = Receives(r)
        /\ UNCHANGED <<pos, out>>
    BY <1>3, <1>7 DEF CloseSub, Finish, EndOf, Receives, InRecv, TypeOK
  <2>2. AbsReceiving' = AbsReceiving
    BY <1>1, <1>2, <2>1 DEF AbsReceiving
  <2>3. Contract!CloseSub(r)
    BY <1>1, <1>2, <2>1, <2>2 DEF Contract!CloseSub, Contract!Live, Contract!Closed
  <2>4. QED
    BY <2>3 DEF Contract!Next
<1>8. CASE LoadErr(r) /\ err[r] = NoErr
  <2>1. EndOf(r) = "live" /\ EndOf(r)' = EndOf(r) /\ Receives(r)' /\ UNCHANGED <<pos, out>>
    BY <1>3, <1>8 DEF LoadErr, EndOf, Receives, InRecv, TypeOK
  <2>2. AbsEnd' = AbsEnd /\ AbsReceiving' = [AbsReceiving EXCEPT ![r] = TRUE]
    BY <1>1, <1>2, <2>1 DEF AbsEnd
  <2>3. Contract!StartReceiving(r)
    BY <1>1, <1>2, <2>1, <2>2 DEF Contract!StartReceiving, Contract!Live
  <2>4. QED
    BY <2>3 DEF Contract!Next
<1>9. CASE LoadErr(r) /\ err[r] # NoErr
  <2>1. UNCHANGED <<pos, out, EndOf(r), Receives(r)>>
    BY <1>3, <1>9 DEF LoadErr, EndOf, Receives, InRecv, TypeOK
  <2>2. QED
    BY <1>4, <2>1
<1>10. CASE Copy(r)
  <2>1. Count(r) \in 1 .. Batch /\ pos[r] + Count(r) <= seq /\ seq - pos[r] <= Capacity
    BY <1>3, <1>10 DEF Copy, Count, Lagged, TypeOK
  <2>2. \A i \in 1 .. Count(r) : buf[Slot(pos[r] + i - 1)] = pos[r] + i - 1
    <3>1. SUFFICES ASSUME NEW i \in 1 .. Count(r) PROVE buf[Slot(pos[r] + i - 1)] = pos[r] + i - 1
      OBVIOUS
    <3>2. /\ pos[r] + i - 1 \in 0 .. seq - 1
          /\ pos[r] + i - 1 + Capacity >= seq
      <4>1. pos[r] \in Nat /\ seq \in Nat /\ i \in Nat /\ 1 <= i /\ i <= Count(r)
        BY <1>3, <2>1 DEF TypeOK
      <4>2. QED
        BY <1>3, <2>1, <4>1
    <3>3. QED
      BY <3>2 DEF Inv, WindowInv
  <2>3. [i \in 1 .. Count(r) |-> buf[Slot(pos[r] + i - 1)]] = Contract!RunFrom(pos[r], Count(r))
    BY <2>2 DEF Contract!RunFrom
  <2>4. /\ out' = [out EXCEPT ![r] = Contract!RunFrom(pos[r], Count(r))]
        /\ pos' = [pos EXCEPT ![r] = @ + Count(r)]
    BY <1>10, <2>3 DEF Copy
  <2>5. EndOf(r)' = EndOf(r) /\ Receives(r) /\ ~Receives(r)'
    BY <1>3, <1>10 DEF Copy, EndOf, Receives, InRecv, TypeOK
  <2>6. AbsEnd' = AbsEnd /\ AbsReceiving' = [AbsReceiving EXCEPT ![r] = FALSE]
    <3>1. Receives(r)' = FALSE
      BY <2>5 DEF Receives
    <3>2. QED
      BY <1>1, <1>2, <2>5, <3>1 DEF AbsEnd
  <2>7. Contract!Deliver(r, Count(r))
    BY <1>1, <1>2, <2>1, <2>4, <2>5, <2>6 DEF Contract!Deliver
  <2>8. QED
    BY <2>1, <2>7 DEF Contract!Next
<1>11. ASSUME EndOf(r)' = EndOf(r), ~Receives(r)', UNCHANGED <<pos, out>>
       PROVE  [Contract!Next]_(Contract!vars)
  <2>1. AbsEnd' = AbsEnd /\ AbsReceiving' = [AbsReceiving EXCEPT ![r] = FALSE]
    <3>1. Receives(r)' = FALSE
      BY <1>11 DEF Receives
    <3>2. QED
      BY <1>1, <1>2, <1>11, <3>1 DEF AbsEnd
  <2>2. Contract!StopReceiving(r)
    BY <1>1, <1>11, <2>1 DEF Contract!StopReceiving
  <2>3. QED
    BY <2>2 DEF Contract!Next
<1>12. CASE Deregister(r)
  <2>1. EndOf(r)' = EndOf(r) /\ ~Receives(r)' /\ UNCHANGED <<pos, out>>
    BY <1>3, <1>12 DEF Deregister, EndOf, Receives, InRecv, TypeOK
  <2>2. QED
    BY <1>11, <2>1
<1>13. CASE FinishRecv(r)
  <2>1. Receives(r) /\ ~Receives(r)' /\ UNCHANGED <<pos, out>>
    BY <1>3, <1>13 DEF FinishRecv, Receives, InRecv, TypeOK
  <2>2. AbsReceiving' = [AbsReceiving EXCEPT ![r] = FALSE]
    <3>1. Receives(r)' = FALSE
      BY <2>1 DEF Receives
    <3>2. QED
      BY <1>1, <3>1
  <2>3. CASE err[r] # NoErr
    <3>1. EndOf(r)' = EndOf(r)
      BY <1>3, <1>13, <2>3 DEF FinishRecv, Finish, EndOf, TypeOK
    <3>2. QED
      BY <1>11, <2>1, <3>1
  <2>4. CASE err[r] = NoErr /\ rpc[r] = "lagged"
    <3>1. EndOf(r) = "live" /\ EndOf(r)' = "lagged" /\ seq - pos[r] > Capacity
      BY <1>3, <1>13, <2>4 DEF FinishRecv, Finish, EndOf, TypeOK, ReaderOK
    <3>2. Contract!DropLagged(r)
      BY <1>1, <1>2, <2>1, <2>2, <3>1 DEF Contract!DropLagged, Contract!Live, Contract!Lagged
    <3>3. QED
      BY <3>2 DEF Contract!Next
  <2>5. CASE err[r] = NoErr /\ rpc[r] = "ended"
    <3>1. EndOf(r) = "live" /\ EndOf(r)' = "closed" /\ closed
      BY <1>3, <1>13, <2>5 DEF FinishRecv, Finish, EndOf, TypeOK, ReaderOK
    <3>2. Contract!NoticeClosed(r)
      BY <1>1, <1>2, <2>1, <2>2, <3>1 DEF Contract!NoticeClosed, Contract!Live, Contract!Closed
    <3>3. QED
      BY <3>2 DEF Contract!Next
  <2>6. QED
    BY <1>13, <2>3, <2>4, <2>5 DEF FinishRecv
<1>14. QED
  BY <1>4, <1>5, <1>6, <1>7, <1>8, <1>9, <1>10, <1>12, <1>13 DEF ReaderNext, RecvStep

\* The locked ring keeps the contract that the ring without a lock keeps: Fanout.
THEOREM RingImplementsFanout == Spec => ImplementsFanout
<1>1. Init => Contract!Init
  <2>1. ASSUME Init PROVE AbsEnd = [r \in Readers |-> "absent"]
    BY <2>1 DEF Init, AbsEnd
  <2>2. ASSUME Init PROVE AbsReceiving = [r \in Readers |-> FALSE]
    BY <2>2 DEF Init, AbsReceiving, InRecv
  <2>3. QED
    BY <2>1, <2>2 DEF Init, Contract!Init, Contract!Absent
<1>2. Inv /\ [Next]_vars => [Contract!Next]_(Contract!vars)
  <2>1. CASE UNCHANGED vars
    BY <2>1 DEF vars, lockedVars, readerVars, Contract!vars, AbsEnd, AbsReceiving, InRecv
  <2>2. QED
    BY <2>1, WriterRefines, ReaderRefines DEF Next
<1>3. QED
  BY <1>1, <1>2, Inductive, PTL DEF Spec, ImplementsFanout, Contract!Spec
=============================================================================
