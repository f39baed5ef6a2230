--------------------------- MODULE SeqRingProofs ----------------------------
(***************************************************************************)
(* SeqRing, proved for every number of writers and readers, every capacity *)
(* and every batch size: the type invariant, that each batch a reader      *)
(* returns is intact and the ring keeps the contract of Fanout, and that   *)
(* no wakeup is lost.                                                      *)
(***************************************************************************)
EXTENDS SeqRing, FiniteSetTheorems, TLAPS

\* Division with a remainder.
LEMMA Division ==
  ASSUME NEW c \in Nat \ {0}, NEW n \in Nat
  PROVE  /\ n \div c \in Int
         /\ n % c \in 0 .. c - 1
         /\ n = c * (n \div c) + (n % c)
BY SMT

\* No multiple of c but 0 lies strictly within c of 0.
LEMMA NoMultipleBetween ==
  ASSUME NEW a \in Int, NEW b \in Int, NEW c \in Nat, c * a < c * b, c * b < c * a + c
  PROVE  FALSE
<1>1. a < b
  <2> SUFFICES ASSUME a >= b PROVE c * a >= c * b
    OBVIOUS
  <2> DEFINE d == a - b
  <2>1. d \in Nat /\ a = b + d
    OBVIOUS
  <2>2. c * d \in Nat /\ c * a = c * b + c * d
    BY <2>1
  <2> HIDE DEF d
  <2>3. QED
    BY <2>2
<1>2. c * b >= c * (a + 1)
  <2> DEFINE d == b - (a + 1)
  <2>1. d \in Nat /\ b = a + 1 + d
    BY <1>1
  <2>2. c * d \in Nat /\ c * b = c * (a + 1) + c * d
    BY <2>1
  <2> HIDE DEF d
  <2>3. QED
    BY <2>2
<1>3. c * (a + 1) = c * a + c
  OBVIOUS
<1>4. QED
  BY <1>2, <1>3

\* Numbers less than c apart leave different remainders: the slots of a ring do not collide.
LEMMA RemaindersDiffer ==
  ASSUME NEW c \in Nat \ {0}, NEW m \in Nat, NEW n \in Nat, m < n, n < m + c
  PROVE  m % c # n % c
<1> DEFINE a == m \div c
           b == n \div c
           s == m % c
<1>1. SUFFICES ASSUME s = n % c PROVE FALSE
  OBVIOUS
<1>2. a \in Int /\ b \in Int /\ s \in Int
  BY Division
<1>3. m = c * a + s /\ n = c * b + s
  BY <1>1, Division
<1> HIDE DEF a, b, s
<1>4. c * a \in Int /\ c * b \in Int
  BY <1>2
<1>5. c * a < c * b /\ c * b < c * a + c
  BY <1>2, <1>3, <1>4
<1>6. QED
  BY <1>2, <1>5, NoMultipleBetween

\* Messages less than a lap apart never share a slot.
LEMMA SlotInjective ==
  ASSUME NEW m \in Nat, NEW n \in Nat, m < n, n < m + Capacity
  PROVE  Slot(m) # Slot(n)
BY SeqRingAssumption, RemaindersDiffer DEF Slot

\* A slot is an index of buf.
LEMMA SlotInRange ==
  ASSUME NEW n \in Nat
  PROVE  Slot(n) \in 0 .. Capacity - 1
BY SeqRingAssumption, Division DEF Slot

\* Finishing a subscription keeps the types of what it writes.
LEMMA FinishTypes ==
  ASSUME TypeOK, NEW r \in Readers, NEW e \in {ErrClosed, ErrLagged}, Finish(r, e)
  PROVE  err' \in [Readers -> {NoErr, ErrClosed, ErrLagged}] /\ subs' \in Int
<1>1. err \in [Readers -> {NoErr, ErrClosed, ErrLagged}] /\ subs \in Int
  BY DEF TypeOK
<1>2. CASE err[r] = NoErr
  BY <1>1, <1>2 DEF Finish
<1>3. CASE err[r] # NoErr
  BY <1>1, <1>3 DEF Finish
<1>4. QED
  BY <1>2, <1>3

\* Every step keeps the types.
LEMMA TypeStep ==
  ASSUME TypeOK, [Next]_vars
  PROVE  TypeOK'
<1>1. Capacity \in Nat \ {0} /\ Batch \in Nat \ {0}
  BY SeqRingAssumption
<1> USE <1>1 DEF TypeOK, NoErr, ErrClosed, ErrLagged
<1>0. /\ {"idle", "begin", "slot", "publish", "waiters", "swap", "wake"} \subseteq WriterLabels
      /\ {"cursor", "idle", "top", "load", "drained", "capture", "register", "recheck",
          "recheckClosed", "asleep", "deregister", "copy", "lag", "lagged"} \subseteq ReaderLabels
  BY DEF WriterLabels, ReaderLabels, Locked, Registered
<1>2. ASSUME NEW w \in Writers, BroadcastLock(w) PROVE TypeOK'
  BY <1>2, <1>0 DEF BroadcastLock, WGoto, ringVars, wakeVars, countVars, readerVars
<1>3. ASSUME NEW w \in Writers, CloseRing(w) PROVE TypeOK'
  BY <1>3, <1>0 DEF CloseRing, WGoto, ringVars, wakeVars, countVars, readerVars
<1>4. ASSUME NEW w \in Writers, WriterStep(w) PROVE TypeOK'
  <2>1. CASE StoreBegin(w)
    BY <2>1, <1>0 DEF StoreBegin, WGoto, wakeVars, countVars, readerVars
  <2>2. CASE StoreSlot(w)
    BY <2>2, SlotInRange, <1>0 DEF StoreSlot, WGoto, wakeVars, countVars, readerVars
  <2>3. CASE StorePublished(w)
    BY <2>3, <1>0 DEF StorePublished, WGoto, wakeVars, countVars, readerVars
  <2>4. CASE LoadWaiters(w)
    BY <2>4, <1>0 DEF LoadWaiters, WGoto, ringVars, wakeVars, countVars, readerVars
  <2>5. CASE SwapNotify(w)
    BY <2>5, <1>0 DEF SwapNotify, WGoto, ringVars, countVars, readerVars
  <2>6. CASE FireWake(w)
    BY <2>6, <1>0 DEF FireWake, WGoto, ringVars, countVars, readerVars
  <2>7. QED
    BY <1>4, <2>1, <2>2, <2>3, <2>4, <2>5, <2>6 DEF WriterStep
<1>5. ASSUME NEW r \in Readers, SubscribeCount(r) \/ SubscribeCursor(r) \/ CloseSub(r) \/ Recv(r)
      PROVE  TypeOK'
  <2>1. CASE SubscribeCount(r)
    <3>1. rpc' \in [Readers -> ReaderLabels]
      BY <2>1, <1>0 DEF SubscribeCount, RGoto
    <3>2. err' \in [Readers -> {NoErr, ErrClosed, ErrLagged}] /\ subs' \in Int
      <4>1. err \in [Readers -> {NoErr, ErrClosed, ErrLagged}] /\ subs \in Int
        OBVIOUS
      <4>2. QED
        BY <2>1, <4>1 DEF SubscribeCount, RGoto
    <3>3. QED
      BY <2>1, <3>1, <3>2 DEF SubscribeCount, ringVars, wakeVars, writerVars
  <2>2. CASE SubscribeCursor(r)
    BY <2>2, <1>0 DEF SubscribeCursor, RGoto, ringVars, wakeVars, writerVars, countVars
  <2>3. CASE CloseSub(r)
    <3>1. err' \in [Readers -> {NoErr, ErrClosed, ErrLagged}] /\ subs' \in Int
      BY <2>3, FinishTypes DEF CloseSub
    <3>2. QED
      BY <2>3, <3>1 DEF CloseSub, ringVars, wakeVars, writerVars
  <2>4. CASE Recv(r)
    BY <2>4, <1>0 DEF Recv, RGoto, SharedUnchanged, ringVars, wakeVars, writerVars, countVars
  <2>5. QED
    BY <1>5, <2>1, <2>2, <2>3, <2>4
<1>6. ASSUME NEW r \in Readers, RecvStep(r) PROVE TypeOK'
  <2> USE DEF RGoto, SharedUnchanged, ringVars, wakeVars, writerVars, countVars
  <2>1. CASE LoadErr(r)
    BY <2>1, <1>0 DEF LoadErr
  <2>2. CASE LoadPublished(r)
    <3>1. rpc' \in [Readers -> ReaderLabels]
      BY <2>2, <1>0 DEF LoadPublished
    <3>2. dst' \in [Readers -> Seq(Nat)] /\ pub' \in [Readers -> Nat]
      BY <2>2 DEF LoadPublished
    <3>3. QED
      BY <2>2, <3>1, <3>2 DEF LoadPublished
  <2>3. CASE LoadClosed(r)
    <3>1. err' \in [Readers -> {NoErr, ErrClosed, ErrLagged}] /\ subs' \in Int
      BY <2>3, FinishTypes DEF LoadClosed
    <3>2. rpc' \in [Readers -> ReaderLabels]
      BY <2>3, <1>0 DEF LoadClosed
    <3>3. QED
      BY <2>3, <3>1, <3>2 DEF LoadClosed
  <2>4. CASE CaptureNotify(r)
    BY <2>4, <1>0 DEF CaptureNotify
  <2>5. CASE Register(r)
    BY <2>5, <1>0 DEF Register
  <2>6. CASE RecheckPublished(r)
    BY <2>6, <1>0 DEF RecheckPublished
  <2>7. CASE RecheckClosed(r)
    BY <2>7, <1>0 DEF RecheckClosed
  <2>8. CASE Awaken(r)
    BY <2>8, <1>0 DEF Awaken
  <2>9. CASE Deregister(r)
    BY <2>9, <1>0 DEF Deregister
  <2>10. CASE CopySlot(r)
    <3>1. At(r) \in Nat
      BY DEF At
    <3>2. buf[Slot(At(r))] \in Nat
      BY <3>1, SlotInRange
    <3>3. dst' \in [Readers -> Seq(Nat)]
      BY <2>10, <3>2 DEF CopySlot
    <3>4. QED
      BY <2>10, <3>3 DEF CopySlot
  <2>11. CASE Validate(r)
    <3>1. At(r) \in Nat
      BY DEF At
    <3>2. rpc' \in [Readers -> ReaderLabels]
      BY <2>11, <1>0 DEF Validate
    <3>3. pos' \in [Readers -> Nat] /\ out' \in [Readers -> Seq(Nat)]
      BY <2>11, <3>1 DEF Validate
    <3>4. dst' \in [Readers -> Seq(Nat)]
      BY <2>11 DEF Validate
    <3>5. QED
      BY <2>11, <3>2, <3>3, <3>4 DEF Validate
  <2>12. CASE CountDrop(r)
    BY <2>12, <1>0 DEF CountDrop
  <2>13. CASE FinishLagged(r)
    <3>1. err' \in [Readers -> {NoErr, ErrClosed, ErrLagged}] /\ subs' \in Int
      BY <2>13, FinishTypes DEF FinishLagged
    <3>2. QED
      BY <2>13, <3>1, <1>0 DEF FinishLagged
  <2>14. QED
    BY <1>6, <2>1, <2>2, <2>3, <2>4, <2>5, <2>6, <2>7, <2>8, <2>9, <2>10, <2>11, <2>12, <2>13
       DEF RecvStep
<1>7. CASE UNCHANGED vars
  BY <1>7 DEF vars, ringVars, wakeVars, writerVars, countVars, readerVars
<1>8. QED
  BY <1>2, <1>3, <1>4, <1>5, <1>6, <1>7 DEF Next, WriterNext, ReaderNext

\* Every variable always has its type.
THEOREM TypeCorrect == Spec => []TypeOK
<1>1. Init => TypeOK
  BY SeqRingAssumption
     DEF Init, TypeOK, WriterLabels, ReaderLabels, Locked, Registered, NoErr, ErrClosed, ErrLagged
<1>2. TypeOK /\ [Next]_vars => TypeOK'
  BY TypeStep
<1>3. QED
  BY <1>1, <1>2, PTL DEF Spec

-----------------------------------------------------------------------------
(* What a writer's step, and a reader's, leave alone. *)

\* A reader writes none of the ring, the lock or the notify channels.
LEMMA ReaderFrame ==
  ASSUME NEW r \in Readers, ReaderNext(r)
  PROVE  UNCHANGED <<buf, begin, published, wmu, wpc, wake, closed, notify, fired>>
<1> USE DEF SharedUnchanged, ringVars, wakeVars, writerVars
<1>1. CASE SubscribeCount(r) \/ SubscribeCursor(r) \/ CloseSub(r) \/ Recv(r)
  BY <1>1 DEF SubscribeCount, SubscribeCursor, CloseSub, Recv
<1>2. CASE LoadErr(r) \/ LoadPublished(r) \/ LoadClosed(r) \/ CaptureNotify(r) \/ Register(r)
  BY <1>2 DEF LoadErr, LoadPublished, LoadClosed, CaptureNotify, Register
<1>3. CASE RecheckPublished(r) \/ RecheckClosed(r) \/ Awaken(r) \/ Deregister(r)
  BY <1>3 DEF RecheckPublished, RecheckClosed, Awaken, Deregister
<1>4. CASE CopySlot(r) \/ Validate(r) \/ CountDrop(r) \/ FinishLagged(r)
  BY <1>4 DEF CopySlot, Validate, CountDrop, FinishLagged
<1>5. QED
  BY <1>1, <1>2, <1>3, <1>4 DEF ReaderNext, RecvStep

\* A reader writes nothing of another's.
LEMMA OthersFrame ==
  ASSUME TypeOK, NEW q \in Readers, NEW r \in Readers, q # r, ReaderNext(q)
  PROVE  UNCHANGED <<pos[r], err[r], rpc[r], pub[r], seen[r], dst[r], out[r]>>
<1>1. /\ pos \in [Readers -> Nat] /\ pub \in [Readers -> Nat] /\ seen \in [Readers -> Nat]
      /\ err \in [Readers -> {NoErr, ErrClosed, ErrLagged}]
      /\ dst \in [Readers -> Seq(Nat)] /\ out \in [Readers -> Seq(Nat)]
      /\ rpc \in [Readers -> ReaderLabels]
  BY DEF TypeOK
<1> USE <1>1 DEF SharedUnchanged, RGoto, Finish
<1>2. CASE SubscribeCount(q) \/ SubscribeCursor(q) \/ CloseSub(q) \/ Recv(q)
  BY <1>2 DEF SubscribeCount, SubscribeCursor, CloseSub, Recv
<1>3. CASE LoadErr(q) \/ LoadPublished(q) \/ CaptureNotify(q) \/ Register(q)
  BY <1>3 DEF LoadErr, LoadPublished, CaptureNotify, Register
<1>4. CASE RecheckPublished(q) \/ RecheckClosed(q) \/ Awaken(q) \/ Deregister(q)
  BY <1>4 DEF RecheckPublished, RecheckClosed, Awaken, Deregister
<1>5. CASE CopySlot(q) \/ Validate(q) \/ CountDrop(q)
  BY <1>5 DEF CopySlot, Validate, CountDrop
<1>6. CASE LoadClosed(q) \/ FinishLagged(q)
  BY <1>6 DEF LoadClosed, FinishLagged
<1>7. QED
  BY <1>2, <1>3, <1>4, <1>5, <1>6 DEF ReaderNext, RecvStep

\* A writer writes nothing of a reader's, and its counters only grow.
LEMMA WriterFrame ==
  ASSUME Inv, NEW w \in Writers, WriterNext(w)
  PROVE  /\ UNCHANGED <<readerVars, waiters, subs, drops>>
         /\ published <= published' /\ begin <= begin' /\ notify <= notify'
<1>1. begin \in Nat /\ published \in Nat /\ notify \in Nat
  BY DEF Inv, SeqlockInv, TypeOK
<1>2. \A v \in Writers : wpc[v] \in Locked <=> wmu = v
  BY DEF Inv, SeqlockInv, LockInv
<1> USE <1>1 DEF ringVars, wakeVars, countVars
<1>3. CASE StoreBegin(w)
  <2>1. \A v \in Writers : wpc[v] \notin {"slot", "publish"}
    BY <1>2, <1>3 DEF StoreBegin, Locked
  <2>2. begin = published
    BY <2>1 DEF Inv, SeqlockInv, LockInv
  <2>3. QED
    BY <1>3, <2>2 DEF StoreBegin
<1>4. CASE BroadcastLock(w) \/ CloseRing(w) \/ StoreSlot(w) \/ StorePublished(w)
  BY <1>4 DEF BroadcastLock, CloseRing, StoreSlot, StorePublished
<1>5. CASE LoadWaiters(w) \/ SwapNotify(w) \/ FireWake(w)
  BY <1>5 DEF LoadWaiters, SwapNotify, FireWake
<1>6. QED
  BY <1>3, <1>4, <1>5 DEF WriterNext, WriterStep

-----------------------------------------------------------------------------
(* The lock, and the counters that bracket a slot's write. *)

\* Each step keeps begin, published and the lock's holder in step with each other.
LEMMA LockStep ==
  ASSUME Inv, [Next]_vars
  PROVE  LockInv'
<1>1. /\ wpc \in [Writers -> WriterLabels] /\ wmu \in Writers \cup {NoWriter}
      /\ begin \in Nat /\ published \in Nat
  BY DEF Inv, SeqlockInv, TypeOK
<1>2. NoWriter \notin Writers
  BY SeqRingAssumption
<1> USE <1>1, <1>2 DEF LockInv, Locked, WGoto, Inv, SeqlockInv
<1>3. ASSUME NEW w \in Writers, WriterNext(w) PROVE LockInv'
  <2>1. CASE BroadcastLock(w)
    BY <2>1 DEF BroadcastLock, ringVars
  <2>2. CASE CloseRing(w)
    BY <2>2 DEF CloseRing, ringVars
  <2>3. CASE StoreBegin(w)
    BY <2>3 DEF StoreBegin
  <2>4. CASE StoreSlot(w)
    BY <2>4 DEF StoreSlot
  <2>5. CASE StorePublished(w)
    BY <2>5 DEF StorePublished
  <2>6. CASE LoadWaiters(w)
    BY <2>6 DEF LoadWaiters, ringVars
  <2>7. CASE SwapNotify(w)
    BY <2>7 DEF SwapNotify, ringVars
  <2>8. CASE FireWake(w)
    BY <2>8 DEF FireWake, ringVars
  <2>9. QED
    BY <1>3, <2>1, <2>2, <2>3, <2>4, <2>5, <2>6, <2>7, <2>8 DEF WriterNext, WriterStep
<1>4. ASSUME NEW r \in Readers, ReaderNext(r) PROVE LockInv'
  BY <1>4, ReaderFrame
<1>5. CASE UNCHANGED vars
  BY <1>5 DEF vars, ringVars, writerVars
<1>6. QED
  BY <1>3, <1>4, <1>5 DEF Next

-----------------------------------------------------------------------------
(* The slots. *)

\* Each step keeps the messages still in the window in their slots.
LEMMA SlotStep ==
  ASSUME Inv, [Next]_vars
  PROVE  SlotInv'
<1>1. /\ wpc \in [Writers -> WriterLabels]
      /\ buf \in [0 .. Capacity - 1 -> Nat]
      /\ begin \in Nat /\ published \in Nat
      /\ Capacity \in Nat \ {0}
  BY SeqRingAssumption DEF Inv, SeqlockInv, TypeOK
<1>2. /\ \A n \in 0 .. published - 1 : n + Capacity >= begin => buf[Slot(n)] = n
      /\ \A v \in Writers : wpc[v] = "publish" => buf[Slot(published)] = published
  BY DEF Inv, SeqlockInv, SlotInv
<1>3. ASSUME NEW w \in Writers, WriterNext(w) PROVE SlotInv'
  <2>1. CASE BroadcastLock(w) \/ CloseRing(w)
    BY <1>1, <1>2, <2>1 DEF BroadcastLock, CloseRing, WGoto, SlotInv, ringVars
  <2>2. CASE StoreBegin(w)
    <3>1. begin <= begin' /\ begin' \in Nat
      BY <1>1, <1>3, <2>2, WriterFrame DEF StoreBegin
    <3>2. UNCHANGED <<buf, published>>
      BY <2>2 DEF StoreBegin
    <3>3. \A n \in 0 .. published - 1 : n + Capacity >= begin' => buf[Slot(n)] = n
      BY <1>1, <1>2, <3>1
    <3>4. \A v \in Writers : wpc'[v] = "publish" => wpc[v] = "publish"
      BY <1>1, <2>2 DEF StoreBegin, WGoto
    <3>5. QED
      BY <1>2, <3>2, <3>3, <3>4 DEF SlotInv
  <2>3. CASE StoreSlot(w)
    <3>1. begin = published + 1 /\ UNCHANGED <<begin, published>>
      BY <2>3 DEF StoreSlot, Inv, SeqlockInv, LockInv
    <3>2. Slot(published) \in 0 .. Capacity - 1
      BY <1>1, SlotInRange
    <3>3. buf' = [buf EXCEPT ![Slot(published)] = published]
      BY <2>3 DEF StoreSlot
    <3>4. buf'[Slot(published)] = published
      BY <1>1, <3>2, <3>3
    <3>5. ASSUME NEW n \in 0 .. published - 1, n + Capacity >= begin
          PROVE  buf'[Slot(n)] = n
      <4>1. n \in Nat /\ n < published /\ published < n + Capacity
        BY <1>1, <3>1, <3>5
      <4>2. Slot(n) # Slot(published) /\ Slot(n) \in 0 .. Capacity - 1
        BY <1>1, <4>1, SlotInjective, SlotInRange
      <4>3. QED
        BY <1>1, <1>2, <3>3, <3>5, <4>2
    <3>6. QED
      BY <3>1, <3>4, <3>5 DEF SlotInv
  <2>4. CASE StorePublished(w)
    <3>1. published' = published + 1 /\ UNCHANGED <<buf, begin>>
      BY <2>4 DEF StorePublished
    <3>2. buf[Slot(published)] = published
      BY <1>2, <2>4 DEF StorePublished
    <3>3. ASSUME NEW n \in 0 .. published' - 1, n + Capacity >= begin
          PROVE  buf[Slot(n)] = n
      <4>1. n \in 0 .. published - 1 \/ n = published
        BY <1>1, <3>1
      <4>2. QED
        BY <1>2, <3>2, <3>3, <4>1
    <3>4. \A v \in Writers : wpc'[v] # "publish"
      BY <1>1, <2>4 DEF StorePublished, WGoto, Inv, SeqlockInv, LockInv, Locked
    <3>5. QED
      BY <3>1, <3>3, <3>4 DEF SlotInv
  <2>5. CASE LoadWaiters(w) \/ SwapNotify(w) \/ FireWake(w)
    <3>1. UNCHANGED <<buf, begin, published>>
      BY <2>5 DEF LoadWaiters, SwapNotify, FireWake, ringVars
    <3>2. \A v \in Writers : wpc'[v] = "publish" => wpc[v] = "publish"
      BY <1>1, <2>5 DEF LoadWaiters, SwapNotify, FireWake, WGoto
    <3>3. QED
      BY <1>2, <3>1, <3>2 DEF SlotInv
  <2>6. QED
    BY <1>3, <2>1, <2>2, <2>3, <2>4, <2>5 DEF WriterNext, WriterStep
<1>4. ASSUME NEW r \in Readers, ReaderNext(r) PROVE SlotInv'
  BY <1>2, <1>4, ReaderFrame DEF SlotInv
<1>5. CASE UNCHANGED vars
  BY <1>2, <1>5 DEF vars, ringVars, writerVars, SlotInv
<1>6. QED
  BY <1>3, <1>4, <1>5 DEF Next

-----------------------------------------------------------------------------
(* What a reader has copied. *)

\* CopyInv, for one reader.
CopyOK(r) ==
  /\ rpc[r] \in {"absent", "cursor"} => err[r] = NoErr
  /\ pos[r] <= published
  /\ rpc[r] \in {"lag", "lagged"} => published > pos[r] + Capacity
  /\ rpc[r] = "copy" =>
       /\ pos[r] < pub[r] /\ pub[r] <= published
       /\ At(r) <= pub[r] /\ Len(dst[r]) <= Batch
       /\ \A k \in 1 .. Len(dst[r]) :
            dst[r][k] = pos[r] + k - 1 \/ begin > pos[r] + k - 1 + Capacity

\* Append leaves what was there and puts the new element after it.
LEMMA LastAppended ==
  ASSUME NEW d \in Seq(Nat), NEW v \in Nat
  PROVE  /\ Len(Append(d, v)) = Len(d) + 1
         /\ \A k \in 1 .. Len(d) : Append(d, v)[k] = d[k]
         /\ Append(d, v)[Len(d) + 1] = v
OBVIOUS

\* Each step keeps what readers have copied right, or visibly overtaken by begin.
LEMMA CopyStep ==
  ASSUME Inv, [Next]_vars
  PROVE  CopyInv'
<1>1. /\ pos \in [Readers -> Nat] /\ pub \in [Readers -> Nat]
      /\ dst \in [Readers -> Seq(Nat)] /\ rpc \in [Readers -> ReaderLabels]
      /\ begin \in Nat /\ published \in Nat
      /\ Capacity \in Nat \ {0} /\ Batch \in Nat \ {0}
  BY SeqRingAssumption DEF Inv, SeqlockInv, TypeOK
<1>2. \A r \in Readers : CopyOK(r)
  BY DEF Inv, SeqlockInv, CopyInv, CopyOK
<1>3. SUFFICES ASSUME NEW r \in Readers PROVE CopyOK(r)'
  BY DEF CopyInv, CopyOK
<1>4. CopyOK(r) /\ pos[r] \in Nat /\ pub[r] \in Nat /\ dst[r] \in Seq(Nat)
  BY <1>1, <1>2
<1>5. ASSUME NEW w \in Writers, WriterNext(w) PROVE CopyOK(r)'
  <2>1. UNCHANGED <<pos, err, rpc, pub, dst>> /\ published <= published' /\ begin <= begin'
    BY <1>5, WriterFrame DEF readerVars
  <2>2. published' \in Nat /\ begin' \in Nat
    BY TypeStep DEF Inv, SeqlockInv, TypeOK
  <2>3. QED
    BY <1>1, <1>4, <2>1, <2>2 DEF CopyOK, At
<1>6. ASSUME NEW q \in Readers, q # r, ReaderNext(q) PROVE CopyOK(r)'
  <2>1. UNCHANGED <<begin, published>>
    BY <1>6, ReaderFrame
  <2>2. UNCHANGED <<pos[r], err[r], rpc[r], pub[r], dst[r]>>
    BY <1>6, OthersFrame DEF Inv, SeqlockInv
  <2>3. QED
    BY <1>4, <2>1, <2>2 DEF CopyOK, At
<1>7. ASSUME ReaderNext(r) PROVE CopyOK(r)'
  <2>1. UNCHANGED <<buf, begin, published>>
    BY <1>7, ReaderFrame
  <2> USE <1>1, <2>1 DEF SharedUnchanged, RGoto
  <2>2. CASE SubscribeCursor(r)
    BY <2>2 DEF SubscribeCursor, CopyOK
  <2>3. CASE SubscribeCount(r) \/ Recv(r) \/ LoadErr(r) \/ CaptureNotify(r) \/ Register(r)
    BY <1>4, <2>3 DEF SubscribeCount, Recv, LoadErr, CaptureNotify, Register, CopyOK
  <2>4. CASE LoadClosed(r) \/ RecheckPublished(r) \/ RecheckClosed(r) \/ Awaken(r) \/ Deregister(r)
    BY <1>4, <2>4
       DEF LoadClosed, RecheckPublished, RecheckClosed, Awaken, Deregister, CopyOK
  <2>5. CASE CloseSub(r) \/ CountDrop(r) \/ FinishLagged(r)
    BY <1>4, <2>5 DEF CloseSub, CountDrop, FinishLagged, CopyOK, At
  <2>6. CASE LoadPublished(r)
    <3>1. pub'[r] = published /\ dst'[r] = << >> /\ pos' = pos
      BY <2>6 DEF LoadPublished
    <3>2. rpc'[r] = "copy" => pos[r] < published
      BY <1>4, <2>6 DEF LoadPublished, CopyOK
    <3>3. rpc'[r] \in {"lag", "lagged"} => published > pos[r] + Capacity
      BY <1>4, <2>6 DEF LoadPublished, CopyOK
    <3>4. rpc'[r] \notin {"absent", "cursor"}
      BY <2>6 DEF LoadPublished
    <3>5. QED
      BY <1>4, <3>1, <3>2, <3>3, <3>4 DEF CopyOK, At
  <2>7. CASE CopySlot(r)
    <3> DEFINE n == At(r)
               d == dst[r]
    <3>1. /\ d \in Seq(Nat) /\ Len(d) \in Nat /\ n = pos[r] + Len(d)
          /\ n < pub[r] /\ pub[r] <= published /\ Len(d) < Batch
      BY <1>4, <2>7 DEF CopySlot, MoreToCopy, At, CopyOK
    <3>2. UNCHANGED <<pos, rpc, pub>> /\ dst'[r] = Append(d, buf[Slot(n)])
      BY <2>7 DEF CopySlot
    <3>3. buf[Slot(n)] = n \/ begin > n + Capacity
      <4>1. n \in 0 .. published - 1
        BY <1>4, <3>1
      <4>2. QED
        BY <4>1 DEF Inv, SeqlockInv, SlotInv
    <3>4. buf[Slot(n)] \in Nat
      <4>1. n \in Nat
        BY <1>4, <3>1
      <4>2. Slot(n) \in 0 .. Capacity - 1
        BY <4>1, SlotInRange
      <4>3. buf \in [0 .. Capacity - 1 -> Nat]
        BY DEF Inv, SeqlockInv, TypeOK
      <4>4. QED
        BY <4>2, <4>3
    <3> DEFINE v == buf[Slot(n)]
    <3>0. d = dst[r] /\ v \in Nat /\ dst'[r] = Append(d, v) /\ v = buf[Slot(n)]
      BY <3>2, <3>4
    <3> HIDE DEF d, n, v
    <3>5. /\ Len(dst'[r]) = Len(d) + 1
          /\ \A k \in 1 .. Len(d) : dst'[r][k] = d[k]
          /\ dst'[r][Len(d) + 1] = v
      BY <3>0, <3>1, LastAppended
    <3>6. ASSUME NEW k \in 1 .. Len(dst'[r])
          PROVE  dst'[r][k] = pos[r] + k - 1 \/ begin > pos[r] + k - 1 + Capacity
      <4>1. CASE k \in 1 .. Len(d)
        BY <1>4, <2>7, <3>0, <3>5, <4>1 DEF CopyOK, CopySlot
      <4>2. CASE k = Len(d) + 1
        BY <1>4, <3>0, <3>1, <3>3, <3>5, <4>2
      <4>3. QED
        BY <3>1, <3>5, <4>1, <4>2
    <3>7. At(r)' = n + 1
      BY <3>1, <3>2, <3>5 DEF At
    <3>8. /\ pos'[r] < pub'[r] /\ pub'[r] <= published'
          /\ At(r)' <= pub'[r] /\ Len(dst'[r]) <= Batch
      BY <1>4, <2>7, <3>1, <3>2, <3>5, <3>7 DEF CopySlot
    <3>9. pos'[r] <= published' /\ rpc'[r] = "copy"
      BY <1>4, <2>7, <3>2 DEF CopyOK, CopySlot
    <3>10. QED
      BY <3>2, <3>6, <3>8, <3>9 DEF CopyOK
  <2>8. CASE Validate(r)
    <3>1. At(r) <= published /\ At(r) \in Nat
      BY <1>4, <2>8 DEF Validate, CopyOK, At
    <3>2. pos'[r] = pos[r] \/ pos'[r] = At(r)
      BY <2>8 DEF Validate
    <3>3. rpc'[r] \in {"top", "idle"}
      BY <2>8 DEF Validate
    <3>4. QED
      BY <1>4, <3>1, <3>2, <3>3 DEF CopyOK
  <2>9. QED
    BY <1>7, <2>2, <2>3, <2>4, <2>5, <2>6, <2>7, <2>8 DEF ReaderNext, RecvStep
<1>8. CASE UNCHANGED vars
  BY <1>4, <1>8 DEF vars, ringVars, readerVars, CopyOK, At
<1>9. QED
  BY <1>5, <1>6, <1>7, <1>8 DEF Next

-----------------------------------------------------------------------------
\* The invariant holds at the start, and every step keeps it.
LEMMA Inductive == Spec => []Inv
<1>1. Init => Inv
  <2>1. ASSUME Init PROVE TypeOK
    BY <2>1, SeqRingAssumption
       DEF Init, TypeOK, WriterLabels, ReaderLabels, Locked, Registered, NoErr, ErrClosed, ErrLagged
  <2>2. ASSUME Init PROVE LockInv
    BY <2>2, SeqRingAssumption DEF Init, LockInv, Locked
  <2>3. ASSUME Init PROVE SlotInv
    BY <2>3 DEF Init, SlotInv
  <2>4. ASSUME Init PROVE CopyInv
    BY <2>4 DEF Init, CopyInv
  <2>5. QED
    BY <2>1, <2>2, <2>3, <2>4 DEF Inv, SeqlockInv
<1>2. Inv /\ [Next]_vars => Inv'
  BY TypeStep, LockStep, SlotStep, CopyStep DEF Inv, SeqlockInv
<1>3. QED
  BY <1>1, <1>2, PTL DEF Spec

\* The seqlock's two halves (seqring.go:17-19, 162-180): a slot still in the
\* window holds its own message, and whatever a reader has copied is right
\* unless begin has already moved past it, which Validate will see.
THEOREM SlotsAndCopiesCorrect == Spec => []SeqlockInv
<1>1. Inv => SeqlockInv
  BY DEF Inv
<1>2. QED
  BY <1>1, Inductive, PTL

-----------------------------------------------------------------------------
(* Every step of the ring is a step of Fanout, or changes nothing it sees. *)

\* Only StorePublished and CloseRing show: they are Publish and CloseAll.
LEMMA WriterRefines ==
  ASSUME Inv, NEW w \in Writers, WriterNext(w)
  PROVE  [Contract!Next]_(Contract!vars)
<1>1. UNCHANGED <<pos, err, rpc, out>>
  BY WriterFrame DEF readerVars
<1> USE <1>1 DEF Contract!vars, AbsEnd, EndOf, AbsReceiving, InRecv
<1>2. CASE StorePublished(w)
  <2>1. ~closed
    BY <1>2 DEF StorePublished, Inv, SeqlockInv, LockInv
  <2>2. Contract!Publish
    BY <1>2, <2>1 DEF StorePublished, Contract!Publish
  <2>3. QED
    BY <2>2 DEF Contract!Next
<1>3. CASE CloseRing(w)
  <2>1. Contract!CloseAll
    BY <1>3 DEF CloseRing, Contract!CloseAll, ringVars
  <2>2. QED
    BY <2>1 DEF Contract!Next
<1>4. CASE BroadcastLock(w) \/ StoreBegin(w) \/ StoreSlot(w) \/ LoadWaiters(w)
           \/ SwapNotify(w) \/ FireWake(w)
  BY <1>4 DEF BroadcastLock, StoreBegin, StoreSlot, LoadWaiters, SwapNotify, FireWake, ringVars
<1>5. QED
  BY <1>2, <1>3, <1>4 DEF WriterNext, WriterStep

\* A reader's step changes its own entries of the mapped functions only.
LEMMA AbsFrame ==
  ASSUME TypeOK, NEW r \in Readers, ReaderNext(r)
  PROVE  /\ AbsEnd' = [AbsEnd EXCEPT ![r] = EndOf(r)']
         /\ AbsReceiving' = [AbsReceiving EXCEPT ![r] = (InRecv(r) /\ rpc[r] # "top")']
<1>1. \A q \in Readers \ {r} : UNCHANGED <<err[q], rpc[q]>>
  BY OthersFrame
<1>2. \A q \in Readers \ {r} : UNCHANGED <<EndOf(q), InRecv(q), rpc[q]>>
  BY <1>1 DEF EndOf, InRecv
<1>3. QED
  BY <1>2 DEF AbsEnd, AbsReceiving

\* Each step of a reader is its counterpart of Fanout, or shows nothing.
LEMMA ReaderRefines ==
  ASSUME Inv, NEW r \in Readers, ReaderNext(r)
  PROVE  [Contract!Next]_(Contract!vars)
<1>1. /\ pos \in [Readers -> Nat] /\ rpc \in [Readers -> ReaderLabels]
      /\ err \in [Readers -> {NoErr, ErrClosed, ErrLagged}]
      /\ dst \in [Readers -> Seq(Nat)] /\ out \in [Readers -> Seq(Nat)]
      /\ published \in Nat /\ begin \in Nat /\ Capacity \in Nat \ {0} /\ Batch \in Nat \ {0}
      /\ TypeOK
  BY SeqRingAssumption DEF Inv, SeqlockInv, TypeOK
<1>2. UNCHANGED <<published, closed>> /\ CopyOK(r)
  BY ReaderFrame DEF Inv, SeqlockInv, CopyInv, CopyOK
<1>3. /\ AbsEnd' = [AbsEnd EXCEPT ![r] = EndOf(r)']
      /\ AbsReceiving' = [AbsReceiving EXCEPT ![r] = (InRecv(r) /\ rpc[r] # "top")']
  BY <1>1, AbsFrame
<1>4. AbsEnd[r] = EndOf(r) /\ AbsReceiving[r] = (InRecv(r) /\ rpc[r] # "top")
  BY DEF AbsEnd, AbsReceiving
<1>5. CASE UNCHANGED <<pos, out, EndOf(r), InRecv(r) /\ rpc[r] # "top">>
  <2>1. UNCHANGED <<AbsEnd, AbsReceiving>>
    BY <1>3, <1>4, <1>5 DEF AbsEnd, AbsReceiving
  <2>2. QED
    BY <1>2, <1>5, <2>1 DEF Contract!vars
<1> USE DEF NoErr, ErrClosed, ErrLagged
<1>6. ASSUME Recv(r) \/ (SubscribeCount(r) /\ ~closed) \/ CaptureNotify(r) \/ Register(r)
             \/ RecheckPublished(r) \/ RecheckClosed(r) \/ Awaken(r) \/ CountDrop(r)
             \/ CopySlot(r) \/ LoadPublished(r)
      PROVE  UNCHANGED <<pos, out, EndOf(r), InRecv(r) /\ rpc[r] # "top">>
  <2> USE <1>1 DEF SharedUnchanged, RGoto, EndOf, InRecv
  <2>1. CASE Recv(r) \/ (SubscribeCount(r) /\ ~closed)
    BY <2>1 DEF Recv, SubscribeCount
  <2>2. CASE CaptureNotify(r) \/ Register(r) \/ Awaken(r) \/ CountDrop(r) \/ CopySlot(r)
    BY <2>2 DEF CaptureNotify, Register, Awaken, CountDrop, CopySlot
  <2>3. CASE RecheckPublished(r) \/ RecheckClosed(r)
    BY <2>3 DEF RecheckPublished, RecheckClosed
  <2>4. CASE LoadPublished(r)
    BY <2>4 DEF LoadPublished
  <2>5. QED
    BY <1>6, <2>1, <2>2, <2>3, <2>4
<1>7. CASE SubscribeCount(r) /\ closed
  <2>1. /\ EndOf(r) = "absent" /\ EndOf(r)' = "closed"
        /\ ~(InRecv(r) /\ rpc[r] # "top") /\ ~(InRecv(r) /\ rpc[r] # "top")'
        /\ UNCHANGED <<pos, out>>
    BY <1>1, <1>7 DEF SubscribeCount, RGoto, EndOf, InRecv
  <2>2. AbsReceiving' = AbsReceiving
    BY <1>3, <1>4, <2>1 DEF AbsReceiving
  <2>3. Contract!Subscribe(r)
    BY <1>2, <1>3, <1>4, <1>7, <2>1, <2>2
       DEF Contract!Subscribe, Contract!Absent, Contract!Closed
  <2>4. QED
    BY <2>3 DEF Contract!Next
<1>8. CASE SubscribeCursor(r)
  <2>1. /\ EndOf(r) = "absent" /\ EndOf(r)' = "live"
        /\ ~(InRecv(r) /\ rpc[r] # "top") /\ ~(InRecv(r) /\ rpc[r] # "top")'
        /\ pos' = [pos EXCEPT ![r] = published] /\ out' = out
    BY <1>1, <1>2, <1>8 DEF SubscribeCursor, RGoto, EndOf, InRecv, CopyOK
  <2>2. AbsReceiving' = AbsReceiving
    BY <1>3, <1>4, <2>1 DEF AbsReceiving
  <2>3. Contract!Subscribe(r)
    BY <1>2, <1>3, <1>4, <2>1, <2>2 DEF Contract!Subscribe, Contract!Absent, Contract!Live
  <2>4. QED
    BY <2>3 DEF Contract!Next
<1>9. CASE CloseSub(r)
  <2>1. /\ EndOf(r) = "live" /\ EndOf(r)' = "closed" /\ UNCHANGED <<pos, out, rpc>>
    BY <1>1, <1>9 DEF CloseSub, Finish, EndOf
  <2>2. AbsReceiving' = AbsReceiving
    BY <2>1 DEF AbsReceiving, InRecv
  <2>3. Contract!CloseSub(r)
    BY <1>2, <1>3, <1>4, <2>1, <2>2 DEF Contract!CloseSub, Contract!Live, Contract!Closed
  <2>4. QED
    BY <2>3 DEF Contract!Next
\* What every step that leaves the receiving part of Recv comes to.
<1>10. ASSUME InRecv(r) /\ rpc[r] # "top", ~(InRecv(r) /\ rpc[r] # "top")'
       PROVE  /\ AbsReceiving[r] = TRUE
              /\ AbsReceiving' = [AbsReceiving EXCEPT ![r] = FALSE]
  BY <1>3, <1>4, <1>10
<1>11. ASSUME InRecv(r) /\ rpc[r] # "top", ~(InRecv(r) /\ rpc[r] # "top")',
              EndOf(r)' = EndOf(r), UNCHANGED <<pos, out>>
       PROVE  Contract!Next
  <2>1. AbsEnd' = AbsEnd
    BY <1>3, <1>4, <1>11 DEF AbsEnd
  <2>2. Contract!StopReceiving(r)
    BY <1>2, <1>10, <1>11, <2>1 DEF Contract!StopReceiving
  <2>3. QED
    BY <2>2 DEF Contract!Next
<1>12. CASE LoadErr(r)
  <2>1. CASE err[r] = NoErr
    <3>1. /\ EndOf(r) = "live" /\ EndOf(r)' = "live" /\ UNCHANGED <<pos, out>>
          /\ (InRecv(r) /\ rpc[r] # "top")'
      BY <1>1, <1>12, <2>1 DEF LoadErr, SharedUnchanged, RGoto, EndOf, InRecv
    <3>2. AbsReceiving' = [AbsReceiving EXCEPT ![r] = TRUE] /\ AbsEnd' = AbsEnd
      BY <1>3, <1>4, <3>1 DEF AbsEnd
    <3>3. Contract!StartReceiving(r)
      BY <1>2, <1>4, <3>1, <3>2 DEF Contract!StartReceiving, Contract!Live
    <3>4. QED
      BY <3>3 DEF Contract!Next
  <2>2. CASE err[r] # NoErr
    <3>1. UNCHANGED <<pos, out, EndOf(r), InRecv(r) /\ rpc[r] # "top">>
      BY <1>1, <1>12, <2>2 DEF LoadErr, SharedUnchanged, RGoto, EndOf, InRecv
    <3>2. QED
      BY <1>5, <3>1
  <2>3. QED
    BY <2>1, <2>2
<1>13. CASE Deregister(r)
  <2>1. /\ InRecv(r) /\ rpc[r] # "top" /\ ~(InRecv(r) /\ rpc[r] # "top")'
        /\ EndOf(r)' = EndOf(r) /\ UNCHANGED <<pos, out>>
    BY <1>1, <1>13 DEF Deregister, RGoto, EndOf, InRecv
  <2>2. QED
    BY <1>11, <2>1
<1>14. CASE LoadClosed(r)
  <2>1. InRecv(r) /\ rpc[r] # "top" /\ UNCHANGED <<pos, out>>
    BY <1>14 DEF LoadClosed, InRecv
  <2>2. CASE ~closed
    <3>1. UNCHANGED <<pos, out, EndOf(r), InRecv(r) /\ rpc[r] # "top">>
      BY <1>1, <1>14, <2>2 DEF LoadClosed, RGoto, EndOf, InRecv
    <3>2. QED
      BY <1>5, <3>1
  <2>3. CASE closed
    <3>1. ~(InRecv(r) /\ rpc[r] # "top")'
      BY <1>1, <1>14, <2>3 DEF LoadClosed, RGoto, InRecv
    <3>2. CASE err[r] = NoErr
      <4>1. EndOf(r) = "live" /\ EndOf(r)' = "closed"
        BY <1>1, <1>14, <2>3, <3>2 DEF LoadClosed, RGoto, Finish, EndOf
      <4>2. Contract!NoticeClosed(r)
        BY <1>2, <1>3, <1>4, <1>10, <2>1, <2>3, <3>1, <4>1
           DEF Contract!NoticeClosed, Contract!Live, Contract!Closed
      <4>3. QED
        BY <4>2 DEF Contract!Next
    <3>3. CASE err[r] # NoErr
      <4>1. EndOf(r)' = EndOf(r)
        BY <1>1, <1>14, <2>3, <3>3 DEF LoadClosed, RGoto, Finish, EndOf
      <4>2. QED
        BY <1>11, <2>1, <3>1, <4>1
    <3>4. QED
      BY <3>2, <3>3
  <2>4. QED
    BY <2>2, <2>3
<1>15. CASE Validate(r)
  <2>1. InRecv(r) /\ rpc[r] # "top" /\ ~(InRecv(r) /\ rpc[r] # "top")' /\ EndOf(r)' = EndOf(r)
    BY <1>1, <1>15 DEF Validate, SharedUnchanged, RGoto, EndOf, InRecv
  <2>2. CASE begin > pos[r] + Capacity
    BY <1>11, <1>15, <2>1, <2>2 DEF Validate
  <2>3. CASE ~(begin > pos[r] + Capacity)
    <3> DEFINE d == dst[r]
    <3>1. /\ d \in Seq(Nat) /\ pos[r] \in Nat /\ Len(d) \in 1 .. Batch
          /\ pos[r] + Len(d) <= published
      <4>1. /\ d \in Seq(Nat) /\ pos[r] \in Nat /\ Len(d) \in Nat
            /\ ~(pos[r] + Len(d) < pub[r] /\ Len(d) < Batch)
        BY <1>1, <1>15 DEF Validate, MoreToCopy, At
      <4>2. /\ pos[r] < pub[r] /\ pub[r] <= published
            /\ pos[r] + Len(d) <= pub[r] /\ Len(d) <= Batch
        BY <1>2, <1>15 DEF Validate, CopyOK, At
      <4>3. pub[r] \in Nat
        BY DEF Inv, SeqlockInv, TypeOK
      <4> HIDE DEF d
      <4>4. QED
        BY <1>1, <4>1, <4>2, <4>3
    <3>2. \A k \in 1 .. Len(d) : d[k] = pos[r] + k - 1
      BY <1>1, <1>2, <1>15, <2>3 DEF Validate, CopyOK
    <3>3. pos' = [pos EXCEPT ![r] = @ + Len(d)] /\ out' = [out EXCEPT ![r] = d]
      BY <1>15, <2>3 DEF Validate, At
    <3> HIDE DEF d
    <3>4. d = Contract!RunFrom(pos[r], Len(d))
      BY <3>1, <3>2 DEF Contract!RunFrom
    <3>5. AbsEnd' = AbsEnd
      BY <1>3, <1>4, <2>1 DEF AbsEnd
    <3>6. Contract!Deliver(r, Len(d))
      BY <1>2, <1>10, <2>1, <3>1, <3>3, <3>4, <3>5 DEF Contract!Deliver
    <3>7. QED
      BY <3>1, <3>6 DEF Contract!Next
  <2>4. QED
    BY <2>2, <2>3
<1>16. CASE FinishLagged(r)
  <2>1. InRecv(r) /\ rpc[r] # "top" /\ ~(InRecv(r) /\ rpc[r] # "top")' /\ UNCHANGED <<pos, out>>
    BY <1>1, <1>16 DEF FinishLagged, RGoto, InRecv
  <2>2. CASE err[r] = NoErr
    <3>1. EndOf(r) = "live" /\ EndOf(r)' = "lagged"
      BY <1>1, <1>16, <2>2 DEF FinishLagged, Finish, RGoto, EndOf
    <3>2. published - pos[r] > Capacity
      BY <1>1, <1>2, <1>16 DEF FinishLagged, CopyOK
    <3>3. Contract!DropLagged(r)
      BY <1>2, <1>3, <1>4, <1>10, <2>1, <3>1, <3>2
         DEF Contract!DropLagged, Contract!Live, Contract!Lagged
    <3>4. QED
      BY <3>3 DEF Contract!Next
  <2>3. CASE err[r] # NoErr
    <3>1. EndOf(r)' = EndOf(r)
      BY <1>1, <1>16, <2>3 DEF FinishLagged, Finish, RGoto, EndOf
    <3>2. QED
      BY <1>11, <2>1, <3>1
  <2>4. QED
    BY <2>2, <2>3
<1>17. ASSUME Recv(r) \/ (SubscribeCount(r) /\ ~closed) \/ CaptureNotify(r) \/ Register(r)
              \/ RecheckPublished(r) \/ RecheckClosed(r) \/ Awaken(r) \/ CountDrop(r)
              \/ CopySlot(r) \/ LoadPublished(r)
       PROVE  [Contract!Next]_(Contract!vars)
  BY <1>5, <1>6, <1>17
<1>18. CASE SubscribeCount(r)
  BY <1>7, <1>17, <1>18
<1>19. QED
  BY <1>8, <1>9, <1>12, <1>13, <1>14, <1>15, <1>16, <1>17, <1>18 DEF ReaderNext, RecvStep

\* The ring keeps the contract of every Broadcaster, whatever its writers and
\* readers interleave to: batches are intact, contiguous and in order, only a
\* subscriber more than Capacity behind is dropped, and an ended subscription
\* delivers nothing that was not already being received.
THEOREM SeqRingImplementsFanout == Spec => ImplementsFanout
<1>1. Init => Contract!Init
  <2>1. ASSUME Init PROVE AbsEnd = [r \in Readers |-> "absent"]
    BY <2>1 DEF Init, AbsEnd, EndOf
  <2>2. ASSUME Init PROVE AbsReceiving = [r \in Readers |-> FALSE]
    BY <2>2 DEF Init, AbsReceiving, InRecv
  <2>3. QED
    BY <2>1, <2>2 DEF Init, Contract!Init, Contract!Absent
<1>2. Inv /\ [Next]_vars => [Contract!Next]_(Contract!vars)
  <2>1. CASE UNCHANGED vars
    BY <2>1 DEF vars, ringVars, readerVars, Contract!vars, AbsEnd, EndOf, AbsReceiving, InRecv
  <2>2. QED
    BY <2>1, WriterRefines, ReaderRefines DEF Next
<1>3. QED
  BY <1>1, <1>2, Inductive, PTL DEF Spec, ImplementsFanout, Contract!Spec

-----------------------------------------------------------------------------
(* No wakeup is lost. *)

\* A notify channel swapped out stays closed, or its writer still has to close it.
LEMMA SwappedStep ==
  ASSUME Inv, SwappedInv, [Next]_vars
  PROVE  SwappedInv'
<1>1. /\ wpc \in [Writers -> WriterLabels] /\ wake \in [Writers -> Nat]
      /\ notify \in Nat /\ fired \in SUBSET Nat
  BY DEF Inv, SeqlockInv, TypeOK
<1>2. ASSUME NEW w \in Writers, WriterNext(w) PROVE SwappedInv'
  <2> USE <1>1 DEF WGoto
  <2>1. CASE SwapNotify(w)
    <3>1. /\ notify' = notify + 1 /\ fired' = fired /\ wpc[w] = "swap"
          /\ wpc'[w] = "wake" /\ wake'[w] = notify
          /\ \A v \in Writers \ {w} : wpc'[v] = wpc[v] /\ wake'[v] = wake[v]
      BY <2>1 DEF SwapNotify
    <3>2. ASSUME NEW n \in 0 .. notify' - 1
          PROVE  n \in fired' \/ \E v \in Writers : wpc'[v] = "wake" /\ wake'[v] = n
      <4>1. CASE n = notify
        BY <3>1, <4>1
      <4>2. CASE n # notify
        <5>1. n \in 0 .. notify - 1
          BY <3>1, <4>2
        <5>2. n \in fired \/ \E v \in Writers : wpc[v] = "wake" /\ wake[v] = n
          BY <5>1 DEF SwappedInv
        <5>3. QED
          BY <3>1, <5>2
      <4>3. QED
        BY <4>1, <4>2
    <3>3. QED
      BY <3>2 DEF SwappedInv
  <2>2. CASE FireWake(w)
    BY <2>2 DEF FireWake, SwappedInv
  <2>3. CASE BroadcastLock(w) \/ CloseRing(w) \/ StoreBegin(w) \/ StoreSlot(w)
    BY <2>3 DEF BroadcastLock, CloseRing, StoreBegin, StoreSlot, SwappedInv, wakeVars
  <2>4. CASE StorePublished(w) \/ LoadWaiters(w)
    BY <2>4 DEF StorePublished, LoadWaiters, SwappedInv, wakeVars
  <2>5. QED
    BY <1>2, <2>1, <2>2, <2>3, <2>4 DEF WriterNext, WriterStep
<1>3. ASSUME NEW r \in Readers, ReaderNext(r) PROVE SwappedInv'
  BY <1>3, ReaderFrame DEF SwappedInv
<1>4. CASE UNCHANGED vars
  BY <1>4 DEF vars, wakeVars, writerVars, SwappedInv
<1>5. QED
  BY <1>2, <1>3, <1>4 DEF Next

\* The readers counted in waiters.
Counted == {r \in Readers : rpc[r] \in Registered}

\* waiters moves by one exactly when a reader registers or deregisters.
LEMMA CountStep ==
  ASSUME Inv, CountInv, [Next]_vars
  PROVE  CountInv'
<1>1. rpc \in [Readers -> ReaderLabels] /\ waiters \in Int
  BY DEF Inv, SeqlockInv, TypeOK
<1>2. IsFiniteSet(Counted)
  BY SeqRingAssumption, FS_Subset DEF Counted
<1>3. waiters = Cardinality(Counted)
  BY DEF CountInv, Counted
<1>4. ASSUME UNCHANGED waiters, Counted' = Counted PROVE CountInv'
  BY <1>3, <1>4 DEF CountInv, Counted
<1>5. ASSUME NEW w \in Writers, WriterNext(w) PROVE CountInv'
  BY <1>4, <1>5, WriterFrame DEF readerVars, Counted
<1>6. ASSUME NEW r \in Readers, ReaderNext(r) PROVE CountInv'
  <2>1. \A q \in Readers \ {r} : rpc'[q] = rpc[q]
    BY <1>6, OthersFrame DEF Inv, SeqlockInv
  <2> USE <1>1 DEF RGoto, Registered, SharedUnchanged, wakeVars
  <2>2. CASE Register(r)
    <3>1. waiters' = waiters + 1 /\ rpc[r] = "register" /\ rpc'[r] = "recheck"
      BY <2>2 DEF Register
    <3>2. Counted' = Counted \cup {r} /\ r \notin Counted
      BY <2>1, <3>1 DEF Counted
    <3>3. QED
      <4>1. Cardinality(Counted \cup {r}) = Cardinality(Counted) + 1
        BY <1>2, <3>2, FS_AddElement
      <4>2. QED
        BY <1>3, <3>1, <3>2, <4>1 DEF CountInv, Counted
  <2>3. CASE Deregister(r)
    <3>1. waiters' = waiters - 1 /\ rpc[r] = "deregister" /\ rpc'[r] = "top"
      BY <2>3 DEF Deregister
    <3>2. Counted' = Counted \ {r} /\ r \in Counted
      BY <2>1, <3>1 DEF Counted
    <3>3. QED
      <4>1. Cardinality(Counted \ {r}) = Cardinality(Counted) - 1
        BY <1>2, <3>2, FS_RemoveElement
      <4>2. QED
        BY <1>3, <3>1, <3>2, <4>1 DEF CountInv, Counted
  <2>4. ASSUME UNCHANGED waiters, rpc'[r] \in Registered <=> rpc[r] \in Registered PROVE CountInv'
    BY <1>4, <2>1, <2>4 DEF Counted
  <2>5. CASE SubscribeCount(r) \/ SubscribeCursor(r) \/ CloseSub(r) \/ Recv(r)
    BY <2>4, <2>5 DEF SubscribeCount, SubscribeCursor, CloseSub, Recv
  <2>6. CASE LoadErr(r) \/ LoadPublished(r) \/ LoadClosed(r) \/ CaptureNotify(r)
    BY <2>4, <2>6 DEF LoadErr, LoadPublished, LoadClosed, CaptureNotify
  <2>7. CASE RecheckPublished(r) \/ RecheckClosed(r) \/ Awaken(r)
    BY <2>4, <2>7 DEF RecheckPublished, RecheckClosed, Awaken
  <2>8. CASE CopySlot(r) \/ Validate(r) \/ CountDrop(r) \/ FinishLagged(r)
    BY <2>4, <2>8 DEF CopySlot, Validate, CountDrop, FinishLagged
  <2>9. QED
    BY <1>6, <2>2, <2>3, <2>5, <2>6, <2>7, <2>8 DEF ReaderNext, RecvStep
<1>7. CASE UNCHANGED vars
  BY <1>4, <1>7 DEF vars, wakeVars, readerVars, Counted
<1>8. QED
  BY <1>5, <1>6, <1>7 DEF Next

\* A reader that is registered is one LoadWaiters sees.
LEMMA SleeperCounted ==
  ASSUME CountInv, NEW r \in Readers, rpc[r] \in Registered
  PROVE  waiters > 0
<1>1. IsFiniteSet(Counted) /\ r \in Counted
  BY SeqRingAssumption, FS_Subset DEF Counted
<1>2. Cardinality(Counted) \in Nat /\ Cardinality(Counted) # 0
  BY <1>1, FS_CardinalityType, FS_EmptySet
<1>3. QED
  BY <1>2 DEF CountInv, Counted

\* SleepInv, for one reader.
SleepOK(r) ==
  /\ seen[r] <= notify
  /\ rpc[r] \in {"recheckClosed", "asleep"} /\ seen[r] = notify /\ published # pos[r] =>
       \E w \in Writers : wpc[w] \in {"waiters", "swap"}
  /\ rpc[r] = "asleep" /\ seen[r] = notify /\ closed => \E w \in Writers : wpc[w] = "swap"

\* Each step keeps a writer behind every sleeper that has something to wake for.
LEMMA SleepStep ==
  ASSUME Inv, CountInv, SleepInv, [Next]_vars
  PROVE  SleepInv'
<1>1. /\ wpc \in [Writers -> WriterLabels] /\ rpc \in [Readers -> ReaderLabels]
      /\ seen \in [Readers -> Nat] /\ pos \in [Readers -> Nat]
      /\ notify \in Nat /\ published \in Nat /\ waiters \in Int
  BY DEF Inv, SeqlockInv, TypeOK
<1>2. SUFFICES ASSUME NEW r \in Readers PROVE SleepOK(r)'
  BY DEF SleepInv, SleepOK
<1>3. SleepOK(r) /\ seen[r] \in Nat /\ pos[r] \in Nat
  BY <1>1 DEF SleepInv, SleepOK
<1>4. ASSUME NEW w \in Writers, WriterNext(w) PROVE SleepOK(r)'
  <2>1. UNCHANGED <<seen, pos, rpc>>
    BY <1>4, WriterFrame DEF readerVars
  <2> USE <1>1, <1>3, <2>1 DEF WGoto, SleepOK, ringVars, wakeVars
  <2>2. CASE StorePublished(w)
    BY <2>2 DEF StorePublished
  <2>3. CASE LoadWaiters(w)
    <3>1. CASE rpc[r] \in {"recheckClosed", "asleep"}
      <4>1. waiters > 0
        BY <3>1, SleeperCounted DEF Registered
      <4>2. QED
        BY <2>3, <4>1 DEF LoadWaiters
    <3>2. CASE rpc[r] \notin {"recheckClosed", "asleep"}
      BY <2>3, <3>2 DEF LoadWaiters
    <3>3. QED
      BY <3>1, <3>2
  <2>4. CASE SwapNotify(w)
    BY <2>4 DEF SwapNotify
  <2>5. CASE CloseRing(w)
    BY <2>5 DEF CloseRing
  <2>6. CASE BroadcastLock(w) \/ StoreBegin(w) \/ StoreSlot(w) \/ FireWake(w)
    BY <2>6 DEF BroadcastLock, StoreBegin, StoreSlot, FireWake
  <2>7. QED
    BY <1>4, <2>2, <2>3, <2>4, <2>5, <2>6 DEF WriterNext, WriterStep
<1>5. ASSUME NEW q \in Readers, q # r, ReaderNext(q) PROVE SleepOK(r)'
  <2>1. UNCHANGED <<seen[r], pos[r], rpc[r]>>
    BY <1>5, OthersFrame DEF Inv, SeqlockInv
  <2>2. UNCHANGED <<notify, published, wpc, closed>>
    BY <1>5, ReaderFrame
  <2>3. QED
    BY <1>3, <2>1, <2>2 DEF SleepOK
<1>6. ASSUME ReaderNext(r) PROVE SleepOK(r)'
  <2>1. UNCHANGED <<notify, published, wpc, closed>>
    BY <1>6, ReaderFrame
  <2> USE <1>1, <1>3, <2>1 DEF RGoto, SharedUnchanged, SleepOK
  <2>2. CASE SubscribeCount(r) \/ SubscribeCursor(r) \/ CloseSub(r) \/ Recv(r)
    BY <2>2 DEF SubscribeCount, SubscribeCursor, CloseSub, Recv
  <2>3. CASE LoadErr(r) \/ LoadPublished(r) \/ LoadClosed(r) \/ CaptureNotify(r) \/ Register(r)
    BY <2>3 DEF LoadErr, LoadPublished, LoadClosed, CaptureNotify, Register
  <2>4. CASE RecheckPublished(r) \/ RecheckClosed(r) \/ Awaken(r) \/ Deregister(r)
    BY <2>4 DEF RecheckPublished, RecheckClosed, Awaken, Deregister
  <2>5. CASE CopySlot(r) \/ Validate(r) \/ CountDrop(r) \/ FinishLagged(r)
    BY <2>5 DEF CopySlot, Validate, CountDrop, FinishLagged
  <2>6. QED
    BY <1>6, <2>2, <2>3, <2>4, <2>5 DEF ReaderNext, RecvStep
<1>7. CASE UNCHANGED vars
  BY <1>3, <1>7 DEF vars, ringVars, wakeVars, writerVars, readerVars, SleepOK
<1>8. QED
  BY <1>4, <1>5, <1>6, <1>7 DEF Next

\* No wakeup is lost (seqring.go:53-54, 96-97): whenever a reader is asleep on a
\* channel still open and has something to wake for, a writer is on its way to
\* close that channel.
THEOREM NoWakeupLost == Spec => []NoLostWakeup
<1>1. Init => WakeInv
  <2>1. ASSUME Init PROVE SwappedInv /\ SleepInv
    BY <2>1 DEF Init, SwappedInv, SleepInv
  <2>2. ASSUME Init PROVE CountInv
    <3>1. {r \in Readers : rpc[r] \in Registered} = {}
      BY <2>2 DEF Init, Registered
    <3>2. QED
      BY <2>2, <3>1, FS_EmptySet DEF Init, CountInv
  <2>3. QED
    BY <2>1, <2>2 DEF WakeInv
<1>2. Inv /\ WakeInv /\ [Next]_vars => WakeInv'
  BY SwappedStep, CountStep, SleepStep DEF WakeInv
<1>3. Inv /\ WakeInv => NoLostWakeup
  <2>1. SUFFICES ASSUME Inv, WakeInv, NEW r \in Readers,
                        rpc[r] = "asleep", seen[r] \notin fired, published # pos[r] \/ closed
                 PROVE  \E w \in Writers :
                          \/ wpc[w] \in {"waiters", "swap"} /\ notify = seen[r]
                          \/ wpc[w] = "wake" /\ wake[w] = seen[r]
    BY DEF NoLostWakeup
  <2>2. notify \in Nat /\ seen[r] \in Nat /\ seen[r] <= notify
    BY <2>1 DEF Inv, SeqlockInv, TypeOK, WakeInv, SleepInv
  <2>3. CASE seen[r] = notify
    BY <2>1, <2>3 DEF WakeInv, SleepInv
  <2>4. CASE seen[r] # notify
    <3>1. seen[r] \in 0 .. notify - 1
      BY <2>2, <2>4
    <3>2. QED
      BY <2>1, <3>1 DEF WakeInv, SwappedInv
  <2>5. QED
    BY <2>3, <2>4
<1>4. QED
  BY <1>1, <1>2, <1>3, Inductive, PTL DEF Spec

-----------------------------------------------------------------------------
(* Each subscription is counted once. *)

Open   == {r \in Readers : rpc[r] # "absent" /\ err[r] = NoErr}
\* Whoever was dropped has been counted.
Lagged == {r \in Readers : err[r] = ErrLagged \/ rpc[r] = "lagged"}
\* Whoever was counted is not on the way to be counted, and never will be again.
Done   == {r \in Readers : rpc[r] = "lagged" \/ (err[r] # NoErr /\ rpc[r] \in {"idle", "top"})}

TallyInv ==
  subs = Cardinality(Open) /\ drops >= Cardinality(Lagged) /\ drops <= Cardinality(Done)

\* Who is subscribed, lagged or done can be counted.
LEMMA TalliesFinite ==
  /\ IsFiniteSet(Open) /\ IsFiniteSet(Lagged) /\ IsFiniteSet(Done)
  /\ Cardinality(Open) \in Nat /\ Cardinality(Lagged) \in Nat /\ Cardinality(Done) \in Nat
  /\ Cardinality(Lagged') \in Nat /\ Cardinality(Done') \in Nat /\ IsFiniteSet(Done')
<1>1. {Open, Lagged, Done, Lagged', Done'} \subseteq SUBSET Readers
  BY DEF Open, Lagged, Done
<1>2. QED
  BY <1>1, SeqRingAssumption, FS_Subset, FS_CardinalityType

\* A step that counts nobody and ends no subscription.
LEMMA TallySame ==
  ASSUME TypeOK, TallyInv, UNCHANGED countVars, Open' = Open, Lagged' \subseteq Lagged, Done \subseteq Done'
  PROVE  TallyInv'
<1>1. Cardinality(Lagged') <= Cardinality(Lagged) /\ Cardinality(Done) <= Cardinality(Done')
  BY TalliesFinite, FS_Subset
<1>2. subs' = subs /\ drops' = drops
  BY DEF countVars
<1>3. drops \in Int
  BY DEF TypeOK
<1>4. QED
  BY <1>1, <1>2, <1>3, TalliesFinite DEF TallyInv

\* One that ends a subscription, or finds it ended.
LEMMA TallyFinish ==
  ASSUME TypeOK, TallyInv, NEW r \in Readers, NEW e \in {ErrClosed, ErrLagged},
         Finish(r, e), UNCHANGED drops, rpc[r] # "absent",
         \A q \in Readers \ {r} : rpc'[q] = rpc[q] /\ err'[q] = err[q],
         e = ErrLagged => rpc[r] = "lagged",
         (rpc'[r] = "idle" \/ rpc'[r] = rpc[r])
  PROVE  TallyInv'
<1> USE DEF NoErr, ErrClosed, ErrLagged
<1>1. /\ err'[r] # NoErr /\ rpc'[r] # "absent"
      /\ err'[r] = ErrLagged => r \in Lagged
      /\ err[r] # NoErr => err'[r] = err[r]
  BY DEF Finish, TypeOK, Lagged
<1>2. Lagged' \subseteq Lagged
  BY <1>1 DEF Lagged
<1>3. Done \subseteq Done'
  BY <1>1 DEF Done
<1>4. Cardinality(Lagged') <= Cardinality(Lagged) /\ Cardinality(Done) <= Cardinality(Done')
  BY <1>2, <1>3, TalliesFinite, FS_Subset
<1>5. subs' = Cardinality(Open')
  <2>1. CASE err[r] = NoErr
    <3>1. Open' = Open \ {r} /\ r \in Open
      BY <1>1, <2>1 DEF Open
    <3>2. subs' = subs - 1
      BY <2>1 DEF Finish
    <3>3. QED
      BY <3>1, <3>2, TalliesFinite, FS_RemoveElement DEF TallyInv
  <2>2. CASE err[r] # NoErr
    <3>1. Open' = Open
      BY <1>1, <2>2 DEF Open
    <3>2. subs' = subs
      BY <2>2 DEF Finish
    <3>3. QED
      BY <3>1, <3>2 DEF TallyInv
  <2>3. QED
    BY <2>1, <2>2
<1>6. drops \in Int
  BY DEF TypeOK
<1>7. QED
  BY <1>4, <1>5, <1>6, TalliesFinite DEF TallyInv

\* Every step counts an ended subscription once.
LEMMA TallyStep ==
  ASSUME Inv, TallyInv, [Next]_vars
  PROVE  TallyInv'
<1>0. TypeOK /\ \A r \in Readers : rpc[r] \in {"absent", "cursor"} => err[r] = NoErr
  BY DEF Inv, SeqlockInv, CopyInv
<1>1. CASE UNCHANGED <<rpc, err, countVars>>
  BY <1>0, <1>1, TallySame DEF Open, Lagged, Done
<1>2. ASSUME NEW w \in Writers, WriterNext(w) PROVE TallyInv'
  BY <1>1, <1>2, WriterFrame DEF readerVars, countVars
<1>3. ASSUME NEW r \in Readers, ReaderNext(r) PROVE TallyInv'
  <2>0. \A q \in Readers \ {r} : rpc'[q] = rpc[q] /\ err'[q] = err[q]
    BY <1>0, <1>3, OthersFrame
  <2>1. ASSUME UNCHANGED countVars, err'[r] = err[r], rpc[r] # "absent", rpc'[r] # "absent",
               rpc'[r] # "lagged", rpc[r] # "lagged",
               err[r] # NoErr /\ rpc[r] \in {"idle", "top"} => rpc'[r] \in {"idle", "top"}
        PROVE  TallyInv'
    <3>1. Open' = Open
      BY <2>0, <2>1 DEF Open
    <3>2. Lagged' \subseteq Lagged
      BY <2>0, <2>1 DEF Lagged
    <3>3. Done \subseteq Done'
      BY <2>0, <2>1 DEF Done
    <3>4. QED
      BY <1>0, <2>1, <3>1, <3>2, <3>3, TallySame
  <2> USE <1>0 DEF RGoto, TypeOK, NoErr, ErrClosed, ErrLagged, SharedUnchanged
  <2>2. CASE SubscribeCount(r)
    <3>1. /\ rpc[r] = "absent" /\ err[r] = NoErr /\ drops' = drops /\ r \notin Open
          /\ rpc'[r] \in {"idle", "cursor"} /\ err'[r] # ErrLagged
      BY <2>2 DEF SubscribeCount, Open
    <3>2. Lagged' \subseteq Lagged /\ Done \subseteq Done'
      BY <2>0, <3>1 DEF Lagged, Done
    <3>3. CASE closed
      <4>1. Open' = Open /\ subs' = subs
        <5>1. err'[r] = ErrClosed /\ subs' = subs
          BY <2>2, <3>3 DEF SubscribeCount
        <5>2. QED
          BY <2>0, <3>1, <5>1 DEF Open
      <4>2. QED
        BY <3>1, <3>2, <4>1, TallySame DEF countVars
    <3>4. CASE ~closed
      <4>1. subs' = subs + 1 /\ rpc'[r] = "cursor" /\ err'[r] = NoErr
        BY <2>2, <3>1, <3>4 DEF SubscribeCount
      <4>2. Open' = Open \cup {r}
        BY <2>0, <4>1 DEF Open
      <4>3. subs' = Cardinality(Open')
        BY <3>1, <4>1, <4>2, TalliesFinite, FS_AddElement DEF TallyInv
      <4>4. Cardinality(Lagged') <= Cardinality(Lagged) /\ Cardinality(Done) <= Cardinality(Done')
        BY <3>2, TalliesFinite, FS_Subset
      <4>5. QED
        BY <3>1, <4>3, <4>4, TalliesFinite DEF TallyInv
    <3>5. QED
      BY <3>3, <3>4
  <2>3. CASE CloseSub(r)
    BY <2>0, <2>3, TallyFinish DEF CloseSub
  <2>4. CASE LoadClosed(r)
    <3>1. CASE closed
      BY <2>0, <2>4, <3>1, TallyFinish DEF LoadClosed
    <3>2. CASE ~closed
      BY <2>1, <2>4, <3>2 DEF LoadClosed, countVars
    <3>3. QED
      BY <3>1, <3>2
  <2>5. CASE FinishLagged(r)
    BY <2>0, <2>5, TallyFinish DEF FinishLagged
  <2>6. CASE CountDrop(r)
    <3>1. /\ drops' = drops + 1 /\ subs' = subs /\ err' = err
          /\ rpc[r] = "lag" /\ rpc'[r] = "lagged"
      BY <2>6 DEF CountDrop
    <3>2. Open' = Open /\ Lagged' = Lagged \cup {r} /\ Done' = Done \cup {r} /\ r \notin Done
      BY <2>0, <3>1 DEF Open, Lagged, Done
    <3>3. /\ Cardinality(Lagged') <= Cardinality(Lagged) + 1
          /\ Cardinality(Done') = Cardinality(Done) + 1
      <4>1. Cardinality(Lagged \cup {r}) <= Cardinality(Lagged) + 1
        <5>1. Cardinality(Lagged \cup {r}) = IF r \in Lagged THEN Cardinality(Lagged) ELSE Cardinality(Lagged) + 1
          BY TalliesFinite, FS_AddElement
        <5>2. QED
          BY <5>1, TalliesFinite
      <4>2. Cardinality(Done \cup {r}) = Cardinality(Done) + 1
        BY <3>2, TalliesFinite, FS_AddElement
      <4>3. QED
        BY <3>2, <4>1, <4>2
    <3>4. QED
      BY <3>1, <3>2, <3>3, TalliesFinite DEF TallyInv
  <2>7. CASE SubscribeCursor(r) \/ Recv(r) \/ LoadErr(r) \/ LoadPublished(r) \/ CaptureNotify(r)
    <3>1. CASE SubscribeCursor(r) \/ Recv(r)
      BY <2>1, <3>1 DEF SubscribeCursor, Recv
    <3>2. CASE LoadErr(r) \/ LoadPublished(r) \/ CaptureNotify(r)
      BY <2>1, <3>2 DEF LoadErr, LoadPublished, CaptureNotify
    <3>3. QED
      BY <2>7, <3>1, <3>2
  <2>8. CASE Register(r) \/ RecheckPublished(r) \/ RecheckClosed(r)
    BY <2>1, <2>8 DEF Register, RecheckPublished, RecheckClosed
  <2>9. CASE Awaken(r) \/ Deregister(r) \/ CopySlot(r) \/ Validate(r)
    BY <2>1, <2>9 DEF Awaken, Deregister, CopySlot, Validate
  <2>10. QED
    BY <1>3, <2>2, <2>3, <2>4, <2>5, <2>6, <2>7, <2>8, <2>9 DEF ReaderNext, RecvStep
<1>4. CASE UNCHANGED vars
  BY <1>1, <1>4 DEF vars, readerVars
<1>5. QED
  BY <1>2, <1>3, <1>4 DEF Next

\* Each subscription leaves the count once, is counted as a drop at most once, and all
\* that were dropped are counted: a lag, its owner's Close and the ring's Close in
\* whatever order (seqring.go:111-122).
THEOREM CountedExactlyOnce == Spec => []CountedOnce
<1>1. Init => TallyInv
  <2>1. SUFFICES ASSUME Init PROVE TallyInv
    OBVIOUS
  <2>2. Open = {} /\ Lagged = {} /\ Done = {}
    BY <2>1 DEF Init, Open, Lagged, Done, NoErr, ErrLagged
  <2>3. QED
    BY <2>1, <2>2, FS_EmptySet DEF Init, TallyInv
<1>2. Inv /\ TallyInv /\ [Next]_vars => TallyInv'
  BY TallyStep
<1>3. Inv /\ TallyInv => CountedOnce
  <2>1. SUFFICES ASSUME Inv, TallyInv PROVE CountedOnce
    OBVIOUS
  <2> DEFINE Dropped == {r \in Readers : err[r] = ErrLagged}
             Told    == {r \in Readers : err[r] # NoErr \/ rpc[r] = "lagged"}
  <2>2. Dropped \subseteq Lagged /\ Done \subseteq Told /\ Told \subseteq Readers
    BY DEF Lagged, Done
  <2>3. IsFiniteSet(Told) /\ Cardinality(Dropped) <= Cardinality(Lagged)
    BY <2>2, TalliesFinite, SeqRingAssumption, FS_Subset
  <2>4. Cardinality(Done) <= Cardinality(Told) /\ Cardinality(Told) \in Nat /\ Cardinality(Dropped) \in Nat
    BY <2>2, <2>3, TalliesFinite, FS_Subset, FS_CardinalityType
  <2>5. drops \in Int
    BY <2>1 DEF Inv, SeqlockInv, TypeOK
  <2>6. subs = Cardinality({r \in Readers : rpc[r] # "absent" /\ err[r] = NoErr})
    BY <2>1 DEF TallyInv, Open
  <2>7. drops >= Cardinality(Dropped) /\ drops <= Cardinality(Told)
    BY <2>1, <2>3, <2>4, <2>5, TalliesFinite DEF TallyInv
  <2>8. QED
    BY <2>6, <2>7 DEF CountedOnce
<1>4. QED
  BY <1>1, <1>2, <1>3, Inductive, PTL DEF Spec
=============================================================================
