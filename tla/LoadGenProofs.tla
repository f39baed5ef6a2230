---------------------------- MODULE LoadGenProofs ----------------------------
(***************************************************************************)
(* What the load generator promises of a run, proved for any number of     *)
(* connections, rooms and messages, and any server; and what its histogram *)
(* promises of a quantile, for any samples.                                *)
(***************************************************************************)
EXTENDS LoadGen, FiniteSetTheorems, WellFoundedInduction, TLAPS

-----------------------------------------------------------------------------
(* types and places *)

\* Where a client has not been settled yet, and where it certainly has.
Early == {"none", "dial", "first", "ask", "own", "part", "joined", "unsettled"}
Late  == {"ready", "speak", "close", "gone"}

\* The types, but for the range of the group, which is the counting's to give.
TypeInv ==
  /\ run \in {"barrier", "timing", "waiting", "reported"}
  /\ stopped \in BOOLEAN /\ start \in BOOLEAN
  /\ settling \in Int /\ spawned \in 0 .. Conns
  /\ cl \in [Clients -> Connections]
  /\ \A c \in Clients : Len(cl[c].joins) <= JoinBuffer
  /\ st \in Snapshots /\ result \in Snapshots

\* A connection's client, reader and socket, and the place each is in.
PlaceOK(c) ==
  /\ cl[c].at = "none" <=> c >= spawned
  /\ cl[c].at \in Early => ~cl[c].settled
  /\ cl[c].at \in Late => cl[c].settled
  /\ cl[c].at \in {"none", "dial"} => cl[c].reader = "none"
  /\ cl[c].reader = "none" => cl[c].at \in {"none", "dial", "end", "gone"}
  /\ cl[c].at \in {"end", "gone"} =>
       cl[c].reader = "none" \/ (cl[c].reader = "done" /\ cl[c].dead)
  /\ cl[c].reader # "none" => cl[c].sock # "none"
  /\ cl[c].at \in {"end", "gone"} \/ cl[c].reader = "none" => cl[c].lat.count = 0
  /\ cl[c].lat.count <= MaxMsgs
PlaceInv == \A c \in Clients : PlaceOK(c)

\* Once the barrier is open everybody is settled, and nobody talks before.
StartOK(c) ==
  /\ start => cl[c].settled
  /\ cl[c].at = "speak" => start
StartInv == \A c \in Clients : StartOK(c)

\* While its context lives, a connection whose socket is not open any more, or whose
\* client has given up, was let down.
FaultOK(c) ==
  Live(c) /\ cl[c].reader # "none" /\ (cl[c].sock # "open" \/ cl[c].at \in {"close", "unsettled"})
    => cl[c].fault
FaultInv == \A c \in Clients : FaultOK(c)

\* Whoever has reported has waited for everybody.
ReportInv ==
  run = "reported" => result = st /\ \A c \in Clients : cl[c].at = "gone"

Unsettled == {c \in Clients : ~cl[c].settled}
Connected == {c \in Clients : cl[c].reader # "none"}
Rejected  == {c \in Clients : cl[c].reader = "none" /\ cl[c].at \in {"end", "gone"}}
\* A pair for each message that a client has not handed in yet.
Heard     == {p \in Clients \X (1 .. MaxMsgs) : p[2] <= cl[p[1]].lat.count}
LostByReader == {c \in Clients : cl[c].fault /\ cl[c].reader \in {"failed", "done"}}
LostBySettle == {c \in Clients : cl[c].fault /\ cl[c].at \in {"leave", "merge", "end", "gone"}}
GivenUp   == {c \in Clients : cl[c].fault
                /\ cl[c].at \in {"close", "unsettled", "leave", "merge", "end", "gone"}}

\* What each counter counts.
CountInv ==
  /\ settling = Cardinality(Unsettled)
  /\ st.dialed = Cardinality(Connected) /\ st.dialFailed = Cardinality(Rejected)
  /\ st.received = Cardinality(Heard) + st.latency.count + st.untimed
  /\ st.lost <= Cardinality(LostByReader) + Cardinality(LostBySettle)
  /\ st.sendFailed <= Cardinality(GivenUp)

IInv == TypeInv /\ PlaceInv /\ StartInv /\ FaultInv /\ ReportInv /\ CountInv

-----------------------------------------------------------------------------
(* Induction *)

\* Of some natural numbers, one is the least.
LEMMA LeastOf ==
  ASSUME NEW S \in SUBSET Nat, S # {}
  PROVE  \E m \in S : \A k \in S : m <= k
<1> DEFINE R == OpToRel(<, Nat)
<1>1. IsWellFoundedOn(R, Nat)
  BY NatLessThanWellFounded
<1>2. \E m \in S : \A k \in S : ~(<<k, m>> \in R)
  <2> HIDE DEF R
  <2> QED BY <1>1, WFMin
<1>3. \A k, m \in Nat : k < m => <<k, m>> \in R
  BY DEF OpToRel
<1> HIDE DEF R
<1>4. PICK m \in S : \A k \in S : ~(<<k, m>> \in R)
  BY <1>2
<1>5. m \in Nat /\ \A k \in S : k \in Nat /\ ~(k < m)
  BY <1>3, <1>4
<1> QED BY <1>5

\* What is in a set with 0, and with the next of whatever is, up to N.
LEMMA UptoInduction ==
  ASSUME NEW N \in Nat, NEW S, 0 \in S, \A i \in 1 .. N : i - 1 \in S => i \in S
  PROVE  \A i \in 0 .. N : i \in S
<1> DEFINE T == {i \in 0 .. N : i \notin S}
<1>1. SUFFICES ASSUME T # {} PROVE FALSE
  OBVIOUS
<1>2. PICK m \in T : \A k \in T : m <= k
  <2>1. T \in SUBSET Nat
    OBVIOUS
  <2> HIDE DEF T
  <2> QED BY <1>1, <2>1, LeastOf
<1>3. m \in 1 .. N /\ m - 1 \in 0 .. N /\ m - 1 \notin T
  BY <1>2
<1> QED BY <1>2, <1>3

\* The functions on 0 .. N that start with a and go from one value to the next by G.
Stepping(A, a, G, N) ==
  {f \in [0 .. N -> A] : f[0] = a /\ \A i \in 1 .. N : f[i] = G[i][f[i - 1]]}

\* There is one: a recursive definition of that form defines a function.
LEMMA StepByStep ==
  ASSUME NEW A, NEW a \in A, NEW G \in [Nat -> [A -> A]], NEW N \in Nat
  PROVE  Stepping(A, a, G, N) # {}
<1> DEFINE S == {n \in Nat : Stepping(A, a, G, n) # {}}
<1>1. 0 \in S
  <2>1. [i \in 0 .. 0 |-> a] \in Stepping(A, a, G, 0)
    BY DEF Stepping
  <2> QED BY <2>1
<1>2. ASSUME NEW n \in Nat, n \in S PROVE n + 1 \in S
  <2>1. PICK f \in Stepping(A, a, G, n) : TRUE
    BY <1>2
  <2>2. /\ f \in [0 .. n -> A] /\ f[0] = a
        /\ \A i \in 1 .. n : f[i] = G[i][f[i - 1]]
    BY <2>1 DEF Stepping
  <2> DEFINE g == [i \in 0 .. n + 1 |-> IF i = n + 1 THEN G[n + 1][f[n]] ELSE f[i]]
  <2>3. G[n + 1] \in [A -> A] /\ f[n] \in A
    BY <2>2
  <2>4. g \in [0 .. n + 1 -> A] /\ g[0] = a
    BY <2>2, <2>3
  <2>5. ASSUME NEW i \in 1 .. n + 1 PROVE g[i] = G[i][g[i - 1]]
    <3>1. i - 1 \in 0 .. n + 1 /\ i - 1 # n + 1 /\ i \in 0 .. n + 1
      OBVIOUS
    <3>2. g[i - 1] = f[i - 1]
      BY <3>1
    <3>3. CASE i = n + 1
      <4>1. g[i] = G[n + 1][f[n]] /\ n = i - 1
        BY <3>1, <3>3
      <4> HIDE DEF g
      <4> QED BY <3>2, <3>3, <4>1
    <3>4. CASE i # n + 1
      <4>1. i \in 1 .. n /\ g[i] = f[i]
        BY <3>4
      <4>2. f[i] = G[i][f[i - 1]]
        BY <2>2, <4>1
      <4> HIDE DEF g
      <4> QED BY <3>2, <4>1, <4>2
    <3> QED BY <3>3, <3>4
  <2>6. g \in Stepping(A, a, G, n + 1)
    <3> HIDE DEF g
    <3> QED BY <2>4, <2>5 DEF Stepping
  <2> QED BY <2>6
<1>3. N \in S
  <2> HIDE DEF S
  <2>1. ASSUME NEW i \in 1 .. N, i - 1 \in S PROVE i \in S
    <3>1. i - 1 \in Nat /\ (i - 1) + 1 = i
      OBVIOUS
    <3> QED BY <1>2, <2>1, <3>1
  <2>2. N \in 0 .. N
    OBVIOUS
  <2> QED BY <1>1, <2>1, <2>2, UptoInduction
<1> QED BY <1>3

-----------------------------------------------------------------------------
(* Powers of two, division, buckets *)

\* Powers of two: numbers, each twice the one before.
LEMMA PowIs ==
  /\ Pow2[0] = 1
  /\ \A k \in 0 .. Octaves : Pow2[k] \in Nat /\ Pow2[k] >= 1
  /\ \A k \in 1 .. Octaves : Pow2[k] = 2 * Pow2[k - 1]
<1> DEFINE G == [i \in Nat |-> [x \in Nat |-> 2 * x]]
<1>1. Octaves \in Nat /\ 1 \in Nat
  BY HistogramAssumption
<1>2. G \in [Nat -> [Nat -> Nat]]
  OBVIOUS
<1>3. Stepping(Nat, 1, G, Octaves) # {}
  <2> HIDE DEF G
  <2> QED BY <1>1, <1>2, StepByStep, Zenon
<1>4. PICK f \in [0 .. Octaves -> Nat] : f[0] = 1 /\ \A i \in 1 .. Octaves : f[i] = G[i][f[i - 1]]
  <2> HIDE DEF G
  <2> QED BY <1>3 DEF Stepping
<1>5. f = [k \in 0 .. Octaves |-> IF k = 0 THEN 1 ELSE 2 * f[k - 1]]
  <2>1. ASSUME NEW k \in 1 .. Octaves PROVE f[k] = 2 * f[k - 1]
    <3>1. k \in Nat /\ k - 1 \in 0 .. Octaves
      BY <1>1
    <3>2. f[k - 1] \in Nat /\ f[k] = G[k][f[k - 1]]
      BY <1>4, <3>1
    <3> QED BY <3>1, <3>2
  <2> QED BY <1>4, <2>1
<1>6. Pow2 = [k \in 0 .. Octaves |-> IF k = 0 THEN 1 ELSE 2 * Pow2[k - 1]]
  BY <1>5, Zenon DEF Pow2
<1>7. Pow2[0] = 1 /\ \A k \in 1 .. Octaves : Pow2[k] = 2 * Pow2[k - 1]
  BY <1>1, <1>6
<1>8. ASSUME NEW k \in 0 .. Octaves PROVE Pow2[k] \in Nat /\ Pow2[k] >= 1
  <2> DEFINE S == {j \in Nat : Pow2[j] \in Nat /\ Pow2[j] >= 1}
  <2>1. 0 \in S
    BY <1>7
  <2>2. ASSUME NEW j \in 1 .. Octaves, j - 1 \in S PROVE j \in S
    BY <1>1, <1>7, <2>2
  <2> HIDE DEF S
  <2>3. k \in S
    BY <1>1, <2>1, <2>2, UptoInduction
  <2> QED BY <2>3 DEF S
<1> QED BY <1>7, <1>8

\* Adding exponents multiplies.
LEMMA PowSum ==
  ASSUME NEW a \in 0 .. Octaves, NEW b \in 0 .. Octaves, a + b <= Octaves
  PROVE  Pow2[a + b] = Pow2[a] * Pow2[b]
<1> DEFINE S == {j \in Nat : Pow2[a + j] = Pow2[a] * Pow2[j]}
<1>1. Octaves \in Nat /\ Octaves - a \in Nat /\ b \in 0 .. Octaves - a
  BY HistogramAssumption
<1>2. 0 \in S
  BY PowIs, HistogramAssumption
<1>3. ASSUME NEW j \in 1 .. Octaves - a, j - 1 \in S PROVE j \in S
  <2>1. j \in 1 .. Octaves /\ a + j \in 1 .. Octaves /\ a + (j - 1) = (a + j) - 1
    BY <1>1
  <2>2. Pow2[a + j] = 2 * Pow2[(a + j) - 1] /\ Pow2[j] = 2 * Pow2[j - 1]
    BY <2>1, PowIs
  <2>3. Pow2[(a + j) - 1] = Pow2[a] * Pow2[j - 1]
    BY <1>3, <2>1
  <2>4. j - 1 \in 0 .. Octaves
    BY <1>1, <2>1
  <2>5. Pow2[a] \in Nat /\ Pow2[j - 1] \in Nat
    BY PowIs, <2>4
  <2>6. \A x, y \in Nat : 2 * (x * y) = x * (2 * y)
    OBVIOUS
  <2>7. Pow2[a + j] = Pow2[a] * Pow2[j]
    BY <2>2, <2>3, <2>5, <2>6
  <2> QED BY <2>7
<1>4. b \in S
  <2> HIDE DEF S
  <2> QED BY <1>1, <1>2, <1>3, UptoInduction
<1> QED BY <1>4

\* They grow.
LEMMA PowGrows ==
  ASSUME NEW a \in 0 .. Octaves, NEW b \in 0 .. Octaves, a < b
  PROVE  2 * Pow2[a] <= Pow2[b]
<1> DEFINE S == {j \in Nat : 2 * Pow2[a] <= Pow2[a + 1 + j]}
<1>1. Octaves \in Nat /\ Octaves - (a + 1) \in Nat /\ b - (a + 1) \in 0 .. Octaves - (a + 1)
  BY HistogramAssumption
<1>2. 0 \in S
  <2>1. a + 1 \in 1 .. Octaves /\ (a + 1) - 1 = a /\ a + 1 + 0 = a + 1
    BY <1>1
  <2>2. Pow2[a + 1] = 2 * Pow2[a] /\ Pow2[a] \in Nat
    BY PowIs, <2>1
  <2> QED BY <2>1, <2>2
<1>3. ASSUME NEW j \in 1 .. Octaves - (a + 1), j - 1 \in S PROVE j \in S
  <2>1. a + 1 + j \in 1 .. Octaves /\ a + 1 + (j - 1) = (a + 1 + j) - 1
        /\ (a + 1 + j) - 1 \in 0 .. Octaves
    BY <1>1
  <2>2. Pow2[a + 1 + j] = 2 * Pow2[(a + 1 + j) - 1]
        /\ Pow2[(a + 1 + j) - 1] \in Nat /\ Pow2[a] \in Nat
    BY <2>1, PowIs
  <2>3. 2 * Pow2[a] <= Pow2[(a + 1 + j) - 1]
    BY <1>3, <2>1
  <2> QED BY <2>2, <2>3
<1>4. b - (a + 1) \in S
  <2> HIDE DEF S
  <2> QED BY <1>1, <1>2, <1>3, UptoInduction
<1>5. a + 1 + (b - (a + 1)) = b
  OBVIOUS
<1> QED BY <1>4, <1>5

\* The greatest of some numbers up to N is one of them, and the least too.
LEMMA GreatestOf ==
  ASSUME NEW N \in Nat, NEW S \in SUBSET (0 .. N), S # {}
  PROVE  Max(S) \in S /\ \A k \in S : k <= Max(S)
<1> DEFINE T == {n \in Nat : n <= N /\ N - n \in S}
<1>1. T \in SUBSET Nat /\ T # {}
  <2>1. PICK k \in S : TRUE
    OBVIOUS
  <2>2. N - k \in T
    <3>1. N - (N - k) = k /\ N - k \in 0 .. N
      OBVIOUS
    <3> QED BY <3>1
  <2> QED BY <2>2
<1>2. PICK m \in T : \A n \in T : m <= n
  <2> HIDE DEF T
  <2> QED BY <1>1, LeastOf
<1>3. N - m \in S /\ \A k \in S : N - m >= k
  <2>1. ASSUME NEW k \in S PROVE N - k \in T
    <3>1. N - (N - k) = k /\ N - k \in 0 .. N
      OBVIOUS
    <3> QED BY <3>1
  <2> QED BY <1>2, <2>1
<1>4. Max(S) \in S /\ \A k \in S : Max(S) >= k
  BY <1>3, Zenon DEF Max
<1> QED BY <1>4

LEMMA LeastIs ==
  ASSUME NEW S \in SUBSET Nat, S # {}
  PROVE  Min(S) \in S /\ \A k \in S : Min(S) <= k
<1>1. \E m \in S : \A k \in S : m =< k
  BY LeastOf
<1> QED BY <1>1, Zenon DEF Min

\* Division rounds down.
LEMMA DivIs ==
  ASSUME NEW a \in Nat, NEW d \in Nat, d >= 1
  PROVE  a \div d \in Nat /\ (a \div d) * d <= a /\ a < (a \div d) * d + d
OBVIOUS

\* And the remainder is what is left.
LEMMA ModIs ==
  ASSUME NEW k \in Nat, NEW r \in Nat, NEW d \in Nat, r < d
  PROVE  (k * d + r) % d = r /\ (k * d + r) \div d = k
OBVIOUS

LEMMA DivGrows ==
  ASSUME NEW a \in Nat, NEW b \in Nat, NEW d \in Nat, d >= 1, a <= b
  PROVE  a \div d <= b \div d
OBVIOUS

LEMMA TimesGrows ==
  ASSUME NEW a \in Nat, NEW b \in Nat, NEW d \in Nat, a <= b
  PROVE  a * d <= b * d
OBVIOUS

LEMMA DivUnder ==
  ASSUME NEW a \in Nat, NEW d \in Nat, NEW k \in Nat, d >= 1, a < k * d
  PROVE  a \div d < k
OBVIOUS

LEMMA DivOver ==
  ASSUME NEW a \in Nat, NEW d \in Nat, NEW k \in Nat, d >= 1, k * d <= a
  PROVE  k <= a \div d
OBVIOUS

\* How many buckets there are.
LEMMA Sizes ==
  /\ SubBits \in Nat /\ Octaves \in Nat /\ SubBits < Octaves
  /\ SubCount \in Nat /\ SubCount >= 1
  /\ NumBuckets \in Nat /\ NumBuckets >= SubCount
  /\ \A i : i \in Buckets <=> i \in Nat /\ i < NumBuckets
<1>1. SubBits \in Nat /\ Octaves \in Nat /\ SubBits < Octaves
  BY HistogramAssumption
<1>2. SubCount \in Nat /\ SubCount >= 1
  BY <1>1, PowIs DEF SubCount
<1>3. Octaves - SubBits + 1 \in Nat /\ Octaves - SubBits + 1 >= 1
  BY <1>1
<1>4. \A x, y \in Nat : x >= 1 => x * y \in Nat /\ x * y >= y
  OBVIOUS
<1>5. NumBuckets \in Nat /\ NumBuckets >= SubCount
  BY <1>2, <1>3, <1>4 DEF NumBuckets
<1>6. \A i : i \in Buckets <=> i \in Nat /\ i < NumBuckets
  BY <1>5 DEF Buckets
<1> QED BY <1>1, <1>2, <1>5, <1>6

\* The octave is the greatest power of two that fits.
LEMMA OctaveIs ==
  ASSUME NEW us \in Nat, us >= 1
  PROVE  /\ Octave(us) \in 0 .. Octaves /\ Pow2[Octave(us)] <= us
         /\ \A k \in 0 .. Octaves : Pow2[k] <= us => k <= Octave(us)
         /\ Octave(us) < Octaves => us < 2 * Pow2[Octave(us)]
<1> DEFINE S == {k \in 0 .. Octaves : Pow2[k] <= us}
<1>1. Octaves \in Nat /\ S \in SUBSET (0 .. Octaves) /\ 0 \in S
  BY Sizes, PowIs
<1>2. Octave(us) \in S /\ \A k \in S : k <= Octave(us)
  <2>1. Octave(us) = Max(S)
    BY DEF Octave
  <2> HIDE DEF S
  <2> QED BY <1>1, <2>1, GreatestOf
<1>3. ASSUME Octave(us) < Octaves PROVE us < 2 * Pow2[Octave(us)]
  <2>1. Octave(us) + 1 \in 1 .. Octaves /\ (Octave(us) + 1) - 1 = Octave(us)
    BY <1>1, <1>2, <1>3
  <2>2. Octave(us) + 1 \notin S /\ Octave(us) + 1 \in 0 .. Octaves
    BY <1>1, <1>2, <2>1
  <2>3. Pow2[Octave(us) + 1] \in Nat /\ Pow2[Octave(us) + 1] = 2 * Pow2[Octave(us)]
    BY <2>1, <2>2, PowIs
  <2> QED BY <2>2, <2>3
<1> QED BY <1>2, <1>3

\* What is not small has a slot of an octave of its own: the bucket is where the
\* value falls when cut off after SubBits bits.
LEMMA BucketForm ==
  ASSUME NEW us \in Nat, us >= SubCount, us < Pow2[Octaves]
  PROVE  LET o == Octave(us)
             w == Pow2[o - SubBits]
             d == us \div w
         IN /\ o \in SubBits .. Octaves - 1
            /\ w \in Nat /\ w >= 1 /\ SubCount * w = Pow2[o]
            /\ d \in Nat /\ SubCount <= d /\ d < 2 * SubCount
            /\ d * w <= us /\ us < d * w + w
            /\ bucketOf(us) = (o - SubBits) * SubCount + d
<1> DEFINE o == Octave(us)
           w == Pow2[o - SubBits]
           d == us \div w
<1>1. o \in 0 .. Octaves /\ Pow2[o] <= us /\ SubBits <= o
  BY Sizes, OctaveIs DEF SubCount
<1>2. o # Octaves
  BY <1>1, PowIs, Sizes
<1>3. o \in SubBits .. Octaves - 1 /\ us < 2 * Pow2[o]
  BY <1>1, <1>2, OctaveIs, Sizes
<1>4. o - SubBits \in 0 .. Octaves /\ SubBits \in 0 .. Octaves /\ SubBits + (o - SubBits) = o
  BY <1>3, Sizes
<1>5. w \in Nat /\ w >= 1 /\ SubCount * w = Pow2[o]
  BY <1>4, <1>1, PowIs, PowSum DEF SubCount
<1>6. d \in Nat /\ d * w <= us /\ us < d * w + w
  BY <1>5, DivIs
<1>7. SubCount <= d /\ d < 2 * SubCount
  <2> HIDE DEF w
  <2>1. (2 * SubCount) * w = 2 * (SubCount * w)
    BY <1>5, Sizes
  <2>2. us < (2 * SubCount) * w
    BY <1>3, <1>5, <2>1
  <2>3. 2 * SubCount \in Nat
    BY Sizes
  <2>4. d < 2 * SubCount
    BY <1>5, <2>2, <2>3, DivUnder
  <2>5. SubCount <= d
    BY <1>1, <1>5, DivOver, Sizes
  <2> QED BY <2>4, <2>5
<1>8. bucketOf(us) = (o - SubBits) * SubCount + d
  <2> HIDE DEF o, d
  <2>1. d - SubCount \in Nat /\ d - SubCount < SubCount /\ d = 1 * SubCount + (d - SubCount)
    BY <1>6, <1>7, Sizes
  <2>2. d % SubCount = d - SubCount
    <3>1. 1 \in Nat /\ SubCount \in Nat
      BY Sizes
    <3>2. (1 * SubCount + (d - SubCount)) % SubCount = d - SubCount
      BY <2>1, <3>1, ModIs
    <3> QED BY <2>1, <3>2
  <2>3. bucketOf(us) = (o - SubBits + 1) * SubCount + (d % SubCount)
    <3>1. ~(us < SubCount)
      BY Sizes
    <3>2. ~(o >= Octaves)
      BY <1>3, Sizes
    <3> QED BY <3>1, <3>2 DEF bucketOf, o, d
  <2>4. (o - SubBits + 1) * SubCount = (o - SubBits) * SubCount + SubCount
        /\ (o - SubBits) * SubCount \in Nat
    <3>1. o - SubBits \in Nat
      BY <1>3, Sizes
    <3>2. \A x, y \in Nat : (x + 1) * y = x * y + y /\ x * y \in Nat
      OBVIOUS
    <3> QED BY <3>1, <3>2, Sizes
  <2> QED BY <2>2, <2>3, <2>4, <1>6, Sizes
<1> QED BY <1>3, <1>5, <1>6, <1>7, <1>8

\* What is beyond the octaves is in the last bucket.
LEMMA BucketBeyond ==
  ASSUME NEW us \in Nat, us >= Pow2[Octaves]
  PROVE  bucketOf(us) = NumBuckets - 1
<1>1. SubCount <= Pow2[Octaves] /\ Pow2[Octaves] \in Nat /\ Octaves \in 0 .. Octaves
  BY Sizes, PowIs, PowGrows DEF SubCount
<1>2. us >= 1 /\ ~(us < SubCount)
  BY <1>1, Sizes
<1>3. Octave(us) >= Octaves
  BY <1>1, <1>2, OctaveIs
<1> QED BY <1>2, <1>3 DEF bucketOf

\* A value has a bucket.
LEMMA BucketType == ASSUME NEW us \in Nat PROVE bucketOf(us) \in Buckets
<1>1. CASE us < SubCount
  BY <1>1, Sizes DEF bucketOf
<1>2. CASE us >= Pow2[Octaves]
  BY <1>2, BucketBeyond, Sizes
<1>3. CASE us >= SubCount /\ us < Pow2[Octaves]
  <2> DEFINE o == Octave(us)
             d == us \div Pow2[o - SubBits]
  <2>1. /\ o \in SubBits .. Octaves - 1 /\ d \in Nat /\ d < 2 * SubCount
        /\ bucketOf(us) = (o - SubBits) * SubCount + d
    BY <1>3, BucketForm
  <2> HIDE DEF o, d
  <2>2. o - SubBits \in Nat /\ Octaves - SubBits + 1 \in Nat
        /\ (o - SubBits) + 2 <= Octaves - SubBits + 1
    BY <2>1, Sizes
  <2>3. ((o - SubBits) + 2) * SubCount <= NumBuckets
    BY <2>2, TimesGrows, Sizes DEF NumBuckets
  <2>4. ((o - SubBits) + 2) * SubCount = (o - SubBits) * SubCount + 2 * SubCount
        /\ (o - SubBits) * SubCount \in Nat
    <3>1. \A x, y \in Nat : (x + 2) * y = x * y + 2 * y /\ x * y \in Nat
      OBVIOUS
    <3> QED BY <3>1, <2>2, Sizes
  <2> QED BY <2>1, <2>3, <2>4, Sizes
<1> QED BY <1>1, <1>2, <1>3, PowIs, Sizes

\* A bucket's greatest value: no less than what is in it, and within an eighth.
LEMMA BucketBounds ==
  ASSUME NEW us \in Nat, us < Pow2[Octaves]
  PROVE  /\ bucketMax(bucketOf(us)) \in Nat
         /\ us <= bucketMax(bucketOf(us))
         /\ SubCount * (bucketMax(bucketOf(us)) - us) <= us
<1>1. CASE us < SubCount
  <2>1. bucketMax(bucketOf(us)) = us
    BY <1>1 DEF bucketOf, bucketMax
  <2>2. SubCount * (us - us) = 0
    BY Sizes
  <2> QED BY <2>1, <2>2
<1>2. CASE us >= SubCount
  <2> DEFINE o == Octave(us)
             w == Pow2[o - SubBits]
             d == us \div w
             b == bucketOf(us)
  <2>1. /\ o \in SubBits .. Octaves - 1
        /\ w \in Nat /\ w >= 1 /\ SubCount * w = Pow2[o]
        /\ d \in Nat /\ SubCount <= d /\ d < 2 * SubCount
        /\ d * w <= us /\ us < d * w + w
        /\ b = (o - SubBits) * SubCount + d
    BY <1>2, BucketForm
  <2>2. Pow2[o] \in Nat /\ Pow2[o] <= us
    <3>1. o \in 0 .. Octaves /\ us >= 1
      BY <2>1, <1>2, Sizes
    <3> QED BY <3>1, OctaveIs, PowIs
  <2> DEFINE k == o - SubBits
             r == d - SubCount
  <2>3. k \in Nat /\ r \in Nat /\ r < SubCount /\ d = SubCount + r
    BY <2>1, Sizes
  <2>w. w = Pow2[k]
    OBVIOUS
  <2> HIDE DEF o, w, d, b, k, r
  <2>4. b = (k + 1) * SubCount + r
    <3>1. \A x, y \in Nat : (x + 1) * y = x * y + y /\ x * y \in Nat
      OBVIOUS
    <3>2. (k + 1) * SubCount = k * SubCount + SubCount /\ k * SubCount \in Nat
      BY <2>3, <3>1, Sizes
    <3>3. b = k * SubCount + d
      BY <2>1 DEF k
    <3> QED BY <2>3, <3>2, <3>3, Sizes
  <2>5. b \div SubCount = k + 1 /\ b % SubCount = r
    <3>1. k + 1 \in Nat
      BY <2>3
    <3> QED BY <2>3, <2>4, <3>1, ModIs, Sizes
  <2>6. b \in Nat /\ ~(b < SubCount)
    <3>1. \A x, y \in Nat : (x + 1) * y >= y /\ (x + 1) * y \in Nat
      OBVIOUS
    <3>2. (k + 1) * SubCount >= SubCount /\ (k + 1) * SubCount \in Nat
      BY <3>1, <2>3, Sizes
    <3> QED BY <3>2, <2>3, <2>4, Sizes
  <2>7. bucketMax(b) = d * w + w - 1
    <3>1. bucketMax(b) = (SubCount + r) * Pow2[(k + 1) - 1] + Pow2[(k + 1) - 1] - 1
      BY <2>5, <2>6 DEF bucketMax
    <3>2. (k + 1) - 1 = k
      BY <2>3
    <3> QED BY <3>1, <3>2, <2>3, <2>w
  <2>8. d * w \in Nat
    BY <2>1
  <2>9. us <= bucketMax(b) /\ bucketMax(b) \in Nat /\ bucketMax(b) - us <= w - 1
        /\ bucketMax(b) - us \in Nat
    BY <2>1, <2>7, <2>8
  <2>10. SubCount * (bucketMax(b) - us) <= SubCount * w
    <3>1. \A x, y, c \in Nat : x <= y => c * x <= c * y
      OBVIOUS
    <3>2. bucketMax(b) - us <= w
      BY <2>1, <2>9
    <3> QED BY <3>1, <3>2, <2>1, <2>9, Sizes
  <2>11. SubCount * (bucketMax(b) - us) \in Nat
    BY <2>9, Sizes
  <2>12. SubCount * (bucketMax(b) - us) <= us
    BY <2>1, <2>2, <2>10, <2>11
  <2> QED BY <2>9, <2>12 DEF b
<1> QED BY <1>1, <1>2, Sizes

\* A greater value is in no earlier bucket.
LEMMA BucketGrows ==
  ASSUME NEW us \in Nat, NEW vs \in Nat, us <= vs
  PROVE  bucketOf(us) <= bucketOf(vs)
<1>1. CASE vs >= Pow2[Octaves]
  BY <1>1, BucketBeyond, BucketType, Sizes
<1>2. CASE vs < SubCount
  BY <1>2, Sizes DEF bucketOf
<1>3. CASE us < SubCount /\ vs >= SubCount /\ vs < Pow2[Octaves]
  <2> DEFINE k == Octave(vs) - SubBits
             d == vs \div Pow2[k]
  <2>1. Octave(vs) \in SubBits .. Octaves - 1 /\ d \in Nat /\ SubCount <= d
        /\ bucketOf(vs) = k * SubCount + d
    BY <1>3, BucketForm
  <2>2. k \in Nat
    BY <2>1, Sizes
  <2> HIDE DEF k, d
  <2>3. k * SubCount \in Nat
    BY <2>2, Sizes
  <2>4. bucketOf(us) = us
    BY <1>3 DEF bucketOf
  <2> QED BY <1>3, <2>1, <2>3, <2>4, Sizes
<1>4. CASE us >= SubCount /\ vs < Pow2[Octaves]
  <2> DEFINE j == Octave(us) - SubBits
             c == us \div Pow2[j]
             k == Octave(vs) - SubBits
             d == vs \div Pow2[k]
  <2>1. /\ Octave(us) \in SubBits .. Octaves - 1 /\ c \in Nat /\ c < 2 * SubCount
        /\ bucketOf(us) = j * SubCount + c /\ Pow2[j] \in Nat /\ Pow2[j] >= 1
    <3>1. us < Pow2[Octaves]
      BY <1>4, PowIs, Sizes
    <3> QED BY <1>4, <3>1, BucketForm
  <2>2. Octave(vs) \in SubBits .. Octaves - 1 /\ d \in Nat /\ SubCount <= d
        /\ bucketOf(vs) = k * SubCount + d
    <3>1. vs >= SubCount
      BY <1>4, Sizes
    <3> QED BY <1>4, <3>1, BucketForm
  <2>3. Octave(us) <= Octave(vs)
    <3>1. us >= 1 /\ vs >= 1 /\ Octave(us) \in 0 .. Octaves /\ Pow2[Octave(us)] \in Nat
      BY <1>4, <2>1, Sizes, PowIs
    <3>2. Pow2[Octave(us)] <= vs
      BY <3>1, OctaveIs
    <3> QED BY <3>1, <3>2, OctaveIs
  <2>4. j \in Nat /\ k \in Nat /\ j <= k
    BY <2>1, <2>2, <2>3, Sizes
  <2>5. CASE j = k
    <3>1. c <= d
      BY <2>1, <2>5, DivGrows
    <3> HIDE DEF c, d, j, k
    <3>2. k * SubCount \in Nat
      BY <2>4, Sizes
    <3> QED BY <2>1, <2>2, <2>5, <3>1, <3>2
  <2>6. CASE j < k
    <3> HIDE DEF c, d, j, k
    <3>1. (j + 1) * SubCount <= k * SubCount
      <4>1. j + 1 \in Nat /\ j + 1 <= k
        BY <2>4, <2>6
      <4> QED BY <4>1, <2>4, TimesGrows, Sizes
    <3>2. (j + 1) * SubCount = j * SubCount + SubCount
          /\ j * SubCount \in Nat /\ k * SubCount \in Nat
      <4>1. \A x, y \in Nat : (x + 1) * y = x * y + y /\ x * y \in Nat
        OBVIOUS
      <4> QED BY <4>1, <2>4, Sizes
    <3> QED BY <2>1, <2>2, <3>1, <3>2, Sizes
  <2> QED BY <2>4, <2>5, <2>6
<1> QED BY <1>1, <1>2, <1>3, <1>4, PowIs, Sizes

-----------------------------------------------------------------------------
(* Histograms *)

\* The larger of two numbers is a number.
LEMMA LargerType == ASSUME NEW a \in Nat, NEW b \in Nat PROVE Max({a, b}) \in Nat
<1>1. \E m \in {a, b} : \A x \in {a, b} : m >= x
  OBVIOUS
<1>2. Max({a, b}) \in {a, b}
  BY <1>1 DEF Max
<1> QED BY <1>2

\* A histogram has its fields, and the counts are numbers.
LEMMA HistogramHas ==
  ASSUME NEW h \in Histograms
  PROVE  h.count \in Nat /\ h.max \in Nat /\ h.buckets \in [Buckets -> Nat]
BY DEF Histograms

\* An empty one is one.
LEMMA EmptyType == EmptyHistogram \in Histograms /\ EmptyHistogram.count = 0
BY DEF EmptyHistogram, Histograms

\* A latency more is one more.
LEMMA RecordType ==
  ASSUME NEW h \in Histograms, NEW d \in Nat
  PROVE  Record(h, d) \in Histograms /\ Record(h, d).count = h.count + 1
<1>1. Max({h.max, d}) \in Nat
  BY HistogramHas, LargerType
<1>2. [h.buckets EXCEPT ![bucketOf(d)] = @ + 1] \in [Buckets -> Nat]
  <2>1. ASSUME NEW f \in [Buckets -> Nat], NEW b PROVE [f EXCEPT ![b] = @ + 1] \in [Buckets -> Nat]
    <3>1. CASE b \in Buckets
      BY <3>1
    <3>2. CASE b \notin Buckets
      BY <3>2
    <3> QED BY <3>1, <3>2
  <2> QED BY <2>1, HistogramHas
<1> QED BY <1>1, <1>2, HistogramHas DEF Record, Histograms

\* Merging adds the counts.
LEMMA MergeType ==
  ASSUME NEW h \in Histograms, NEW o \in Histograms
  PROVE  Merge(h, o) \in Histograms /\ Merge(h, o).count = h.count + o.count
<1>1. Max({h.max, o.max}) \in Nat
  BY HistogramHas, LargerType
<1>2. [i \in Buckets |-> h.buckets[i] + o.buckets[i]] \in [Buckets -> Nat]
  BY HistogramHas
<1> QED BY <1>1, <1>2, HistogramHas DEF Merge, Histograms

-----------------------------------------------------------------------------
(* What a quantile says *)

\* The larger, or the smaller, of two numbers is one of them.
LEMMA LargerIs ==
  ASSUME NEW a \in Nat, NEW b \in Nat
  PROVE  /\ Max({a, b}) = IF a >= b THEN a ELSE b
         /\ Min({a, b}) = IF a <= b THEN a ELSE b
<1>1. {a, b} \in SUBSET Nat /\ {a, b} # {}
  OBVIOUS
<1>2. \E m \in {a, b} : \A x \in {a, b} : m >= x
  OBVIOUS
<1>3. Max({a, b}) \in {a, b} /\ \A x \in {a, b} : Max({a, b}) >= x
  BY <1>2, Zenon DEF Max
<1>4. Min({a, b}) \in {a, b} /\ \A x \in {a, b} : Min({a, b}) <= x
  BY <1>1, LeastIs
<1> QED BY <1>3, <1>4

\* A histogram's sums add its buckets up.
LEMMA SeenIs ==
  ASSUME NEW h \in Histograms
  PROVE  /\ Seen(h)[0] = h.buckets[0]
         /\ \A i \in 1 .. NumBuckets - 1 : Seen(h)[i] = Seen(h)[i - 1] + h.buckets[i]
<1> DEFINE N == NumBuckets - 1
           G == [i \in Nat |-> [x \in Nat |-> IF i \in Buckets THEN x + h.buckets[i] ELSE 0]]
<1>1. N \in Nat /\ Buckets = 0 .. N /\ h.buckets \in [Buckets -> Nat]
  BY Sizes, HistogramHas DEF Buckets
<1>2. G \in [Nat -> [Nat -> Nat]] /\ h.buckets[0] \in Nat
  BY <1>1
<1> HIDE DEF N
<1>3. Stepping(Nat, h.buckets[0], G, N) # {}
  <2> HIDE DEF G
  <2> QED BY <1>1, <1>2, StepByStep, Zenon
<1>4. PICK f \in [0 .. N -> Nat] : f[0] = h.buckets[0] /\ \A i \in 1 .. N : f[i] = G[i][f[i - 1]]
  <2> HIDE DEF G
  <2> QED BY <1>3 DEF Stepping
<1>5. f = [i \in Buckets |-> IF i = 0 THEN h.buckets[0] ELSE f[i - 1] + h.buckets[i]]
  <2>1. ASSUME NEW k \in 1 .. N PROVE f[k] = f[k - 1] + h.buckets[k]
    <3>1. k \in Nat /\ k - 1 \in 0 .. N /\ k \in Buckets
      BY <1>1
    <3>2. f[k - 1] \in Nat /\ f[k] = G[k][f[k - 1]]
      BY <1>4, <3>1
    <3> QED BY <3>1, <3>2
  <2> QED BY <1>1, <1>4, <2>1
<1>6. Seen(h) = [i \in Buckets |-> IF i = 0 THEN h.buckets[0] ELSE Seen(h)[i - 1] + h.buckets[i]]
  BY <1>5, Zenon DEF Seen
<1> QED BY <1>1, <1>6 DEF N

\* What is recorded, one sample at a time.
LEMMA AfterIs ==
  ASSUME NEW s \in Seq(Nat)
  PROVE  /\ After(s)[0] = EmptyHistogram
         /\ \A i \in 1 .. Len(s) : After(s)[i] = Record(After(s)[i - 1], s[i])
         /\ \A i \in 0 .. Len(s) : After(s)[i] \in Histograms
<1> DEFINE N == Len(s)
           G == [i \in Nat |-> [h \in Histograms |-> IF i \in 1 .. N THEN Record(h, s[i]) ELSE h]]
<1>1. N \in Nat /\ EmptyHistogram \in Histograms
  BY EmptyType
<1>2. \A i \in 1 .. N : s[i] \in Nat
  OBVIOUS
<1> HIDE DEF N
<1>3. G \in [Nat -> [Histograms -> Histograms]]
  BY <1>2, RecordType
<1>4. Stepping(Histograms, EmptyHistogram, G, N) # {}
  <2> HIDE DEF G
  <2> QED BY <1>1, <1>3, StepByStep, Zenon
<1>5. PICK f \in [0 .. N -> Histograms] :
        f[0] = EmptyHistogram /\ \A i \in 1 .. N : f[i] = G[i][f[i - 1]]
  <2> HIDE DEF G
  <2> QED BY <1>4 DEF Stepping
<1>6. f = [i \in 0 .. N |-> IF i = 0 THEN EmptyHistogram ELSE Record(f[i - 1], s[i])]
  <2>1. ASSUME NEW k \in 1 .. N PROVE f[k] = Record(f[k - 1], s[k])
    <3>1. k \in Nat /\ k - 1 \in 0 .. N
      BY <1>1
    <3>2. f[k - 1] \in Histograms /\ f[k] = G[k][f[k - 1]]
      BY <1>5, <3>1
    <3> QED BY <3>1, <3>2
  <2> QED BY <1>1, <1>5, <2>1
<1>7. After(s) = [i \in 0 .. N |-> IF i = 0 THEN EmptyHistogram ELSE Record(After(s)[i - 1], s[i])]
  BY <1>6, Zenon DEF After, N
<1>8. After(s)[0] = EmptyHistogram /\ \A i \in 1 .. N : After(s)[i] = Record(After(s)[i - 1], s[i])
  BY <1>1, <1>7
<1>9. ASSUME NEW i \in 0 .. N PROVE After(s)[i] \in Histograms
  <2> DEFINE S == {j \in Nat : After(s)[j] \in Histograms}
  <2>1. 0 \in S
    BY <1>1, <1>8
  <2>2. ASSUME NEW j \in 1 .. N, j - 1 \in S PROVE j \in S
    <3>1. After(s)[j - 1] \in Histograms /\ s[j] \in Nat
      BY <1>2, <2>2
    <3>2. After(s)[j] = Record(After(s)[j - 1], s[j]) /\ j \in Nat
      BY <1>1, <1>8
    <3> QED BY <3>1, <3>2, RecordType
  <2> HIDE DEF S
  <2>3. i \in S
    BY <1>1, <2>1, <2>2, UptoInduction
  <2> QED BY <2>3 DEF S
<1> QED BY <1>8, <1>9 DEF N

\* The first i samples that are in bucket b.
Among(s, i, b) == {k \in 1 .. i : bucketOf(s[k]) = b}

\* After i samples a histogram has counted them, each in its bucket, and knows the worst.
Tallies(h, s, i) ==
  /\ h.count = i
  /\ \A b \in Buckets : h.buckets[b] = Cardinality(Among(s, i, b))
  /\ \A k \in 1 .. i : s[k] <= h.max
  /\ IF i = 0 THEN h.max = 0 ELSE \E k \in 1 .. i : s[k] = h.max

LEMMA RecordTallies ==
  ASSUME NEW s \in Seq(Nat), NEW i \in 1 .. Len(s), NEW h \in Histograms, Tallies(h, s, i - 1)
  PROVE  Tallies(Record(h, s[i]), s, i)
<1> DEFINE g == Record(h, s[i])
<1>1. s[i] \in Nat /\ i - 1 \in Nat /\ i \in Nat /\ (i - 1) + 1 = i /\ \A k \in 1 .. i : s[k] \in Nat
  OBVIOUS
<1>2. h.max \in Nat /\ h.count = i - 1 /\ h.buckets \in [Buckets -> Nat] /\ bucketOf(s[i]) \in Buckets
  BY <1>1, HistogramHas, BucketType DEF Tallies
<1>3. g.count = i /\ g.buckets = [h.buckets EXCEPT ![bucketOf(s[i])] = @ + 1]
      /\ g.max = IF h.max >= s[i] THEN h.max ELSE s[i]
  BY <1>1, <1>2, LargerIs DEF Record
<1> HIDE DEF g
<1>4. ASSUME NEW b \in Buckets PROVE g.buckets[b] = Cardinality(Among(s, i, b))
  <2>1. IsFiniteSet(Among(s, i - 1, b)) /\ i \notin Among(s, i - 1, b)
    <3>1. IsFiniteSet(1 .. i - 1)
      BY <1>1, FS_Interval
    <3> QED BY <1>1, <3>1, FS_Subset DEF Among
  <2>2. h.buckets[b] = Cardinality(Among(s, i - 1, b))
    BY DEF Tallies
  <2>3. CASE bucketOf(s[i]) = b
    <3>1. Among(s, i, b) = Among(s, i - 1, b) \cup {i}
      BY <1>1, <2>3 DEF Among
    <3>2. g.buckets[b] = h.buckets[b] + 1
      BY <1>2, <1>3, <2>3
    <3>3. Cardinality(Among(s, i, b)) = Cardinality(Among(s, i - 1, b)) + 1
      BY <2>1, <3>1, FS_AddElement
    <3> QED BY <2>2, <3>2, <3>3
  <2>4. CASE bucketOf(s[i]) # b
    <3>1. Among(s, i, b) = Among(s, i - 1, b)
      BY <1>1, <2>4 DEF Among
    <3> QED BY <1>2, <1>3, <2>2, <2>4, <3>1
  <2> QED BY <2>3, <2>4
<1>5. \A k \in 1 .. i : s[k] <= g.max
  <2>1. \A k \in 1 .. i - 1 : s[k] <= h.max
    BY DEF Tallies
  <2>2. \A k \in 1 .. i : k = i \/ k \in 1 .. i - 1
    BY <1>1
  <2> QED BY <1>1, <1>2, <1>3, <2>1, <2>2
<1>6. \E k \in 1 .. i : s[k] = g.max
  <2>1. IF i - 1 = 0 THEN h.max = 0 ELSE \E k \in 1 .. i - 1 : s[k] = h.max
    BY DEF Tallies
  <2>2. CASE s[i] >= h.max
    BY <1>1, <1>2, <1>3, <2>2
  <2>3. CASE s[i] < h.max
    <3>1. i - 1 # 0 /\ g.max = h.max
      BY <1>1, <1>2, <1>3, <2>1, <2>3
    <3> QED BY <1>1, <2>1, <3>1
  <2> QED BY <1>1, <1>2, <2>2, <2>3
<1> QED BY <1>3, <1>4, <1>5, <1>6 DEF Tallies, g

LEMMA RecordedTallies ==
  ASSUME NEW s \in Seq(Nat)
  PROVE  Recorded(s) \in Histograms /\ Tallies(Recorded(s), s, Len(s))
<1>1. Len(s) \in Nat
  OBVIOUS
<1> DEFINE S == {i \in 0 .. Len(s) : Tallies(After(s)[i], s, i)}
<1>2. 0 \in S
  <2>1. After(s)[0] = EmptyHistogram
    BY AfterIs
  <2>2. ASSUME NEW b \in Buckets PROVE EmptyHistogram.buckets[b] = Cardinality(Among(s, 0, b))
    <3>1. Among(s, 0, b) = {}
      BY DEF Among
    <3> QED BY <3>1, FS_EmptySet DEF EmptyHistogram
  <2>3. Tallies(EmptyHistogram, s, 0)
    BY <2>2 DEF Tallies, EmptyHistogram
  <2> QED BY <1>1, <2>1, <2>3
<1>3. ASSUME NEW i \in 1 .. Len(s), i - 1 \in S PROVE i \in S
  <2>1. After(s)[i - 1] \in Histograms /\ Tallies(After(s)[i - 1], s, i - 1)
    BY <1>3, AfterIs
  <2>2. Tallies(Record(After(s)[i - 1], s[i]), s, i)
    BY <2>1, RecordTallies
  <2>3. After(s)[i] = Record(After(s)[i - 1], s[i])
    BY AfterIs
  <2> QED BY <2>2, <2>3
<1>4. Len(s) \in S
  <2> HIDE DEF S
  <2>1. Len(s) \in 0 .. Len(s)
    BY <1>1
  <2> QED BY <1>1, <1>2, <1>3, <2>1, UptoInduction
<1>5. Len(s) \in 0 .. Len(s)
  BY <1>1
<1> QED BY <1>4, <1>5, AfterIs DEF Recorded

\* The samples that are in bucket b or an earlier one.
Below(s, b) == {k \in 1 .. Len(s) : bucketOf(s[k]) <= b}

\* What the loop has seen by a bucket is the samples that are no further.
LEMMA SeenCounts ==
  ASSUME NEW s \in Seq(Nat), NEW b \in Buckets
  PROVE  Seen(Recorded(s))[b] = Cardinality(Below(s, b))
<1> DEFINE h == Recorded(s)
           n == Len(s)
           N == NumBuckets - 1
           S == {i \in Nat : Seen(h)[i] = Cardinality(Below(s, i))}
<1>1. /\ n \in Nat /\ N \in Nat /\ b \in 0 .. N
      /\ \A i \in 0 .. N : i \in Buckets
      /\ \A k \in 1 .. n : bucketOf(s[k]) \in Nat
  <2>1. n \in Nat /\ \A k \in 1 .. n : s[k] \in Nat
    OBVIOUS
  <2> HIDE DEF n
  <2>2. \A k \in 1 .. n : bucketOf(s[k]) \in Buckets
    BY <2>1, BucketType
  <2>3. N \in Nat /\ b \in 0 .. N /\ \A i \in 0 .. N : i \in Buckets
    BY Sizes
  <2> QED BY <2>1, <2>2, <2>3, Sizes
<1>2. h \in Histograms /\ \A i \in Buckets : h.buckets[i] = Cardinality(Among(s, n, i))
  BY RecordedTallies DEF Tallies
<1>3. Seen(h)[0] = h.buckets[0] /\ \A i \in 1 .. N : Seen(h)[i] = Seen(h)[i - 1] + h.buckets[i]
  BY <1>2, SeenIs
<1> HIDE DEF h, n, N
<1>4. \A i : IsFiniteSet(Among(s, n, i)) /\ IsFiniteSet(Below(s, i))
  <2>1. IsFiniteSet(1 .. n)
    BY <1>1, FS_Interval
  <2> QED BY <2>1, FS_Subset DEF Among, Below, n
<1>5. 0 \in S
  <2>1. Below(s, 0) = Among(s, n, 0)
    BY <1>1 DEF Below, Among, n
  <2>2. 0 \in Buckets
    BY <1>1
  <2> QED BY <1>2, <1>3, <2>1, <2>2
<1>6. ASSUME NEW i \in 1 .. N, i - 1 \in S PROVE i \in S
  <2>1. i \in Nat /\ i - 1 \in Nat /\ i \in Buckets
    BY <1>1
  <2>2. Below(s, i) = Below(s, i - 1) \cup Among(s, n, i)
    BY <1>1, <2>1 DEF Below, Among, n
  <2>3. Below(s, i - 1) \cap Among(s, n, i) = {}
    BY <1>1, <2>1 DEF Below, Among, n
  <2>4. Cardinality(Below(s, i)) = Cardinality(Below(s, i - 1)) + Cardinality(Among(s, n, i))
    <3>1. Cardinality(Below(s, i)) =
            Cardinality(Below(s, i - 1)) + Cardinality(Among(s, n, i)) - Cardinality({})
      BY <1>4, <2>2, <2>3, FS_Union
    <3>2. Cardinality(Below(s, i - 1)) \in Nat /\ Cardinality(Among(s, n, i)) \in Nat
      BY <1>4, FS_CardinalityType
    <3> QED BY <3>1, <3>2, FS_EmptySet
  <2>5. Seen(h)[i - 1] = Cardinality(Below(s, i - 1))
    BY <1>6
  <2> QED BY <1>2, <1>3, <2>1, <2>4, <2>5
<1>7. b \in S
  <2> HIDE DEF S
  <2> QED BY <1>1, <1>5, <1>6, UptoInduction
<1> QED BY <1>7 DEF h

\* A quantile asks for one sample at least and for no more than there are.
LEMMA WantIs ==
  ASSUME NEW q \in Quantiles, NEW n \in Nat, n >= 1
  PROVE  Want(q, n) \in 1 .. n
<1>1. q[1] \in Nat /\ q[2] \in Nat /\ q[2] >= 1 /\ q[1] <= q[2]
  BY HistogramAssumption
<1> DEFINE p == q[1]
           d == q[2]
           a == p * n + d - 1
<1>2. p * n \in Nat /\ p * n <= d * n /\ d * n \in Nat
  <2>1. \A x, y, z \in Nat : x <= y => x * z \in Nat /\ y * z \in Nat /\ x * z <= y * z
    OBVIOUS
  <2> QED BY <1>1, <2>1
<1>3. (n + 1) * d = d * n + d
  BY <1>1
<1>4. a \in Nat /\ a < (n + 1) * d
  BY <1>1, <1>2, <1>3
<1>5. a \div d \in Nat /\ a \div d < n + 1
  <2>1. n + 1 \in Nat
    OBVIOUS
  <2> HIDE DEF a
  <2> QED BY <1>1, <1>4, <2>1, DivIs, DivUnder
<1>6. Want(q, n) = IF 1 >= a \div d THEN 1 ELSE a \div d
  <2>1. Want(q, n) = Max({1, a \div d})
    BY DEF Want
  <2>2. 1 \in Nat
    OBVIOUS
  <2> HIDE DEF a
  <2> QED BY <1>5, <2>1, <2>2, LargerIs
<1> QED BY <1>5, <1>6

\* The samples that are no greater than x, and those that are less.
Upto(s, x)  == {i \in 1 .. Len(s) : s[i] <= x}
Under(s, x) == {i \in 1 .. Len(s) : s[i] < x}

LEMMA UptoFinite ==
  ASSUME NEW s \in Seq(Nat), NEW T \in SUBSET (1 .. Len(s))
  PROVE  IsFiniteSet(T) /\ Cardinality(T) \in Nat
<1>1. IsFiniteSet(1 .. Len(s))
  BY FS_Interval
<1> QED BY <1>1, FS_Subset, FS_CardinalityType

\* The sample a quantile stands for is one of them; enough are no greater, and those
\* that are less are not enough.
LEMMA ExactIs ==
  ASSUME NEW s \in Seq(Nat), Len(s) >= 1, NEW w \in 1 .. Len(s), NEW q, Want(q, Len(s)) = w
  PROVE  /\ \E i \in 1 .. Len(s) : Exact(s, q) = s[i]
         /\ Exact(s, q) \in Nat
         /\ Cardinality(Upto(s, Exact(s, q))) >= w
         /\ Cardinality(Under(s, Exact(s, q))) < w
<1> DEFINE X == {x \in ToSet(s) : Cardinality({i \in DOMAIN s : s[i] <= x}) >= w}
           e == Exact(s, q)
<1>1. DOMAIN s = 1 .. Len(s) /\ \A i \in 1 .. Len(s) : s[i] \in Nat
  OBVIOUS
<1>2. X = {x \in ToSet(s) : Cardinality(Upto(s, x)) >= w}
  BY <1>1 DEF Upto
<1>3. e = Min(X)
  BY DEF Exact
<1> HIDE DEF X
<1>4. X \in SUBSET Nat
  BY <1>1, <1>2 DEF ToSet
<1>5. X # {}
  <2>1. PICK k \in 1 .. Len(s) : s[k] = Recorded(s).max
    BY RecordedTallies DEF Tallies
  <2>2. \A i \in 1 .. Len(s) : s[i] <= s[k]
    BY <2>1, RecordedTallies DEF Tallies
  <2>3. Upto(s, s[k]) = 1 .. Len(s)
    BY <2>2 DEF Upto
  <2>4. Cardinality(Upto(s, s[k])) = Len(s)
    <3>1. Len(s) \in Int /\ 1 \in Int /\ ~(1 > Len(s)) /\ Len(s) - 1 + 1 = Len(s)
      OBVIOUS
    <3>2. Cardinality(1 .. Len(s)) = Len(s)
      BY <3>1, FS_Interval
    <3> QED BY <2>3, <3>2
  <2>5. s[k] \in ToSet(s)
    BY <1>1 DEF ToSet
  <2>6. s[k] \in X
    BY <1>2, <2>4, <2>5
  <2> QED BY <2>6
<1>6. e \in X /\ \A x \in X : e <= x
  BY <1>3, <1>4, <1>5, LeastIs
<1> HIDE DEF e
<1>7. e \in Nat /\ \E i \in 1 .. Len(s) : e = s[i]
  BY <1>1, <1>2, <1>4, <1>6 DEF ToSet
<1>8. Cardinality(Upto(s, e)) >= w
  BY <1>2, <1>6
<1>9. Cardinality(Under(s, e)) < w
  <2>1. CASE Under(s, e) = {}
    BY <2>1, FS_EmptySet
  <2>2. CASE Under(s, e) # {}
    <3> DEFINE Y == {s[i] : i \in Under(s, e)}
               y == Max(Y)
    <3>1. Y \in SUBSET (0 .. e) /\ Y # {}
      <4>1. \A i \in Under(s, e) : s[i] \in 0 .. e
        BY <1>1, <1>7 DEF Under
      <4> QED BY <2>2, <4>1
    <3>2. y \in Y /\ \A x \in Y : x <= y
      <4> HIDE DEF Y
      <4> QED BY <1>7, <3>1, GreatestOf
    <3>3. y \in ToSet(s) /\ y < e /\ y \in Nat
      BY <1>1, <1>7, <3>2 DEF Under, ToSet
    <3>4. Upto(s, y) = Under(s, e)
      <4>1. \A i \in Under(s, e) : s[i] <= y
        BY <3>2
      <4> HIDE DEF y
      <4>2. \A i \in 1 .. Len(s) : s[i] <= y => s[i] < e
        BY <1>1, <1>7, <3>3
      <4> QED BY <4>1, <4>2 DEF Under, Upto
    <3>5. ~(Cardinality(Upto(s, y)) >= w)
      <4> HIDE DEF y
      <4>1. y \notin X
        BY <1>6, <1>7, <3>3
      <4> QED BY <1>2, <3>3, <4>1
    <3>6. Cardinality(Under(s, e)) \in Nat
      BY UptoFinite DEF Under
    <3> QED BY <3>4, <3>5, <3>6
  <2> QED BY <2>1, <2>2
<1> QED BY <1>7, <1>8, <1>9 DEF e

\* Every bucket has a greatest value.
LEMMA BucketMaxType == ASSUME NEW b \in Buckets PROVE bucketMax(b) \in Nat
<1>1. b \in Nat /\ b < NumBuckets
  BY Sizes
<1>2. CASE b < SubCount
  BY <1>1, <1>2 DEF bucketMax
<1>3. CASE b >= SubCount
  <2> DEFINE k == b \div SubCount
             p == Pow2[k - 1]
  <2>1. k \in Nat /\ k >= 1 /\ k < Octaves - SubBits + 1
    <3>1. Octaves - SubBits + 1 \in Nat /\ 1 \in Nat /\ b < (Octaves - SubBits + 1) * SubCount
          /\ 1 * SubCount <= b
      BY <1>1, <1>3, Sizes DEF NumBuckets
    <3> QED BY <1>1, <3>1, DivIs, DivUnder, DivOver, Sizes
  <2>2. k - 1 \in 0 .. Octaves
    BY <2>1, Sizes
  <2>3. p \in Nat /\ p >= 1
    BY <2>2, PowIs
  <2>4. bucketMax(b) = (SubCount + (b % SubCount)) * p + p - 1
    BY <1>1, <1>3, Sizes DEF bucketMax
  <2>5. SubCount + (b % SubCount) \in Nat
    BY <1>1, Sizes
  <2> HIDE DEF k, p
  <2>6. (SubCount + (b % SubCount)) * p \in Nat
    BY <2>3, <2>5
  <2> QED BY <2>3, <2>4, <2>6
<1> QED BY <1>1, <1>2, <1>3, Sizes

\* The bucket of the sample a quantile stands for is the one the loop stops at.
LEMMA QuantileIs ==
  ASSUME NEW s \in Seq(Nat), Len(s) >= 1, NEW q \in Quantiles
  PROVE  Quantile(Recorded(s), q) = Min({bucketMax(bucketOf(Exact(s, q))), Recorded(s).max})
<1> DEFINE h == Recorded(s)
           w == Want(q, Len(s))
           e == Exact(s, q)
           b == bucketOf(e)
           enough == {i \in Buckets : Seen(h)[i] >= Want(q, h.count)}
<1>1. Len(s) \in Nat /\ \A i \in 1 .. Len(s) : s[i] \in Nat
  OBVIOUS
<1>2. w \in 1 .. Len(s)
  BY <1>1, WantIs
<1>3. e \in Nat /\ Cardinality(Upto(s, e)) >= w /\ Cardinality(Under(s, e)) < w
  BY <1>2, ExactIs
<1>4. h.count = Len(s)
  BY RecordedTallies DEF Tallies
<1> HIDE DEF w, e
<1>5. enough = {i \in Buckets : Cardinality(Below(s, i)) >= w}
  BY <1>4, SeenCounts DEF w
<1>6. b \in Buckets /\ \A i \in 1 .. Len(s) : bucketOf(s[i]) \in Nat
  BY <1>1, <1>3, BucketType, Sizes
<1>7. b \in enough
  <2>1. Upto(s, e) \subseteq Below(s, b)
    BY <1>1, <1>3, BucketGrows DEF Upto, Below
  <2>2. /\ IsFiniteSet(Below(s, b)) /\ Cardinality(Below(s, b)) \in Nat
        /\ Cardinality(Upto(s, e)) \in Nat
    BY UptoFinite DEF Below, Upto
  <2>3. Cardinality(Upto(s, e)) <= Cardinality(Below(s, b))
    BY <2>1, <2>2, FS_Subset
  <2>4. Cardinality(Below(s, b)) >= w
    BY <1>2, <1>3, <2>2, <2>3
  <2> HIDE DEF b
  <2> QED BY <1>5, <1>6, <2>4
<1>8. ASSUME NEW i \in enough PROVE b <= i
  <2>1. i \in Buckets /\ i \in Nat /\ Cardinality(Below(s, i)) >= w /\ b \in Nat
    BY <1>5, <1>6, Sizes
  <2>2. SUFFICES ASSUME i < b PROVE FALSE
    BY <2>1
  <2>3. Below(s, i) \subseteq Under(s, e)
    <3>1. ASSUME NEW k \in 1 .. Len(s), bucketOf(s[k]) <= i PROVE s[k] < e
      <4>1. s[k] \in Nat /\ bucketOf(s[k]) \in Nat
        BY <1>1, <1>6
      <4>2. e <= s[k] => b <= bucketOf(s[k])
        BY <1>3, <4>1, BucketGrows
      <4> HIDE DEF b
      <4> QED BY <1>3, <2>1, <2>2, <3>1, <4>1, <4>2
    <3> QED BY <3>1 DEF Below, Under
  <2>4. IsFiniteSet(Under(s, e)) /\ Cardinality(Under(s, e)) \in Nat /\ Cardinality(Below(s, i)) \in Nat
    BY UptoFinite DEF Below, Under
  <2>5. Cardinality(Below(s, i)) <= Cardinality(Under(s, e))
    BY <2>3, <2>4, FS_Subset
  <2> QED BY <1>2, <1>3, <2>1, <2>4, <2>5
<1>9. Min(enough) = b
  <2>1. enough \in SUBSET Nat /\ enough # {} /\ b \in Nat
    BY <1>6, <1>7, Sizes
  <2> HIDE DEF enough, b
  <2>2. Min(enough) \in enough /\ Min(enough) <= b /\ b <= Min(enough)
    BY <1>7, <1>8, <2>1, LeastIs
  <2>3. Min(enough) \in Nat
    BY <2>1, <2>2
  <2> QED BY <2>1, <2>2, <2>3
<1>10. Quantile(h, q) = IF h.count = 0 THEN 0
                        ELSE IF enough = {} THEN h.max ELSE Min({bucketMax(Min(enough)), h.max})
  BY DEF Quantile
<1>11. enough # {} /\ h.count # 0
  BY <1>1, <1>4, <1>7
<1> HIDE DEF enough, b, h
<1>12. Quantile(h, q) = Min({bucketMax(b), h.max})
  BY <1>9, <1>10, <1>11
<1> QED BY <1>12 DEF b, h, e

\* So it is an upper bound, within an eighth, and no more than the worst.
LEMMA QuantileBound ==
  ASSUME NEW s \in Seq(Nat), Len(s) >= 1, NEW q \in Quantiles
  PROVE  LET got == Quantile(Recorded(s), q) IN
         /\ got <= Max(ToSet(s))
         /\ Exact(s, q) < Pow2[Octaves] =>
              Exact(s, q) <= got /\ SubCount * (got - Exact(s, q)) <= Exact(s, q)
<1> DEFINE h == Recorded(s)
           e == Exact(s, q)
           m == bucketMax(bucketOf(e))
           got == Quantile(h, q)
<1>1. Len(s) \in Nat /\ DOMAIN s = 1 .. Len(s) /\ \A i \in 1 .. Len(s) : s[i] \in Nat
  OBVIOUS
<1>2. e \in Nat /\ \E i \in 1 .. Len(s) : e = s[i]
  BY <1>1, WantIs, ExactIs
<1>3. /\ h.max \in Nat /\ \A i \in 1 .. Len(s) : s[i] <= h.max
      /\ \E i \in 1 .. Len(s) : s[i] = h.max
  <2>1. h \in Histograms /\ Tallies(h, s, Len(s))
    BY RecordedTallies
  <2> HIDE DEF h
  <2>2. h.max \in Nat
    BY <2>1, HistogramHas
  <2> QED BY <1>1, <2>1, <2>2 DEF Tallies
<1>4. m \in Nat
  BY <1>2, BucketType, BucketMaxType
<1>5. got = IF m <= h.max THEN m ELSE h.max
  <2>1. got = Min({m, h.max})
    BY QuantileIs
  <2> HIDE DEF m, h, got
  <2> QED BY <1>3, <1>4, <2>1, LargerIs
<1> HIDE DEF h, e, got
<1>6. h.max <= Max(ToSet(s))
  <2>1. ToSet(s) \in SUBSET (0 .. h.max) /\ h.max \in ToSet(s)
    BY <1>1, <1>3 DEF ToSet
  <2> QED BY <1>3, <2>1, GreatestOf
<1>7. Max(ToSet(s)) \in Nat
  <2>1. ToSet(s) \in SUBSET (0 .. h.max) /\ h.max \in ToSet(s)
    BY <1>1, <1>3 DEF ToSet
  <2>2. Max(ToSet(s)) \in 0 .. h.max
    BY <1>3, <2>1, GreatestOf
  <2> QED BY <1>3, <2>2
<1>8. got <= Max(ToSet(s)) /\ got \in Nat
  <2> HIDE DEF m
  <2> QED BY <1>3, <1>4, <1>5, <1>6, <1>7
<1>9. ASSUME e < Pow2[Octaves] PROVE e <= got /\ SubCount * (got - e) <= e
  <2>1. e <= m /\ SubCount * (m - e) <= e
    BY <1>2, <1>9, BucketBounds
  <2> HIDE DEF m
  <2>2. e <= h.max
    BY <1>2, <1>3
  <2>3. e <= got /\ got <= m
    BY <1>3, <1>4, <1>5, <2>1, <2>2
  <2>4. got - e \in Nat /\ m - e \in Nat /\ got - e <= m - e
    BY <1>2, <1>4, <1>8, <2>1, <2>3
  <2>5. SubCount * (got - e) <= SubCount * (m - e)
        /\ SubCount * (got - e) \in Nat /\ SubCount * (m - e) \in Nat
    <3>1. \A x, y, c \in Nat : x <= y => c * x <= c * y /\ c * x \in Nat /\ c * y \in Nat
      OBVIOUS
    <3> QED BY <2>4, <3>1, Sizes
  <2> QED BY <1>2, <2>1, <2>3, <2>5
<1> QED BY <1>8, <1>9 DEF h, e, got

\* Recording into one of two histograms and merging them, or merging and recording.
LEMMA MergeRecord ==
  ASSUME NEW h \in Histograms, NEW o \in Histograms, NEW us \in Nat
  PROVE  /\ Merge(h, Record(o, us)) = Record(Merge(h, o), us)
         /\ Merge(h, EmptyHistogram) = h
<1>1. /\ h = [buckets |-> h.buckets, count |-> h.count, max |-> h.max]
      /\ h.count \in Nat /\ h.max \in Nat /\ h.buckets \in [Buckets -> Nat]
      /\ o.count \in Nat /\ o.max \in Nat /\ o.buckets \in [Buckets -> Nat]
  BY HistogramHas DEF Histograms
<1>2. bucketOf(us) \in Buckets
  BY BucketType
<1> DEFINE b == bucketOf(us)
           hb == h.buckets
           ob == o.buckets
<1>3. [i \in Buckets |-> hb[i] + [ob EXCEPT ![b] = @ + 1][i]]
        = [[i \in Buckets |-> hb[i] + ob[i]] EXCEPT ![b] = @ + 1]
  <2> HIDE DEF b, hb, ob
  <2>1. b \in Buckets /\ hb \in [Buckets -> Nat] /\ ob \in [Buckets -> Nat]
    BY <1>1, <1>2 DEF b, hb, ob
  <2>2. ASSUME NEW i \in Buckets
        PROVE  hb[i] + [ob EXCEPT ![b] = @ + 1][i]
                 = [[j \in Buckets |-> hb[j] + ob[j]] EXCEPT ![b] = @ + 1][i]
    <3>1. hb[i] \in Nat /\ ob[i] \in Nat
      BY <2>1
    <3>2. CASE i = b
      BY <2>1, <3>1, <3>2
    <3>3. CASE i # b
      BY <2>1, <3>1, <3>3
    <3> QED BY <3>2, <3>3
  <2> QED BY <2>2
<1>4. Max({h.max, Max({o.max, us})}) = Max({Max({h.max, o.max}), us})
  <2> DEFINE x == h.max
             y == o.max
  <2>1. x \in Nat /\ y \in Nat
    BY <1>1
  <2> HIDE DEF x, y
  <2>2. Max({y, us}) = (IF y >= us THEN y ELSE us) /\ Max({y, us}) \in Nat
    BY <2>1, LargerIs
  <2>3. Max({x, y}) = (IF x >= y THEN x ELSE y) /\ Max({x, y}) \in Nat
    BY <2>1, LargerIs
  <2>4. Max({x, Max({y, us})}) = IF x >= Max({y, us}) THEN x ELSE Max({y, us})
    BY <2>1, <2>2, LargerIs
  <2>5. Max({Max({x, y}), us}) = IF Max({x, y}) >= us THEN Max({x, y}) ELSE us
    BY <2>1, <2>3, LargerIs
  <2>6. Max({x, Max({y, us})}) = Max({Max({x, y}), us})
    BY <2>1, <2>2, <2>3, <2>4, <2>5
  <2> QED BY <2>6 DEF x, y
<1>5. h.count + (o.count + 1) = (h.count + o.count) + 1
  BY <1>1
<1>6. Merge(h, Record(o, us)) = Record(Merge(h, o), us)
  BY <1>3, <1>4, <1>5 DEF Merge, Record
<1>7. Merge(h, EmptyHistogram) = h
  <2>1. [i \in Buckets |-> h.buckets[i] + EmptyHistogram.buckets[i]] = h.buckets
    BY <1>1 DEF EmptyHistogram
  <2>2. Max({h.max, 0}) = h.max /\ h.count + 0 = h.count
    <3>1. 0 \in Nat
      OBVIOUS
    <3> QED BY <1>1, <3>1, LargerIs
  <2>3. EmptyHistogram.max = 0 /\ EmptyHistogram.count = 0
    BY DEF EmptyHistogram
  <2>4. Merge(h, EmptyHistogram) = [buckets |-> h.buckets, count |-> h.count, max |-> h.max]
    BY <2>1, <2>2, <2>3 DEF Merge
  <2> QED BY <1>1, <2>4
<1> QED BY <1>6, <1>7

\* A histogram of some samples merged with one of the others is the histogram of all.
LEMMA MergeIsAll ==
  ASSUME NEW s \in Seq(Nat), NEW m \in 0 .. Len(s)
  PROVE  Merge(Recorded(SubSeq(s, 1, m)), Recorded(SubSeq(s, m + 1, Len(s)))) = Recorded(s)
<1> DEFINE a == SubSeq(s, 1, m)
           z == SubSeq(s, m + 1, Len(s))
           n == Len(s) - m
<1>1. m \in Nat /\ n \in Nat /\ m + n = Len(s) /\ Len(s) \in Nat
  OBVIOUS
<1>2. a \in Seq(Nat) /\ Len(a) = m /\ \A i \in 1 .. m : a[i] = s[i]
  OBVIOUS
<1>3. z \in Seq(Nat) /\ Len(z) = n /\ \A i \in 1 .. n : z[i] = s[m + i]
  <2>1. m + 1 \in 1 .. Len(s) + 1 /\ Len(s) \in m .. Len(s) /\ \A i \in 1 .. Len(s) : s[i] \in Nat
    BY <1>1
  <2>2. z = [i \in 1 .. n |-> s[m + i]]
    <3>1. z = [i \in 1 .. Len(s) - (m + 1) + 1 |-> s[(m + 1) + i - 1]]
      BY <1>1
    <3>2. Len(s) - (m + 1) + 1 = n /\ \A i \in Int : (m + 1) + i - 1 = m + i
      BY <1>1
    <3> QED BY <3>1, <3>2
  <2>3. \A i \in 1 .. n : m + i \in 1 .. Len(s)
    BY <1>1
  <2> HIDE DEF z, n
  <2>4. z \in [1 .. n -> Nat]
    BY <2>1, <2>2, <2>3
  <2> QED BY <1>1, <2>2, <2>4
<1> HIDE DEF a, z
<1> DEFINE S == {i \in Nat : After(a)[i] = After(s)[i]}
           T == {i \in Nat : Merge(After(a)[m], After(z)[i]) = After(s)[m + i]}
<1>4. m \in S
  <2>1. 0 \in S
    BY <1>2, AfterIs
  <2>2. ASSUME NEW i \in 1 .. m, i - 1 \in S PROVE i \in S
    <3>1. i \in 1 .. Len(a) /\ i \in 1 .. Len(s) /\ i \in Nat
      BY <1>1, <1>2
    <3>2. After(a)[i] = Record(After(a)[i - 1], a[i]) /\ After(s)[i] = Record(After(s)[i - 1], s[i])
      BY <1>2, <3>1, AfterIs
    <3> QED BY <1>2, <2>2, <3>1, <3>2
  <2>3. m \in 0 .. m
    BY <1>1
  <2> HIDE DEF S
  <2> QED BY <1>1, <2>1, <2>2, <2>3, UptoInduction
<1>5. After(a)[m] \in Histograms
  <2>1. m \in 0 .. Len(a)
    BY <1>1, <1>2
  <2> QED BY <1>2, <2>1, AfterIs
<1>6. 0 \in T
  <2>1. After(z)[0] = EmptyHistogram /\ m + 0 = m
    BY <1>1, <1>3, AfterIs
  <2>2. Merge(After(a)[m], EmptyHistogram) = After(a)[m]
    <3>1. 0 \in Nat
      OBVIOUS
    <3> QED BY <1>5, <3>1, MergeRecord
  <2> QED BY <1>4, <2>1, <2>2
<1>7. ASSUME NEW i \in 1 .. n, i - 1 \in T PROVE i \in T
  <2>1. /\ i \in 1 .. Len(z) /\ m + i \in 1 .. Len(s) /\ i \in Nat
        /\ i - 1 \in 0 .. Len(z) /\ m + (i - 1) = (m + i) - 1
    <3>1. i \in Nat /\ 1 <= i /\ i <= n
      BY <1>1
    <3> HIDE DEF n
    <3> QED BY <1>1, <1>3, <3>1
  <2>2. After(z)[i - 1] \in Histograms /\ z[i] \in Nat /\ z[i] = s[m + i]
    <3>1. z[i] \in Nat
      BY <1>3, <2>1
    <3>2. After(z)[i - 1] \in Histograms
      BY <1>3, <2>1, AfterIs
    <3> QED BY <1>3, <3>1, <3>2
  <2>3. Merge(After(a)[m], After(z)[i]) = Record(Merge(After(a)[m], After(z)[i - 1]), z[i])
    <3>1. After(z)[i] = Record(After(z)[i - 1], z[i])
      BY <1>3, <2>1, AfterIs
    <3> QED BY <1>5, <2>2, <3>1, MergeRecord
  <2>4. After(s)[m + i] = Record(After(s)[(m + i) - 1], s[m + i])
    BY <2>1, AfterIs
  <2>5. Merge(After(a)[m], After(z)[i - 1]) = After(s)[(m + i) - 1]
    BY <1>7, <2>1
  <2> QED BY <2>1, <2>2, <2>3, <2>4, <2>5
<1>8. n \in T
  <2>1. n \in 0 .. n
    BY <1>1
  <2> HIDE DEF T
  <2> QED BY <1>1, <1>6, <1>7, <2>1, UptoInduction
<1>9. Merge(After(a)[Len(a)], After(z)[Len(z)]) = After(s)[Len(s)]
  BY <1>1, <1>2, <1>3, <1>8
<1> QED BY <1>9 DEF Recorded, a, z

\* What the histogram promises, whatever the samples and the quantiles.
THEOREM QuantilesBounded == QuantileBounds
<1> SUFFICES ASSUME NEW s \in BoundedSeq(Samples, MaxSamples) \ {<< >>}, NEW q \in Quantiles
             PROVE  LET h      == Recorded(s)
                        halves == Len(s) \div 2
                        got    == Quantile(h, q)
                    IN /\ Merge(Recorded(SubSeq(s, 1, halves)), Recorded(SubSeq(s, halves + 1, Len(s)))) = h
                       /\ got <= Max(ToSet(s))
                       /\ Exact(s, q) < Pow2[Octaves] =>
                            Exact(s, q) <= got /\ SubCount * (got - Exact(s, q)) <= Exact(s, q)
  BY DEF QuantileBounds
<1>1. s \in Seq(Nat) /\ Len(s) >= 1
  <2>1. PICK m \in 0 .. MaxSamples : s \in [1 .. m -> Samples]
    BY DEF BoundedSeq, SeqOf
  <2>2. m \in Nat /\ Samples \subseteq Nat
    BY HistogramAssumption
  <2>3. s \in Seq(Nat) /\ Len(s) = m
    <3>1. s \in [1 .. m -> Nat]
      BY <2>1, <2>2
    <3> QED BY <2>2, <3>1
  <2>4. s # << >>
    OBVIOUS
  <2> QED BY <2>2, <2>3, <2>4
<1>2. Len(s) \div 2 \in 0 .. Len(s)
  BY <1>1
<1> QED BY <1>1, <1>2, MergeIsAll, QuantileBound

\* And so do the load generator's, at whatever point of a run one asks.
THEOREM LatenciesBounded == Spec => []LatencyBounds
<1>1. LatencyBounds
  BY QuantilesBounded DEF LatencyBounds
<1> QED BY <1>1, PTL

-----------------------------------------------------------------------------
(* who speaks *)

\* A share of a room that is no larger than the room grows by one at most from one
\* position to the next, from nothing to all of it.
LEMMA ShareGrows ==
  ASSUME NEW s \in Nat, NEW m \in Nat, s <= m, m >= 1, NEW p \in Nat
  PROVE  /\ (p * s) \div m \in Nat /\ ((p + 1) * s) \div m \in Nat
         /\ ((p + 1) * s) \div m - (p * s) \div m \in {0, 1}
         /\ (0 * s) \div m = 0 /\ (m * s) \div m = s
<1> DEFINE a == p * s
           b == (p + 1) * s
<1>1. a \in Nat /\ b \in Nat /\ b = a + s
  OBVIOUS
<1> HIDE DEF a, b
<1>2. /\ a \div m \in Nat /\ (a \div m) * m <= a /\ a < (a \div m) * m + m
      /\ b \div m \in Nat /\ (b \div m) * m <= b /\ b < (b \div m) * m + m
  BY <1>1, DivIs
<1>3. a \div m <= b \div m
  BY <1>1, DivGrows
<1>4. b < (a \div m + 2) * m
  BY <1>1, <1>2
<1>5. b \div m < a \div m + 2
  BY <1>1, <1>2, <1>4, DivUnder
<1>6. (0 * s) \div m = 0 /\ (m * s) \div m = s
  <2>1. (s * m + 0) \div m = s /\ (0 * m + 0) \div m = 0
    BY ModIs
  <2>2. s * m + 0 = m * s /\ 0 * m + 0 = 0 * s
    OBVIOUS
  <2> QED BY <2>1, <2>2
<1>7. /\ a \div m \in Nat /\ b \div m \in Nat /\ b \div m - a \div m \in {0, 1}
  BY <1>2, <1>3, <1>5
<1> QED BY <1>6, <1>7 DEF a, b

\* The sizes of a room, and of those in it who speak.
LEMMA RoomSizes ==
  ASSUME NEW r \in 0 .. Channels - 1
  PROVE  /\ membersIn(r) \in Nat /\ speakersIn(r) \in Nat /\ speakersIn(r) <= membersIn(r)
         /\ speakersIn(0) - speakersIn(r) \in {0, 1}
         /\ \A p \in Nat : p < membersIn(r) <=> Channels * p + r < Conns
<1>1. /\ Conns \in Nat /\ Channels \in Nat /\ Channels >= 1 /\ r \in Nat /\ r < Channels
  BY LoadGenAssumption
<1>2. Speakers \in Nat /\ Speakers <= Conns
  BY LoadGenAssumption
<1> DEFINE n == Conns - r + Channels - 1
           k == Speakers - r + Channels - 1
           j == Speakers - 0 + Channels - 1
<1>3. /\ n \in Nat /\ k \in Nat /\ j \in Nat /\ k <= n /\ k <= j /\ j < k + Channels
  BY <1>1, <1>2
<1>4. membersIn(r) = n \div Channels /\ speakersIn(r) = k \div Channels
      /\ speakersIn(0) = j \div Channels
  BY DEF membersIn, speakersIn
<1>5. \A p \in Nat : (p + 1) * Channels <= n <=> Channels * p + r < Conns
  <2> TAKE p \in Nat
  <2>1. (p + 1) * Channels = Channels * p + Channels /\ Channels * p \in Nat
    BY <1>1
  <2> QED BY <1>1, <2>1
<1> HIDE DEF n, k, j
<1>6. /\ n \div Channels \in Nat /\ k \div Channels \in Nat /\ j \div Channels \in Nat
      /\ k \div Channels <= n \div Channels /\ k \div Channels <= j \div Channels
  BY <1>1, <1>3, DivIs, DivGrows
<1>7. j \div Channels < k \div Channels + 2
  <2>1. k < (k \div Channels) * Channels + Channels
    BY <1>1, <1>3, DivIs
  <2>2. j < (k \div Channels + 2) * Channels
    BY <1>1, <1>3, <1>6, <2>1
  <2> QED BY <1>1, <1>3, <1>6, <2>2, DivUnder
<1>8. \A p \in Nat : p < n \div Channels <=> (p + 1) * Channels <= n
  <2> TAKE p \in Nat
  <2>1. ASSUME (p + 1) * Channels <= n PROVE p < n \div Channels
    <3>1. p + 1 <= n \div Channels
      BY <1>1, <1>3, <2>1, DivOver
    <3> QED BY <1>6, <3>1
  <2>2. ASSUME ~((p + 1) * Channels <= n) PROVE ~(p < n \div Channels)
    <3>1. n < (p + 1) * Channels
      BY <1>1, <1>3, <2>2
    <3>2. n \div Channels < p + 1
      BY <1>1, <1>3, <3>1, DivUnder
    <3> QED BY <1>6, <3>2
  <2> QED BY <2>1, <2>2
<1> QED BY <1>4, <1>5, <1>6, <1>7, <1>8

\* Those of a room before a position.
Firsts(r, p) == {i \in Nat : i % Channels = r /\ i \div Channels < p}

\* The first p of a room are p, and those of them who speak are p's share.
LEMMA FirstOfRoom ==
  ASSUME NEW r \in 0 .. Channels - 1, NEW s \in Nat, NEW m \in Nat, m >= 1,
         s = speakersIn(r), m = membersIn(r), s <= m
  PROVE  \A p \in 0 .. m :
           /\ IsFiniteSet(Firsts(r, p)) /\ Cardinality(Firsts(r, p)) = p
           /\ Cardinality({i \in Firsts(r, p) : speaks(i)}) = (p * s) \div m
<1>1. /\ Channels \in Nat /\ Channels >= 1 /\ r \in Nat /\ r < Channels
  BY LoadGenAssumption
<1> DEFINE V(p) == {i \in Firsts(r, p) : speaks(i)}
           S == {p \in 0 .. m : /\ IsFiniteSet(Firsts(r, p)) /\ Cardinality(Firsts(r, p)) = p
                                /\ Cardinality(V(p)) = (p * s) \div m}
<1>2. 0 \in S
  <2>1. Firsts(r, 0) = {} /\ V(0) = {}
    BY <1>1, DivIs DEF Firsts
  <2>2. (0 * s) \div m = 0
    BY ShareGrows
  <2>3. IsFiniteSet(Firsts(r, 0)) /\ Cardinality(Firsts(r, 0)) = 0 /\ Cardinality(V(0)) = 0
    BY <2>1, FS_EmptySet
  <2>4. 0 \in 0 .. m
    OBVIOUS
  <2> HIDE DEF V
  <2> QED BY <2>2, <2>3, <2>4
<1>3. ASSUME NEW p \in 1 .. m, p - 1 \in S PROVE p \in S
  <2> DEFINE q == p - 1
             x == q * Channels + r
  <2>1. q \in Nat /\ q + 1 = p /\ p \in Nat
    BY <1>3
  <2>2. x \in Nat /\ x % Channels = r /\ x \div Channels = q
    <3>1. q * Channels \in Nat
      BY <1>1, <2>1
    <3>2. (q * Channels + r) % Channels = r /\ (q * Channels + r) \div Channels = q
      <4> HIDE DEF q
      <4> QED BY <1>1, <2>1, ModIs
    <3> HIDE DEF q
    <3> QED BY <1>1, <2>1, <3>1, <3>2
  <2>3. \A i \in Nat : i % Channels = r /\ i \div Channels = q => i = x
    BY <1>1
  <2>4. /\ IsFiniteSet(Firsts(r, q)) /\ Cardinality(Firsts(r, q)) = q
        /\ Cardinality(V(q)) = (q * s) \div m
    BY <1>3
  <2> HIDE DEF q, x
  <2>5. Firsts(r, p) = Firsts(r, q) \cup {x} /\ x \notin Firsts(r, q)
    <3>1. \A i \in Nat : i \div Channels < p <=> i \div Channels < q \/ i \div Channels = q
      BY <1>1, <2>1, DivIs
    <3> QED BY <2>1, <2>2, <2>3, <3>1 DEF Firsts
  <2>6. IsFiniteSet(Firsts(r, p)) /\ Cardinality(Firsts(r, p)) = p
    BY <2>1, <2>4, <2>5, FS_AddElement
  <2>7. speaks(x) <=> (q * s) \div m # (p * s) \div m
    BY <2>1, <2>2 DEF speaks
  <2>8. /\ (q * s) \div m \in Nat /\ (p * s) \div m \in Nat
        /\ (p * s) \div m - (q * s) \div m \in {0, 1}
    BY <2>1, ShareGrows
  <2>9. IsFiniteSet(V(q)) /\ x \notin V(q)
    BY <2>4, <2>5, FS_Subset
  <2>10. CASE speaks(x)
    <3>1. V(p) = V(q) \cup {x}
      BY <2>5, <2>10
    <3> HIDE DEF V
    <3>2. Cardinality(V(p)) = Cardinality(V(q)) + 1
      BY <2>9, <3>1, FS_AddElement
    <3> QED BY <2>1, <2>4, <2>6, <2>7, <2>8, <2>10, <3>2
  <2>11. CASE ~speaks(x)
    <3>1. V(p) = V(q)
      BY <2>5, <2>11
    <3> HIDE DEF V
    <3> QED BY <2>1, <2>4, <2>6, <2>7, <2>11, <3>1
  <2> QED BY <2>10, <2>11
<1>4. \A p \in 0 .. m : p \in S
  <2> HIDE DEF S
  <2> QED BY <1>2, <1>3, UptoInduction
<1> QED BY <1>4

\* Each room has the speakers meant for it, and rooms differ by one at most: for any
\* crowd, any number of speakers out of it, and any number of rooms.
THEOREM SpeakersSpreadEvenly == SpreadEvenly
<1> SUFFICES ASSUME NEW r \in 0 .. Channels - 1
             PROVE  LET room == {i \in Clients : i % Channels = r}
                    IN /\ Cardinality(room) = membersIn(r)
                       /\ Cardinality({i \in room : speaks(i)}) = speakersIn(r)
                       /\ speakersIn(0) - speakersIn(r) \in {0, 1}
  BY DEF SpreadEvenly
<1> DEFINE room == {i \in Clients : i % Channels = r}
           m == membersIn(r)
           s == speakersIn(r)
<1>1. /\ m \in Nat /\ s \in Nat /\ s <= m /\ speakersIn(0) - s \in {0, 1}
      /\ \A p \in Nat : p < m <=> Channels * p + r < Conns
  BY RoomSizes
<1>2. room = Firsts(r, m)
  <2>1. Channels \in Nat /\ Channels >= 1 /\ Conns \in Nat
    BY LoadGenAssumption
  <2>2. ASSUME NEW i \in Nat, i % Channels = r
        PROVE  i \div Channels \in Nat /\ Channels * (i \div Channels) + r = i
    BY <2>1, <2>2
  <2>3. \A i : i \in Clients <=> i \in Nat /\ i < Conns
    BY <2>1 DEF Clients
  <2> HIDE DEF m
  <2> QED BY <1>1, <2>2, <2>3 DEF Firsts
<1>3. Cardinality(room) = m /\ Cardinality({i \in room : speaks(i)}) = s
  <2>1. CASE m = 0
    <3>1. room = {}
      <4>1. \A i \in Nat : i % Channels = r => ~(i \div Channels < 0)
        BY LoadGenAssumption, DivIs
      <4> HIDE DEF room
      <4> QED BY <1>2, <2>1, <4>1 DEF Firsts
    <3>2. {i \in room : speaks(i)} = {} /\ s = 0
      BY <1>1, <2>1, <3>1
    <3> HIDE DEF room
    <3> QED BY <2>1, <3>1, <3>2, FS_EmptySet
  <2>2. CASE m # 0
    <3>1. /\ Cardinality(Firsts(r, m)) = m
          /\ Cardinality({i \in Firsts(r, m) : speaks(i)}) = (m * s) \div m
      <4>1. m \in 0 .. m /\ m >= 1
        BY <1>1, <2>2
      <4> QED BY <1>1, <4>1, FirstOfRoom
    <3>2. (m * s) \div m = s
      <4>1. m >= 1
        BY <1>1, <2>2
      <4> HIDE DEF m, s
      <4> QED BY <1>1, <4>1, ShareGrows, 0 \in Nat
    <3> HIDE DEF room
    <3> QED BY <1>2, <3>1, <3>2
  <2> QED BY <2>1, <2>2
<1> QED BY <1>1, <1>3

-----------------------------------------------------------------------------
(* Counting *)

\* Only c differs from before.
Alone(c) == \A d \in Clients : d # c => cl'[d] = cl[d]

\* There are finitely many clients, as many as Conns says.
LEMMA ClientsCounted == IsFiniteSet(Clients) /\ Cardinality(Clients) = Conns
<1>1. 0 \in Int /\ Conns - 1 \in Int
  BY LoadGenAssumption
<1> QED BY <1>1, FS_Interval, LoadGenAssumption DEF Clients

\* Two sets of clients that differ by c at most differ by one at most.
LEMMA DifferByOne ==
  ASSUME NEW c \in Clients, NEW S \in SUBSET Clients, NEW T \in SUBSET Clients,
         \A d \in Clients : d # c => (d \in S <=> d \in T)
  PROVE  /\ Cardinality(S) \in Nat /\ Cardinality(T) \in Nat
         /\ Cardinality(T) = Cardinality(S) + If(c \in T) - If(c \in S)
<1>1. IsFiniteSet(S) /\ IsFiniteSet(T)
  BY ClientsCounted, FS_Subset
<1>2. Cardinality(S) \in Nat /\ Cardinality(T) \in Nat
  BY <1>1, FS_CardinalityType
<1>3. CASE c \in S <=> c \in T
  <2>1. S = T
    BY <1>3
  <2> QED BY <1>2, <1>3, <2>1 DEF If
<1>4. CASE c \in T /\ c \notin S
  <2>1. T = S \cup {c}
    BY <1>4
  <2>2. Cardinality(T) = Cardinality(S) + 1
    BY <1>1, <1>4, <2>1, FS_AddElement
  <2> QED BY <1>2, <1>4, <2>2 DEF If
<1>5. CASE c \in S /\ c \notin T
  <2>1. S = T \cup {c}
    BY <1>5
  <2>2. Cardinality(S) = Cardinality(T) + 1
    BY <1>1, <1>5, <2>1, FS_AddElement
  <2> QED BY <1>2, <1>5, <2>2 DEF If
<1> QED BY <1>3, <1>4, <1>5

\* The pairs of a client are as many as its messages.
LEMMA PairsCounted ==
  ASSUME NEW c, NEW n \in Nat
  PROVE  IsFiniteSet({c} \X (1 .. n)) /\ Cardinality({c} \X (1 .. n)) = n
<1>1. IsFiniteSet(1 .. n) /\ Cardinality(1 .. n) = n
  BY FS_Interval
<1>2. IsFiniteSet({c}) /\ Cardinality({c}) = 1
  BY FS_Singleton
<1> QED BY <1>1, <1>2, FS_Product

\* What one client has heard is the difference it makes.
LEMMA HeardByOne ==
  ASSUME TypeInv, TypeInv', PlaceInv, NEW c \in Clients, Alone(c), cl'[c].lat.count <= MaxMsgs
  PROVE  /\ Cardinality(Heard) \in Nat /\ Cardinality(Heard)' \in Nat
         /\ Cardinality(Heard)' = Cardinality(Heard) + cl'[c].lat.count - cl[c].lat.count
<1> DEFINE Rest == {p \in Clients \X (1 .. MaxMsgs) : p[1] # c /\ p[2] <= cl[p[1]].lat.count}
           n == cl[c].lat.count
           m == cl'[c].lat.count
<1> USE LoadGenAssumption
<1>1. n \in 0 .. MaxMsgs /\ m \in 0 .. MaxMsgs
  <2>1. cl[c] \in Connections /\ cl'[c] \in Connections
    BY DEF TypeInv
  <2>2. n \in Nat /\ m \in Nat
    BY <2>1, HistogramHas DEF Connections
  <2> QED BY <2>2 DEF PlaceInv, PlaceOK
<1>2. IsFiniteSet(Rest)
  <2>1. IsFiniteSet(1 .. MaxMsgs)
    BY FS_Interval
  <2>2. IsFiniteSet(Clients \X (1 .. MaxMsgs))
    BY <2>1, ClientsCounted, FS_Product
  <2> QED BY <2>2, FS_Subset
<1>3. Heard = Rest \cup ({c} \X (1 .. n)) /\ Rest \cap ({c} \X (1 .. n)) = {}
  BY <1>1 DEF Heard
<1>4. Heard' = Rest \cup ({c} \X (1 .. m)) /\ Rest \cap ({c} \X (1 .. m)) = {}
  BY <1>1 DEF Heard, Alone
<1>5. /\ IsFiniteSet({c} \X (1 .. n)) /\ Cardinality({c} \X (1 .. n)) = n
      /\ IsFiniteSet({c} \X (1 .. m)) /\ Cardinality({c} \X (1 .. m)) = m
  <2>1. n \in Nat /\ m \in Nat
    BY <1>1
  <2> HIDE DEF n, m
  <2> QED BY <2>1, PairsCounted
<1>6. Cardinality(Heard) = Cardinality(Rest) + n /\ Cardinality(Heard') = Cardinality(Rest) + m
  <2>1. Cardinality({}) = 0
    BY FS_EmptySet
  <2>2. Cardinality(Rest) \in Nat
    BY <1>2, FS_CardinalityType
  <2>3. ASSUME NEW S, NEW T, IsFiniteSet(S), IsFiniteSet(T), S \cap T = {}
        PROVE  Cardinality(S \cup T) = Cardinality(S) + Cardinality(T) - Cardinality({})
    BY <2>3, FS_Union
  <2>4. /\ Cardinality(Rest \cup ({c} \X (1 .. n))) = Cardinality(Rest) + n - Cardinality({})
        /\ Cardinality(Rest \cup ({c} \X (1 .. m))) = Cardinality(Rest) + m - Cardinality({})
    <3> HIDE DEF Rest, n, m
    <3> QED BY <1>2, <1>3, <1>4, <1>5, <2>3
  <2> QED BY <1>1, <1>3, <1>4, <2>1, <2>2, <2>4
<1>7. Cardinality(Rest) \in Nat
  BY <1>2, FS_CardinalityType
<1> QED BY <1>1, <1>6, <1>7

\* What makes a connection count.
LostReading(x) == x.fault /\ x.reader \in {"failed", "done"}
LostSettling(x) == x.fault /\ x.at \in {"leave", "merge", "end", "gone"}
GaveUp(x) == x.fault /\ x.at \in {"close", "unsettled", "leave", "merge", "end", "gone"}
WasRejected(x) == x.reader = "none" /\ x.at \in {"end", "gone"}

\* What a step of c adds to each counter is what it makes of c.
SettlingTally(c) == settling' = settling + If(~cl'[c].settled) - If(~cl[c].settled)
DialTally(c) ==
  /\ st'.dialed = st.dialed + If(cl'[c].reader # "none") - If(cl[c].reader # "none")
  /\ st'.dialFailed = st.dialFailed + If(WasRejected(cl'[c])) - If(WasRejected(cl[c]))
HeardTally(c) ==
  st'.received = st.received + cl'[c].lat.count - cl[c].lat.count
                             + st'.latency.count - st.latency.count + st'.untimed - st.untimed
LostTally(c) ==
  st'.lost <= st.lost + If(LostReading(cl'[c])) - If(LostReading(cl[c]))
                      + If(LostSettling(cl'[c])) - If(LostSettling(cl[c]))
FailTally(c) == st'.sendFailed <= st.sendFailed + If(GaveUp(cl'[c])) - If(GaveUp(cl[c]))
Tallied(c) ==
  SettlingTally(c) /\ DialTally(c) /\ HeardTally(c) /\ LostTally(c) /\ FailTally(c)

\* A step whose tally is right keeps the counters right.
LEMMA CountStep ==
  ASSUME TypeInv, TypeInv', PlaceInv, CountInv, NEW c \in Clients, Alone(c), Tallied(c),
         cl'[c].lat.count <= MaxMsgs
  PROVE  CountInv'
<1> DEFINE x == cl[c]
           y == cl'[c]
<1>1. /\ Cardinality(Heard) \in Nat /\ Cardinality(Heard)' \in Nat
      /\ Cardinality(Heard)' = Cardinality(Heard) + y.lat.count - x.lat.count
  BY HeardByOne
<1>2. /\ Cardinality(Unsettled) \in Nat /\ Cardinality(Unsettled') \in Nat
      /\ Cardinality(Unsettled') = Cardinality(Unsettled) + If(~y.settled) - If(~x.settled)
  <2>1. /\ Unsettled \in SUBSET Clients /\ Unsettled' \in SUBSET Clients
        /\ \A d \in Clients : d # c => (d \in Unsettled <=> d \in Unsettled')
        /\ (c \in Unsettled <=> ~x.settled) /\ (c \in Unsettled' <=> ~y.settled)
    BY DEF Unsettled, Alone
  <2> HIDE DEF x, y
  <2> QED BY <2>1, DifferByOne DEF If
<1>3. /\ Cardinality(Connected) \in Nat /\ Cardinality(Connected') \in Nat
      /\ Cardinality(Connected')
           = Cardinality(Connected) + If(y.reader # "none") - If(x.reader # "none")
  <2>1. /\ Connected \in SUBSET Clients /\ Connected' \in SUBSET Clients
        /\ \A d \in Clients : d # c => (d \in Connected <=> d \in Connected')
        /\ (c \in Connected <=> x.reader # "none") /\ (c \in Connected' <=> y.reader # "none")
    BY DEF Connected, Alone
  <2> HIDE DEF x, y
  <2> QED BY <2>1, DifferByOne DEF If
<1>4. /\ Cardinality(Rejected) \in Nat /\ Cardinality(Rejected') \in Nat
      /\ Cardinality(Rejected') = Cardinality(Rejected) + If(WasRejected(y)) - If(WasRejected(x))
  <2>1. /\ Rejected \in SUBSET Clients /\ Rejected' \in SUBSET Clients
        /\ \A d \in Clients : d # c => (d \in Rejected <=> d \in Rejected')
        /\ (c \in Rejected <=> WasRejected(x)) /\ (c \in Rejected' <=> WasRejected(y))
    BY DEF Rejected, Alone, WasRejected
  <2> HIDE DEF x, y
  <2> QED BY <2>1, DifferByOne DEF If
<1>5. /\ Cardinality(LostByReader) \in Nat /\ Cardinality(LostByReader') \in Nat
      /\ Cardinality(LostByReader')
           = Cardinality(LostByReader) + If(LostReading(y)) - If(LostReading(x))
  <2>1. /\ LostByReader \in SUBSET Clients /\ LostByReader' \in SUBSET Clients
        /\ \A d \in Clients : d # c => (d \in LostByReader <=> d \in LostByReader')
        /\ (c \in LostByReader <=> LostReading(x)) /\ (c \in LostByReader' <=> LostReading(y))
    BY DEF LostByReader, Alone, LostReading
  <2> HIDE DEF x, y
  <2> QED BY <2>1, DifferByOne DEF If
<1>6. /\ Cardinality(LostBySettle) \in Nat /\ Cardinality(LostBySettle') \in Nat
      /\ Cardinality(LostBySettle')
           = Cardinality(LostBySettle) + If(LostSettling(y)) - If(LostSettling(x))
  <2>1. /\ LostBySettle \in SUBSET Clients /\ LostBySettle' \in SUBSET Clients
        /\ \A d \in Clients : d # c => (d \in LostBySettle <=> d \in LostBySettle')
        /\ (c \in LostBySettle <=> LostSettling(x)) /\ (c \in LostBySettle' <=> LostSettling(y))
    BY DEF LostBySettle, Alone, LostSettling
  <2> HIDE DEF x, y
  <2> QED BY <2>1, DifferByOne DEF If
<1>7. /\ Cardinality(GivenUp) \in Nat /\ Cardinality(GivenUp') \in Nat
      /\ Cardinality(GivenUp') = Cardinality(GivenUp) + If(GaveUp(y)) - If(GaveUp(x))
  <2>1. /\ GivenUp \in SUBSET Clients /\ GivenUp' \in SUBSET Clients
        /\ \A d \in Clients : d # c => (d \in GivenUp <=> d \in GivenUp')
        /\ (c \in GivenUp <=> GaveUp(x)) /\ (c \in GivenUp' <=> GaveUp(y))
    BY DEF GivenUp, Alone, GaveUp
  <2> HIDE DEF x, y
  <2> QED BY <2>1, DifferByOne DEF If
<1>8. \A b : If(b) \in {0, 1}
  BY DEF If
<1>9. /\ st.untimed \in Nat /\ st'.untimed \in Nat
      /\ st.lost \in Nat /\ st'.lost \in Nat /\ st.sendFailed \in Nat /\ st'.sendFailed \in Nat
      /\ st.latency.count \in Nat /\ st'.latency.count \in Nat
      /\ x.lat.count \in Nat /\ y.lat.count \in Nat
  <2>1. /\ st \in Snapshots /\ st' \in Snapshots /\ x \in Connections /\ y \in Connections
    BY DEF TypeInv
  <2> QED BY <2>1, HistogramHas DEF Snapshots, Connections
<1> HIDE DEF x, y
<1>10. settling' = Cardinality(Unsettled')
  BY <1>2, <1>8 DEF CountInv, Tallied, SettlingTally, DialTally, HeardTally, LostTally,
    FailTally, x, y
<1>11. st'.dialed = Cardinality(Connected') /\ st'.dialFailed = Cardinality(Rejected')
  BY <1>3, <1>4, <1>8 DEF CountInv, Tallied, SettlingTally, DialTally, HeardTally, LostTally,
    FailTally, x, y
<1>12. st'.received = Cardinality(Heard)' + st'.latency.count + st'.untimed
  BY <1>1, <1>9 DEF CountInv, Tallied, SettlingTally, DialTally, HeardTally, LostTally,
    FailTally, x, y
<1>13. st'.lost <= Cardinality(LostByReader') + Cardinality(LostBySettle')
  BY <1>5, <1>6, <1>8, <1>9 DEF CountInv, Tallied, SettlingTally, DialTally, HeardTally,
    LostTally, FailTally, x, y
<1>14. st'.sendFailed <= Cardinality(GivenUp')
  BY <1>7, <1>8, <1>9 DEF CountInv, Tallied, SettlingTally, DialTally, HeardTally, LostTally,
    FailTally, x, y
<1> QED BY <1>10, <1>11, <1>12, <1>13, <1>14 DEF CountInv

-----------------------------------------------------------------------------
(* The steps of one connection *)

\* A connection is right.
ClientOK(c) == PlaceOK(c) /\ StartOK(c) /\ FaultOK(c)

\* A step of c that keeps c right and its tally keeps everything right.
LEMMA StepOfOne ==
  ASSUME IInv, NEW c \in Clients, TypeInv', Alone(c), Tallied(c), ClientOK(c)',
         UNCHANGED <<run, stopped, start, spawned, result>>,
         cl[c].at # "gone" \/ (cl'[c].at = cl[c].at /\ st' = st)
  PROVE  IInv'
<1>1. ASSUME NEW d \in Clients PROVE ClientOK(d)'
  <2>1. CASE d # c
    BY <2>1 DEF IInv, PlaceInv, StartInv, FaultInv, ClientOK, PlaceOK, StartOK, FaultOK, Live,
      Alone
  <2> QED BY <2>1
<1>2. PlaceInv' /\ StartInv' /\ FaultInv'
  BY <1>1 DEF PlaceInv, StartInv, FaultInv, ClientOK
<1>3. ReportInv'
  BY DEF IInv, ReportInv, Alone
<1>4. CountInv'
  BY CountStep DEF IInv, ClientOK, PlaceOK
<1> QED BY <1>2, <1>3, <1>4 DEF IInv

\* What is known of c before a step of it.
LEMMA Before ==
  ASSUME IInv, NEW c \in Clients
  PROVE  /\ cl \in [Clients -> Connections] /\ cl[c] \in Connections /\ st \in Snapshots
         /\ st.latency \in Histograms /\ cl[c].lat \in Histograms
         /\ st.latency.count \in Nat /\ cl[c].lat.count \in Nat /\ settling \in Int
         /\ PlaceOK(c) /\ StartOK(c) /\ FaultOK(c) /\ Len(cl[c].joins) <= JoinBuffer
BY HistogramHas DEF IInv, TypeInv, PlaceInv, StartInv, FaultInv, Connections, Snapshots

\* A step that only moves c, or marks it, keeps the types.
LEMMA TypeOfOne ==
  ASSUME TypeInv, NEW c \in Clients, NEW y \in Connections, cl' = [cl EXCEPT ![c] = y],
         Len(y.joins) <= JoinBuffer, settling' \in Int, st' \in Snapshots,
         UNCHANGED <<run, stopped, start, spawned, result>>
  PROVE  TypeInv' /\ Alone(c) /\ cl'[c] = y
<1>1. cl' \in [Clients -> Connections] /\ Alone(c) /\ cl'[c] = y
  BY DEF TypeInv, Alone
<1>2. \A d \in Clients : Len(cl'[d].joins) <= JoinBuffer
  BY <1>1 DEF TypeInv, Alone
<1> QED BY <1>1, <1>2 DEF TypeInv

\* A step that leaves a counter, and what it counts, as they were; or that makes
\* a loss of what was none.
LEMMA QuietTally ==
  ASSUME IInv, TypeInv', NEW c \in Clients
  PROVE  /\ settling' = settling /\ cl'[c].settled = cl[c].settled => SettlingTally(c)
         /\ (/\ st'.dialed = st.dialed /\ st'.dialFailed = st.dialFailed
             /\ cl'[c].reader = "none" <=> cl[c].reader = "none"
             /\ WasRejected(cl'[c]) <=> WasRejected(cl[c])) => DialTally(c)
         /\ (/\ st'.received = st.received /\ st'.latency = st.latency /\ st'.untimed = st.untimed
             /\ cl'[c].lat = cl[c].lat) => HeardTally(c)
         /\ (/\ st'.lost = st.lost
             /\ LostReading(cl[c]) => LostReading(cl'[c])
             /\ LostSettling(cl[c]) => LostSettling(cl'[c])) => LostTally(c)
         /\ (st'.sendFailed = st.sendFailed /\ (GaveUp(cl[c]) => GaveUp(cl'[c]))) => FailTally(c)
<1>1. /\ st.dialed \in Nat /\ st.dialFailed \in Nat /\ st.received \in Nat /\ st.lost \in Nat
      /\ st.sendFailed \in Nat /\ st.latency.count \in Nat /\ cl[c].lat.count \in Nat
      /\ st.untimed \in Nat /\ settling \in Int
  BY Before DEF Snapshots
<1>2. \A b : If(b) \in {0, 1}
  BY DEF If
<1>3. settling' = settling /\ cl'[c].settled = cl[c].settled => SettlingTally(c)
  BY <1>1, <1>2 DEF SettlingTally
<1>4. (/\ st'.dialed = st.dialed /\ st'.dialFailed = st.dialFailed
       /\ cl'[c].reader = "none" <=> cl[c].reader = "none"
       /\ WasRejected(cl'[c]) <=> WasRejected(cl[c])) => DialTally(c)
  BY <1>1 DEF DialTally, If
<1>5. (/\ st'.received = st.received /\ st'.latency = st.latency /\ st'.untimed = st.untimed
       /\ cl'[c].lat = cl[c].lat) => HeardTally(c)
  BY <1>1 DEF HeardTally
<1>6. (/\ st'.lost = st.lost
       /\ LostReading(cl[c]) => LostReading(cl'[c])
       /\ LostSettling(cl[c]) => LostSettling(cl'[c])) => LostTally(c)
  BY <1>1 DEF LostTally, If
<1>7. (st'.sendFailed = st.sendFailed /\ (GaveUp(cl[c]) => GaveUp(cl'[c]))) => FailTally(c)
  BY <1>1 DEF FailTally, If
<1> QED BY <1>3, <1>4, <1>5, <1>6, <1>7

\* A dial answered.
LEMMA DialledStep == ASSUME IInv, NEW c \in Clients, Dialled(c) PROVE IInv'
<1> DEFINE x == cl[c]
           y == [cl[c] EXCEPT !.at = "first", !.reader = "read", !.sock = "open"]
<1>1. /\ y.at = "first" /\ y.reader = "read" /\ y.dead = x.dead /\ y.sock = "open"
      /\ y.joins = x.joins /\ y.told = x.told /\ y.asked = x.asked /\ y.lat = x.lat
      /\ y.settled = x.settled /\ y.fault = x.fault
  BY Before DEF Connections
<1>2. /\ y \in Connections /\ Len(y.joins) <= JoinBuffer /\ cl' = [cl EXCEPT ![c] = y]
      /\ st' \in Snapshots /\ settling' \in Int
  <2>1. y \in Connections /\ Len(y.joins) <= JoinBuffer
    BY Before DEF Connections, Places
  <2>2. cl' = [cl EXCEPT ![c] = y]
    BY Before DEF Dialled, Connections
  <2>3. st' \in Snapshots
    BY Before DEF Dialled, Count, Snapshots, If, runVars
  <2>4. settling' \in Int
    BY Before DEF Dialled, If, runVars
  <2> QED BY <2>1, <2>2, <2>3, <2>4
<1> HIDE DEF y
<1>3. TypeInv' /\ Alone(c) /\ cl'[c] = y
  BY <1>2, TypeOfOne DEF Dialled, runVars, IInv
<1>4. Tallied(c)
  <2>1. SettlingTally(c)
    BY <1>1, <1>3, Before, QuietTally DEF Dialled, PlaceOK, Count, runVars
  <2>2. DialTally(c)
    BY <1>1, <1>3, Before DEF DialTally, Dialled, If, Count, Snapshots, runVars, PlaceOK,
      Early, Late, WasRejected
  <2>3. HeardTally(c)
    BY <1>1, <1>3, Before, QuietTally DEF Dialled, PlaceOK, Count, runVars, Snapshots
  <2>4. LostTally(c)
    BY <1>1, <1>3, Before, QuietTally DEF Dialled, PlaceOK, Count, runVars, LostReading,
      LostSettling, Snapshots
  <2>5. FailTally(c)
    BY <1>1, <1>3, Before, QuietTally DEF Dialled, PlaceOK, Count, runVars, GaveUp, Snapshots
  <2> QED BY <2>1, <2>2, <2>3, <2>4, <2>5 DEF Tallied
<1>5. ClientOK(c)'
  <2>1. PlaceOK(c)'
    BY <1>1, <1>3, Before DEF Dialled, PlaceOK, Early, Late, runVars
  <2>2. StartOK(c)'
    BY <1>1, <1>3, Before DEF Dialled, StartOK, PlaceOK, Early, Late, runVars
  <2>3. FaultOK(c)'
    BY <1>1, <1>3, Before DEF Dialled, FaultOK, StartOK, PlaceOK, Live, runVars
  <2> QED BY <2>1, <2>2, <2>3 DEF ClientOK
<1> QED BY <1>1, <1>3, <1>4, <1>5, Before, StepOfOne DEF Dialled, PlaceOK, runVars

\* A dial that fails.
LEMMA RefusedStep == ASSUME IInv, NEW c \in Clients, Refused(c) PROVE IInv'
<1> DEFINE x == cl[c]
           y == [cl[c] EXCEPT !.at = "end"]
<1>1. /\ y.at = "end" /\ y.reader = x.reader /\ y.dead = x.dead /\ y.sock = x.sock
      /\ y.joins = x.joins /\ y.told = x.told /\ y.asked = x.asked /\ y.lat = x.lat
      /\ y.settled = x.settled /\ y.fault = x.fault
  BY Before DEF Connections
<1>2. /\ y \in Connections /\ Len(y.joins) <= JoinBuffer /\ cl' = [cl EXCEPT ![c] = y]
      /\ st' \in Snapshots /\ settling' \in Int
  <2>1. y \in Connections /\ Len(y.joins) <= JoinBuffer
    BY Before DEF Connections, Places
  <2>2. cl' = [cl EXCEPT ![c] = y]
    BY Before DEF Refused, Go, Connections
  <2>3. st' \in Snapshots
    BY Before DEF Refused, Go, Count, Snapshots, If, runVars
  <2>4. settling' \in Int
    BY Before DEF Refused, Go, If, runVars
  <2> QED BY <2>1, <2>2, <2>3, <2>4
<1> HIDE DEF y
<1>3. TypeInv' /\ Alone(c) /\ cl'[c] = y
  BY <1>2, TypeOfOne DEF Refused, Go, runVars, IInv
<1>4. Tallied(c)
  <2>1. SettlingTally(c)
    BY <1>1, <1>3, Before, QuietTally DEF Refused, Go, PlaceOK, Count, runVars
  <2>2. DialTally(c)
    BY <1>1, <1>3, Before DEF DialTally, Refused, Go, If, Count, Snapshots, runVars, PlaceOK,
      Early, Late, WasRejected
  <2>3. HeardTally(c)
    BY <1>1, <1>3, Before, QuietTally DEF Refused, Go, PlaceOK, Count, runVars, Snapshots
  <2>4. LostTally(c)
    BY <1>1, <1>3, Before, QuietTally DEF Refused, Go, PlaceOK, Count, runVars, LostReading,
      LostSettling, Snapshots
  <2>5. FailTally(c)
    BY <1>1, <1>3, Before, QuietTally DEF Refused, Go, PlaceOK, Count, runVars, GaveUp,
      Snapshots
  <2> QED BY <2>1, <2>2, <2>3, <2>4, <2>5 DEF Tallied
<1>5. ClientOK(c)'
  <2>1. PlaceOK(c)'
    BY <1>1, <1>3, Before DEF Refused, Go, PlaceOK, Early, Late, runVars
  <2>2. StartOK(c)'
    BY <1>1, <1>3, Before DEF Refused, Go, StartOK, PlaceOK, Early, Late, runVars
  <2>3. FaultOK(c)'
    BY <1>1, <1>3, Before DEF Refused, Go, FaultOK, StartOK, PlaceOK, Live, runVars
  <2> QED BY <2>1, <2>2, <2>3 DEF ClientOK
<1> QED BY <1>1, <1>3, <1>4, <1>5, Before, StepOfOne DEF Refused, Go, PlaceOK, runVars

\* A JOIN taken from the buffer.
LEMMA TakeJoinStep == ASSUME IInv, NEW c \in Clients, TakeJoin(c) PROVE IInv'
<1> DEFINE x == cl[c]
           y == [cl[c] EXCEPT !.joins = Tail(@), !.at = AfterJoin(c)]
<1>1. /\ y.at = AfterJoin(c) /\ y.reader = x.reader /\ y.dead = x.dead /\ y.sock = x.sock
      /\ y.joins = Tail(x.joins) /\ y.told = x.told /\ y.asked = x.asked /\ y.lat = x.lat
      /\ y.settled = x.settled /\ y.fault = x.fault
  BY Before DEF Connections
<1>2. /\ y \in Connections /\ Len(y.joins) <= JoinBuffer /\ cl' = [cl EXCEPT ![c] = y]
      /\ st' \in Snapshots /\ settling' \in Int
  <2>1. y \in Connections /\ Len(y.joins) <= JoinBuffer
    <3>1. AfterJoin(c) \in Places
      BY DEF AfterJoin, Places
    <3>2. Tail(x.joins) \in Seq({"auto", "own"}) /\ Len(Tail(x.joins)) <= JoinBuffer
      <4>1. ASSUME NEW s \in Seq({"auto", "own"}), s # << >>
            PROVE  Tail(s) \in Seq({"auto", "own"}) /\ Len(Tail(s)) = Len(s) - 1 /\ Len(s) \in Nat
        BY <4>1
      <4>2. x.joins \in Seq({"auto", "own"}) /\ x.joins # << >> /\ Len(x.joins) <= JoinBuffer
        BY Before DEF TakeJoin, Connections
      <4> QED BY <4>1, <4>2, LoadGenAssumption
    <3> QED BY <1>1, <3>1, <3>2, Before DEF Connections
  <2>2. cl' = [cl EXCEPT ![c] = y]
    BY Before DEF TakeJoin, Connections
  <2>3. st' \in Snapshots
    BY Before DEF TakeJoin, Count, Snapshots, If, runVars
  <2>4. settling' \in Int
    BY Before DEF TakeJoin, If, runVars
  <2> QED BY <2>1, <2>2, <2>3, <2>4
<1> HIDE DEF y
<1>3. TypeInv' /\ Alone(c) /\ cl'[c] = y
  BY <1>2, TypeOfOne DEF TakeJoin, runVars, IInv
<1>4. Tallied(c)
  <2>1. SettlingTally(c)
    BY <1>1, <1>3, Before, QuietTally DEF TakeJoin, PlaceOK, Count, runVars
  <2>2. DialTally(c)
    <3>1. y.at \in {"own", "ask", "joined", "part"}
      BY <1>1 DEF AfterJoin
    <3> QED BY <1>1, <1>3, <3>1, Before, QuietTally DEF TakeJoin, PlaceOK, Count, runVars,
      WasRejected, Snapshots
  <2>3. HeardTally(c)
    BY <1>1, <1>3, Before, QuietTally DEF TakeJoin, PlaceOK, Count, runVars, Snapshots
  <2>4. LostTally(c)
    <3>1. y.at \in {"own", "ask", "joined", "part"}
      BY <1>1 DEF AfterJoin
    <3> QED BY <1>1, <1>3, <3>1, Before, QuietTally DEF TakeJoin, PlaceOK, Count, runVars,
      LostReading, LostSettling
  <2>5. FailTally(c)
    <3>1. y.at \in {"own", "ask", "joined", "part"}
      BY <1>1 DEF AfterJoin
    <3> QED BY <1>1, <1>3, <3>1, Before, QuietTally DEF TakeJoin, PlaceOK, Count, runVars,
      GaveUp
  <2> QED BY <2>1, <2>2, <2>3, <2>4, <2>5 DEF Tallied
<1>5. ClientOK(c)'
  <2>1. PlaceOK(c)'
    <3>1. y.at \in {"own", "ask", "joined", "part"}
      BY <1>1 DEF AfterJoin
    <3> QED BY <1>1, <1>3, <3>1, Before DEF TakeJoin, PlaceOK, Early, Late, runVars
  <2>2. StartOK(c)'
    <3>1. y.at \in {"own", "ask", "joined", "part"}
      BY <1>1 DEF AfterJoin
    <3> QED BY <1>1, <1>3, <3>1, Before DEF TakeJoin, StartOK, PlaceOK, Early, Late, runVars
  <2>3. FaultOK(c)'
    <3>1. y.at \in {"own", "ask", "joined", "part"}
      BY <1>1 DEF AfterJoin
    <3> QED BY <1>1, <1>3, <3>1, Before DEF TakeJoin, FaultOK, StartOK, PlaceOK, Live, runVars
  <2> QED BY <2>1, <2>2, <2>3 DEF ClientOK
<1> QED BY <1>1, <1>3, <1>4, <1>5, Before, StepOfOne DEF TakeJoin, PlaceOK, runVars

\* A JOIN or a PART sent.
LEMMA SettleSendStep == ASSUME IInv, NEW c \in Clients, SettleSend(c) PROVE IInv'
<1> DEFINE x == cl[c]
           y == [cl[c] EXCEPT !.at = IF @ = "ask" THEN "own" ELSE "joined",
                            !.asked = TRUE]
<1>1. /\ y.at = (IF x.at = "ask" THEN "own" ELSE "joined") /\ y.reader = x.reader
      /\ y.dead = x.dead /\ y.sock = x.sock
      /\ y.joins = x.joins /\ y.told = x.told /\ y.asked = TRUE /\ y.lat = x.lat
      /\ y.settled = x.settled /\ y.fault = x.fault
  BY Before DEF Connections
<1>2. /\ y \in Connections /\ Len(y.joins) <= JoinBuffer /\ cl' = [cl EXCEPT ![c] = y]
      /\ st' \in Snapshots /\ settling' \in Int
  <2>1. y \in Connections /\ Len(y.joins) <= JoinBuffer
    BY Before DEF Connections, Places
  <2>2. cl' = [cl EXCEPT ![c] = y]
    BY Before DEF SettleSend, Connections
  <2>3. st' \in Snapshots
    BY Before DEF SettleSend, Count, Snapshots, If, runVars
  <2>4. settling' \in Int
    BY Before DEF SettleSend, If, runVars
  <2> QED BY <2>1, <2>2, <2>3, <2>4
<1> HIDE DEF y
<1>3. TypeInv' /\ Alone(c) /\ cl'[c] = y
  BY <1>2, TypeOfOne DEF SettleSend, runVars, IInv
<1>4. Tallied(c)
  <2>1. SettlingTally(c)
    BY <1>1, <1>3, Before, QuietTally DEF SettleSend, PlaceOK, Count, runVars
  <2>2. DialTally(c)
    BY <1>1, <1>3, Before, QuietTally DEF SettleSend, PlaceOK, Count, runVars, WasRejected,
      Snapshots
  <2>3. HeardTally(c)
    BY <1>1, <1>3, Before, QuietTally DEF SettleSend, PlaceOK, Count, runVars, Snapshots
  <2>4. LostTally(c)
    BY <1>1, <1>3, Before, QuietTally DEF SettleSend, PlaceOK, Count, runVars, LostReading,
      LostSettling, Snapshots
  <2>5. FailTally(c)
    BY <1>1, <1>3, Before, QuietTally DEF SettleSend, PlaceOK, Count, runVars, GaveUp, Snapshots
  <2> QED BY <2>1, <2>2, <2>3, <2>4, <2>5 DEF Tallied
<1>5. ClientOK(c)'
  <2>1. PlaceOK(c)'
    BY <1>1, <1>3, Before DEF SettleSend, PlaceOK, Early, Late, runVars
  <2>2. StartOK(c)'
    BY <1>1, <1>3, Before DEF SettleSend, StartOK, PlaceOK, Early, Late, runVars
  <2>3. FaultOK(c)'
    BY <1>1, <1>3, Before DEF SettleSend, FaultOK, StartOK, PlaceOK, Live, runVars
  <2> QED BY <2>1, <2>2, <2>3 DEF ClientOK
<1> QED BY <1>1, <1>3, <1>4, <1>5, Before, StepOfOne DEF SettleSend, PlaceOK, runVars

\* A wait for a JOIN given up.
LEMMA SettleTimeoutStep == ASSUME IInv, NEW c \in Clients, SettleTimeout(c) PROVE IInv'
<1> DEFINE x == cl[c]
           y == [cl[c] EXCEPT !.at = "unsettled", !.fault = @ \/ Live(c)]
<1>1. /\ y.at = "unsettled" /\ y.reader = x.reader /\ y.dead = x.dead /\ y.sock = x.sock
      /\ y.joins = x.joins /\ y.told = x.told /\ y.asked = x.asked /\ y.lat = x.lat
      /\ y.settled = x.settled /\ y.fault = (x.fault \/ Live(c))
  BY Before DEF Connections
<1>2. /\ y \in Connections /\ Len(y.joins) <= JoinBuffer /\ cl' = [cl EXCEPT ![c] = y]
      /\ st' \in Snapshots /\ settling' \in Int
  <2>1. y \in Connections /\ Len(y.joins) <= JoinBuffer
    BY Before DEF Connections, Places
  <2>2. cl' = [cl EXCEPT ![c] = y]
    BY Before DEF SettleTimeout, Connections
  <2>3. st' \in Snapshots
    BY Before DEF SettleTimeout, Count, Snapshots, If, runVars
  <2>4. settling' \in Int
    BY Before DEF SettleTimeout, If, runVars
  <2> QED BY <2>1, <2>2, <2>3, <2>4
<1> HIDE DEF y
<1>3. TypeInv' /\ Alone(c) /\ cl'[c] = y
  BY <1>2, TypeOfOne DEF SettleTimeout, runVars, IInv
<1>4. Tallied(c)
  <2>1. SettlingTally(c)
    BY <1>1, <1>3, Before, QuietTally DEF SettleTimeout, PlaceOK, Count, runVars
  <2>2. DialTally(c)
    BY <1>1, <1>3, Before, QuietTally DEF SettleTimeout, PlaceOK, Count, runVars, WasRejected,
      Snapshots
  <2>3. HeardTally(c)
    BY <1>1, <1>3, Before, QuietTally DEF SettleTimeout, PlaceOK, Count, runVars, Snapshots
  <2>4. LostTally(c)
    BY <1>1, <1>3, Before, QuietTally DEF SettleTimeout, PlaceOK, Count, runVars, LostReading,
      LostSettling, Snapshots
  <2>5. FailTally(c)
    BY <1>1, <1>3, Before, QuietTally DEF SettleTimeout, PlaceOK, Count, runVars, GaveUp,
      Snapshots
  <2> QED BY <2>1, <2>2, <2>3, <2>4, <2>5 DEF Tallied
<1>5. ClientOK(c)'
  <2>1. PlaceOK(c)'
    BY <1>1, <1>3, Before DEF SettleTimeout, PlaceOK, Early, Late, runVars
  <2>2. StartOK(c)'
    BY <1>1, <1>3, Before DEF SettleTimeout, StartOK, PlaceOK, Early, Late, runVars
  <2>3. FaultOK(c)'
    BY <1>1, <1>3, Before DEF SettleTimeout, FaultOK, StartOK, PlaceOK, Live, runVars
  <2> QED BY <2>1, <2>2, <2>3 DEF ClientOK
<1> QED BY <1>1, <1>3, <1>4, <1>5, Before, StepOfOne DEF SettleTimeout, PlaceOK, runVars

\* A connection that was not settled in time is counted lost, if it was one.
LEMMA NeverJoinedStep == ASSUME IInv, NEW c \in Clients, NeverJoined(c) PROVE IInv'
<1> DEFINE x == cl[c]
           y == [cl[c] EXCEPT !.at = "leave"]
<1>1. /\ y.at = "leave" /\ y.reader = x.reader /\ y.dead = x.dead /\ y.sock = x.sock
      /\ y.joins = x.joins /\ y.told = x.told /\ y.asked = x.asked /\ y.lat = x.lat
      /\ y.settled = x.settled /\ y.fault = x.fault
  BY Before DEF Connections
<1>2. /\ y \in Connections /\ Len(y.joins) <= JoinBuffer /\ cl' = [cl EXCEPT ![c] = y]
      /\ st' \in Snapshots /\ settling' \in Int
  <2>1. y \in Connections /\ Len(y.joins) <= JoinBuffer
    BY Before DEF Connections, Places
  <2>2. cl' = [cl EXCEPT ![c] = y]
    BY Before DEF NeverJoined, Go, Connections
  <2>3. st' \in Snapshots
    BY Before DEF NeverJoined, Go, Count, Snapshots, If, runVars
  <2>4. settling' \in Int
    BY Before DEF NeverJoined, Go, If, runVars
  <2> QED BY <2>1, <2>2, <2>3, <2>4
<1> HIDE DEF y
<1>3. TypeInv' /\ Alone(c) /\ cl'[c] = y
  BY <1>2, TypeOfOne DEF NeverJoined, Go, runVars, IInv
<1>4. Tallied(c)
  <2>1. SettlingTally(c)
    BY <1>1, <1>3, Before, QuietTally DEF NeverJoined, Go, PlaceOK, Count, runVars
  <2>2. DialTally(c)
    BY <1>1, <1>3, Before, QuietTally DEF NeverJoined, Go, PlaceOK, Count, runVars,
      WasRejected, Snapshots
  <2>3. HeardTally(c)
    BY <1>1, <1>3, Before, QuietTally DEF NeverJoined, Go, PlaceOK, Count, runVars, Snapshots
  <2>4. LostTally(c)
    BY <1>1, <1>3, Before DEF LostTally, NeverJoined, Go, If, Count, Snapshots, runVars,
      FaultOK, PlaceOK, LostReading, LostSettling
  <2>5. FailTally(c)
    BY <1>1, <1>3, Before, QuietTally DEF NeverJoined, Go, PlaceOK, Count, runVars, GaveUp,
      Snapshots
  <2> QED BY <2>1, <2>2, <2>3, <2>4, <2>5 DEF Tallied
<1>5. ClientOK(c)'
  <2>1. PlaceOK(c)'
    BY <1>1, <1>3, Before DEF NeverJoined, Go, PlaceOK, Early, Late, runVars
  <2>2. StartOK(c)'
    BY <1>1, <1>3, Before DEF NeverJoined, Go, StartOK, PlaceOK, Early, Late, runVars
  <2>3. FaultOK(c)'
    BY <1>1, <1>3, Before DEF NeverJoined, Go, FaultOK, StartOK, PlaceOK, Live, runVars
  <2> QED BY <2>1, <2>2, <2>3 DEF ClientOK
<1> QED BY <1>1, <1>3, <1>4, <1>5, Before, StepOfOne DEF NeverJoined, Go, PlaceOK, runVars

\* A client that is ready leaves the group.
LEMMA ReadyStep == ASSUME IInv, NEW c \in Clients, Settled(c, "joined", "ready") PROVE IInv'
<1> DEFINE x == cl[c]
           y == [cl[c] EXCEPT !.at = "ready", !.settled = TRUE]
<1>1. /\ y.at = "ready" /\ y.reader = x.reader /\ y.dead = x.dead /\ y.sock = x.sock
      /\ y.joins = x.joins /\ y.told = x.told /\ y.asked = x.asked /\ y.lat = x.lat
      /\ y.settled = TRUE /\ y.fault = x.fault
  BY Before DEF Connections
<1>2. /\ y \in Connections /\ Len(y.joins) <= JoinBuffer /\ cl' = [cl EXCEPT ![c] = y]
      /\ st' \in Snapshots /\ settling' \in Int
  <2>1. y \in Connections /\ Len(y.joins) <= JoinBuffer
    BY Before DEF Connections, Places
  <2>2. cl' = [cl EXCEPT ![c] = y]
    BY Before DEF Settled, Connections
  <2>3. st' \in Snapshots
    BY Before DEF Settled, Count, Snapshots, If, runVars
  <2>4. settling' \in Int
    BY Before DEF Settled, If, runVars
  <2> QED BY <2>1, <2>2, <2>3, <2>4
<1> HIDE DEF y
<1>3. TypeInv' /\ Alone(c) /\ cl'[c] = y
  BY <1>2, TypeOfOne DEF Settled, runVars, IInv
<1>4. Tallied(c)
  <2>1. SettlingTally(c)
    BY <1>1, <1>3, Before DEF SettlingTally, Settled, If, Count, Snapshots, runVars, PlaceOK,
      Early, Late
  <2>2. DialTally(c)
    BY <1>1, <1>3, Before, QuietTally DEF Settled, PlaceOK, Count, runVars, WasRejected,
      Snapshots
  <2>3. HeardTally(c)
    BY <1>1, <1>3, Before, QuietTally DEF Settled, PlaceOK, Count, runVars, Snapshots
  <2>4. LostTally(c)
    BY <1>1, <1>3, Before, QuietTally DEF Settled, PlaceOK, Count, runVars, LostReading,
      LostSettling, Snapshots
  <2>5. FailTally(c)
    BY <1>1, <1>3, Before, QuietTally DEF Settled, PlaceOK, Count, runVars, GaveUp, Snapshots
  <2> QED BY <2>1, <2>2, <2>3, <2>4, <2>5 DEF Tallied
<1>5. ClientOK(c)'
  <2>1. PlaceOK(c)'
    BY <1>1, <1>3, Before DEF Settled, PlaceOK, Early, Late, runVars
  <2>2. StartOK(c)'
    BY <1>1, <1>3, Before DEF Settled, StartOK, PlaceOK, Early, Late, runVars
  <2>3. FaultOK(c)'
    BY <1>1, <1>3, Before DEF Settled, FaultOK, StartOK, PlaceOK, Live, runVars
  <2> QED BY <2>1, <2>2, <2>3 DEF ClientOK
<1> QED BY <1>1, <1>3, <1>4, <1>5, Before, StepOfOne DEF Settled, PlaceOK, runVars

\* A client that ends has left the group.
LEMMA GoneStep == ASSUME IInv, NEW c \in Clients, Settled(c, "end", "gone") PROVE IInv'
<1> DEFINE x == cl[c]
           y == [cl[c] EXCEPT !.at = "gone", !.settled = TRUE, !.sock = "shut"]
<1>1. /\ y.at = "gone" /\ y.reader = x.reader /\ y.dead = x.dead /\ y.sock = "shut"
      /\ y.joins = x.joins /\ y.told = x.told /\ y.asked = x.asked /\ y.lat = x.lat
      /\ y.settled = TRUE /\ y.fault = x.fault
  BY Before DEF Connections
<1>2. /\ y \in Connections /\ Len(y.joins) <= JoinBuffer /\ cl' = [cl EXCEPT ![c] = y]
      /\ st' \in Snapshots /\ settling' \in Int
  <2>1. y \in Connections /\ Len(y.joins) <= JoinBuffer
    BY Before DEF Connections, Places
  <2>2. cl' = [cl EXCEPT ![c] = y]
    BY Before DEF Settled, Connections
  <2>3. st' \in Snapshots
    BY Before DEF Settled, Count, Snapshots, If, runVars
  <2>4. settling' \in Int
    BY Before DEF Settled, If, runVars
  <2> QED BY <2>1, <2>2, <2>3, <2>4
<1> HIDE DEF y
<1>3. TypeInv' /\ Alone(c) /\ cl'[c] = y
  BY <1>2, TypeOfOne DEF Settled, runVars, IInv
<1>4. Tallied(c)
  <2>1. SettlingTally(c)
    BY <1>1, <1>3, Before DEF SettlingTally, Settled, If, Count, Snapshots, runVars
  <2>2. DialTally(c)
    BY <1>1, <1>3, Before, QuietTally DEF Settled, PlaceOK, Count, runVars, WasRejected,
      Snapshots
  <2>3. HeardTally(c)
    BY <1>1, <1>3, Before, QuietTally DEF Settled, PlaceOK, Count, runVars, Snapshots
  <2>4. LostTally(c)
    BY <1>1, <1>3, Before, QuietTally DEF Settled, PlaceOK, Count, runVars, LostReading,
      LostSettling, Snapshots
  <2>5. FailTally(c)
    BY <1>1, <1>3, Before, QuietTally DEF Settled, PlaceOK, Count, runVars, GaveUp, Snapshots
  <2> QED BY <2>1, <2>2, <2>3, <2>4, <2>5 DEF Tallied
<1>5. ClientOK(c)'
  <2>1. PlaceOK(c)'
    BY <1>1, <1>3, Before DEF Settled, PlaceOK, Early, Late, runVars
  <2>2. StartOK(c)'
    BY <1>1, <1>3, Before DEF Settled, StartOK, PlaceOK, Early, Late, runVars
  <2>3. FaultOK(c)'
    BY <1>1, <1>3, Before DEF Settled, FaultOK, StartOK, PlaceOK, Live, runVars
  <2> QED BY <2>1, <2>2, <2>3 DEF ClientOK
<1> QED BY <1>1, <1>3, <1>4, <1>5, Before, StepOfOne DEF Settled, PlaceOK, runVars

\* A speaker whose context has ended.
LEMMA SpeakEndsStep == ASSUME IInv, NEW c \in Clients, SpeakEnds(c) PROVE IInv'
<1> DEFINE x == cl[c]
           y == [cl[c] EXCEPT !.at = "close"]
<1>1. /\ y.at = "close" /\ y.reader = x.reader /\ y.dead = x.dead /\ y.sock = x.sock
      /\ y.joins = x.joins /\ y.told = x.told /\ y.asked = x.asked /\ y.lat = x.lat
      /\ y.settled = x.settled /\ y.fault = x.fault
  BY Before DEF Connections
<1>2. /\ y \in Connections /\ Len(y.joins) <= JoinBuffer /\ cl' = [cl EXCEPT ![c] = y]
      /\ st' \in Snapshots /\ settling' \in Int
  <2>1. y \in Connections /\ Len(y.joins) <= JoinBuffer
    BY Before DEF Connections, Places
  <2>2. cl' = [cl EXCEPT ![c] = y]
    BY Before DEF SpeakEnds, Go, Connections
  <2>3. st' \in Snapshots
    BY Before DEF SpeakEnds, Go, Count, Snapshots, If, runVars
  <2>4. settling' \in Int
    BY Before DEF SpeakEnds, Go, If, runVars
  <2> QED BY <2>1, <2>2, <2>3, <2>4
<1> HIDE DEF y
<1>3. TypeInv' /\ Alone(c) /\ cl'[c] = y
  BY <1>2, TypeOfOne DEF SpeakEnds, Go, runVars, IInv
<1>4. Tallied(c)
  <2>1. SettlingTally(c)
    BY <1>1, <1>3, Before, QuietTally DEF SpeakEnds, Go, PlaceOK, Count, runVars
  <2>2. DialTally(c)
    BY <1>1, <1>3, Before, QuietTally DEF SpeakEnds, Go, PlaceOK, Count, runVars, WasRejected,
      Snapshots
  <2>3. HeardTally(c)
    BY <1>1, <1>3, Before, QuietTally DEF SpeakEnds, Go, PlaceOK, Count, runVars, Snapshots
  <2>4. LostTally(c)
    BY <1>1, <1>3, Before, QuietTally DEF SpeakEnds, Go, PlaceOK, Count, runVars, LostReading,
      LostSettling, Snapshots
  <2>5. FailTally(c)
    BY <1>1, <1>3, Before, QuietTally DEF SpeakEnds, Go, PlaceOK, Count, runVars, GaveUp,
      Snapshots
  <2> QED BY <2>1, <2>2, <2>3, <2>4, <2>5 DEF Tallied
<1>5. ClientOK(c)'
  <2>1. PlaceOK(c)'
    BY <1>1, <1>3, Before DEF SpeakEnds, Go, PlaceOK, Early, Late, runVars
  <2>2. StartOK(c)'
    BY <1>1, <1>3, Before DEF SpeakEnds, Go, StartOK, PlaceOK, Early, Late, runVars
  <2>3. FaultOK(c)'
    BY <1>1, <1>3, Before DEF SpeakEnds, Go, FaultOK, StartOK, PlaceOK, Live, runVars
  <2> QED BY <2>1, <2>2, <2>3 DEF ClientOK
<1> QED BY <1>1, <1>3, <1>4, <1>5, Before, StepOfOne DEF SpeakEnds, Go, PlaceOK, runVars

\* A socket closed.
LEMMA CloseStep == ASSUME IInv, NEW c \in Clients, Close(c) PROVE IInv'
<1> DEFINE x == cl[c]
           y == [cl[c] EXCEPT !.at = "leave", !.sock = "shut"]
<1>1. /\ y.at = "leave" /\ y.reader = x.reader /\ y.dead = x.dead /\ y.sock = "shut"
      /\ y.joins = x.joins /\ y.told = x.told /\ y.asked = x.asked /\ y.lat = x.lat
      /\ y.settled = x.settled /\ y.fault = x.fault
  BY Before DEF Connections
<1>2. /\ y \in Connections /\ Len(y.joins) <= JoinBuffer /\ cl' = [cl EXCEPT ![c] = y]
      /\ st' \in Snapshots /\ settling' \in Int
  <2>1. y \in Connections /\ Len(y.joins) <= JoinBuffer
    BY Before DEF Connections, Places
  <2>2. cl' = [cl EXCEPT ![c] = y]
    BY Before DEF Close, Connections
  <2>3. st' \in Snapshots
    BY Before DEF Close, Count, Snapshots, If, runVars
  <2>4. settling' \in Int
    BY Before DEF Close, If, runVars
  <2> QED BY <2>1, <2>2, <2>3, <2>4
<1> HIDE DEF y
<1>3. TypeInv' /\ Alone(c) /\ cl'[c] = y
  BY <1>2, TypeOfOne DEF Close, runVars, IInv
<1>4. Tallied(c)
  <2>1. SettlingTally(c)
    BY <1>1, <1>3, Before, QuietTally DEF Close, PlaceOK, Count, runVars
  <2>2. DialTally(c)
    BY <1>1, <1>3, Before, QuietTally DEF Close, PlaceOK, Count, runVars, WasRejected, Snapshots
  <2>3. HeardTally(c)
    BY <1>1, <1>3, Before, QuietTally DEF Close, PlaceOK, Count, runVars, Snapshots
  <2>4. LostTally(c)
    BY <1>1, <1>3, Before, QuietTally DEF Close, PlaceOK, Count, runVars, LostReading,
      LostSettling, Snapshots
  <2>5. FailTally(c)
    BY <1>1, <1>3, Before, QuietTally DEF Close, PlaceOK, Count, runVars, GaveUp, Snapshots
  <2> QED BY <2>1, <2>2, <2>3, <2>4, <2>5 DEF Tallied
<1>5. ClientOK(c)'
  <2>1. PlaceOK(c)'
    BY <1>1, <1>3, Before DEF Close, PlaceOK, Early, Late, runVars
  <2>2. StartOK(c)'
    BY <1>1, <1>3, Before DEF Close, StartOK, PlaceOK, Early, Late, runVars
  <2>3. FaultOK(c)'
    BY <1>1, <1>3, Before DEF Close, FaultOK, StartOK, PlaceOK, Live, runVars
  <2> QED BY <2>1, <2>2, <2>3 DEF ClientOK
<1> QED BY <1>1, <1>3, <1>4, <1>5, Before, StepOfOne DEF Close, PlaceOK, runVars

\* A context cancelled.
LEMMA DeadStep == ASSUME IInv, NEW c \in Clients, Dead(c) PROVE IInv'
<1> DEFINE x == cl[c]
           y == [cl[c] EXCEPT !.at = "merge", !.dead = TRUE]
<1>1. /\ y.at = "merge" /\ y.reader = x.reader /\ y.dead = TRUE /\ y.sock = x.sock
      /\ y.joins = x.joins /\ y.told = x.told /\ y.asked = x.asked /\ y.lat = x.lat
      /\ y.settled = x.settled /\ y.fault = x.fault
  BY Before DEF Connections
<1>2. /\ y \in Connections /\ Len(y.joins) <= JoinBuffer /\ cl' = [cl EXCEPT ![c] = y]
      /\ st' \in Snapshots /\ settling' \in Int
  <2>1. y \in Connections /\ Len(y.joins) <= JoinBuffer
    BY Before DEF Connections, Places
  <2>2. cl' = [cl EXCEPT ![c] = y]
    BY Before DEF Dead, Connections
  <2>3. st' \in Snapshots
    BY Before DEF Dead, Count, Snapshots, If, runVars
  <2>4. settling' \in Int
    BY Before DEF Dead, If, runVars
  <2> QED BY <2>1, <2>2, <2>3, <2>4
<1> HIDE DEF y
<1>3. TypeInv' /\ Alone(c) /\ cl'[c] = y
  BY <1>2, TypeOfOne DEF Dead, runVars, IInv
<1>4. Tallied(c)
  <2>1. SettlingTally(c)
    BY <1>1, <1>3, Before, QuietTally DEF Dead, PlaceOK, Count, runVars
  <2>2. DialTally(c)
    BY <1>1, <1>3, Before, QuietTally DEF Dead, PlaceOK, Count, runVars, WasRejected, Snapshots
  <2>3. HeardTally(c)
    BY <1>1, <1>3, Before, QuietTally DEF Dead, PlaceOK, Count, runVars, Snapshots
  <2>4. LostTally(c)
    BY <1>1, <1>3, Before, QuietTally DEF Dead, PlaceOK, Count, runVars, LostReading,
      LostSettling, Snapshots
  <2>5. FailTally(c)
    BY <1>1, <1>3, Before, QuietTally DEF Dead, PlaceOK, Count, runVars, GaveUp, Snapshots
  <2> QED BY <2>1, <2>2, <2>3, <2>4, <2>5 DEF Tallied
<1>5. ClientOK(c)'
  <2>1. PlaceOK(c)'
    BY <1>1, <1>3, Before DEF Dead, PlaceOK, Early, Late, runVars
  <2>2. StartOK(c)'
    BY <1>1, <1>3, Before DEF Dead, StartOK, PlaceOK, Early, Late, runVars
  <2>3. FaultOK(c)'
    BY <1>1, <1>3, Before DEF Dead, FaultOK, StartOK, PlaceOK, Live, runVars
  <2> QED BY <2>1, <2>2, <2>3 DEF ClientOK
<1> QED BY <1>1, <1>3, <1>4, <1>5, Before, StepOfOne DEF Dead, PlaceOK, runVars

\* What was received is handed in.
LEMMA MergeLatencyStep == ASSUME IInv, NEW c \in Clients, MergeLatency(c) PROVE IInv'
<1> DEFINE x == cl[c]
           y == Over(c)
<1>1. /\ y.at = "end" /\ y.reader = x.reader /\ y.dead = TRUE /\ y.sock = x.sock
      /\ y.joins = << >> /\ y.told = 0 /\ y.asked = FALSE /\ y.lat = EmptyHistogram
      /\ y.settled = x.settled /\ y.fault = x.fault
  BY Before DEF Connections, Over, Fresh
<1>2. /\ y \in Connections /\ Len(y.joins) <= JoinBuffer /\ cl' = [cl EXCEPT ![c] = y]
      /\ st' \in Snapshots /\ settling' \in Int
  <2>1. y \in Connections /\ Len(y.joins) <= JoinBuffer
    <3>1. << >> \in Seq({"auto", "own"}) /\ Len(<< >>) = 0 /\ 0 \in Nat /\ "end" \in Places
      BY DEF Places
    <3>2. Fresh \in Connections
      BY <3>1, EmptyType DEF Fresh, Connections, Places
    <3>3. /\ x.reader \in {"none", "read", "failed", "done"} /\ x.sock \in {"none", "open", "cut", "shut"}
          /\ x.settled \in BOOLEAN /\ x.fault \in BOOLEAN /\ "end" \in Places
      BY Before DEF Connections, Places
    <3>4. y \in Connections
      BY <3>2, <3>3 DEF Connections, Over
    <3> HIDE DEF y
    <3> QED BY <1>1, <3>1, <3>4, LoadGenAssumption
  <2>2. cl' = [cl EXCEPT ![c] = y]
    BY Before DEF MergeLatency, Connections
  <2>3. st' \in Snapshots
    BY Before, MergeType DEF MergeLatency, Count, Snapshots, If, runVars
  <2>4. settling' \in Int
    BY Before DEF MergeLatency, If, runVars
  <2> QED BY <2>1, <2>2, <2>3, <2>4
<1> HIDE DEF y
<1>3. TypeInv' /\ Alone(c) /\ cl'[c] = y
  BY <1>2, TypeOfOne DEF MergeLatency, runVars, IInv
<1>4. Tallied(c)
  <2>1. SettlingTally(c)
    BY <1>1, <1>3, Before, QuietTally DEF MergeLatency, PlaceOK, Count, runVars
  <2>2. DialTally(c)
    BY <1>1, <1>3, Before, QuietTally DEF MergeLatency, PlaceOK, Count, runVars, WasRejected,
      Snapshots
  <2>3. HeardTally(c)
    <3>1. /\ st'.latency.count = st.latency.count + x.lat.count /\ st'.received = st.received
          /\ st'.untimed = st.untimed
      BY Before, MergeType DEF MergeLatency, Snapshots
    <3>2. cl'[c].lat.count = 0 /\ st.received \in Nat /\ st.untimed \in Nat
      BY <1>1, <1>3, EmptyType, Before DEF Snapshots
    <3> QED BY <3>1, <3>2, Before DEF HeardTally
  <2>4. LostTally(c)
    BY <1>1, <1>3, Before, QuietTally DEF MergeLatency, PlaceOK, Count, runVars, LostReading,
      LostSettling, Snapshots
  <2>5. FailTally(c)
    BY <1>1, <1>3, Before, QuietTally DEF MergeLatency, PlaceOK, Count, runVars, GaveUp,
      Snapshots
  <2> QED BY <2>1, <2>2, <2>3, <2>4, <2>5 DEF Tallied
<1>5. ClientOK(c)'
  <2>1. PlaceOK(c)'
    BY <1>1, <1>3, Before, EmptyType, LoadGenAssumption DEF MergeLatency, PlaceOK, Early,
      Late, runVars
  <2>2. StartOK(c)'
    BY <1>1, <1>3, Before DEF MergeLatency, StartOK, PlaceOK, Early, Late, runVars
  <2>3. FaultOK(c)'
    BY <1>1, <1>3, Before DEF MergeLatency, FaultOK, StartOK, PlaceOK, Live, runVars
  <2> QED BY <2>1, <2>2, <2>3 DEF ClientOK
<1> QED BY <1>1, <1>3, <1>4, <1>5, Before, StepOfOne DEF MergeLatency, PlaceOK, runVars

\* A write that fails: the network is to blame while the context lives.
LEMMA SendFailsStep == ASSUME IInv, NEW c \in Clients, SendFails(c) PROVE IInv'
<1> DEFINE x == cl[c]
           y == [cl[c] EXCEPT !.sock = "shut", !.fault = @ \/ (Live(c) /\ cl[c].sock = "open"),
                            !.at = IF @ = "speak" THEN "close" ELSE "unsettled"]
<1>1. /\ y.at = (IF x.at = "speak" THEN "close" ELSE "unsettled") /\ y.reader = x.reader
      /\ y.dead = x.dead /\ y.sock = "shut"
      /\ y.joins = x.joins /\ y.told = x.told /\ y.asked = x.asked /\ y.lat = x.lat
      /\ y.settled = x.settled /\ y.fault = (x.fault \/ (Live(c) /\ x.sock = "open"))
  BY Before DEF Connections
<1>2. /\ y \in Connections /\ Len(y.joins) <= JoinBuffer /\ cl' = [cl EXCEPT ![c] = y]
      /\ st' \in Snapshots /\ settling' \in Int
  <2>1. y \in Connections /\ Len(y.joins) <= JoinBuffer
    BY Before DEF Connections, Places
  <2>2. cl' = [cl EXCEPT ![c] = y]
    BY Before DEF SendFails, Connections
  <2>3. st' \in Snapshots
    BY Before DEF SendFails, Count, Snapshots, If, runVars
  <2>4. settling' \in Int
    BY Before DEF SendFails, If, runVars
  <2> QED BY <2>1, <2>2, <2>3, <2>4
<1> HIDE DEF y
<1>3. TypeInv' /\ Alone(c) /\ cl'[c] = y
  BY <1>2, TypeOfOne DEF SendFails, runVars, IInv
<1>4. Tallied(c)
  <2>1. SettlingTally(c)
    BY <1>1, <1>3, Before, QuietTally DEF SendFails, PlaceOK, Count, runVars
  <2>2. DialTally(c)
    BY <1>1, <1>3, Before, QuietTally DEF SendFails, PlaceOK, Count, runVars, WasRejected,
      Snapshots
  <2>3. HeardTally(c)
    BY <1>1, <1>3, Before, QuietTally DEF SendFails, PlaceOK, Count, runVars, Snapshots
  <2>4. LostTally(c)
    BY <1>1, <1>3, Before, QuietTally DEF SendFails, PlaceOK, Count, runVars, LostReading,
      LostSettling, Snapshots
  <2>5. FailTally(c)
    <3>1. CASE st' = st
      <4>1. GaveUp(x) => GaveUp(y)
        BY <1>1 DEF GaveUp
      <4> QED BY <1>3, <3>1, <4>1, QuietTally
    <3>2. CASE Count("sendFailed", If(Live(c)))
      <4>1. st'.sendFailed = st.sendFailed + If(Live(c)) /\ st.sendFailed \in Nat
        BY <3>2, Before DEF Count, Snapshots
      <4>2. ~GaveUp(x) /\ (Live(c) => GaveUp(y))
        BY <1>1, Before DEF SendFails, GaveUp, FaultOK, PlaceOK, Connections
      <4> QED BY <1>3, <4>1, <4>2 DEF FailTally, If
    <3> QED BY <3>1, <3>2 DEF SendFails
  <2> QED BY <2>1, <2>2, <2>3, <2>4, <2>5 DEF Tallied
<1>5. ClientOK(c)'
  <2>1. PlaceOK(c)'
    BY <1>1, <1>3, Before DEF SendFails, PlaceOK, Early, Late, runVars
  <2>2. StartOK(c)'
    BY <1>1, <1>3, Before DEF SendFails, StartOK, PlaceOK, Early, Late, runVars
  <2>3. FaultOK(c)'
    BY <1>1, <1>3, Before DEF SendFails, FaultOK, StartOK, PlaceOK, Live, runVars
  <2> QED BY <2>1, <2>2, <2>3 DEF ClientOK
<1> QED BY <1>1, <1>3, <1>4, <1>5, Before, StepOfOne DEF SendFails, PlaceOK, runVars

\* A JOIN read, and kept if there is room.
LEMMA ReadJoinStep == ASSUME IInv, NEW c \in Clients, ReadJoin(c) PROVE IInv'
<1> DEFINE x == cl[c]
           y == [cl[c] EXCEPT !.told = @ + 1,
                            !.joins = IF Len(@) = JoinBuffer THEN @
                                      ELSE Append(@, IF cl[c].told < AutoJoins THEN "auto" ELSE "own")]
<1>1. /\ y.at = x.at /\ y.reader = x.reader /\ y.dead = x.dead /\ y.sock = x.sock
      /\ y.joins = y.joins /\ y.told = x.told + 1 /\ y.asked = x.asked /\ y.lat = x.lat
      /\ y.settled = x.settled /\ y.fault = x.fault
  BY Before DEF Connections
<1>2. /\ y \in Connections /\ Len(y.joins) <= JoinBuffer /\ cl' = [cl EXCEPT ![c] = y]
      /\ st' \in Snapshots /\ settling' \in Int
  <2>1. y \in Connections /\ Len(y.joins) <= JoinBuffer
    <3>1. y.joins \in Seq({"auto", "own"}) /\ Len(y.joins) <= JoinBuffer
      <4>1. x.joins \in Seq({"auto", "own"}) /\ Len(x.joins) <= JoinBuffer
        BY Before DEF Connections
      <4>2. ASSUME NEW r \in {"auto", "own"}, Len(x.joins) # JoinBuffer
            PROVE  Append(x.joins, r) \in Seq({"auto", "own"}) /\ Len(Append(x.joins, r)) <= JoinBuffer
        BY <4>1, <4>2, LoadGenAssumption
      <4>3. (IF cl[c].told < AutoJoins THEN "auto" ELSE "own") \in {"auto", "own"}
        OBVIOUS
      <4> QED BY <1>1, <4>1, <4>2, <4>3, Before DEF Connections
    <3>2. x.told + 1 \in Nat
      BY Before DEF Connections
    <3> HIDE DEF y
    <3>3. y = [x EXCEPT !.told = @ + 1, !.joins = y.joins]
      BY Before DEF y, Connections
    <3> QED BY <1>1, <3>1, <3>2, <3>3, Before DEF Connections
  <2>2. cl' = [cl EXCEPT ![c] = y]
    BY Before DEF ReadJoin, Connections
  <2>3. st' \in Snapshots
    BY Before DEF ReadJoin, Count, Snapshots, If, runVars
  <2>4. settling' \in Int
    BY Before DEF ReadJoin, If, runVars
  <2> QED BY <2>1, <2>2, <2>3, <2>4
<1> HIDE DEF y
<1>3. TypeInv' /\ Alone(c) /\ cl'[c] = y
  BY <1>2, TypeOfOne DEF ReadJoin, runVars, IInv
<1>4. Tallied(c)
  <2>1. SettlingTally(c)
    BY <1>1, <1>3, Before, QuietTally DEF ReadJoin, PlaceOK, Count, runVars
  <2>2. DialTally(c)
    BY <1>1, <1>3, Before, QuietTally DEF ReadJoin, PlaceOK, Count, runVars, WasRejected,
      Snapshots
  <2>3. HeardTally(c)
    BY <1>1, <1>3, Before, QuietTally DEF ReadJoin, PlaceOK, Count, runVars, Snapshots
  <2>4. LostTally(c)
    BY <1>1, <1>3, Before, QuietTally DEF ReadJoin, PlaceOK, Count, runVars, LostReading,
      LostSettling, Snapshots
  <2>5. FailTally(c)
    BY <1>1, <1>3, Before, QuietTally DEF ReadJoin, PlaceOK, Count, runVars, GaveUp, Snapshots
  <2> QED BY <2>1, <2>2, <2>3, <2>4, <2>5 DEF Tallied
<1>5. ClientOK(c)'
  <2>1. PlaceOK(c)'
    BY <1>1, <1>3, Before DEF ReadJoin, PlaceOK, Early, Late, runVars
  <2>2. StartOK(c)'
    BY <1>1, <1>3, Before DEF ReadJoin, StartOK, PlaceOK, Early, Late, runVars
  <2>3. FaultOK(c)'
    BY <1>1, <1>3, Before DEF ReadJoin, FaultOK, StartOK, PlaceOK, Live, runVars
  <2> QED BY <2>1, <2>2, <2>3 DEF ClientOK
<1> QED BY <1>1, <1>3, <1>4, <1>5, Before, StepOfOne DEF ReadJoin, PlaceOK, runVars

\* A read that fails is a loss, unless the context has ended.
LEMMA ReadFailsStep == ASSUME IInv, NEW c \in Clients, ReadFails(c) PROVE IInv'
<1> DEFINE x == cl[c]
           y == [cl[c] EXCEPT !.reader = "failed", !.sock = "shut"]
<1>1. /\ y.at = x.at /\ y.reader = "failed" /\ y.dead = x.dead /\ y.sock = "shut"
      /\ y.joins = x.joins /\ y.told = x.told /\ y.asked = x.asked /\ y.lat = x.lat
      /\ y.settled = x.settled /\ y.fault = x.fault
  BY Before DEF Connections
<1>2. /\ y \in Connections /\ Len(y.joins) <= JoinBuffer /\ cl' = [cl EXCEPT ![c] = y]
      /\ st' \in Snapshots /\ settling' \in Int
  <2>1. y \in Connections /\ Len(y.joins) <= JoinBuffer
    BY Before DEF Connections, Places
  <2>2. cl' = [cl EXCEPT ![c] = y]
    BY Before DEF ReadFails, Connections
  <2>3. st' \in Snapshots
    BY Before DEF ReadFails, Count, Snapshots, If, runVars
  <2>4. settling' \in Int
    BY Before DEF ReadFails, If, runVars
  <2> QED BY <2>1, <2>2, <2>3, <2>4
<1> HIDE DEF y
<1>3. TypeInv' /\ Alone(c) /\ cl'[c] = y
  BY <1>2, TypeOfOne DEF ReadFails, runVars, IInv
<1>4. Tallied(c)
  <2>1. SettlingTally(c)
    BY <1>1, <1>3, Before, QuietTally DEF ReadFails, PlaceOK, Count, runVars
  <2>2. DialTally(c)
    BY <1>1, <1>3, Before, QuietTally DEF ReadFails, PlaceOK, Count, runVars, WasRejected,
      Snapshots
  <2>3. HeardTally(c)
    BY <1>1, <1>3, Before, QuietTally DEF ReadFails, PlaceOK, Count, runVars, Snapshots
  <2>4. LostTally(c)
    BY <1>1, <1>3, Before DEF LostTally, ReadFails, If, Count, Snapshots, runVars, FaultOK,
      PlaceOK, LostReading, LostSettling
  <2>5. FailTally(c)
    BY <1>1, <1>3, Before, QuietTally DEF ReadFails, PlaceOK, Count, runVars, GaveUp, Snapshots
  <2> QED BY <2>1, <2>2, <2>3, <2>4, <2>5 DEF Tallied
<1>5. ClientOK(c)'
  <2>1. PlaceOK(c)'
    BY <1>1, <1>3, Before DEF ReadFails, PlaceOK, Early, Late, runVars
  <2>2. StartOK(c)'
    BY <1>1, <1>3, Before DEF ReadFails, StartOK, PlaceOK, Early, Late, runVars
  <2>3. FaultOK(c)'
    BY <1>1, <1>3, Before DEF ReadFails, FaultOK, StartOK, PlaceOK, Live, runVars
  <2> QED BY <2>1, <2>2, <2>3 DEF ClientOK
<1> QED BY <1>1, <1>3, <1>4, <1>5, Before, StepOfOne DEF ReadFails, PlaceOK, runVars

\* A reader ends, and its context with it.
LEMMA ReaderEndsStep == ASSUME IInv, NEW c \in Clients, ReaderEnds(c) PROVE IInv'
<1> DEFINE x == cl[c]
           y == [cl[c] EXCEPT !.reader = "done", !.dead = TRUE]
<1>1. /\ y.at = x.at /\ y.reader = "done" /\ y.dead = TRUE /\ y.sock = x.sock
      /\ y.joins = x.joins /\ y.told = x.told /\ y.asked = x.asked /\ y.lat = x.lat
      /\ y.settled = x.settled /\ y.fault = x.fault
  BY Before DEF Connections
<1>2. /\ y \in Connections /\ Len(y.joins) <= JoinBuffer /\ cl' = [cl EXCEPT ![c] = y]
      /\ st' \in Snapshots /\ settling' \in Int
  <2>1. y \in Connections /\ Len(y.joins) <= JoinBuffer
    BY Before DEF Connections, Places
  <2>2. cl' = [cl EXCEPT ![c] = y]
    BY Before DEF ReaderEnds, Connections
  <2>3. st' \in Snapshots
    BY Before DEF ReaderEnds, Count, Snapshots, If, runVars
  <2>4. settling' \in Int
    BY Before DEF ReaderEnds, If, runVars
  <2> QED BY <2>1, <2>2, <2>3, <2>4
<1> HIDE DEF y
<1>3. TypeInv' /\ Alone(c) /\ cl'[c] = y
  BY <1>2, TypeOfOne DEF ReaderEnds, runVars, IInv
<1>4. Tallied(c)
  <2>1. SettlingTally(c)
    BY <1>1, <1>3, Before, QuietTally DEF ReaderEnds, PlaceOK, Count, runVars
  <2>2. DialTally(c)
    BY <1>1, <1>3, Before, QuietTally DEF ReaderEnds, PlaceOK, Count, runVars, WasRejected,
      Snapshots
  <2>3. HeardTally(c)
    BY <1>1, <1>3, Before, QuietTally DEF ReaderEnds, PlaceOK, Count, runVars, Snapshots
  <2>4. LostTally(c)
    BY <1>1, <1>3, Before, QuietTally DEF ReaderEnds, PlaceOK, Count, runVars, LostReading,
      LostSettling, Snapshots
  <2>5. FailTally(c)
    BY <1>1, <1>3, Before, QuietTally DEF ReaderEnds, PlaceOK, Count, runVars, GaveUp, Snapshots
  <2> QED BY <2>1, <2>2, <2>3, <2>4, <2>5 DEF Tallied
<1>5. ClientOK(c)'
  <2>1. PlaceOK(c)'
    BY <1>1, <1>3, Before DEF ReaderEnds, PlaceOK, Early, Late, runVars
  <2>2. StartOK(c)'
    BY <1>1, <1>3, Before DEF ReaderEnds, StartOK, PlaceOK, Early, Late, runVars
  <2>3. FaultOK(c)'
    BY <1>1, <1>3, Before DEF ReaderEnds, FaultOK, StartOK, PlaceOK, Live, runVars
  <2> QED BY <2>1, <2>2, <2>3 DEF ClientOK
<1> QED BY <1>1, <1>3, <1>4, <1>5, Before, StepOfOne DEF ReaderEnds, PlaceOK, runVars

\* A connection cut by the server, or the network.
LEMMA DropStep == ASSUME IInv, NEW c \in Clients, Drop(c) PROVE IInv'
<1> DEFINE x == cl[c]
           y == [cl[c] EXCEPT !.sock = "cut", !.fault = TRUE]
<1>1. /\ y.at = x.at /\ y.reader = x.reader /\ y.dead = x.dead /\ y.sock = "cut"
      /\ y.joins = x.joins /\ y.told = x.told /\ y.asked = x.asked /\ y.lat = x.lat
      /\ y.settled = x.settled /\ y.fault = TRUE
  BY Before DEF Connections
<1>2. /\ y \in Connections /\ Len(y.joins) <= JoinBuffer /\ cl' = [cl EXCEPT ![c] = y]
      /\ st' \in Snapshots /\ settling' \in Int
  <2>1. y \in Connections /\ Len(y.joins) <= JoinBuffer
    BY Before DEF Connections, Places
  <2>2. cl' = [cl EXCEPT ![c] = y]
    BY Before DEF Drop, Connections
  <2>3. st' \in Snapshots
    BY Before DEF Drop, Count, Snapshots, If, runVars
  <2>4. settling' \in Int
    BY Before DEF Drop, If, runVars
  <2> QED BY <2>1, <2>2, <2>3, <2>4
<1> HIDE DEF y
<1>3. TypeInv' /\ Alone(c) /\ cl'[c] = y
  BY <1>2, TypeOfOne DEF Drop, runVars, IInv
<1>4. Tallied(c)
  <2>1. SettlingTally(c)
    BY <1>1, <1>3, Before, QuietTally DEF Drop, PlaceOK, Count, runVars
  <2>2. DialTally(c)
    BY <1>1, <1>3, Before, QuietTally DEF Drop, PlaceOK, Count, runVars, WasRejected, Snapshots
  <2>3. HeardTally(c)
    BY <1>1, <1>3, Before, QuietTally DEF Drop, PlaceOK, Count, runVars, Snapshots
  <2>4. LostTally(c)
    BY <1>1, <1>3, Before, QuietTally DEF Drop, PlaceOK, Count, runVars, LostReading,
      LostSettling, Snapshots
  <2>5. FailTally(c)
    BY <1>1, <1>3, Before, QuietTally DEF Drop, PlaceOK, Count, runVars, GaveUp, Snapshots
  <2> QED BY <2>1, <2>2, <2>3, <2>4, <2>5 DEF Tallied
<1>5. ClientOK(c)'
  <2>1. PlaceOK(c)'
    BY <1>1, <1>3, Before DEF Drop, PlaceOK, Early, Late, runVars
  <2>2. StartOK(c)'
    BY <1>1, <1>3, Before DEF Drop, StartOK, PlaceOK, Early, Late, runVars
  <2>3. FaultOK(c)'
    BY <1>1, <1>3, Before DEF Drop, FaultOK, StartOK, PlaceOK, Live, runVars
  <2> QED BY <2>1, <2>2, <2>3 DEF ClientOK
<1> QED BY <1>1, <1>3, <1>4, <1>5, Before, StepOfOne DEF Drop, PlaceOK, runVars

\* The barrier opens.
LEMMA MaySpeakStep ==
  ASSUME IInv, NEW c \in Clients, start /\ Go(c, "ready", "speak") /\ UNCHANGED <<runVars, st>>
  PROVE  IInv'
<1> DEFINE x == cl[c]
           y == [cl[c] EXCEPT !.at = "speak"]
<1>1. /\ y.at = "speak" /\ y.reader = x.reader /\ y.dead = x.dead /\ y.sock = x.sock
      /\ y.joins = x.joins /\ y.told = x.told /\ y.asked = x.asked /\ y.lat = x.lat
      /\ y.settled = x.settled /\ y.fault = x.fault
  BY Before DEF Connections
<1>2. /\ y \in Connections /\ Len(y.joins) <= JoinBuffer /\ cl' = [cl EXCEPT ![c] = y]
      /\ st' \in Snapshots /\ settling' \in Int
  <2>1. y \in Connections /\ Len(y.joins) <= JoinBuffer
    BY Before DEF Connections, Places
  <2>2. cl' = [cl EXCEPT ![c] = y]
    BY Before DEF Go, Connections
  <2>3. st' \in Snapshots
    BY Before DEF Go, Count, Snapshots, If, runVars
  <2>4. settling' \in Int
    BY Before DEF Go, If, runVars
  <2> QED BY <2>1, <2>2, <2>3, <2>4
<1> HIDE DEF y
<1>3. TypeInv' /\ Alone(c) /\ cl'[c] = y
  BY <1>2, TypeOfOne DEF Go, runVars, IInv
<1>4. Tallied(c)
  <2>1. SettlingTally(c)
    BY <1>1, <1>3, Before, QuietTally DEF Go, PlaceOK, Count, runVars
  <2>2. DialTally(c)
    BY <1>1, <1>3, Before, QuietTally DEF Go, PlaceOK, Count, runVars, WasRejected, Snapshots
  <2>3. HeardTally(c)
    BY <1>1, <1>3, Before, QuietTally DEF Go, PlaceOK, Count, runVars, Snapshots
  <2>4. LostTally(c)
    BY <1>1, <1>3, Before, QuietTally DEF Go, PlaceOK, Count, runVars, LostReading,
      LostSettling, Snapshots
  <2>5. FailTally(c)
    BY <1>1, <1>3, Before, QuietTally DEF Go, PlaceOK, Count, runVars, GaveUp, Snapshots
  <2> QED BY <2>1, <2>2, <2>3, <2>4, <2>5 DEF Tallied
<1>5. ClientOK(c)'
  <2>1. PlaceOK(c)'
    BY <1>1, <1>3, Before DEF Go, PlaceOK, Early, Late, runVars
  <2>2. StartOK(c)'
    BY <1>1, <1>3, Before DEF Go, StartOK, PlaceOK, Early, Late, runVars
  <2>3. FaultOK(c)'
    BY <1>1, <1>3, Before DEF Go, FaultOK, StartOK, PlaceOK, Live, runVars
  <2> QED BY <2>1, <2>2, <2>3 DEF ClientOK
<1> QED BY <1>1, <1>3, <1>4, <1>5, Before, StepOfOne DEF Go, PlaceOK, runVars

\* The run ends before the barrier opens.
LEMMA NoStartStep ==
  ASSUME IInv, NEW c \in Clients, ~Live(c) /\ Go(c, "ready", "leave") /\ UNCHANGED <<runVars, st>>
  PROVE  IInv'
<1> DEFINE x == cl[c]
           y == [cl[c] EXCEPT !.at = "leave"]
<1>1. /\ y.at = "leave" /\ y.reader = x.reader /\ y.dead = x.dead /\ y.sock = x.sock
      /\ y.joins = x.joins /\ y.told = x.told /\ y.asked = x.asked /\ y.lat = x.lat
      /\ y.settled = x.settled /\ y.fault = x.fault
  BY Before DEF Connections
<1>2. /\ y \in Connections /\ Len(y.joins) <= JoinBuffer /\ cl' = [cl EXCEPT ![c] = y]
      /\ st' \in Snapshots /\ settling' \in Int
  <2>1. y \in Connections /\ Len(y.joins) <= JoinBuffer
    BY Before DEF Connections, Places
  <2>2. cl' = [cl EXCEPT ![c] = y]
    BY Before DEF Go, Connections
  <2>3. st' \in Snapshots
    BY Before DEF Go, Count, Snapshots, If, runVars
  <2>4. settling' \in Int
    BY Before DEF Go, If, runVars
  <2> QED BY <2>1, <2>2, <2>3, <2>4
<1> HIDE DEF y
<1>3. TypeInv' /\ Alone(c) /\ cl'[c] = y
  BY <1>2, TypeOfOne DEF Go, runVars, IInv
<1>4. Tallied(c)
  <2>1. SettlingTally(c)
    BY <1>1, <1>3, Before, QuietTally DEF Go, PlaceOK, Count, runVars
  <2>2. DialTally(c)
    BY <1>1, <1>3, Before, QuietTally DEF Go, PlaceOK, Count, runVars, WasRejected, Snapshots
  <2>3. HeardTally(c)
    BY <1>1, <1>3, Before, QuietTally DEF Go, PlaceOK, Count, runVars, Snapshots
  <2>4. LostTally(c)
    BY <1>1, <1>3, Before, QuietTally DEF Go, PlaceOK, Count, runVars, LostReading,
      LostSettling, Snapshots
  <2>5. FailTally(c)
    BY <1>1, <1>3, Before, QuietTally DEF Go, PlaceOK, Count, runVars, GaveUp, Snapshots
  <2> QED BY <2>1, <2>2, <2>3, <2>4, <2>5 DEF Tallied
<1>5. ClientOK(c)'
  <2>1. PlaceOK(c)'
    BY <1>1, <1>3, Before DEF Go, PlaceOK, Early, Late, runVars
  <2>2. StartOK(c)'
    BY <1>1, <1>3, Before DEF Go, StartOK, PlaceOK, Early, Late, runVars
  <2>3. FaultOK(c)'
    BY <1>1, <1>3, Before DEF Go, FaultOK, StartOK, PlaceOK, Live, runVars
  <2> QED BY <2>1, <2>2, <2>3 DEF ClientOK
<1> QED BY <1>1, <1>3, <1>4, <1>5, Before, StepOfOne DEF Go, PlaceOK, runVars

\* A message sent.
LEMMA SayStep == ASSUME IInv, NEW c \in Clients, Say(c) PROVE IInv'
<1> DEFINE x == cl[c]
           y == cl[c]
<1>1. /\ y.at = x.at /\ y.reader = x.reader /\ y.dead = x.dead /\ y.sock = x.sock
      /\ y.joins = x.joins /\ y.told = x.told /\ y.asked = x.asked /\ y.lat = x.lat
      /\ y.settled = x.settled /\ y.fault = x.fault
  BY Before DEF Connections
<1>2. /\ y \in Connections /\ Len(y.joins) <= JoinBuffer /\ cl' = [cl EXCEPT ![c] = y]
      /\ st' \in Snapshots /\ settling' \in Int
  <2>1. y \in Connections /\ Len(y.joins) <= JoinBuffer
    BY Before
  <2>2. cl' = [cl EXCEPT ![c] = y]
    BY Before DEF Say, Connections
  <2>3. st' \in Snapshots
    BY Before DEF Say, Count, Snapshots, If, runVars
  <2>4. settling' \in Int
    BY Before DEF Say, If, runVars
  <2> QED BY <2>1, <2>2, <2>3, <2>4
<1> HIDE DEF y
<1>3. TypeInv' /\ Alone(c) /\ cl'[c] = y
  BY <1>2, TypeOfOne DEF Say, runVars, IInv
<1>4. Tallied(c)
  <2>1. SettlingTally(c)
    BY <1>1, <1>3, Before, QuietTally DEF Say, PlaceOK, Count, runVars
  <2>2. DialTally(c)
    BY <1>1, <1>3, Before, QuietTally DEF Say, PlaceOK, Count, runVars, WasRejected, Snapshots
  <2>3. HeardTally(c)
    BY <1>1, <1>3, Before, QuietTally DEF Say, PlaceOK, Count, runVars, Snapshots
  <2>4. LostTally(c)
    BY <1>1, <1>3, Before, QuietTally DEF Say, PlaceOK, Count, runVars, LostReading,
      LostSettling, Snapshots
  <2>5. FailTally(c)
    BY <1>1, <1>3, Before, QuietTally DEF Say, PlaceOK, Count, runVars, GaveUp, Snapshots
  <2> QED BY <2>1, <2>2, <2>3, <2>4, <2>5 DEF Tallied
<1>5. ClientOK(c)'
  <2>1. PlaceOK(c)'
    BY <1>1, <1>3, Before DEF Say, PlaceOK, Early, Late, runVars
  <2>2. StartOK(c)'
    BY <1>1, <1>3, Before DEF Say, StartOK, PlaceOK, Early, Late, runVars
  <2>3. FaultOK(c)'
    BY <1>1, <1>3, Before DEF Say, FaultOK, StartOK, PlaceOK, Live, runVars
  <2> QED BY <2>1, <2>2, <2>3 DEF ClientOK
<1> QED BY <1>1, <1>3, <1>4, <1>5, Before, StepOfOne DEF Say, PlaceOK, runVars

\* A message received that took d.
Hears(c, d) ==
  /\ cl[c].reader = "read" /\ cl[c].sock # "shut" /\ cl[c].lat.count < MaxMsgs
  /\ cl' = [cl EXCEPT ![c].lat = Record(@, d)]
  /\ Count("received", 1)
  /\ UNCHANGED runVars

\* A message received is counted, and so is its latency.
LEMMA HearsStep ==
  ASSUME IInv, NEW c \in Clients, NEW d \in Latencies, Hears(c, d)
  PROVE  IInv'
<1> DEFINE x == cl[c]
           y == [cl[c] EXCEPT !.lat = Record(@, d)]
<1>1. /\ y.at = x.at /\ y.reader = x.reader /\ y.dead = x.dead /\ y.sock = x.sock
      /\ y.joins = x.joins /\ y.told = x.told /\ y.asked = x.asked /\ y.lat = Record(x.lat, d)
      /\ y.settled = x.settled /\ y.fault = x.fault
  BY Before DEF Connections
<1>2. /\ y \in Connections /\ Len(y.joins) <= JoinBuffer /\ cl' = [cl EXCEPT ![c] = y]
      /\ st' \in Snapshots /\ settling' \in Int
  <2>1. y \in Connections /\ Len(y.joins) <= JoinBuffer
    <3>1. d \in Nat
      BY LoadGenAssumption
    <3>2. Record(x.lat, d) \in Histograms
      BY <3>1, Before, RecordType
    <3> QED BY <3>2, Before DEF Connections
  <2>2. cl' = [cl EXCEPT ![c] = y]
    BY Before DEF Hears, Connections
  <2>3. st' \in Snapshots
    BY Before DEF Hears, Count, Snapshots, If, runVars
  <2>4. settling' \in Int
    BY Before DEF Hears, If, runVars
  <2> QED BY <2>1, <2>2, <2>3, <2>4
<1> HIDE DEF y
<1>3. TypeInv' /\ Alone(c) /\ cl'[c] = y
  BY <1>2, TypeOfOne DEF Hears, runVars, IInv
<1>4. Tallied(c)
  <2>1. SettlingTally(c)
    BY <1>1, <1>3, Before, QuietTally DEF Hears, PlaceOK, Count, runVars
  <2>2. DialTally(c)
    BY <1>1, <1>3, Before, QuietTally DEF Hears, PlaceOK, Count, runVars, WasRejected, Snapshots
  <2>3. HeardTally(c)
    <3>1. d \in Nat
      BY LoadGenAssumption
    <3>2. Record(x.lat, d).count = x.lat.count + 1
      BY <3>1, Before, RecordType
    <3>3. /\ st'.received = st.received + 1 /\ st'.latency = st.latency /\ st.received \in Nat
          /\ st'.untimed = st.untimed /\ st.untimed \in Nat
      BY Before DEF Hears, Count, Snapshots
    <3>4. cl'[c].lat.count = x.lat.count + 1 /\ st'.latency.count = st.latency.count
      BY <1>1, <1>3, <3>2, <3>3
    <3>5. st.latency.count \in Nat /\ x.lat.count \in Nat
      BY Before
    <3> HIDE DEF x
    <3> QED BY <3>3, <3>4, <3>5 DEF HeardTally, x
  <2>4. LostTally(c)
    BY <1>1, <1>3, Before, QuietTally DEF Hears, PlaceOK, Count, runVars, LostReading,
      LostSettling, Snapshots
  <2>5. FailTally(c)
    BY <1>1, <1>3, Before, QuietTally DEF Hears, PlaceOK, Count, runVars, GaveUp, Snapshots
  <2> QED BY <2>1, <2>2, <2>3, <2>4, <2>5 DEF Tallied
<1>5. ClientOK(c)'
  <2>1. PlaceOK(c)'
    <3>1. d \in Nat
      BY LoadGenAssumption
    <3>2. Record(x.lat, d).count = x.lat.count + 1
      BY <3>1, Before, RecordType
    <3>3. Record(x.lat, d).count <= MaxMsgs
      BY <3>2, Before, LoadGenAssumption DEF Hears
    <3> QED BY <1>1, <1>3, <3>2, <3>3, Before DEF Hears, PlaceOK, Early, Late, runVars
  <2>2. StartOK(c)'
    BY <1>1, <1>3, Before DEF Hears, StartOK, PlaceOK, Early, Late, runVars
  <2>3. FaultOK(c)'
    BY <1>1, <1>3, Before DEF Hears, FaultOK, StartOK, PlaceOK, Live, runVars
  <2> QED BY <2>1, <2>2, <2>3 DEF ClientOK
<1> QED BY <1>1, <1>3, <1>4, <1>5, Before, StepOfOne DEF Hears, PlaceOK, runVars

\* A message received without a timestamp is counted as one.
LEMMA UntimedStep ==
  ASSUME IInv, NEW c \in Clients, UNCHANGED <<runVars, cl>>, cl[c].at # "gone" \/ st' = st,
         st' = [st EXCEPT !.received = @ + 1, !.untimed = @ + 1]
  PROVE  IInv'
<1>1. cl' = [cl EXCEPT ![c] = cl[c]] /\ cl[c] \in Connections /\ Len(cl[c].joins) <= JoinBuffer
  BY Before
<1>2. /\ st' \in Snapshots /\ st.received \in Nat /\ st.untimed \in Nat
      /\ st'.received = st.received + 1 /\ st'.untimed = st.untimed + 1
      /\ st'.latency = st.latency /\ st'.dialed = st.dialed /\ st'.dialFailed = st.dialFailed
      /\ st'.lost = st.lost /\ st'.sendFailed = st.sendFailed
  <2>1. st \in Snapshots
    BY Before
  <2>2. st.received + 1 \in Nat /\ st.untimed + 1 \in Nat
    BY <2>1 DEF Snapshots
  <2>3. st' \in Snapshots
    BY <2>1, <2>2 DEF Snapshots
  <2> QED BY <2>1, <2>3 DEF Snapshots
<1>3. TypeInv' /\ Alone(c) /\ cl'[c] = cl[c] /\ settling' = settling
  BY <1>1, <1>2, Before, TypeOfOne DEF runVars, IInv
<1>4. Tallied(c)
  <2>1. HeardTally(c)
    BY <1>2, <1>3, Before DEF HeardTally
  <2>2. SettlingTally(c) /\ DialTally(c) /\ LostTally(c) /\ FailTally(c)
    BY <1>2, <1>3, QuietTally
  <2> QED BY <2>1, <2>2 DEF Tallied
<1>5. ClientOK(c)'
  BY <1>3, Before DEF runVars, ClientOK, PlaceOK, StartOK, FaultOK, Live
<1> QED BY <1>3, <1>4, <1>5, StepOfOne DEF runVars

-----------------------------------------------------------------------------
(* The steps of Run, and all of them *)

\* A step of Run that leaves clients and counters alone.
LEMMA RunStep ==
  ASSUME IInv, TypeInv', UNCHANGED <<settling, spawned, cl, st>>, stopped => stopped',
         start' => start \/ settling = 0, start => start', ReportInv'
  PROVE  IInv'
<1>1. settling = 0 => \A c \in Clients : cl[c].settled
  <2>1. IsFiniteSet(Unsettled)
    BY ClientsCounted, FS_Subset DEF Unsettled
  <2>2. settling = 0 => Unsettled = {}
    BY <2>1, FS_EmptySet DEF IInv, CountInv
  <2> QED BY <2>2 DEF Unsettled
<1>2. PlaceInv'
  BY DEF IInv, PlaceInv, PlaceOK
<1>3. StartInv'
  BY <1>1 DEF IInv, StartInv, StartOK
<1>4. FaultInv'
  BY DEF IInv, FaultInv, FaultOK, Live, TypeInv
<1>5. CountInv'
  BY DEF IInv, CountInv, Unsettled, Connected, Rejected, Heard, LostByReader, LostBySettle,
    GivenUp
<1> QED BY <1>2, <1>3, <1>4, <1>5 DEF IInv

\* The dialer starts the next connection.
LEMMA SpawnStep == ASSUME IInv, NEW c \in Clients, c = spawned, Spawn PROVE IInv'
<1> DEFINE x == cl[c]
           y == [x EXCEPT !.at = "dial"]
<1>1. c \in Nat /\ spawned' = c + 1 /\ c + 1 \in 0 .. Conns
  BY LoadGenAssumption DEF Spawn, IInv, TypeInv, Clients
<1>2. /\ x \in Connections /\ PlaceOK(c) /\ StartOK(c) /\ FaultOK(c)
      /\ x.at = "none" /\ x.reader = "none" /\ ~x.settled
  <2>1. x \in Connections /\ PlaceOK(c) /\ StartOK(c) /\ FaultOK(c)
    BY Before
  <2>2. x.at = "none"
    BY <1>1, <2>1 DEF PlaceOK
  <2> QED BY <2>1, <2>2 DEF PlaceOK, Early
<1>3. /\ y.at = "dial" /\ y.reader = x.reader /\ y.dead = x.dead /\ y.sock = x.sock
      /\ y.joins = x.joins /\ y.lat = x.lat /\ y.settled = x.settled /\ y.fault = x.fault
      /\ y \in Connections
  BY <1>2 DEF Connections, Places
<1>4. /\ cl' = [cl EXCEPT ![c] = y] /\ cl' \in [Clients -> Connections] /\ cl'[c] = y
      /\ Alone(c)
  <2>1. cl' = [cl EXCEPT ![c] = y]
    BY <1>1, <1>2 DEF Spawn, IInv, TypeInv, Connections
  <2> HIDE DEF y
  <2> QED BY <1>1, <1>3, <2>1 DEF IInv, TypeInv, Alone
<1> HIDE DEF y
<1>5. TypeInv'
  <2>1. \A d \in Clients : Len(cl'[d].joins) <= JoinBuffer
    BY <1>3, <1>4 DEF IInv, TypeInv, Alone
  <2> QED BY <1>1, <1>4, <2>1 DEF Spawn, IInv, TypeInv
<1>6. PlaceInv'
  <2>1. ASSUME NEW d \in Clients, d # c PROVE PlaceOK(d)'
    <3>1. cl'[d] = cl[d] /\ (d >= spawned' <=> d >= spawned)
      BY <1>1, <2>1, <1>4, LoadGenAssumption DEF Alone, Clients
    <3> QED BY <3>1 DEF IInv, PlaceInv, PlaceOK
  <2>2. PlaceOK(c)'
    BY <1>1, <1>2, <1>3, <1>4 DEF PlaceOK, Early, Late
  <2> QED BY <2>1, <2>2 DEF PlaceInv
<1>7. StartInv'
  <2>1. ASSUME NEW d \in Clients PROVE StartOK(d)'
    BY <1>2, <1>3, <1>4 DEF Spawn, IInv, StartInv, StartOK, Alone
  <2> QED BY <2>1 DEF StartInv
<1>8. FaultInv'
  <2>1. ASSUME NEW d \in Clients PROVE FaultOK(d)'
    BY <1>2, <1>3, <1>4 DEF Spawn, IInv, FaultInv, FaultOK, Live, Alone
  <2> QED BY <2>1 DEF FaultInv
<1>9. ReportInv'
  BY <1>2 DEF Spawn, IInv, ReportInv
<1>10. CountInv'
  <2>1. /\ SettlingTally(c) /\ DialTally(c) /\ HeardTally(c) /\ LostTally(c) /\ FailTally(c)
    BY <1>2, <1>3, <1>4, <1>5, QuietTally
      DEF Spawn, WasRejected, LostReading, LostSettling, GaveUp
  <2>2. cl'[c].lat.count <= MaxMsgs
    BY <1>2, <1>3, <1>4 DEF PlaceOK
  <2> QED BY <1>4, <1>5, <2>1, <2>2, CountStep DEF IInv, Tallied
<1> QED BY <1>5, <1>6, <1>7, <1>8, <1>9, <1>10 DEF IInv

\* A run starts with everything at its beginning.
LEMMA InitInv == Init => IInv
<1> SUFFICES ASSUME Init PROVE IInv
  OBVIOUS
<1>1. /\ EmptyHistogram \in Histograms /\ EmptyHistogram.count = 0
      /\ Conns \in Nat /\ Conns > 0 /\ MaxMsgs \in Nat /\ JoinBuffer \in Nat
  BY EmptyType, LoadGenAssumption
<1>2. /\ Fresh \in Connections /\ Len(Fresh.joins) = 0 /\ Fresh.at = "none" /\ ~Fresh.settled
      /\ Fresh.reader = "none" /\ Fresh.sock = "none" /\ Fresh.lat.count = 0 /\ ~Fresh.fault
  <2>1. << >> \in Seq({"auto", "own"}) /\ Len(<< >>) = 0
    OBVIOUS
  <2> QED BY <1>1, <2>1 DEF Fresh, Connections, Places
<1>3. /\ NoStats \in Snapshots /\ NoStats.dialed = 0 /\ NoStats.dialFailed = 0
      /\ NoStats.received = 0 /\ NoStats.lost = 0 /\ NoStats.sendFailed = 0
      /\ NoStats.latency.count = 0 /\ NoStats.untimed = 0
  BY <1>1 DEF NoStats, Snapshots
<1>4. \A c \in Clients : cl[c] = Fresh
  BY DEF Init
<1>5. TypeInv
  <2>1. cl \in [Clients -> Connections]
    BY <1>2 DEF Init
  <2>2. \A c \in Clients : Len(cl[c].joins) <= JoinBuffer
    BY <1>1, <1>2, <1>4
  <2>3. /\ run \in {"barrier", "timing", "waiting", "reported"}
        /\ stopped \in BOOLEAN /\ start \in BOOLEAN
    BY DEF Init
  <2>4. settling \in Int /\ spawned \in 0 .. Conns
    BY <1>1 DEF Init
  <2>5. st \in Snapshots /\ result \in Snapshots
    BY <1>3 DEF Init
  <2> QED BY <2>1, <2>2, <2>3, <2>4, <2>5 DEF TypeInv
<1>6. PlaceInv
  BY <1>1, <1>2, <1>4 DEF Init, PlaceInv, PlaceOK, Early, Late, Clients
<1>7. StartInv /\ FaultInv /\ ReportInv
  BY <1>2, <1>4 DEF Init, StartInv, StartOK, FaultInv, FaultOK, ReportInv
<1>8. CountInv
  <2>1. /\ Unsettled = Clients /\ Connected = {} /\ Rejected = {}
        /\ LostByReader = {} /\ LostBySettle = {} /\ GivenUp = {}
    BY <1>2, <1>4 DEF Unsettled, Connected, Rejected, LostByReader, LostBySettle, GivenUp
  <2>2. Heard = {}
    BY <1>1, <1>2, <1>4 DEF Heard
  <2>3. Cardinality({}) = 0
    BY FS_EmptySet
  <2> QED BY <1>3, <2>1, <2>2, <2>3, ClientsCounted DEF Init, CountInv
<1> QED BY <1>5, <1>6, <1>7, <1>8 DEF IInv

\* Every step keeps all of it.
LEMMA NextInv == IInv /\ [Next]_vars => IInv'
<1> SUFFICES ASSUME IInv, [Next]_vars PROVE IInv'
  OBVIOUS
<1>1. ASSUME NEW c \in Clients, ClientStep(c) PROVE IInv'
  <2>1. CASE TakeJoin(c) \/ SettleSend(c) \/ SettleTimeout(c) \/ NeverJoined(c)
    BY <2>1, TakeJoinStep, SettleSendStep, SettleTimeoutStep, NeverJoinedStep
  <2>2. CASE Settled(c, "joined", "ready") \/ Settled(c, "end", "gone")
    BY <2>2, ReadyStep, GoneStep
  <2>3. CASE AwaitStart(c)
    BY <2>3, MaySpeakStep, NoStartStep DEF AwaitStart
  <2>4. CASE SendFails(c) \/ SpeakEnds(c) \/ Close(c)
    BY <2>4, SendFailsStep, SpeakEndsStep, CloseStep
  <2>5. CASE Dead(c) \/ MergeLatency(c)
    BY <2>5, DeadStep, MergeLatencyStep
  <2> QED BY <1>1, <2>1, <2>2, <2>3, <2>4, <2>5 DEF ClientStep
<1>2. ASSUME NEW c \in Clients, Dialled(c) \/ Refused(c) \/ Say(c) PROVE IInv'
  BY <1>2, DialledStep, RefusedStep, SayStep
<1>3. ASSUME NEW c \in Clients, ReaderStep(c) PROVE IInv'
  BY <1>3, ReadFailsStep, ReaderEndsStep DEF ReaderStep
<1>4. ASSUME NEW c \in Clients, ReadMsg(c) PROVE IInv'
  <2>1. CASE \E d \in Latencies : Hears(c, d)
    BY <2>1, HearsStep
  <2>2. CASE /\ st' = [st EXCEPT !.received = @ + 1, !.untimed = @ + 1]
             /\ UNCHANGED <<runVars, cl>>
    <3>1. cl[c].at # "gone"
      BY <1>4, Before DEF ReadMsg, PlaceOK
    <3> QED BY <2>2, <3>1, UntimedStep
  <2> QED BY <1>4, <2>1, <2>2 DEF ReadMsg, Hears
<1>5. ASSUME NEW c \in Clients, ReadJoin(c) \/ Drop(c) PROVE IInv'
  BY <1>5, ReadJoinStep, DropStep
<1>6. CASE Spawn
  <2>1. spawned \in Clients
    BY <1>6, LoadGenAssumption DEF Spawn, IInv, TypeInv, Clients
  <2>2. PICK c \in Clients : c = spawned
    BY <2>1
  <2> QED BY <1>6, <2>2, SpawnStep
<1>7. CASE Barrier
  BY <1>7, RunStep DEF Barrier, IInv, TypeInv, ReportInv
<1>8. CASE Begin \/ TimeUp \/ Interrupt
  <2>1. /\ UNCHANGED <<settling, start, spawned, cl, st, result>> /\ stopped' \in BOOLEAN
        /\ stopped => stopped'
        /\ run' \in {"barrier", "timing", "waiting"}
    BY <1>8 DEF Begin, TimeUp, Interrupt, IInv, TypeInv
  <2>2. TypeInv' /\ ReportInv'
    BY <2>1 DEF IInv, TypeInv, ReportInv
  <2> QED BY <2>1, <2>2, RunStep
<1>9. CASE Report
  BY <1>9, RunStep DEF Report, IInv, TypeInv, ReportInv
<1>10. CASE UNCHANGED vars
  BY <1>10, RunStep DEF vars, runVars, IInv, TypeInv, ReportInv
<1> QED BY <1>1, <1>2, <1>3, <1>4, <1>5, <1>6, <1>7, <1>8, <1>9, <1>10 DEF Next

\* All of it holds throughout.
LEMMA Throughout == Spec => []IInv
BY InitInv, NextInv, PTL DEF Spec

-----------------------------------------------------------------------------
(* What follows *)

\* Every variable keeps its type, the WaitGroup never goes below zero, and no reader
\* waits for room in a client's joins (loadgen.go:243, 446-453).
THEOREM TypeCorrect == Spec => []TypeOK
<1>1. IInv => TypeOK
  <2> SUFFICES ASSUME IInv PROVE TypeOK
    OBVIOUS
  <2>1. Unsettled \subseteq Clients
    BY DEF Unsettled
  <2>2. Cardinality(Unsettled) \in Nat /\ Cardinality(Unsettled) <= Conns
    BY <2>1, ClientsCounted, FS_Subset, FS_CardinalityType
  <2>3. settling \in 0 .. Conns
    BY <2>2, LoadGenAssumption DEF IInv, CountInv
  <2> QED BY <2>3 DEF IInv, TypeInv, TypeOK
<1> QED BY <1>1, Throughout, PTL

\* Whatever connections the server refuses, loses or never answers, nobody talks before
\* everybody is in its room or gone (loadgen.go:133, 243).
THEOREM BarrierHolds == Spec => []NobodySpeaksEarly
<1>1. IInv => NobodySpeaksEarly
  <2> SUFFICES ASSUME IInv, start \/ \E c \in Clients : cl[c].at = "speak", NEW c \in Clients
               PROVE  cl[c].at \in {"ready", "speak", "close", "leave", "merge", "end", "gone"}
    BY DEF NobodySpeaksEarly
  <2>1. start
    BY DEF IInv, StartInv, StartOK
  <2>2. cl[c].settled
    BY <2>1 DEF IInv, StartInv, StartOK
  <2>3. cl[c].at \in Places \ Early
    BY <2>2, Before DEF PlaceOK, Connections
  <2> QED BY <2>3 DEF Places, Early
<1> QED BY <1>1, Throughout, PTL

\* A report counts every connection once, and every message received with its latency, or
\* as one without a timestamp (loadgen.go:195-197, 263, 440-443).
THEOREM ReportIsWhole == Spec => []SnapshotComplete
<1>1. IInv => SnapshotComplete
  <2> SUFFICES ASSUME IInv, run = "reported"
               PROVE  /\ result = st /\ st.dialed + st.dialFailed = Conns
                      /\ st.latency.count + st.untimed = st.received
    BY DEF SnapshotComplete
  <2>1. result = st /\ \A c \in Clients : cl[c].at = "gone"
    BY DEF IInv, ReportInv
  <2>2. Cardinality(Connected) + Cardinality(Rejected) = Conns
    <3>1. Connected \cup Rejected = Clients /\ Connected \cap Rejected = {}
      BY <2>1 DEF Connected, Rejected
    <3>2. IsFiniteSet(Connected) /\ IsFiniteSet(Rejected)
      BY ClientsCounted, FS_Subset DEF Connected, Rejected
    <3>3. Cardinality(Clients) = Cardinality(Connected) + Cardinality(Rejected) - Cardinality({})
      BY <3>1, <3>2, FS_Union
    <3>4. Cardinality(Connected) \in Nat /\ Cardinality(Rejected) \in Nat
      BY <3>2, FS_CardinalityType
    <3> QED BY <3>3, <3>4, FS_EmptySet, ClientsCounted
  <2>3. Heard = {}
    <3>1. \A c \in Clients : cl[c].lat.count = 0
      BY <2>1, Before DEF PlaceOK
    <3> QED BY <3>1, LoadGenAssumption DEF Heard
  <2>4. st.latency.count \in Nat /\ st.untimed \in Nat
    BY HistogramHas DEF IInv, TypeInv, Snapshots
  <2> QED BY <2>1, <2>2, <2>3, <2>4, FS_EmptySet DEF IInv, CountInv
<1> QED BY <1>1, Throughout, PTL

\* However a run ends, what it counts as lost, or as not sent, was the server's or the
\* network's doing (loadgen.go:318, 431, 476-497).
THEOREM NoFalseLosses == Spec => []LossesAreFaults
<1>1. IInv => LossesAreFaults
  <2> SUFFICES ASSUME IInv PROVE LossesAreFaults
    OBVIOUS
  <2>1. /\ LostByReader \subseteq Faulty /\ LostBySettle \subseteq Faulty
        /\ GivenUp \subseteq Faulty
        /\ Faulty \subseteq Clients
    BY DEF LostByReader, LostBySettle, GivenUp, Faulty
  <2>2. IsFiniteSet(Faulty)
    BY <2>1, ClientsCounted, FS_Subset
  <2>3. /\ Cardinality(LostByReader) <= Cardinality(Faulty)
        /\ Cardinality(LostBySettle) <= Cardinality(Faulty)
        /\ Cardinality(GivenUp) <= Cardinality(Faulty)
        /\ IsFiniteSet(LostByReader) /\ IsFiniteSet(LostBySettle) /\ IsFiniteSet(GivenUp)
    BY <2>1, <2>2, FS_Subset
  <2>4. /\ Cardinality(Faulty) \in Nat /\ Cardinality(LostByReader) \in Nat
        /\ Cardinality(LostBySettle) \in Nat /\ Cardinality(GivenUp) \in Nat
        /\ st.lost \in Nat /\ st.sendFailed \in Nat
    BY <2>2, <2>3, FS_CardinalityType DEF IInv, TypeInv, Snapshots
  <2> QED BY <2>3, <2>4 DEF IInv, CountInv, LossesAreFaults
<1> QED BY <1>1, Throughout, PTL
=============================================================================
