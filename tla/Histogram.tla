------------------------------ MODULE Histogram -----------------------------
(***************************************************************************)
(* The load generator's latency histogram (internal/loadgen/hist.go):      *)
(* 2^SubBits buckets an octave, one histogram per connection, merged at    *)
(* the end.  Pure functions, with what they promise of a quantile.         *)
(***************************************************************************)
EXTENDS Integers, Sequences, FiniteSets, FiniteSetsExt, SequencesExt

CONSTANTS
  SubBits, Octaves,   \* the code's 3 and 32
  Samples,            \* latencies to check the histogram with, in microseconds
  MaxSamples,         \* how many at a time
  Quantiles           \* pairs: <<999, 1000>> is p99.9

ASSUME HistogramAssumption ==
  /\ SubBits \in Nat /\ Octaves \in Nat /\ SubBits < Octaves
  /\ Samples \subseteq Nat /\ MaxSamples \in Nat
  /\ Quantiles \subseteq Nat \X (Nat \ {0}) /\ \A q \in Quantiles : q[1] <= q[2]

\* 1 << k.
Pow2[k \in 0 .. Octaves] == IF k = 0 THEN 1 ELSE 2 * Pow2[k - 1]

SubCount   == Pow2[SubBits]
NumBuckets == (Octaves - SubBits + 1) * SubCount
Buckets    == 0 .. NumBuckets - 1

\* bits.Len64 less one, as far as Octaves.
Octave(us) == Max({k \in 0 .. Octaves : Pow2[k] <= us})

bucketOfUnsafe(us) ==
  IF us < SubCount THEN us
  ELSE LET oct == Octave(us) IN
       IF oct >= Octaves THEN NumBuckets - 1
       ELSE (oct - SubBits) * SubCount + ((us \div Pow2[oct - SubBits]) % SubCount)

\* The octave by the leading bit, the slot by the SubBits after it; small values are
\* their own bucket, and what is beyond the last octave is in the last bucket.
bucketOf(us) ==
  IF us < SubCount THEN us
  ELSE LET oct == Octave(us) IN
       IF oct >= Octaves THEN NumBuckets - 1
       ELSE (oct - SubBits + 1) * SubCount + ((us \div Pow2[oct - SubBits]) % SubCount)

bucketMax(i) ==
  IF i < SubCount THEN i
  ELSE LET shift == (i \div SubCount) - 1
       IN (SubCount + (i % SubCount)) * Pow2[shift] + Pow2[shift] - 1

EmptyHistogram == [buckets |-> [i \in Buckets |-> 0], count |-> 0, max |-> 0]

Record(h, us) == [buckets |-> [h.buckets EXCEPT ![bucketOf(us)] = @ + 1],
                  count   |-> h.count + 1,
                  max     |-> Max({h.max, us})]

Merge(h, o) == [buckets |-> [i \in Buckets |-> h.buckets[i] + o.buckets[i]],
                count   |-> h.count + o.count,
                max     |-> Max({h.max, o.max})]

\* ceil(q * count), and one at least.
Want(q, count) == Max({1, (q[1] * count + q[2] - 1) \div q[2]})

\* The samples seen by the time the loop has added each bucket.
Seen(h) ==
  LET seen[i \in Buckets] == IF i = 0 THEN h.buckets[0] ELSE seen[i - 1] + h.buckets[i]
  IN seen

Quantile(h, q) ==
  LET enough == {i \in Buckets : Seen(h)[i] >= Want(q, h.count)}
  IN IF h.count = 0 THEN 0
     ELSE IF enough = {} THEN h.max
     ELSE Min({bucketMax(Min(enough)), h.max})

-----------------------------------------------------------------------------
(* Properties *)

\* A histogram after each of the samples, and after all.
After(s) ==
  LET after[i \in 0 .. Len(s)] ==
        IF i = 0 THEN EmptyHistogram ELSE Record(after[i - 1], s[i])
  IN after

Recorded(s) == After(s)[Len(s)]

\* The sample a quantile stands for: the least that enough of them do not exceed.
Exact(s, q) ==
  Min({x \in ToSet(s) : Cardinality({i \in DOMAIN s : s[i] <= x}) >= Want(q, Len(s))})

\* A quantile, of samples in one histogram or merged from two, is an upper bound on
\* the sample it stands for, is within an eighth of it, and no more than the worst
\* one; beyond the last octave, 71 minutes in the code, only the last is so
\* (hist.go:14-19, 63).
QuantileBounds ==
  \A s \in BoundedSeq(Samples, MaxSamples) \ {<< >>}, q \in Quantiles :
    LET h      == Recorded(s)
        halves == Len(s) \div 2
        got    == Quantile(h, q)
    IN /\ Merge(Recorded(SubSeq(s, 1, halves)), Recorded(SubSeq(s, halves + 1, Len(s)))) = h
       /\ got <= Max(ToSet(s))
       /\ Exact(s, q) < Pow2[Octaves] =>
            Exact(s, q) <= got /\ SubCount * (got - Exact(s, q)) <= Exact(s, q)
=============================================================================
