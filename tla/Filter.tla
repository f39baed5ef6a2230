------------------------------- MODULE Filter -------------------------------
(***************************************************************************)
(* The message filters (internal/filter, and the chain newAppWithConfig    *)
(* makes of them).  A text is a sequence of what the filters tell apart: a *)
(* letter, a combining mark, or bytes that are not UTF-8, which ranging    *)
(* over the string turns into a letter.  A filter's answer is its reason,  *)
(* or Allowed.                                                             *)
(***************************************************************************)
EXTENDS Integers, Sequences, SequencesExt

CONSTANTS
  MaxDiacritics,  \* cfg.MaxDiacritics; below 1 anything goes
  MaxText         \* texts to check the filters with

ASSUME FilterAssumption == MaxDiacritics \in Int /\ MaxText \in Nat

Runes   == {"letter", "mark", "bad"}
Texts   == BoundedSeq(Runes, MaxText)
Allowed == ""

UTF8(t) == IF Contains(t, "bad") THEN "invalidutf8" ELSE Allowed

CountUnsafe(run, r) == IF r = "mark" THEN run + 1 ELSE run

\* The length of the run of marks, left alone once it is too long.
Count(run, r) ==
  IF run > MaxDiacritics THEN run
  ELSE IF r = "mark" THEN run + 1 ELSE 0

\* That after each rune.
Runs(t) ==
  LET run[i \in 0 .. Len(t)] == IF i = 0 THEN 0 ELSE Count(run[i - 1], t[i])
  IN run

Zalgo(t) ==
  IF MaxDiacritics >= 1 /\ Runs(t)[Len(t)] > MaxDiacritics THEN "zalgo" ELSE Allowed

\* Hygiene before policy: hook is what the application's own filter would answer,
\* Allowed if it has none, and the first to refuse gives the reason.
Chain(t, hook) ==
  LET answers == <<UTF8(t), Zalgo(t), hook>>
      refused == {i \in 1 .. 3 : answers[i] # Allowed}
  IN IF refused = {} THEN Allowed ELSE answers[Min(refused)]

-----------------------------------------------------------------------------
(* Properties *)

\* A text that is not valid is refused as such whatever else is wrong with it; one
\* that stacks more marks than MaxDiacritics somewhere is refused as zalgo, and one
\* with as many marks, or more in several places, is not; the hook decides the rest
\* (filter.go:53-74, init.go:101).
FilterAgrees ==
  \A t \in Texts, hook \in {Allowed, "policy"} :
    LET stacked(i) == \A k \in i .. i + MaxDiacritics : t[k] = "mark"
        reference ==
          IF \E i \in DOMAIN t : t[i] = "bad" THEN "invalidutf8"
          ELSE IF MaxDiacritics >= 1 /\ \E i \in 1 .. Len(t) - MaxDiacritics : stacked(i) THEN "zalgo"
          ELSE hook
    IN Chain(t, hook) = reference
=============================================================================
