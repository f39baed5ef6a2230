------------------------------- MODULE Store --------------------------------
(***************************************************************************)
(* internal/moderation: who is muted, or banned, where and until when.     *)
(* The Store has two such maps, treated alike.  A map is a total function  *)
(* here, Absent where Go's has no entry.  Each operator is one of the      *)
(* methods, which hold the lock from end to end; time is a natural number. *)
(***************************************************************************)
EXTENDS Integers

CONSTANTS
  Scopes,   \* channel names a moderator may use, and Global
  Global,   \* the empty scope: server-wide
  Keys      \* hook.Identity.Key of the people there are

ASSUME StoreAssumption == Global \in Scopes

Entries == Scopes \X Keys
Forever == 0    \* the zero time.Time
Absent  == -1
Maps    == [Entries -> Nat \cup {Absent}]
Empty   == [e \in Entries |-> Absent]

\* Both Mute and Ban; both Unmute and Unban, which lift this scope's entry only.
Set(m, e, until) == [m EXCEPT ![e] = until]
Clear(m, e)      == [m EXCEPT ![e] = Absent]

\* An entry nobody may look past: there, and not expired.
Stands(until, now) == until # Absent /\ (until = Forever \/ now < until)

\* Muted and Banned: this scope's entry, then the global one behind it.  Nothing is set
\* while the lock is held, so that the clock is read twice makes no difference.
Active(m, scope, key, now) == \E s \in {scope, Global} : Stands(m[s, key], now)

\* Sweep, with the clock it read before it had the lock.
Swept(m, now) == [e \in Entries |-> IF Stands(m[e], now) THEN m[e] ELSE Absent]

\* Counts, for one of the maps: entries that expired and were not swept included.
Count(m) == {e \in Entries : m[e] # Absent}
=============================================================================
