---------------------------- MODULE MCMembership ----------------------------
(* Small instances of Membership: two connections, two moderators' calls. *)
EXTENDS Membership, TLC

CONSTANTS c1, c2, alice, bob, main, side

TwoPeople == c1 :> alice @@ c2 :> bob
OnePerson == c1 :> alice @@ c2 :> alice

Peace == [nick |-> TwoPeople, conns |-> {c1, c2}, fragile |-> {}, calls |-> 0, verbs |-> {},
          scopes |-> {}, channels |-> {main}, autojoins |-> {}, directory |-> FALSE, expires |-> FALSE,
          garbled |-> {}]

\* One person and two calls that ban them, from a room or from everywhere; bans run out.
Banned1 == [Peace EXCEPT !.conns = {c1}, !.fragile = {c1}, !.calls = 2, !.verbs = {"ban"},
                         !.scopes = {main, Global}, !.expires = TRUE]

\* One person, put into the room at once, and a server-wide ban.
BannedEverywhere == [Banned1 EXCEPT !.calls = 1, !.verbs = {"ban", "unban"},
                                      !.scopes = {Global}, !.autojoins = {main}]

\* Two people in a room, one of whom is banned from it for good.
Roster == [Peace EXCEPT !.calls = 1, !.verbs = {"ban"}, !.scopes = {main}]

\* The same two, one of whom has a nick that a codec cannot encode; and one of
\* whom has something that only a JOIN says, which a codec cannot.
Muffled == [Roster EXCEPT !.garbled = {alice}]
Unheard == [Roster EXCEPT !.garbled = {c1}]

\* A server-wide ban whose reason cannot be encoded.
Inexplicable == [BannedEverywhere EXCEPT !.garbled = Mods, !.expires = FALSE]

\* One person who reconnects while the old connection is torn down.
Reconnect == [Peace EXCEPT !.nick = OnePerson, !.fragile = {c1}]

\* Two people and more channels than there is room for.
Crowded == [Peace EXCEPT !.channels = {main, side}]

SafetySettings == {Banned1, BannedEverywhere, Inexplicable, Roster, Muffled, Unheard, Reconnect, Crowded}

\* A person on two connections is enough to see a room swept under one of them.
SweepSettings == {Reconnect}

\* One person in two rooms and one call, whose nick the Directory may resolve.
Served == [Peace EXCEPT !.conns = {c1}, !.fragile = {c1}, !.calls = 1, !.verbs = {"ban", "unban"},
                        !.scopes = {main, Global}, !.channels = {main, side}, !.autojoins = {main},
                        !.expires = TRUE, !.directory = TRUE]

\* In one of the two rooms nothing can be announced.
LiveSettings == {Served, [Served EXCEPT !.garbled = {main}]}

\* Calls are interchangeable, and so are the two people with their connections.
Symmetry == Permutations(Mods) \cup {c1 :> c2 @@ c2 :> c1 @@ alice :> bob @@ bob :> alice}
=============================================================================
