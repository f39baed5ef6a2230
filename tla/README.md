# ws-chat in TLA+

A specification of the chat server in this repository: TLA+ modules for the
parts where goroutines meet, small instances that TLC checks exhaustively, and
proofs, for instances of every size, of every safety property and action property the
runs check. Every definition is read off the Go code; comments in the modules and the
`map` of `PROJECT.json` give the lines.

Running it, in this directory:

    tlc -workers 2 -config SeqRing.cfg MCSeqRing    # a run: any cfg with its MC module
    tlapm SeqRingProofs.tla                         # a module of proofs

## 1. Inventory

One process. `net/http` gives every client a goroutine in `handleWS`; it
authenticates, registers, and serves the connection. What shares state:

| Part | Code | State | Operations | What must hold |
|---|---|---|---|---|
| Broadcaster (three of them) | `internal/broadcast` | a ring of slots, atomics `begin`/`published`/`closed`/`waiters`/`notify`; or one Go channel per subscriber | Broadcast, Close, Subscribe, Recv, Sub.Close | no torn, skipped or foreign message in a batch; only a subscriber too far behind is dropped; no lost wakeup; counters right; no send to a closed channel |
| Channels, memberships | `channel.go`, `membership.go`, `init.go` | `app.channels`, `channel.members` by nick, `conn.memberships`, `app.conns` by nick | join, part, leaveAll, channelPump, sweepChannels, register, unregister | each membership is torn down once and in full; limits; the roster that JOIN/PART/NAMES describe is the real one; no wait for ever |
| Moderation | `moderation.go`, `internal/moderation` | mutes and bans by scope and key, with expiry | mute, unmute, ban, unban, enforceBan, Muted, Banned, Sweep | nobody stays where they are banned, a join in flight included; a mute is late by one message at most |
| Messages and history | `channel.go` (`broadcastTo`), `init.go`, `internal/history` | `app.seq`, `sendMu` per channel, window per name | handleMsg, backlog read in join | one order for all codecs and the history; no gap between backlog and live traffic |
| Private messages, life of a connection | `conn.go`, `shutdown.go` | `priv` queue, `app.conns` | handlePriv, privPump, serve's teardown, close | what the sender is told is true; order per sender |
| Write path | `cork.go`, `conn.go` | `corkConn.writers/held`, deadline | cork, uncork, close, CloseNow | order on the wire; a deadline under every flush; the close frame is not lost |
| Rate limits | `internal/ratelimit`, `hooks.go` | buckets, entries with a count of holders | Allow, acquire, release, sweepLimiters | no window lets through more than it should, over reconnects and sweeps |
| Sanction records | `hooks.go`, `shutdown.go` | bounded queue, one worker | record, recordWorker, drainRecords, loadSanctions | every act accounted for; restart agrees with memory; shutdown drains and ends |
| Message filters | `internal/filter`, `init.go` | none | UTF8, Zalgo, the chain | a text gets the answer of the first rule it breaks |
| Load generator | `internal/loadgen`, `cmd/loadgen` | per connection a client, a reader, a socket and a histogram; a barrier; counters | Run, dial, settle, speak, read, merge | the run ends; nobody talks during the ramp; the report is complete and blames the right side; quantiles keep their bound |
| Wire formats, metrics, config, debug listener | `internal/proto`, `internal/metrics`, ... | next to none | | not modelled, see section 8 |

How they interact: `join` takes `channelsMu` and the channel's `mu`, subscribes
to the ring of the connection's codec, stores the membership under `membersMu`,
looks at the bans a second time, and starts a pump goroutine that calls `Recv`
and writes through `cork`. `broadcastTo` holds the channel's `sendMu` over id,
encoding, `History.Append` and every ring's `Broadcast`. A moderator's goroutine
parts somebody else's membership and waits for that pump. The janitor sweeps
channels and buckets. `close` says goodbye, cancels every connection and waits
for the record worker only.

What is hard to test is listed in `PROJECT.json` under `hazards`, at its line.

## 2. Plan

Modules in the order they were written. What is left is at the end.

1. `Fanout`: what a `Broadcaster` promises. `SeqRing`, `Ring` implement it
   (refinement `ImplementsFanout`); `MapChan` keeps its own weaker promise.
2. `Membership`: the core of the server. It uses rings abstractly, as logs with
   a starting position and a bound on the distance, as `Fanout` allows.
3. `RateLimit`, `Cork`, `Filter` and `Replay` on top of it, `Private`.
4. `Store`, and `Records` on top of it: sanctions, speakers, records, the process.
5. `Histogram`, and `LoadGen` on top of it.
6. Proofs: `SeqRingProofs`, `RingProofs`, `MapChanProofs`, `RecordsProofs`, `ReplayProofs`,
   `ConnProofs` (of `Cork`, `RateLimit` and `Private`), `MembershipProofs`, `LoadGenProofs`.

Every safety property and action property of the passing runs is proved. What is left to
TLC alone is liveness; section 7 says which parts of it have a safety half that is proved.

## 3. Modules

**Fanout.** One history; subscribers start at its end, are given contiguous runs
of at most `Batch`, and end `lagged` (more than `Capacity` behind) or `closed`.
A `Recv` already past its first look at the subscription may still deliver after
it ended. A `Recv` may report `closed` with messages left: `SeqRing` does.

**SeqRing.** Each atomic load, store, add and swap of `seqring.go` is an action;
`wpc` and `rpc` say between which two. A message is its sequence number, so a
slot read a lap late is a wrong number. `sync/atomic` in Go is sequentially
consistent, hence interleaving; the slots are `atomic.Pointer`s.

**Ring.** `ring.go`, one action per critical section.

**MapChan.** `broadcast.go`: the loop over subscribers one send at a time under
the read lock, the list of slow ones kept over the change of lock, the drop pass,
both closes and `Recv`. `panicked` records a send to a closed channel.

**Membership.** `serve`, `join`, `part`, `leave`, `leaveAll`, `channelPump`,
`handleMod`, `sweepChannels`; one action per critical section or blocking step.
`mems` and `rooms` number every membership and channel object ever made, so that
an old object under a new name is told apart. A goroutine is a label in `pc` with
its locals in `name`, `room`, `cur`, `todo`, `order`. The world around it (which
connections come, who they are, which may die, what moderators do, what hooks
answer) is a record `given`, chosen at the start from `Settings` and never changed.
The lookup of a channel and its creation, which are under two locks, are two actions
(`ChannelFor`, `CreateChannel`). `Encodes` says whether every codec can say something in a
room: a channel name, a nick, a reason or an attribute may be text that one codec accepts from
a client and another cannot write (invalid UTF-8 over msgpack). A JOIN or PART that cannot be
encoded is not heard, a MOD ends its call (`AnnounceFails`), a READY its connection.
What `Recv` has already returned is not tracked; a pump may lag, and may fail on a
dead socket, whenever it could have had something to read, and is never assumed to.

**RateLimit.** A token is `Interval` units, which makes the code's floating-point
refill exact integer arithmetic; rounding is not modelled. Time passes in units;
a call's clock reading and the call itself are two steps. A garbage-collected
bucket goes back to one value, `Collected`.

**Cork.** `corked` is the set that `writers` counts. `uncork`'s flush is a step that
succeeds in full or fails with part of what was held. The library (vendored) is external: its write
lock, its close handshake and its read failing.

**Replay.** Messages as ids, from the lookup of the channel in `handleMsg` to
the rings, with sweeps that replace the channel value under one name, and joiners that read
the backlog after subscribing, or nothing, when the History fails. The pump's client ignores what it had from the
backlog (README.md:67-71 of the server).

**Private.** Registration by nick, the lookup in `handlePriv`, the id, the recipient's
encoding, the non-blocking queueing, the sender's copy, the pump, sockets that fail, a newer
connection of the same nick, and the snapshot, goodbye and cancel of a shutdown.

**Store.** The two maps of `internal/moderation` are treated alike, so the
operators take one: a total function from scope and key to a time, or `Absent`.
`Active` looks at the scope's entry, then at the global one behind it.

**Records.** Extends `Store`. An act changes it at once and queues a record in a
second step, or, when it cannot be announced, none (`Unannounced`);
the worker writes them to the hook's store, fails, drains with a deadline;
speakers are checked against the Store in one step and heard in another; time passes,
the janitor sweeps; the process stops, crashes (losing all but the hook's store) and
starts again once. `decided` is what moderators decided, which no sweep forgets;
`late` counts the messages of somebody who was muted by then.

**Filter.** A text is a sequence of letters, marks and bytes that are no rune. `Runs` is
`Zalgo`'s loop as a recursive function: the length of the run of marks after each rune, which
stays as it is once it is too long, as the loop has returned. `FilterAgrees` states the rule
without it. `Replay` extends `Filter`, for what passes it is what is fanned out.

**Histogram.** `hist.go` with `SubBits` and `Octaves` as parameters: buckets, merge,
and the quantile with its rounding. Shifts are products and quotients by `Pow2`; `Seen` is the
sum that the loop of `Quantile` keeps. `Exact`, what a quantile is held against, is stated by
counting samples, with neither buckets nor sorting. Atomics are not needed: a histogram is one
goroutine's until it is merged under a lock.

**LoadGen.** Extends `Histogram`. A client's `at` is the call it is in, from `dial`
to its last deferred call; its reader is a second process; `dead` is the connection's
context, `sock` the socket and who ended it. The server, the network and the library
are the environment: refusing, never answering, dropping, delivering messages with or without
a timestamp. `Speakers` is what `Config.speakers` comes to, any number of the connections, for
`SpeakPercent` is a float; `speaks` and its arithmetic are as in the code. That it spreads the
speakers over the rooms (`SpreadEvenly`) `MCLoadGen` checks in an `ASSUME` for every number of
speakers in crowds of up to eight.

Definitions named `...Unsafe`, or for what they get wrong (`...Twice`, `...Forgets`,
`...Disarms`, `...Hasty`, `...Mislaid`), are plausible mistakes in the definition that
follows them. No specification uses them; substituted for it they make TLC report
the property they are paired with in `PROJECT.json`.

## 4. Runs

| Run | Instance | Shows | Distinct states |
|---|---|---|---|
| SeqRing | 2 writers, 1 reader, ring of 2, batch 2, 4 messages | SeqlockInv, NoLostWakeup, CountedOnce, ImplementsFanout, RecvReturns | 212 000 |
| Ring | 2 writers, 2 readers, ring of 1, batch 2, 2 messages | NoLostWakeup, ImplementsFanout, DrainedBeforeClosed | 89 000 |
| MapChan | 2 writers, 2 subscribers, channels of 1, 3 messages | NeverPanics, NoSilentGap, DropsCounted | 73 000 |
| MembershipSafety | 2 connections, 2 calls of handleMod, 2 memberships, 8 settings | BanHolds, NothingLeaks, RosterAgrees, LimitsHold, TeardownSparesReconnect | 1 829 000 (symmetry) |
| MembershipLive | 1 connection, 2 rooms, 1 call, Directory, expiry, 2 settings | DeadConnectionsGo, ModeratorReturns | 305 000 |
| RateLimit | 2 connections, 1 key or none, burst 1, 3 units of time, 3 opens | WindowBound, HoldersShareOneBucket | 115 000 (symmetry) |
| Cork | 3 writers of a frame each, a close frame | WireKeepsOrder, DeadlineCoversCork, FarewellNotLost, HeldGoesOut, ClosersReturn | 19 000 |
| Replay | 2 speakers, 1 joiner, 2 codecs, window of 1, 3 ids, 2 channel values | OneOrder, NoGap, FiltersAgree (texts of up to 5) | 387 000 |
| Private | a sender, and a recipient on two connections, queue of 2, 3 messages, one of them garbled, shutdown | AnswersAreTrue, SendersOrder | 1 028 000 |
| Records | 2 moderators on an entry each, a speaker, queue of 2, 3 acts, 2 times, one restart, one moderator's announcements garbled | LateByOne, EveryActAccounted, StoreAgrees, QueuedIsWritten, ShutdownEnds | 373 000 |
| LoadGen | 2 connections in a room each, one talks, 1 autojoin, join buffer of 1, a Duration | NobodySpeaksEarly, SnapshotComplete, LossesAreFaults, LatencyBounds (up to 3 of 0..18 in 1+3 octaves), RunReturns | 981 000 |
| MembershipSweep | one person on two connections | `SweepSparesMembers` is violated, section 6 | |

Why the bounds are enough for what they claim:

- *Rings.* Four messages are two laps of a ring of two, so a slot is overwritten
  under a reader; two readers of a ring of one lag, sleep and are closed
  at once. The proofs lift the main results to every size.
- *MapChan.* Two overlapping broadcasts and channels of one: both find the same
  subscriber full, and it can drain between the two.
- *Membership.* The settings: `Banned1`, one person and two calls that ban them,
  from the room or from everywhere, bans running out; `BannedEverywhere`, an autojoin and a server-wide ban;
  `Roster`, two people and a ban for good; `Reconnect`, one nick on two connections;
  `Crowded`, two rooms and room for one; and three in which something cannot be encoded:
  `Muffled`, one of two nicks, `Unheard`, what one of two says of themselves on joining,
  `Inexplicable`, the reason of a server-wide ban. All eight are initial states of one run.
  `MembershipLive` is run once more with a room whose name cannot be encoded.
  `MaxJoins = 2` gives a membership and its successor; `Capacity = 2` lets a pump
  lag as soon as a ban or a PART follows a JOIN; limits of one are met by the second
  join.
- *RateLimit.* Three units against two to earn a token: a window that earns one and
  a call that is late by up to three. A third connection comes after a release
  and a sweep.
- *Cork.* Three writers: one can fail, one hold, one flush, with a close frame between.
- *Replay.* A window of one and up to three messages: more is sent while joining than the
  window holds. Two values: the channel is swept and made again once.
- *Private.* Three messages and a queue of two: with one taken and two queued or
  with a pump that has not begun, the queue fills. Bob's second connection replaces the first.
  The second message is one that
  his codec or the sender's may not encode, with one that can be encoded before and after it.
- *Records.* Three acts and a queue of two: the queue fills before the worker looks. A
  mute of the room that runs out in front of one that is server-wide and does not; the
  clock has a time before a deadline and the deadline itself, where the mute ends. One
  of the two moderators may fail to announce, at any of the acts.
- *Filter.* Five runes and a limit of two: a run too long, one just allowed, and two
  with something between them.
- *LoadGen.* One that talks and one that listens; the barrier waits for both, each of which may
  be refused or forgotten at each step, and one dropped (`Fragile`). One message is received
  (`MaxReceived`), by either, with a timestamp or without. The run has a Duration (`Timed`); one
  without is the same up to `TimeUp`, which then waits for an interrupt. A join buffer of one fills. The histogram's
  samples, 0 to 18, are small values, both edges of three octaves, and values beyond
  the last.

Counters that would grow (`MaxBroadcasts`, `MaxMsgs`, `MaxJoins`, `MaxTime`,
`MaxOpens`, `MaxBatches`, `MaxSeq`, `MaxActs`, `MaxActsAgain`, `MaxReceived`) are bounded in the guards, nowhere
else. Runs turn deadlock checking off where a bounded server simply ends.

Each module's `TypeOK`, and `Ring`'s `WindowInv` and `CountedOnce`, hold on the same
instances (put them under `INVARIANTS`); the runs list the invariants that say more, and
section 7 proves most of these.

## 5. Fairness

A Go goroutine that can run does. So: weak fairness for each writer and reader in
the middle of a call (`SeqRing`), for each connection, teardown and moderator's call (`Membership`), for a
pump whose subscription has ended or that is closing its socket, for a corked
writer and the two closes (`Cork`), for the record worker and for main's wait
(`Records`). In `LoadGen` it is for all that happens by itself taken together: each of
these steps is one of a bounded number, so a run in which some goroutine that can go on does
has them all; and a read, a handshake or a send whose context has ended returns. The end of
the Duration is one of these steps only when there is one: with a Duration of zero the code
arms no timer (`loadgen.go:183-192`), `TimeUp` is not enabled until the run is interrupted, and
`RunReturns` promises an end only to a run that is timed or stopped.
Nothing is assumed of the load generator's server, not even that it answers. Nothing is assumed of clients, moderators, the janitor, new
broadcasts, crashes or lag. Blocking writes end because they have a deadline
(`conn.go`, `cork.go`) and hooks return, which is assumed of `Sanctions` as the
code does. `RecvReturns` needs bounded traffic: a reader whose
validation fails re-reads, and is either served, or found too far behind, in at
most one more pass per lap that writers make.

## 6. Where code and words part

One disagreement has a run of its own.

- **MembershipSweep** (`channel.go:102`). The member list has one entry per nick, and
  `register` (`init.go:150`) replaces an older connection without closing it. Both
  join; the newer one's entry overwrites the older's; the newer leaves and removes
  the entry. The channel looks empty with a live member in it. The janitor closes
  its rings and forgets it; the older connection's pump ends, its membership stays
  in its table, and it cannot join again ("already joined"). `channel.go:129` says
  nothing in an empty channel is observable.

Others were met while modelling and have no run; each is a schedule a reader can
follow in the code.

- `seqring.go:141-146`: `Recv` loads `published`, then `closed`. A broadcast and a
  `Close` between the two loads end the subscription with a message undelivered;
  `Ring`, of which it is meant to be a copy without the lock (`state/broadcast.md:143-144`), drains first
  (`DrainedBeforeClosed`). At worst the last line before a sweep or shutdown is lost.
- `moderation.go:39`: the target is resolved before the ban is stored. If only the
  Directory knew the nick, there is nobody to part, and whoever connects and joins
  between the two stays in the room (`state/server.md:285-293`, gotcha 14).
  `BanHolds` has the condition that there is no Directory, and that nobody is on two
  connections at once: of two with one nick the ban finds the newer.
- `membership.go:59` against `:81-82`: what the room broadcasts between `Subscribe`
  and the joiner's own JOIN is delivered before that JOIN.
- `moderation.go:71` against `:69-70`: a target that is leaving by itself is still
  subscribed when its ban is announced, and is told again directly.
- `init.go:179` against `internal/hook/hook.go:126-127`: a speaker removed while it
  sends still fans out through the swept channel value; the channel made next under
  the name has a lock of its own, so `History.Append` for one name can come out of id
  order. `OneOrder`, for each channel value, is the part of the promise that holds.
- `conn.go:340` against `:156`: a recipient may unregister between the lookup and the
  queueing; the message is queued for nobody and the sender sees its echo.
- `channel.go:167-174`: one codec may accept text that another cannot write, and each caller of
  `broadcastTo` does something else then. `membership.go:84-91`: the JOIN is logged, and the
  membership stands, unannounced; the member list has somebody the room never heard of.
  `RosterAgrees` says so: the last heard of a member is a JOIN if theirs can be encoded.
  `moderation.go:86-91`: the act stands in memory, but its moderator is told of a protocol
  error, no record of it is queued, so a restart forgets it, and the socket of somebody banned
  from everywhere stays open, for the close comes after; of several rooms the first ones may
  have been told. `EveryActAccounted`, `StoreAgrees` and `BanHolds` have it as a case of
  their own. `conn.go:349-356`: a private message is queued, its echo is logged, and its
  sender hears nothing, nor is the message recorded.
- `shutdown.go:55` against `:51`: a connection that registers after the snapshot is
  cancelled without a close frame.
- `cork.go:65`: writers that overlap for ever hold everything for ever; `HeldGoesOut`
  is for bounded traffic.
- `hooks.go:205` against `:267`: the act and the queueing of its record are two steps
  under no common lock, so two moderators acting on one person in one scope can be recorded
  in the other order; after a restart the sanction is the one that memory saw first.
  `StoreAgrees` is therefore for moderators on different entries (`Apart`).
- `loadgen.go:321` with `:432`: a connection that is dropped before it settled can be counted
  lost by its reader and again by `settle`; `dialed - lost` in the progress line
  (`loadgen.go:215`), of unsigned counters, can then pass zero. `LossesAreFaults`
  allows two for each.
- `loadgen.go:309`: "without it one connection the server forgot holds up the whole run".
  The timeout starts after `dial`, whose wait for READY has none: a server that upgrades and
  never says READY does hold up the run, until it is interrupted. `RunReturns` says so.
- `loadgen.go:451`: "settle is not listening any more" is one reason for a full
  join buffer; a client told of more rooms than it holds, before it looks, is another.
- A Duration of zero runs until it is interrupted (`cmd/loadgen/main.go:26` says so): nothing
  the server does ends such a run.
- An interrupted run dials the connections it had not got to, and counts them as
  refused by the server.
- "Mutes currently in force" (`metrics.go:97`) counts entries that have expired and were not
  swept; `fanout_drops_total` (`metrics.go:112`) falls when a channel is swept.
- `leaveAll` (`membership.go:137`) announces parts that the metrics do not count
  (`metrics.go:59-60`).

`RosterAgrees` is conditional (`Simple`): with one nick on two connections, or
with a ban that can expire or be lifted while somebody is still enforcing it, JOIN, PART
and NAMES do disagree for a while, as the first finding shows.

## 7. Proofs

`SeqRingProofs` proves, for any writers, readers, `Capacity`, `Batch` and
`MaxBroadcasts` that satisfy `SeqRingAssumption`:

- `TypeCorrect`: `Spec => []TypeOK`.
- `SlotsAndCopiesCorrect`: `Spec => []SeqlockInv`. The inductive invariant is
  `Inv == TypeOK /\ LockInv /\ SlotInv /\ CopyInv`. What is wanted of a batch, that
  it is untorn once validated, is not inductive: it needs that a slot in the
  window holds its message until `begin` has moved a lap past it (`SlotInv`), which
  needs that `begin` leads `published` by one exactly while the lock's holder is
  between its stores (`LockInv`). `CopyInv` says each copied element is right *or*
  `begin` already shows the reader that it may not be; validation then refutes
  the second. The arithmetic is in the lemmas on division at the head of the module:
  distinct messages less than `Capacity` apart have distinct slots.
- `SeqRingImplementsFanout`: `Spec => ImplementsFanout`, under the mapping in
  `SeqRing` (`sent <- published`, `cursor <- pos`, a `Recv` receiving once it has
  seen its subscription live). Stores to slots, copies and sleep are
  stutters; `Validate` is `Deliver`, `FinishLagged` is `DropLagged`.
- `NoWakeupLost`: `Spec => []NoLostWakeup`, from `WakeInv`: swapped channels are
  closed or about to be, registered readers are counted, and a reader asleep on
  the current channel with something to read has a writer still to look at
  `waiters`.
- `CountedExactlyOnce`: `Spec => []CountedOnce`, from `TallyInv`: whoever was dropped has
  been counted, and whoever was counted is done and not counted again. What is
  counted lies between the two, which are equal when nobody is half way.

`RingProofs`, for any writers, readers, `Capacity`, `Batch` and `MaxBroadcasts`
that satisfy `RingAssumption`:

- `RingImplementsFanout`, under the same mapping, and `DrainsBeforeClosing`, from
  `Inv == TypeOK /\ WindowInv /\ EndedInv`: the window is what the code writes down, and a
  reader on its way out of a closed ring had been given everything, because
  it read `seq` and `closed` under one lock.
- `CountedExactlyOnce`: `Spec => []CountedOnce`, by the set each counter counts and how a
  step changes it.
- `NoWakeupLost`, from `CountedOnce` and `SleepInv`: a sleeper's channel is closed, or about
  to be, or is the current one with nothing to read; a writer sees the sleeper in `waiters`
  because the reader registered under the lock.

`MapChanProofs`, from the conjunction of `TypeInv`, `OpenInv`, `LoopInv`, `SlowInv`,
`CountInv`: `PanicsNever` (who is in the map has an open channel, and nobody leaves it
while a broadcast is in its loop), `GapsNeverSilent` (who missed a message and is in the
map is on a broadcast's list), `DropsCountedOnce`.

`RecordsProofs`:

- `TypeCorrect`; `ActsAccounted`, inductive with the shape of `job`, an act that could not be announced being one
  of its terms; `ShutdownWrites`, from
  `WrittenInv`: a worker that is done with time left has only late records behind it.
- `MuteIsLateByOne`: `LateByOne` is not inductive. `Remembered` says that the Store
  differs from what was decided only where it no longer counts, and `LateInv` that whoever was
  cleared to speak in a scope has not been late there.
- `RestartBringsBack`: `ASSUME Apart PROVE Spec => []StoreAgrees`. `LastWord`: the last record of
  an entry in the queue, else the one the worker has, else the hook's store, is what was
  decided, unless a handler has still to queue it (`PendingInv`). `Apart` is needed:
  section 6 has the schedule that breaks it.

`ConnProofs`. `Cork`, for any writers, batches and frames:

- `CorkTypeCorrect`, `DeadlineCovers`: `CorkSpec => []DeadlineCoversCork`.
- `WireInOrder`: `CorkSpec => []WireKeepsOrder`, from `WireInv`: the wire begins what was
  written and, while no write failed, what is held is the rest; with nobody corked
  nothing is held.
- `FarewellArrives`: `CorkSpec => []FarewellNotLost`, from `WireInv` and `SentInv`: whoever
  wrote a close frame was first to close, so `CloseNow` waits for it.

`RateLimit`, for any connections, keys and times, and bursts with a largest:

- `LimitTypeCorrect`, with the bounds of a bucket through refill, spending and sweep
  (`BucketOK`); `BucketsAreShared`: `LimitSpec => []HoldersShareOneBucket`, by the set that
  `refs` counts.
- `WindowsAreBounded`: `LimitSpec => []WindowBound`. The bound is over all pairs of times and
  says nothing about a bucket, so it is not inductive. `Budget` is: what was allowed of a key
  from some time on has been paid by its bucket, which had no more than a burst then and
  earned no more than the time since. It survives a sweep because the sweep takes only
  buckets that are full by then, and a late clock because a bucket never earns for a time it
  was refilled at; it needs that no two keys have a bucket in common (`DistinctInv`). Calls
  are counted as the size of a set, which the prover can reason about, not as a sum.

`Private`, for any connections, nicks, messages and queue:

- `PrivTypeCorrect`, with `PumpInv`: a pump holds a message exactly while it writes.
- `SendersInOrder`: `PrivSpec => []SendersOrder`, from `LineInv`: what a connection was
  given, what its pump has, and what is queued are in that order.
- `AnswersTrue`: `PrivSpec => []AnswersAreTrue`, from `LineInv`, `ApartInv` (no message is with
  two connections) and `ToldInv`: every number drawn is with a connection, refused, or lost
  with one, and an echo is never of a refused one. Only a delivery puts a message anywhere;
  every other step moves it along its line or loses it with its connection.

`MembershipProofs`, for any connections, channels, moderators, settings and limits, finite
or not; only `MembershipAssumption` is assumed. `Inductive` is `Spec => []IInv`, whose parts
are kept one after the other, each with those before it:

- `HandsInv` (types, and what a goroutine's locals hold where it is), `NamesInv` (a name leads
  to the one open object it was made for), `ReadInv`, `TableInv`, `MadeInv`.
- `RoomToJoin`: only a connection's own goroutine adds to its table, and it has looked; other
  goroutines only take away. With it `LimitsAreHeld`: `Spec => []LimitsHold`.
- `AloneInv`: whoever has taken a membership out of the table is alone with it; and
  `KeptInv`: until it is torn down a membership is in the table, or held. `EntryInv`: an
  entry of a member list is of somebody who is joining, or whose teardown has not passed it.
  From these `NothingIsLeaked`: `Spec => []NothingLeaks`.
- `OrderInv`, what a moderator has resolved, and the two halves of `BanHolds`. `RoomBan` is
  inductive with it: between the store of the ban and the recheck of the join one side sees the
  other. So is `ServerBan`: a socket that is open after a server-wide ban was stored is one the
  ban resolved, and its call has still to close it, if all it has to say can be encoded.
  `BansHold`.
- `SimplyBanned`, `SimplyOut`, `SimplyOne`, `SimplyListed`: in a simple setting whoever is
  being parted is banned and cannot be half way in again, so a person has one membership of a
  room at a time, and nobody else writes their entry. `Told`, `SimplyTold`: the last JOIN or
  PART a ring holds of a nick follows from who has its membership, and from whether their JOIN
  can be encoded (`Sayable`). From all of these
  `RosterIsTrue`: `Spec => []RosterAgrees`, the longest of the proofs.
- `ReconnectIsSpared`: `Spec => TeardownSparesReconnect`, step by step.
- `NobodyWaitsForever`: `Spec => []WaitsEnd`. A circle of waits is what would make
  `ModeratorReturns` and `DeadConnectionsGo` false; this is the half of them that needs no
  fairness. By `KeptInv` who waits for a pump has closed its subscription; by `StartedInv` a
  pump that has not begun is its own connection's to begin; and by `AloneInv` that connection
  is then at a step of its join that waits for nobody. No run lists `WaitsEnd`; it
  holds on the instances of both Membership runs.
- `SweepsSpareTheSimple`: `Spec => [](Simple => SweepSparesMembers)`, from `RosterAgrees`. It
  is the other side of the finding in section 6: with one connection to a nick, and bans
  that neither run out nor are lifted, nothing of the kind can happen.

`ReplayProofs`, for any speakers, joiners, codecs, window and channel values:

- `RoomHasOneOrder`: `Spec => []OneOrder`. `LockInv`: who has drawn an id holds `sendMu`,
  so the id being posted is the greatest of its value (`IdInv`) and a ring lacks the
  last message at most, while it is owed that (`RingInv`).
- `BacklogMeetsLive`: `Spec => []NoGap`. Four more invariants: nobody is in a closed room
  (`RoomInv`); an id is posted once (`OnceInv`); the window holds the *end* of what each
  channel value posted (`EndInv`), although other values' messages lie between and push
  them out; and what a joiner has seen is described by three numbers (`Seen`): the
  backlog's first and last message and where its ring was entered, which is not later
  than the backlog's last because the joiner subscribes first. That order is what the
  proof needs.
- `FiltersSound`: `FilterAgrees`, and with it `FiltersAgreed`: `Spec => []FiltersAgree`. The
  bound on texts is a constant, so this is for texts of every length. It is an induction over
  the runes of a text: the run after each is the number of marks since the last other rune, or
  is too long and some `MaxDiacritics + 1` marks are behind it (`RunOK`).

`LoadGenProofs`, for any number of connections, rooms, messages and autojoins, and any server:
`IInv` is `TypeInv`, `PlaceInv`, `StartInv`, `FaultInv`, `ReportInv` and `CountInv`.

- `TypeCorrect`: `Spec => []TypeOK`. That the group never counts below zero is not a type but
  a count: it is the size of the set of those not settled (`CountInv`).
- `BarrierHolds`: `Spec => []NobodySpeaksEarly`, from that count and `PlaceInv`, which says
  where a client may be before and after it is settled.
- `ReportIsWhole`: `Spec => []SnapshotComplete`. `CountInv` gives each counter its set: dialled
  and refused are two parts of the clients, which are all of them when everybody is gone;
  messages received are those without a timestamp, those merged and a pair for each of those a
  client still has, which nobody has once its reader is done.
- `NoFalseLosses`: `Spec => []LossesAreFaults`. A loss is counted at most once by a connection's
  reader and once by its client, and then only while the context lives; `FaultInv` says that
  a live context with a socket that is not open, or a client that has given up, is a
  fault of the other side. `Close` and `CloseNow` come only after the context's end, or a fault.

The histogram, for any `SubBits`, `Octaves`, samples and quantiles of at most 1:

- `QuantilesBounded`: `QuantileBounds`, for sequences of samples of every length, and with it
  `LatenciesBounded`: `Spec => []LatencyBounds`. A value is in a bucket whose greatest is
  at most an eighth above it (`BucketForm`, `BucketBounds`; it is `SubCount` that makes it an
  eighth), and greater values are in no lower bucket (`BucketGrows`). Each bucket counts the samples
  that fall in it (`RecordedTallies`), so what the loop has seen by a bucket is how many samples
  are in it or below (`SeenCounts`), and the loop stops in the bucket of the sample that the
  quantile stands for (`QuantileIs`). That merging two halves gives the whole is `MergeIsAll`.
- `SpeakersSpreadEvenly`: `SpreadEvenly`. The share of the first `p` members of a room is
  `p * speaking \div members`, which grows by one or not at all (`ShareGrows`). It is for
  every number of speakers, of which `SpeakPercent` picks one.

These, and `FiltersSound`, are inductions over data. The library's induction theorems take an
operator and cannot be used, but those about *sets* can: from `NatLessThanWellFounded` and
`WFMin`, every set of numbers has a least (`LeastOf`), hence what is in a set with 0 and
with the next of whatever is in it is everything (`UptoInduction`), hence a function
defined by recursion on `0 .. n` exists and satisfies its definition (`StepByStep`). The lemmas
are in both modules that use them.

Assumed are the named assumptions of the modules, and nothing else: what `Config.check`
and the constants of the code give, and of a quantile that it is between 0 and 1.

Only model-checked: liveness (`RecvReturns`, `DeadConnectionsGo`, `ModeratorReturns`,
`HeldGoesOut`, `ClosersReturn`, `ShutdownEnds`, `RunReturns`), because the prover does
neither fairness nor `ENABLED`. Of some of it the safety half is proved: `NoLostWakeup` of a
`Recv` that sleeps, `WaitsEnd` of a leave that waits, `DeadlineCoversCork` of a write that
blocks, the count of those not settled (`CountInv`) of the barrier of a run.

## 8. Not modelled

- Authentication, the upgrade and the HTTP side: sequential, before anything is shared.
- PING, NAMES, and commands that are refused at once: no state changes.
- Wire formats: pure functions, by two libraries. That encoding can fail, and what
  each caller does then, is in `Replay`, `Private`, `Records` and `Membership`; which texts
  do is not: it is any that the settings name.
- The per-channel rate limit: a bucket like those of `RateLimit`, one to a channel value.
- Floating-point rounding of token counts, and sequence numbers past 2^64.
- The load generator's codecs, message texts, reasons, progress line and printed report.
- Configuration, metrics and their exposition, the debug listener, and everything under `vendor/` except what `Cork` says of the WebSocket library.
