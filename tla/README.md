# Formal models of etcd3

etcd3 is a Node.js client of etcd. This directory holds TLA+ models of its
concurrent parts, the TLC configurations that check them, and proofs for TLAPS.
Paths such as `watch.ts` are relative to `src/src/`. `PROJECT.json` maps every
definition to the lines it models, and lists the runs, the seeded bugs that each
property must detect, the hazards and the theorems.

    tlc -workers 2 -config watch_safety.cfg MCWatchManager.tla
    tlapm WatchManagerProofs.tla

## The system

| Part | State it keeps | Operations | Interacts with | Correct when |
|---|---|---|---|---|
| `WatchManager`, `AttachQueue`, `Watcher` (`watch.ts`) | state, current stream, attached watchers, expected closers, queue of watchers to create; per watcher its id and request | attach, detach, `cancel()`, stream events, reconnect timer | etcd's Watch RPC over one stream; the user's listeners | one stream; each response reaches its owner; the manager always reconnects; every cancel ends; nothing is missed or seen twice |
| `Lease` (`lease.ts`) | promise of the id, state, `teardown`, time of the last keepalive | grant, keepalive and its retries, heartbeat, debounce, `revoke`, `release`, `keepaliveOnce`, leased `put` | LeaseGrant, LeaseKeepAlive, LeaseRevoke, Put RPCs; timers | one keepalive loop, which stops when the lease is closed, never dies before, retries in time, and notices a loss |
| `SoftwareTransaction` (`stm.ts`) | read set, write set, retries left | `transact`, reads, `put`, `delete`, commit | Range and Txn RPCs through the pool | the isolation level holds; conflicts are real; writes are applied once |
| `Campaign`, `ElectionObserver` (`election.ts`) | lease, key revision, value, pending `proclaim`; observed leader | campaign, `proclaim`, `resign`, `observe` | `Lease`, watchers, transactions | one leader, the first; the first is elected in the end; observers follow it |
| `Lock` (`lock.ts`) | its lease | `acquire`, `release`, `do` | `Lease`, a transaction | one holder; a failed `acquire` leaves nothing behind |
| `ConnectionPool` (`connection-pool.ts`) | hosts, circuit breakers, auth token | `exec`, `withConnection`, `getConnection` | gRPC channels, every other part | every call ends; a usable host is found; a stale token is replaced |
| `Range`, `NSApplicator` (`range.ts`, `util.ts`, `namespace.ts`) | none | range ends, prefixing, comparison | every request | a namespaced range covers exactly the prefixed keys |
| request builders (`builder.ts`) | the request they build, a transaction's branches | setters, `exec`, `op`, `then`, `else`, `commit` | the pool, a lease, the namespace | a call is what the builder said when it was made; a namespace is a store of its own |
| errors (`errors.ts`) | tables | `castGrpcError`, `isRecoverableError` | the pool, watchers | an error gets the class that its handling relies on |

`auth.ts`, `options.ts` and `index.ts` build single requests or objects, keep no
state that outlives a call, and are not modelled. `rpc.ts` is generated; its
stubs and its key value types are modelled where the others use them.

How the parts interact: all of them send their calls through the pool. A
`Namespace` owns one `WatchManager`. `Lock` and `Campaign` own one `Lease` each;
a campaign also uses transactions, and a watcher per key it waits for. JavaScript
runs one callback at a time, so concurrency is the order of callbacks: stream
events, timers, promise continuations, user calls, and what etcd and the
network do between them.

What is hard in this code:

- **Watch**: gRPC reports a failed stream twice ('error', then 'end') and both
  reach `handleError`, so each failure sets two reconnect timers. 'created'
  responses name no watcher and are paired with the head of a queue. Ids belong
  to a stream and are reused on the next. `cancel()` waits for an id or for the
  'end' event while streams come and go. `start_revision` is set by headers that
  may be ahead of the events still to be sent.
- **Lease**: several timers per stream, timeouts followed by late errors, a
  close in the middle of opening a stream, time on two clocks.
- **Stm**: commits of others between the reads and the commit; existing and absent
  keys; a commit that is sent again after its answer was lost.
- **Election**: predecessors that leave while they are looked up, a lease that
  ends during a wait, `resign()` and `proclaim()` at every await of `start()`.
- **Lock**: a transaction that is refused because its first copy was applied, a
  release on top of a failed release, one object used twice.
- **Pool**: a call inside a call, inside a breaker; breakers that test with one call and
  make the others wait; tokens replaced while older ones are still in use.
- **Builders**: a request that stays in the builder's hands while a call that was
  made of it waits for a lease, for metadata or for a retry.

## The modules

| Module | Models | Used by |
|---|---|---|
| `WatchManager` | manager, attach queue, ids and cancel, over streams and a server | runs `watch_*`, `WatchManagerProofs` |
| `WatcherLifecycle` | what holders of watchers are promised (abstract) | refinement `ImplementsLifecycle` |
| `WatchReplay` | `start_revision` of one watcher over reconnections | runs `replay*`, `WatchReplayProofs` |
| `Lease` | one lease against the server's clock | run `lease`, `LeaseProofs` |
| `Lock` | attempts to lock with several or one `Lock` object | run `lock`, `LockProofs` |
| `Stm` | calls of `transact()` over a store with a history | run `stm_safety`, `StmProofs` |
| `Election` | campaigns over a log of the election's keys | run `election`, `ElectionObserver` |
| `ElectionObserver` | an observer beside the campaigns (extends `Election`) | run `observer`, `ElectionProofs` |
| `Errors` | the classes that errors of gRPC get | `ConnectionPool` |
| `ConnectionPool` | calls and streams over hosts, breakers and tokens | run `pool`, `ConnectionPoolProofs` |
| `Ranges` | byte strings, ranges, prefixes | `KeyValues`, `RequestsProofs` |
| `KeyValues` | etcd's range, put, delete and transaction on a map | `Requests`, `PrivateStore` |
| `PrivateStore` | what a namespace promises (abstract) | refinement `ImplementsPrivateStore` |
| `Requests` | builders, their calls, the namespace, a store with other writers | runs `request*`, `RequestsProofs` |
| `MC...` | symmetry sets and small values for TLC | |
| `WatchManagerProofs`, `WatchReplayProofs`, `LeaseProofs`, `LockProofs`, `StmProofs`, `ElectionProofs`, `ConnectionPoolProofs`, `RequestsProofs` | theorems | |

Definitions that start with "Seeded bug" in their comment are not part of a
specification. Each is a plausible mistake in the definition below it, which the
property it belongs to must notice.

### WatchManager

One action is one callback of the code. Variables are the fields of
`WatchManager`, `AttachQueue` and `Watcher`; the arrays of watchers are sets
ordered by `rank`, as they only append the newest and drop elements. The stream
has two FIFO channels per slot and the server a table of ids, which start at 1
on each stream. `Gap` is the time between a stream's 'error' and its 'end', in
which only user code called by the first can run; `Turn` says that microtasks run
before the next event. `AttachInGap` lets a user create a watcher in a
'disconnected' listener, which runs in that gap.

Assumed of the user: a watcher is cancelled once, while it is attached. A
stream slot is reused when its stream is gone. One data response per watch is in
flight at a time.

### WatcherLifecycle

A watcher subscribes while the connection is up, goes back to subscribing with
all others when it is lost, ends only if asked, fails only if the server says
so, and stays ended or failed. It generalises the repository's own PlusCal
model `src/src/watch.tla`, which has one watcher, to many on one connection.
`ImplementsLifecycle` maps `state`, the ids, the events fired and the cancels to
its three variables.

### WatchReplay

The store's revisions are numbers, those in `events` concern the watcher. On each
connection the pool picks a member, which may lag behind. `created` responses
carry that member's revision, events come in batches, progress notifications and
compaction happen at any time. `start` is `request.start_revision`, set by
`updateRevision` at 'connected' and after each 'data'. `BreakInReplay` says
whether the stream may break between a header and the older events that follow.

### Lease

Time goes in ticks of a third of the TTL divided by `Beat`, and only when nothing is due. While
the network is up a message arrives within the tick, unless its stream breaks.
While it is down nothing arrives, but opening a stream succeeds all the same, as
`leaseKeepAlive()` returns it at once and the error comes later. The 100 ms before a
retry are `Delay` ticks: `retries` counts the timers by the ticks they have left, since
two can be set. The server's lease has `ttl` ticks left; `age` is the time since
`lastKeepAlive`. `fails` counts the streams that failed, opening or open, since the lease was
last renewed; `MaxFails` bounds that number, not their total. `autoKeepAlive` is chosen
at the start.

### Lock

An attempt is one `acquire()`, alone or inside `do()`, of some `Lock` object;
`Shared` says which objects may serve two attempts at once. `lease` is the field
`this.lease`, which a second attempt overwrites, so that `release()` has a
`target` that need not be the attempt's own lease. The transaction is applied
(`Commit`) and answered in separate steps and may be sent again. A lease may
expire at any moment: as an error while it has heartbeats, freely once it is closed.
`Lease` shows when heartbeats keep a lease; `Lock` does not rely on it for exclusion.

### Stm

A key's value is its `mod_revision`. A read is one step; levels below
Serializable may read any past revision, as a member that lags would answer, the two serializable
levels read at the revision of the first read's header. `Decides` is etcd's
transaction. `CallFails` is the pool's resend of a commit whose answer was
lost, or its rejection. A range delete covers all keys.

### Election and ElectionObserver

The store is the log of puts and deletes of the election's keys, a revision is a
position in it, and each campaign has its own key, named for its lease. Actions
are the continuations of `Campaign.start()` after its awaits, with the synchronous
code that follows up to the next one, and `resign`, `proclaim`, expiry and
failures. The first transaction is decided and answered in separate steps, so the
answer can be lost and the request sent again (`PutResent`). A watch is a position
in the log. The observer gets the same log, in batches of any size, and may see
more puts while its watcher is being cancelled.

### ConnectionPool and Errors

A call is a stack of `exec()` frames, since an invalid token makes `exec()`
call itself inside the breaker of the host that refused it. A frame draws hosts
from its shuffle, enters a breaker, and is sent or waits for the test of a
half-open one. cockatiel's retry and breaker are modelled from how the pool uses
them; backoff and cooling are events without a length. A promise of metadata goes
from host to host until one authenticates, and has its token until etcd stops to accept it
(`Expire`). `Depth` and `Promise` are no bounds on the program: `ConnectionPoolProofs` shows
that no call nests deeper than once per expired token, and that a promise is always
left to make. A stream is a success for its breaker when it is opened, and counts as a
failure by `markFailed()` when it breaks; one that is refused for its token is left out. `castGrpcError` is applied to what gRPC
reports, so a wrong cast changes what the pool does.

### Ranges, KeyValues, Requests, PrivateStore

Keys are sequences over `0..MaxByte`, in the order of `Buffer.compare`. `Selects` is
etcd's reading of a key and a range end, the reference that the functions of
`range.ts` and `util.ts` are held against. `Requests` has one builder whose setters
and `exec()` variants change `request` in place, one `ComparatorBuilder` that
takes the builder's `op()` into its branches, and calls that pass through *leasing* or the
three awaits of `commit()` (*comparing*, *failure*), then *waiting*, *sent*, *served*.
`Then` and `Else` stand at the point where `op()` has resolved. What is sent is
read from the builder if `applyToRequest` returned its argument (`Current`).
Ranges are given to the setters as `Range.from` takes them, so a single key may be one.
Other clients write keys inside and outside the namespace. `PrivateStore` knows
no prefix: it serves what was asked, as it was when asked, perhaps again, and answers it.
Its keys are the namespace's without the prefix.

## The runs

Passing runs, with distinct states and the time with two workers:

| Run | Bounds | States | Shows |
|---|---|---|---|
| `watch_safety` | 3 watchers, 2 stream slots, 2 faults of every kind | 209,717, 35 s | one stream, responses and cancels reach their owner's watch, serial attaches, a reconnection always due, refinement of `WatcherLifecycle` |
| `watch_live` | 2 watchers, 1 slot, 2 faults, no refused create | 12,699, 8 s | once faults stop every watcher subscribes, every `cancel()` resolves; the queue never waits for nothing |
| `replay` | 4 revisions, 2 breaks, lagging members, compaction, no break in a backlog | 278,846, 70 s | nothing lost, nothing twice (unless a lagging member moved the watcher back), all emitted in the end |
| `lease` | `Beat` = `Delay` = 1, 2 slots, 1 failed stream between two renewals, any number in all; 1 outage of any length | 812,096, 150 s | one loop, which closing stops and nothing else; the lease is kept while the network is up; a lease that expired is noticed, even if the network never recovers |
| `lock` | 2 attempts, 2 objects of which one may be shared, 3 errors | 31,297, 8 s | one holder, who keeps the lock; `do()` and a failed `acquire()` leave nothing behind |
| `stm_safety` | 2 calls, 2 keys, 2 operations, 1 retry, 1 lost answer, all level mixes | 2,763,755, 90 s | every level keeps its promise; Serializable conflicts are real; writes applied once |
| `election` | 3 campaigns, 2 turns, up to symmetry | 323,770, 20 s | whoever is elected and holds its key is first |
| `observer` | 2 campaigns, 2 turns, 1 observer | 213,280, 95 s | proclaimed values are stored; the first campaign is elected; the observer misses no event of the key it follows, and leaves every stale leader and value |
| `pool` | 2 calls or streams, 2 hosts, 1 retry, breakers that open after 2 failures, 3 failures, 1 expired token | 349,217, 120 s | the reported error is the cause, tokens are replaced, no host's client is used once closed, calls settle |
| `requests` | keys over 1 bit, prefix `<<0, 1>>`, 1 call sent at most twice, 2 setters, 1 foreign write | 195,745, 55 s | no key outside a namespace is changed; the namespace implements `PrivateStore` |

A *turn* is a resignation, a `proclaim()`, a failed or repeated call, or an
expired lease.

Why the bounds are enough to be worth running. Three watchers are the
least for a queue with a middle element; two slots let a stream be replaced while
the old one is still to report its end; a second fault can hit the recovery
from the first. Liveness needs no symmetry and one slot, since safety shows that
no two are needed. Four revisions and two breaks let a watcher be moved back and
forth between members. In `lease`
`Beat` = 1 keeps the ratios 1/3, 1 and 2 of the TTL that the code uses, and a retry takes
a whole tick, a third of the TTL, which is more than 100 ms for every TTL that etcd grants; so
one failure between renewals is what `LeaseKept` bears there. The finer count is
the theorem's, and TLC confirms it without liveness and outages: with a TTL of one
second in ticks of 33 ms (`Beat` = 10, `Delay` = 3, `MaxDowns` = 0) the lease is kept over six
failures in a row (141,531 states) and lost with a seventh. Two transactions of two
operations on two keys allow write skew, lost updates and phantoms of absent keys.
Three campaigns are needed for a predecessor to leave while an older one remains;
one turn can be that and the other any fault of a bystander. Two attempts at a lock
are a holder and its rival, and three errors let a transaction be repeated, fail, and its
release fail. Two calls on two hosts let a call wait for the test of another and
find the other host blocked; three failures open a breaker and fail its test; one
retry and one expired token let a call fail inside itself. Bytes of one bit
suffice for a prefix that ends with the greatest byte, where range ends carry over;
longer keys and bytes are left to the proofs. One call is enough there because
calls share nothing but the builder and the store, which setters and other
clients change under it. All seeded bugs are caught at these bounds.

`CHECK_DEADLOCK FALSE` is set where the system may stop: a program that has
cancelled its watchers or resigned does nothing more. `lease` keeps the deadlock
check: time always goes on.

Runs that TLC must find violated, each a disagreement with the quoted line:

| Run | Property | What happens |
|---|---|---|
| `replay_lost` | `NothingLost` | a stream breaks after 'created' and before the backlog; the next watch starts behind it (`watch.ts:516`) |
| `request_shared` | `SentAsBuilt` | without a prefix `applyToRequest` returns its argument (`util.ts:96`); a setter called before the call is sent changes the call |

## Fairness

Weak fairness is assumed of callbacks, timers and continuations, since the
event loop runs them, and of the answers of a server that can be reached. In
`Election` it is stated once per campaign, for its continuations and etcd
together: a campaign makes finitely many such steps, so none can starve
another. In `Lease`, `Tick` is strongly fair, because it is disabled again and again
while timers are due, and time passes nevertheless; the network need not recover.
In `Lock`, calls are answered, the function given to `do()` ends, and a lease without
heartbeats expires. In `ConnectionPool`, one condition covers all steps of calls,
which are finitely many, and authentication; nobody has to call, and a breaker
need not cool.
Nothing is assumed of users, of faults, of new events, of refusals and of
compaction. `FairSpec` in each module states this, and safety runs use `Spec`.

## What is proved

All theorems hold for every value of the constants that satisfies the named
assumption of the module, and the hypotheses that
are stated with them below.

**`WatchManagerProofs`.** `TypeCorrect`: every reachable state is well typed,
which includes that `shift()` and `find()` return a watcher where the code uses
the result, and that no timer fires which was not set. `OneStream` and
`AlwaysReconnects`: under `~AttachInGap`, `SingleStream` and
`ReconnectScheduled`, for any number of watchers, slots and faults. Neither is
inductive. `ConnectionInv` is: at most one slot is in use; its phase and the
manager's state determine each other; an idle manager that has watchers has a
timer. The step that needs it most is `HandleError`: it runs a second
time for the 'end' of the same stream, and must find the state `Idle` and no
other stream opened in between. That is where `~AttachInGap` is needed; without
it TLC finds two streams.

`Routing` (`RoutedToOwner`) and `AttachedOneByOne` (`OneAttachAtATime`), under
`~AttachInGap` too: responses name no watcher, so who a 'created' is for follows only from
what the queue has done, and whose a watch id is only from the 'created' before it. The
invariant `RouteInv` says so. `Ranked`, `Held` and `Disconnected` are about the watchers alone: they
are told apart by their rank, the manager's have had no final event, and none has an id
while there is no connection. `Silent`: only an open stream carries anything.
Of an open one, `Serial` says that at most one create is under way, request or answer;
`Heads` that it is for the head of the queue, which stays the head because cancelled
watchers wait for their id; `Named` that a watch id on its way belongs to its owner,
or to nobody once it was cancelled, and that the watcher has the id when data or a cancellation
arrives. `QueueProceeds` (`AttachInFlight`) also needs that the server refuses no create
(`"refuse" \notin FaultKinds`): a refused one stays at the head of the queue, and
the property is then false; see below.

`KeepsItsPromise` (`ImplementsLifecycle`): every step of the manager is a step or a stutter of
`WatcherLifecycle`. The status of a watcher is read off its id, its final event and its
cancel, and the connection is the manager's state. A lost connection is one
`Lose` of all watchers, since `HandleError` takes all ids at once; a 'created' is a
`Subscribe` only because it reaches the head of the queue, for which `RouteInv` is
needed. `NoneSubscribedOffline` and `LastEventIsFinal` carry over what the abstract
module promises: no watcher is subscribed without a connection, and nothing follows 'end' or the
final 'error'.

**`WatchReplayProofs`.** `TypeCorrect`; `NoEventTwice` (`EmittedOnce`); and, under
`~BreakInReplay`, `NoEventMissed` (`NothingLost`), for any number of revisions and broken
streams, with members that lag and with compaction. `Phases` and `Headers` say what a
connection looks like: one 'created' first, headers that grow, at most one
'canceled', last. For `EmittedOnce` the invariant `Once` adds that
`start_revision` is behind every header in flight, and what was emitted behind
both `start_revision` and the watch: false as soon as a stream is moved to a
member that is behind, hence `~lagged`. For `NothingLost` the invariant `Kept` says where
each event that is due is: behind `start_revision` while there is no watch; in
flight or still to be sent when there is one; and never overtaken by a header
except by those of a backlog (`stamped`). Breaking in a backlog is exactly the step that
does not keep it; `replay_lost` shows the event it loses.

**`StmProofs`.** `Typed`, `ReadsOneSnapshot`, `Serializes`,
`CatchesWriteConflicts`, `ConflictsAreReal`, `AppliesOnce` prove the six
invariants of `stm_safety` for any number of calls, keys, operations, retries
and lost answers (up to three of those, `StmAssumption`: beyond that the pool
gives up). The argument rests on `StoreInv`: a `mod_revision` is not
beyond the revision that holds it, and a key keeps it until it is put or deleted.
Hence equal `mod_revision`s at two revisions mean that nothing happened to the key
between them, which turns the comparisons of a commit into facts about what was
read. `ReadsPinned` (a read of a pinned attempt sets its revision),
`VerdictSeen` (a verdict is for a revision of the store) and `SentUnapplied` (a
commit sent once is not applied before its verdict) make the rest inductive.
`LogGrows` is the lemma that a step extends the log and changes nothing in it.
`CatchesWriteConflicts` says no more than the code achieves: if a key that was read
existed, the keys that the call writes are at its commit as they were at its first read, or
do not exist. A deletion by another passes, as a deleted key compares as older than any
revision, and so does everything if only absent keys were read.

**`LockProofs`.** `TypeCorrect`, `HolderCorrect` and `LockExclusive`
(`MutualExclusion`), for any number of objects, attempts and errors, objects used
twice included. `KeyInv` is inductive: whoever's transaction was applied and whose lease
lives has the key, and the key's lease is alive. Exclusion follows since the key is one.
It needs no assumption on when leases expire. `KeptByOwner` (`LostOnlyByOwner`) is a
property of steps, and needs to know whose lease the steps of others may close or revoke:
`release()` takes whatever lease its object has at that moment. `SpareInv` has it: of an object that
is not shared all attempts but the last are over (`LastOnly`), its lease is the last one's
(`Leased`), and the lease of a holder whose release nobody asked for is neither closed
nor a target (`Spared`).

**`LeaseProofs`.** `TypeCorrect` and `OneLoopOnly` (`OneLoop`), for every
length of the beat and of the delay, number of streams and number of faults. That the loop goes on is
inductive by itself. That it is one is `Only`, while the network has not been down:
`Watched` (the stream of `teardown` is the only one with an interval, and its debounce never
comes due), `Counted` (there is a loop or a retry, not both, not two) and `Tidy` (nothing is left
of earlier streams). `KeptAlive` (`LeaseKept`) needs `RetriesInTime`: the retries that may follow
each other without a renewal take less than two thirds of the TTL (`MaxFails * Delay < 2 * Beat`).
The premise is sharp: with `Beat` = 10 and `Delay` = 3 it allows six, and seven lose the
lease. `Kept` bounds what is left of the lease by what the loop may still take:
`Fresh` while no retry waits (two beats at least, less what failures have spent, and as
long as no heartbeat is on its way also what the interval still waits for), `Spent` while
one does (what it still waits for comes on top). Time passes only when nothing is due,
so each timer runs down as fast as the lease.

**`ElectionProofs`.** `TypeCorrect`, `OldestIsElected` (`LeaderIsFirst`) and
`ProclaimStays` (`ProclaimedIsStored`), for any number of campaigns and faults. The
invariant `Seniority` has three parts: `OwnKey` (a campaign waits for a revision that is not
before its own key's, also when its transaction was sent twice, since the second
answer is later), `Settled` (who is elected waits no more) and `Ranked`
(nobody with a key is ahead of the elected). A new key is the newest and disturbs nobody.
`Published` says that nothing is proclaimed before the first transaction is over.
`NewestIsAhead` gives the key that a campaign waits for, by well-foundedness.

`ObserverFollows` (`FollowsKey`), for an observer beside any number of campaigns: while it
watches a key it has seen every event of that key which its watcher will not bring. `Written`
says that the last event of a key that exists put the value that is stored, so a key
that was read is one whose put was seen. `Observing` adds that the put kept while
the first watcher ends is the last put before the watcher's position. The log only grows
(`LogKept`), so neither is disturbed by what campaigns do.

**`ConnectionPoolProofs`.** `TypeCorrect`, `CauseReported` (`ErrorIsTheCause`), `TokensReplaced`
(`TokenReplaced`) and `ClosedCallsNothing` (`NoCallOnceClosed`), for any number of calls, hosts,
tries, failures, and tokens that expire. All rest on `PoolInv`. `Stacks` describes a call's
stack: only the innermost frame acts or holds a promise of metadata, and the outer ones
wait for the one inside. A frame whose token has expired is no deeper than expiries so
far, as `exec()` is called again only with a newer token; this bounds the recursion.
At most one promise per call and two more are in use, so there is a fresh one. No error of a token is ever what a
frame ends with: `exec()` goes on before it is recorded. `Causes` relates what a frame knows
of errors to all errors its call was given: while it tries, a call that has been given one
has it as the last error of its frame. A closed pool has no client of a host, and `Clients` says
that it makes none, so whatever a call waited for, it is not sent. This is about the hosts' clients:
`getMetadata` has connections of its own, which `close()` does not know, and goes on to
authenticate; see below.

**`RequestsProofs`.** About the operators of `Ranges`, for keys of every length and bytes of every size:
`PrefixRoundTrip` (`unprefix` undoes `applyKey`), `PrefixSelects` (etcd selects with
`endRangeForPrefix` the keys with the prefix, no others), `NamespaceInside` and
`NamespaceSelects` (a range in a namespace selects what it would select alone, with the
prefix), `IncludesAsSelected`. The proofs go by the first position at which two
keys differ, which exists by well-foundedness; no induction over sequences is needed.
Two conditions are necessary. `includes` agrees with etcd for an end that is neither
empty nor the zero key. `NamespaceSelects` is about ranges whose end
is not empty, and `NamespaceInside` too if the prefix is a zero byte; see below for
what happens to the others.

About `Requests`, for any number of calls, sent any number of times:
`NamespaceStaysInside` (`StaysInside`), if the prefix is not the single zero byte or
no range of the program has an empty end (`RangesHaveEnds`); and `NamespaceIsPrivate`
(`ImplementsPrivateStore`), if the prefix is not empty and `RangesHaveEnds`. A program that gives
`inRange()` a single key does not satisfy `RangesHaveEnds`. For such ranges the second theorem is
false, and the first is too with the zero byte as prefix; with any other
prefix the end that `applyRangeEnd` makes is the prefix, which lies before the key, so nothing is selected
(`MatchedInside`). The invariant says that what a call holds was made by
`applyToRequest` of a request that builders build, and that what is sent is what
it holds. Every step is then a step or a stutter of `PrivateStore`: `Serve` by
`NamespaceSelects`, for each kind of request; `Return` because what was selected has
the prefix, so that `unprefix` never throws; a write of another client is `Others`.

**Only model-checked.** All liveness properties, which are out of the prover's reach with the fairness
they need: `CallsEnd`, `NeverStaleForGood`, `EventuallyElected`, `EventuallySubscribed`, that every
`cancel()` resolves, and the others of `watch_live`, `replay`, `lease` and `lock`. Every safety property of a passing run
is also a theorem, some under the conditions named above.

## Observed without a run of its own

Some of these are properties stated in their modules, for a reader to add to the `.cfg`
that is named; TLC then finds them violated.

Watch:

- A refused create stays at the head of the attach queue (`watch.ts:347`), and the
  watchers behind it are never created while the stream lives, though 61-62 says that the
  next is fired. `"refuse"` in `FaultKinds` of `watch_live` violates `EventuallySubscribed`.
- `AttachInGap = TRUE` makes TLC find two open streams: a watcher created in a
  'disconnected' listener starts a connection that the second `handleError`
  forgets (`watch.ts:281`).
- `cancel()` of a watcher that has ended or failed uses its old id, which may be
  another watcher's by then, or waits for ever; so does `cancel()` of a refused
  watcher. Detaching while not connected closes without 'end' (`watch.ts:548`
  documents it for every close). A refused last watcher leaves the stream open.
- A listener that throws skips `updateRevision`.

Lease, lock:

- After an outage a lease may have two keepalive loops, of which `release()` stops one
  (`OneLoop` is therefore claimed for a network that has not been down). `'lost'` is
  emitted after `revoke()` if a call in flight fails (`lease.ts:251` says
  otherwise).
- The server renews a lease, but each stream breaks before its answer: `keepalive()` goes by the
  last answer it heard (`lease.ts:316`) and reports lost, after twice the TTL, a lease that the server has
  just renewed, though 246-247 say "our TTL has definitely expired". `GivesUpInTime` fails in
  `lease`, without an outage too.
- A second `acquire()` on one `Lock` forgets the first lease (`lock.ts:74`), which then
  lives for good; `LetsGo(Shared)` fails in `lock`. A bare `acquire()` that rejects
  with an error other than `EtcdLockFailedError` keeps its lease, and perhaps the key,
  until its user calls `release()`.

Transactions, election:

- A SerializableSnapshot transaction is refused though nothing interleaves, because a
  key it writes is newer than one it reads (`stm.ts:505`; `SnapshotConflictIsReal`). etcd's Go
  client compares with the revision of the header.
- A commit that was applied and is sent again conflicts with itself, and `fn` is
  run again; a blind put is applied twice. `AppliedOnceUnlessResent` excludes these.
- A campaign that has resigned may emit 'elected' (`election.ts:310`;
  `NoElectionAfterEnd`). One whose first transaction is sent twice may wait for its own key
  (`election.ts:309` passes the revision of the second answer). A pending
  `proclaim()` never settles if `resign()` comes before the key is put.
- Two keys are put while the observer waits for one: it keeps the second
  (`election.ts:135`; `ObservesLeader`). Its first 'change' is always `undefined`.

Pool:

- A call that begins after `close()` waits for metadata before it asks a host for its client
  (`connection-pool.ts:362`): with auth it sends authenticate requests, with name and password,
  on connections that `close()` knows nothing of. If they fail, the call rejects with
  their error and not with `ClientClosedError`, which is "thrown if a method is called after the
  client is closed" (`errors.ts:12`). `ClosedIsTold` fails in `pool`, with one call and one host already.
- The call that tests a half-open breaker is told that its token is invalid and calls `exec()`,
  which waits for the test of the same breaker (`connection-pool.ts:328`). One call and
  one host suffice; `CallsEnd` leaves out such circles.
- The shuffle exchanges hosts while it draws, and a retry goes on in the middle of a round:
  the draws of one attempt may take a host twice and miss a usable one (`options.ts:117` says
  that a new host is picked). `Draw` follows the code.
- Opening a stream resets the consecutive failures of its host. The failures of a nested
  `exec()` count against the outer call's host, are retried again, and are forgotten
  when the outer one reports a broken circuit. Calls that failed with an old token
  invalidate the new one, and the last failure of an old authentication drops a newer promise
  (`connection-pool.ts:107`). A stream with an invalid token never invalidates it
  (`rpc.ts:112`).

Builders and ranges:

- `Range.from` of a string or a buffer makes a range with an empty end, which stands for a single
  key. It is not `undefined`, so `applyRangeEnd` prefixes it (`util.ts:88`): in a namespace the
  end is the prefix, and `getAll().inRange(key)` or `delete().inRange(key)` selects nothing. `UserRange <-
  MCKeyRange` in `requests` violates `ImplementsPrivateStore`. If moreover the prefix is
  one zero byte the end is `"\0"`, no end at all, and the deletion takes keys outside the namespace:
  `Prefix <- MCZeroPrefix` violates `StaysInside`.
- A put looks at its request after awaiting the lease, and `commit()` at `failure` and
  `success` after awaiting the comparisons, so later setters, `then()` and `else()` count.
- `getPrevious()` and the exec of a single range return keys with the prefix. The flags that
  `keys()`, `count()`, `getPrevious()` and `touch()` set stay on a builder that is used again.
- `Range.includes` differs from etcd for an end that is empty or the zero key.
- The key that is the bare prefix is not in `getAll().all()` or `delete().all()` of a namespace,
  which start at a zero byte.
- Operations given to `then()` that are not builders' are not namespaced. A watch builder
  with an empty prefix shares its request with its watchers (`watch.ts:465`).

Auth, by reading: `Role.revoke` of an array grants (`auth.ts:68`; 61 says "Removes"). `revoke` of one
permission (73) and `grant` of an array (89) drop the call options.

## What is not modelled

Listeners that throw, the length of backoffs, the setters of watch builders; in `Lease`
the events that only notify, and overlapping puts; in `Lock` `ttl()`, `options()` and
`leaseId()`; in `Stm` `prefetch` as such (a read that comes first) and one object used for two
calls; in the election `ElectionObserver.cancel()`, watchers that fail, `Election.leader()`, and a second
`proclaim()` of a campaign; in the pool `mock()`, the credentials of channels, call options and
policies other than the default ones; in the builders the options of reads that etcd alone
interprets (revision, limit, order, bounds), parsing, and transactions with more than one
operation in a branch; `auth.ts`, `options.ts`, `index.ts`: each is one request or a
construction, with no state to get wrong over several steps; in `rpc.ts` the types of the other
services and the stubs of maintenance, cluster and auth, which are more of the same `exec()`.

## What is left

In order of importance: two calls, and
transactions of several operations, in `Requests`; a `Lock` over the full `Lease`; the
observer's `cancel()` and watchers that fail.
