# OpenPacketCore SDK: a TLA+ verification project

The repository is a Rust SDK for building 5G packet-core network functions:
about a hundred crates for configuration, session state, alarms, security,
protocols and Kubernetes operators. This project models the parts whose
correctness is a question of order, concurrency and failure: the **session
store** and its cache, the **config bus**, the **SA mirror**, the **IPsec
ownership re-pin** and the **task supervisor**.

## Inventory

| Part | State | Operations | What is hard |
| --- | --- | --- | --- |
| Session store, in-memory backend (`opc-session-store/src/fake/`) | records, leases, fences per key, retired keys, floors, counters, replication log, reader expiry marks | acquire, renew, release, get, compare_and_set, delete_fenced, refresh_ttl, batch, watch | clocks that jump, guards kept by paused owners, history that must be dropped without lowering a fence, limits decided before finalization |
| Key history (`key_retention.rs`) | epoch, two floors, retired count and maximum | rotate, valid, valid_retired_fence | rotation in the middle of a command |
| Replication replay (`fake/mod.rs`, `replay_policy.rs`) | the replica's copy of all of the above | replicate_entry, rebuild_replication_state | duplicates, rebuilds, recomputing retirement identically |
| Session cache (`opc-session-cache`) | cached records, watch cursor, readiness flag | get, wrapper writes, watch loop, resync, rebuild | fills racing invalidations, lost streams |
| Config bus (`opc-config-bus`) | history, snapshot, recovery fence, confirm timer, subscriber queues, watch cursors | commit, commit-confirmed, confirm, cancel, rollback, restore, reconcile, subscribe, recv, watch_committed | appends of unknown outcome, two buses during a hand-off, timeout against confirmation, queues at their limits |
| SA mirror (`opc-sa-mirror`) | custody of the standby, calls in progress, abandoned connections | install, checkpoint, withdraw, take_for_repin | requests served after newer ones, restart of the standby, nonce reuse |
| IPsec load balancer (`opc-ipsec-lb`) | ownership record, lease, host maps, operation permits | birth, activate, repin, retry, retire_activation, publish, recover | two hosts, lost answers, deletion and rebirth of the record |
| Runtime chassis (`opc-runtime`) | task table, runners, degrade count, fatal error, drain phase | register, spawn, heartbeat, restart, shutdown, drain | spawn against drain, two observers of one failure |
| SQLite backend and Openraft state machine (`sqlite/`, `consensus/`) | the same tables in a database | the same commands | crash between transactions |
| Ownership, hand-over, owned sessions | coordinator state per session | claim, transfer, release | two coordinators |
| Consensus boundary, session transport | voter slots, membership, RPC framing | membership change, snapshot | Openraft is external |
| Alarm manager | active alarms | raise, update, clear | dedup, suppression |
| Diameter transport | peer state | connect, elect, watchdog | both sides connecting |
| Management servers, codecs, crypto, dataplane, operators | mostly stateless or in kernel tables | | not a question of interleaving |

`PROJECT.json` lists every component with the reason it is or is not modelled,
and under `hazards` what is hard to test in the modelled code, line by line.

How the modelled parts interact. A lease manager and a backend share one state
behind one mutex (`FakeSessionBackend`); every committed command appends one
entry to the replication log and notifies the registered watchers; a replica
replays the entries; the session cache wraps a backend, reads through it and
consumes one watch stream in a background task. The re-pin coordinator is a
client of a session store: its leases and compare-and-sets decide the owner of
an SA, and the host it runs beside publishes the decision in its maps. The
config bus is one worker per process over a datastore that several processes
share; subscribers and watchers consume what it publishes. The SA mirror is an
owner, a client, connections and a standby. The in-memory session backend is
the reference the SQLite and Openraft backends are tested against, and the
bounded key history it uses (`key_retention.rs`) is shared by all of them.

What makes them correct: no fence token is issued twice or falls; a guard that
was superseded never writes again, even after the history of its key has been
dropped; limits checked before a command is finalized hold after it; a replica
is at every sequence exactly what the source was; a cached record is served
only while it is current; a keyed config request has one effect however often
it is retried; a commit-confirmed is decided once, and is decided; a subscriber
misses no change silently; a takeover repeats no nonce; a host steers only
committed ownership; a fatal task failure stops the runtime.

## Modules

| Module | Models | State in the model and in the code |
| --- | --- | --- |
| `SessionStore` | `fake/mod.rs`, `fake/read_expiry.rs`, `key_retention.rs`: every lease, read, mutation and batch path of the default build and the finalization they share | `store` is the committed `FakeBackendState`, `staged` the copy a command edits, `cmd` and `phase` the command holding the mutex, `log`/`lastSeq`/`compacted` the replication log, `writerTime` the clamp of `command_time`, `hidden` the reader's expiry marks. `guards` collects every `LeaseGuard` ever returned: callers may use any of them at any time |
| `FencedLeases` | what the lease and backend traits promise together (abstract) | `lease`, `record`, `issued`, `time`; no staging, history, counters or log |
| `SessionReplication` | `replicate_entry`, `rebuild_replication_state`, `apply_replicated_op_with_state` on top of a source that runs `SessionStore` | `replica` is the second backend, `sent` all committed entries, `history` the source's state after each |
| `SessionCache` | `opc-session-cache/src/lib.rs` and the watcher in `replication_watch.rs` | `cache`, `cursor` (`last_sequence`), `ready` (`watch_ready`), `syncing` (`is_syncing`), `loop` (program counter of `run_watch_loop` and its `initialized`), `resyncs` (the resync channel), `stream` (backlog and channel of the watch), `reader`/`writer` (calls in progress). `record` and `log` are the backend |
| `ConfigStore` | the managed in-memory datastore (`datastore.rs`): compare-and-append, decisions, reads | operators on a history of records |
| `ConfigBus` | `commit.rs`, `rollback.rs`, `restore.rs`: the workers of several buses over one `ConfigStore` | `history` the datastore, `limbo` appends that may still land, `due` expired deadlines, `snap`/`fenced`/`timer` each bus's snapshot, `RecoveryState.fenced` and `pending_fire_at`, `job` the await each worker is at, `answers` the successes clients saw |
| `ConfigFanout` | publication and `subscribers.rs` | `running` the published version, `listed` the subscriber list, `fan` the fan-out in progress, `queue` each `SubscriberState` with the options it subscribed under, `permit` the stored wake-up of its `Notify`, `rx` the step of `recv`, `applied`/`missed` what the consumer did with the events |
| `ConfigWatch` | `committed.rs` and the datastore's watch channel | `head`/`visible` the history, `worker` the commit in progress, `signal` the channel's value, `watch` each stream's step, cursor and backlog, `delivered` what its consumer got |
| `SaMirror` | `standby.rs`, `client.rs`, `server.rs` and the takeover rules | `held` the standby's custody, `calls` the client's call per SA, `late` requests on abandoned connections; the owner's IKE layer (`up`, `gen`, `sent`, `mirrored`, `protected`) is external; `withdrawn` the highest epoch a withdrawal was called for; `takeovers` what the first takeover yielded |
| `Supervisor` | `supervisor/*.rs`, the drain of `runtime.rs` | `state` each `TaskState`, `task` the task a spawn call is for, `spawn`/`runner` the steps of spawn calls and runners, `pending` expired tasks not classified yet, `fatal` `fatal_failure_error`, `degraded` `degrade_count`, `drain`/`waiting` the drain sequence, `events` counts the application's calls |
| `Repin` | `repin.rs`, `session.rs`, `xdp.rs` of `opc-ipsec-lb` for one ESP key | `record`/`lease`/`nextFence`/`late` the session store's key, `op` the coordinator call of each process and the host it runs on, `entry` each host's owner and fence maps, `poisoned` its stripe, `reqs` the requests callers keep, `commits`/`floors` history for the properties |
| `..._proofs` | the theorems about `SessionStore` (with `FencedLeases` and `SessionReplication`), `SessionCache`, `ConfigBus` (and the `ConfigStore` in it), `ConfigFanout`, `ConfigWatch`, `SaMirror`, `Supervisor` and `Repin` | |
| `MC...` | the instances TLC checks (`ConfigWatch` and `SaMirror` need no module for theirs) | |

### Granularity

*Session store.* The mutex serialises commands, so a command is one step up to
its checks and its edit; the loops of finalization (`retire_dead_keys`,
capacity rotation) and of a batch take one step per iteration, which keeps the
module free of recursion.

*Cache.* Every await ends a step. A loop step takes the cache lock, invalidates
and moves the cursor at once, because the code holds the write lock for all of
it. The two flag loads of `cache_reads_allowed` are one step: `watch_ready` is
never true while `is_syncing` is, so the pair of loads is equivalent to one at
the time of the first.

*Config bus.* Every await on the datastore is a step; between two of them other
buses, late appends and deadlines move. In the fan-out the queue mutex makes
each push and pop a step, and loading the closed flag, registering for and
storing a wake-up are steps of their own. In the watch the clear under the
mutex and the send after it are two steps.

*SA mirror.* A call of the client is a request, an exchange on the current
connection, and an answer; an attempt that times out leaves its request on the
abandoned connection, where it is served late or dropped.

*Supervisor.* Each critical section of the tasks lock is a step; atomics and
sends after it are steps of their own. The drain's reads of the handles, one
lock each, are one step.

*Re-pin.* Every await is a step; a call may be dropped at any of them. The map
operations of one publication run under the host's gate and are one step. It is
refused by what the maps hold, it succeeds, or an error stops it: the states an
error leaves behind are `Interrupted`. `clear_keyed_state` removes the fence and
the owner one after the other whatever becomes of the first (`Cleared`), and
what is still live after it is cut by the new fence (`Contained`); a fence
without an owner, the old one or the one being published, is among them.

### Abstractions

*Session store and cache.* Records carry the fields that decide anything
(generation, expiry, owner, fence, class); the payload is left out. Keys are
numbers where their order matters (`compare_key_parts` decides the order of
retirement). Time is a small range sampled freely at every command, so the
clock may stand, jump forward and jump back. In the cache a record version is
the sequence that wrote it, expiry is a free choice at every test of it, and a
call of the backend may fail as long as `MaxFaults` lasts, the one budget of
all faults. A batch written
through the cache is a batch of record writes to a set of keys.

*Config bus.* The bounded queue is left out: a worker takes any request at any
time, so every queue order is covered. Validation, authorization and label
checks may refuse any request before it has an effect (`Refuse`). A definite
compare-and-append refusal leaves the bus unfenced with the snapshot it had; a
marked head makes a restore fail closed and never reconciles, because the
projection's `expected` head is loaded from the same marked history.

*SA mirror.* One counter stands for the send IV and the replay watermark, which
grow together and merge by the same rule. Key bytes are a number. A rejected
takeover changes nothing and is a stutter. `MaxLag` is the bound on unmirrored
traffic that a deployment attests to (`Jumps` and `Lags` are such attestations,
at least `MaxLag`).

*Supervisor.* Clocks are free: a window, a backoff, a drain timeout or a
heartbeat may expire whenever it is looked at. The readiness answer, the
simulated memory limiter and alarms are left out. A best-effort task is in the
module and in no run: its failures change nothing but its own state.

*Re-pin.* One ESP key; a shard is the node that owns it. Audit writes, counter
proofs and shard-owner reads only decide whether the call goes on (`Fails`).
The retry stage that only audits is left out, and so is retirement by a
session-level journal: only activations are retired. Releasing a lease is
folded into `LeaseEnds`. A host overtaken by another host's transition keeps
steering its last committed generation, as in the code; a restart keeps owners
whose fence is gone, and a pair that disagrees keeps the host detached. A host
that not even the emergency fence can make stale is quiesced and detached by the
code; that host is left out.

## Runs

| Run | Question | Bounds |
| --- | --- | --- |
| `session_leases` | Do fences stay unique, monotone and decisive while exact history is dropped, does every admitted command finalize within the limit, and does a replica reproduce all of it? | three keys in two tracked rows, epochs of two retirements, four commits, times 0..2: a key can be retired and rotated out while its first guard is still around; the replica replays, is rebuilt at any prefix and receives any earlier entry again |
| `session_data` | Can a superseded guard write a record, alone or inside a batch? Do expiry marks live as long as the record they were made of? Is every commit a step of `FencedLeases`? Does a replica follow? | one key, two owners, four commits, batches of one operation, a log of one entry |
| `cache` | Is an undisturbed cache hit current, does an intact watch lose nothing, and does the cursor finally stay at the head? | one key, one reader, one writer, two commits, a channel, a backlog limit and a retained log of one entry, one fault of any kind (lost or broken stream, lost answer, resync, rebuild to any journal) |
| `cache_fill_race` | Violated: is every hit current? | two commits, no fault |
| `bus_alone` | Does an idle unfenced bus agree with its datastore, and is every commit-confirmed decided in the end? | one bus, five submissions of the requests in `LongRequests`, two faults, two crashes |
| `bus_pair` | Do two buses that receive the same retries append one record per key and give answers that agree? Is a commit-confirmed decided once when confirmation, cancellation, rollback, expiry and startup rollback race? Does a reader see an uncleared record or an older version? | two buses, three submissions of the requests in `PairRequests`, late appends, one fault, one crash |
| `fanout` | Does a subscriber that must not lose anything learn of every gap, is a drained one current, does every policy keep order and bounds, does a waiting `recv` always return? | one subscriber that subscribes under any of seven options (every lag policy, with and without a byte budget), four versions, sizes below and above the budget, failing sizing. Subscribers share nothing but the published version and the fan-out list, so one is enough |
| `watch` | Are streams gap-free and cleared-only, and complete? | two workers, two watchers, four versions in pages of two, one fault |
| `mirror` | Is protection custody, does custody advance, is no nonce used twice, is coverage restored after a restart of the standby? | an ESP and an IKE SA for one place, two keys, one epoch reuse, two late connections, two faults |
| `supervisor` | Does the degrade count settle, does every fatal failure stop the runtime, does the drain leave no runner it knew of? | a fatal and a degrade task, two spawn calls of any of them, one restart, one checker, one application event |
| `repin` | Do hosts steer only what was committed and never go back, is a replay harmless, does an activation touch another birth, does a finalization delete anything but the record it refreshed, what can the maps refuse a call for? | two calls on any of two hosts, two owners, two requests, two births, six leases, one fault |
| `repin_own` | Violated: does a retirement retire only its own activation? | the same with seven leases and no fault |

Owners (`session_*`, `repin`), buses (`bus_pair`), hosts and processes (`repin`)
are permuted as symmetry sets; no run with a liveness property has one, and
store keys are never permuted (their order matters). Model sizes and faults are
bounded by the constants named `Max...`.

Each module has a type invariant `TypeOK`, which its proofs start from; the
runs spend their properties on what is hard to get right. Only the session
store's is also a property of a run.

Each property of a passing run has a mutant in `PROJECT.json`: a definition
with a plausible bug (right before the original, with a comment `Mutant:`) under
which TLC finds the property violated.

The session and cache runs check for deadlock. The others do not: their
systems stop for good (a stopped runtime, a poisoned stripe, a lost owner, a
fenced bus whose datastore stays marked, a closed subscriber), and that nothing
stops too early is what their liveness properties say.

### What the violated properties say

*Cache, fill race* (`cache_fill_race`). `get` fetches a record, then checks that
the cursor has reached the head, then inserts. If a commit falls between the
fetch and that check and the loop handles its invalidation (or jumps over it
while it initialises or resyncs), the check succeeds and the older record is
inserted. It is served, with the cursor at the head, until the key changes
again, the record expires or the cache is cleared. The crate describes itself
as coherent (`opc-session-cache/src/lib.rs:22`). `QuietHitsCurrent` states what
does hold: a hit is current if, between its fetch and its insert, nothing was
committed and the loop did not clear the cache.

*Re-pin* (`repin_own`). `begin_retirement` checks the record before it takes the
lease and commits on its generation number, which starts again after a
deletion: a slow call is committed over the next life of the record. `promote`
has the same shape. `activate` re-reads under its lease for exactly this reason
(`session.rs:934`), and `ActivationReplacesItsBirth` shows that this suffices.
The finalization of such a call then deletes the later birth's record, which
carries the old transition by now: `RebirthUntouched` is about the finalization
alone, which deletes the record that it wrote itself and nothing written since.

### What the other properties except

A property that holds says exactly how far the code goes; these exceptions are
behaviours of the code that a reader should know of.

- *Cache, rebuild to a shorter journal.* `rebuild_replication_state` clears the
  records and keeps the cursor. Above the new head, it makes the watch drop the
  next commits as duplicates, and what they replaced is served. `QuietHitsCurrent`
  and `CursorCatchesUp` except a journal that shrank (`shrunk`).
- *Cache, readiness.* A get that sees the cursor behind the head sets
  `watch_ready` to false, and only a newly opened stream sets it to true, while
  `docs/ha-design.md:839` says that hits are bypassed "until the watch loop
  catches up or resyncs". Reads stay correct (they go to the backend); no
  property promises that the cache is used again.
- *`recv`.* It pops, then loads the closed flag, and does not pop again. An event
  queued in between, followed by one that overflows the queue, stays behind the
  `None` that says the queue is drained. `DrainedIsCurrent` speaks of open
  subscribers only.
- *Swapped sends.* The datastore sends a version after releasing its mutex. Two
  workers can send in the opposite order; a watcher then compares its cursor
  with the older value and sleeps on a visible revision until the next commit.
  `CatchesUp` excepts a channel below the visible version.
- *SA mirror, late installs.* Removing an entry removes its epoch. An install
  left on an abandoned connection is accepted into the vacant entry, after a
  withdrawal or after a takeover. `NoNonceReuse` is about the first takeover of
  a generation that no withdrawal was called for.
- *SA mirror, coverage.* `CoverageReturns` excepts an SA the full standby has no
  room for.
- *Re-pin, exact retry.* A publication writes its fence, fails to read the owner
  back and takes itself back; the fence cannot be removed, the owner is. The maps
  now hold the fence of the grant without an owner. That is not live, so
  `contain_indeterminate_keyed_state` leaves it, and `same_fence_conflicting_owner`
  (`xdp.rs:1875`) refuses every retry of the same grant with "names a different
  owner", although no other owner has that generation; the doc comment of the
  operation (`xdp.rs:837`) says "Exact retry is idempotent." An emergency cut
  followed by a retry whose fence removal fails ends in the same state. Nothing
  is steered wrongly; a higher generation or the retirement of the activation
  clears it. `RefusedOnlyByResidue` excepts this residue and shows that it is
  the only refusal a call can meet.
- *Supervisor.* A heartbeat timeout replaces the first fatal failure; the drain
  can pass between the start of a runner and the storing of its handle, or miss
  a runner whose handle a second spawn replaced, so that Stopped is entered
  with the task alive (`StoppedIsQuiet` is about the other runners); a failure
  taken back before it is counted wraps the count, which is right again
  whenever nobody is between marking and counting (`DegradeCountSettles`); an
  abort may end a fatal runner between marking its failure and classifying it
  (`Dismissed` in `FatalStops`).

## Fairness

Nothing is assumed of clients, of the environment or of faults, and faults are
bounded, so a liveness run says what happens once faults stop.

- `SessionCache`: weak fairness of the watch loop, of each get and of each
  wrapper write in progress: they are tokio tasks, the locks they take are held
  for bounded work, the sleeps are bounded and the backend calls answer or fail.
  An entry lost by the backend with no later entry to reveal it is excepted: the
  loop has no way to notice it (gets do, and bypass the cache).
- `ConfigBus`: weak fairness of worker steps, of a restart's restore and of
  deadlines passing; strong fairness of `Expire`, because the worker's `select!`
  is random among its ready branches and requests may keep disabling it for a
  while.
- `ConfigFanout`, `ConfigWatch`: weak fairness of workers and consumers (tasks
  that are polled when woken; lost wake-ups are what the properties look for).
- `SaMirror`: weak fairness of an exchange in progress and of the owner's next
  install and checkpoint, which its timer drives.
- `Supervisor`: weak fairness of runner steps, of `spawn` storing its handle, of
  classification and of the drain; none for a task's own future, which may run
  for ever. An abort takes effect because futures yield, and the runtime mode
  has the drain monitor (the conformance mode has none).

`Repin` has no liveness property: a call may be dropped at any await, and
`retire_activation` only asks its caller to keep the request until it returns.

## Proofs

Every safety and action property that a passing run checks is also a theorem,
for every value of the constants that the `ASSUME`s allow. A module `X_proofs` holds the theorems about `X`: an inductive
invariant `Inv` with `Init => Inv` and `Inv /\ [Next]_vars => Inv'` (one lemma per
action), the theorem `Invariance == Spec => []Inv`, and the results read off it.

| Module | Theorem | States |
| --- | --- | --- |
| `SessionStore_proofs` | `TypeCorrect` | `[]TypeOK` |
| | `HistoryValid` | the key history satisfies `KeyRetention::valid` and `valid_retired_fence`, committed and staged |
| | `FencesObserved` | no issued fence is above the fence observed for its key |
| | `FencesUnique` | `FencesNeverReused`: no two acquisitions share a fence |
| | `HolderNewest` | `HolderIsNewest`: a guard that still validates has the newest fence of its key |
| | `FencesMonotonic` | `FenceNeverDecreases` |
| | `WritesFenced` | `WritesFollowFences`: a record is never replaced under an older fence |
| | `RefinesFencedLeases` | the backend implements `FencedLeases` (`ImplementsFencedLeases`) |
| | `AdmittedCommandsFinalize` | `FinalizationSucceeds`: what `ensure_key_capacity` admits is never refused later |
| | `MarksFollowRecords` | `ExpiryMarksFollowRecords` |
| | `ReplicaIsSource` | `ReplicaFollowsSource`: of `SessionReplication`, the replica is in the source's committed states and is never stuck |
| | `RedeliveryAccepted` | `RedeliveryIdempotent` |
| | `SourceIsStore` | `ReplSpec => Spec`: what is proved of the store holds of the source the runs check |
| `SessionCache_proofs` | `TypeCorrect` | `[]TypeOK`, with the channel's capacity and a cursor not ahead of the backend |
| | `WatchIsComplete` | `WatchLosesNothing` |
| | `QuietHitsAreCurrent` | `QuietHitsCurrent` |
| `ConfigBus_proofs` | `TypeCorrect` | `[]TypeOK` |
| | `KeysYieldOneRecord` | `OneRecordPerKey` |
| | `SuccessesAgree` | `AnswersAgree` |
| | `PendingIsDecidedOnce` | `PendingDecidedOnce` |
| | `SnapshotsAreDurable` | `SnapshotsDurable` |
| | `VersionsOnlyAdvance` | `VersionsNeverRegress` |
| | `LoneBusAgrees` | `IdleBusAgrees`, for one bus without late appends |
| `ConfigFanout_proofs` | `TypeCorrect` | `[]TypeOK` |
| | `QueuesStayFaithful` | `QueuesFaithful` |
| | `GapsAreAnnounced` | `NoSilentGap` |
| | `DrainedQueuesAreCurrent` | `DrainedIsCurrent` |
| `ConfigWatch_proofs` | `TypeCorrect` | `[]TypeOK` |
| | `StreamsGapFree` | `GapFree` |
| | `DeliveriesInOrder` | a delivery is the revision after the last one delivered |
| `SaMirror_proofs` | `TypeCorrect` | `[]TypeOK` |
| | `AcknowledgedIsHeld` | `ProtectedIsHeld` |
| | `TakeoverReusesNoNonce` | `NoNonceReuse` |
| | `CustodyNeverGoesBack` | `CustodyAdvances` |
| `Supervisor_proofs` | `TypeCorrect` | `[]TypeOK` |
| | `DegradeCountCorrect` | `DegradeCountSettles` |
| | `StoppedRuntimeIsQuiet` | `StoppedIsQuiet` |
| `Repin_proofs` | `TypeCorrect` | `[]TypeOK` |
| | `SteeringIsCommitted` | `SteersOnlyCommitted` |
| | `SteeringNeverRegresses` | `SteeringAdvances` |
| | `OnlyResiduesRefuse` | `RefusedOnlyByResidue`: no call is behind the maps or up against another owner of its generation; only its own fence without an owner can refuse it |
| | `ReplaysCommitOnce` | `CommittedOnce`, in the life of one record |
| | `ActivationFailsClosed` | `ActivationReplacesItsBirth` |
| | `FinalizationDeletesItsRefresh` | `RebirthUntouched`: what a finalization deletes is the Retiring record it wrote under its own lease |

### Assumptions

Bounds, limits, sizes and times are naturals, and what the code refuses to be
zero (an epoch's retirements, a page, the capacity of a channel, a queue or the
standby) is positive. `None` is none of the values it stands beside. Beyond that:

- `SessionStore`: keys are a finite set of numbers (their order is
  `compare_key_parts`).
- `SessionReplication`: the replica's own key limit is any number. That the next
  entry is accepted is claimed when it is at least the source's, and only then;
  a smaller replica may refuse entries, but what it has applied still equals the
  source. `None`, an error of the replay, is not a backend state (`NoneIsNoState`).
- `ConfigBus`: finitely many buses; a request names a rollback target exactly
  when it is a rollback. `LoneBusAgrees` has the hypothesis `Alone`: one bus and no
  append that lands after its call failed. With a second bus or a late append
  the snapshot of an idle bus can be behind its datastore until the next commit
  or restore finds out, so there the property is false and not claimed.
- `SaMirror`: an attested jump is at least `MaxLag`, what an owner may send after a
  checkpoint. The nonce theorem would be false without it; it is the condition
  the takeover's caller attests to.
- `Supervisor`: finitely many tasks, spawn calls and checkers, because the degrade
  count is a cardinality.

### The inductive invariants

*Session store.* `StoreInv(s)`: the floors and counters are valid
(`RetentionValid`); a retired key's fence is bounded by the floor or maximum of
the epoch it retired in (`RetiredFencesValid`), which is what makes it safe to
drop two epochs later; and every row's lease and record carry a fence not above
the key's exact fence, which is below the global counter (`RowsFenced`). `Inv`
states it of `store` and `staged`, together with `Advances(store, staged)`, that the
issued guards are observed and unique and below the counter (`GuardsSafe`), and
that the guard a command will return is new or a renewal (`PendingGuardSafe`).
Each edit of one row is an instance of `RowEdit`, proved safe once in
`RowEditKeeps`; `RotateKeeps` and `RetireKeeps` are the two steps that drop history.

The refinement needs to know what the running command is going to publish:
`EffectInv` says that `staged` is one grant, renewal, release or sequence of writes
away from the committed state *pruned at the command time*, which is the state
the abstract service sees at that time. Finalization only drops history, which
the mapping does not show. `AdmittedCommandsFinalize` needs a count: `CapacityInv`
bounds the keys that finalization cannot drop (`Live`), and follows how far the
exact history is emptied by each of the two capacity rotations.

*Replication.* The source finalizes in steps, the replica replays an entry in
one, from the entry alone. `ReplayInv` runs the replay beside the command: at
every step of the command, the operations logged so far, replayed on the
committed state (`Applied`) and retired up to the key the source has reached
(`RetireBelow`) or rotated as often as the source has (`RotateTimes`), give the
staged state. They do not give it exactly: a replayed renewal or release calls
`set_fence`, which makes its key a retirement candidate, and the command itself
does not. `Near` says that the replay differs by such extra candidates at most,
that they are live keys not yet visited, and so that the loop passes over them;
when the source has none left the replay has none either (`AllRetired`). Without
`CredsIssued`, that credentials in use are below the counter, a replayed renewal
could move the counter. Each command has a lemma that its logged operation,
replayed on the state the command met, is accepted and has its effect
(`AcquireReplayed` to `RefreshReplayed`), and at the commit they add up to
`CommitReplayed`. `ReplicaInv` then says that the entries and committed states of
the source fit together (`Faithful`) and that the replica has applied a prefix and
keeps exactly the uncompacted end of it (`Follows`); a delivery and, by induction,
a rebuild from any prefix keep that.

*Session cache.* A record is current because of what happened on its way. A fill
that nothing disturbed brings the backend's own record (`ReaderSafe`); the cursor
then moves only over entries whose keys the loop evicts in the same step
(`CacheSafe`, with `ItemsSafe`: an item of the stream is what was committed); and
where the cursor jumps instead, while the loop initialises or after a resync, no
undisturbed record and no undisturbed fill past its recheck has survived the
loop's clear (`Jumping`). `WatchSafe` is the watch's own argument: everything
between the cursor and the watcher's position is in the backlog or the channel,
and the position is above the head.

*Config bus.* The datastore accepts an append only on its head, and a head that
was passed never comes back. So what a job has read (that a key is new, what
a pending commit is, what a rollback restores) is needed only while the head it
builds on is still the head: `WriteInv` and `LocalInv` state it that way, and for
that reason no step of another bus and no late append can disturb it.
`HistoryInv` says that records are chained, keys are unique and every pending
record is decided by its successor. `LoneInv` adds that the head of a lone,
unfenced bus is the one it shows, or the one its job is about to publish.

*Fan-out.* The queue is reasoned about as a value. The charge of a queue is a sum
over its events; the lemmas about `Sums` say what an append and the removal of
the first event do to it, and `LeastNumber` provides the least-number principle
they need. `SubscriberInv` relates a queue to the published version, to the
fan-out in progress (a subscriber still to be served is one version behind) and
to what its consumer applied (a strict queue continues where the consumer is, or
is closed, or starts with a resync marker).

*Committed watch.* A marked head belongs to exactly one worker, what is sent is
visible (`MarkedHead`), and a stream loads a page only with an empty backlog
(`BacklogDrained`).

*SA mirror.* `CoverInv`: the custody a first takeover would find, and every late
install that could still become that custody, covers what the owner sent with
those keys up to the attested lag. It excepts generations a withdrawal was
called for. That exception was found by this proof: with a third key a late
install of a withdrawn generation is accepted into the vacant entry and taken
over with an old counter, which the bounds of the run did not reach; `withdrawn`
therefore records the highest epoch that a withdrawal was *called* for.

*Supervisor.* `Lifecycle` ties runners, spawn calls and stored handles together,
`DrainRounds` says whom each round of the drain waits for. The count is kept by
counting, per step, who enters and leaves the sets of failed tasks and of
observers between marking and counting.

*Re-pin.* Fences are the backbone: each is granted once, used for one write, and
what a host's maps hold is never ahead of the record (`HostInv`). The generation,
which restarts after a deletion, is not enough to identify a birth, so `UpdateOK`
and `CallOK` say what a lease that is still held guarantees of the record.
`ReaderInv` is why a replay commits once: all calls and late writes of one re-pin
go by the same generation, and one that committed has moved the record past it.

Facts about a whole sequence (the newest change to a key, the last event of a
kind) are proved without an induction rule: the set of positions is finite and
not empty, strict inclusion of finite sets is well-founded
(`FS_StrictSubsetOrderingWellFounded`), and a minimal element is the position
wanted (`LastPosition`, `LeastNumber`). The loops of a replay are functions on
`0..n`; `SetInduction`, from the same fact with the property given as a set, proves
that those functions exist and step as written (`RetireBelowSteps`,
`RotateTimesSteps`, `RebuiltSteps`, `ReplayAllAppend`).

### Only model-checked

Liveness under fairness, which the provers do not handle: `CursorCatchesUp`,
`PendingDecided`, `RecvReturns`, `CatchesUp`, `CoverageReturns`, `FatalStops`.

## Not modelled

*Session store:* the async recovery floor and the Recover boundary of the replay
policy, internal and scope keys, the Start/Continue framing of large commands,
protected-roster operations, restore-scan paging, `acquired_at`, u64 exhaustion,
the `lab-memory` feature and capability flags, error kinds. *Cache:* a backend
without ordered watch, dropping the cache.

*Config bus:* `ValidateOnly`, labels, principal and transport matching, the
shadow bus, audit, version exhaustion, the floor of retained history, the
persistent datastores and the consensus adapter.

*SA mirror:* frame coding, TLS, key bytes. *Supervisor:* start-up, probes,
admission. *Re-pin:* session-level journals (`session_repin.rs`),
`reconcile_committed`, unbound IKE births, quiescing and detaching a host, eBPF.

The modelled lines are a small share of the repository: most of its 1.4 million
lines are codecs and generated protocol types, eBPF and netlink programming, SQL
and storage layout, Openraft plumbing, servers over XML and JSON, tests beside
the code and evidence tooling. Those have no interleaving to explore, or only
one that belongs to a third-party library or the kernel. The remaining stateful
components are listed in `PROJECT.json` with the reason.

## Plan

1. *Ownership, hand-over and owned sessions*: two coordinators over the
   abstract lease service; claims, transfers, lost answers and late renewals.
2. *Session-level re-pin journals* over several SAs on top of `Repin`.
3. *Convergence of retirement*: that replays by a caller who keeps the request
   finish a begun retirement, as a liveness property of `Repin`.
4. *Alarm manager, audit store, Diameter election, voter slots*: one module
   each.
