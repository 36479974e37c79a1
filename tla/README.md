# A TLA+ development of tor-socks5

tor-socks5 is a local SOCKS5 / HTTP CONNECT gateway into the Tor network, with
its own DNS server and an Android build. Its hard parts are not the protocols,
which live in libraries, but the state they share: files that several processes
rewrite, a pool of bridges that is fetched, verified, promoted and pruned at the
same time, loops that judge a running Tor client by evidence that ages, a
registry of users that a login may change, and servers that must stop in the
right order while requests are at work. The modules here model that state and the
steps that change it. TLC checks them on small instances; for the file protocols,
the candidate pool, authentication, the servers' admission and shutdown, the
Android engine, the bridge checks and maintenance, TLAPS proves the safety
properties for every number of processes.

`PROJECT.json` lists the components, the runs, the mutants that show each
property can fail, the source lines every definition stands for, the findings,
the hazards and the theorems. Paths below are relative to the repository.

## 1. Inventory

| component | module | state | hard behaviour |
|---|---|---|---|
| temp-file ownership, `packages/persist-lock/src/temp.rs` | `TempFile` | target, temps, companion locks, the section lock | sweeps race with live writers; deaths between any two system calls; lock files unlinked and created again |
| store writer, `bridge_store_writer.rs`, `path_lock.rs` | `StoreWriter`, `UpdateLog` | op channel, retained snapshot, lock, publish in flight, retry deadline, file | failed and retried publishes, mutations during a publish, panics, overlapping closes, crash |
| authentication, `packages/auth`, and `users_cli` | `Auth` | users file, registry in memory, cache, two locks | two first uses, a command between check and save, a save that fails after its rename, restart |
| candidate pool, `candidate_pool.rs`, `fetch_merge.rs`, `bridges_cmd.rs`, prune in `tor_setup.rs` | `CandidatePool` | pool file, bridges file, two locks | the pool lock is released while a drain promotes; lock timeouts; dying processes; other texts of one bridge |
| bridge records, `packages/bridge-store` | `BridgeHealth` | one entry per bridge: counters, times, retirement, sources | saturating counters, windows, ties, bounded selection |
| what feeds them, `arti_observability.rs` and the verification rounds | `HealthStore` | the store, a bounded sink, rounds in flight | a full sink, outcomes recorded minutes after the selection, overlapping rounds |
| maintenance and selection, `bridge_maintenance.rs`, `channel_probe.rs`, `tor_setup.rs` | `Maintenance` | the client's bridge set, the published list, flags, failure counters | a recheck in the middle of a discovery; refused sets; passes that fail; the live route probed dead |
| stale-channel watchdog, `tor_watchdog_runtime.rs` | `Watchdog` | counters, streaks, cooldown, backoff | counters read one by one while connections count |
| failover and warmer, `tor_watchdog_runtime.rs`, `bridge_warmer.rs` | `Steering` | evidence per bridge, signals given | configuration, list and store read one after another and rewritten meanwhile |
| Android watchdogs, `engine_bootstrap.rs` | `WarmPool` | rotation, published list, ages | resets, top-ups and the start-up warm-up interleave |
| proxy server, `server.rs`, `shutdown.rs`, `socks5-proto`, `conn_health.rs` | `Server` | permits, verification slots, connection tasks, counters, tunnel slot, producers, writer | abandoned verifications still hold slots; counter-by-counter swaps; a producer that never ends |
| Android engine, `packages/android-ffi` | `Engine` | slot, generation, status, engine threads, tasks, shared tunnel, store | a stop times out and the engine ends later; panics; unguarded writes of an old engine; load-change-save cycles |
| bridge checks on Android, `jni_verify.rs`, `pt_reap.rs` | `BridgeVerify` | batches, scratch directories, children by pid | pids reused between listing, handle and signal; reads under /proc that fail |
| bridge checks of the CLI, `bridge_verifier.rs` | `CliVerify` | verifier lock, workers, markers | a decision that times out while its worker runs on; a sweep whose calls fail |
| cache snapshot, `bridge-verify-core/src/snapshot.rs` | `CacheSnapshot` | the copy, its sidecars, two deadlines | a database that grows under the backup; a file that cannot be removed |
| probe DNS, `packages/bridge-probe` | `ProbeDns` | live cache, fallback store, generation, registry of searches, saves | lookups that straddle a network change; cancelled searches; overlapping saves |
| provider race under it | `DohRace` | attempts, slots, scores | attempts outlive the wave that started them |
| DNS server, `packages/dns-server/src/server` | `DnsServer` | listener pairs, permits, requests, the end | refreshes compete with clients; connections dropped at any await; the order of the end |
| its packet cache | `DnsCache` | entries, two clocks, saves | the wall clock is set back; a save outlives its caller |
| its backends | `DnsBackend` | lookups, the gated read of the system's list, the published endpoints, the host's addresses | list, listeners and addresses change between clone, scan, probe and query; the server must not ask itself in a loop |
| its statistics | `DnsStatistics` | ingress, ledger, generations and leases, the published list | admission against shutdown, crashes, a full queue |

Section 7 says what is left out.

### Interactions

`TempFile` is the save of every other module: `StoreWriter`, `Auth`,
`CandidatePool`, `ProbeDns` and `DnsCache` take from it that a reader sees a whole
file and that a save may report an error after its rename (the directory fsync).
The path lock appears in `StoreWriter` (blocking for the actor, bounded for CLI
processes), in `Auth` (blocking for a login, bounded for commands) and in
`CandidatePool` (bounded). An update of `HealthStore`, `Steering` or `Maintenance`
is one mutation of `StoreWriter`, hence atomic there. `Server` sees the users as a
verdict (`Auth`), the background tasks as producers and the store as the writer it
closes last. A drain of `CandidatePool` takes its admission verdict from
`CliVerify`. `Maintenance` prunes the configuration by the transaction that
`CandidatePool` models. `Engine` starts the tasks of `WarmPool` and stops them.
A check of `BridgeVerify` or `CliVerify` starts from a `CacheSnapshot`.
`DnsServer` holds the other three DNS modules through one call each.

## 2. How the modules are written

One module per component; its state is its VARIABLES, its actions are the steps
between two awaits, lock releases or system calls. Definitions called like a known
one with a twist (`VerifyOpen`, `JoinIdle`, ...) are the mutants: plausible bugs
that must break a property. They are not part of any specification.

**TempFile** - one target file. One step is one system call. Names map to
inodes and locks belong to inodes, so a companion that is unlinked and created
again is another lock. `Writers` run `TempFileGuard` (create, write, fsync,
rename, drop), `Cleaners` run `cleanup_temp_files`; `Die` ends any process and
frees its locks. `Collisions` lets two live writers pick one name (one pid and
sequence number on a shared volume); `Degraded` lets `Drop` fail to get the
section. The code relies on unique names when it is degraded, and so does the
assumption `FlagsAssumption`.

**UpdateLog** - what the store promises: a set of published updates that only
grows, updates held back by the angel, and no other writer while some are.

**StoreWriter** - the actor (`pc`, `op`, retained snapshot, dirty flag, retry
deadline, publish in flight), callers of `apply` and `close`, the blocking
publish, CLI processes with lock, load, save and unlock, and death of the angel.
A mutation is an identifier, the file the set of mutations in it. The refinement
maps `published` to the file and `pending` to what the snapshot has beyond it.

**Auth** - `AuthState::verify` step by step (cache lookup, Argon2 outside the
lock, first-use claim under file lock and write guard, reload, save, commit,
cache insert), the `users` commands and a restart. A hash is named by whoever
computed it, so two hashes of one password differ, as salts make them.

**CandidatePool** - pool and bridges file, each with its lock; workers
(`top_up_working` of the angel, `bridges fetch`) that refresh, migrate sources,
drain, promote and confirm; pruners. Lines are texts, `Key` is the bridge
identity: the pool deduplicates by identity, promotion by text.

**BridgeHealth, HealthStore** - `BridgeHealth` has an operator for every
observation of an entry and for the three rankings with `take_best`, a heap
bounded at the limit. `HealthStore` feeds them: probe rounds, warm-ups, credits,
guard verdicts through the bounded sink, and verification rounds that select, run
for a while and record, several at a time.

**Watchdog** - one load of one counter is one step, between which connections
count. The counters are kept as what they grew since the last read. A tick ends in
one of the early returns of the loop or in the termination of the channels. The
instance has a configured cooldown shorter and one longer than the extended one.

**Steering** - a failover or warmer tick as a sequence of reads (configuration,
active list, store) with maintenance changing all three in between. The store may
start with failures of an earlier run; a signal keeps whether the store that was read
held a failure of this one.

**Maintenance** - `refresh` and `refresh_routes` of the one loop, with every pass
and every way a pass fails: route test, probe round, prune, authentication,
activation, discovery, recheck. Requests and failure notices arrive at any moment.

**WarmPool** - the rotation, top-ups, stall probes, resets, what is published; the
bootstrap stall watchdog is a scenario of its own.

**Server** - accept loops, permits, connection tasks from handshake to relay,
blocking verifications with their own slots, all health counters and the
summary that swaps them one by one, and `run_server` from the stop signal over
cancel, drain, join with its time budget and writer close to exit. The deadline timer
covers everything from the first byte to the CONNECT request, verification included.
What the summaries logged is kept per counter, to compare it with how the tasks ended.

**Engine** - an engine is named by its generation. `nativeStart` and `nativeStop`
with the slot, the parked handle and the timeout; the engine thread from the JVM
attach to the last status, with its selects; the bootstrap callback that outlives
the bootstrap; the tasks; every load-change-save of the health store.

**BridgeVerify, CliVerify** - the two verifiers. A child is a pid with the marker
of the check that started it; the kernel may end it and give its pid to another
between any two steps of a sweep. `CliVerify` has the lock, the deadline of a
decision and the drain that joins workers. The sweeps are best effort, and the models
have every way in which they skip a child: on Android a process whose `stat` cannot be
read, an environment that cannot be read (which is reported when first read and not
when read again), errors of the handle and of the signal; on Windows a snapshot that
fails or breaks off and a process that cannot be opened or terminated. `missed` and
`spared` remember of which child this happened.

**Checks** - both verifiers and the snapshot they start from, side by side: the
composition whose invariant is `ChecksInv`. Which batches and calls may be asked for
(`BatchScenarios`, `CallScenarios`) is a parameter of the two verifiers.

**CacheSnapshot** - stale files, of which a journal or WAL that cannot be removed is
passed over (`stuck`), backup steps that answer `More`, `Busy` or
`Done`, deadlines, clean-up, the copy of the other files.

**ProbeDns, DohRace** - `resolve_and_probe` from cache check to invalidation,
with the registry of coalesced searches, the flush in its two halves and saves with
their generations. A search's outcome is a choice there; `DohRace` is that search.

**DnsServer, DnsCache, DnsBackend, DnsStatistics** - the lifecycle with its
permits; entries that age by two clocks; the traversals with their loop guard; ingress,
ledger, leases, scheduler and shutdown of the statistics. In `DnsBackend` a lookup
clones the endpoints when it begins, judges a server by its address, probes it and
compares the route, sends, and repeats a truncated exchange over TCP, while listeners
are recovered, the system's list is rewritten and the host's addresses change.

## 3. What the runs check

| run | what it shows | states |
|---|---|---|
| `tempfile` | `LiveTempKept`: nobody unlinks or replaces a live writer's temp; `PublishesOwn`: a rename publishes the writer's own file, whole and synced; `NoSubstitution`: no companion is replaced while locked; `SectionEnds`, `LeftoversSwept`: every holder leaves the section and leftovers of dead writers go, although two sweeps skip each other's section | 237 thousand |
| `store_writer` | `StoreInv` (the inductive invariant), `AckedKept`, `AckedPublished`, `CloseReturns`, and `LogSpec`: the writer implements `UpdateLog` | 65 thousand |
| `auth` | `CacheSound`: a cache hit would also pass Argon2; `FirstWins`; `AcceptedPersisted`; `Serial`: every write is one edit of what the file held, and memory follows the file; `LoginReturns` | 590 thousand |
| `pool` | `ConfigUnique`, `NeverLost`, `NoResurrection` | 959 thousand |
| `pool_live` | `NotStarved`: every candidate of the preferred transport is attempted or leaves | 77 thousand |
| `upkeep` | `UpkeepInv`: selections equal a full sort, counted failures are a window apart, no bridge waits for its check while others are checked again and again; heals come after their cooldowns, without a success inside the stale window, and cannot be put off for ever; signals stay in margin and budget and need a failure of this run; the rotation has only bridges that warmed. `VerdictsStand`: a circuit verdict is taken back by a success of the guard, or goes with its entry when a bridge at a threshold is pruned, and in no other way | 2.02 million |
| `maintenance` | `MaintenanceInv`: client, loop and published list agree except while a new set is being handed over, and the client always has a bridge; while a discovery runs, requests are heard exactly when the last pass, recheck or not, found too little; `RouteKept`: bridges of a route that is kept are neither blamed nor replaced for a probe's sake; `MaintSettles` | 366 thousand |
| `server` | `Conserved`: permits and slots; `FailClosed`: only a vouched client gets through; `EveryEndReported`: over all summaries every connection is started once and every end counted once, under its own class, and a panic or a refused request in none; `WriterLast`: no producer writes after the close, unless it was abandoned; `HandshakeEnds`: handshakes end, and who waits for a permit gets one unless connections past their handshake hold all; `ShutdownEnds` | 87 thousand |
| `engine` | `EngineInv`: never two engines, one handle, no lost store update; `StatusTrue`: the status is of an engine that lives; `ChecksInv`: sweeps hit only their own children; an answered check leaves a child only if its sweep said so or a read of that child failed; after a CLI sweep the only marked children left are those it failed to see or to terminate; one CLI batch at a time, workers are joined, snapshots are whole or empty, with no sidecar but one whose removal failed; `WorkEnds` | 356 thousand |
| `probe_dns` | `DnsInv`: the cache has answers of this network only, one search per name and generation, races keep to their slots; `StoresForward`: no late failure hides an answer, no save loses an answer or rolls back one that returned Ok; `DnsReturns` | 414 thousand |
| `dns_server` | `ResolverInv`: accepted questions are booked before the join, the ledger adds up, leased generations stay, permits are conserved, the end is in order, and the server asks itself only through a listener published after the lookup began or an address that changed after the probe, which starts no loop; `ResolverForward`: ledger, file and lifetimes never move back, and no client is refused for a refresh; `ResolverEnds` | 251 thousand |

`server_connect_rate` expects a violation: a failed CONNECT is counted twice
although the comment on the counters calls them a cohort of completions.

### Bounds

Two actors of each kind suffice for the races at stake, which are between a
check and an act of one actor and an act of another; the third party is a reader
(`TempFile`), a process of another kind (`StoreWriter`, `Auth`) or a pruner
(`CandidatePool`). `ChannelCap` = 1 makes the channel full with two callers;
`Ingress`, `SinkCap`, `MarkersCap`, `CapEntries` and `CapBytes` are as small.
`MaxAttempts` = 2 is below the length of the pool in `pool_live`, so batches
rotate. One permit and one verification slot with two connections make each run
out; two backend permits let a refresh and a client compete for the last one. One
crash or restart is enough to lose memory once. The `pool` instance has one text
per bridge to keep all failures; `pool_live` has two texts of one bridge. The
safety part of `server` was also explored with three connections and two permits
(6 million states). `U32` = 9 is above every count the bounded clock allows, so
that saturation is reached only by retirement, as in the code.

Parts that share no state get scenarios of their own in one run (`upkeep`,
`engine`, `dns_server`, `probe_dns`, and the two casts of `tempfile`): the initial
state chooses one, the others rest, and state spaces add up instead of multiplying.
A scenario spends named budgets (`starts`, `faults`, `clocks`, `restarts`, ...),
each in the guard of the action it bounds. In `engine` the reads of a sweep may fail in
the scenario in which pids are reused under it and on the device without pidfd, and one
call of a CLI sweep may fail (`slips`). In `server` a Tor server runs without the
summary and a server in front of an upstream proxy with it: summary and producers
share only the clock.

Deadlock is checked for `TempFile` and `CandidatePool`, which run for ever. The
others may stop: all calls answered, all commands ended, the server gone, or a
scenario's budget spent.

### Fairness

- `TempFile`: a process inside a save goes on, and readers keep loading the file,
  each load being a sweep. Nothing forces a save to begin. `WriterRuns` says that a
  writer which does not wait infinitely often moves infinitely often.
- `StoreWriter`: the runtime polls the actor and runs blocking jobs; the clock
  advances; started callers and CLI processes go on. Strong fairness of a
  successful publish: the retries are there for errors that pass. Without it a
  disk that fails for ever keeps an update in memory, as the code intends.
- `Auth`: the blocking pool runs logins and started commands go on. A lock file
  that cannot be opened is not something a login may count on, so that failure is
  outside the fair steps.
- `CandidatePool`: maintenance is triggered again and again; a line that is in a
  batch infinitely often is attempted infinitely often, which stands for the
  shuffle of a batch.
- `Server`: the handshake timer fires, a failed task reports, a request that was read
  is acted on (its reply of a few bytes is taken not to block), an accept loop takes a
  free permit, and `run_server` goes on. Clients, verifications, egress and producers
  may hang.
- `engine`, `probe_dns`, `dns_server`, `maintenance`: threads and tasks are
  scheduled, and every wait with a timeout ends: the system does not stand still
  while a step of its own is possible. Nothing is assumed of callers, children,
  ticks, faults, clocks or crashes. In `engine` and `probe_dns` this is the formula
  `[]<>~ENABLED Steps \/ []<><<TRUE>>_vars`, which is weaker than weak fairness
  of the steps.

## 4. What is proved

Proofs hold for any sets of processes, files, lines and accounts and any bounds that
satisfy the named assumptions of the module; the runs evaluate those assumptions on
their instances. Every theorem is about the specification that the runs check, and
each inductive invariant was model-checked before it was proved.

| module | inductive invariant | theorems |
|---|---|---|
| `TempFileProofs` | `Ownership` | `TypeCorrect`, `LiveTempSafe`, `Exclusive`, `CompleteTarget`, `OwnPublication`, `NoLockSubstitution` |
| `StoreWriterProofs` | `StoreInv` | `AckedSafe`, `FailedAbsent`, `Refinement` |
| `AuthProofs` | `AuthInv` | `CacheIsSound`, `AcceptedIsPersisted`, `FirstUseWins`, `TransactionsAreSerial` |
| `PoolProofs` | `PoolInv` | `ConfigStaysUnique`, `NothingIsLost`, `NothingIsResurrected` |
| `ServerProofs` | `ServerInv` | `AdmissionIsExact`, `AuthenticationFailsClosed`, `SummariesLoseNothing`, `WriterClosesLast` |
| `EngineProofs` | `EngInv` | `OneEngineAtATime`, `StatusIsTrue` |
| `VerifyProofs` | `VInv` | `BatchesHold` |
| `ChecksProofs` | `VInv`, `CInv`, `SInv`; `MaintInv` | `ChecksHold`; `ClientKeepsBridges`, `WorkingRouteIsKept` |

**TempFileProofs**. `LiveTempKept` alone is not inductive: to
know that a sweep does not unlink a live temp one has to know that its lock attempt
would have failed, hence that the writer holds a lock on the inode its companion's
name has now (`OwnersLocked`, `LocksOpen`), hence that nobody replaced that name,
hence that names change only inside the section (`InSection`), and that what a sweep
believes of an entry is still so (`SweepsKnow`, `NamesHeld`).

**StoreWriterProofs**. `OpsOnce` (an op is in one place only, so it is applied and
answered at most once), `Locked` (whoever has a snapshot has the lock), `Fresh`
(hence a snapshot contains the file), `Landed` and `AckedKept`. `Fresh` is what
refinement of `UpdateLog` needs: without it a publish could remove an update of
another process.

**AuthProofs**. Whoever is inside a transaction holds the path lock (`Locked`), so
what it is about to save is its edit of the file as it stands (`Planned`): that is
`Serial`. A hash that a login, the cache or a registry carries was published before
(`Circulating`) and the password of a published hash never changes (`Settled`), so a
cache entry stays true and an acceptance stays justified. `FirstWins` needs more:
until a command changes an account, one hash serves all its logins (`OneHash`).

**PoolProofs**. Between load and write an actor holds the lock of the file and knows
what is in it, so a write replaces what it was computed from; and what a drain counts
as promoted is in the configuration or was pruned from it since, which is why
shedding it from the pool loses nothing, although the pool lock is released in the
middle of a drain. The list operations (merging, promoting, deduplicating) are
recursive functions over a prefix. The library's induction theorems cannot be used
here, so induction is done on a set: the numbers up to the length for which the
statement holds contain 0 and are closed under successor (`UpTo`, `Recursion`).

**ServerProofs**. Permits are exact because a connection sits in one accept loop
before it becomes a task (`Loops`) and is verified once (`Verified`): permits and
slots are counted as cardinalities of the tasks that hold them. A failure always has
a class (`Classified`), and what was logged and what a counter still holds are together
the tasks that ended in its class, whichever counters a summary has swapped, which is
`EveryEndReported` itself; the join leaves only abandoned producers behind (`Handover`).

**EngineProofs**. The one live thread is that of the current generation and its
handle is in the slot or with the one call that stops it (`Handles`); engines not yet
started are untouched (`Unstarted`); a panic is recorded only on the way out
(`Panicked`); a progress callback runs only while its runtime exists (`Forwarding`);
one writer at a time has a copy of the health store (`OneWriter`).

**VerifyProofs, ChecksProofs**. A sweep that lists pids, opens handles and signals
hits only its own children because a handle is bound to a live process and, once
proved, to a child of the check that holds it (`Held`). A child of which no read failed
is in sight of its check's sweep or its check is noted (`Children`); a step may age a
process, that is end it or mark it missed, and never the reverse (`Aged`). Every bridge
before `next` is answered or with exactly one check (`Taken`). For the CLI: markers in
use are registered (`Owned`), the aims of a sweep know which pids have changed hands and
hold every marked child that is not spared (`Aimed`), and a started worker is tracked
until the drain has joined it (`Awaited`). In a snapshot a sidecar is there only with
`stuck`. `VerifyAssumption` asks besides that the null value is neither a name nor a
process.
Each action is first shown to be one of a few shapes of step, and each shape to keep
the invariant. `ChecksHold` joins the three parts; `ScenariosAssumption` of
`MCEngine` says that what the run may ask for is what the theorem allows. The
maintenance part needs besides `MaintenanceInv` only where in its cycle the loop is
(`Cycling`), what it has counted there (`Counting`) and which flags there are
(`Belled`).

## 5. What is only model-checked

- Liveness: all `...Ends` and `...Returns`, `AckedPublished`, `LeftoversSwept`,
  `MaintSettles`, `NotStarved`. Fairness and ENABLED are outside the prover's reach.
- `UpkeepInv` and `VerdictsStand`: they rest on what the three rankings and
  `take_best` compute, which is sorting by recursive operators and folds.
- `DnsInv` and `StoresForward` of the probe's resolver: coalescing rests on a free
  cell and a free version always being left, which the budgets of the instance
  guarantee and no relation between the constants does; the sweep of the registry is
  a fold over a sequence.
- `ResolverInv` and `ResolverForward` of the DNS server: four components with
  ledgers that are sums over sets and a cache bounded by bytes, folds too.

## 6. Where comments and code differ

Met while modelling; the first is a run of its own, the others are described here.

- `conn_health.rs:241`: a failed CONNECT is counted by `handle_client` and again by
  the loop that classifies its error (`server_connect_rate`).
- `bridge_store_writer.rs:446`: a mutation that panics right after a clean load
  keeps snapshot and lock, although `:193` says the snapshot is dropped and `:50`
  that a clean state is `store = None`.
- `bridge_store_writer.rs:472`: the second of two overlapping closes reports an
  error although the flush succeeded; `:217` promises `Ok`.
- `auth/src/state.rs:436`: a save that fails after its rename refuses the login, but
  the account is claimed on disk; `:22` says it stays claimable.
- `fetch_merge.rs:687`: the refresh inside a top-up excludes by the configuration
  from before the drain and can pool a bridge that was just promoted; `:149` says
  what is configured is dropped.
- `engine.rs:431`: the bootstrap callback tests `reached_ready` and then writes the
  percentage, so a late event can put Starting over On until the next status; two
  forwarders can also move the percentage back.
- `jni_engine.rs:549`: after a stop that timed out only another `nativeStop` frees
  the parked handle; waiting, which the message offers, does not.
- `engine.rs`: `onReady` comes before the shared tunnel is set; a panic after On
  skips the teardown, so the shared tunnel stays until the next start; the warm-up
  may write the active list after it was cleared.
- `bridge_maintenance.rs`: a bridge pruned in a cycle can be selected again by a
  recheck of the same cycle; a `refresh` that ends with an error leaves the
  `needed` flag as it was.
- `tor_watchdog_runtime.rs:621`: after a run of failures the cooldown is the fixed
  extended one even when the configured one is longer, although `:615` says "never act
  more often than configured". The instance has both orders, and `WatchdogInv` says what
  holds: after a heal that worked the configured cooldown, after any the shorter one.
- `tor_watchdog_runtime.rs:215`: evidence of an earlier run "must not arm a
  guard-failure signal", but only the time of the last observation is compared, so one
  failure of this run on top of old ones reaches the threshold.
- `observe.rs:126`: a bridge is retired as "permanently unusable", but a prune forgets
  the entry and with it the retirement. A drain with a success and a failure of one
  guard, in either order, leaves no failure counted.
- `engine_bootstrap.rs`: a top-up with an empty rotation publishes an empty list; a
  reset that retires members but warms none leaves them in the published list; a
  start-up warm-up that ends late publishes over the rotation.
- `bridge_verifier.rs`: a failed check does note the attempt, though a test's
  comment says it records nothing; a round whose task panics notes nothing. On
  Windows a sweep opens a process by pid after listing it, which `OneBatch` states
  as the exception it is.
- `bridge_verifier.rs:575` says of a process that cannot be opened that "the end state
  either way is not running", but a refused open or termination leaves it running, and
  a failed snapshot (`:486`) leaves every child, without a word; later sweeps try again.
- `android-ffi/src/pt_reap.rs`: the children are listed before the pidfd gate is
  tried, not after it as the comment has it. `:27` says every failure but ESRCH "is
  surfaced -- never swallowed"; a `stat` that cannot be read (`:199`) and an environment
  that cannot be read again (`:425`) pass over the child silently.
- `snapshot.rs:47`: a stale journal or WAL "would be actively harmful", but at the start
  its removal is not checked (`:192`).
- `dns-server/src/server/server.rs:620`: the endpoints are cloned once per lookup, so a
  listener recovered meanwhile is unknown to its guard, and the repetition over TCP
  (`overrides.rs:279`) is not probed again. `NoLoop` states both gaps and that neither
  makes a loop.
- `dns.rs:717`: a save whose directory fsync fails has replaced the file and is not
  counted as published, so an older save still in flight may write over it; `:640`
  says the generations prevent rollback. `StoresForward` states what does hold:
  nothing a save reported as done is rolled back.
- `cache.rs:52`: a saved lease grows when the wall clock is set back between save
  and load, and only then; `DnsCache` states that bound.

## 7. What is not modelled and why

Byte protocols (SOCKS5, HTTP framing and redirects, DNS wire format, configuration
and access-list text) are parsing and belong to tests; models take their verdicts as
inputs. arti, its channels and transports are a library: a tunnel is a reference, a
connection attempt an outcome. Dialling in the probe is I/O. Onion services are
independent accept loops without shared state; vanity search, startup, service
installation and help are sequential; pt-helper is a launcher. The retry of the
proxy's own listeners adds accept loops that `Server` has from the start.
Transport summaries and single-field getters of the store change nothing, and the
summary by source only decides which sources a fetch round skips. On Windows, file
replacement differs; the models follow the Unix branches.

Abstractions worth knowing: Argon2 and HMAC are perfect; times are reduced to
"deadline passed or not" or to a few ticks; a disk write that reports success is
durable; the random shuffle of a batch is a free choice.
