----------------------------- MODULE CandidatePool --------------------------
(***************************************************************************)
(* The pool of unverified bridge candidates and the working configuration  *)
(* it feeds: CandidatePool (apps/socks5-proxy/src/bridges/                 *)
(* candidate_pool.rs), refresh, drain and promotion                        *)
(* (.../fetch/fetch_merge/fetch_merge.rs), the `bridges fetch` command     *)
(* (.../fetch/bridges_cmd.rs) and the prune of dead bridges from the       *)
(* config (.../tor/tor_setup.rs).                                          *)
(*                                                                         *)
(* Both files are read and replaced whole (module TempFile), each under    *)
(* its own PathLock.  A worker is the maintenance task of the angel or a   *)
(* `bridges fetch` process; a pruner is a health round of either, which    *)
(* runs beside them.  What a drain notes in the health store goes through  *)
(* module StoreWriter and touches neither file.                            *)
(***************************************************************************)
EXTENDS Integers, Sequences, Functions

CONSTANTS
    Lines,          \* bridge lines, as text
    Key,            \* bridge_identity of a line: several texts may share one
    Eligible,       \* lines of the preferred transport; all without preference
    Lists,          \* what the sources may answer, deduplicated by identity
    Angels,         \* maintenance tasks: top_up_working
    Commands,       \* `bridges fetch` processes
    Pruners,        \* health rounds that prune the config
    Target,         \* bridges to promote
    MaxAttempts,    \* MAX_DRAIN_ATTEMPTS, below 50 times any target
    StartSources,   \* are the configured source URLs current?
    Faulty,         \* may locks time out, I/O fail and processes die?
    Nobody

Workers == Angels \union Commands
Actors == Workers \union Pruners
SourceStates == {"current", "moved", "retired"}

ASSUME LinesAssumption ==
    Eligible \subseteq Lines /\ Lists \subseteq Seq(Lines) /\ DOMAIN Key = Lines
ASSUME ActorsAssumption ==
    Angels \intersect Commands = {} /\ Workers \intersect Pruners = {} /\ Nobody \notin Actors
ASSUME BoundsAssumption ==
    Target \in Nat \ {0} /\ MaxAttempts \in Nat \ {0} /\ Faulty \in BOOLEAN
ASSUME SourcesAssumption == StartSources \subseteq SourceStates

VARIABLES
    pool,           \* the .candidates.log file
    pool_lock,      \* holder of its PathLock
    lines,          \* `lines` of the bridges file
    sources,        \* `sources` of the bridges file
    config_lock,    \* holder of the config's PathLock
    pc,             \* where an actor is
    job,            \* what it keeps between its steps
    pruned          \* identities pruned from the config and not promoted
                    \* again since (history)

files == <<pool, lines, sources>>
locks == <<pool_lock, config_lock>>
vars == <<files, locks, pc, job, pruned>>

Keys(s) == {Key[l] : l \in s}
KeysOf(p) == Keys(Range(p))

\* Locals of an operation: cfg is the configuration the caller loaded, left
\* the target that remains, then what follows the drain, snap the file loaded
\* under a lock, ok the outcome of the promotion.
Fresh ==
    [exclude |-> {}, sources |-> "current", left |-> 0, then |-> "idle",
     fetched |-> << >>, batch |-> {}, promoted |-> << >>, deferred |-> {},
     dead |-> {}, snap |-> << >>, ok |-> FALSE]

Jobs ==
    [exclude : SUBSET Keys(Lines), sources : SourceStates, left : 0 .. Target,
     then : {"idle", "fetch"}, fetched : Seq(Lines), batch : SUBSET Lines,
     promoted : Seq(Lines), deferred : SUBSET Lines, dead : SUBSET Lines,
     snap : Seq(Lines), ok : BOOLEAN]

Init ==
    /\ pool = << >> /\ lines = << >>
    /\ sources \in StartSources
    /\ pool_lock = Nobody /\ config_lock = Nobody
    /\ pc = [w \in Actors |-> "idle"]
    /\ job = [w \in Actors |-> Fresh]
    /\ pruned = {}

-----------------------------------------------------------------------------
(* CandidatePool, on the sequence of its bridges.                          *)

\* The members of p that are in s, in their order: Vec::retain.
Filter(p, s) ==
    LET kept[n \in 0 .. Len(p)] ==
            IF n = 0 THEN << >>
            ELSE IF p[n] \in s THEN Append(kept[n - 1], p[n]) ELSE kept[n - 1]
    IN  kept[Len(p)]

\* One after the other, the members of q that p does not have yet, as id tells
\* lines apart.
PushAll(p, q, id) ==
    LET pushed[n \in 0 .. Len(q)] ==
            IF n = 0 THEN p
            ELSE IF \E l \in Range(pushed[n - 1]) : id[l] = id[q[n]]
                 THEN pushed[n - 1] ELSE Append(pushed[n - 1], q[n])
    IN  pushed[Len(q)]

WithKeyIn(keys) == {l \in Lines : Key[l] \in keys}

\* push_unique of whatever is not excluded: nothing is pooled twice, by identity.
Merge(p, fetched, exclude) == PushAll(p, Filter(fetched, Lines \ WithKeyIn(exclude)), Key)

\* A stable sort: fresh entries of the preferred transport first.
Prioritize(p, fetched) ==
    LET fresh == WithKeyIn(Keys(Range(fetched) \intersect Eligible))
    IN  Filter(p, fresh) \o Filter(p, Lines \ fresh)

TakeTransport(p, n) ==
    LET eligible == Filter(p, Eligible)
    IN  {eligible[i] : i \in {j \in DOMAIN eligible : j <= n}}

RemoveAll(p, bridges) == Filter(p, Lines \ WithKeyIn(Keys(bridges)))

\* Mutant: deferred candidates keep their place.
RotateNothing(p, bridges) == p

RotateToBack(p, bridges) ==
    RemoveAll(p, bridges) \o Filter(p, WithKeyIn(Keys(bridges)))

-----------------------------------------------------------------------------
(* Locks, and the end of an operation.                                     *)

Goto(w, next) == pc' = [pc EXCEPT ![w] = next]

\* Mutants: a transaction that does not wait for the lock.
UnlockedPool(w) == pool_lock' = w

\* PathLock::acquire_bounded and the load that follows it under the lock.
LockPool(w) == pool_lock = Nobody /\ pool_lock' = w
LockConfig(w) == config_lock = Nobody /\ config_lock' = w

\* Drop of whatever locks w holds.
Release(w) ==
    /\ pool_lock' = IF pool_lock = w THEN Nobody ELSE pool_lock
    /\ config_lock' = IF config_lock = w THEN Nobody ELSE config_lock

Finish(w) == Goto(w, "idle") /\ job' = [job EXCEPT ![w] = Fresh]

\* An operation that ends in an error return, a lock wait that runs out, or a
\* process that dies: the kernel drops its locks, nothing is written.
Abandon(w) ==
    /\ Faulty /\ pc[w] # "idle"
    /\ Finish(w) /\ Release(w)
    /\ UNCHANGED <<files, pruned>>

-----------------------------------------------------------------------------
(* Entry points and refresh_candidate_pool.                                *)

\* bridge_maintenance::refresh and cmd_bridges load the configuration once.
\* Maintenance drains first and refreshes when that falls short; the command
\* refreshes first.
Begin(w) ==
    /\ pc[w] = "idle"
    /\ Goto(w, IF w \in Angels THEN "drain" ELSE "fetch")
    /\ job' = [job EXCEPT ![w].exclude = KeysOf(lines), ![w].sources = sources,
                          ![w].left = Target,
                          ![w].then = IF w \in Angels THEN "fetch" ELSE "idle"]
    /\ UNCHANGED <<files, locks, pruned>>

\* fetch_sources over Tor, where failed sources only shorten the list, and the
\* lock and load of the pool transaction.  Without any line the refresh ends.
FetchAndLoad(w) ==
    /\ pc[w] = "fetch"
    /\ \E fetched \in Lists :
         IF fetched = << >>
         THEN /\ Goto(w, "drain")
              /\ job' = [job EXCEPT ![w] = [Fresh EXCEPT !.left = job[w].left]]
              /\ UNCHANGED pool_lock
         ELSE /\ LockPool(w)
              /\ Goto(w, "merging")
              /\ job' = [job EXCEPT ![w].fetched = fetched, ![w].snap = pool, ![w].then = "idle"]
    /\ UNCHANGED <<files, config_lock, pruned>>

\* The lines a refresh hands to the transaction, the file it saves, and
\* whether it goes on to rewrite legacy sources in the config.  A command may
\* end here (--dry-run, --no-probe).
MergeSave(w) ==
    LET merged == Merge(job[w].snap, job[w].fetched, job[w].exclude)
    IN  /\ pc[w] = "merging"
        /\ pool' = IF job[w].sources = "moved" THEN Prioritize(merged, job[w].fetched) ELSE merged
        /\ Release(w)
        /\ \/ /\ Goto(w, IF job[w].sources = "current" THEN "drain" ELSE "migrate")
              /\ job' = [job EXCEPT ![w].snap = << >>, ![w].fetched = << >>,
                                    ![w].exclude = {}, ![w].sources = "current"]
           \/ w \in Commands /\ job[w].sources = "current" /\ Finish(w)
        /\ UNCHANGED <<lines, sources, pruned>>

MigrateLoad(w) ==
    /\ pc[w] = "migrate" /\ LockConfig(w)
    /\ Goto(w, "migrating")
    /\ job' = [job EXCEPT ![w].snap = lines]
    /\ UNCHANGED <<files, pool_lock, pruned>>

\* migrate_legacy_source writes the whole bridges file back.
MigrateWrite(w) ==
    /\ pc[w] = "migrating"
    /\ lines' = job[w].snap /\ sources' = "current"
    /\ Release(w)
    /\ \/ Goto(w, "drain") /\ job' = [job EXCEPT ![w].snap = << >>]
       \/ w \in Commands /\ Finish(w)
    /\ UNCHANGED <<pool, pruned>>

-----------------------------------------------------------------------------
(* drain_pool_with.                                                        *)

\* The lock is taken before the load and stays with the walk; nothing is
\* saved.  An empty pool ends the drain.
DrainLoad(w) ==
    /\ pc[w] = "drain"
    /\ \/ /\ pool # << >> /\ LockPool(w)
          /\ Goto(w, "walk")
          /\ job' = [job EXCEPT ![w].batch =
                        TakeTransport(pool, IF MaxAttempts < Len(pool) THEN MaxAttempts ELSE Len(pool))]
       \/ /\ pool = << >> /\ pool_lock = Nobody
          /\ IF job[w].then = "fetch" THEN Goto(w, "fetch") /\ UNCHANGED job ELSE Finish(w)
          /\ UNCHANGED pool_lock
    /\ UNCHANGED <<files, config_lock, pruned>>

Attempted(w) == Range(job[w].promoted) \union job[w].deferred \union job[w].dead

\* One candidate of the shuffled batch: the probe is unmeasured or outlived
\* by the drain budget, or the candidate answers but no Tor channel is
\* established (deferred), or it is unreachable (dead), or it is admitted.
Probe(w, l) ==
    /\ pc[w] = "walk" /\ l \in job[w].batch
    /\ Len(job[w].promoted) < job[w].left
    /\ \/ job' = [job EXCEPT ![w].batch = @ \ {l}, ![w].promoted = Append(@, l)]
       \/ job' = [job EXCEPT ![w].batch = @ \ {l}, ![w].deferred = @ \union {l}]
       \/ job' = [job EXCEPT ![w].batch = @ \ {l}, ![w].dead = @ \union {l}]
    /\ UNCHANGED <<files, locks, pc, pruned>>

\* The batch is walked, the target is met, or the budget, which lasts for at
\* least one attempt, is spent.  What was not attempted stays where it is.
\* The pool lock goes before the config is written.
WalkEnds(w) ==
    /\ pc[w] = "walk"
    /\ job[w].batch = {} \/ Attempted(w) # {}
    /\ Release(w)
    /\ Goto(w, IF job[w].promoted = << >> THEN "confirm" ELSE "promote")
    /\ job' = [job EXCEPT ![w].batch = {}, ![w].ok = job[w].promoted = << >>]
    /\ UNCHANGED <<files, pruned>>

\* promote_bridges_in_config: lock, reload, add the lines not yet there.
PromoteLoad(w) ==
    /\ pc[w] = "promote" /\ LockConfig(w)
    /\ Goto(w, "promoting")
    /\ job' = [job EXCEPT ![w].snap = lines]
    /\ UNCHANGED <<files, pool_lock, pruned>>

\* Mutant: promotion is not idempotent.
AppendPromoted(w) == job[w].snap \o job[w].promoted

WithPromoted(w) == PushAll(job[w].snap, job[w].promoted, [l \in Lines |-> l])
PromoteWrite(w) ==
    LET latest == WithPromoted(w)
    IN  /\ pc[w] = "promoting"
        /\ lines' = IF Len(latest) > Len(job[w].snap) THEN latest ELSE lines
        /\ job' = [job EXCEPT ![w].snap = << >>, ![w].ok = TRUE,
                              ![w].left = @ - (Len(latest) - Len(job[w].snap))]
        /\ Release(w) /\ Goto(w, "confirm")
        /\ pruned' = pruned \ KeysOf(job[w].promoted)
        /\ UNCHANGED <<pool, sources>>

\* The lock wait, the reload or the write fails: nothing counts as promoted, even
\* when the write's error came after its rename.
PromoteFails(w) ==
    /\ Faulty /\ pc[w] \in {"promote", "promoting"}
    /\ Release(w) /\ Goto(w, "confirm")
    /\ job' = [job EXCEPT ![w].snap = << >>]
    /\ \/ UNCHANGED <<lines, pruned>>
       \/ /\ pc[w] = "promoting" /\ Len(WithPromoted(w)) > Len(job[w].snap)
          /\ lines' = WithPromoted(w)
          /\ pruned' = pruned \ KeysOf(job[w].promoted)
    /\ UNCHANGED <<pool, sources>>

\* Mutant: promoted candidates are shed even when the config write failed.
DiscardPromoted(w) == job[w].dead \union Range(job[w].promoted)

\* The outcomes that are durable: the dead, and the promoted if the config
\* was written.
Discard(w) == job[w].dead \union (IF job[w].ok THEN Range(job[w].promoted) ELSE {})

\* The drain's return value: an error of the promotion ends the operation;
\* maintenance that is short of its target refreshes and drains once more.
DrainReturns(w) ==
    IF job[w].ok /\ job[w].then = "fetch" /\ job[w].left > 0
    THEN /\ Goto(w, "fetch")
         /\ job' = [job EXCEPT ![w] = [Fresh EXCEPT !.exclude = job[w].exclude,
                                       !.sources = job[w].sources, !.left = job[w].left]]
    ELSE Finish(w)

ConfirmLoad(w) ==
    /\ pc[w] = "confirm"
    /\ \/ /\ Discard(w) \union job[w].deferred # {} /\ LockPool(w)
          /\ Goto(w, "confirming")
          /\ job' = [job EXCEPT ![w].snap = pool]
       \/ /\ Discard(w) \union job[w].deferred = {}
          /\ DrainReturns(w)
          /\ UNCHANGED pool_lock
    /\ UNCHANGED <<files, config_lock, pruned>>

\* One transaction on the pool as it is now: what concurrent writers merged
\* stays, the durable outcomes leave, the deferred go to the back.
ConfirmSave(w) ==
    /\ pc[w] = "confirming"
    /\ pool' = RotateToBack(RemoveAll(job[w].snap, Discard(w)), job[w].deferred)
    /\ Release(w) /\ DrainReturns(w)
    /\ UNCHANGED <<lines, sources, pruned>>

\* The lock wait, the load or the save fails; the drain only warns.  (A save that
\* fails after its rename leaves what ConfirmSave does.)
ConfirmFails(w) ==
    /\ Faulty /\ pc[w] \in {"confirm", "confirming"}
    /\ Release(w) /\ DrainReturns(w)
    /\ UNCHANGED <<files, pruned>>

-----------------------------------------------------------------------------
(* prune_bridges_from_config.                                              *)

\* The health store found these lines of the config at max_fails.
PruneLoad(p) ==
    /\ pc[p] = "idle" /\ LockConfig(p)
    /\ \E dead \in SUBSET Range(lines) \ {{}} :
         job' = [job EXCEPT ![p].dead = dead, ![p].snap = lines]
    /\ Goto(p, "pruning")
    /\ UNCHANGED <<files, pool_lock, pruned>>

PruneWrite(p) ==
    /\ pc[p] = "pruning"
    /\ lines' = RemoveAll(job[p].snap, job[p].dead)
    /\ pruned' = pruned \union Keys(job[p].dead)
    /\ Release(p) /\ Finish(p)
    /\ UNCHANGED <<pool, sources>>

-----------------------------------------------------------------------------
WorkerStep(w) ==
    \/ Begin(w) \/ FetchAndLoad(w) \/ MergeSave(w)
    \/ MigrateLoad(w) \/ MigrateWrite(w)
    \/ DrainLoad(w) \/ WalkEnds(w) \/ PromoteLoad(w) \/ PromoteWrite(w)
    \/ ConfirmLoad(w) \/ ConfirmSave(w)

Next ==
    \/ \E w \in Workers :
         \/ WorkerStep(w) \/ PromoteFails(w) \/ ConfirmFails(w)
         \/ \E l \in Lines : Probe(w, l)
    \/ \E p \in Pruners : PruneLoad(p) \/ PruneWrite(p)
    \/ \E a \in Actors : Abandon(a)

Spec == Init /\ [][Next]_vars

\* The lock its next step takes is held.
Waiting(w) ==
    \/ pc[w] \in {"fetch", "drain", "confirm"} /\ pool_lock # Nobody
    \/ pc[w] \in {"migrate", "promote"} /\ config_lock # Nobody

\* Workers and pruners keep running: maintenance is triggered forever, polls
\* of a free lock succeed, and the shuffle of a batch lets no member of it be
\* the last of every batch.
Fairness ==
    /\ \A w \in Workers :
         /\ []<>Waiting(w) \/ []<><<TRUE>>_<<pc[w], job[w]>>
         /\ \A l \in Eligible : []<>(pc[w] = "walk" /\ l \in job[w].batch) => []<>(l \in Attempted(w))
    /\ \A p \in Pruners : []<>(pc[p] # "pruning")

FairSpec == Spec /\ Fairness

-----------------------------------------------------------------------------
\* The shape of the state; merge_candidates and the drain keep the pool free of
\* two lines of one bridge identity.
TypeOK ==
    /\ pool \in Seq(Lines) /\ lines \in Seq(Lines)
    /\ sources \in SourceStates
    /\ pool_lock \in Workers \union {Nobody}
    /\ config_lock \in Actors \union {Nobody}
    /\ pc \in [Actors -> {"idle", "fetch", "merging", "migrate", "migrating",
                          "drain", "walk", "promote", "promoting", "confirm", "confirming",
                          "pruning"}]
    /\ job \in [Actors -> Jobs]
    /\ pruned \subseteq Keys(Lines)
    /\ \A i, j \in DOMAIN pool : Key[pool[i]] = Key[pool[j]] => i = j

\* promote_bridges_in_config is idempotent: although the pool lock is free
\* while a drain promotes, so that another one may be promoting the same
\* candidates, no line is ever twice in the working config.
ConfigUnique == TypeOK /\ IsInjective(lines)

\* Nothing leaves without its outcome.  A candidate leaves the pool only when
\* that outcome is durable: it is in the working config (or was, until a health
\* round pruned it there), or the drain that confirms found it dead; merged
\* newcomers are never overwritten.  Promotion, migration and prune are serial on
\* the bridges file: a bridge leaves it only by the verdict of a health round.
NeverLost ==
    [][/\ pool' # pool => \A k \in KeysOf(pool) \ KeysOf(pool') :
            \/ k \in KeysOf(lines) \union pruned
            \/ \E w \in Workers : pc[w] = "confirming" /\ k \in Keys(job[w].dead)
       /\ lines' # lines => \A k \in KeysOf(lines) \ KeysOf(lines') :
            \E p \in Pruners : pc[p] = "pruning" /\ k \in Keys(job[p].dead)]_vars

\* What was shed stays shed: only a refresh puts a bridge into the pool, and
\* only one it fetched; only a promotion puts one into the config.
NoResurrection ==
    [][/\ pool' # pool => \A k \in KeysOf(pool') \ KeysOf(pool) :
            \E w \in Workers : pc[w] = "merging" /\ k \in KeysOf(job[w].fetched)
       /\ lines' # lines => \A k \in KeysOf(lines') \ KeysOf(lines) :
            \E w \in Workers : pc[w] = "promoting" /\ k \in KeysOf(job[w].promoted)]_vars

\* A deferred batch cannot starve the candidates behind it: every candidate of
\* the preferred transport is attempted, or leaves the pool.
NotStarved ==
    \A l \in Eligible :
        l \in Range(pool) ~> (l \notin Range(pool) \/ \E w \in Workers : l \in Attempted(w))

=============================================================================
