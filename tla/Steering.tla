------------------------------ MODULE Steering ------------------------------
(* The two loops that steer the running client by the bridge records: the   *)
(* soft-failover watchdog, which reports a degraded bridge to arti's guard  *)
(* manager, and the warmer, which opens channels to the best bridges        *)
(* (tor_watchdog_runtime.rs, bridge_warmer.rs).  Each tick reads the        *)
(* configuration, the active bridges and the store one after the other,     *)
(* while the maintenance loop rewrites all three.                           *)
EXTENDS BridgeHealth

CONSTANTS
    Lines,           \* the bridges, numbers in configuration order
    MinCircuitFails, \* failover_min_circuit_fails
    MinMargin,       \* failover_min_margin
    SignalCooldown,  \* failover_signal_cooldown_secs
    MaxSignals,      \* MAX_SIGNALS_PER_BRIDGE
    PoolSize,        \* pool_size of the warmer
    MaxChanges,      \* bound on the changes around the loops
    LastHour,        \* bound on the clock of the failover loop
    LastWarmHour     \* bound on the clock of the warmer

ASSUME SteeringAssumption ==
    /\ Lines \subseteq Nat
    /\ {MinCircuitFails, MinMargin, SignalCooldown, MaxSignals, PoolSize, MaxChanges, LastHour, LastWarmHour} \subseteq Nat \ {0}

VARIABLES
    loop,      \* the loop of this behaviour: "failover", "warmer" or "rest"
    hour,      \* the clock; the loops start at 2
    conf,      \* the configured bridges
    act,       \* TorHandle::active_bridges
    health,    \* the bridge store
    changes,   \* changes made around the loops
    run,       \* the tick in progress
    ticked,    \* when the last tick began; the interval is one unit
    signalled, \* SignalRecord of each bridge
    struck,    \* history: bridges a circuit failure of this run was counted against since they last worked
    sent       \* history, sent[b]: when b was reported, and whether the store read by then held such a failure

steervars == <<loop, hour, conf, act, health, changes, run, ticked, signalled, struck, sent>>

Idle == [pc |-> "idle", conf |-> {}, act |-> {}, of |-> [b \in {} |-> 0], struck |-> {}, todo |-> <<>>, done |-> {}]

\* The store still holds the failures of an earlier run, observed at 1.
SteerInit(loops) ==
    /\ loop \in loops
    /\ hour = 2 /\ changes = 0 /\ run = Idle /\ ticked = 2
    /\ conf = Lines /\ act = Lines
    /\ health = [b \in Lines |-> [Fresh(1, 0) EXCEPT !.ok = 1, !.circ = MinCircuitFails]]
    /\ signalled = [b \in Lines |-> [last |-> 0, count |-> 0]]
    /\ struck = {} /\ sent = [b \in Lines |-> <<>>]

SteerElapse ==
    /\ loop # "rest" /\ hour < IF loop = "warmer" THEN LastWarmHour ELSE LastHour
    /\ hour' = hour + 1
    /\ UNCHANGED <<loop, conf, act, health, changes, run, ticked, signalled, struck, sent>>

\* Around the loops: guard verdicts and probes change the records, maintenance
\* prunes the configuration and replaces the active bridges.
Around ==
    /\ loop # "rest" /\ changes < MaxChanges
    /\ changes' = changes + 1
    /\ \/ /\ \E b \in Lines :
                \/ /\ health' = CircuitFailed(health, b, hour, 1)
                   /\ struck' = IF health' = health THEN struck ELSE struck \cup {b}
                \/ health' = CircuitWorked(health, b, hour) /\ struck' = struck \ {b}
                \/ health' = Put(health, b, Unreached(health, b, hour, 1)) /\ UNCHANGED struck
          /\ UNCHANGED <<conf, act>>
       \/ /\ \E b \in conf :
                conf' = conf \ {b} /\ health' = [x \in DOMAIN health \ {b} |-> health[x]] /\ struck' = struck \ {b}
          /\ UNCHANGED act
       \/ \E new \in SUBSET Lines \ {{}, act} : act' = new /\ UNCHANGED <<conf, health, struck>>
    /\ UNCHANGED <<loop, hour, run, ticked, signalled, sent>>
-----------------------------------------------------------------------------
\* Both loops gather their candidates alike.

\* A tick that finds the slot open and the configuration readable.
SteerTick ==
    /\ loop # "rest" /\ run.pc = "idle" /\ hour > ticked
    /\ run' = [Idle EXCEPT !.pc = "active", !.conf = conf] /\ ticked' = hour
    /\ UNCHANGED <<loop, hour, conf, act, health, changes, signalled, struck, sent>>

ReadActive ==
    /\ run.pc = "active"
    /\ run' = [run EXCEPT !.pc = "store", !.act = act]
    /\ UNCHANGED <<loop, hour, conf, act, health, changes, ticked, signalled, struck, sent>>

\* candidates_with_health: a bridge the store does not know, and every bridge when
\* the store cannot be loaded, counts as healthy.
Snapshot(s, bs) == [b \in bs |-> EntryOf(s, b, 0, 0)]
Readable == {health, [b \in {} |-> 0]}

\* select_top_n of the warmer, by warming_rank.
WarmRank(of) == [b \in DOMAIN of |-> <<of[b].circ, -of[b].ver, -of[b].ok, b>>]
SelectTopN(of, bs, n) == TakeBest({b \in bs : of[b].fails = 0}, n, WarmRank(of))

ReadStore ==
    /\ run.pc = "store"
    /\ \E s \in Readable :
        LET found == run.conf \cap run.act
            of == Snapshot(s, found)
            todo == IF loop = "warmer" THEN SelectTopN(of, found, PoolSize)
                    ELSE IF Cardinality(found) < 2 THEN <<>> ELSE SetToSortSeq(found, <)
        IN run' = IF todo = <<>> THEN Idle
                  ELSE [run EXCEPT !.pc = loop, !.of = of, !.struck = struck, !.todo = todo]
    /\ UNCHANGED <<loop, hour, conf, act, health, changes, ticked, signalled, struck, sent>>
-----------------------------------------------------------------------------
\* The failover loop.

\* healthiest of the other candidates.
BestAlternative(of, b) == SelectTopN(of, DOMAIN of \ {b}, 1)

\* should_signal_failover; the subtraction saturates.
ShouldSignal(current, best) ==
    /\ current >= MinCircuitFails
    /\ current - best >= MinMargin

\* evidence_is_fresh: newer than the start of the task, which is 2.
EvidenceFresh(at) == at > 2

\* signal_budget_available
BudgetAvailable(count) == count < MaxSignals

\* One candidate of the tick.
MaySignal(b) ==
    /\ EvidenceFresh(run.of[b].circAt)
    /\ LET best == BestAlternative(run.of, b)
       IN best # <<>> /\ ShouldSignal(run.of[b].circ, run.of[Head(best)].circ)
    /\ signalled[b].last = 0 \/ hour - signalled[b].last >= SignalCooldown
    /\ BudgetAvailable(signalled[b].count)

\* The candidate is dealt with; the tick is over after the last one.
Past(done) == [run EXCEPT !.pc = IF Len(run.todo) = 1 THEN "told" ELSE @, !.todo = Tail(@), !.done = done]

\* The guard manager accepted the report: the record is stamped.
Signal ==
    /\ run.pc = "failover"
    /\ LET b == Head(run.todo)
       IN /\ MaySignal(b)
          /\ signalled' = [signalled EXCEPT ![b] = [last |-> hour, count |-> @.count + 1]]
          /\ sent' = [sent EXCEPT ![b] = Append(@, [at |-> hour, cause |-> b \in run.struck])]
          /\ run' = Past(run.done \cup {b})
    /\ UNCHANGED <<loop, hour, conf, act, health, changes, ticked, struck>>

\* The bridge is left alone, or the report failed: nothing is stamped.
NoSignal ==
    /\ run.pc = "failover"
    /\ run' = Past(run.done)
    /\ UNCHANGED <<loop, hour, conf, act, health, changes, ticked, signalled, struck, sent>>

TickOver ==
    /\ run.pc = "told"
    /\ run' = Idle
    /\ UNCHANGED <<loop, hour, conf, act, health, changes, ticked, signalled, struck, sent>>
-----------------------------------------------------------------------------
\* The warmer: one bridge at a time; only an own, new channel counts as success.
Warm ==
    /\ run.pc = "warmer"
    /\ \E opened \in BOOLEAN :
        LET done == IF opened THEN run.done \cup {Head(run.todo)} ELSE run.done
            rest == Tail(run.todo)
        IN run' = IF rest # <<>> THEN [run EXCEPT !.todo = rest, !.done = done]
                  ELSE IF done = {} THEN Idle ELSE [run EXCEPT !.pc = "persist", !.todo = <<>>, !.done = done]
    /\ UNCHANGED <<loop, hour, conf, act, health, changes, ticked, signalled, struck, sent>>

\* persist_warm_successes
PersistWarm ==
    /\ run.pc = "persist"
    /\ health' = FoldLeft(LAMBDA s, b : ChannelWorked(s, b, hour), health, SetToSortSeq(run.done, <))
    /\ run' = Idle
    /\ UNCHANGED <<loop, hour, conf, act, changes, ticked, signalled, struck, sent>>

SteerNext ==
    \/ SteerElapse \/ Around
    \/ SteerTick \/ ReadActive \/ ReadStore
    \/ Signal \/ NoSignal \/ TickOver
    \/ Warm \/ PersistWarm
-----------------------------------------------------------------------------
\* The failover watchdog may push arti away from bridges but never from all of
\* them, whatever the records say and however they change during the tick:
\*  - a tick spares the best of the reachable candidates it compared;
\*  - over the life of the process a bridge is reported at most MaxSignals times, a
\*    cooldown apart, and only when the store the tick read held a circuit failure that
\*    was counted in this run and not followed by a success: what an earlier run left in
\*    the store is never enough, though it may make up the rest of the count.
\* The warmer credits a channel only to a bridge that was configured, active and
\* reachable when its tick looked.
SteeringInv ==
    /\ loop = "failover" =>
        LET reachable == {b \in DOMAIN run.of : run.of[b].fails = 0}
        IN reachable # {} => ~(reachable \subseteq run.done)
    /\ \A b \in Lines :
        /\ Len(sent[b]) <= MaxSignals
        /\ \A i \in 1 .. Len(sent[b]) : sent[b][i].cause
        /\ \A i \in 2 .. Len(sent[b]) : sent[b][i].at - sent[b][i - 1].at >= SignalCooldown
    /\ loop = "warmer" => \A b \in run.done : b \in run.conf \cap run.act /\ run.of[b].fails = 0
=============================================================================
