----------------------------- MODULE Maintenance -----------------------------
(* The bridge maintenance loop (bridge_maintenance.rs, channel_probe.rs,     *)
(* tor_setup.rs): the one owner of the running client's bridge set.  A cycle *)
(* drains the guard verdicts, probes, prunes, picks a new set and hands it   *)
(* to arti; while it looks for new bridges, a failing connection can make it *)
(* recheck the routes.  The store is reduced to the two failure counters;    *)
(* a bridge it does not know counts as one with none.                        *)
EXTENDS Integers, FiniteSets, Sequences, FiniteSetsExt

CONSTANTS
    Wt, Obfs4,     \* the bridges of the two transports
    Seeds,         \* seed_bridges
    MaxTcp,        \* max_fails
    MaxCircuit,    \* max_circuit_fails
    MaxActive,     \* MAX_ACTIVE_BRIDGES, and FALLBACK_POOL_SIZE
    MinAlive       \* min_alive

ASSUME MaintenanceAssumption ==
    /\ Wt \cap Obfs4 = {} /\ Seeds \subseteq Wt \cup Obfs4
    /\ {MaxTcp, MaxCircuit, MaxActive} \subseteq Nat \ {0} /\ MinAlive \in Nat

VARIABLES
    want,      \* preferred_transport ("any", "webtunnel", "obfs4"), auto_fetch,
               \* and the bound on the requests, verdicts and interval ticks
    lines,     \* the bridges of the configuration file
    count,     \* count[b]: fails and circuit_fails of the store
    verdicts,  \* the observation sink: [b, ok] records in any order
    mine,      \* the loop's active settings
    arti,      \* the bridges of the running client
    shown,     \* TorHandle::active_bridges
    bell,      \* BridgeRefresh: needed, the two Notify permits, the timers that ran out
    cyc,       \* the cycle in progress
    calls      \* requests, verdicts and ticks so far

maintvars == <<want, lines, count, verdicts, mine, arti, shown, bell, cyc, calls>>

All == Wt \cup Obfs4
Resting == [pc |-> "idle", cfg |-> {}, pass |-> "none", usable |-> 0, works |-> FALSE, keep |-> FALSE, found |-> {}]
Preferring(bs) == CASE want.transport = "webtunnel" -> bs \cap Wt
                    [] want.transport = "obfs4" -> bs \cap Obfs4 [] OTHER -> bs

\* The proxy has bootstrapped with some configured bridges; the first cycle starts
\* without waiting.
MaintInit(wants) ==
    /\ want \in wants
    /\ lines = All \ Seeds
    /\ count = [b \in All |-> [tcp |-> 0, circ |-> 0]]
    /\ verdicts = {}
    /\ mine \in {Wt \ Seeds, Obfs4 \ Seeds} \ {{}}
    /\ arti = mine /\ shown = mine
    /\ bell = [needed |-> FALSE, recovery |-> FALSE, refresh |-> FALSE, recoveryDue |-> TRUE, refreshDue |-> TRUE]
    /\ cyc = [Resting EXCEPT !.pc = "load"]
    /\ calls = 0
-----------------------------------------------------------------------------
\* Around the loop.

Call == calls < want.calls /\ calls' = calls + 1

\* request: every connection through Tor asks; heard only while a refresh is needed.
Request ==
    /\ Call /\ bell.needed
    /\ bell' = [bell EXCEPT !.refresh = TRUE]
    /\ UNCHANGED <<want, lines, count, verdicts, mine, arti, shown, cyc>>

\* request_after_failure, track_connection: a connection failed or takes long.
Recover ==
    /\ Call
    /\ bell' = [bell EXCEPT !.recovery = TRUE]
    /\ UNCHANGED <<want, lines, count, verdicts, mine, arti, shown, cyc>>

\* ObservationSink::push; a failure also asks for recovery.
Verdict ==
    /\ Call
    /\ \E b \in mine, ok \in BOOLEAN :
        /\ verdicts' = verdicts \cup {[b |-> b, ok |-> ok]}
        /\ bell' = [bell EXCEPT !.recovery = @ \/ ~ok]
    /\ UNCHANGED <<want, lines, count, mine, arti, shown, cyc>>

\* RECOVERY_REFRESH_INTERVAL and CONNECTION_REFRESH_INTERVAL run out.
TimersOut ==
    /\ ~(bell.recoveryDue /\ bell.refreshDue)
    /\ \/ bell' = [bell EXCEPT !.recoveryDue = TRUE] /\ ~bell.recoveryDue
       \/ bell' = [bell EXCEPT !.refreshDue = TRUE, !.recoveryDue = TRUE] /\ ~bell.refreshDue
    /\ UNCHANGED <<want, lines, count, verdicts, mine, arti, shown, cyc, calls>>

\* spawn's select, biased: recovery, the interval, a request.
Wake ==
    /\ cyc.pc = "idle"
    /\ LET recovers == bell.recovery /\ bell.recoveryDue
       IN \/ recovers /\ bell' = [bell EXCEPT !.recovery = FALSE] /\ UNCHANGED calls
          \/ ~recovers /\ Call /\ UNCHANGED bell
          \/ ~recovers /\ bell.refresh /\ bell.refreshDue /\ bell' = [bell EXCEPT !.refresh = FALSE] /\ UNCHANGED calls
    /\ cyc' = [Resting EXCEPT !.pc = "load"]
    /\ UNCHANGED <<want, lines, count, verdicts, mine, arti, shown>>
-----------------------------------------------------------------------------
\* refresh

\* spawn after a cycle that failed, if it ended the loop.
FailedStopping ==
    /\ bell' = bell
    /\ cyc' = [Resting EXCEPT !.pc = "stopped"]

\* spawn after a cycle that failed: the next one is awaited all the same.
Failed ==
    /\ bell' = [bell EXCEPT !.refreshDue = FALSE]
    /\ cyc' = Resting

\* load_config_off_worker, or its error.
Load ==
    /\ cyc.pc = "load"
    /\ \/ cyc' = [cyc EXCEPT !.pc = "drain", !.cfg = lines, !.pass = "first"] /\ UNCHANGED bell
       \/ Failed
    /\ UNCHANGED <<want, lines, count, verdicts, mine, arti, shown, calls>>

\* preferred_missing, of the loop's own settings
PreferredMissing == want.transport # "any" /\ Preferring(mine) = {}
NeedsRefresh(usable) == want.fetch /\ (usable = 0 \/ PreferredMissing)

\* compute_deficit against min_alive, and at least one bridge of a preferred transport.
Deficit(usable) == usable < MinAlive \/ (want.transport # "any" /\ usable = 0)

\* After a pass of refresh_routes that reported usable.
PassDone(usable) ==
    /\ bell' = [bell EXCEPT !.needed = NeedsRefresh(usable), !.recoveryDue = IF cyc.pass = "final" THEN @ ELSE FALSE,
                            !.refreshDue = IF cyc.pass = "final" \/ (cyc.pass = "first" /\ ~(want.fetch /\ Deficit(usable)))
                                          THEN FALSE ELSE @]
    /\ cyc' = IF cyc.pass = "recheck" \/ (cyc.pass = "first" /\ want.fetch /\ Deficit(usable))
              THEN [Resting EXCEPT !.pc = "discover", !.cfg = cyc.cfg, !.usable = usable] ELSE Resting

\* A pass that failed: a recheck keeps the last count, any other ends the cycle.
PassFailed == IF cyc.pass = "recheck" THEN PassDone(cyc.usable) ELSE Failed

\* next_discovery_event: top_up_working is done, or a recovery is due meanwhile.
Discover ==
    /\ cyc.pc = "discover"
    /\ \/ /\ \E new \in SUBSET (All \ lines) :
              /\ lines' = lines \cup new
              /\ IF new = {} THEN /\ bell' = [bell EXCEPT !.needed = NeedsRefresh(cyc.usable), !.refreshDue = FALSE]
                                  /\ cyc' = Resting
                 ELSE cyc' = [cyc EXCEPT !.pc = "reload"] /\ UNCHANGED bell
       \/ Failed /\ UNCHANGED lines
    /\ UNCHANGED <<want, count, verdicts, mine, arti, shown, calls>>

Recheck ==
    /\ cyc.pc = "discover" /\ bell.recovery /\ bell.recoveryDue
    /\ bell' = [bell EXCEPT !.recovery = FALSE]
    /\ cyc' = [cyc EXCEPT !.pc = "drain", !.pass = "recheck"]
    /\ UNCHANGED <<want, lines, count, verdicts, mine, arti, shown, calls>>

\* Bridges were added: the configuration is read again.
Reload ==
    /\ cyc.pc = "reload"
    /\ \/ cyc' = [cyc EXCEPT !.pc = "drain", !.cfg = lines, !.pass = "final"] /\ UNCHANGED bell
       \/ Failed
    /\ UNCHANGED <<want, lines, count, verdicts, mine, arti, shown, calls>>
-----------------------------------------------------------------------------
\* refresh_routes

Up1(n, cap) == IF n < cap THEN n + 1 ELSE n

\* drain_into_store for the bridges of the configuration; a pair of verdicts on
\* one bridge arrives in either order.
Drained(b) ==
    LET about == {v.ok : v \in {x \in verdicts : x.b = b}}
    IN IF b \notin cyc.cfg \/ about = {} THEN {count[b].circ}
       ELSE (IF TRUE \in about THEN {0} ELSE {}) \cup (IF FALSE \in about THEN {Up1(count[b].circ, MaxCircuit), count[b].circ} ELSE {})

Drain ==
    /\ cyc.pc = "drain"
    /\ \/ /\ \E c \in [All -> 0 .. MaxCircuit] :
              /\ \A b \in All : c[b] \in Drained(b)
              /\ count' = [b \in All |-> [count[b] EXCEPT !.circ = c[b]]]
          /\ verdicts' = {}
          /\ cyc' = [cyc EXCEPT !.pc = "route"] /\ UNCHANGED bell
       \/ PassFailed /\ UNCHANGED <<count, verdicts>>
    /\ UNCHANGED <<want, lines, mine, arti, shown, calls>>

\* can_keep_current
CanKeep == mine # {} /\ Preferring(mine) = mine /\ mine \subseteq cyc.cfg

\* live_route_works, asked only of a configured set.
Route ==
    /\ cyc.pc = "route"
    /\ \E works \in BOOLEAN :
        /\ works => mine # {} /\ mine \subseteq cyc.cfg
        /\ cyc' = [cyc EXCEPT !.pc = "probe", !.works = works, !.keep = works /\ CanKeep]
    /\ UNCHANGED <<want, lines, count, verdicts, mine, arti, shown, bell, calls>>

\* preferred_transport_bridges: a preference nothing matches is dropped, but
\* WebTunnel only ever falls back to obfs4.
PreferredTransport(bs) ==
    IF want.transport = "any" \/ Preferring(bs) # {} THEN Preferring(bs)
    ELSE IF want.transport = "webtunnel" THEN bs \cap Obfs4 ELSE bs

\* The configured bridges neither retired nor failing at the circuit layer; all of
\* them when the store cannot be read.
Pools == {{b \in cyc.cfg : count[b].circ < MaxCircuit}, cyc.cfg}

\* select_active_probe_bridges: the best MaxActive of a larger pool.
Slices(pool) == IF Cardinality(pool) <= MaxActive THEN {pool} ELSE kSubset(MaxActive, pool)

\* The rounds build_tor_settings_preserving_live may run, each only after nothing
\* answered in the ones before: a slice of the preferred pool, all of it, obfs4
\* instead of WebTunnel, the seeds.  With a route to keep the last two are left out.
ProbeRounds(pool, slice) ==
    LET preferred == PreferredTransport(pool)
        first == IF slice = preferred THEN <<slice>> ELSE <<slice, preferred>>
        fallback == IF cyc.keep \/ want.transport # "webtunnel" THEN {} ELSE (pool \cap Obfs4) \ preferred
        seeds == IF cyc.keep THEN {} ELSE Seeds
    IN first \o <<fallback, seeds>>

\* What the probes report: of the rounds run, all but the last found nothing.
\* Some of the probed may not have been measured.
Reports(rounds) ==
    UNION {{[probed |-> UNION {rounds[j] : j \in 1 .. i} \ unmeasured, alive |-> up] :
               up \in (IF i = Len(rounds) THEN SUBSET rounds[i] ELSE SUBSET rounds[i] \ {{}}),
               unmeasured \in {{}, UNION {rounds[j] : j \in 1 .. i}}} : i \in 1 .. Len(rounds)}

\* retain_probe_observations keeping the failures of the live bridges too.
ObservedAll(report) == (report.probed \ report.alive) \ {}

\* retain_probe_observations: a live bridge is not blamed for a failed new probe.
Observed(report) == (report.probed \ report.alive) \ (IF cyc.keep THEN mine ELSE {})

\* note_probe_round: a success resets, a failure outside the window counts, ...
Noted(alive, blamed) ==
    [b \in All |-> IF b \in alive THEN [count[b] EXCEPT !.tcp = 0]
                   ELSE IF b \in blamed THEN [count[b] EXCEPT !.tcp = @ + 1] ELSE count[b]]

\* ... and its prune forgets what reached a limit.
Dead(noted) == {b \in All : noted[b].tcp >= MaxTcp \/ noted[b].circ >= MaxCircuit}
Pruned(noted) == [b \in All |-> IF b \in Dead(noted) THEN [tcp |-> 0, circ |-> 0] ELSE noted[b]]

\* update_health_and_prune, of the store and then of the configuration, and the
\* ranking; or the store cannot be read.
Probe ==
    /\ cyc.pc = "probe"
    /\ \E pool \in Pools : \E slice \in Slices(PreferredTransport(pool)) :
       \E r \in Reports(ProbeRounds(pool, slice)) :
        LET allowed == PreferredTransport(r.alive)
        IN \/ \E blamed \in {{}, Observed(r)} :
                LET noted == Noted(r.alive, blamed)
                IN /\ count' = Pruned(noted)
                   /\ \E pruned \in {Dead(noted), {}} : lines' = lines \ pruned
                   /\ \E ranked \in Slices(allowed \ Dead(noted)) :
                        cyc' = [cyc EXCEPT !.pc = "choose", !.found = ranked]
           \/ cyc' = [cyc EXCEPT !.pc = "choose", !.found = allowed] /\ UNCHANGED <<count, lines>>
    /\ UNCHANGED <<want, verdicts, mine, arti, shown, bell, calls>>

\* preferred_count
PreferredCount(bs) == Cardinality(Preferring(bs))

\* authenticate_fallback: an obfs4-only choice is replaced by the bridges that just
\* completed a channel, the current ones first while they work or settle.
Authenticated(configured, found, preferCurrent) ==
    LET pool == Obfs4 \cap (found \cup configured)
        current == mine \cap pool
        AtMost(bs) == {x \in SUBSET bs : x # {} /\ Cardinality(x) <= MaxActive}
    IN IF ~(found \subseteq Obfs4) THEN {found}
       ELSE AtMost(IF preferCurrent THEN pool \ current ELSE pool) \cup {{}} \cup
            (IF preferCurrent THEN AtMost(current) ELSE {})

\* refresh_routes after build_tor_settings: keep the route, report that nothing
\* answered, or go on with the authenticated choice.  A new choice that completed
\* its channels is recorded as reachable.
Choose ==
    /\ cyc.pc = "choose"
    /\ \/ cyc.keep /\ PassDone(Max({1, PreferredCount(cyc.found)})) /\ UNCHANGED count
       \/ ~cyc.keep /\ cyc.found = {} /\ PassDone(0) /\ UNCHANGED count
       \/ /\ ~cyc.keep /\ cyc.found # {}
          /\ \E settling \in BOOLEAN, pool \in Pools :
             \E new \in Authenticated(pool, cyc.found, cyc.works \/ settling) :
              IF new = {} THEN PassDone(0) /\ UNCHANGED count
              ELSE /\ cyc' = [cyc EXCEPT !.pc = "apply", !.found = new] /\ UNCHANGED bell
                   /\ count' = IF new \subseteq Obfs4 /\ new # mine
                               THEN [b \in All |-> IF b \in new THEN [count[b] EXCEPT !.tcp = 0] ELSE count[b]]
                               ELSE count
    /\ UNCHANGED <<want, lines, verdicts, mine, arti, shown, calls>>

\* apply_pool and no activation.
ApplySilently ==
    /\ cyc.pc = "apply"
    /\ \/ cyc.found = mine /\ PassDone(PreferredCount(cyc.found)) /\ UNCHANGED <<arti, mine>>
       \/ /\ cyc.found # mine
          /\ arti' = cyc.found /\ mine' = cyc.found
          /\ PassDone(PreferredCount(cyc.found))
       \/ cyc.found # mine /\ PassFailed /\ UNCHANGED <<arti, mine>>
    /\ UNCHANGED <<want, lines, count, verdicts, shown, calls>>

\* apply_pool: the client is reconfigured with a different, nonempty set, or
\* refuses, which fails the pass.
Apply ==
    /\ cyc.pc = "apply"
    /\ \/ cyc.found = mine /\ PassDone(PreferredCount(cyc.found)) /\ UNCHANGED <<arti, mine>>
       \/ /\ cyc.found # mine
          /\ arti' = cyc.found /\ mine' = cyc.found
          /\ cyc' = [cyc EXCEPT !.pc = "show"] /\ UNCHANGED bell
       \/ cyc.found # mine /\ PassFailed /\ UNCHANGED <<arti, mine>>
    /\ UNCHANGED <<want, lines, count, verdicts, shown, calls>>

\* activate: set_active_bridges
Show ==
    /\ cyc.pc = "show"
    /\ shown' = mine
    /\ PassDone(PreferredCount(cyc.found))
    /\ UNCHANGED <<want, lines, count, verdicts, mine, arti, calls>>

Upkeep ==
    \/ TimersOut \/ Wake \/ Load \/ Discover \/ Recheck \/ Reload
    \/ Drain \/ Route \/ Probe \/ Choose \/ Apply \/ Show
MaintNext == Request \/ Recover \/ Verdict \/ Upkeep
-----------------------------------------------------------------------------
\* The client, the loop and the published list name the same bridges whenever no
\* activation is in progress, and the client is never left without any: neither a
\* failed reconfiguration, nor a pass that finds nothing, nor a prune empties it.
\* While a discovery runs, requests are heard exactly as the last pass asked for,
\* the first one or a recheck in its middle, and the discovery will end with that
\* count.
MaintenanceInv ==
    /\ cyc.pc # "show" => shown = mine
    /\ arti = mine
    /\ mine # {}
    /\ mine \subseteq All /\ lines \subseteq All
    /\ cyc.pc = "discover" => (bell.needed <=> NeedsRefresh(cyc.usable))
    /\ \A b \in All : count[b].tcp \in 0 .. MaxTcp - 1 /\ count[b].circ \in 0 .. MaxCircuit

\* A route that still carries traffic and may be kept is neither replaced nor
\* blamed: while a pass keeps it, the client's bridges stay and no TCP failure is
\* counted against them.
RouteKept ==
    [][cyc.keep => /\ arti' = arti
                   /\ \A b \in arti : count'[b].tcp <= count[b].tcp]_maintvars

\* Every wake-up ends and every request is served: the loop comes to rest with no
\* permit pending, whatever failed in between.
MaintQuiet == cyc.pc = "idle" /\ ~bell.recovery /\ ~bell.refresh
=============================================================================
