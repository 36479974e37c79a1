---------------------------- MODULE HealthStore ----------------------------
(* What feeds the bridge records: probe rounds, channel warm-ups, the       *)
(* verdicts of arti's guard manager (arti_observability.rs), source credits *)
(* and the circuit-verification ticks, whose rounds select the bridges that *)
(* are due, check them for minutes and then record the outcomes.  Every     *)
(* update is one critical section of the store (StoreWriter).               *)
EXTENDS BridgeHealth

CONSTANTS
    Bridges,       \* the configured bridges, numbers
    Pool,          \* the bridges probed, warmed and credited
    Guard,         \* Guard[b]: the fingerprint of bridge b
    OtherGuard,    \* the fingerprint of a guard that is no configured bridge
    Window,        \* fail_window and circuit_observation_window
    MaxFails,      \* max_fails and max_circuit_fails
    SinkCap,       \* OBSERVATION_QUEUE_CAP
    MaxAge,        \* CIRCUIT_VERIFY_MAX_AGE
    Batch,         \* CIRCUIT_VERIFY_BATCH
    Overlap,       \* the verification rounds that can be in flight
    MaxTime,       \* bound on the clock
    MaxUpdates     \* bound on the rounds, warm-ups, credits and observations

ASSUME HealthAssumption ==
    /\ Bridges \subseteq Nat /\ Pool \subseteq Bridges /\ Guard \in [Bridges -> STRING] /\ OtherGuard \in STRING
    /\ {Window, MaxFails, SinkCap, MaxAge, Batch, Overlap, MaxTime, MaxUpdates} \subseteq Nat \ {0}

VARIABLES
    feed,      \* the producer of this behaviour: "probe", "guard", "verify" or "rest"
    store,     \* the bridge store
    time,      \* the wall clock
    sink,      \* ObservationSink: the observations not yet drained
    seen,      \* every observation since the last drain
    rounds,    \* the verification rounds in flight: the bridges each one checks
    updates,   \* the updates so far
    tick,      \* when the last verification tick ran
    over       \* over[b]: the checks of others recorded while b has been waiting for its own

healthvars == <<feed, store, time, sink, seen, rounds, updates, tick, over>>

Guards == {Guard[b] : b \in Bridges} \cup {OtherGuard}
Observations == [guard : Guards, usable : BOOLEAN]

\* A store whose bridges all carried a channel.
Proven(bridges) == [b \in bridges |-> [Fresh(1, 1) EXCEPT !.ok = 1, !.okAt = 1, !.ch = 1, !.chAt = 1]]

HealthInit(feeds) ==
    /\ feed \in feeds
    /\ store = CASE feed = "verify" -> Proven(Bridges) [] feed = "guard" -> Proven(Pool) [] OTHER -> Proven({})
    /\ time = 1 /\ tick = 1 /\ updates = 0
    /\ sink = <<>> /\ seen = <<>>
    /\ rounds = {}
    /\ over = [b \in Bridges |-> 0]

\* The bridges a round may still be made to wait for: due, and not yet attempted.
Waiting(s) == {b \in Bridges : IsDue(s, b, time, MaxAge)}

Update == updates < MaxUpdates /\ updates' = updates + 1

Elapse ==
    /\ feed # "rest" /\ time < MaxTime
    /\ time' = time + 1
    /\ UNCHANGED <<feed, store, sink, seen, rounds, updates, tick, over>>
-----------------------------------------------------------------------------
\* update_health_and_prune's store mutation: the round's outcomes, then the prune.
ProbeRound ==
    /\ feed \in {"probe", "guard"} /\ Update
    /\ \E probed \in SUBSET Pool \ {{}}, up \in SUBSET Pool :
        /\ up \subseteq probed
        /\ store' = NoteProbeRound(store, probed, [b \in up |-> b], time, Window, MaxFails, MaxFails).store
    /\ UNCHANGED <<feed, time, sink, seen, rounds, tick, over>>

\* persist_warm_results: a channel opened, or the line was proven stale.
Warmed ==
    /\ feed = "probe" /\ Update
    /\ \E b \in Pool : \/ store' = ChannelWorked(store, b, time)
                       \/ store' = Retire(store, b, time)
    /\ store' # store
    /\ UNCHANGED <<feed, time, sink, seen, rounds, tick, over>>

\* persist_bridge_sources
Fetched ==
    /\ feed = "probe" /\ Update
    /\ \E b \in Pool : ~Known(store, b) /\ store' = Credit(store, b, "source", time)
    /\ UNCHANGED <<feed, time, sink, seen, rounds, tick, over>>
-----------------------------------------------------------------------------
\* ObservationSink::push shedding the newcomer when the queue is full.
PushKeepingOldest(queue, o) == IF Len(queue) < SinkCap THEN Append(queue, o) ELSE queue

\* ObservationSink::push: past the cap the oldest observation goes.
Push(queue, o) == IF Len(queue) < SinkCap THEN Append(queue, o) ELSE Append(Tail(queue), o)

\* GuardObservabilityLayer::on_event, for an event that carries a verdict.
Observe ==
    /\ feed = "guard" /\ Update
    /\ \E o \in Observations : sink' = Push(sink, o) /\ seen' = Append(seen, o)
    /\ UNCHANGED <<feed, store, time, rounds, tick, over>>

\* One observation of drain_into_store: applied to every bridge with its guard.
Apply(s, o) ==
    FoldLeft(LAMBDA acc, b : IF o.usable THEN CircuitWorked(acc, b, time) ELSE CircuitFailed(acc, b, time, Window),
             s, SetToSortSeq({b \in Bridges : Guard[b] = o.guard}, <))

\* drain_into_store
Drain ==
    /\ feed = "guard" /\ sink # <<>>
    /\ store' = FoldLeft(Apply, store, sink)
    /\ sink' = <<>> /\ seen' = <<>>
    /\ UNCHANGED <<feed, time, rounds, updates, tick, over>>
-----------------------------------------------------------------------------
\* A verification tick: the due bridges of one loaded store.  The rounds of two
\* ticks may overlap (the Android watchdog spawns them).
SelectDue ==
    /\ feed = "verify" /\ time > tick /\ Cardinality(rounds) < Overlap
    /\ tick' = time
    /\ LET due == NeedingVerification(store, time, MaxAge, Batch, Bridges)
       IN rounds' = IF due = <<>> THEN rounds ELSE rounds \cup {[at |-> time, due |-> {due[i] : i \in DOMAIN due}]}
    /\ UNCHANGED <<feed, store, time, sink, seen, updates, over>>

\* persist_circuit_verify_results, one bridge: the attempt always counts.
Outcome(s, b, ok) ==
    LET tried == VerificationTried(s, b, time) IN IF ok THEN CircuitVerified(tried, b, time) ELSE tried

Overtaken(s, checked) ==
    [b \in Bridges |-> IF b \in Waiting(s) \ checked THEN over[b] + Cardinality(checked) ELSE 0]

\* The round ends: its outcomes are recorded together.
PersistVerify ==
    /\ feed = "verify"
    /\ \E r \in rounds, ok \in SUBSET Bridges :
        /\ ok \subseteq r.due
        /\ store' = FoldLeft(LAMBDA s, b : Outcome(s, b, b \in ok), store, SetToSortSeq(r.due, <))
        /\ rounds' = rounds \ {r}
        /\ over' = Overtaken(store', r.due)
    /\ UNCHANGED <<feed, time, sink, seen, updates, tick>>

\* The blocking task panicked or the store could not be loaded: nothing is recorded.
RoundLost ==
    /\ feed = "verify"
    /\ \E r \in rounds : rounds' = rounds \ {r}
    /\ UNCHANGED <<feed, store, time, sink, seen, updates, tick, over>>

HealthNext ==
    \/ Elapse
    \/ ProbeRound \/ Warmed \/ Fetched
    \/ Observe \/ Drain
    \/ SelectDue \/ PersistVerify \/ RoundLost
-----------------------------------------------------------------------------
HealthTypeOK ==
    /\ DOMAIN store \subseteq Bridges
    /\ \A b \in DOMAIN store : {store[b].fails, store[b].ok, store[b].ch, store[b].ver, store[b].circ} \subseteq 0 .. U32
    /\ sink \in Seq(Observations) /\ Len(sink) <= SinkCap
    /\ time \in 1 .. MaxTime /\ tick \in 1 .. time

\* What take_best must return: the sorted members with fewer than limit better ones.
BestByDefinition(bs, limit, rank) ==
    SetToSortSeq({b \in bs : Cardinality({x \in bs : Before(rank[x], rank[b])}) < limit},
                 LAMBDA x, y : Before(rank[x], rank[y]))

\* take_best keeps the best of a stream in bounded memory: for every limit the three
\* selections return the sequence that a full sort of the bridges they admit would.
SelectionRight ==
    \A limit \in 0 .. Cardinality(Bridges) :
        /\ HealthiestAmong(store, Bridges, limit)
            = BestByDefinition({b \in DOMAIN store : ProvenAlive(store[b])}, limit,
                               HealthRank(store))
        /\ ChannelProven(store, limit)
            = BestByDefinition({b \in DOMAIN store : store[b].ch > 0 /\ ~IsRetired(store[b])}, limit,
                               ChannelRank(store))
        /\ NeedingVerification(store, time, MaxAge, limit, Bridges)
            = BestByDefinition({b \in Bridges : IsDue(store, b, time, MaxAge)}, limit,
                               DueRank(store))

\* note_failure_at's rate limit, whatever the order of rounds and warm-ups: the
\* failures counted against a bridge since it last answered took a window each.
FailuresSpaced ==
    \A b \in DOMAIN store : store[b].okAt > 0 => store[b].fails * Window <= store[b].tried - store[b].okAt

\* needing_circuit_verification advances through the pool although outcomes come
\* minutes after the selection and rounds overlap: while a bridge waits for its
\* check, every other bridge is checked at most once per round in flight.
NobodyStarved == \A b \in Bridges : over[b] <= (Overlap + 1) * (Cardinality(Bridges) - 1)

HealthInv == HealthTypeOK /\ SelectionRight /\ FailuresSpaced /\ NobodyStarved

\* What the newest observations, as many as the sink holds, said of bridge b's guard.
Said(b) == {o.usable : o \in {seen[i] : i \in {j \in DOMAIN seen : j > Len(seen) - SinkCap /\ seen[j].guard = Guard[b]}}}

\* A circuit verdict (a failure count or a retirement) is taken back in two ways only.
\* A success of the bridge's guard resets it, and no TCP probe, warm-up or credit does;
\* a probe round whose prune drops the entry forgets it, which happens to a bridge at a
\* threshold and to no other.  A drain works by what the newest observations said, in
\* whichever order: any success among them leaves the count at 0, failures of the same
\* drain notwithstanding, and failures alone raise it by at most one, once a window.
VerdictsStand ==
    [][\A b \in DOMAIN store :
          IF sink # <<>> /\ sink' = <<>>
          THEN store'[b].circ = IF TRUE \in Said(b) THEN 0
                                ELSE IF FALSE \in Said(b) /\ time - store[b].circAt >= Window THEN Up(store[b].circ)
                                ELSE store[b].circ
          ELSE IF b \in DOMAIN store' THEN store'[b].circ >= store[b].circ
          ELSE store[b].circ >= MaxFails \/ store[b].fails + 1 >= MaxFails]_healthvars
=============================================================================
