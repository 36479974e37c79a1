---------------------------- MODULE BridgeHealth ----------------------------
(* The records of packages/bridge-store: what one observation does to them  *)
(* (observe.rs) and how bridges are ranked and chosen from them (stats.rs). *)
(* A store is a function from the bridges it knows to their entries.        *)
(* Bridges are numbers in the order of the store's map; a time of 0 is None.*)
EXTENDS Integers, FiniteSets, Sequences, SequencesExt

CONSTANTS
    U32        \* u32::MAX, where the counters saturate

ASSUME CounterAssumption == U32 \in Nat \ {0}

\* RETIRED_CIRCUIT_FAILS
Retired == U32

\* Entry, as every or_insert_with writes it.  ch: channel_ok, ver: verified,
\* verTry: last_verification_attempt, circ: circuit_fails, circAt: last_circuit_observation.
Fresh(t, latency) ==
    [okAt |-> 0, tried |-> t, lat |-> latency, fails |-> 0, ok |-> 0, ch |-> 0, chAt |-> 0,
     ver |-> 0, verAt |-> 0, verTry |-> 0, circ |-> 0, circAt |-> t, src |-> {}]

Up(n) == IF n < U32 THEN n + 1 ELSE n
Known(s, b) == b \in DOMAIN s
EntryOf(s, b, t, latency) == IF Known(s, b) THEN s[b] ELSE Fresh(t, latency)
Put(s, b, e) == [x \in DOMAIN s \cup {b} |-> IF x = b THEN e ELSE s[x]]

IsRetired(e) == e.circ = Retired
ProvenAlive(e) == e.fails = 0 /\ e.ok > 0 /\ ~IsRetired(e)
-----------------------------------------------------------------------------
\* Observations.

\* record_at
Reached(s, b, latency, t) ==
    [EntryOf(s, b, t, latency) EXCEPT !.okAt = t, !.tried = t, !.lat = latency, !.fails = 0, !.ok = Up(@)]

\* note_failure_at without its rate limit.
UnreachedEachTime(s, b, t, window) ==
    IF ~Known(s, b) THEN [Fresh(t, 0) EXCEPT !.fails = 1]
    ELSE [s[b] EXCEPT !.fails = Up(@), !.tried = t]

\* note_failure_at: at most one failure is counted per window.
Unreached(s, b, t, window) ==
    IF ~Known(s, b) THEN [Fresh(t, 0) EXCEPT !.fails = 1]
    ELSE IF t - s[b].tried >= window THEN [s[b] EXCEPT !.fails = Up(@), !.tried = t]
    ELSE s[b]

\* prune: the entries over a threshold.
Dead(s, maxFails, maxCircuit) == {b \in DOMAIN s : s[b].fails >= maxFails \/ s[b].circ >= maxCircuit}

\* note_probe_round: alive maps the bridges that answered to their latency.
NoteProbeRound(s, probed, alive, t, window, maxFails, maxCircuit) ==
    LET seen == [b \in DOMAIN s \cup probed \cup DOMAIN alive |->
                    IF b \in DOMAIN alive THEN Reached(s, b, alive[b], t)
                    ELSE IF b \in probed THEN Unreached(s, b, t, window) ELSE s[b]]
        dead == Dead(seen, maxFails, maxCircuit)
    IN [store |-> [b \in DOMAIN seen \ dead |-> seen[b]], pruned |-> dead]

\* note_circuit_failure_at
CircuitFailed(s, b, t, window) ==
    IF ~Known(s, b) THEN Put(s, b, [Fresh(t, 0) EXCEPT !.circ = 1])
    ELSE IF t - s[b].circAt >= window THEN Put(s, b, [s[b] EXCEPT !.circ = Up(@), !.circAt = t])
    ELSE s

\* note_permanent_failure_at
Retire(s, b, t) == Put(s, b, [EntryOf(s, b, t, 0) EXCEPT !.circ = Retired, !.circAt = t])

\* note_source_at
Credit(s, b, label, t) == Put(s, b, [EntryOf(s, b, t, 0) EXCEPT !.src = @ \cup {label}])

\* The observations that count only for a bridge the store knows.
IfKnown(s, b, e) == IF Known(s, b) THEN Put(s, b, e) ELSE s
CircuitWorked(s, b, t) == IfKnown(s, b, [s[b] EXCEPT !.circ = 0, !.circAt = t])
ChannelWorked(s, b, t) == IfKnown(s, b, [s[b] EXCEPT !.ch = Up(@), !.chAt = t])
CircuitVerified(s, b, t) == IfKnown(s, b, [s[b] EXCEPT !.ver = Up(@), !.verAt = t, !.verTry = t])
VerificationTried(s, b, t) == IfKnown(s, b, [s[b] EXCEPT !.verTry = t])
-----------------------------------------------------------------------------
\* Rankings.  A rank is a sequence of numbers compared from the left, smallest
\* first; the position in the map breaks ties.

Before(x, y) == \E i \in 1 .. Len(x) : x[i] < y[i] /\ \A j \in 1 .. i - 1 : x[j] = y[j]

HealthRank(s) ==
    [b \in DOMAIN s |-> <<-s[b].ver, -s[b].verAt, -s[b].ch, -s[b].chAt, -s[b].ok, s[b].lat, b>>]
ChannelRank(s) == [b \in DOMAIN s |-> <<-s[b].chAt, -s[b].ch, b>>]
DueRank(s) == [b \in DOMAIN s |-> <<IF s[b].verTry # 0 THEN s[b].verTry ELSE s[b].verAt, b>>]

\* take_best: a heap bounded at limit, whose worst member gives way to a strictly
\* better item, sorted at the end.
TakeBest(bs, limit, rank) ==
    LET Keep(kept, b) == IF Cardinality(kept) < limit THEN kept \cup {b}
                         ELSE LET worst == CHOOSE x \in kept : \A y \in kept \ {x} : Before(rank[y], rank[x])
                              IN IF Before(rank[b], rank[worst]) THEN (kept \ {worst}) \cup {b} ELSE kept
    IN IF limit = 0 THEN <<>>
       ELSE SetToSortSeq(FoldLeft(Keep, {}, SetToSortSeq(bs, <)), LAMBDA x, y : Before(rank[x], rank[y]))

\* healthiest_among (healthiest_bridges is the case of every bridge)
HealthiestAmong(s, candidates, limit) ==
    TakeBest({b \in DOMAIN s \cap candidates : ProvenAlive(s[b])}, limit, HealthRank(s))

\* channel_proven_bridges
ChannelProven(s, limit) ==
    TakeBest({b \in DOMAIN s : s[b].ch > 0 /\ ~IsRetired(s[b])}, limit, ChannelRank(s))

\* needing_circuit_verification: channel-proven, not retired, never verified or
\* verified maxAge ago, within the caller's filter; longest unattempted first.
IsDue(s, b, t, maxAge) ==
    /\ Known(s, b) /\ s[b].ch > 0 /\ ~IsRetired(s[b])
    /\ s[b].verAt = 0 \/ t - s[b].verAt >= maxAge
NeedingVerification(s, t, maxAge, limit, wanted) ==
    TakeBest({b \in wanted : IsDue(s, b, t, maxAge)}, limit, DueRank(s))
=============================================================================
