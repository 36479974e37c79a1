------------------------------- MODULE DohRace -------------------------------
(***************************************************************************)
(* The provider race of one hostname lookup (packages/bridge-probe/src):   *)
(* doh_wave_search, race_doh_wave, race_first_answer and                   *)
(* doh_provider_attempt of probe/dns_resolution.rs over the provider pool, *)
(* the lookup slots and the provider scores of dns.rs.                     *)
(*                                                                         *)
(* Providers are numbered in the order of DOH_PROVIDERS.  An attempt is a  *)
(* detached task: it outlives the wave that spawned it.                    *)
(***************************************************************************)
EXTENDS Integers, Sequences, FiniteSets, SequencesExt

CONSTANTS
    NProviders,     \* entries of DOH_PROVIDERS
    Fanout,         \* DOH_FANOUT
    MaxWaves,       \* DOH_MAX_WAVES
    Slots,          \* permits of doh_slots
    ScoreLimit,     \* DOH_SCORE_LIMIT
    Searches        \* concurrent calls of doh_wave_search

ASSUME RaceAssumption ==
    /\ {NProviders, Fanout, MaxWaves, Slots, ScoreLimit} \subseteq Nat \ {0}
    /\ IsFiniteSet(Searches)

VARIABLES
    race,       \* per search: pc, the provider order it read, the wave it is at
    attempt,    \* per search, wave and provider: the state of the attempt
    sent,       \* per search: outcomes in the channel of the current wave
    scores,     \* doh_scores
    todo        \* bound on searches still to start

rvars == <<race, attempt, sent, scores, todo>>

Providers == 1 .. NProviders
Waves == 1 .. MaxWaves
IdleRace == [pc |-> "idle", order |-> <<>>, wave |-> 0]

\* doh_order: best score first, ties in the order of the list.
doh_order == SortSeq([i \in Providers |-> i],
                     LAMBDA p, q : scores[p] > scores[q] \/ (scores[p] = scores[q] /\ p < q))
\* order.chunks(DOH_FANOUT)[w]
Wave(order, w) == {order[i] : i \in {j \in DOMAIN order : (j - 1) \div Fanout = w - 1}}
Clamp(x) == IF x > ScoreLimit THEN ScoreLimit ELSE IF x < -ScoreLimit THEN -ScoreLimit ELSE x
note_doh_result(p, answered) ==
    scores' = [scores EXCEPT ![p] = Clamp(@ + IF answered THEN 1 ELSE -1)]

Running == {x \in Searches \X Waves \X Providers : attempt[x[1]][x[2]][x[3]] = "running"}
\* The admission token of a wave lives as long as the call of race_first_answer.
Admitting(s, w) == race[s].pc = "racing" /\ race[s].wave = w

Spawn(s, order, w) ==
    /\ race' = [race EXCEPT ![s] = [pc |-> "racing", order |-> order, wave |-> w]]
    /\ attempt' = [attempt EXCEPT ![s][w] =
                     [p \in Providers |-> IF p \in Wave(order, w) THEN "queued" ELSE "none"]]
    /\ sent' = [sent EXCEPT ![s] = {}]

\* The search starts once the attempts of an earlier one by the same caller are
\* gone (a bound of the model).
StartSearch(s) ==
    /\ race[s].pc = "idle" /\ todo > 0
    /\ \A w \in Waves, p \in Providers : attempt[s][w][p] = "none"
    /\ Spawn(s, doh_order, 1)
    /\ todo' = todo - 1
    /\ UNCHANGED scores

\* The biased select of doh_provider_attempt: a cancelled token wins over a
\* free permit, and an attempt that never ran is not scored.
Admit(s, w, p) ==
    /\ attempt[s][w][p] = "queued"
    /\ \/ /\ ~Admitting(s, w) /\ attempt' = [attempt EXCEPT ![s][w][p] = "none"]
       \/ /\ Admitting(s, w) /\ Cardinality(Running) < Slots
          /\ attempt' = [attempt EXCEPT ![s][w][p] = "running"]
    /\ UNCHANGED <<race, sent, scores, todo>>

\* The bounded lookup ends: an answer, an empty answer or nothing.  The score is
\* noted whoever is still listening, and the permit is free again.
Settle(s, w, p) ==
    /\ attempt[s][w][p] = "running"
    /\ \E outcome \in {"answer", "empty", "failed"} :
        /\ note_doh_result(p, outcome # "failed")
        /\ sent' = IF Admitting(s, w) THEN [sent EXCEPT ![s] = @ \union {<<p, outcome = "answer">>}]
                   ELSE sent
    /\ attempt' = [attempt EXCEPT ![s][w][p] = "none"]
    /\ UNCHANGED <<race, todo>>

\* race_first_answer receives: the first answer ends the race at once; the
\* channel closes when no attempt of the wave is left, and the next wave runs.
Receive(s) ==
    /\ race[s].pc = "racing"
    /\ LET w == race[s].wave order == race[s].order
       IN \/ /\ \E m \in sent[s] : m[2]
             /\ race' = [race EXCEPT ![s] = IdleRace] /\ sent' = [sent EXCEPT ![s] = {}]
             /\ UNCHANGED attempt
          \/ /\ ~\E m \in sent[s] : m[2]
             /\ \A p \in Providers : attempt[s][w][p] = "none"
             /\ IF w < MaxWaves /\ Wave(order, w + 1) # {} THEN Spawn(s, order, w + 1)
                ELSE /\ race' = [race EXCEPT ![s] = IdleRace]
                     /\ sent' = [sent EXCEPT ![s] = {}] /\ UNCHANGED attempt
    /\ UNCHANGED <<scores, todo>>

\* The caller's timeout drops the search mid-race.
Leave(s) ==
    /\ race[s].pc = "racing"
    /\ race' = [race EXCEPT ![s] = IdleRace] /\ sent' = [sent EXCEPT ![s] = {}]
    /\ UNCHANGED <<attempt, scores, todo>>

\* The end of flush_dns_cache: every score is stored as 0.
ResetScores ==
    /\ scores' = [p \in Providers |-> 0]
    /\ UNCHANGED <<race, attempt, sent, todo>>

RaceInit ==
    /\ race = [s \in Searches |-> IdleRace]
    /\ attempt = [s \in Searches |-> [w \in Waves |-> [p \in Providers |-> "none"]]]
    /\ sent = [s \in Searches |-> {}]
    /\ scores = [p \in Providers |-> 0]

Attempts(s) == \E w \in Waves, p \in Providers : Admit(s, w, p) \/ Settle(s, w, p)
RaceNext == \E s \in Searches : StartSearch(s) \/ Attempts(s) \/ Receive(s) \/ Leave(s)

-----------------------------------------------------------------------------
\* The slots bound the lookups in flight however many races were abandoned, and
\* a score stays within its limit.
RaceInv ==
    /\ Cardinality(Running) <= Slots
    /\ \A p \in Providers : scores[p] \in -ScoreLimit .. ScoreLimit

\* No race is running and no attempt of one is left, queued or running.
RaceQuiet ==
    \A s \in Searches : race[s].pc = "idle" /\ \A w \in Waves, p \in Providers : attempt[s][w][p] = "none"

=============================================================================
