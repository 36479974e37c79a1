------------------------------ MODULE Watchdog ------------------------------
(* The stale-channel watchdog (tor_watchdog_runtime.rs): a loop that samples *)
(* the connection counters of TorHealth with one relaxed load each, while    *)
(* connections go on counting, and terminates the client's channels when     *)
(* circuits fail although bridges answer.  One unit of the clock is one      *)
(* check interval.  Of the counters the model keeps what each one grew since *)
(* the watchdog last read it, which is all the loop uses of them.            *)
EXTENDS Integers, FiniteSets

CONSTANTS
    Stale,           \* stale_after_secs
    Cooldowns,       \* the values of rebuild_cooldown_secs, shorter and longer than the next
    LongCooldown,    \* EXTENDED_REBUILD_COOLDOWN
    MinAttempts,     \* MIN_ATTEMPTS_TO_TRIGGER
    BackoffAfter,    \* CONSECUTIVE_FAILURES_BEFORE_BACKOFF
    OverrideAfter,   \* GATED_TICKS_BEFORE_OVERRIDE
    Dials,           \* bound on the connections in progress
    KindCap,         \* bound on the failures of one kind between two reads
    Horizon          \* bound on the clock

ASSUME WatchdogAssumption ==
    {Stale, LongCooldown, MinAttempts, BackoffAfter, OverrideAfter, Dials, KindCap, Horizon} \cup Cooldowns \subseteq Nat \ {0}

VARIABLES
    wclock,     \* the wall clock, which is not set back
    okAt,       \* last_success; 0 before the first one
    target,     \* last_success_target is known
    grown,      \* growth of the four counters since the watchdog read each
    dialing,    \* connections between record_attempt and their outcome
    slot,       \* the tunnel slot is not drained
    dog,        \* the loop's locals
    streak      \* declined ticks since a connection last succeeded or a heal ran

watchvars == <<wclock, okAt, target, grown, dialing, slot, dog, streak>>

Kinds == <<"remote", "access", "net">>
Nothing == [attempts |-> 0, remote |-> 0, access |-> 0, net |-> 0]

\* The counters start together with the loop's baselines.  started_secs is 1.
WatchInit(on) ==
    /\ wclock = 1 /\ okAt = 0 /\ target = FALSE /\ grown = Nothing /\ dialing = 0 /\ streak = 0
    /\ slot = on
    /\ \E cooldown \in Cooldowns :
        dog = [pc |-> IF on THEN "idle" ELSE "stopped", tick |-> 1, prevOk |-> 0, new |-> Nothing,
               gated |-> 0, fails |-> 0, last |-> 0, deferred |-> 0, worked |-> TRUE, cooldown |-> IF on THEN cooldown ELSE 0]

WatchElapse ==
    /\ dog.pc # "stopped" /\ wclock < Horizon
    /\ wclock' = wclock + 1
    /\ UNCHANGED <<okAt, target, grown, dialing, slot, dog, streak>>
-----------------------------------------------------------------------------
\* The hot path (handle_connection): record_attempt, connect, then the outcome.

Dial ==
    /\ slot /\ dog.pc # "stopped" /\ dialing < Dials
    /\ dialing' = dialing + 1
    /\ grown' = [grown EXCEPT !.attempts = IF @ < MinAttempts THEN @ + 1 ELSE @]
    /\ UNCHANGED <<wclock, okAt, target, slot, dog, streak>>

\* record_success and record_success_target
DialWorked ==
    /\ dialing > 0
    /\ dialing' = dialing - 1
    /\ okAt' = wclock /\ target' = TRUE /\ streak' = 0
    /\ UNCHANGED <<wclock, grown, slot, dog>>

\* classify_and_record: three kinds are counted, any other error is not.
DialFailed ==
    /\ dialing > 0
    /\ dialing' = dialing - 1
    /\ \/ \E i \in 1 .. 3 : grown' = [grown EXCEPT ![Kinds[i]] = IF @ < KindCap THEN @ + 1 ELSE @]
       \/ UNCHANGED grown
    /\ UNCHANGED <<wclock, okAt, target, slot, dog, streak>>

\* live_route_works of the maintenance loop: a success without a target.
RouteProbed ==
    /\ slot /\ dog.pc # "stopped"
    /\ okAt' = wclock /\ streak' = 0
    /\ UNCHANGED <<wclock, target, grown, dialing, slot, dog>>

\* Shutdown empties the slot and cancels the loop.
SlotDrained ==
    /\ slot /\ dog.pc # "stopped"
    /\ slot' = FALSE
    /\ UNCHANGED <<wclock, okAt, target, grown, dialing, dog, streak>>
-----------------------------------------------------------------------------
\* One tick: the clock is read first, then every counter on its own.

Cancelled ==
    /\ dog.pc = "idle" /\ ~slot /\ dialing = 0
    /\ dog' = [dog EXCEPT !.pc = "stopped"]
    /\ UNCHANGED <<wclock, okAt, target, grown, dialing, slot, streak>>

Tick ==
    /\ dog.pc = "idle" /\ wclock > dog.tick
    /\ dog' = [dog EXCEPT !.pc = "success", !.tick = wclock]
    /\ UNCHANGED <<wclock, okAt, target, grown, dialing, slot, streak>>

\* reset_gated_ticks_on_success: before any early exit of the tick.
ReadSuccess ==
    /\ dog.pc = "success"
    /\ LET moved == okAt # dog.prevOk
       IN dog' = [dog EXCEPT !.pc = "attempts", !.prevOk = okAt,
                             !.gated = IF moved THEN 0 ELSE @, !.deferred = IF moved THEN 0 ELSE @]
    /\ UNCHANGED <<wclock, okAt, target, grown, dialing, slot, streak>>

\* attempt_count, remote_timeout_count, access_failed_count, net_timeout_count.
ReadCounter ==
    /\ dog.pc \in DOMAIN Nothing
    /\ LET after == CASE dog.pc = "attempts" -> "remote" [] dog.pc = "remote" -> "access"
                      [] dog.pc = "access" -> "net" [] OTHER -> "decide"
       IN dog' = [dog EXCEPT !.pc = after, !.new[dog.pc] = grown[dog.pc]]
    /\ grown' = [grown EXCEPT ![dog.pc] = 0]
    /\ UNCHANGED <<wclock, okAt, target, dialing, slot, streak>>

\* should_decline_rebuild
Declined(n) ==
    /\ n.remote > 0 \/ n.access > 0
    /\ ~(n.net > n.remote /\ n.net > n.access)

Overridden(gated) == gated >= OverrideAfter

\* next_cooldown
WaitAfter(fails) == IF fails >= BackoffAfter THEN LongCooldown ELSE dog.cooldown

\* The first three conditions: stale, still attempted, and a bridge answers.
IsOutage(alive) ==
    LET anchor == IF dog.prevOk # 0 THEN dog.prevOk ELSE 1
    IN dog.tick - anchor >= Stale /\ dog.new.attempts >= MinAttempts /\ alive
Cooled == dog.last = 0 \/ wclock - dog.last >= WaitAfter(dog.fails)

\* The rest of the tick up to the heal: the store is read, the signature gate and
\* the cooldown are applied, the slot is read.  A tick that ends early leaves the
\* cooldown and the failure count alone.
Decide ==
    /\ dog.pc = "decide"
    /\ \E alive \in BOOLEAN :
        LET declined == IsOutage(alive) /\ Declined(dog.new)
            gated == IF declined THEN dog.gated + 1 ELSE dog.gated
            heals == IsOutage(alive) /\ (declined => Overridden(gated)) /\ Cooled
            put == IsOutage(alive) /\ Cooled /\ ~heals
        IN /\ dog' = [dog EXCEPT !.pc = IF heals /\ slot THEN "heal" ELSE "idle", !.gated = gated, !.new = Nothing,
                                 !.deferred = IF put THEN @ + 1 ELSE @]
           /\ streak' = IF declined THEN streak + 1 ELSE streak
    /\ UNCHANGED <<wclock, okAt, target, grown, dialing, slot>>

\* heal: terminate_all_channels, then verify_usable, which may take VERIFY_TIMEOUT.
Terminate ==
    /\ dog.pc = "heal"
    /\ dog' = [dog EXCEPT !.pc = IF target THEN "verify" ELSE "healed"]
    /\ UNCHANGED <<wclock, okAt, target, grown, dialing, slot, streak>>

\* What the three outcomes of a heal write.
HealDone(worked) ==
    /\ dog' = [dog EXCEPT !.pc = "idle", !.last = wclock, !.gated = 0, !.deferred = 0, !.worked = worked,
                          !.fails = IF worked THEN 0 ELSE IF @ < BackoffAfter THEN @ + 1 ELSE @]
    /\ streak' = 0
    /\ UNCHANGED <<wclock, okAt, target, grown, dialing, slot>>
Healed == dog.pc \in {"verify", "healed"} /\ HealDone(TRUE)
NotHealed == dog.pc \in {"heal", "verify"} /\ HealDone(FALSE)

WatchNext ==
    \/ WatchElapse
    \/ Dial \/ DialWorked \/ DialFailed \/ RouteProbed \/ SlotDrained
    \/ Cancelled \/ Tick \/ ReadSuccess \/ ReadCounter \/ Decide
    \/ Terminate \/ Healed \/ NotHealed
-----------------------------------------------------------------------------
\* The loop's counters against what really happened, with connections succeeding
\* at any point of a tick, also twice within one second:
\*  - as long as no success is unread, the declined ticks counted towards an
\*    override are at most those since the last success or heal;
\*  - channels are terminated only if no success younger than the stale window had
\*    been recorded when the tick read it;
\*  - an outage that persists is healed: with the cooldown over, fewer than
\*    OverrideAfter ticks in a row may put the heal off;
\*  - after a heal that worked the next one waits for the configured cooldown, whatever
\*    was declined in between, and after any heal for the shorter of the two cooldowns:
\*    a configured cooldown that is longer than the extended one is cut by the backoff.
WatchdogInv ==
    /\ okAt = dog.prevOk => dog.gated <= streak
    /\ (dog.pc = "heal" /\ okAt = dog.prevOk) => okAt = 0 \/ okAt + Stale <= dog.tick
    /\ dog.deferred < OverrideAfter
    /\ (dog.pc = "heal" /\ dog.last # 0) =>
        \/ wclock - dog.last >= dog.cooldown
        \/ wclock - dog.last >= LongCooldown /\ ~dog.worked
=============================================================================
