------------------------------ MODULE WarmPool ------------------------------
(* The Android engine's watchdogs (engine_bootstrap.rs).  While the tunnel   *)
(* bootstraps, one task resets the channels when the percentage stalls.      *)
(* Once it is on, the stall watchdog keeps a rotation of bridges whose       *)
(* channel it has opened: it tops the rotation up, probes the tunnel, and    *)
(* after a sustained stall resets the channels and warms the rotation again. *)
(* The start-up warm-up, the sweep that forgets store entries and the stop   *)
(* signal interleave with it.  Ages are capped at the limit they are         *)
(* compared with.                                                            *)
EXTENDS Integers, FiniteSets, SequencesExt

CONSTANTS
    Configured,    \* the configured bridges, 1 .. n
    Preferred,     \* those of the preferred transport (all of them when it has none)
    Opened,        \* settings.bridges: those the session bootstrapped with
    Latencies,     \* warm-up times
    MaxWarm,       \* MAX_WARM_BRIDGES
    MaxChosen,     \* MAX_ACTIVE_BRIDGES
    TargetSize,    \* TARGET_WARM_POOL_SIZE
    TopupBatch,    \* WARM_TOPUP_BATCH
    RefreshBatch,  \* WARM_REFRESH_BATCH
    TopupEvery,    \* WARM_TOPUP_INTERVAL
    ResetEvery,    \* WATCHDOG_RESET_COOLDOWN
    MaxMisses,     \* WATCHDOG_FAILURES_BEFORE_RESET
    CheckEvery,    \* BOOTSTRAP_STALL_CHECK_INTERVAL
    StallTimeout   \* BOOTSTRAP_STALL_TIMEOUT

ASSUME WarmPoolAssumption ==
    /\ {MaxWarm, MaxChosen, TargetSize, TopupBatch, RefreshBatch, TopupEvery, ResetEvery, MaxMisses,
        CheckEvery, StallTimeout} \cup Latencies \cup Configured \subseteq Nat \ {0}
    /\ IsFiniteSet(Configured) /\ Opened \subseteq Configured /\ Preferred \subseteq Configured /\ Preferred # {}

VARIABLES
    guardian,   \* the stall watchdog: where it is, what it warms, the answers
    rotation,   \* rotation_bridges: bridge and latency, fastest first
    unwarmed,   \* warm_session_failed
    banned,     \* bridges the health store holds as retired
    listed,     \* the published active bridges, and who wrote them
    misses,     \* consecutive_failures
    ages,       \* time since the last top-up and the last reset
    opening,    \* the start-up warm-up is still running
    proved,     \* history: each bridge's last verdict since the reset (see Judge)
    stalling    \* the bootstrap stall watchdog

warmvars == <<guardian, rotation, unwarmed, banned, listed, misses, ages, opening, proved, stalling>>

NoChannel == 0
Mismatch == -1
Verdicts == {NoChannel, Mismatch} \cup Latencies
Smaller(x, y) == IF x < y THEN x ELSE y

Asleep(pc) == [pc |-> pc, batch |-> {}, got |-> <<>>]
NoStall == [on |-> FALSE, pct |-> 0, seen |-> -1, age |-> 0, next |-> 0, still |-> 0]

\* The session runs ("rotate"), bootstraps ("boot"), or there is none ("rest").  A top-up
\* is due at once.  engine_async has published the bridges it bootstrapped with.
WarmInit(phases) ==
    \E phase \in phases :
        /\ guardian = Asleep(IF phase = "rotate" THEN "sleep" ELSE "stopped")
        /\ rotation = <<>> /\ unwarmed = {} /\ misses = 0 /\ proved = [b \in Configured |-> 0]
        /\ listed = [by |-> "startup", bridges |-> SetToSortSeq(Opened, <)]
        /\ banned = {}
        /\ opening = (phase = "rotate")
        /\ ages = [topup |-> TopupEvery, reset |-> ResetEvery]
        /\ stalling = IF phase = "boot" THEN [NoStall EXCEPT !.on = TRUE, !.next = CheckEvery] ELSE NoStall
-----------------------------------------------------------------------------
\* Warming (warm_bridge_pool): every bridge is tried at once; the answers come in
\* any order and the warmed ones are sorted by their time.

Names(seq) == [i \in 1 .. Len(seq) |-> seq[i][1]]
Members(seq) == ToSet(Names(seq))

\* sort_by_key is stable
ByLatency(seq) ==
    LET order == SetToSortSeq(1 .. Len(seq), LAMBDA i, j : seq[i][2] < seq[j][2] \/ (seq[i][2] = seq[j][2] /\ i < j))
    IN [k \in 1 .. Len(seq) |-> seq[order[k]]]

WarmedOf(got) == {b \in DOMAIN got : got[b] > 0}
RetiredOf(got) == {b \in DOMAIN got : got[b] = Mismatch}

\* pool.warmed, for each order of completion
WarmedPools(got) == {ByLatency([i \in DOMAIN p |-> <<p[i], got[p[i]]>>]) : p \in SetToSeqs(WarmedOf(got))}

\* The history: a latency, Mismatch for a retirement, 0 for neither.
Judge(old, got) == [b \in Configured |-> IF b \in DOMAIN got /\ got[b] # NoChannel THEN got[b] ELSE old[b]]

\* The tasks end, and persist_warm_results takes the retirements to the store, unless it
\* can not be loaded or saved.
WarmTask ==
    /\ guardian.pc \in {"warming", "rewarming"}
    /\ \E got \in [guardian.batch -> Verdicts] :
        /\ guardian' = [guardian EXCEPT !.got = got, !.pc = IF @ = "warming" THEN "turn" ELSE "rebuild"]
        /\ banned' \in {banned, banned \cup RetiredOf(got)}
    /\ UNCHANGED <<rotation, unwarmed, listed, misses, ages, opening, proved, stalling>>

\* The start-up warm-up ends: it too retires, and publishes what it warmed.
OpeningWarmed ==
    /\ opening /\ guardian.pc # "stopped"
    /\ opening' = FALSE
    /\ \E warm \in SUBSET Opened, gone \in SUBSET Opened :
        /\ warm \cap gone = {} /\ Cardinality(warm \cup gone) <= MaxWarm
        /\ banned' \in {banned, banned \cup gone}
        /\ listed' \in IF warm = {} THEN {listed} ELSE {[by |-> "startup", bridges |-> p] : p \in SetToSeqs(warm)}
    /\ UNCHANGED <<guardian, rotation, unwarmed, misses, ages, proved, stalling>>

\* A sweep's prune deletes the retired entries from the store.
Forgotten ==
    /\ guardian.pc # "stopped" /\ banned # {}
    /\ banned' = {}
    /\ UNCHANGED <<guardian, rotation, unwarmed, listed, misses, ages, opening, proved, stalling>>
-----------------------------------------------------------------------------
\* The stall watchdog's loop.

WarmElapse ==
    /\ guardian.pc # "stopped"
    /\ ages' = [topup |-> Smaller(ages.topup + 1, TopupEvery), reset |-> Smaller(ages.reset + 1, ResetEvery)]
    /\ ages' # ages
    /\ UNCHANGED <<guardian, rotation, unwarmed, banned, listed, misses, opening, proved, stalling>>

\* stop_rx is selected on while asleep and while warming; the session's state goes with
\* the task, clear_shared_state empties the published list, and the store is no longer
\* of interest.
WarmStop ==
    /\ guardian.pc \in {"sleep", "warming", "rewarming"}
    /\ guardian' = Asleep("stopped")
    /\ rotation' = <<>> /\ unwarmed' = {} /\ misses' = 0 /\ opening' = FALSE
    /\ proved' = [b \in Configured |-> 0] /\ ages' = [topup |-> TopupEvery, reset |-> ResetEvery]
    /\ listed' = [by |-> "startup", bridges |-> <<>>]
    /\ banned' = {} /\ UNCHANGED stalling

GuardianWakes ==
    /\ guardian.pc = "sleep"
    /\ guardian' = Asleep(IF ages.topup >= TopupEvery THEN "topup" ELSE "canary")
    /\ UNCHANGED <<rotation, unwarmed, banned, listed, misses, ages, opening, proved, stalling>>

\* select_active_probe_bridges: without the retired ones unless all are, the whole
\* list when it is short, else a ranked part of it.
ChosenLists(readable) ==
    LET live == Preferred \ banned
        usable == IF readable /\ live # {} THEN live ELSE Preferred
    IN IF Cardinality(usable) <= MaxChosen THEN {usable}
       ELSE {part \in SUBSET usable : Cardinality(part) \in 1 .. MaxChosen}

\* Candidates that are not in the rotation and have not failed in this session.
TopUp ==
    /\ guardian.pc = "topup"
    /\ ages' = [ages EXCEPT !.topup = 0]
    /\ \E readable \in BOOLEAN : \E chosen \in ChosenLists(readable) :
        LET fresh == (chosen \ Members(rotation)) \ unwarmed
            size == IF Len(rotation) < TargetSize THEN TopupBatch ELSE RefreshBatch
        IN \E batch \in SUBSET fresh :
            /\ Cardinality(batch) = Smaller(size, Cardinality(fresh))
            /\ guardian' = IF batch = {} THEN Asleep("canary") ELSE [Asleep("warming") EXCEPT !.batch = batch]
    /\ UNCHANGED <<rotation, unwarmed, banned, listed, misses, opening, proved, stalling>>

\* What failed is not tried again in this session; what warmed joins the rotation,
\* which keeps its fastest members and is published.
Turn ==
    /\ guardian.pc = "turn"
    /\ unwarmed' = unwarmed \cup (guardian.batch \ WarmedOf(guardian.got))
    /\ \E warmed \in WarmedPools(guardian.got) :
        LET kept == SelectSeq(rotation, LAMBDA m : m[1] \notin RetiredOf(guardian.got))
            all == ByLatency(kept \o warmed)
        IN rotation' = SubSeq(all, 1, Smaller(Len(all), TargetSize))
    /\ listed' = [by |-> "rotation", bridges |-> Names(rotation')]
    /\ proved' = Judge(proved, guardian.got)
    /\ guardian' = Asleep("canary")
    /\ UNCHANGED <<banned, misses, ages, opening, stalling>>

CanaryWorks ==
    /\ guardian.pc = "canary"
    /\ misses' = 0 /\ guardian' = Asleep("sleep")
    /\ UNCHANGED <<rotation, unwarmed, banned, listed, ages, opening, proved, stalling>>

Sustained == misses + 1 >= MaxMisses /\ ages.reset >= ResetEvery

CanaryFails ==
    /\ guardian.pc = "canary" /\ ~Sustained
    /\ misses' = Smaller(misses + 1, MaxMisses) /\ guardian' = Asleep("sleep")
    /\ UNCHANGED <<rotation, unwarmed, banned, listed, ages, opening, proved, stalling>>

\* reset_warm_session_state and terminate_all_channels, which may fail; then the
\* rotation, or the configured list when it is empty, is warmed again.
Reset ==
    /\ guardian.pc = "canary" /\ Sustained
    /\ unwarmed' = {} /\ misses' = 0 /\ ages' = [ages EXCEPT !.reset = 0]
    /\ LET candidates == IF rotation = <<>> THEN SetToSortSeq(Configured, <) ELSE Names(rotation)
           tried == ToSet(SubSeq(candidates, 1, Smaller(MaxWarm, Len(candidates))))
       IN guardian' \in {Asleep("sleep"), [Asleep("rewarming") EXCEPT !.batch = tried]}
    /\ UNCHANGED <<rotation, banned, listed, opening, proved, stalling>>

\* The rotation becomes what warmed again; when nothing did it only loses what was
\* retired, and what is published stays.
Rebuild ==
    /\ guardian.pc = "rebuild"
    /\ LET kept == SelectSeq(rotation, LAMBDA m : m[1] \notin RetiredOf(guardian.got))
           judged == Judge(proved, guardian.got)
       IN /\ \E warmed \in WarmedPools(guardian.got) :
              /\ rotation' = IF warmed = <<>> THEN kept ELSE warmed
              /\ listed' = IF warmed = <<>> THEN listed ELSE [by |-> "rotation", bridges |-> Names(warmed)]
          /\ proved' = [b \in Configured |-> IF b \in Members(rotation') \/ judged[b] = Mismatch THEN judged[b] ELSE 0]
    /\ guardian' = Asleep("sleep")
    /\ UNCHANGED <<unwarmed, banned, misses, ages, opening, stalling>>
-----------------------------------------------------------------------------
\* bootstrap_stall_watchdog: a timely check every CheckEvery units.

StallElapse ==
    /\ stalling.on /\ stalling.next > 0
    /\ stalling' = [stalling EXCEPT !.next = @ - 1, !.age = Smaller(@ + 1, StallTimeout), !.still = @ + 1]
    /\ UNCHANGED <<guardian, rotation, unwarmed, banned, listed, misses, ages, opening, proved>>

BootMoves ==
    /\ stalling.on /\ stalling.pct < 2
    /\ stalling' = [stalling EXCEPT !.pct = @ + 1, !.still = 0]
    /\ UNCHANGED <<guardian, rotation, unwarmed, banned, listed, misses, ages, opening, proved>>

\* Ready, stopped or failed: the task is aborted or sees another status.
BootEnds ==
    /\ stalling.on /\ stalling' = NoStall
    /\ UNCHANGED <<guardian, rotation, unwarmed, banned, listed, misses, ages, opening, proved>>

BootChecked ==
    /\ stalling.on /\ stalling.next = 0
    /\ \/ /\ stalling.seen # stalling.pct
          /\ stalling' = [stalling EXCEPT !.seen = stalling.pct, !.age = 0, !.next = CheckEvery]
       \/ /\ stalling.seen = stalling.pct /\ stalling.age < StallTimeout
          /\ stalling' = [stalling EXCEPT !.next = CheckEvery]
    /\ UNCHANGED <<guardian, rotation, unwarmed, banned, listed, misses, ages, opening, proved>>

BootReset ==
    /\ stalling.on /\ stalling.next = 0 /\ stalling.seen = stalling.pct /\ stalling.age >= StallTimeout
    /\ stalling' = [stalling EXCEPT !.age = 0, !.next = CheckEvery, !.still = 0]
    /\ UNCHANGED <<guardian, rotation, unwarmed, banned, listed, misses, ages, opening, proved>>
-----------------------------------------------------------------------------
WarmNext ==
    \/ WarmTask \/ OpeningWarmed \/ Forgotten \/ WarmElapse \/ WarmStop
    \/ GuardianWakes \/ TopUp \/ Turn \/ CanaryWorks \/ CanaryFails \/ Reset \/ Rebuild
    \/ StallElapse \/ BootMoves \/ BootEnds \/ BootChecked \/ BootReset
-----------------------------------------------------------------------------
\* The rotation is ordered, within its size and without duplicates; no member is among
\* the bridges that failed in this session, and each carries the latency of its last
\* successful warm-up and has not been retired since.
RotationRight ==
    /\ Len(rotation) <= TargetSize /\ Cardinality(Members(rotation)) = Len(rotation)
    /\ \A i, j \in 1 .. Len(rotation) : i < j => rotation[i][2] <= rotation[j][2]
    /\ Members(rotation) \cap unwarmed = {}
    /\ guardian.pc # "rebuild" => \A i \in 1 .. Len(rotation) : proved[rotation[i][1]] = rotation[i][2]

\* A bridge that warmed since the last reset and is not in the rotation gave way to
\* faster ones.
ShedSlower ==
    \A b \in Configured \ Members(rotation) : proved[b] > 0 => \A i \in 1 .. Len(rotation) : rotation[i][2] <= proved[b]

\* Once the watchdog has published, and the start-up warm-up has not published over it,
\* what is published is the rotation in its order, and besides it only bridges that a reset
\* which warmed nothing has retired.
PublishedRight ==
    listed.by = "rotation" =>
        /\ Names(rotation) = SelectSeq(listed.bridges, LAMBDA b : b \in Members(rotation))
        /\ \A b \in ToSet(listed.bridges) \ Members(rotation) : proved[b] = Mismatch

\* A stalled bootstrap is reset no later than two checks after the timeout, counted from
\* the last change of the percentage or the last reset; and one whose percentage changed
\* within the timeout is not about to be reset.
StallNoticed ==
    /\ stalling.still <= StallTimeout + 2 * CheckEvery
    /\ stalling.seen = stalling.pct /\ stalling.age >= StallTimeout => stalling.still >= StallTimeout

\* The rotation the Android watchdog keeps, what it publishes of it, and the bootstrap
\* stall watchdog's timing.
WarmPoolInv == RotationRight /\ ShedSlower /\ PublishedRight /\ StallNoticed
=============================================================================
