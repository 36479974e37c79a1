------------------------------ MODULE CliVerify ------------------------------
(* The CLI bridge checks: the background rounds and the admission decisions *)
(* of a fetch share one verifier lock.  An admission decision has a         *)
(* deadline, its blocking worker does not stop at it, and the drain that    *)
(* started the workers joins them after it has released the pool.           *)
EXTENDS Integers, Sequences, Functions

CONSTANTS
    Calls,           \* admission decisions of one drain
    Rounds,          \* rounds of the background verifier
    CliPids,         \* pids the system hands out and reuses
    MarkersCap,      \* KILL_MARKERS_CAP
    NoJob

\* cleft: what the scenario still allows.  verifyLock: VERIFY_LOCK.
\* job: the blocking workers.  admission: what verify_for_admission returned.
\* tracked: handles in AdmissionWorkers.  drain: the drain that awaits them.
\* markers: KILL_MARKERS.  kids: our children by pid, named after the marker
\* of the job that started them or "pt".  hits: who a sweep terminated.
\* spared: children the last sweep that looked for them failed to see or to
\* terminate (history).  stopping: the verifier's token is cancelled.
VARIABLES cleft, verifyLock, job, admission, tracked, drain, markers, kids, hits, spared, stopping
cvars == <<cleft, verifyLock, job, admission, tracked, drain, markers, kids, hits, spared, stopping>>

Jobs == Calls \cup Rounds
ASSUME CliAssumption ==
    /\ Calls \cap Rounds = {} /\ NoJob \notin Jobs /\ "pt" \notin Jobs
    /\ MarkersCap \in Nat \ {0}

JobIdle == [pc |-> "idle", left |-> 0, marker |-> FALSE, expired |-> FALSE, aims |-> {},
            oks |-> 0, verdict |-> FALSE, sent |-> "no"]
Inside == {"snap", "mark", "next", "run", "sweep", "kill", "tell"}

\* Any decisions and rounds, with any number of deadlines, spawns, exits, panics and
\* failed calls of a sweep.
CallScenarios == [calls : SUBSET Calls, rounds : SUBSET Rounds, due : Nat, abandons : Nat, spawns : Nat,
                  panics : Nat, main : Nat, exits : Nat, slips : Nat]

CliInit(scenarios) ==
    /\ cleft \in scenarios
    /\ verifyLock = NoJob /\ job = [j \in Jobs |-> JobIdle]
    /\ admission = [c \in Calls |-> "idle"] /\ tracked = {} /\ drain = "open"
    /\ markers = <<>> /\ kids = [p \in CliPids |-> NoJob] /\ hits = {} /\ spared = {}
    /\ stopping = FALSE

SetJob(j, r) == job' = [job EXCEPT ![j] = r]
Ended(j) == job[j].pc \in {"ended", "panicked"}

------------------------------------------------------------------------------
(* The asynchronous side.                                                   *)

\* verify_for_admission: the worker is registered in the step that spawns it.
AdmitBridge(c) ==
    /\ drain = "open" /\ admission[c] = "idle" /\ c \in cleft.calls
    /\ admission' = [admission EXCEPT ![c] = "waiting"]
    /\ tracked' = tracked \cup {c}
    /\ SetJob(c, [JobIdle EXCEPT !.pc = "scratch", !.left = 1])
    /\ UNCHANGED <<cleft, verifyLock, drain, markers, kids, hits, spared, stopping>>

\* The decision arrives, or the worker dropped its sender, or the deadline
\* passes first: the candidate is deferred and the worker goes on.
Decision(c) ==
    /\ admission[c] = "waiting"
    /\ \/ /\ job[c].sent # "no"
          /\ admission' = [admission EXCEPT ![c] = job[c].sent]
       \/ /\ job[c].sent = "no" /\ job[c].expired
          /\ admission' = [admission EXCEPT ![c] = "deferred"]
    /\ UNCHANGED <<cleft, verifyLock, job, tracked, drain, markers, kids, hits, spared, stopping>>
\* The caller's future is dropped while it waits.
Abandon(c) ==
    /\ admission[c] = "waiting" /\ cleft.abandons > 0
    /\ cleft' = [cleft EXCEPT !.abandons = @ - 1]
    /\ admission' = [admission EXCEPT ![c] = "abandoned"]
    /\ UNCHANGED <<verifyLock, job, tracked, drain, markers, kids, hits, spared, stopping>>
DeadlineOf(c) ==
    /\ admission[c] # "idle" /\ ~job[c].expired /\ ~Ended(c)
    /\ SetJob(c, [job[c] EXCEPT !.expired = TRUE])
    /\ UNCHANGED <<cleft, verifyLock, admission, tracked, drain, markers, kids, hits, spared, stopping>>

\* The drain has released the pool lock; join_all takes the handles and waits.
DrainJoins ==
    /\ \/ /\ drain = "open" /\ \A c \in cleft.calls : admission[c] \notin {"idle", "waiting"}
          /\ drain' = "joining" /\ UNCHANGED tracked
       \/ /\ drain = "joining" /\ \A c \in tracked : Ended(c)
          /\ drain' = "joined" /\ tracked' = {}
    /\ UNCHANGED <<cleft, verifyLock, job, admission, markers, kids, hits, spared, stopping>>

\* A tick of the background verifier: the due bridges are loaded off the
\* runtime; nothing due, or no PT binary, ends the round before it starts.
StartRound(r) ==
    /\ ~stopping /\ job[r].pc = "idle" /\ r \in cleft.rounds
    /\ \A q \in Rounds : job[q].pc = "idle" \/ Ended(q)
    /\ \E n \in 0 .. cleft.due : SetJob(r, [JobIdle EXCEPT !.pc = IF n = 0 THEN "ended" ELSE "lock", !.left = n])
    /\ UNCHANGED <<cleft, verifyLock, admission, tracked, drain, markers, kids, hits, spared, stopping>>
StopVerifier ==
    /\ ~stopping /\ stopping' = TRUE
    /\ UNCHANGED <<cleft, verifyLock, job, admission, tracked, drain, markers, kids, hits, spared>>

------------------------------------------------------------------------------
(* The blocking side: verify_bridges_sequential.                            *)

Sends(j, pc, verdict) == [JobIdle EXCEPT !.pc = pc, !.expired = job[j].expired, !.verdict = verdict,
                                         !.sent = IF pc = "panicked" THEN "failed" ELSE IF verdict THEN "verified" ELSE "refused"]

\* admission_verification: no scratch directory or no PT binary is an error,
\* which the decision sees as not verified.
MakeScratch(c) ==
    /\ c \in Calls /\ job[c].pc = "scratch"
    /\ SetJob(c, [job[c] EXCEPT !.pc = "lock"]) \/ SetJob(c, Sends(c, "ended", FALSE))
    /\ UNCHANGED <<cleft, verifyLock, admission, tracked, drain, markers, kids, hits, spared, stopping>>

\* The lock is tried until the deadline of an admission; a round waits for it.
TakeVerifyLock(j) ==
    /\ job[j].pc = "lock"
    /\ \/ verifyLock = NoJob /\ verifyLock' = j /\ SetJob(j, [job[j] EXCEPT !.pc = "snap"])
       \/ /\ verifyLock # NoJob /\ j \in Calls /\ job[j].expired
          /\ SetJob(j, Sends(j, "ended", FALSE)) /\ UNCHANGED verifyLock
    /\ UNCHANGED <<cleft, admission, tracked, drain, markers, kids, hits, spared, stopping>>

SnapshotTaken(j) ==
    /\ job[j].pc = "snap" /\ SetJob(j, [job[j] EXCEPT !.pc = "mark"])
    /\ UNCHANGED <<cleft, verifyLock, admission, tracked, drain, markers, kids, hits, spared, stopping>>

\* create_kill_marker and register_kill_marker: a copy of the PT binary under a
\* name of its own, remembered until MarkersCap others follow.  Without the copy
\* the batch runs the shared binary and nothing is reaped for it.
Registered(name) == IF name \in Range(markers) THEN markers
                    ELSE IF Len(markers) = MarkersCap THEN Append(Tail(markers), name) ELSE Append(markers, name)
MakeMarker(j) ==
    /\ job[j].pc = "mark"
    /\ \/ markers' = Registered(j) /\ SetJob(j, [job[j] EXCEPT !.pc = "next", !.marker = TRUE])
       \/ SetJob(j, [job[j] EXCEPT !.pc = "next"]) /\ UNCHANGED markers
    /\ UNCHANGED <<cleft, verifyLock, admission, tracked, drain, kids, hits, spared, stopping>>

\* The next bridge: out of time, without a directory or a runtime it is
\* answered with an error; otherwise its client starts.  After the last one the
\* lock is released and an admission sends its decision.
NextBridge(j) ==
    /\ job[j].pc = "next"
    /\ \/ /\ job[j].left = 0
          /\ verifyLock' = NoJob /\ SetJob(j, Sends(j, "ended", job[j].oks > 0))
       \/ /\ job[j].left > 0
          /\ SetJob(j, [job[j] EXCEPT !.left = @ - 1]) /\ UNCHANGED verifyLock
       \/ /\ job[j].left > 0 /\ ~job[j].expired
          /\ SetJob(j, [job[j] EXCEPT !.left = @ - 1, !.pc = "run"]) /\ UNCHANGED verifyLock
    /\ UNCHANGED <<cleft, admission, tracked, drain, markers, kids, hits, spared, stopping>>

StartChild(j, p) ==
    /\ job[j].pc = "run" /\ kids[p] = NoJob /\ cleft.spawns > 0
    /\ cleft' = [cleft EXCEPT !.spawns = @ - 1]
    /\ kids' = [kids EXCEPT ![p] = IF job[j].marker THEN j ELSE "pt"]
    /\ UNCHANGED <<verifyLock, job, admission, tracked, drain, markers, hits, spared, stopping>>

\* The check ends: bootstrapped and the canary confirmed Tor, or not, or no time
\* was left for one of the two.  The runtime is shut down.
CheckEnds(j) ==
    /\ job[j].pc = "run"
    /\ \E ok \in BOOLEAN :
         SetJob(j, [job[j] EXCEPT !.pc = "sweep", !.verdict = ok])
    /\ UNCHANGED <<cleft, verifyLock, admission, tracked, drain, markers, kids, hits, spared, stopping>>
\* A panic in the check unwinds the worker: the lock is released (poisoned, and
\* cleared by the next), nothing is reaped, the sender is dropped; the results
\* of a round are lost.
CheckPanics(j) ==
    /\ job[j].pc = "run" /\ cleft.panics > 0
    /\ cleft' = [cleft EXCEPT !.panics = @ - 1]
    /\ verifyLock' = NoJob
    /\ SetJob(j, Sends(j, "panicked", FALSE))
    /\ UNCHANGED <<admission, tracked, drain, markers, kids, hits, spared, stopping>>

Marked == {p \in CliPids : kids[p] \in Range(markers)}
Slip == cleft.slips > 0 /\ cleft' = [cleft EXCEPT !.slips = @ - 1]
\* own_children_with_names: the children named like any marker still registered,
\* whichever batch left them.  A snapshot that fails or breaks off shows fewer or
\* none.  An aim keeps whether its pid still is the process that was seen.
SeeMarked(j) ==
    /\ job[j].pc = "sweep"
    /\ \E unseen \in SUBSET Marked :
         /\ IF unseen = {} THEN UNCHANGED cleft ELSE Slip
         /\ SetJob(j, [job[j] EXCEPT !.pc = "kill", !.aims = {[pid |-> p, same |-> TRUE] : p \in Marked \ unseen}])
         /\ spared' = (spared \ Marked) \cup unseen
    /\ UNCHANGED <<verifyLock, admission, tracked, drain, markers, kids, hits, stopping>>
\* kill_marked_children: each is opened and terminated by its pid; a child that
\* cannot be opened, or not be terminated, is left alone.
Terminate(j) ==
    /\ job[j].pc = "kill"
    /\ IF job[j].aims = {} THEN SetJob(j, [job[j] EXCEPT !.pc = "tell"]) /\ UNCHANGED <<cleft, kids, hits, spared>>
       ELSE \E a \in job[j].aims :
              /\ SetJob(j, [job[j] EXCEPT !.aims = @ \ {a}])
              /\ \/ /\ kids' = [kids EXCEPT ![a.pid] = NoJob] /\ spared' = spared \ {a.pid}
                    /\ hits' = IF kids[a.pid] = NoJob THEN hits
                               ELSE hits \cup {[by |-> j, name |-> kids[a.pid], same |-> a.same]}
                    /\ UNCHANGED cleft
                 \/ /\ kids[a.pid] # NoJob /\ Slip
                    /\ spared' = spared \cup {a.pid} /\ UNCHANGED <<kids, hits>>
    /\ UNCHANGED <<verifyLock, admission, tracked, drain, markers, stopping>>

\* on_result and the removal of the check's directory.
TellResult(j) ==
    /\ job[j].pc = "tell"
    /\ SetJob(j, [job[j] EXCEPT !.pc = "next", !.verdict = FALSE, !.oks = IF job[j].verdict THEN @ + 1 ELSE @])
    /\ UNCHANGED <<cleft, verifyLock, admission, tracked, drain, markers, kids, hits, spared, stopping>>

------------------------------------------------------------------------------
MainPtStarts(p) ==
    /\ kids[p] = NoJob /\ cleft.main > 0
    /\ cleft' = [cleft EXCEPT !.main = @ - 1]
    /\ kids' = [kids EXCEPT ![p] = "pt"]
    /\ UNCHANGED <<verifyLock, job, admission, tracked, drain, markers, hits, spared, stopping>>
KidExits(p) ==
    /\ kids[p] # NoJob /\ cleft.exits > 0
    /\ cleft' = [cleft EXCEPT !.exits = @ - 1]
    /\ kids' = [kids EXCEPT ![p] = NoJob]
    /\ job' = [j \in Jobs |-> [job[j] EXCEPT !.aims = {[a EXCEPT !.same = @ /\ a.pid # p] : a \in job[j].aims}]]
    /\ spared' = spared \ {p}
    /\ UNCHANGED <<verifyLock, admission, tracked, drain, markers, hits, stopping>>

JobSteps(j) ==
    \/ MakeScratch(j) \/ TakeVerifyLock(j) \/ SnapshotTaken(j) \/ MakeMarker(j) \/ NextBridge(j)
    \/ CheckEnds(j) \/ SeeMarked(j) \/ Terminate(j) \/ TellResult(j)
CliSteps == \/ \E j \in Jobs : JobSteps(j)
            \/ \E c \in Calls : Decision(c) \/ DeadlineOf(c)
            \/ DrainJoins
CliNext ==
    \/ CliSteps
    \/ \E c \in Calls : AdmitBridge(c) \/ Abandon(c)
    \/ \E r \in Rounds : StartRound(r)
    \/ StopVerifier
    \/ \E j \in Jobs : CheckPanics(j)
    \/ \E p \in CliPids : MainPtStarts(p) \/ KidExits(p) \/ \E j \in Jobs : StartChild(j, p)

------------------------------------------------------------------------------
\* One batch at a time is between lock and unlock, background or admission.
\* What a sweep terminates was marked by some batch, and by none that is still
\* running its check; the one exception is a pid that changed hands between the
\* listing of the children and the call that opens it.
OneBatch ==
    /\ \A j \in Jobs : job[j].pc \in Inside <=> verifyLock = j
    /\ \A h \in hits : h.same => h.name \in Jobs /\ (h.name = h.by \/ Ended(h.name))

\* A batch that ended without a panic has no marked child left, but one that the
\* last sweep which looked for it failed to see or to terminate, or that a later
\* sweep aims at; after each sweep no child of any batch whose marker is known is
\* left, of a panicked one or one spared before, but those this sweep failed on.
Reaped ==
    /\ \A p \in CliPids : kids[p] \in Jobs /\ job[kids[p]].pc = "ended" =>
         p \in spared \/ \E j \in Jobs : \E a \in job[j].aims : a.pid = p
    /\ \A j \in Jobs : job[j].pc = "tell" => Marked \subseteq spared

\* The drain does not end before every worker it started has, timed out,
\* abandoned or not; a candidate counts as verified only if its own check
\* confirmed Tor.
DrainOwnsWorkers ==
    /\ drain = "joined" => \A c \in Calls : job[c].pc \in {"idle", "ended", "panicked"}
    /\ \A c \in Calls : admission[c] = "verified" => job[c].verdict

CliInv == OneBatch /\ Reaped /\ DrainOwnsWorkers

CliQuiet == /\ \A j \in Jobs : job[j].pc \in {"idle", "ended", "panicked"}
            /\ drain # "joining" /\ \A c \in Calls : admission[c] # "waiting"
=============================================================================
