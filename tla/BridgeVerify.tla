---------------------------- MODULE BridgeVerify ----------------------------
(* The Android bridge checks: batches started by a scan (several checks at  *)
(* once) or by the engine's background tick (one at a time), each check a   *)
(* throwaway Tor client whose pluggable-transport child has to be reaped    *)
(* by the token in its environment, through a pidfd, and never by its pid.  *)
EXTENDS Integers

CONSTANTS
    Scans, Ticks,      \* batches started from Java, and by the engine's tick
    Concurrency,       \* QR_VERIFY_CONCURRENCY
    Pids,              \* pids the kernel hands out and reuses
    StaleDirs,         \* scratch names left by an earlier process with our pid
    None

\* vleft: what the scenario still allows (engine PT starts, children per run)
\* and what it fixes (lines per batch, a PT binary or none, pidfd support, and
\* which reads under /proc may fail).
\* scratchSeq: SCRATCH_SEQ.  dirs: scratch directories on disk.
\* batch, check: the batch threads and the checks of their workers.
\* procs: our children by pid, and whether the sweep of their check met a read
\* of theirs that failed without a word (history).  kills: who was killed by the
\* sweep of which check.  noted: checks whose sweep reported that a child may be
\* left.
VARIABLES vleft, scratchSeq, dirs, batch, check, procs, kills, noted
vvars == <<vleft, scratchSeq, dirs, batch, check, procs, kills, noted>>

Batches == Scans \cup Ticks
Slots == 1 .. Concurrency
Workers(b) == IF b \in Scans THEN Slots ELSE {1}
KindOf(b) == IF b \in Scans THEN "bridge-check" ELSE "circuit-verify"
ScratchNames == {"bridge-check", "circuit-verify"} \X Nat
ProcRec == [of : (Batches \X Nat) \cup {<<"engine", 0>>}, missed : BOOLEAN]
ASSUME VerifyAssumption ==
    /\ Concurrency \in Nat \ {0} /\ "engine" \notin Batches
    /\ StaleDirs \subseteq ScratchNames /\ None \notin ScratchNames /\ None \notin ProcRec

CheckIdle == [pc |-> "idle", idx |-> 0, pt |-> FALSE, aims |-> {}, at |-> None, held |-> FALSE]

\* What the platform may ask for: any batches, each over at least one bridge, with any
\* number of spawns by the engine and by the checks, and any reads that fail.
BatchScenarios == {s \in [batches : SUBSET Batches, lines : Nat, pt : BOOLEAN, pidfd : BOOLEAN,
                          unread : SUBSET {"stat", "environ", "again"}, engine : Nat, spawns : Nat] : s.batches # {} => s.lines > 0}

VerifyInit(scenarios) ==
    /\ vleft \in scenarios
    /\ scratchSeq = 0 /\ dirs = StaleDirs
    /\ batch = [b \in Batches |-> [pc |-> IF b \in vleft.batches THEN "load" ELSE "over",
                                   dir |-> None, next |-> 1, told |-> {}]]
    /\ check = [b \in Batches |-> [w \in Slots |-> CheckIdle]]
    /\ procs = [p \in Pids |-> None] /\ kills = {} /\ noted = {}

Id(b, w) == <<b, check[b][w].idx>>
Lines == 1 .. vleft.lines
SetBatch(b, r) == batch' = [batch EXCEPT ![b] = r]
SetCheck(b, w, r) == check' = [check EXCEPT ![b][w] = r]

------------------------------------------------------------------------------
(* The batch: nativeVerifyBridges' thread, or the task of the engine's tick. *)

\* Bridges that already failed today are answered from the store, those after
\* the first ones here; the rest is checked.  The tick has chosen its own.
PartitionDead(b) ==
    /\ batch[b].pc = "load"
    /\ \E dead \in IF b \in Scans THEN {{}, {vleft.lines}} ELSE {{}} :
         SetBatch(b, [batch[b] EXCEPT !.pc = "scratch", !.told = dead])
    /\ UNCHANGED <<vleft, scratchSeq, dirs, check, procs, kills, noted>>

\* create_exclusive_scratch: the counter moves on every try and an existing
\* name is never shared.  A scan that cannot have a directory answers for
\* every bridge and reports the end; a tick is skipped.
ClaimScratch(b) ==
    LET name == <<KindOf(b), scratchSeq>> IN
    /\ batch[b].pc = "scratch"
    /\ scratchSeq' = scratchSeq + 1
    /\ \/ name \in dirs /\ UNCHANGED <<dirs, batch>>
       \/ /\ name \notin dirs
          /\ dirs' = dirs \cup {name}
          /\ SetBatch(b, [batch[b] EXCEPT !.pc = "work", !.dir = name])
       \/ /\ SetBatch(b, [batch[b] EXCEPT !.pc = "over", !.told = IF b \in Scans THEN Lines ELSE {}])
          /\ UNCHANGED dirs
    /\ UNCHANGED <<vleft, check, procs, kills, noted>>

\* The scope joins its workers, the end is reported, the guard removes the
\* directory of the batch.
EndBatch(b) ==
    /\ batch[b].pc = "work" /\ \A w \in Workers(b) : check[b][w].pc = "exit"
    /\ dirs' = dirs \ {batch[b].dir}
    /\ SetBatch(b, [batch[b] EXCEPT !.pc = "over", !.dir = None])
    /\ check' = [check EXCEPT ![b] = [w \in Slots |-> CheckIdle]]
    /\ UNCHANGED <<vleft, scratchSeq, procs, kills, noted>>

------------------------------------------------------------------------------
(* One check: take a bridge, run the client, reap, remove, answer.          *)

TakeBridge(b, w) ==
    /\ batch[b].pc = "work" /\ check[b][w].pc = "idle"
    /\ LET rest == {i \in Lines : i >= batch[b].next /\ i \notin batch[b].told} IN
       \/ rest = {} /\ SetCheck(b, w, [CheckIdle EXCEPT !.pc = "exit"]) /\ UNCHANGED batch
       \/ \E i \in rest, pt \in BOOLEAN :
            /\ \A j \in rest : i <= j
            /\ SetBatch(b, [batch[b] EXCEPT !.next = i + 1])
            /\ SetCheck(b, w, [CheckIdle EXCEPT !.pc = "start", !.idx = i, !.pt = pt])
    /\ UNCHANGED <<vleft, scratchSeq, dirs, procs, kills, noted>>

\* execute_bridge_check up to the guard: no transport binary, or no directory,
\* is an answer at once.
StartCheck(b, w) ==
    /\ check[b][w].pc = "start"
    /\ \/ SetCheck(b, w, [check[b][w] EXCEPT !.pc = "answer"])
       \/ ~(check[b][w].pt /\ ~vleft.pt) /\ SetCheck(b, w, [check[b][w] EXCEPT !.pc = "run"])
    /\ UNCHANGED <<vleft, scratchSeq, dirs, batch, procs, kills, noted>>

\* The client launches its transport: only tasks of the check's own runtime do.
SpawnChild(b, w, p) ==
    /\ check[b][w].pc = "run" /\ check[b][w].pt /\ procs[p] = None /\ vleft.spawns > 0
    /\ vleft' = [vleft EXCEPT !.spawns = @ - 1]
    /\ procs' = [procs EXCEPT ![p] = [of |-> Id(b, w), missed |-> FALSE]]
    /\ UNCHANGED <<scratchSeq, dirs, batch, check, kills, noted>>

\* drive_check_future: an answer, an error, a timeout or a caught panic; the
\* runtime is shut down before the guard sweeps.
RunEnds(b, w) ==
    /\ check[b][w].pc = "run"
    /\ SetCheck(b, w, [check[b][w] EXCEPT !.pc = "scan"])
    /\ UNCHANGED <<vleft, scratchSeq, dirs, batch, procs, kills, noted>>

\* The processes of which a read fails, any of them.
Failing(read, ps) == IF read \in vleft.unread THEN SUBSET ps ELSE {{}}
\* own_child_procs_with_environ: the children of this process; one whose stat, or
\* the listing itself, cannot be read is passed over.
Listed(skipped) == {p \in Pids : procs[p] # None /\ p \notin skipped}
\* owned_process_targets: the children listed whose environment was read and
\* carries exactly the token.  Without a PT binary the token is empty and matches
\* nothing.
Targets(id, read) == {p \in read : vleft.pt /\ procs[p].of = id}
Miss(id, skipped) == [p \in Pids |-> IF procs[p] # None /\ procs[p].of = id /\ p \in skipped
                                     THEN [procs[p] EXCEPT !.missed = TRUE] ELSE procs[p]]
\* kill_own_state_children: a transport listed whose environment cannot be read is
\* warned about; without pidfd support the sweep stops here with a failure.
ScanChildren(b, w) ==
    /\ check[b][w].pc = "scan"
    /\ \E skipped \in Failing("stat", Listed({})) : \E dark \in Failing("environ", Listed(skipped)) :
         LET id == Id(b, w)
         IN /\ noted' = IF ~vleft.pidfd \/ (vleft.pt /\ dark # {}) THEN noted \cup {id} ELSE noted
            /\ procs' = Miss(id, skipped)
            /\ SetCheck(b, w, [check[b][w] EXCEPT
                                 !.pc = IF vleft.pidfd THEN "open" ELSE "remove",
                                 !.aims = IF vleft.pidfd THEN Targets(id, Listed(skipped) \ dark) ELSE {}])
    /\ UNCHANGED <<vleft, scratchSeq, dirs, batch, kills>>

\* sweep_owned_children, one target: the handle first.  It is bound to the
\* process that has the pid now, whoever that is.
OpenHandle(b, w) ==
    /\ check[b][w].pc = "open"
    /\ IF check[b][w].aims = {} THEN SetCheck(b, w, [check[b][w] EXCEPT !.pc = "remove"]) /\ UNCHANGED noted
       ELSE \E p \in check[b][w].aims :
              LET c == [check[b][w] EXCEPT !.aims = @ \ {p}]
              IN \/ procs[p] = None /\ SetCheck(b, w, c) /\ UNCHANGED noted              \* Gone
                 \/ procs[p] # None /\ SetCheck(b, w, [c EXCEPT !.pc = "prove", !.at = p, !.held = TRUE])
                    /\ UNCHANGED noted
                 \/ SetCheck(b, w, c) /\ noted' = noted \cup {Id(b, w)}                  \* another errno
                 \/ SetCheck(b, w, [c EXCEPT !.pc = "remove", !.aims = {}])              \* Unsupported
                    /\ noted' = noted \cup {Id(b, w)}
    /\ UNCHANGED <<vleft, scratchSeq, dirs, batch, procs, kills>>

\* The mutation of trusting the pid of the listing.
RevalidateNothing(b, w) ==
    /\ check[b][w].pc = "prove"
    /\ SetCheck(b, w, [check[b][w] EXCEPT !.pc = "kill"])
    /\ UNCHANGED <<vleft, scratchSeq, dirs, batch, procs, kills, noted>>
\* Then the environment of the pid is read again: only our token goes on, and a
\* read that fails is taken for another token.
Revalidate(b, w) ==
    LET c == check[b][w]
        ours == procs[c.at] # None /\ procs[c.at].of = Id(b, w)
    IN /\ c.pc = "prove"
       /\ \E failed \in Failing("again", {c.at}) :
            /\ procs' = Miss(Id(b, w), failed)
            /\ SetCheck(b, w, IF ours /\ failed = {} THEN [c EXCEPT !.pc = "kill"]
                              ELSE [c EXCEPT !.pc = "open", !.at = None, !.held = FALSE])
       /\ UNCHANGED <<vleft, scratchSeq, dirs, batch, kills, noted>>

\* The signal goes to the process the handle is bound to.
Signal(b, w) ==
    LET c == check[b][w]
        after == [c EXCEPT !.pc = "open", !.at = None, !.held = FALSE]
    IN /\ c.pc = "kill"
       /\ \/ /\ c.held
             /\ kills' = kills \cup {<<Id(b, w), procs[c.at].of>>}
             /\ procs' = [procs EXCEPT ![c.at] = None]
             /\ check' = [x \in Batches |-> [y \in Slots |->
                            IF x = b /\ y = w THEN after
                            ELSE IF check[x][y].at = c.at THEN [check[x][y] EXCEPT !.held = FALSE] ELSE check[x][y]]]
             /\ UNCHANGED noted
          \/ ~c.held /\ SetCheck(b, w, after) /\ UNCHANGED <<procs, kills, noted>>
          \/ SetCheck(b, w, after) /\ noted' = noted \cup {Id(b, w)} /\ UNCHANGED <<procs, kills>>
    /\ UNCHANGED <<vleft, scratchSeq, dirs, batch>>

\* The guard is gone, with the check's directory; the answer is given last.
RemoveCheckDir(b, w) ==
    /\ check[b][w].pc = "remove"
    /\ SetCheck(b, w, [check[b][w] EXCEPT !.pc = "answer"])
    /\ UNCHANGED <<vleft, scratchSeq, dirs, batch, procs, kills, noted>>
Answer(b, w) ==
    /\ check[b][w].pc = "answer"
    /\ SetBatch(b, [batch[b] EXCEPT !.told = @ \cup {check[b][w].idx}])
    /\ SetCheck(b, w, CheckIdle)
    /\ UNCHANGED <<vleft, scratchSeq, dirs, procs, kills, noted>>

------------------------------------------------------------------------------
(* Other processes: the engine's own transport, and exits that free a pid.  *)

EngineSpawns(p) ==
    /\ procs[p] = None /\ vleft.engine > 0
    /\ vleft' = [vleft EXCEPT !.engine = @ - 1]
    /\ procs' = [procs EXCEPT ![p] = [of |-> <<"engine", 0>>, missed |-> FALSE]]
    /\ UNCHANGED <<scratchSeq, dirs, batch, check, kills, noted>>
ChildExits(p) ==
    /\ procs[p] # None
    /\ procs' = [procs EXCEPT ![p] = None]
    /\ check' = [x \in Batches |-> [y \in Slots |->
                   IF check[x][y].at = p THEN [check[x][y] EXCEPT !.held = FALSE] ELSE check[x][y]]]
    /\ UNCHANGED <<vleft, scratchSeq, dirs, batch, kills, noted>>

CheckSteps(b, w) ==
    \/ TakeBridge(b, w) \/ StartCheck(b, w) \/ RunEnds(b, w) \/ ScanChildren(b, w) \/ OpenHandle(b, w)
    \/ Revalidate(b, w) \/ Signal(b, w) \/ RemoveCheckDir(b, w) \/ Answer(b, w)
VerifySteps ==
    \E b \in Batches : \/ PartitionDead(b) \/ ClaimScratch(b) \/ EndBatch(b)
                       \/ \E w \in Workers(b) : CheckSteps(b, w)
VerifyNext ==
    \/ VerifySteps
    \/ \E p \in Pids : \/ EngineSpawns(p) \/ ChildExits(p)
                       \/ \E b \in Batches, w \in Slots : SpawnChild(b, w, p)

------------------------------------------------------------------------------
Busy(b) == {w \in Workers(b) : check[b][w].pc \notin {"idle", "exit"}}

VerifyTypeOK ==
    /\ scratchSeq \in Nat /\ dirs \subseteq ScratchNames
    /\ \A b \in Batches :
         /\ batch[b].pc \in {"load", "scratch", "work", "over"} /\ batch[b].told \subseteq Lines
         /\ \A w \in Slots : check[b][w].aims \subseteq Pids /\ check[b][w].at \in Pids \cup {None}

\* A sweep kills the children of its own check and no other process, though
\* pids are reused at every point of it; a scratch directory is never shared
\* with another batch nor taken over from an earlier process.
OwnOnly ==
    /\ \A k \in kills : k[1] = k[2]
    /\ \A b \in Batches : batch[b].pc = "work" => batch[b].dir \in dirs /\ batch[b].dir \notin StaleDirs
    /\ \A b, c \in Batches : b # c /\ batch[b].pc = "work" => batch[b].dir # batch[c].dir

\* An answered check has no child left unless its sweep said that one may be, or a
\* read of that very child failed during it, which the code does not report; a
\* bridge is checked by one worker, once, and the end of a batch comes when
\* every bridge has its answer.
Accounted ==
    /\ \A p \in Pids, b \in Batches, i \in Lines :
         procs[p] # None /\ procs[p].of = <<b, i>> /\ i \in batch[b].told
            => <<b, i>> \in noted \/ procs[p].missed
    /\ \A b \in Batches : \A w, x \in Busy(b) :
         /\ w # x => check[b][w].idx # check[b][x].idx
         /\ check[b][w].idx \notin batch[b].told
    /\ \A b \in Batches : b \in vleft.batches \cap Scans /\ batch[b].pc = "over" => batch[b].told = Lines

VerifyInv == VerifyTypeOK /\ OwnOnly /\ Accounted

VerifyQuiet == \A b \in Batches : batch[b].pc = "over"
=============================================================================
