--------------------------- MODULE CacheSnapshot ----------------------------
(* snapshot_cache_dir: the cache directory a throwaway bridge check starts  *)
(* from.  The database is taken with the online backup interface while the  *)
(* main client keeps writing it; the other files are copied one by one.     *)
(* The caller may give a deadline; the backup has a budget of its own.      *)
EXTENDS Integers

CONSTANTS Files    \* files of the live cache directory besides the database

\* snap: the call in progress.  db is dest's dir.sqlite3, side whether a journal
\* or WAL lies next to it, stuck whether this call failed to remove one (history), todo
\* the entries still to copy, got the last backup step
\* and turn the turns of its loop.
\* live: the live directory.  late: the backup's budget is used up; past: the
\* caller's deadline is over.  runs: calls still to come.
VARIABLES snap, live, late, past, runs
svars == <<snap, live, late, past, runs>>

DbStates == {"none", "partial", "whole"}
Idle == [pc |-> "idle", db |-> "none", side |-> FALSE, stuck |-> FALSE, todo |-> {}, bounded |-> FALSE, got |-> "none", turn |-> FALSE]

SnapTypeOK ==
    /\ snap.pc \in {"idle", "open", "backup", "wipe", "copy", "true", "false"}
    /\ snap.db \in DbStates /\ {snap.side, snap.stuck} \subseteq BOOLEAN /\ snap.bounded \in BOOLEAN
    /\ snap.todo \subseteq Files
    /\ live \in {"absent", "readable", "unreadable"} /\ late \in BOOLEAN /\ past \in BOOLEAN

SnapInit(n) ==
    /\ snap = Idle /\ live \in IF n = 0 THEN {"absent"} ELSE {"absent", "readable", "unreadable"}
    /\ late = FALSE /\ past = FALSE /\ runs = n

\* Steps 1 to 3: the directory, a stale database and its sidecars left by an
\* earlier batch, and the case of no live database at all.  The sidecars are
\* removed without looking at the outcome.
Prepare ==
    /\ snap.pc = "idle" /\ runs > 0
    /\ runs' = runs - 1 /\ late' = FALSE /\ past' = FALSE
    /\ \E bounded \in BOOLEAN, sticks \in BOOLEAN :
         LET s == [snap EXCEPT !.bounded = bounded, !.side = @ /\ sticks, !.stuck = snap.side /\ sticks, !.db = "none", !.got = "none", !.turn = FALSE]
         IN \/ snap' = [snap EXCEPT !.pc = "false", !.bounded = bounded]    \* create_dir_all or remove_file failed
            \/ snap' = [s EXCEPT !.pc = IF live = "absent" THEN "true" ELSE "open"]
    /\ UNCHANGED live

\* The read-only open of the live database, and the two connections of the backup.
OpenLive ==
    /\ snap.pc = "open"
    /\ \/ live = "unreadable" /\ snap' = [snap EXCEPT !.pc = "wipe"]
       \/ live = "readable" /\ snap' = [snap EXCEPT !.pc = "backup", !.db = "partial"]
       \/ live = "readable" /\ snap' = [snap EXCEPT !.pc = "wipe", !.db = "partial"]
    /\ UNCHANGED <<live, late, past, runs>>

OutOfTime == late \/ (snap.bounded /\ past)

\* The mutation of looking at the clock only when the database is busy.
BackupStepBusyOnly ==
    /\ snap.pc = "backup"
    /\ IF OutOfTime /\ snap.got = "busy" THEN snap' = [snap EXCEPT !.pc = "wipe"]
       ELSE \/ snap' = [snap EXCEPT !.pc = "copy", !.db = "whole", !.todo = Files]
            \/ snap' = [snap EXCEPT !.got = "more", !.turn = ~@]
            \/ snap' = [snap EXCEPT !.got = "busy", !.turn = ~@]
            \/ snap' = [snap EXCEPT !.pc = "wipe"]
    /\ UNCHANGED <<live, late, past, runs>>
\* One turn of the loop of backup steps: the deadline first, then a step that
\* finishes, copies more pages, meets a busy database or fails.
BackupStep ==
    /\ snap.pc = "backup"
    /\ IF OutOfTime THEN snap' = [snap EXCEPT !.pc = "wipe"]
       ELSE \/ snap' = [snap EXCEPT !.pc = "copy", !.db = "whole", !.todo = Files]
            \/ snap' = [snap EXCEPT !.got = "more", !.turn = ~@]
            \/ snap' = [snap EXCEPT !.got = "busy", !.turn = ~@]
            \/ snap' = [snap EXCEPT !.pc = "wipe"]
    /\ UNCHANGED <<live, late, past, runs>>

\* remove_db_and_sidecars: a partial database is not kept; a file that cannot
\* be removed makes the directory unusable.
WipeFailed ==
    /\ snap.pc = "wipe"
    /\ \/ snap' = [snap EXCEPT !.pc = "true", !.db = "none", !.side = FALSE]
       \/ snap' = [snap EXCEPT !.pc = "false"]
    /\ UNCHANGED <<live, late, past, runs>>

\* copy_rest_recursive: one entry, copied or not; the caller's deadline is
\* looked at before each.
CopyRest ==
    /\ snap.pc = "copy"
    /\ \/ (snap.todo = {} \/ (snap.bounded /\ past)) /\ snap' = [snap EXCEPT !.pc = "true"]
       \/ /\ ~(snap.bounded /\ past)
          /\ \E f \in snap.todo : snap' = [snap EXCEPT !.todo = @ \ {f}]
    /\ UNCHANGED <<live, late, past, runs>>

\* The check client has used the directory and it stays for the next batch,
\* with whatever sidecars the client left.
Reuse ==
    /\ snap.pc \in {"true", "false"}
    /\ \E side \in BOOLEAN : snap' = [snap EXCEPT !.pc = "idle", !.side = side, !.stuck = FALSE, !.todo = {}]
    /\ UNCHANGED <<live, late, past, runs>>

BudgetEnds == snap.pc = "backup" /\ ~late /\ late' = TRUE /\ UNCHANGED <<snap, live, past, runs>>
DeadlinePasses ==
    /\ snap.pc \in {"open", "backup", "copy"} /\ snap.bounded /\ ~past
    /\ past' = TRUE /\ UNCHANGED <<snap, live, late, runs>>
\* The main client creates its database while checks run.
LiveAppears == live = "absent" /\ snap.pc # "idle" /\ live' = "readable" /\ UNCHANGED <<snap, late, past, runs>>

SnapSteps == Prepare \/ OpenLive \/ BackupStep \/ WipeFailed \/ CopyRest \/ Reuse \/ BudgetEnds
SnapNext == SnapSteps \/ DeadlinePasses \/ LiveAppears

\* A directory that is reported usable holds the whole database or none: a
\* check never starts from a torn copy of what the main client is writing, and
\* a backup that ran out of time leaves nothing of itself behind.  A journal or
\* WAL of an earlier check lies next to it only if its removal failed at the
\* start, which the code does not look at.
SnapshotWhole == snap.pc = "true" => snap.db # "partial" /\ (snap.side => snap.stuck)

SnapQuiet == snap.pc = "idle" /\ runs = 0
=============================================================================
