----------------------------- MODULE StoreWriter -----------------------------
(***************************************************************************)
(* The single writer of the bridge health store                            *)
(* (apps/socks5-proxy/src/bridges/bridge_store_writer.rs): the actor task  *)
(* of the angel process, the callers that send it mutations and close it,  *)
(* the publishes it runs on the blocking pool, and the CLI processes that  *)
(* write the same file inline, all under one PathLock                      *)
(* (packages/persist-lock/src/path_lock.rs).                               *)
(*                                                                         *)
(* A mutation is an identifier and the store's contents are the set of the *)
(* mutations in it.  A save is atomic (module TempFile), but may report an *)
(* error after its rename.  Time is abstracted to whether retry_at has     *)
(* passed.  The angel process may die anywhere and start anew.             *)
(***************************************************************************)
EXTENDS Naturals, Sequences

CONSTANTS
    Angel,          \* mutations sent to the actor, each by a caller of its own
    Cli,            \* mutations made inline, each by a CLI process of its own
    Closers,        \* callers of StoreWriter::close
    ChannelCap,     \* capacity of the op channel (64 in the code)
    MaxCrashes,     \* bound on the deaths of the angel process
    NoOwner, TheActor, NoOp

ASSUME DisjointAssumption ==
    /\ Angel \intersect Cli = {}
    /\ (Angel \union Cli) \intersect Closers = {}
    /\ NoOp \notin Angel \union Closers
    /\ TheActor \notin Cli /\ NoOwner \notin Cli \union {TheActor}
ASSUME BoundsAssumption == ChannelCap \in Nat \ {0} /\ MaxCrashes \in Nat

VARIABLES
    ack,        \* caller of apply: "new", "sent", "ok", "err", "gone"
    closed,     \* caller of close: "new", "sent", "replied", "dropped", "late",
                \*                  "ok", "err", "gone"
    chan,       \* the op channel
    pc,         \* the actor: "loop", "acquire", "load", "mutate", "closing",
                \*            "flush", "exit", "done"
    op,         \* the op in the actor's hands
    loaded,     \* there is a retained snapshot (store.is_some())
    store,      \* the retained snapshot, {} when there is none
    lock,       \* holder of the PathLock
    dirty,      \* RetryState.dirty
    retry_at,   \* "none", or a deadline in the "future" or the "past"
    tail,       \* mutations_since_publish # 0
    job,        \* the publish in flight and its result, "none" when there is none
    outcome,    \* result of the final flush
    handle,     \* the actor's JoinHandle has not been taken
    disk,       \* mutations in the store file
    cli,        \* CLI process: "new", "load", "save", "unlock", "end"
    snapshot,   \* what a CLI process loaded
    result,     \* what a CLI process will report: "ok" or "err"
    crashes,    \* deaths of the angel so far
    lost        \* acknowledged mutations that a death took along (history)

callers == <<ack, closed>>
memory == <<loaded, store>>
retry == <<dirty, retry_at, tail, job>>
clis == <<cli, snapshot, result>>
ghosts == <<crashes, lost>>
vars == <<ack, closed, chan, pc, op, memory, lock, retry, outcome, handle, disk,
          clis, ghosts>>

All == Angel \union Cli
Job == [snapshot : SUBSET All, result : {"none", "running", "ok", "err"}]
NoJob == [snapshot |-> {}, result |-> "none"]

\* The shape of the writer actor, its handles, the file and the CLI processes;
\* the request channel never holds more than its capacity.
TypeOK ==
    /\ ack \in [Angel -> {"new", "sent", "ok", "err", "gone"}]
    /\ closed \in [Closers -> {"new", "sent", "replied", "dropped", "late",
                               "ok", "err", "gone"}]
    /\ chan \in Seq(Angel \union Closers) /\ Len(chan) <= ChannelCap
    /\ pc \in {"loop", "acquire", "load", "mutate", "closing", "flush", "exit",
               "done"}
    /\ op \in Angel \union Closers \union {NoOp}
    /\ loaded \in BOOLEAN /\ store \in SUBSET All
    /\ lock \in Cli \union {TheActor, NoOwner}
    /\ dirty \in BOOLEAN
    /\ retry_at \in {"none", "future", "past"}
    /\ tail \in BOOLEAN
    /\ job \in Job
    /\ outcome \in {"ok", "err"}
    /\ handle \in BOOLEAN
    /\ disk \in SUBSET All
    /\ cli \in [Cli -> {"new", "load", "save", "unlock", "end"}]
    /\ snapshot \in [Cli -> SUBSET All]
    /\ result \in [Cli -> {"ok", "err"}]
    /\ crashes \in 0..MaxCrashes
    /\ lost \in SUBSET Angel

\* StoreWriter::spawn, before anything was ever written.
Init ==
    /\ ack = [m \in Angel |-> "new"]
    /\ closed = [c \in Closers |-> "new"]
    /\ chan = <<>>
    /\ pc = "loop" /\ op = NoOp
    /\ loaded = FALSE /\ store = {} /\ lock = NoOwner
    /\ dirty = FALSE /\ retry_at = "none" /\ tail = FALSE /\ job = NoJob
    /\ outcome = "ok" /\ handle = TRUE
    /\ disk = {}
    /\ cli = [m \in Cli |-> "new"]
    /\ snapshot = [m \in Cli |-> {}]
    /\ result = [m \in Cli |-> "ok"]
    /\ crashes = 0 /\ lost = {}

publishing == job.result # "none"

-----------------------------------------------------------------------------
(* The callers inside the angel process.                                   *)

\* StoreWriter::apply: the send waits for room; it fails once the actor has
\* dropped the receiver.
Send(m) ==
    /\ ack[m] = "new"
    /\ \/ /\ pc # "done" /\ Len(chan) < ChannelCap
          /\ chan' = Append(chan, m)
          /\ ack' = [ack EXCEPT ![m] = "sent"]
       \/ /\ pc = "done"
          /\ ack' = [ack EXCEPT ![m] = "err"]
          /\ UNCHANGED chan
    /\ UNCHANGED <<closed, pc, op, memory, lock, retry, outcome, handle, disk,
                   clis, ghosts>>

\* StoreWriter::close: send a Close op, or find the actor gone (Ok so far).
CloseSend(c) ==
    /\ closed[c] = "new"
    /\ \/ /\ pc # "done" /\ Len(chan) < ChannelCap
          /\ chan' = Append(chan, c)
          /\ closed' = [closed EXCEPT ![c] = "sent"]
       \/ /\ pc = "done"
          /\ closed' = [closed EXCEPT ![c] = "late"]
          /\ UNCHANGED chan
    /\ UNCHANGED <<ack, pc, op, memory, lock, retry, outcome, handle, disk,
                   clis, ghosts>>

\* ... then take the join handle and join the actor.  A reply carries the
\* outcome; a dropped reply is an error; a late caller has only the join.
CloseJoin(c) ==
    /\ closed[c] \in {"replied", "dropped", "late"}
    /\ handle => pc = "done"
    /\ handle' = FALSE
    /\ closed' = [closed EXCEPT ![c] =
          IF \/ closed[c] = "dropped"
             \/ closed[c] = "replied" /\ outcome = "err"
             \/ handle /\ outcome = "err"
          THEN "err" ELSE "ok"]
    /\ UNCHANGED <<ack, chan, pc, op, memory, lock, retry, outcome, disk, clis,
                   ghosts>>

-----------------------------------------------------------------------------
(* try_start_publish, with the values it finds: one publish at a time, only *)
(* of dirty state, and not while a retry is waiting for its deadline.      *)

TryStartPublish(running, d, l, s, r, t) ==
    IF ~running /\ d /\ l /\ r # "future"
    THEN /\ job' = [snapshot |-> s, result |-> "running"]
         /\ tail' = FALSE
    ELSE /\ job' = IF running THEN job ELSE NoJob
         /\ tail' = t

\* A save: the file is replaced or it is not; it may report an error either way.
Save(s, ok) ==
    IF ok THEN disk' = s ELSE disk' \in {disk, s}

\* The job on the blocking pool publishes and sends its result to done_tx.
PublishJob ==
    /\ publishing /\ job.result = "running"
    /\ \E ok \in BOOLEAN :
          /\ Save(job.snapshot, ok)
          /\ job' = [job EXCEPT !.result = IF ok THEN "ok" ELSE "err"]
    /\ UNCHANGED <<callers, chan, pc, op, memory, lock, dirty, retry_at, tail,
                   outcome, handle, clis, ghosts>>

-----------------------------------------------------------------------------
(* The actor's select loop.                                                *)

\* rx.recv(): a mutation of a clean snapshot starts by taking the lock.
Recv ==
    /\ pc = "loop" /\ chan # <<>>
    /\ op' = Head(chan)
    /\ chan' = Tail(chan)
    /\ pc' = CASE op' \in Closers -> "closing"
               [] op' \in Angel /\ ~loaded -> "acquire"
               [] OTHER -> "mutate"
    /\ UNCHANGED <<callers, memory, lock, retry, outcome, handle, disk, clis,
                   ghosts>>

\* The op's ack resolves Err; back to the loop.
Refuse ==
    /\ ack' = [ack EXCEPT ![op] = "err"]
    /\ op' = NoOp
    /\ pc' = "loop"

\* Mutant: the actor loads without the lock.
AcquireSkipped ==
    /\ pc = "acquire"
    /\ pc' = "load"
    /\ UNCHANGED <<callers, chan, op, memory, lock, retry, outcome, handle,
                   disk, clis, ghosts>>

\* PathLock::acquire in the blocking job: waits for the holder.
Acquire ==
    /\ pc = "acquire"
    /\ \/ /\ lock = NoOwner
          /\ lock' = TheActor
          /\ pc' = "load"
          /\ UNCHANGED <<ack, op>>
       \/ /\ Refuse
          /\ UNCHANGED lock
    /\ UNCHANGED <<closed, chan, memory, retry, outcome, handle, disk, clis,
                   ghosts>>

\* BridgeStore::load; on an error the guard dies with the job and the closure
\* is not run.
Load ==
    /\ pc = "load"
    /\ \/ /\ loaded' = TRUE /\ store' = disk
          /\ pc' = "mutate"
          /\ UNCHANGED <<ack, op, lock>>
       \/ /\ Refuse
          /\ lock' = NoOwner
          /\ UNCHANGED memory
    /\ UNCHANGED <<closed, chan, retry, outcome, handle, disk, clis, ghosts>>

\* The mutation ran on a private copy: swap it in, acknowledge, publish.
Mutate ==
    /\ pc = "mutate"
    /\ store' = store \union {op}
    /\ ack' = [ack EXCEPT ![op] = "ok"]
    /\ dirty' = TRUE
    /\ TryStartPublish(publishing, TRUE, loaded, store', retry_at, TRUE)
    /\ op' = NoOp
    /\ pc' = "loop"
    /\ UNCHANGED <<closed, chan, loaded, lock, retry_at, outcome, handle, disk, clis,
                   ghosts>>

\* Mutant: the closure works on the actor's own snapshot (TS5-06).
MutatePanicsShared ==
    /\ pc = "mutate"
    /\ Refuse
    /\ store' \in {store, store \union {op}}
    /\ UNCHANGED <<closed, chan, loaded, lock, retry, outcome, handle, disk,
                   clis, ghosts>>

\* The closure panicked: only the private copy is gone.
MutatePanics ==
    /\ pc = "mutate"
    /\ Refuse
    /\ UNCHANGED <<closed, chan, memory, lock, retry, outcome, handle, disk,
                   clis, ghosts>>

\* Mutant: a failed publish leaves the snapshot marked clean.
RecordFailureClean ==
    /\ dirty' = FALSE
    /\ retry_at' = "future"

\* RetryState::record_failure: stay dirty, arm the next retry.
RecordFailure ==
    /\ dirty' = TRUE
    /\ retry_at' = "future"

\* Mutant: every successful publish drops the snapshot, tail or not.
PublishDoneForgets ==
    /\ pc \in {"loop", "closing"}
    /\ publishing /\ job.result # "running"
    /\ \/ /\ job.result = "ok"
          /\ retry_at' = "none" /\ dirty' = FALSE
          /\ loaded' = FALSE /\ store' = {} /\ lock' = NoOwner
       \/ /\ job.result = "err"
          /\ RecordFailure
          /\ UNCHANGED <<memory, lock>>
    /\ TryStartPublish(FALSE, dirty', loaded', store', retry_at', FALSE)
    /\ UNCHANGED <<callers, chan, pc, op, outcome, handle, disk, clis, ghosts>>

\* absorb_publish_result and the follow-up publish of a tail, in the loop and
\* in the drain of a close.
PublishDone ==
    /\ pc \in {"loop", "closing"}
    /\ publishing /\ job.result # "running"
    /\ \/ /\ job.result = "ok"
          /\ retry_at' = "none"
          /\ dirty' = tail
          /\ loaded' = tail
          /\ store' = IF tail THEN store ELSE {}
          /\ lock' = IF tail THEN lock ELSE NoOwner
       \/ /\ job.result = "err"
          /\ RecordFailure
          /\ UNCHANGED <<memory, lock>>
    /\ TryStartPublish(FALSE, dirty', loaded', store', retry_at', FALSE)
    /\ UNCHANGED <<callers, chan, pc, op, outcome, handle, disk, clis, ghosts>>

\* The clock passes retry_at.
Elapse ==
    /\ retry_at = "future"
    /\ retry_at' = "past"
    /\ UNCHANGED <<callers, chan, pc, op, memory, lock, dirty, tail, job,
                   outcome, handle, disk, clis, ghosts>>

\* The retry branch of the select.
RetryTimer ==
    /\ pc = "loop"
    /\ dirty /\ retry_at = "past" /\ ~publishing
    /\ TryStartPublish(publishing, dirty, loaded, store, retry_at, tail)
    /\ UNCHANGED <<callers, chan, pc, op, memory, lock, dirty, retry_at,
                   outcome, handle, disk, clis, ghosts>>

-----------------------------------------------------------------------------
(* Closing.                                                                *)

\* Mutant: the drain waits for the retries instead of flushing.
DrainedWaits ==
    /\ pc = "closing" /\ ~publishing /\ ~dirty
    /\ pc' = "exit"
    /\ UNCHANGED <<callers, chan, op, memory, lock, retry, outcome, handle,
                   disk, clis, ghosts>>

\* No publish is in flight any more: flush what is still dirty, whatever the
\* backoff deadline says.
Drained ==
    /\ pc = "closing" /\ ~publishing
    /\ pc' = IF dirty /\ loaded THEN "flush" ELSE "exit"
    /\ UNCHANGED <<callers, chan, op, memory, lock, retry, outcome, handle,
                   disk, clis, ghosts>>

Flush ==
    /\ pc = "flush"
    /\ \E ok \in BOOLEAN :
          /\ Save(store, ok)
          /\ outcome' = IF ok THEN "ok" ELSE "err"
          /\ \/ ok /\ dirty' = FALSE /\ retry_at' = "none"
             \/ ~ok /\ RecordFailure
    /\ pc' = "exit"
    /\ UNCHANGED <<callers, chan, op, memory, lock, tail, job, handle, clis,
                   ghosts>>

\* Reply to the close, leave the task: the receiver drops the ops still in
\* the channel, the lock guard releases the file.
Exit ==
    /\ pc = "exit"
    /\ closed' = [c \in Closers |->
          IF c = op THEN "replied"
          ELSE IF closed[c] = "sent" THEN "dropped" ELSE closed[c]]
    /\ ack' = [m \in Angel |-> IF ack[m] = "sent" THEN "err" ELSE ack[m]]
    /\ chan' = <<>>
    /\ op' = NoOp
    /\ loaded' = FALSE /\ store' = {}
    /\ lock' = IF lock = TheActor THEN NoOwner ELSE lock
    /\ pc' = "done"
    /\ UNCHANGED <<retry, outcome, handle, disk, clis, ghosts>>

\* The angel process dies, callers included, and is started again.
Crash ==
    /\ crashes < MaxCrashes
    /\ crashes' = crashes + 1
    /\ lost' = lost \union {m \in Angel : ack[m] = "ok" /\ m \notin disk}
    /\ ack' = [m \in Angel |-> IF ack[m] = "sent" THEN "gone" ELSE ack[m]]
    /\ closed' = [c \in Closers |->
          IF closed[c] \in {"new", "ok", "err"} THEN closed[c] ELSE "gone"]
    /\ chan' = <<>>
    /\ pc' = "loop" /\ op' = NoOp
    /\ loaded' = FALSE /\ store' = {}
    /\ lock' = IF lock = TheActor THEN NoOwner ELSE lock
    /\ dirty' = FALSE /\ retry_at' = "none" /\ tail' = FALSE /\ job' = NoJob
    /\ outcome' = "ok" /\ handle' = TRUE
    /\ UNCHANGED <<disk, clis>>

-----------------------------------------------------------------------------
(* The inline fallback of apply: a CLI process.                            *)

\* PathLock::acquire_bounded: take the lock, or give up after the wait.
CliLock(m) ==
    /\ cli[m] = "new"
    /\ \/ /\ lock = NoOwner
          /\ lock' = m
          /\ cli' = [cli EXCEPT ![m] = "load"]
          /\ UNCHANGED result
       \/ /\ cli' = [cli EXCEPT ![m] = "end"]
          /\ result' = [result EXCEPT ![m] = "err"]
          /\ UNCHANGED lock
    /\ UNCHANGED <<callers, chan, pc, op, memory, retry, outcome, handle, disk,
                   snapshot, ghosts>>

CliLoad(m) ==
    /\ cli[m] = "load"
    /\ \/ /\ snapshot' = [snapshot EXCEPT ![m] = disk]
          /\ cli' = [cli EXCEPT ![m] = "save"]
          /\ UNCHANGED result
       \/ /\ cli' = [cli EXCEPT ![m] = "unlock"]
          /\ result' = [result EXCEPT ![m] = "err"]
          /\ UNCHANGED snapshot
    /\ UNCHANGED <<callers, chan, pc, op, memory, lock, retry, outcome, handle,
                   disk, ghosts>>

CliSave(m) ==
    /\ cli[m] = "save"
    /\ \E ok \in BOOLEAN :
          /\ Save(snapshot[m] \union {m}, ok)
          /\ result' = [result EXCEPT ![m] = IF ok THEN "ok" ELSE "err"]
    /\ cli' = [cli EXCEPT ![m] = "unlock"]
    /\ snapshot' = [snapshot EXCEPT ![m] = {}]
    /\ UNCHANGED <<callers, chan, pc, op, memory, lock, retry, outcome, handle,
                   ghosts>>

\* drop(lock), or the death of the process, at any point.
CliEnd(m) ==
    /\ cli[m] \in {"load", "save", "unlock"}
    /\ cli' = [cli EXCEPT ![m] = "end"]
    /\ result' = [result EXCEPT ![m] = IF cli[m] = "unlock" THEN @ ELSE "err"]
    /\ snapshot' = [snapshot EXCEPT ![m] = {}]
    /\ lock' = NoOwner
    /\ UNCHANGED <<callers, chan, pc, op, memory, retry, outcome, handle, disk,
                   ghosts>>

-----------------------------------------------------------------------------

Actor ==
    \/ Recv \/ Acquire \/ Load \/ Mutate \/ MutatePanics \/ PublishDone
    \/ RetryTimer \/ Drained \/ Flush \/ Exit
Caller == (\E m \in Angel : Send(m)) \/ (\E c \in Closers : CloseSend(c) \/ CloseJoin(c))
CliStep(m) == CliLock(m) \/ CliLoad(m) \/ CliSave(m) \/ CliEnd(m)

Next ==
    \/ Caller \/ Actor \/ PublishJob \/ Elapse \/ Crash
    \/ \E m \in Cli : CliStep(m)

Spec == Init /\ [][Next]_vars

\* The runtime keeps polling the actor and running its blocking jobs, the
\* clock advances, callers and CLI processes that have started go on.  A disk
\* that is tried again and again works again at some point: the retries exist
\* for errors that pass.
Fairness ==
    /\ WF_vars(Actor)
    /\ WF_vars(PublishJob)
    /\ SF_vars(PublishJob /\ job'.result = "ok")
    /\ WF_vars(Elapse)
    /\ \A c \in Closers : WF_vars(CloseJoin(c))
    /\ \A m \in Cli : WF_vars(cli[m] # "new" /\ CliStep(m))

FairSpec == Spec /\ Fairness

-----------------------------------------------------------------------------
(* Properties.                                                             *)

\* The file and the angel's retained snapshot implement a log that no update
\* disappears from: a publish of the angel never buries what a CLI process
\* saved, nor the other way round.
Log == INSTANCE UpdateLog WITH
    Updates <- All,
    published <- disk,
    pending <- store \ disk
LogSpec == Log!Spec

\* An acknowledged mutation is in the file or in the retained snapshot until
\* the angel dies or reports that its final flush failed: neither a failed
\* publish, nor a mutation that arrives during one, nor a panic of a later
\* mutation drops it.
AckedKept ==
    \A m \in Angel : ack[m] = "ok" =>
        \/ m \in disk \/ m \in lost
        \/ m \in store
        \/ pc = "done" /\ outcome = "err"

\* A mutation that apply reported as failed is nowhere: its caller keeps the
\* items queued and sends them again, which must not count them twice.
FailedNeverLands ==
    \A m \in Angel : ack[m] = "err" =>
        m \notin disk /\ m \notin store

\* Every acknowledged mutation reaches the file, through any number of failed
\* publishes, unless the angel dies or its final flush fails.
AckedPublished ==
    \A m \in Angel : ack[m] = "ok" ~>
        m \in disk \/ m \in lost \/ (pc = "done" /\ outcome = "err")

\* close always returns, whatever is in flight, queued or waiting for a retry.
CloseReturns ==
    \A c \in Closers : closed[c] = "sent" ~> closed[c] \in {"ok", "err", "gone"}

-----------------------------------------------------------------------------
(* The inductive invariant behind the safety properties.                   *)

\* An op is in the channel or in the actor's hands once, and unanswered.
OpsOnce ==
    /\ \A i \in 1..Len(chan) :
          /\ chan[i] \in Angel => ack[chan[i]] = "sent"
          /\ chan[i] # op
          /\ \A j \in 1..Len(chan) : i # j => chan[i] # chan[j]
    /\ \A c \in Closers : closed[c] = "new" =>
          c # op /\ \A i \in 1..Len(chan) : chan[i] # c
    /\ op \in Angel <=> pc \in {"acquire", "load", "mutate"}
    /\ op \in Angel => ack[op] = "sent"

\* The lock is held from the load a snapshot comes from to the snapshot's end,
\* and by CLI processes from their load to their save.
Locked ==
    /\ (loaded \/ pc = "load") <=> lock = TheActor
    /\ pc \in {"mutate", "flush"} => loaded
    /\ pc \in {"acquire", "load", "done"} => ~loaded
    /\ \A m \in Cli : cli[m] \in {"load", "save", "unlock"} <=> lock = m
    /\ \A m \in Cli : cli[m] = "save" => snapshot[m] = disk

\* No snapshot is stale: the file has nothing that the publish in flight
\* lacks, which has nothing that the retained snapshot lacks.
Fresh ==
    /\ ~loaded => store = {}
    /\ loaded => disk \subseteq store
    /\ loaded /\ ~dirty => store = disk
    /\ publishing => /\ loaded /\ dirty
                     /\ pc \notin {"flush", "exit", "done"}
                     /\ disk \subseteq job.snapshot
                     /\ job.snapshot \subseteq store
                     /\ job.result = "ok" => disk = job.snapshot
                     /\ ~tail => job.snapshot = store
    /\ pc = "exit" => outcome = "err" \/ store \subseteq disk

\* Only acknowledged mutations of the angel are in the file or in memory.
Landed == \A m \in Angel : m \in disk \union store => ack[m] = "ok"

StoreInv == TypeOK /\ OpsOnce /\ Locked /\ Fresh /\ Landed /\ AckedKept

=============================================================================
