--------------------------- MODULE DnsStatistics ----------------------------
(* The payload-free question statistics of the DNS server: the bounded      *)
(* ingress that receive loops feed without waiting, the thread that owns    *)
(* the SQLite ledger and the published list, leases on disk generations,    *)
(* the prefetch scheduler that reads them, and shutdown.  The ledger, its   *)
(* counters and the list survive a crash; the rest does not.                *)
EXTENDS Integers, Sequences, FiniteSets, SequencesExt

CONSTANTS Producers,    \* receive loops and connections that record questions
          Ingress,      \* INGRESS_CAPACITY
          BatchMax,     \* BATCH_CAPACITY
          Window,       \* WINDOW_SECONDS
          LastSecond    \* bound of the wall clock

ASSUME StatisticsBounds == Ingress > 0 /\ BatchMax > 0 /\ Window > 0 /\ LastSecond > 0

\* db: the ledger.  rows are the seconds of the counted questions with their
\* counts, popular the generations popular_targets holds rows for.
\* list: the generation the .dns-popular file was written for.
\* worker: the store thread.  leases are the generations it tracks, next a command
\* it took while filling a batch, work the generation it publishes.
\* owner: the server's handle on the worker.  sched: the prefetch scheduler; active
\* is the generation of its cycle, pages what the cycle waits for, got a reply.
\* left: what may still happen (questions, clock changes, ticks, faults, crashes).
VARIABLES second, stopped, entrants, stopping, queue, closed, health, producer,
          worker, db, list, owner, sched, left
stvars == <<second, stopped, entrants, stopping, queue, closed, health, producer,
            worker, db, list, owner, sched, left>>

Counters == {"accepted", "saved", "expired", "unsaved", "dropped"}
Fresh == [c \in Counters |-> 0]
NoWork == [pc |-> "off", batch |-> <<>>, next |-> <<>>, fault |-> FALSE, leases |-> {}, work |-> 0, high |-> 0]
NoCycle == [pc |-> "off", active |-> 0, pages |-> "none", got |-> 0]
Quiet == [pc |-> "idle", event |-> [second |-> 0, valid |-> TRUE]]
Record(e) == [cmd |-> "Record", event |-> e]
Refresh == [cmd |-> "Refresh"]
Page(g) == [cmd |-> "Page", gen |-> g]
Wake == [cmd |-> "Wake"]

\* A generation is leased while a snapshot of it is alive: the cycle's, the one
\* in an undelivered reply, and the clones in queued page requests.
Live ==
    ({sched.active, sched.got} \ {0})
    \cup {c.gen : c \in {d \in Range(queue) \cup Range(worker.next) : d.cmd = "Page"}}

StatisticsInit(budgets) ==
    /\ second = 1 /\ stopped = FALSE /\ entrants = {} /\ stopping = FALSE /\ queue = <<>> /\ closed = FALSE
    /\ health = Fresh /\ producer = [p \in Producers |-> Quiet]
    /\ worker = NoWork /\ list = 0 /\ sched = NoCycle
    /\ db = [high |-> 0, gen |-> 0, rows |-> [s \in 0..LastSecond |-> 0], popular |-> {}, total |-> Fresh]
    /\ left \in budgets /\ owner = IF left.starts > 0 THEN "start" ELSE "gone"

Sum(f) == FoldFunction(LAMBDA a, b : a + b, 0, f)
Completed(c) == c.saved + c.expired + c.unsaved
Most(a, b) == IF a > b THEN a ELSE b
\* Rows outside (high - Window, high] are deleted in the transaction that moves high.
Kept(rows, high) == [s \in DOMAIN rows |-> IF s > high - Window /\ s <= high THEN rows[s] ELSE 0]

-----------------------------------------------------------------------------
(* Producers: record_at.  The early look at stopping, the registration in   *)
(* the admission word and the send are separate steps of a receive loop.    *)

Ask(p) ==
    /\ producer[p].pc = "idle" /\ p \in left.who /\ left.questions > 0
    /\ owner \in {"serving", "stop", "wake", "wait"}
    /\ left' = [left EXCEPT !.questions = @ - 1]
    /\ \E ok \in left.valid :
         producer' = [producer EXCEPT ![p] =
             IF stopping THEN Quiet ELSE [pc |-> "enter", event |-> [second |-> second, valid |-> ok]]]
    /\ UNCHANGED <<second, stopped, entrants, stopping, queue, closed, health, worker, db, list, owner, sched>>

\* Admission::enter: the compare-and-swap fails to register once the stop bit is set.
Enter(p) ==
    /\ producer[p].pc = "enter"
    /\ IF stopped THEN producer' = [producer EXCEPT ![p] = Quiet] /\ UNCHANGED entrants
       ELSE producer' = [producer EXCEPT ![p].pc = "send"] /\ entrants' = entrants \cup {p}
    /\ UNCHANGED <<second, stopped, stopping, queue, closed, health, worker, db, list, owner, sched, left>>

\* The outcome of try_send: queued, refused by a full queue, or a closed receiver.
TrySend(p) ==
    /\ producer[p].pc = "send"
    /\ IF closed THEN producer' = [producer EXCEPT ![p].pc = "leave"] /\ UNCHANGED <<queue, health>>
       ELSE IF Len(queue) >= Ingress
       THEN /\ producer' = [producer EXCEPT ![p].pc = "leave"]
            /\ health' = [health EXCEPT !.dropped = @ + 1] /\ UNCHANGED queue
       ELSE /\ queue' = Append(queue, Record(producer[p].event))
            /\ producer' = [producer EXCEPT ![p].pc = "count"] /\ UNCHANGED health
    /\ UNCHANGED <<second, stopped, entrants, stopping, closed, worker, db, list, owner, sched, left>>

CountAccepted(p) ==
    /\ producer[p].pc = "count"
    /\ health' = [health EXCEPT !.accepted = @ + 1]
    /\ producer' = [producer EXCEPT ![p].pc = "leave"]
    /\ UNCHANGED <<second, stopped, entrants, stopping, queue, closed, worker, db, list, owner, sched, left>>

Leave(p) ==
    /\ producer[p].pc = "leave"
    /\ entrants' = entrants \ {p} /\ producer' = [producer EXCEPT ![p] = Quiet]
    /\ UNCHANGED <<second, stopped, stopping, queue, closed, health, worker, db, list, owner, sched, left>>

-----------------------------------------------------------------------------
(* The store thread.                                                        *)

ThreadOnly == UNCHANGED <<second, producer, owner, sched, list, stopped, entrants, stopping>>

\* restored_health: what was admitted and never completed before the end of the
\* last process counts as lost.
RestoredHealth ==
    LET accepted == Most(db.total.accepted, Completed(db.total))
    IN [db.total EXCEPT !.accepted = accepted, !.unsaved = accepted - db.total.saved - db.total.expired]
\* Store::open and the restored counters.  A ledger whose highwater lies in the
\* future is refused; otherwise leases are void, expired rows go and highwater
\* is at least the wall clock.
Open ==
    /\ worker.pc = "open"
    /\ \/ /\ db.high <= second
          /\ db' = [db EXCEPT !.high = second, !.rows = Kept(@, second), !.popular = {}]
          /\ worker' = [NoWork EXCEPT !.pc = "top", !.high = second]
          /\ health' = RestoredHealth /\ UNCHANGED left
       \/ /\ db.high > second \/ left.faults > 0
          /\ worker' = [NoWork EXCEPT !.pc = "failed"] /\ UNCHANGED <<db, health>>
          /\ left' = IF db.high > second THEN left ELSE [left EXCEPT !.faults = @ - 1]
    /\ UNCHANGED <<queue, closed>> /\ ThreadOnly

\* The top of the loop.  Once stopping is seen the thread closes admission ...
SeeStop ==
    /\ worker.pc = "top"
    /\ worker' = [worker EXCEPT !.pc = IF stopping THEN "close" ELSE "recv"]
    /\ stopped' = (stopped \/ stopping)
    /\ UNCHANGED <<second, producer, owner, sched, list, entrants, stopping, queue, closed, health, db, left>>

\* The mutation of closing without waiting for the producers that registered.
CloseNow ==
    /\ worker.pc = "close"
    /\ closed' = TRUE /\ worker' = [worker EXCEPT !.pc = "recv"]
    /\ UNCHANGED <<queue, health, db, left>> /\ ThreadOnly
\* ... and waits, on this thread only, until every registered producer has left.
Close ==
    /\ worker.pc = "close" /\ entrants = {}
    /\ closed' = TRUE /\ worker' = [worker EXCEPT !.pc = "recv"]
    /\ UNCHANGED <<queue, health, db, left>> /\ ThreadOnly

\* blocking_recv, after the command left over from filling a batch.
Receive ==
    /\ worker.pc = "recv" /\ (worker.next # <<>> \/ queue # <<>> \/ closed)
    /\ IF worker.next = <<>> /\ queue = <<>>
       THEN worker' = [worker EXCEPT !.pc = "final"] /\ UNCHANGED queue
       ELSE LET c == IF worker.next # <<>> THEN worker.next[1] ELSE Head(queue)
            IN /\ queue' = IF worker.next # <<>> THEN queue ELSE Tail(queue)
               /\ worker' = [worker EXCEPT
                    !.next = <<>>,
                    !.batch = IF c.cmd = "Record" THEN <<c.event>> ELSE <<>>,
                    !.work = IF c.cmd = "Page" THEN c.gen ELSE 0,
                    !.pc = CASE c.cmd = "Record" -> "fill"
                             [] c.cmd = "Refresh" -> "refresh"
                             [] c.cmd = "Page" -> "page"
                             [] OTHER -> "top"]
    /\ UNCHANGED <<closed, health, db, left>> /\ ThreadOnly

\* try_recv until the batch is full, the queue is empty or another command comes.
Fill ==
    /\ worker.pc = "fill"
    /\ IF Len(worker.batch) = BatchMax \/ queue = <<>>
       THEN worker' = [worker EXCEPT !.pc = "save"] /\ UNCHANGED queue
       ELSE /\ queue' = Tail(queue)
            /\ worker' = IF Head(queue).cmd = "Record"
                         THEN [worker EXCEPT !.batch = Append(@, Head(queue).event)]
                         ELSE [worker EXCEPT !.pc = "save", !.next = <<Head(queue)>>]
    /\ UNCHANGED <<closed, health, db, left>> /\ ThreadOnly

\* The classes of a batch and the ledger after it.  Only valid receipts move highwater.
BatchHigh(batch) ==
    FoldSeq(LAMBDA e, h : IF e.valid THEN Most(h, e.second) ELSE h, Most(worker.high, second), batch)
Class(batch, high, c) ==
    Len(SelectSeq(batch, LAMBDA e : c = IF ~e.valid THEN "unsaved"
                                        ELSE IF e.second <= high - Window THEN "expired" ELSE "saved"))
Booked(counters, batch, high) ==
    [c \in Counters |-> counters[c] + IF c \in {"saved", "expired", "unsaved"} THEN Class(batch, high, c) ELSE 0]
AfterBatch(batch, high) ==
    LET count(s) == Len(SelectSeq(batch, LAMBDA e : e.valid /\ e.second = s))
        booked == [db.total EXCEPT !.saved = @ + Class(batch, high, "saved"),
                                   !.expired = @ + Class(batch, high, "expired"),
                                   !.unsaved = health.unsaved + Class(batch, high, "unsaved"),
                                   !.dropped = health.dropped]
    IN [db EXCEPT !.high = high,
                  !.rows = LET kept == Kept(@, high)
                           IN [s \in DOMAIN kept |-> kept[s] + IF s > high - Window THEN count(s) ELSE 0],
                  !.total = [booked EXCEPT !.accepted = Most(health.accepted, Completed(booked))]]

\* Store::batch: one transaction with its counters, or a fault that is latched
\* for the life of the worker and makes every later batch a counted loss.
Batch ==
    /\ worker.pc = "save"
    /\ LET lost == [health EXCEPT !.unsaved = @ + Len(worker.batch)]
           high == BatchHigh(worker.batch)
       IN \/ /\ worker.fault /\ health' = lost
             /\ worker' = [worker EXCEPT !.pc = "top", !.batch = <<>>] /\ UNCHANGED <<db, left>>
          \/ /\ ~worker.fault /\ left.faults > 0 /\ left' = [left EXCEPT !.faults = @ - 1] /\ health' = lost
             /\ worker' = [worker EXCEPT !.pc = "top", !.batch = <<>>, !.fault = TRUE] /\ UNCHANGED db
          \/ /\ ~worker.fault /\ db' = AfterBatch(worker.batch, high)
             /\ health' = Booked(health, worker.batch, high)
             /\ worker' = [worker EXCEPT !.pc = "top", !.batch = <<>>, !.high = high] /\ UNCHANGED left
    /\ UNCHANGED <<queue, closed>> /\ ThreadOnly

\* prune_generations: rows of generations without a live lease are deleted.
Pruned == {g \in worker.leases : g \in Live}
\* health.status() written with a transaction: completed work floors accepted.
Persisted ==
    LET t == [db.total EXCEPT !.unsaved = health.unsaved, !.dropped = health.dropped]
    IN [t EXCEPT !.accepted = Most(health.accepted, Completed(t))]
\* advance commits on its own, before the transaction of the refresh.
Advanced(ledger) == [ledger EXCEPT !.high = Most(worker.high, second), !.rows = Kept(@, Most(worker.high, second))]
RefreshedDb(final) ==
    [Advanced(db) EXCEPT !.gen = @ + 1, !.total = Persisted,
                         !.popular = (@ \ (worker.leases \ Pruned)) \cup IF final THEN {} ELSE {db.gen + 1}]

\* Store::refresh up to its commit: a latched fault, two generations still
\* leased, or a failing statement end it; a failed refresh writes the counters
\* once, best effort.  final is the refresh after the loop has ended.
RefreshEnd(final) == [worker EXCEPT !.pc = IF final THEN "health" ELSE "refused", !.leases = Pruned, !.work = 0]
StartRefresh ==
    /\ worker.pc \in {"refresh", "final"}
    /\ LET final == worker.pc = "final"
           pruned == [db EXCEPT !.popular = @ \ (worker.leases \ Pruned)]
       IN \/ /\ worker.fault /\ worker' = [RefreshEnd(final) EXCEPT !.leases = worker.leases] /\ UNCHANGED <<db, left>>
          \/ /\ ~worker.fault /\ ~final /\ Cardinality(Pruned) >= 2
             /\ worker' = RefreshEnd(final) /\ db' = pruned /\ UNCHANGED left
          \/ /\ ~worker.fault /\ left.faults > 0 /\ left' = [left EXCEPT !.faults = @ - 1]
             /\ \/ db' = pruned /\ worker' = RefreshEnd(final)
                \/ db' = Advanced(pruned) /\ worker' = [RefreshEnd(final) EXCEPT !.high = Most(@, second)]
          \/ /\ ~worker.fault /\ (final \/ Cardinality(Pruned) < 2) /\ db' = RefreshedDb(final)
             /\ worker' = [worker EXCEPT !.pc = IF final THEN "publishlast" ELSE "publish", !.leases = Pruned,
                                         !.work = db.gen + 1, !.high = Most(@, second)]
             /\ UNCHANGED left
    /\ UNCHANGED <<queue, closed, health>> /\ ThreadOnly

\* The list is published after the commit.  When that fails, before or after the
\* rename, the generation's rows, which nobody can observe, are removed again.
Publish ==
    /\ worker.pc \in {"publish", "publishlast"}
    /\ LET final == worker.pc = "publishlast"
       IN \/ /\ list' = worker.work
             /\ worker' = IF final THEN [worker EXCEPT !.pc = "health", !.work = 0]
                          ELSE [worker EXCEPT !.pc = "reply", !.leases = @ \cup {worker.work}]
             /\ UNCHANGED <<db, left>>
          \/ /\ left.faults > 0 /\ left' = [left EXCEPT !.faults = @ - 1]
             /\ db' = [db EXCEPT !.popular = @ \ {worker.work}]
             /\ worker' = [worker EXCEPT !.pc = IF final THEN "health" ELSE "refused", !.work = 0]
             /\ list' \in {list, worker.work}
    /\ UNCHANGED <<second, producer, owner, sched, stopped, entrants, stopping, queue, closed, health>>

\* The reply of a refresh.  A scheduler that is gone drops it, and the lease.
ReplyRefresh ==
    /\ worker.pc \in {"reply", "refused"}
    /\ worker' = [worker EXCEPT !.pc = "top", !.work = 0]
    /\ db' \in IF worker.pc = "refused" THEN {db, [db EXCEPT !.total = Persisted]} ELSE {db}
    /\ sched' = IF sched.pc # "publishing" THEN sched
                ELSE [sched EXCEPT !.pc = IF worker.pc = "reply" THEN "published" ELSE "wait", !.got = worker.work]
    /\ UNCHANGED <<second, producer, owner, list, stopped, entrants, stopping, queue, closed, health, left>>

\* A page of a leased generation; a failing read ends the reader's cycle.
ReplyPage ==
    /\ worker.pc = "page"
    /\ worker' = [worker EXCEPT !.pc = "top", !.work = 0]
    /\ sched' = IF sched.pages # "asked" THEN sched
                ELSE [sched EXCEPT !.pages = IF worker.work \in db.popular THEN "rows" ELSE "failed"]
    /\ UNCHANGED <<second, producer, owner, list, stopped, entrants, stopping, queue, closed, health, db, left>>

\* persist_health after the last refresh, and the result that shutdown awaits.
Finish ==
    /\ worker.pc = "health"
    /\ \/ /\ worker' = [NoWork EXCEPT !.pc = "done"]
          /\ db' = [db EXCEPT !.total = Persisted] /\ UNCHANGED left
       \/ /\ left.faults > 0 /\ left' = [left EXCEPT !.faults = @ - 1]
          /\ worker' = [NoWork EXCEPT !.pc = "unsaved"] /\ UNCHANGED db
    /\ UNCHANGED <<queue, closed, health>> /\ ThreadOnly

-----------------------------------------------------------------------------
(* The owner: open, shutdown and the process around them.                   *)

OwnerOnly == UNCHANGED <<second, entrants, closed, health, producer, db, list>>

OpenWorker ==
    /\ owner = "start" /\ left.starts > 0 /\ left' = [left EXCEPT !.starts = @ - 1]
    /\ worker' = [NoWork EXCEPT !.pc = "open"] /\ owner' = "opening"
    /\ UNCHANGED <<stopped, stopping, queue, sched>> /\ OwnerOnly

\* The ready message: serve with statistics and prefetch, or without them.
Opened ==
    /\ owner = "opening" /\ worker.pc \notin {"open", "off"}
    /\ IF worker.pc = "failed" THEN owner' = "gone" /\ UNCHANGED sched
       ELSE owner' = "serving" /\ sched' = [NoCycle EXCEPT !.pc = "wait"]
    /\ UNCHANGED <<stopped, stopping, queue, worker, left>> /\ OwnerOnly

\* Shutdown drops the scheduler with every snapshot it holds, then signal_stop:
\* the stop bit, the flag the thread looks at ...
SignalStop ==
    /\ owner = "serving" /\ stopped' = TRUE /\ sched' = NoCycle /\ owner' = "stop"
    /\ UNCHANGED <<stopping, queue, worker, left>> /\ OwnerOnly
SetStopping ==
    /\ owner = "stop" /\ stopping' = TRUE /\ owner' = "wake"
    /\ UNCHANGED <<stopped, queue, worker, sched, left>> /\ OwnerOnly
\* The mutation of leaving the thread to the next question.
NoWake ==
    /\ owner = "wake" /\ owner' = "wait"
    /\ UNCHANGED <<stopped, stopping, queue, worker, sched, left>> /\ OwnerOnly
\* ... and a wake-up that a full queue may refuse: its commands wake the thread.
SendWake ==
    /\ owner = "wake" /\ owner' = "wait"
    /\ queue' = IF closed \/ Len(queue) >= Ingress THEN queue ELSE Append(queue, Wake)
    /\ UNCHANGED <<stopped, stopping, worker, sched, left>> /\ OwnerOnly
Join ==
    /\ owner = "wait" /\ worker.pc \in {"done", "unsaved"}
    /\ owner' = IF worker.pc = "done" THEN "joined" ELSE "unsure"
    /\ UNCHANGED <<stopped, stopping, queue, worker, sched, left>> /\ OwnerOnly

\* The process dies between any two steps; a later one opens the same ledger.
Crash ==
    /\ left.crashes > 0 /\ owner \notin {"start", "gone"}
    /\ left' = [left EXCEPT !.crashes = @ - 1] /\ owner' = IF left.starts > 0 THEN "start" ELSE "gone"
    /\ stopped' = FALSE /\ stopping' = FALSE /\ entrants' = {} /\ queue' = <<>> /\ closed' = FALSE
    /\ health' = Fresh /\ producer' = [p \in Producers |-> Quiet] /\ worker' = NoWork /\ sched' = NoCycle
    /\ UNCHANGED <<second, db, list>>

\* The wall clock is set forward or back.
SetClock ==
    /\ left.clocks > 0 /\ left' = [left EXCEPT !.clocks = @ - 1]
    /\ second' \in 1..LastSecond \ {second}
    /\ UNCHANGED <<stopped, entrants, stopping, queue, closed, health, producer, worker, db, list, owner, sched>>

-----------------------------------------------------------------------------
(* The prefetch scheduler: one cycle at a time, maintenance beside it.      *)

SchedOnly == UNCHANGED <<second, stopped, entrants, stopping, closed, health, producer, worker, db, list, owner>>
Room == Len(queue) < Ingress /\ ~closed

\* A maintenance tick asks for a refresh, which waits for room in the queue.
Tick ==
    /\ sched.pc = "wait" /\ left.ticks > 0 /\ left' = [left EXCEPT !.ticks = @ - 1]
    /\ sched' = [sched EXCEPT !.pc = "asking"] /\ UNCHANGED queue /\ SchedOnly
AskRefresh ==
    /\ sched.pc = "asking" /\ Room /\ queue' = Append(queue, Refresh)
    /\ sched' = [sched EXCEPT !.pc = "publishing"] /\ UNCHANGED left /\ SchedOnly
\* An idle scheduler starts a cycle on the fresh snapshot; a busy one drops it.
StartCycle ==
    /\ sched.pc = "published"
    /\ sched' = IF sched.active = 0 THEN [sched EXCEPT !.pc = "wait", !.active = sched.got, !.pages = "next", !.got = 0]
                ELSE [sched EXCEPT !.pc = "wait", !.got = 0]
    /\ UNCHANGED <<queue, left>> /\ SchedOnly
\* A cycle reads its pages one after the other and ends on an empty or failed one.
AskPage ==
    /\ sched.pages = "next" /\ Room /\ queue' = Append(queue, Page(sched.active))
    /\ sched' = [sched EXCEPT !.pages = "asked"] /\ UNCHANGED left /\ SchedOnly
NextPage ==
    /\ sched.pages \in {"rows", "failed"}
    /\ \/ sched' = [sched EXCEPT !.active = 0, !.pages = "none"] /\ UNCHANGED left
       \/ /\ sched.pages = "rows" /\ left.pages > 0 /\ left' = [left EXCEPT !.pages = @ - 1]
          /\ sched' = [sched EXCEPT !.pages = "next"]
    /\ UNCHANGED queue /\ SchedOnly

-----------------------------------------------------------------------------
ProducerSteps == \E p \in Producers : Enter(p) \/ TrySend(p) \/ CountAccepted(p) \/ Leave(p)
ThreadSteps == \/ Open \/ SeeStop \/ Close \/ Receive \/ Fill \/ Batch
               \/ StartRefresh \/ Publish \/ ReplyRefresh \/ ReplyPage \/ Finish
ScheduleSteps == AskRefresh \/ StartCycle \/ AskPage \/ NextPage
OwnerSteps == OpenWorker \/ Opened \/ SignalStop \/ SetStopping \/ SendWake \/ Join
StatisticsSteps == ProducerSteps \/ ThreadSteps \/ ScheduleSteps \/ OwnerSteps
StatisticsNext == StatisticsSteps \/ (\E p \in Producers : Ask(p)) \/ Tick \/ SetClock \/ Crash

\* A worker that has been joined left nothing behind: no producer can still
\* queue, everything that was accepted is booked as saved, expired or lost, and
\* the ledger carries the same totals ("drain accepted work even with retained
\* sender clones").
Drained ==
    owner \in {"joined", "unsure"} =>
        /\ queue = <<>> /\ entrants = {} /\ closed
        /\ health.accepted = Completed(health)
        /\ (owner = "joined" => db.total = health)

\* Between crashes too: the ledger never claims more completed than accepted work,
\* its rows lie in the window that ends at highwater and add up to at most what
\* was saved, and the published list is of no later generation.
LedgerSound ==
    /\ db.total.accepted >= Completed(db.total)
    /\ \A s \in DOMAIN db.rows : db.rows[s] > 0 => s <= db.high /\ s > db.high - Window
    /\ Sum(db.rows) <= db.total.saved
    /\ list <= db.gen

\* What a reader leases stays on disk until it lets go, at most two generations
\* are leased, and the scheduler is never refused a refresh for that limit.
LeasesHold ==
    /\ Live \subseteq db.popular /\ Cardinality(Live) <= 2
    /\ (worker.pc = "refresh" => Cardinality(Pruned) < 2)

\* Highwater, generation and the published list only move forward, through
\* crashes, restarts and a clock that is set back; a generation is not used twice.
LedgerForward ==
    [][ /\ db'.high >= db.high /\ db'.gen >= db.gen /\ list' >= list
        /\ (db'.popular \ db.popular) \subseteq {db.gen + 1} ]_stvars

StatisticsQuiet ==
    /\ owner \in {"joined", "unsure", "gone"} /\ \A p \in Producers : producer[p].pc = "idle"
=============================================================================
