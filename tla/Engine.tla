-------------------------------- MODULE Engine --------------------------------
(***************************************************************************)
(* The Android engine (packages/android-ffi/src): the engine slot, the     *)
(* generation and the status behind nativeStart and nativeStop             *)
(* (jni/jni_engine.rs), the engine thread with its bootstrap, readiness    *)
(* and teardown (engine/engine.rs, engine/engine_bootstrap.rs), the tasks  *)
(* of its runtime, and the one health store that the engine, those tasks   *)
(* and JNI calls rewrite (engine/engine_bridges.rs).                       *)
(*                                                                         *)
(* An engine is named by its generation.  A caller is a Java thread.       *)
(* Timeouts, network outcomes and I/O failures are choices.                *)
(***************************************************************************)
EXTENDS Integers

CONSTANTS
    Callers,        \* Java threads that call the native methods
    MaxStarts,      \* bound on engines of one process
    Percents,       \* bootstrap percentages arti reports
    Attempts,       \* LIVE_PROBE_ATTEMPTS
    Scenarios       \* configurations, each with bounds on calls, events, ticks and faults

ASSUME EngineAssumption ==
    /\ {MaxStarts, Attempts} \subseteq Nat \ {0}
    /\ Percents \subseteq Nat

VARIABLES
    slot,       \* ENGINE: st Idle | Running | Stopping, and the handle it holds (0: none)
    gen,        \* ENGINE_GENERATION
    status,     \* STATUS: k, and the percentage p of Starting
    eng,        \* per engine: its thread, stop_rx, reached_ready, last_progress and done_tx
    tun,        \* CURRENT_TUNNEL: the engine whose tunnel it is, or 0
    act,        \* the active-bridges file: the engine whose bridges it lists, or 0
    fwd,        \* per engine and bootstrap attempt: the task of forward_bootstrap_events
    task,       \* per engine: its runtime's warm-up, watchdog, verification tick and sweep
    call,       \* per caller: the native call it is in
    store,      \* health store: the copies writers have loaded, and whether a save dropped another's
    left        \* the scenario: configuration, and what is left of its bounds

vars == <<slot, gen, status, eng, tun, act, fwd, task, call, store, left>>

Engines == 1 .. MaxStarts
Runs == 1 .. 2
TaskNames == {"warm", "dog", "tick", "sweep"}
Main(g) == <<"main", g>>
Task(n, g) == <<n, g>>
Caller(c) == <<"call", c>>
Writers == {Caller(c) : c \in Callers} \cup {Main(g) : g \in Engines}
               \cup {Task(n, g) : n \in TaskNames, g \in Engines}

Off == [k |-> "Off", p |-> 0]
Starting(p) == [k |-> "Starting", p |-> p]
On == [k |-> "On", p |-> 0]
Stopping == [k |-> "Stopping", p |-> 0]
Error == [k |-> "Error", p |-> 0]

\* A forwarder: not spawned, listening, or (>= 0) about to set this percentage.
NoTask == -2
Listening == -1

Unborn == [pc |-> "none", stop |-> "no", ready |-> FALSE, top |-> 0, pool |-> "active",
           alive |-> FALSE, run |-> 1, tries |-> 1, res |-> "ok", done |-> "empty"]
Rest == [pc |-> "idle", h |-> 0]
NoTasks == [n \in TaskNames |-> "none"]
Free == [st |-> "Idle", h |-> 0]

Live(g) == eng[g].pc \notin {"none", "gone"}
With(e, r) == [k \in DOMAIN e |-> IF k \in DOMAIN r THEN r[k] ELSE e[k]]
SetEng(g, r) == eng' = [eng EXCEPT ![g] = With(@, r)]
SetTask(g, n, s) == task' = [task EXCEPT ![g][n] = s]
SetCall(c, pc, h) == call' = [call EXCEPT ![c] = [pc |-> pc, h |-> h]]
Spend(b) == left[b] > 0 /\ left' = [left EXCEPT ![b] = @ - 1]

slotVars == <<slot, gen>>
sharedVars == <<tun, act>>
taskVars == <<fwd, task>>
-----------------------------------------------------------------------------
\* The slot.  nativeStart holds the ENGINE lock from end to end.

\* acquire_engine_slot_for_start: free, or held by a thread that has finished.
Acquirable == \/ slot.st = "Idle"
              \/ slot.st = "Running" /\ eng[slot.h].pc = "gone"

\* nativeStart up to the spawn: a bad path, configuration, bridge line, listen
\* address, pluggable transport or users registry throws, and the status stays.
StartRefused(c) ==
    /\ call[c] = Rest /\ Acquirable /\ Spend("faults")
    /\ slot' = Free
    /\ UNCHANGED <<gen, status, eng, sharedVars, taskVars, call, store>>

\* The spawn itself failed: the generation is used up, the status rolled back.
SpawnFails(c) ==
    /\ call[c] = Rest /\ Acquirable /\ gen < MaxStarts /\ Spend("faults")
    /\ slot' = Free /\ gen' = gen + 1 /\ status' = Error
    /\ UNCHANGED <<eng, sharedVars, taskVars, call, store>>

\* nativeStart, from set_status(Starting(0)) to the handle in the slot.
NativeStart(c) ==
    /\ call[c] = Rest /\ Acquirable /\ gen < MaxStarts /\ Spend("starts")
    /\ gen' = gen + 1 /\ status' = Starting(0)
    /\ SetEng(gen + 1, [pc |-> "attach"])
    /\ slot' = [st |-> "Running", h |-> gen + 1]
    /\ UNCHANGED <<sharedVars, taskVars, call, store>>

\* nativeStop, phase 1 under the lock: begin_engine_stop.  A stop that meets
\* Stopping(None) returns at once.
BeginStop(c) ==
    /\ call[c] = Rest /\ Spend("stops")
    /\ \/ slot = Free /\ SetCall(c, "off", 0) /\ UNCHANGED slot
       \/ slot.h # 0 /\ SetCall(c, "mark", slot.h) /\ slot' = [st |-> "Stopping", h |-> 0]
       \/ slot.st = "Stopping" /\ slot.h = 0 /\ UNCHANGED <<slot, call>>
    /\ UNCHANGED <<gen, status, eng, sharedVars, taskVars, store>>

\* The status of an idle slot, written after the lock is released.
StopIdle(c) ==
    /\ call[c].pc = "off" /\ status' = Off /\ SetCall(c, "idle", 0)
    /\ UNCHANGED <<slotVars, eng, sharedVars, taskVars, store, left>>

\* Stopping, then the signal.
StopMark(c) ==
    /\ call[c].pc = "mark" /\ status' = Stopping
    /\ SetEng(call[c].h, [stop |-> "sent"])
    /\ SetCall(c, "wait", call[c].h)
    /\ UNCHANGED <<slotVars, sharedVars, taskVars, store, left>>

\* recv_timeout answered, or found the channel closed: the thread is joined, and
\* slot and status change together under the lock.
StopJoin(c) ==
    /\ call[c].pc = "wait" /\ eng[call[c].h].pc = "gone"
    /\ slot' = Free
    /\ status' = IF eng[call[c].h].done = "sent" THEN Off ELSE Error
    /\ SetCall(c, "idle", 0)
    /\ UNCHANGED <<gen, eng, sharedVars, taskVars, store, left>>

\* A timed-out stop that gives the slot up: the mistake the parker is there for.
StopForgets(c) ==
    /\ call[c].pc = "wait" /\ Live(call[c].h)
    /\ slot' = Free /\ SetCall(c, "late", 0)
    /\ UNCHANGED <<gen, status, eng, sharedVars, taskVars, store, left>>

\* The ten seconds are over: StoppingParker's drop puts the handle back.
StopTimeout(c) ==
    /\ call[c].pc = "wait" /\ Live(call[c].h)
    /\ slot' = [st |-> "Stopping", h |-> call[c].h] /\ SetCall(c, "late", 0)
    /\ UNCHANGED <<gen, status, eng, sharedVars, taskVars, store, left>>

\* ... and the error status is written after the handle is back.
StopLate(c) ==
    /\ call[c].pc = "late" /\ status' = Error /\ SetCall(c, "idle", 0)
    /\ UNCHANGED <<slotVars, eng, sharedVars, taskVars, store, left>>
-----------------------------------------------------------------------------
\* The engine thread.  Leaving engine_async, by a return or by a panic, drops the
\* runtime inside catch_unwind; the result decides the final status.

Leave(res) == [pc |-> "drop", res |-> res, pool |-> "active", alive |-> FALSE, run |-> 1, tries |-> 1]
Gone(g, done) == [Unborn EXCEPT !.pc = "gone", !.res = eng[g].res, !.done = done]
At(g, pc) == eng[g].pc = pc
Stopped(g) == eng[g].stop = "sent"          \* stop_rx.changed() is ready

\* A step of the thread that touches nothing but its own record.
Own(g, r) == /\ SetEng(g, r)
             /\ UNCHANGED <<slotVars, status, sharedVars, taskVars, call, store, left>>

\* attach_current_thread failed: an unguarded error status, and the thread ends.
AttachFails(g) ==
    /\ At(g, "attach") /\ Spend("faults")
    /\ status' = Error /\ SetEng(g, Gone(g, "sent"))
    /\ UNCHANGED <<slotVars, sharedVars, taskVars, call, store>>

\* The runtime could not be built: no engine_async, straight to the final status.
RuntimeFails(g) ==
    /\ At(g, "attach") /\ Spend("faults")
    /\ SetEng(g, [pc |-> "final", res |-> "err"])
    /\ UNCHANGED <<slotVars, status, sharedVars, taskVars, call, store>>

\* DNS cache flushed, the persisted one loaded; a direct connection probes nothing.
Attach(g) ==
    /\ At(g, "attach")
    /\ Own(g, [pc |-> IF left.bridges THEN "probe" ELSE "boot"])

\* A select of the bootstrap that the stop signal wins: engine_async returns Ok.
StopSeen(g) ==
    /\ eng[g].pc \in {"probe", "fetch", "wait", "verify"} /\ Stopped(g)
    /\ Own(g, Leave("ok"))

\* probe_round_with_policy over the active slice, the full pool or the rescued one.
Probe(g) ==
    /\ At(g, "probe") /\ ~Stopped(g)
    /\ \E some \in BOOLEAN : Own(g, [pc |-> "keep", alive |-> some])

\* What follows a persisted round: bootstrap, a wider pool, the rescue, or failure.
AfterRound(e) ==
    CASE e.alive -> [pc |-> "boot", pool |-> "active", alive |-> FALSE]
      [] ~e.alive /\ e.pool = "active" /\ left.slice -> [pc |-> "probe", pool |-> "full"]
      [] ~e.alive /\ e.pool # "rescue" /\ ~(e.pool = "active" /\ left.slice) /\ left.auto ->
             [pc |-> "fetch", pool |-> "rescue"]
      [] OTHER -> Leave("err")

\* cold_start_rescue_fetch: fetch_all_direct, then the sources it credits.
Fetch(g) == At(g, "fetch") /\ ~Stopped(g) /\ Own(g, [pc |-> "src"])

\* create_unbootstrapped and forward_bootstrap_events: the first Progress is
\* emitted by the thread itself, the later ones by the task it spawns.
Boot(g) ==
    /\ At(g, "boot")
    /\ \/ /\ SetEng(g, [pc |-> "failed"]) /\ UNCHANGED <<status, fwd>>
       \/ \E p \in Percents :
            /\ fwd' = [fwd EXCEPT ![g][eng[g].run] = Listening]
            /\ IF p >= eng[g].top
               THEN status' = Starting(p) /\ SetEng(g, [pc |-> "wait", top |-> p])
               ELSE UNCHANGED status /\ SetEng(g, [pc |-> "wait"])
    /\ UNCHANGED <<slotVars, sharedVars, task, call, store, left>>

\* wait_bootstrapped under BOOTSTRAP_ATTEMPT_TIMEOUT.
Wait(g) ==
    /\ At(g, "wait") /\ ~Stopped(g)
    /\ \E pc \in {"verify", "failed"} : Own(g, [pc |-> pc])

\* A failed attempt: again with the full pool when that is larger, or give up.
AttemptFailed(g) ==
    /\ At(g, "failed")
    /\ \/ left.bridges /\ eng[g].run = 1 /\ Own(g, [pc |-> "boot", run |-> 2])
       \/ Own(g, Leave("err"))

\* verify_live_circuit: a connection through the tunnel, with the channels rotated
\* and a pause between attempts.
Verify(g) ==
    /\ At(g, "verify") /\ ~Stopped(g)
    /\ \/ Own(g, [pc |-> "bind", tries |-> 1, run |-> 1])
       \/ IF eng[g].tries < Attempts THEN Own(g, [tries |-> eng[g].tries + 1])
                                     ELSE Own(g, Leave("err"))

\* The listener: a bind error is an error of the engine; then the active bridges.
Bind(g) ==
    /\ At(g, "bind")
    /\ \/ SetEng(g, Leave("err")) /\ UNCHANGED act
       \/ SetEng(g, [pc |-> "on"]) /\ act' = g
    /\ UNCHANGED <<slotVars, status, tun, taskVars, call, store, left>>

\* set_final_status(On), ...
TurnOn(g) ==
    /\ At(g, "on") /\ status' = On /\ SetEng(g, [pc |-> "ready"])
    /\ UNCHANGED <<slotVars, sharedVars, taskVars, call, store, left>>

\* ... reached_ready, Ready to Java, ...
Ready(g) == At(g, "ready") /\ Own(g, [pc |-> "publish", ready |-> TRUE])

\* ... the tunnel handle, and the tasks of a running engine.
Publish(g) ==
    /\ At(g, "publish") /\ tun' = g
    /\ SetEng(g, [pc |-> "serve"])
    /\ task' = [task EXCEPT ![g] = With(@, [warm |-> "warming", dog |-> "sleep"])]
    /\ UNCHANGED <<slotVars, status, act, fwd, call, store, left>>

\* The accept loop ends with the stop; clear_shared_state, if still current.
Teardown(g) ==
    /\ At(g, "serve") /\ Stopped(g)
    /\ IF gen = g THEN tun' = 0 /\ act' = 0 ELSE UNCHANGED sharedVars
    /\ SetEng(g, [pc |-> "grace"])
    /\ UNCHANGED <<slotVars, status, taskVars, call, store, left>>

\* The half second after the tunnel was dropped.
Grace(g) == At(g, "grace") /\ Own(g, Leave("ok"))

\* A panic anywhere in engine_async: the teardown is skipped.
Panic(g) ==
    /\ eng[g].pc \in {"probe", "boot", "wait", "verify", "bind", "ready", "serve", "grace"}
    /\ Spend("faults") /\ SetEng(g, Leave("panic"))
    /\ UNCHANGED <<slotVars, status, sharedVars, taskVars, call, store>>

\* The runtime's drop cancels every task at its await, but waits for a callback
\* that is running and for blocking work that has started.
DropRuntime(g) ==
    /\ At(g, "drop")
    /\ \A r \in Runs : fwd[g][r] < 0
    /\ task[g].tick # "run"
    /\ \A o \in store.open : o.w \notin {Task(n, g) : n \in TaskNames}
    /\ fwd' = [fwd EXCEPT ![g] = [r \in Runs |-> NoTask]]
    /\ task' = [task EXCEPT ![g] = NoTasks]
    /\ SetEng(g, [pc |-> "final"])
    /\ UNCHANGED <<slotVars, status, sharedVars, call, store, left>>

\* An error that is handed to Java but not published as the status.
FinishSilently(g) ==
    /\ At(g, "final")
    /\ status' = IF gen = g /\ eng[g].res = "ok" THEN Off ELSE status
    /\ SetEng(g, Gone(g, "sent"))
    /\ UNCHANGED <<slotVars, sharedVars, taskVars, call, store, left>>

\* publish_final_status unless a newer engine owns it, then done_tx.
Finish(g) ==
    /\ At(g, "final")
    /\ status' = IF gen # g THEN status ELSE IF eng[g].res = "ok" THEN Off ELSE Error
    /\ SetEng(g, Gone(g, "sent"))
    /\ UNCHANGED <<slotVars, sharedVars, taskVars, call, store, left>>

\* The thread unwinds outside catch_unwind: done_tx is dropped, nothing published.
ThreadDies(g) ==
    /\ At(g, "final") /\ Spend("faults")
    /\ SetEng(g, Gone(g, "dropped"))
    /\ UNCHANGED <<slotVars, status, sharedVars, taskVars, call, store>>
-----------------------------------------------------------------------------
\* Tasks of the engine's runtime.

\* The bootstrap callback on a Progress event, up to the fetch_max of
\* last_progress: dropped once reached_ready, or below what was seen.
Progress(g, r, p) ==
    /\ fwd[g][r] = Listening /\ Spend("events")
    /\ ~eng[g].ready /\ p >= eng[g].top
    /\ fwd' = [fwd EXCEPT ![g][r] = p] /\ SetEng(g, [top |-> p])
    /\ UNCHANGED <<slotVars, status, sharedVars, task, call, store>>

\* ... and its set_final_status(Starting(pct)), a step later.
ShowProgress(g, r) ==
    /\ fwd[g][r] >= 0
    /\ status' = Starting(fwd[g][r]) /\ fwd' = [fwd EXCEPT ![g][r] = Listening]
    /\ UNCHANGED <<slotVars, eng, sharedVars, task, call, store, left>>

\* A step of a task that changes nothing but its place.
Moves(g, n, s) ==
    /\ SetTask(g, n, s)
    /\ UNCHANGED <<slotVars, status, eng, sharedVars, fwd, call, store, left>>

\* A select on the task's own stop_rx clone that the signal wins.
TaskStops(g, n) ==
    /\ eng[g].stop # "no"
    /\ \/ n = "warm" /\ task[g][n] = "warming"
       \/ n = "dog" /\ task[g][n] \in {"sleep", "warming"}
       \/ n = "sweep" /\ task[g][n] \in {"probe", "fetch"}
    /\ Moves(g, n, "none")

\* warm_bridge_pool: channels opened or bridges retired are persisted.
Warmed(g, n) ==
    /\ task[g][n] = "warming" /\ eng[g].stop = "no"
    /\ \E s \in {"keep", IF n = "dog" THEN "publish" ELSE "none"} : Moves(g, n, s)

\* set_active_bridges of the warm-up, or of the watchdog's rotation, which may be empty.
PublishWarm(g, n) ==
    /\ task[g][n] = "publish"
    /\ act' \in (IF n = "dog" THEN {g, 0} ELSE {g})
    /\ SetTask(g, n, IF n = "dog" THEN "check" ELSE "none")
    /\ UNCHANGED <<slotVars, status, eng, tun, fwd, call, store, left>>

\* The stall watchdog wakes: a top-up round or a rebuild of the rotation is due, or not.
DogWakes(g) ==
    /\ task[g].dog = "sleep" /\ eng[g].stop = "no" /\ Spend("ticks")
    /\ \E s \in {"warming", "check"} : SetTask(g, "dog", s)
    /\ UNCHANGED <<slotVars, status, eng, sharedVars, fwd, call, store>>

\* It starts what is due, without another look at the stop, and sleeps again.
DogSpawns(g) ==
    /\ task[g].dog = "check"
    /\ \E t \in {task[g].tick, "run"}, s \in {task[g].sweep, "probe"} :
         /\ task[g].tick = "none" \/ t = task[g].tick
         /\ task[g].sweep = "none" \/ s = task[g].sweep
         /\ task' = [task EXCEPT ![g] = With(@, [dog |-> "sleep", tick |-> t, sweep |-> s])]
    /\ UNCHANGED <<slotVars, status, eng, sharedVars, fwd, call, store, left>>

\* The verification batch on the blocking pool comes back.
TickDone(g) ==
    /\ task[g].tick = "run"
    /\ \E s \in {"keep", "none"} : Moves(g, "tick", s)

\* The sweep's probe round, and the fetch a thin pool calls for.
SweepStep(g) ==
    /\ eng[g].stop = "no"
    /\ \/ task[g].sweep = "probe" /\ Moves(g, "sweep", "keep")
       \/ task[g].sweep = "fetch" /\ \E s \in {"src", "none"} : Moves(g, "sweep", s)
-----------------------------------------------------------------------------
\* The health store: every writer loads it, changes its copy and saves it.

Wants(w) == CASE w[1] = "main" -> eng[w[2]].pc \in {"keep", "src"}
              [] w[1] = "call" -> call[w[2]].pc = "note"
              [] OTHER -> task[w[2]][w[1]] \in {"keep", "src"}

Loads(w) == /\ store' = [store EXCEPT !.open = @ \cup {[w |-> w, stale |-> FALSE]}]
            /\ UNCHANGED <<slotVars, status, eng, sharedVars, taskVars, call, left>>

\* bridge_store_write_lock, then BridgeStore::load.
LoadStore(w) == Wants(w) /\ store.open = {} /\ Loads(w)

\* Where the writer goes on once its blocking job is joined.
AfterSave(w) ==
    CASE w[1] = "call" -> SetCall(w[2], "idle", 0) /\ UNCHANGED <<eng, task>>
      [] w[1] = "main" ->
           /\ UNCHANGED <<call, task>>
           /\ IF eng[w[2]].pc = "keep" THEN SetEng(w[2], AfterRound(eng[w[2]]))
              ELSE \E r \in {[pc |-> "probe"], Leave("err")} : SetEng(w[2], r)
      [] w[1] = "warm" -> \E s \in {"publish", "none"} : SetTask(w[2], "warm", s)
                            /\ UNCHANGED <<call, eng>>
      [] w[1] = "dog" -> \E s \in {"publish", "check"} : SetTask(w[2], "dog", s)
                            /\ UNCHANGED <<call, eng>>
      [] w[1] = "tick" -> SetTask(w[2], "tick", "none") /\ UNCHANGED <<call, eng>>
      [] w[1] = "sweep" ->
           /\ UNCHANGED <<call, eng>>
           /\ \E s \in {"none"} \cup (IF left.auto /\ task[w[2]].sweep = "keep"
                                      THEN {"fetch"} ELSE {}) : SetTask(w[2], "sweep", s)

\* The copy, with what was observed, is saved or not, and the lock released: a save
\* makes every other loaded copy stale, and a stale copy overwrites what came since.
SaveStore(w) ==
    /\ \E o \in store.open, ok \in BOOLEAN :
         /\ o.w = w
         /\ store' = [open |-> {[p EXCEPT !.stale = @ \/ ok] : p \in store.open \ {o}},
                      lost |-> store.lost \/ (ok /\ o.stale)]
    /\ AfterSave(w)
    /\ UNCHANGED <<slotVars, status, sharedVars, fwd, left>>
-----------------------------------------------------------------------------
\* Other native calls.

\* nativeNoteBridgeSource and nativeProbeBridgeTransport: a store cycle of the caller.
NoteBridges(c) ==
    /\ call[c] = Rest /\ Spend("notes") /\ SetCall(c, "note", 0)
    /\ UNCHANGED <<slotVars, status, eng, sharedVars, taskVars, store>>

\* nativeRefreshBridges: only with a tunnel, whose clone it keeps while it fetches.
RefreshBridges(c) ==
    /\ call[c] = Rest /\ tun # 0 /\ Spend("notes") /\ SetCall(c, "refresh", tun)
    /\ UNCHANGED <<slotVars, status, eng, sharedVars, taskVars, store>>

RefreshEnds(c) ==
    /\ call[c].pc = "refresh" /\ SetCall(c, "idle", 0)
    /\ UNCHANGED <<slotVars, status, eng, sharedVars, taskVars, store, left>>

-----------------------------------------------------------------------------
Init ==
    /\ slot = Free /\ gen = 0 /\ status = Off
    /\ eng = [g \in Engines |-> Unborn]
    /\ tun = 0 /\ act = 0
    /\ fwd = [g \in Engines |-> [r \in Runs |-> NoTask]]
    /\ task = [g \in Engines |-> NoTasks]
    /\ call = [c \in Callers |-> Rest]
    /\ store = [open |-> {}, lost |-> FALSE]
    /\ left \in Scenarios

\* What the environment may do, within the scenario.
Inputs ==
    \/ \E c \in Callers : \/ StartRefused(c) \/ SpawnFails(c) \/ NativeStart(c) \/ BeginStop(c)
                          \/ NoteBridges(c) \/ RefreshBridges(c)
    \/ \E g \in Engines : \/ AttachFails(g) \/ RuntimeFails(g) \/ Panic(g) \/ ThreadDies(g)
                          \/ DogWakes(g)
                          \/ \E r \in Runs, p \in Percents : Progress(g, r, p)

\* What the threads, the runtime's workers and the timers do by themselves.
Steps ==
    \/ \E c \in Callers : \/ StopIdle(c) \/ StopMark(c) \/ StopJoin(c) \/ StopTimeout(c)
                          \/ StopLate(c) \/ RefreshEnds(c)
    \/ \E g \in Engines :
         \/ Attach(g) \/ StopSeen(g) \/ Probe(g) \/ Fetch(g) \/ Boot(g) \/ Wait(g)
         \/ AttemptFailed(g) \/ Verify(g) \/ Bind(g) \/ TurnOn(g) \/ Ready(g) \/ Publish(g)
         \/ Teardown(g) \/ Grace(g) \/ DropRuntime(g) \/ Finish(g)
         \/ \E r \in Runs : ShowProgress(g, r)
         \/ \E n \in TaskNames : TaskStops(g, n) \/ Warmed(g, n) \/ PublishWarm(g, n)
         \/ DogSpawns(g) \/ TickDone(g) \/ SweepStep(g)
    \/ \E w \in Writers : LoadStore(w) \/ SaveStore(w)

Next == Inputs \/ Steps
Spec == Init /\ [][Next]_vars /\ WF_vars(Steps)
-----------------------------------------------------------------------------
Pcs == {"none", "attach", "probe", "keep", "fetch", "src", "boot", "wait", "failed", "verify",
        "bind", "on", "ready", "publish", "serve", "grace", "drop", "final", "gone"}

TypeOK ==
    /\ slot \in [st : {"Idle", "Running", "Stopping"}, h : 0 .. MaxStarts]
    /\ gen \in 0 .. MaxStarts /\ tun \in 0 .. MaxStarts /\ act \in 0 .. MaxStarts
    /\ status \in [k : {"Off", "Starting", "On", "Stopping", "Error"}, p : Percents \cup {0}]
    /\ \A g \in Engines : eng[g].pc \in Pcs /\ eng[g].top \in Percents \cup {0}
    /\ \A c \in Callers : call[c].pc \in {"idle", "off", "mark", "wait", "late", "note", "refresh"}
    /\ \A o \in store.open : o.w \in Writers

Holders(g) == {c \in Callers : call[c].pc \in {"mark", "wait"} /\ call[c].h = g}

\* The slot protocol of nativeStart and nativeStop: an idle slot means that every
\* engine thread is gone; otherwise one handle exists, in the slot or with exactly
\* one stopping call, and no thread but that handle's is alive.  So two engines
\* never coexist, although every write an engine makes to the tunnel, the active
\* bridges and the status before its end is unguarded.  The shared tunnel is that
\* of the engine that serves, or one left by a panic.  No observation a writer saved
\* in the health store is lost to another writer's cycle.
EngineInv ==
    /\ TypeOK
    /\ slot.st = "Idle" =>
         slot = Free /\ \A g \in Engines : ~Live(g) /\ Holders(g) = {}
    /\ slot.st # "Idle" =>
         \E h \in Engines :
           /\ \A g \in Engines \ {h} : ~Live(g) /\ Holders(g) = {}
           /\ h = gen
           /\ \/ slot.h = h /\ Holders(h) = {}
              \/ slot = [st |-> "Stopping", h |-> 0] /\ \E c \in Callers : Holders(h) = {c}
    /\ tun # 0 => eng[tun].pc = "serve" \/ eng[tun].res = "panic"
    /\ ~store.lost

\* What nativeGetStatus shows is true: Starting or On is shown only while an engine
\* is alive, unless its thread died outside catch_unwind and nobody has joined it
\* yet; and Stopping only while a stop call is at work on it.
StatusTrue ==
    /\ status.k \in {"Starting", "On"} =>
         \E g \in Engines : Live(g) \/ eng[g].done = "dropped"
    /\ status.k = "Stopping" => \E c \in Callers : call[c].pc \in {"wait", "late"}

\* At the end of its work no native call is running, and an engine that was told
\* to stop has ended, at whatever point of its bootstrap and its tasks it was.
EngineQuiet ==
    /\ \A c \in Callers : call[c] = Rest
    /\ \A g \in Engines : eng[g].stop # "no" => eng[g].pc = "gone"
=============================================================================
