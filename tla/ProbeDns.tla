------------------------------ MODULE ProbeDns ------------------------------
(***************************************************************************)
(* Hostname resolution of the bridge probe (packages/bridge-probe/src):    *)
(* the live DoH cache with its network generation and the on-disk          *)
(* last-known-good store (dns.rs), the coalesced lookups and the fallback  *)
(* chain (probe/dns_resolution.rs), the invalidation of an answer whose    *)
(* addresses all failed (probe/dns_invalidation.rs), and the overlapping   *)
(* saves of both stores.                                                   *)
(*                                                                         *)
(* A task runs resolve_and_probe for one bridge.  Steps end where the code *)
(* releases a lock or awaits.  An answer is one member of Addrs.  Cells    *)
(* and cache versions are only compared for equality, so a free one is     *)
(* reused.  Providers and their scores only order the waves of a search    *)
(* (module DohRace).                                                       *)
(***************************************************************************)
EXTENDS Naturals, FiniteSets, Sequences, SequencesExt

CONSTANTS
    Hosts, Addrs, Tasks,
    Savers,         \* overlapping calls of save_persisted_dns_cache
    Budgets,        \* what a behaviour may do: see Budget
    Ttl,            \* lifetime of an answer and of a remembered failure
    Window,         \* DNS_STALE_FALLBACK_WINDOW
    Tolerance,      \* DNS_TIMESTAMP_FUTURE_TOLERANCE
    Cap,            \* DNS_CACHE_CAP
    Shed,           \* DNS_CACHE_CAP / 4
    SweepInterval,  \* INFLIGHT_SWEEP_INTERVAL
    SweepBudget,    \* INFLIGHT_SWEEP_BUDGET
    None

\* Bounds on the calls of each kind, on clock ticks and on restarts, and the
\* ResolverPolicy values in use.
Budget == [lookups : Nat, flushes : Nat, saves : Nat, hints : Nat, ticks : Nat,
           restarts : Nat, policies : SUBSET [doh : BOOLEAN, system : BOOLEAN]]

ASSUME BudgetsAssumption == Budgets \subseteq Budget
ASSUME TimesAssumption == {Ttl, Window, Tolerance} \subseteq Nat /\ Ttl > 0
ASSUME LimitsAssumption ==
    /\ {Cap, Shed, SweepInterval, SweepBudget} \subseteq Nat \ {0}
    /\ Shed <= Cap
ASSUME NoneAssumption == None \notin Addrs

VARIABLES
    now,        \* the clock, monotonic and wall
    netgen,     \* DNS_NETWORK_GENERATION
    cache,      \* doh_cache: per host an entry or None
    fallback,   \* disk_fallback_store: per host an answer or None
    entries,    \* INFLIGHT_DOH.entries: set of [host, gen, cell]
    sweep,      \* INFLIGHT_DOH.sweep_queue and the insertion counter
    val,        \* what the OnceCells hold
    task,       \* the resolve_and_probe calls
    flush,      \* the answers flush_dns_cache still has to merge; the gate
    saver,      \* the saves
    nextgen, published, \* PersistPathState
    file,       \* the persisted file: its lines and the capture they are of
    left        \* what remains of the budget

stores == <<cache, fallback>>
registry == <<entries, sweep, val>>
disk == <<nextgen, published, file>>
vars == <<now, netgen, stores, registry, task, flush, saver, disk, left>>

Cells == 1 .. 2 * Cardinality(Tasks)
Versions == 1 .. 2 * Cardinality(Tasks) + Cardinality(Hosts) + 1
Answer == [addr : Addrs, at : Nat]
\* net, the generation whose network gave the answer, is history.
Entry == [addr : Addrs \union {None}, exp : Nat, at : Nat, gen : Nat, ver : Versions, net : Nat]
Ident == [gen : Nat, ver : Versions]
IsLines(f) == DOMAIN f \subseteq Hosts /\ \A h \in DOMAIN f : f[h] \in Answer
IdleTask == [pc |-> "idle", host |-> None, system |-> FALSE, gen0 |-> 0, gen |-> 0,
             cell |-> 0, addr |-> None, ident |-> None]
IdleSaver == [pc |-> "idle", live |-> <<>>, snap |-> <<>>, gen |-> 0]
TaskPcs == {"idle", "check", "join", "wait", "search", "publish", "remove", "stale",
            "disk", "negative", "system", "dial", "generation", "invalidate"}

Used(kind) == left[kind] > 0
Spend(kind) == left' = [left EXCEPT ![kind] = @ - 1]
Least(S) == CHOOSE x \in S : \A y \in S : x <= y
Age(at) == IF at > now THEN 0 ELSE now - at     \* saturating_sub
Fresh(e) == e.exp > now
live_entry_is_usable(e) == Fresh(e) \/ now - e.exp <= Window
Positive(e) == e # None /\ e.addr # None

\* next_cache_version: no version in sight is given twice.
FreshVersion ==
    Least(Versions \ ({cache[h].ver : h \in {g \in Hosts : cache[g] # None}} \union
                      {task[t].ident.ver : t \in {u \in Tasks : task[u].ident # None}} \union
                      {val[c].ident.ver : c \in {d \in Cells : val[d] # None /\ val[d].ident # None}}))
\* A cell lives while a caller holds its Arc; a Weak keeps its address taken.
Held(c) == \E t \in Tasks : task[t].cell = c
\* The last Arc takes the cell's value with it.
Drop(t) == val' = [c \in Cells |->
    IF c = task[t].cell /\ ~\E u \in Tasks \ {t} : task[u].cell = c THEN None ELSE val[c]]
FreshCell == Least({c \in Cells : ~Held(c) /\ \A e \in entries : e.cell # c})

-----------------------------------------------------------------------------
(* insert_capped, under the cache mutex.                                    *)

Size(c) == Cardinality({h \in Hosts : c[h] # None})
SweptCache(c) == [h \in Hosts |-> IF c[h] # None /\ c[h].exp + Window > now THEN c[h] ELSE None]
\* The hosts shed when the cache stays full: Shed of them, soonest expiry first.
ShedSets(c) ==
    {S \in SUBSET {h \in Hosts : c[h] # None} :
        /\ Cardinality(S) = IF Shed < Size(c) THEN Shed ELSE Size(c)
        /\ \A h \in S, g \in Hosts : c[g] # None /\ g \notin S => c[h].exp <= c[g].exp}
Room(c) ==
    IF Size(c) < Cap THEN {c}
    ELSE LET swept == SweptCache(c)
         IN IF Size(swept) < Cap THEN {swept}
            ELSE {[h \in Hosts |-> IF h \in S THEN None ELSE swept[h]] : S \in ShedSets(swept)}
insert_capped(h, addr, net) ==
    \E c \in Room(cache) :
        cache' = [c EXCEPT ![h] = [addr |-> addr, exp |-> now + Ttl, at |-> now,
                                   gen |-> netgen, ver |-> FreshVersion, net |-> net]]

-----------------------------------------------------------------------------
(* resolve_addrs_observed and coalesced_doh_lookup_observed.               *)

Go(t, pc) == task' = [task EXCEPT ![t].pc = pc]
End(t) == task' = [task EXCEPT ![t] = IdleTask]
Dial(t, addr, ident) ==
    task' = [task EXCEPT ![t] = [IdleTask EXCEPT !.pc = "dial", !.host = task[t].host,
                                                 !.addr = addr, !.ident = ident]]
System(t) == IF task[t].system THEN task' = [task EXCEPT ![t] = [IdleTask EXCEPT !.pc = "system", !.host = task[t].host]]
             ELSE End(t)
Identity(e) == [gen |-> e.gen, ver |-> e.ver]
LookupOnly == UNCHANGED <<now, netgen, flush, saver, disk>>

Begin(t) ==
    /\ task[t].pc = "idle" /\ Used("lookups") /\ Spend("lookups")
    /\ \E h \in Hosts, p \in left.policies :
        /\ p.doh \/ p.system
        /\ task' = [task EXCEPT ![t].pc = IF p.doh THEN "check" ELSE "system", ![t].host = h,
                                ![t].system = p.system, ![t].gen0 = netgen]
    /\ UNCHANGED <<stores, registry>> /\ LookupOnly

\* The cache lookup; a miss goes on to load the generation of its search.
CheckCache(t) ==
    /\ task[t].pc = "check"
    /\ LET e == cache[task[t].host]
       IN IF e # None /\ Fresh(e)
          THEN IF e.addr # None THEN Dial(t, e.addr, Identity(e)) ELSE System(t)
          ELSE task' = [task EXCEPT ![t].pc = "join", ![t].gen = netgen]
    /\ UNCHANGED <<stores, registry, left>> /\ LookupOnly

Key(e) == [host |-> e.host, gen |-> e.gen]
QueueKey(q, k) == IF k \in Range(q) THEN q ELSE Append(q, k)
\* sweep_inflight_dead_entries: visit the first keys of the queue once each.
SweepKey(s, i, queue) ==
    LET k == queue[i] q == Tail(s.queue)
        mine == {e \in s.entries : Key(e) = k}
    IN IF mine = {} THEN [s EXCEPT !.queue = q]
       ELSE IF \E e \in mine : Held(e.cell) THEN [s EXCEPT !.queue = Append(q, k)]
            ELSE [entries |-> s.entries \ mine, queue |-> q]
sweep_inflight_dead_entries ==
    LET limit == IF SweepBudget < Len(sweep.queue) THEN SweepBudget ELSE Len(sweep.queue)
    IN FoldLeft(LAMBDA s, i : SweepKey(s, i, sweep.queue),
                [entries |-> entries, queue |-> sweep.queue], [i \in 1 .. limit |-> i])

\* Join the cell of a lookup that is still going on, or register a new one.
Join(t) ==
    /\ task[t].pc = "join"
    /\ LET k == [host |-> task[t].host, gen |-> task[t].gen]
           live == {e \in entries : Key(e) = k /\ Held(e.cell)}
           due == sweep.count = SweepInterval - 1
           s == IF due THEN sweep_inflight_dead_entries
                ELSE [entries |-> entries, queue |-> sweep.queue]
           c == FreshCell
       IN IF live # {}
          THEN /\ \E e \in live : task' = [task EXCEPT ![t].pc = "wait", ![t].cell = e.cell]
               /\ UNCHANGED registry
          ELSE /\ task' = [task EXCEPT ![t].pc = "wait", ![t].cell = c]
               /\ entries' = {e \in s.entries : Key(e) # k} \union {[host |-> k.host, gen |-> k.gen, cell |-> c]}
               /\ sweep' = [count |-> (sweep.count + 1) % SweepInterval, queue |-> QueueKey(s.queue, k)]
               /\ UNCHANGED val
    /\ UNCHANGED <<stores, left>> /\ LookupOnly

\* get_or_init: one holder of the cell runs the search, the others wait for its
\* value, and a waiter takes over when that one is cancelled.
Searching(c) == \E t \in Tasks : task[t].cell = c /\ task[t].pc \in {"search", "publish"}
GetOrInitAlone(t) ==
    /\ task[t].pc = "wait"
    /\ \/ val[task[t].cell] # None /\ Go(t, "remove")
       \/ /\ val[task[t].cell] = None /\ ~\E u \in Tasks \ {t} : task[u].cell = task[t].cell
          /\ Go(t, "search")
    /\ UNCHANGED <<stores, registry, left>> /\ LookupOnly
GetOrInit(t) ==
    /\ task[t].pc = "wait"
    /\ \/ val[task[t].cell] # None /\ Go(t, "remove")
       \/ val[task[t].cell] = None /\ ~Searching(task[t].cell) /\ Go(t, "search")
    /\ UNCHANGED <<stores, registry, left>> /\ LookupOnly

\* doh_wave_search, asked of the network of this moment: an address or nothing.
Search(t) ==
    /\ task[t].pc = "search"
    /\ \/ \E a \in Addrs : task' = [task EXCEPT ![t].pc = "publish", ![t].addr = a]
          /\ UNCHANGED val
       \/ /\ val' = [val EXCEPT ![task[t].cell] = [addr |-> None, ident |-> None]]
          /\ Go(t, "remove")
    /\ UNCHANGED <<stores, entries, sweep, left>> /\ LookupOnly

PublishUngated(t) ==
    /\ task[t].pc = "publish"
    /\ insert_capped(task[t].host, task[t].addr, task[t].gen)
    /\ val' = [val EXCEPT ![task[t].cell] =
                 [addr |-> task[t].addr, ident |-> Identity(cache'[task[t].host])]]
    /\ Go(t, "remove")
    /\ UNCHANGED <<fallback, entries, sweep, left>> /\ LookupOnly
\* remember_doh_answer_if_generation_observed: check and insert in one critical
\* section; the cell gets its value in the same poll.
Publish(t) ==
    /\ task[t].pc = "publish"
    /\ \/ /\ netgen = task[t].gen
          /\ insert_capped(task[t].host, task[t].addr, task[t].gen)
          /\ val' = [val EXCEPT ![task[t].cell] =
                       [addr |-> task[t].addr, ident |-> Identity(cache'[task[t].host])]]
       \/ /\ netgen # task[t].gen
          /\ val' = [val EXCEPT ![task[t].cell] = [addr |-> task[t].addr, ident |-> None]]
          /\ UNCHANGED cache
    /\ Go(t, "remove")
    /\ UNCHANGED <<fallback, entries, sweep, left>> /\ LookupOnly

\* remove_finished_inflight_entry: this call's cell only, never a newer one.
FinishEntry(t) ==
    /\ task[t].pc = "remove"
    /\ entries' = {e \in entries : e.cell # task[t].cell}
    /\ sweep' = IF entries' = {} /\ entries # {} THEN [sweep EXCEPT !.queue = <<>>] ELSE sweep
    /\ LET v == val[task[t].cell]
       IN IF v.addr # None THEN Dial(t, v.addr, v.ident)
          ELSE task' = [task EXCEPT ![t].pc = "stale", ![t].cell = 0]
    /\ Drop(t)
    /\ UNCHANGED <<stores, left>> /\ LookupOnly

\* stale_fallback_answer_observed
Stale(t) ==
    /\ task[t].pc = "stale"
    /\ LET e == cache[task[t].host]
       IN IF Positive(e) /\ ~Fresh(e) /\ now - e.exp <= Window
          THEN Dial(t, e.addr, Identity(e)) ELSE Go(t, "disk")
    /\ UNCHANGED <<stores, registry, left>> /\ LookupOnly

\* disk_fallback_answer
Disk(t) ==
    /\ task[t].pc = "disk"
    /\ LET a == fallback[task[t].host]
       IN IF a # None /\ Age(a.at) <= Window THEN Dial(t, a.addr, None) ELSE Go(t, "negative")
    /\ UNCHANGED <<stores, registry, left>> /\ LookupOnly

\* remember_doh_failure_if_generation
Negative(t) ==
    /\ task[t].pc = "negative"
    /\ LET e == cache[task[t].host]
       IN IF netgen = task[t].gen0 /\ ~(Positive(e) /\ e.gen = task[t].gen0 /\ Fresh(e))
          THEN insert_capped(task[t].host, None, task[t].gen0)
          ELSE UNCHANGED cache
    /\ System(t)
    /\ UNCHANGED <<fallback, registry, left>> /\ LookupOnly

\* The operating system's resolver: addresses outside the cache, or no answer.
SystemLookup(t) ==
    /\ task[t].pc = "system"
    /\ End(t) \/ \E a \in Addrs : Dial(t, a, None)
    /\ UNCHANGED <<stores, registry, left>> /\ LookupOnly

\* The DNS timeout of resolve_and_probe drops the future at one of its awaits.
Cancel(t) ==
    /\ task[t].pc \in {"wait", "search", "system"}
    /\ End(t) /\ Drop(t)
    /\ UNCHANGED <<stores, entries, sweep, left>> /\ LookupOnly

\* tcp_probe_observed or webtunnel_upgrade_probe_observed: only a probe that
\* failed to connect to every address reports what it tried.
Probe(t) ==
    /\ task[t].pc = "dial"
    /\ End(t) \/ (task[t].ident # None /\ Go(t, "generation"))
    /\ UNCHANGED <<stores, registry, left>> /\ LookupOnly

\* invalidate_if_current: the generation first, then the entry under the mutex.
InvalidateGeneration(t) ==
    /\ task[t].pc = "generation"
    /\ IF netgen = task[t].ident.gen THEN Go(t, "invalidate") ELSE End(t)
    /\ UNCHANGED <<stores, registry, left>> /\ LookupOnly
Invalidate(t) ==
    /\ task[t].pc = "invalidate"
    /\ LET h == task[t].host
       IN IF Positive(cache[h]) /\ Identity(cache[h]) = task[t].ident
          THEN cache' = [cache EXCEPT ![h] = None] ELSE UNCHANGED cache
    /\ End(t)
    /\ UNCHANGED <<fallback, registry, left>> /\ LookupOnly

-----------------------------------------------------------------------------
(* flush_dns_cache, hints, saves and loads.                                 *)

\* A capture holds flush_gate, as a flush does.
Capturing == \E s \in Savers : saver[s].pc = "capture"

\* Under the gate and the cache mutex: keep the usable positives, bump, clear.
FlushLive ==
    /\ ~flush.gate /\ ~Capturing /\ Used("flushes") /\ Spend("flushes")
    /\ flush' = [gate |-> TRUE, pending |->
         [h \in {g \in Hosts : Positive(cache[g]) /\ live_entry_is_usable(cache[g])} |->
            [addr |-> cache[h].addr, at |-> cache[h].at]]]
    /\ netgen' = netgen + 1
    /\ cache' = [h \in Hosts |-> None]
    /\ UNCHANGED <<now, fallback, registry, task, saver, disk>>

Without(f, h) == [g \in DOMAIN f \ {h} |-> f[g]]
\* merge_disk_fallback_entry keeps a strictly newer answer and an equal one.
Merged(f, h, a) == IF f[h] # None /\ f[h].at >= a.at THEN f ELSE [f EXCEPT ![h] = a]
FlushMerge ==
    /\ flush.gate
    /\ IF DOMAIN flush.pending = {}
       THEN flush' = [flush EXCEPT !.gate = FALSE] /\ UNCHANGED fallback
       ELSE \E h \in DOMAIN flush.pending :
              /\ fallback' = Merged(fallback, h, flush.pending[h])
              /\ flush' = [flush EXCEPT !.pending = Without(@, h)]
    /\ UNCHANGED <<now, netgen, cache, registry, task, saver, disk, left>>

\* seed_disk_fallback with one imported hint; parse_dns_hint_line has refused a
\* stamp beyond the tolerance.
Seed ==
    /\ Used("hints") /\ Spend("hints")
    /\ \E h \in Hosts, a \in Addrs, at \in 0 .. now + Tolerance :
        fallback' = Merged(fallback, h, [addr |-> a, at |-> at])
    /\ UNCHANGED <<now, netgen, cache, registry, task, flush, saver, disk>>

\* capture_persist_snapshots_with_generation takes the gate and reads the live
\* cache; snapshot_lock keeps other captures out.
LiveSnapshot ==
    [h \in {g \in Hosts : Positive(cache[g]) /\ live_entry_is_usable(cache[g])} |->
       [addr |-> cache[h].addr, at |-> cache[h].at]]
CaptureUngated(s) ==
    /\ saver[s].pc = "idle" /\ Used("saves") /\ Spend("saves")
    /\ saver' = [saver EXCEPT ![s].pc = "capture", ![s].live = LiveSnapshot]
    /\ UNCHANGED <<now, netgen, stores, registry, task, flush, disk>>
CaptureLive(s) ==
    /\ saver[s].pc = "idle" /\ ~Capturing /\ ~flush.gate /\ Used("saves") /\ Spend("saves")
    /\ saver' = [saver EXCEPT ![s].pc = "capture", ![s].live = LiveSnapshot]
    /\ UNCHANGED <<now, netgen, stores, registry, task, flush, disk>>
\* Then the fallbacks of the other hosts, and the generation of the pair.
CaptureDisk(s) ==
    /\ saver[s].pc = "capture"
    /\ LET live == saver[s].live
           old == {h \in Hosts \ DOMAIN live : fallback[h] # None /\ Age(fallback[h].at) <= Window}
       IN saver' = [saver EXCEPT ![s] =
            [pc |-> "write", live |-> <<>>, gen |-> nextgen + 1,
             snap |-> [h \in DOMAIN live \union old |-> IF h \in old THEN fallback[h] ELSE live[h]]]]
    /\ nextgen' = nextgen + 1
    /\ UNCHANGED <<now, netgen, stores, registry, task, flush, published, file, left>>

SaverDone(s) == saver' = [saver EXCEPT ![s] = IdleSaver]
\* Create, write and fsync of the temp file: done or given up.
WriteTemp(s) ==
    /\ saver[s].pc = "write"
    /\ SaverDone(s) \/ saver' = [saver EXCEPT ![s].pc = "rename"]
    /\ UNCHANGED <<now, netgen, stores, registry, task, flush, disk, left>>
\* Under publish_lock: skip what is not newer than the published save, else
\* rename, which may fail; the sync of the directory after it may fail too, and
\* then the file is replaced and the save is not published.
Rename(s) ==
    /\ saver[s].pc = "rename"
    /\ \/ /\ saver[s].gen > published
          /\ published' \in {published, saver[s].gen}
          /\ file' = [lines |-> saver[s].snap, cap |-> saver[s].gen]
       \/ UNCHANGED <<published, file>>
    /\ SaverDone(s)
    /\ UNCHANGED <<now, netgen, stores, registry, task, flush, nextgen, left>>

\* The process ends and a new one loads the file: load_persisted_dns_cache.
Restart ==
    /\ Used("restarts") /\ Spend("restarts")
    /\ netgen' = 0 /\ cache' = [h \in Hosts |-> None]
    /\ fallback' = [h \in Hosts |->
         IF h \in DOMAIN file.lines /\ file.lines[h].at <= now + Tolerance
         THEN file.lines[h] ELSE None]
    /\ entries' = {} /\ sweep' = [count |-> 0, queue |-> <<>>] /\ val' = [c \in Cells |-> None]
    /\ task' = [t \in Tasks |-> IdleTask] /\ flush' = [gate |-> FALSE, pending |-> <<>>]
    /\ saver' = [s \in Savers |-> IdleSaver]
    /\ nextgen' = 0 /\ published' = 0 /\ file' = [file EXCEPT !.cap = 0]
    /\ UNCHANGED now

Tick ==
    /\ Used("ticks") /\ Spend("ticks")
    /\ now' = now + 1
    /\ UNCHANGED <<netgen, stores, registry, task, flush, saver, disk>>

Init ==
    /\ now = 0 /\ netgen = 0
    /\ cache = [h \in Hosts |-> None] /\ fallback = [h \in Hosts |-> None]
    /\ entries = {} /\ sweep = [count |-> 0, queue |-> <<>>] /\ val = [c \in Cells |-> None]
    /\ task = [t \in Tasks |-> IdleTask] /\ flush = [gate |-> FALSE, pending |-> <<>>]
    /\ saver = [s \in Savers |-> IdleSaver]
    /\ nextgen = 0 /\ published = 0 /\ file = [lines |-> <<>>, cap |-> 0]
    /\ left \in Budgets

Lookup(t) == CheckCache(t) \/ Join(t) \/ GetOrInit(t) \/ Search(t) \/ Publish(t) \/ FinishEntry(t)
             \/ Stale(t) \/ Disk(t) \/ Negative(t) \/ SystemLookup(t)
Dialling(t) == Probe(t) \/ InvalidateGeneration(t) \/ Invalidate(t)
Save(s) == CaptureLive(s) \/ CaptureDisk(s) \/ WriteTemp(s) \/ Rename(s)
Next ==
    \/ \E t \in Tasks : Begin(t) \/ Lookup(t) \/ Cancel(t) \/ Dialling(t)
    \/ \E s \in Savers : Save(s)
    \/ FlushLive \/ FlushMerge \/ Seed \/ Restart \/ Tick

-----------------------------------------------------------------------------
\* Shape of the stores, of the registry and of the calls at work on them.
TypeOK ==
    /\ now \in Nat /\ netgen \in Nat
    /\ \A h \in Hosts : cache[h] = None \/ cache[h] \in Entry
    /\ \A h \in Hosts : fallback[h] = None \/ fallback[h] \in Answer
    /\ \A e \in entries : e.host \in Hosts /\ e.gen <= netgen /\ e.cell \in Cells
    /\ \A t \in Tasks : task[t].pc \in TaskPcs /\ (task[t].ident = None \/ task[t].ident \in Ident)
    /\ flush.gate \in BOOLEAN /\ IsLines(flush.pending)
    /\ \A s \in Savers : IsLines(saver[s].snap) /\ saver[s].gen <= nextgen
    /\ IsLines(file.lines) /\ published <= nextgen

\* The live cache holds only what the network of the current generation said:
\* no lookup that straddles flush_dns_cache, answered or failed, publishes into
\* the world after it.
FreshNetwork == \A h \in Hosts : cache[h] # None => cache[h].net = netgen /\ cache[h].gen = netgen

\* Coalescing: a hostname is searched by at most one task per generation, and
\* the cell being searched is the one later callers join.
OneSearch ==
    \A t \in Tasks : task[t].pc \in {"search", "publish"} =>
        /\ \E e \in entries : e.cell = task[t].cell /\ e.host = task[t].host /\ e.gen = task[t].gen
        /\ \A u \in Tasks \ {t} : task[u].pc \in {"search", "publish"} =>
               task[u].host # task[t].host \/ task[u].gen # task[t].gen

\* What resolution may assume at any moment: well-formed stores, a cache of this
\* network only, and one search per hostname and generation.
ResolverInv == TypeOK /\ FreshNetwork /\ OneSearch

\* What a step may not do to the stores.  A late failure never replaces an answer
\* that is still fresh, and a failed probe removes an entry only when that entry
\* gave it the addresses it tried.  A save captures every usable answer of the
\* fallback store and every answer a flush is carrying there, and what a save that
\* returned Ok made durable is never rolled back: only the write of a save that
\* reported an error may still be overtaken by an older capture.
StoresForward ==
    [][/\ \A h \in Hosts :
            /\ Positive(cache[h]) /\ Fresh(cache[h]) /\ cache'[h] # None => cache'[h].addr # None
            /\ \A t \in Tasks :
                 task[t].pc = "invalidate" /\ task'[t].pc = "idle" /\ task[t].host = h
                 /\ cache[h] # None /\ cache'[h] = None /\ netgen' = netgen =>
                    cache[h].addr = task[t].addr
       /\ \A s \in Savers : saver[s].pc = "capture" /\ saver'[s].pc = "write" =>
            /\ DOMAIN flush.pending \subseteq DOMAIN saver'[s].snap
            /\ {h \in Hosts : fallback[h] # None /\ Age(fallback[h].at) <= Window}
                 \subseteq DOMAIN saver'[s].snap
       /\ file'.cap >= published']_vars

\* No resolve_and_probe call is under way.
LookupsQuiet == \A t \in Tasks : task[t].pc = "idle"
=============================================================================
