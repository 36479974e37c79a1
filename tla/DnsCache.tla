------------------------------ MODULE DnsCache ------------------------------
(* The packet cache of the DNS server: how an entry ages against two clocks *)
(* (a monotone one and a wall clock that may be set back), admission under  *)
(* two limits, and saves that outlive the caller that asked for them.       *)
EXTENDS Integers, FiniteSets, FiniteSetsExt

CONSTANTS Names,       \* questions: name, type and class
          CapEntries,  \* DNS_CACHE_CAP
          CapBytes,    \* MAX_PAYLOAD
          Sizes,       \* lengths of encoded packets
          Lifetimes,   \* DNS lifetimes of the packets
          Savers,      \* callers of save
          Horizon      \* bound of the wall clock

ASSUME CacheBounds == CapEntries > 0 /\ \A n \in Sizes : n > 0 /\ n <= CapBytes

\* entries: the map.  serial numbers every admission.  disk: the saved file and, as
\* history, the wall clock and the remaining lifetimes at its snapshot.
\* served: history of the last answer given from each entry, as its serial and the
\* monotone instant at which that answer runs out.
\* todo: what may still happen; at is the wall clock of the last snapshot.
\* saver: a blocking worker and its snapshot; gate: the worker that owns the save lock.
VARIABLES mono, wall, entries, serial, saver, gate, disk, served, todo
kvars == <<mono, wall, entries, serial, saver, gate, disk, served, todo>>

WallAge(stamp) == Max({wall - stamp, 0})
Age(e) == Max({e.age + (mono - e.admitted), WallAge(e.stamp)})
Remaining(e) == Max({e.ttl - Age(e), 0})
Alive == {n \in DOMAIN entries : Remaining(entries[n]) > 0}
NoSave == [pc |-> "idle", snap |-> <<>>, serial |-> 0]
NoFile == [rows |-> <<>>, serial |-> 0, wall |-> 0]

CacheInit(budgets) ==
    /\ mono = 0 /\ wall = 1 /\ entries = <<>> /\ serial = 0
    /\ saver = [s \in Savers |-> NoSave] /\ gate = {} /\ disk = NoFile
    /\ served = [n \in Names |-> [serial |-> 0, until |-> 0]]
    /\ todo \in budgets

Keep(names) == [n \in names |-> entries[n]]
Fits(names, size) ==
    /\ Cardinality(names) < CapEntries
    /\ MapThenSumSet(LAMBDA n : entries[n].size, names) + size <= CapBytes

\* What the loop of admit may keep: soonest-expiring entries go one by one until
\* the new packet fits under both limits, and no entry goes after that.
Evict(names, size) ==
    {kept \in SUBSET names :
        /\ Fits(kept, size)
        /\ \A gone \in names \ kept, k \in kept : Remaining(entries[gone]) <= Remaining(entries[k])
        /\ names # kept =>
             \E last \in names \ kept :
                /\ ~Fits(kept \cup {last}, size)
                /\ \A gone \in names \ kept : Remaining(entries[gone]) <= Remaining(entries[last])}

\* admit: expired entries and the old answer go first, then the victims.
Admitted(name, e) ==
    {[n \in kept \cup {name} |-> IF n = name THEN e ELSE entries[n]] : kept \in Evict(Alive \ {name}, e.size)}

\* insert_at: an answer resolved at stamp, stored when it is neither from the
\* future nor expired already.  The caller's lifetime can only shorten it.
Insert(name) ==
    /\ name \in todo.names /\ todo.inserts > 0 /\ todo' = [todo EXCEPT !.inserts = @ - 1]
    /\ \E ttl \in Lifetimes, size \in todo.sizes, stamp \in {wall - todo.late, wall} :
         /\ ttl > WallAge(stamp)
         /\ serial' = serial + 1
         /\ entries' \in Admitted(name, [ttl |-> ttl, stamp |-> stamp, admitted |-> mono, age |-> WallAge(stamp),
                                         size |-> size, serial |-> serial + 1])
    /\ UNCHANGED <<mono, wall, saver, gate, disk, served>>

\* get_at: an expired entry is removed; otherwise the greatest age observed so
\* far is folded into the entry, so a clock set back cannot revive it.
Get(name) ==
    /\ name \in DOMAIN entries
    /\ LET e == entries[name]
       IN IF Remaining(e) = 0 THEN entries' = Keep(DOMAIN entries \ {name}) /\ UNCHANGED served
          ELSE /\ entries' = [entries EXCEPT ![name].age = Age(e), ![name].admitted = mono]
               /\ served' = [served EXCEPT ![name] = [serial |-> e.serial, until |-> mono + Remaining(e)]]
    /\ UNCHANGED <<mono, wall, serial, saver, gate, disk, todo>>

\* save: the caller queues for the lock; the lock goes with the blocking worker,
\* which a caller that is dropped leaves running.
AskSave(s) ==
    /\ saver[s].pc = "idle" /\ s \in todo.savers /\ todo.saves > 0 /\ todo' = [todo EXCEPT !.saves = @ - 1]
    /\ saver' = [saver EXCEPT ![s].pc = "wait"]
    /\ UNCHANGED <<mono, wall, entries, serial, gate, disk, served>>
DropCaller(s) ==
    /\ saver[s].pc = "wait" /\ saver' = [saver EXCEPT ![s] = NoSave]
    /\ UNCHANGED <<mono, wall, entries, serial, gate, disk, served, todo>>
TakeGate(s) ==
    /\ saver[s].pc = "wait" /\ gate = {} /\ gate' = {s}
    /\ saver' = [saver EXCEPT ![s].pc = "snap"]
    /\ UNCHANGED <<mono, wall, entries, serial, disk, served, todo>>

\* The lease that is written: what is left now, counted from the original stamp.
Shortened(e) == [ttl |-> Min({e.ttl, Remaining(e) + WallAge(e.stamp)}), stamp |-> e.stamp,
                 size |-> e.size, left |-> Remaining(e)]
SnapshotCache(s) ==
    /\ saver[s].pc = "snap"
    /\ entries' = Keep(Alive)
    /\ saver' = [saver EXCEPT ![s] = [pc |-> "write", snap |-> [n \in Alive |-> Shortened(entries[n])], serial |-> serial]]
    /\ todo' = [todo EXCEPT !.at = wall]
    /\ UNCHANGED <<mono, wall, serial, gate, disk, served>>
\* disk::save: a temporary file renamed over the target, or nothing.
WriteCache(s) ==
    /\ saver[s].pc = "write"
    /\ saver' = [saver EXCEPT ![s] = NoSave] /\ gate' = gate \ {s}
    /\ \/ disk' = [rows |-> saver[s].snap, serial |-> saver[s].serial, wall |-> todo.at]
       \/ UNCHANGED disk
    /\ UNCHANGED <<mono, wall, entries, serial, served, todo>>

\* Time passes, or the wall clock is set.
Elapse ==
    /\ mono < todo.seconds /\ wall < Horizon /\ mono' = mono + 1 /\ wall' = wall + 1
    /\ UNCHANGED <<entries, serial, saver, gate, disk, served, todo>>
SetWall ==
    /\ todo.clocks > 0 /\ todo' = [todo EXCEPT !.clocks = @ - 1]
    /\ wall' \in 0..Horizon \ {wall}
    /\ UNCHANGED <<mono, entries, serial, saver, gate, disk, served>>

\* disk::load in a new process.  A stamp from the future and an expired lease
\* are skipped; the rows of a saved file fit, so admission evicts nothing.
LoadedLeft(row) == IF wall < row.stamp THEN 0 ELSE Max({row.ttl - WallAge(row.stamp), 0})
Load ==
    /\ todo.restarts > 0 /\ todo' = [todo EXCEPT !.restarts = @ - 1]
    /\ entries' = [n \in {m \in DOMAIN disk.rows : LoadedLeft(disk.rows[m]) > 0} |->
                     [ttl |-> disk.rows[n].ttl, stamp |-> disk.rows[n].stamp, admitted |-> mono,
                      age |-> WallAge(disk.rows[n].stamp), size |-> disk.rows[n].size, serial |-> serial + 1]]
    /\ serial' = serial + 1
    /\ saver' = [s \in Savers |-> NoSave] /\ gate' = {}
    /\ UNCHANGED <<mono, wall, disk, served>>

CacheSteps == \E s \in Savers : TakeGate(s) \/ SnapshotCache(s) \/ WriteCache(s)
CacheNext ==
    \/ CacheSteps \/ (\E n \in Names : Insert(n) \/ Get(n))
    \/ (\E s \in Savers : AskSave(s) \/ DropCaller(s)) \/ Elapse \/ SetWall \/ Load

-----------------------------------------------------------------------------
\* Both limits hold after every admission, and a lease that was saved gives a
\* later process no more than what was left of it at the snapshot, unless the
\* wall clock has meanwhile been set back behind that snapshot.
CacheSound ==
    /\ Cardinality(DOMAIN entries) <= CapEntries
    /\ MapThenSumSet(LAMBDA n : entries[n].size, DOMAIN entries) <= CapBytes
    /\ wall >= disk.wall => \A n \in DOMAIN disk.rows : LoadedLeft(disk.rows[n]) <= disk.rows[n].left

\* An answer once served from an entry bounds every later one from it, whatever
\* the wall clock does in between; and a saved file is never replaced by an
\* older snapshot, although a caller's cancellation leaves its save running.
CacheForward ==
    [][ /\ \A n \in Names : (served'[n].serial = served[n].serial) => served'[n].until <= served[n].until
        /\ disk'.serial >= disk.serial ]_kvars

\* Every save ends and gives the lock back.
CacheQuiet == gate = {} /\ \A s \in Savers : saver[s].pc = "idle"
=============================================================================
