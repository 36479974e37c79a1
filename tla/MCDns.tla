------------------------------- MODULE MCDns --------------------------------
(* The DNS server's lifecycle, its packet cache, its backends and its       *)
(* question statistics.  The lifecycle holds each of the others through one *)
(* call (save, resolve, shutdown), so each has scenarios of its own in      *)
(* which the others rest.                                                   *)
EXTENDS DnsStatistics, DnsServer, DnsCache, DnsBackend

One(S) == {CHOOSE x \in S : TRUE}

NoStatistics == [who |-> {}, questions |-> 0, valid |-> {TRUE}, clocks |-> 0, ticks |-> 0,
                 pages |-> 0, faults |-> 0, crashes |-> 0, starts |-> 0]
MCStatistics ==
    { \* two producers against shutdown, one fault
      [NoStatistics EXCEPT !.who = Producers, !.questions = 3, !.faults = 1, !.starts = 1],
      \* the clock set back across a crash
      [NoStatistics EXCEPT !.who = One(Producers), !.questions = 1, !.clocks = 2, !.crashes = 1, !.starts = 2],
      \* invalid questions, faults and a crash around a refresh
      [NoStatistics EXCEPT !.who = One(Producers), !.questions = 1, !.valid = BOOLEAN, !.ticks = 1,
                           !.faults = 1, !.crashes = 1, !.starts = 2],
      \* refreshes beside a cycle that still reads its generation
      [NoStatistics EXCEPT !.ticks = 4, !.pages = 1, !.faults = 1, !.starts = 1] }

NoServer == [on |-> FALSE, reach |-> {}, appear |-> FALSE, trouble |-> {}, statistics |-> FALSE,
             asks |-> 0, refreshes |-> 0, saves |-> 0]
MCServers ==
    { [on |-> TRUE, reach |-> Addresses, appear |-> FALSE, trouble |-> {}, statistics |-> TRUE,
       asks |-> 4, refreshes |-> 1, saves |-> 1],
      [on |-> TRUE, reach |-> One(Addresses), appear |-> TRUE, trouble |-> {"in_use", "denied", "other"},
       statistics |-> FALSE, asks |-> 2, refreshes |-> 0, saves |-> 1] }

NoCache == [names |-> {}, sizes |-> {}, savers |-> {}, late |-> 0, inserts |-> 0, saves |-> 0,
            clocks |-> 0, restarts |-> 0, seconds |-> 0, at |-> 0]
MCCaches ==
    { \* a lease through a clock that is set and a restart
      [NoCache EXCEPT !.names = One(Names), !.sizes = {1}, !.savers = One(Savers), !.late = 1, !.inserts = 1,
                      !.saves = 1, !.clocks = 2, !.restarts = 1, !.seconds = 2],
      \* eviction under both limits
      [NoCache EXCEPT !.names = Names, !.sizes = Sizes, !.inserts = 3, !.seconds = 2],
      \* overlapping saves of cancelled callers
      [NoCache EXCEPT !.names = One(Names), !.sizes = {1}, !.savers = Savers, !.inserts = 2, !.saves = 2, !.seconds = 1] }

NoLookup == [who |-> {}, routes |-> {}, drops |-> 0, changes |-> 0, configs |-> {<<>>},
             bound |-> {}, here |-> {}, recovers |-> {}, moves |-> 0, moving |-> {}]
MCLookups ==
    LET looped == CHOOSE s \in Loopback : TRUE
        deaf == CHOOSE s \in Deaf : TRUE
        own == CHOOSE s \in Servers \ (Loopback \cup Deaf) : TRUE
        other == CHOOSE s \in Servers \ (Loopback \cup Deaf) : s # own
    IN { \* the system's list changes; it names the host by loopback, by the route, or not
         [NoLookup EXCEPT !.who = Lookups, !.routes = {"system"}, !.drops = 1, !.changes = 1, !.bound = {Wildcard},
                          !.here = {own}, !.configs = {<<>>, <<other, looped>>, <<deaf, other, own>>, <<deaf, other, other>>}],
         [NoLookup EXCEPT !.who = One(Lookups), !.routes = {"server", "pool"}, !.drops = 1,
                          !.bound = {Wildcard}, !.here = {own}],
         \* a listener on the host's address, or on every address, is recovered between two lookups
         [NoLookup EXCEPT !.who = Lookups, !.routes = {"system"}, !.configs = {<<other, own>>}, !.recovers = {own}],
         [NoLookup EXCEPT !.who = One(Lookups), !.routes = {"system", "server"}, !.configs = {<<own, looped>>},
                          !.bound = {own}, !.recovers = {Wildcard}],
         \* the host gets or loses an address on the way
         [NoLookup EXCEPT !.who = One(Lookups), !.routes = {"system", "server"}, !.configs = {<<other, own>>},
                          !.bound = {Wildcard}, !.here = {own}, !.moves = 2, !.moving = {own, other}] }

ResolverInit ==
    \/ StatisticsInit(MCStatistics) /\ ServerInit({NoServer}) /\ CacheInit({NoCache}) /\ BackendInit({NoLookup})
    \/ StatisticsInit({NoStatistics}) /\ ServerInit(MCServers) /\ CacheInit({NoCache}) /\ BackendInit({NoLookup})
    \/ StatisticsInit({NoStatistics}) /\ ServerInit({NoServer}) /\ CacheInit(MCCaches) /\ BackendInit({NoLookup})
    \/ StatisticsInit({NoStatistics}) /\ ServerInit({NoServer}) /\ CacheInit({NoCache}) /\ BackendInit(MCLookups)
resolvervars == <<stvars, dvars, kvars, bvars>>
ResolverNext ==
    \/ StatisticsNext /\ UNCHANGED <<dvars, kvars, bvars>>
    \/ ServerNext /\ UNCHANGED <<stvars, kvars, bvars>>
    \/ CacheNext /\ UNCHANGED <<stvars, dvars, bvars>>
    \/ BackendNext /\ UNCHANGED <<stvars, dvars, kvars>>
Progress ==
    \/ StatisticsSteps /\ UNCHANGED <<dvars, kvars, bvars>>
    \/ ServerSteps /\ UNCHANGED <<stvars, kvars, bvars>>
    \/ CacheSteps /\ UNCHANGED <<stvars, dvars, bvars>>
    \/ BackendSteps /\ UNCHANGED <<stvars, dvars, kvars>>
\* The task and the store thread are scheduled, and deadlines end an exchange.
\* Nothing is assumed of questions, ticks, clocks, crashes or the host's addresses.
ResolverSpec == ResolverInit /\ [][ResolverNext]_resolvervars /\ WF_resolvervars(Progress)

\* What holds in every state of the four parts.
ResolverInv ==
    /\ Drained /\ LedgerSound /\ LeasesHold /\ Permits /\ GuardCoversLoops /\ StopsInOrder
    /\ CacheSound /\ OneRead /\ NoLoop /\ OrderedAnswer

\* What no step of theirs does: move the ledger, a saved file or the lifetime of
\* a served answer backwards, or refuse a miss for the sake of a refresh.
ResolverForward == LedgerForward /\ ForegroundFirst /\ CacheForward

\* The statistics worker is drained and joined after every stop, every save gives
\* its lock back, every lookup ends and releases the configuration read, and an
\* address that appears is served.
ResolverEnds == <>[](StatisticsQuiet /\ ServerQuiet /\ CacheQuiet /\ BackendQuiet)
=============================================================================
