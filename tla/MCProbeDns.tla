----------------------------- MODULE MCProbeDns -----------------------------
(* ProbeDns and the provider race under it.  A lookup takes the outcome of  *)
(* its search as a choice, so the races run beside the lookups in a         *)
(* scenario of their own; the end of a flush resets the scores.             *)
EXTENDS ProbeDns, DohRace

CONSTANTS MaxSearches   \* searches of the scenario of races

MCBudgets ==
    LET doh == {[doh |-> TRUE, system |-> FALSE]}
        all == {p \in [doh : BOOLEAN, system : BOOLEAN] : p.doh \/ p.system}
    IN { [lookups |-> 3, flushes |-> 1, saves |-> 0, hints |-> 0, ticks |-> 1, restarts |-> 0,
          policies |-> doh],
         [lookups |-> 1, flushes |-> 1, saves |-> 2, hints |-> 0, ticks |-> 0, restarts |-> 0,
          policies |-> doh],
         [lookups |-> 1, flushes |-> 0, saves |-> 1, hints |-> 1, ticks |-> 2, restarts |-> 1,
          policies |-> all],
         [lookups |-> 0, flushes |-> 1, saves |-> 0, hints |-> 0, ticks |-> 0, restarts |-> 0,
          policies |-> {}] }

DnsInit == Init /\ RaceInit /\ todo = IF left.lookups = 0 THEN MaxSearches ELSE 0
DnsNext ==
    \/ Next /\ IF flush.gate /\ ~flush'.gate THEN ResetScores ELSE UNCHANGED rvars
    \/ RaceNext /\ UNCHANGED vars
\* The runtime keeps polling woken tasks and a lookup is bounded by its
\* provider's timeout: calls do not stand still while one of them can go on.
\* Nothing is assumed of cancellations, flushes or saves.  Calls are bounded,
\* so that some task runs is all the fairness needed.
DnsCalls ==
    \/ (\E t \in Tasks : Lookup(t) \/ Dialling(t)) /\ UNCHANGED rvars
    \/ (\E s \in Searches : Attempts(s) \/ Receive(s)) /\ UNCHANGED vars
DnsSpec ==
    /\ DnsInit /\ [][DnsNext]_<<vars, rvars>>
    /\ []<>~ENABLED DnsCalls \/ []<><<TRUE>>_<<vars, rvars>>

\* The invariants of the resolver and of the provider races it runs.
DnsInv == ResolverInv /\ RaceInv

\* Every lookup and every race comes to an end: a waiter is not left behind when
\* the task that searches for it is cancelled, and the attempts a race leaves
\* behind end although they compete for the slots with those of others.
DnsReturns == <>[](LookupsQuiet /\ RaceQuiet)
=============================================================================
