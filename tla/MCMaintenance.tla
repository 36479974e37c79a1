--------------------------- MODULE MCMaintenance ---------------------------
(* The instance of live bridge maintenance: one webtunnel and two obfs4      *)
(* bridges, under each kind of transport preference, with and without        *)
(* automatic fetching.                                                       *)
EXTENDS Maintenance

Want(transport, fetch, n) == [transport |-> transport, fetch |-> fetch, calls |-> n]
MCWants == {Want("webtunnel", TRUE, 2), Want("any", TRUE, 1), Want("obfs4", FALSE, 1)}

\* Upkeep is weakly fair: the loop is a task of a running executor, each wait in it has a
\* timeout, and the recheck interval's timer always fires.
MaintSpec == MaintInit(MCWants) /\ [][MaintNext]_maintvars /\ WF_maintvars(Upkeep)

\* The maintenance loop comes to rest: whatever was asked of it, and whichever passes
\* fail, it finishes the cycle, retries as its flags say and then only waits.
MaintSettles == <>[]MaintQuiet
=============================================================================
