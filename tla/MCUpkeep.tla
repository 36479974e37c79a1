------------------------------ MODULE MCUpkeep ------------------------------
(* The instance of the loops that keep bridges and channels usable: the      *)
(* health store with its feeds, the stale-channel watchdog, the failover     *)
(* watchdog and the warmer, and the Android warm pool.  They share no        *)
(* variable, so each initial state runs one of them and the others rest.     *)
EXTENDS HealthStore, Watchdog, Steering, WarmPool

MCGuard == [b \in {1, 2, 3} |-> IF b = 3 THEN "g2" ELSE "g1"]

upkeepvars == <<healthvars, watchvars, steervars, warmvars>>

UpkeepInit ==
    \/ HealthInit({"probe", "guard", "verify"}) /\ WatchInit(FALSE) /\ SteerInit({"rest"}) /\ WarmInit({"rest"})
    \/ HealthInit({"rest"}) /\ WatchInit(TRUE) /\ SteerInit({"rest"}) /\ WarmInit({"rest"})
    \/ HealthInit({"rest"}) /\ WatchInit(FALSE) /\ SteerInit({"failover", "warmer"}) /\ WarmInit({"rest"})
    \/ HealthInit({"rest"}) /\ WatchInit(FALSE) /\ SteerInit({"rest"}) /\ WarmInit({"rotate", "boot"})

UpkeepNext ==
    \/ HealthNext /\ UNCHANGED <<watchvars, steervars, warmvars>>
    \/ WatchNext /\ UNCHANGED <<healthvars, steervars, warmvars>>
    \/ SteerNext /\ UNCHANGED <<healthvars, watchvars, warmvars>>
    \/ WarmNext /\ UNCHANGED <<healthvars, watchvars, steervars>>

UpkeepSpec == UpkeepInit /\ [][UpkeepNext]_upkeepvars

\* The store's entries, spacing and selections are right whoever feeds it; the stale-channel
\* watchdog heals only without a success inside its window, the failover signals only on
\* a failure of this run, both within their cooldowns and budgets; the warm rotation holds and publishes only bridges that warmed.
UpkeepInv ==
    /\ feed # "rest" => HealthInv
    /\ WatchdogInv
    /\ loop # "rest" => SteeringInv
    /\ WarmPoolInv
=============================================================================
