------------------------------- MODULE MCEngine -------------------------------
(* The Android engine, the bridge checks of both platforms and the snapshot   *)
(* a check starts from.  They share no memory, only the files a snapshot      *)
(* copies, so every behaviour is about one of them and the others rest.       *)
EXTENDS Engine, Checks, TLC

VARIABLE about      \* which of them the behaviour is about, chosen at the start

-----------------------------------------------------------------------------
\* A configuration with every bound at zero.
Quiet == [bridges |-> FALSE, slice |-> FALSE, auto |-> FALSE,
          starts |-> 1, stops |-> 0, faults |-> 0, events |-> 0, ticks |-> 0, notes |-> 0]
Rests == Init /\ left = CHOOSE s \in Scenarios : TRUE

\* Stops and restarts around a direct bootstrap, with faults and progress events;
\* the bridge bootstrap with its wider pools and the rescue; a running engine's
\* tasks and the callers that write the store.
MCScenarios ==
    { [starts |-> 2, stops |-> 2, faults |-> 1] @@ Quiet,
      [starts |-> 1, stops |-> 2, events |-> 2] @@ Quiet,
      [bridges |-> TRUE, slice |-> TRUE, auto |-> TRUE, stops |-> 1, faults |-> 1, events |-> 1] @@ Quiet,
      [auto |-> TRUE, stops |-> 1, ticks |-> 1, notes |-> 1] @@ Quiet }

-----------------------------------------------------------------------------
MCStaleDirs == {<<"bridge-check", 0>>}
NoBatches == [batches |-> {}, lines |-> 0, pt |-> FALSE, pidfd |-> FALSE, unread |-> {}, engine |-> 0, spawns |-> 0]
MCBatches ==
    { \* pids reused under one check's sweep, whose reads may fail
      [batches |-> Ticks, lines |-> 1, pt |-> TRUE, pidfd |-> TRUE, unread |-> {"stat", "environ", "again"}, engine |-> 2, spawns |-> 2],
      \* two checks of a scan sweep beside each other
      [batches |-> {CHOOSE b \in Scans : TRUE}, lines |-> 2, pt |-> TRUE, pidfd |-> TRUE, unread |-> {}, engine |-> 0, spawns |-> 1],
      \* overlapping scans; no transport
      [batches |-> Scans, lines |-> 1, pt |-> FALSE, pidfd |-> TRUE, unread |-> {}, engine |-> 0, spawns |-> 0],
      \* a device without pidfd
      [batches |-> Ticks, lines |-> 2, pt |-> TRUE, pidfd |-> FALSE, unread |-> {"environ"}, engine |-> 1, spawns |-> 1] }

NoCalls == [calls |-> {}, rounds |-> {}, due |-> 0, abandons |-> 0, spawns |-> 0, panics |-> 0, main |-> 0, exits |-> 0, slips |-> 0]
MCCalls ==
    { \* two decisions wait for the verifier, one of them is abandoned
      [calls |-> Calls, rounds |-> {}, due |-> 0, abandons |-> 1, spawns |-> 0, panics |-> 1, main |-> 0, exits |-> 0, slips |-> 0],
      \* a decision whose deadline passes while a round runs
      [calls |-> {CHOOSE c \in Calls : TRUE}, rounds |-> {CHOOSE r \in Rounds : TRUE}, due |-> 2,
       abandons |-> 0, spawns |-> 1, panics |-> 1, main |-> 0, exits |-> 0, slips |-> 1],
      \* two rounds, the program's own transport and the end of the program
      [calls |-> {}, rounds |-> Rounds, due |-> 1, abandons |-> 0, spawns |-> 1, panics |-> 1, main |-> 1, exits |-> 1, slips |-> 1] }

\* They are among the scenarios of Checks.
ASSUME ScenariosAssumption ==
    /\ MCBatches \cup {NoBatches} \subseteq BatchScenarios
    /\ MCCalls \cup {NoCalls} \subseteq CallScenarios

-----------------------------------------------------------------------------
MCInit ==
    \/ about = "engine" /\ Init /\ VerifyInit({NoBatches}) /\ CliInit({NoCalls}) /\ SnapInit(0)
    \/ about = "scans" /\ Rests /\ VerifyInit(MCBatches) /\ CliInit({NoCalls}) /\ SnapInit(0)
    \/ about = "decisions" /\ Rests /\ VerifyInit({NoBatches}) /\ CliInit(MCCalls) /\ SnapInit(0)
    \/ about = "snapshots" /\ Rests /\ VerifyInit({NoBatches}) /\ CliInit({NoCalls}) /\ SnapInit(2)
allvars == <<vars, vvars, cvars, svars, about>>
MCNext ==
    \/ about = "engine" /\ Next /\ UNCHANGED <<vvars, cvars, svars, about>>
    \/ about = "scans" /\ VerifyNext /\ UNCHANGED <<vars, cvars, svars, about>>
    \/ about = "decisions" /\ CliNext /\ UNCHANGED <<vars, vvars, svars, about>>
    \/ about = "snapshots" /\ SnapNext /\ UNCHANGED <<vars, vvars, cvars, about>>
MCSteps ==
    \/ about = "engine" /\ Steps /\ UNCHANGED <<vvars, cvars, svars, about>>
    \/ about = "scans" /\ VerifySteps /\ UNCHANGED <<vars, cvars, svars, about>>
    \/ about = "decisions" /\ CliSteps /\ UNCHANGED <<vars, vvars, svars, about>>
    \/ about = "snapshots" /\ SnapSteps /\ UNCHANGED <<vars, vvars, cvars, about>>
\* Threads are scheduled, the timeouts of a check and of a decision elapse and
\* a backup's budget runs out: the work does not stand still while one of its steps
\* can be taken.  Nothing is assumed of children, panics or callers.
MCSpec == /\ MCInit /\ [][MCNext]_allvars
          /\ []<>~ENABLED MCSteps \/ []<><<TRUE>>_allvars
          /\ WF_allvars(about = "snapshots" /\ BudgetEnds /\ UNCHANGED <<vars, vvars, cvars, about>>)

-----------------------------------------------------------------------------
\* Every nativeStop returns and the engine it asked to stop is gone; every batch,
\* every worker and every snapshot comes to an end: no sweep, no wait for the
\* verifier lock and no growing database holds one for ever.
WorkEnds == <>[]CASE about = "engine" -> EngineQuiet
                 [] about = "scans" -> VerifyQuiet
                 [] about = "decisions" -> CliQuiet
                 [] about = "snapshots" -> SnapQuiet
=============================================================================
