-------------------------------- MODULE Checks --------------------------------
(* The bridge checks: the batches of the Android engine, the decisions and   *)
(* rounds of the CLI and the snapshot of the cache that a check starts from. *)
(* They share no memory, only the files a snapshot copies.                   *)
EXTENDS BridgeVerify, CliVerify, CacheSnapshot

ChecksInit == VerifyInit(BatchScenarios) /\ CliInit(CallScenarios) /\ \E n \in Nat : SnapInit(n)
ChecksNext ==
    \/ VerifyNext /\ UNCHANGED <<cvars, svars>>
    \/ CliNext /\ UNCHANGED <<vvars, svars>>
    \/ SnapNext /\ UNCHANGED <<vvars, cvars>>
ChecksSpec == ChecksInit /\ [][ChecksNext]_<<vvars, cvars, svars>>

-----------------------------------------------------------------------------
\* What the two verifiers and the snapshot keep at every step: VerifyInv and
\* CliInv of their modules, and a snapshot whose tables are all of one moment.
ChecksInv == VerifyInv /\ CliInv /\ SnapTypeOK /\ SnapshotWhole
=============================================================================
