------------------------------- MODULE MCAuth -------------------------------
(* Small instances of Auth for TLC.                                        *)
EXTENDS Auth, TLC

CONSTANTS alice, bob
\* By symmetry alice is the one to claim; bob is absent, provisioned or init.
MCStartHashes == {alice :> Init_} \union {alice :> Init_ @@ bob :> h : h \in {Init_, Seed}}

=============================================================================
