---------------------------- MODULE MCCandidatePool -------------------------
(* Small instances of CandidatePool for TLC.                               *)
EXTENDS CandidatePool, TLC

CONSTANTS a1, a2, b, c, other
\* a1 and a2 are two texts of one bridge (say, with another iat-mode).
MCKey == [l \in Lines |-> IF l \in {a1, a2} THEN a1 ELSE l]
MCLists == {<<a1, b>>}
MCListsLive == {<<other, a1, b, c>>, <<a2>>, << >>}

=============================================================================
