------------------------------ MODULE UpdateLog ------------------------------
(***************************************************************************)
(* What the bridge health store promises its users, whoever they are: a    *)
(* file that every update is added to and no update ever disappears from.  *)
(* The angel (the serving process) may hold updates back in memory; while  *)
(* it does, nobody else writes, and a crash or a failed final flush is the *)
(* only way to lose what is held back.                                     *)
(***************************************************************************)
CONSTANT Updates

VARIABLES
    published,  \* the updates in the file
    pending     \* the updates the angel has accepted and not yet published

\* The file and what is held back are sets of updates.
TypeOK == published \subseteq Updates /\ pending \subseteq Updates

Init == published = {} /\ pending = {}

\* The angel accepts an update.
Absorb(u) ==
    /\ u \notin published \union pending
    /\ pending' = pending \union {u}
    /\ UNCHANGED published

\* The angel publishes some of what it holds.
Publish(s) ==
    /\ published' = published \union s
    /\ pending' = pending \ s

\* Another process adds its update to the file, never inside the window in
\* which the angel holds updates back.
Commit(u) ==
    /\ pending = {}
    /\ published' = published \union {u}
    /\ UNCHANGED pending

\* The angel dies, or gives up its final flush.
Lose ==
    /\ pending' = {}
    /\ UNCHANGED published

Next ==
    \/ \E u \in Updates : Absorb(u) \/ Commit(u)
    \/ \E s \in SUBSET pending : Publish(s)
    \/ Lose

Spec == Init /\ [][Next]_<<published, pending>>

=============================================================================
