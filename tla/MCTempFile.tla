----------------------------- MODULE MCTempFile -----------------------------
(* Small instances of TempFile for TLC: two writers that may pick one temp  *)
(* name and a reader that sweeps, or one writer whose Drop may have to do   *)
(* without the section and two readers that sweep.                          *)
EXTENDS TempFile

CONSTANTS SecondWriter, SecondCleaner
VARIABLE cast       \* which of the two the behaviour is about, chosen at the start

Degrading == INSTANCE TempFile WITH Collisions <- FALSE, Degraded <- TRUE

CastInit == Init /\ cast \in {"colliding", "degrading"}
CastSave(w) == /\ \/ cast = "colliding" /\ Save(w)
                  \/ cast = "degrading" /\ w # SecondWriter /\ Degrading!Save(w)
               /\ UNCHANGED cast
CastSweep(c) == (cast = "degrading" \/ c # SecondCleaner) /\ Sweep(c) /\ UNCHANGED cast
CastNext ==
    \/ \E w \in Writers : CastSave(w)
    \/ \E c \in Cleaners : CastSweep(c)
    \/ \E p \in Procs : Die(p) /\ UNCHANGED cast

\* The processes of the cast are scheduled.
CastSpec ==
    /\ CastInit /\ [][CastNext]_<<vars, cast>>
    /\ \A w \in Writers : WriterRuns(w)
    /\ \A c \in Cleaners : SweepRuns(c) \/ []<>(cast = "colliding" /\ c = SecondCleaner)
=============================================================================
