----------------------------- MODULE ChecksProofs -----------------------------
(***************************************************************************)
(* Proofs about the bridge checks of both platforms, for any batches,      *)
(* decisions, rounds, pids, bridges and capacities.                        *)
(*                                                                         *)
(* CInv is the inductive invariant of the CLI.  A marker in use is         *)
(* registered, and a child that carries the marker of a batch past its     *)
(* sweep was spared by a sweep or is aimed at by one (Owned); the aims of  *)
(* a sweep and the children it spared are the marked ones, each aimed at   *)
(* once, and the aims know which pids changed hands (Aimed); a worker that *)
(* has started is tracked until the drain has joined it, and "verified" is     *)
(* sent only with the verdict that backs it (Awaited).  That of the        *)
(* Android batches is VInv of VerifyProofs, and that of a snapshot SInv.   *)
(*                                                                         *)
(* Each action of the CLI is first shown to be one of a few shapes of step *)
(* (Stepped, Born, Reduced) and each shape to keep the invariant.          *)
(*                                                                         *)
(* The last part is about the maintenance loop that chooses among the      *)
(* bridges (Maintenance), for any bridges, limits and preferences.         *)
(* MaintInv is its inductive invariant.  The bridges a cycle works on are  *)
(* bridges of the two transports, a set that is about to be handed to the  *)
(* client is not empty, and only a cycle between its route check and its   *)
(* choice keeps a route (Cycling).  A counter that reaches its limit is    *)
(* reset with its bridge (Counting), and a bell has its five parts         *)
(* (Belled).                                                               *)
(***************************************************************************)
EXTENDS Checks, Maintenance, VerifyProofs, TLAPS

(* The leaves are first-order and go to Zenon; those about numbers, records *)
(* or sequences say SMT.                                                   *)
USE Zenon

------------------------------------------------------------------------------
(* The snapshot.                                                            *)

SInv == /\ snap \in [pc : {"idle", "open", "backup", "wipe", "copy", "true", "false"}, db : DbStates,
                     side : BOOLEAN, stuck : BOOLEAN, todo : SUBSET Files, bounded : BOOLEAN, got : {"none", "more", "busy"},
                     turn : BOOLEAN]
        /\ live \in {"absent", "readable", "unreadable"} /\ late \in BOOLEAN /\ past \in BOOLEAN
        /\ snap.pc = "copy" => snap.db = "whole"
        /\ snap.pc \notin {"idle", "false"} => (snap.side => snap.stuck)
        /\ SnapshotWhole

\* What a snapshot call does keeps its invariant: the copying of the other
\* files starts from a whole database, and true is answered for that or none.
LEMMA SnapInitial == ASSUME NEW n, SnapInit(n) PROVE SInv
BY DEF SnapInit, SInv, Idle, DbStates, SnapshotWhole

LEMMA SnapKept == ASSUME SInv, [SnapNext]_svars PROVE SInv'
<1> USE DEF SInv, DbStates, SnapshotWhole
<1>1. CASE Prepare
  <2>1. \A sticks \in BOOLEAN : (snap.side /\ sticks) \in BOOLEAN OBVIOUS
  <2>2. PICK bounded \in BOOLEAN, side \in BOOLEAN :
          \/ snap' = [snap EXCEPT !.pc = "false", !.bounded = bounded]
          \/ snap' = [[snap EXCEPT !.bounded = bounded, !.side = side, !.stuck = side, !.db = "none", !.got = "none", !.turn = FALSE]
                      EXCEPT !.pc = IF live = "absent" THEN "true" ELSE "open"]
    BY <1>1, <2>1 DEF Prepare
  <2>3. live' = live /\ late' = FALSE /\ past' = FALSE /\ snap.pc = "idle" BY <1>1 DEF Prepare
  <2> QED BY <2>2, <2>3, ZenonT(60)
<1>2. CASE OpenLive BY <1>2, ZenonT(60) DEF OpenLive
<1>3. CASE BackupStep
  <2>1. (~snap.turn) \in BOOLEAN OBVIOUS
  <2>2. PICK turn \in BOOLEAN, got \in {"more", "busy"} :
          \/ snap' = [snap EXCEPT !.pc = "wipe"]
          \/ snap' = [snap EXCEPT !.pc = "copy", !.db = "whole", !.todo = Files]
          \/ snap' = [snap EXCEPT !.got = got, !.turn = turn]
    BY <1>3, <2>1 DEF BackupStep
  <2>3. live' = live /\ late' = late /\ past' = past /\ snap.pc = "backup" BY <1>3 DEF BackupStep
  <2> QED BY <2>2, <2>3, ZenonT(60)
<1>4. CASE WipeFailed BY <1>4, ZenonT(60) DEF WipeFailed
<1>5. CASE CopyRest BY <1>5, ZenonT(60) DEF CopyRest
<1>6. CASE Reuse BY <1>6 DEF Reuse
<1>7. CASE BudgetEnds BY <1>7, ZenonT(60) DEF BudgetEnds
<1>8. CASE DeadlinePasses BY <1>8, ZenonT(60) DEF DeadlinePasses
<1>9. CASE LiveAppears BY <1>9, SMT DEF LiveAppears
<1>10. CASE UNCHANGED svars BY <1>10, SMT DEF svars
<1> QED BY <1>1, <1>2, <1>3, <1>4, <1>5, <1>6, <1>7, <1>8, <1>9, <1>10 DEF SnapNext, SnapSteps

------------------------------------------------------------------------------
(* The decisions and rounds of the CLI.                                     *)

JobPcs == Inside \cup {"idle", "scratch", "lock", "ended", "panicked"}
Aims == [pid : CliPids, same : BOOLEAN]
JobRec == [pc : JobPcs, left : Nat, marker : BOOLEAN, expired : BOOLEAN, aims : SUBSET Aims,
           oks : Nat, verdict : BOOLEAN, sent : {"no", "failed", "verified", "refused"}]
CTyped ==
    /\ cleft \in CallScenarios /\ job \in [Jobs -> JobRec]
    /\ admission \in [Calls -> {"idle", "waiting", "failed", "verified", "refused", "deferred", "abandoned"}]
    /\ markers \in Seq(Jobs) /\ kids \in [CliPids -> Jobs \cup {NoJob, "pt"}]
    /\ drain \in {"open", "joining", "joined"}
\* The marker of the batch inside is registered; what carries a marker belongs
\* to that batch or to one that ended, and past the sweep of a batch that did not
\* panic it was spared or is aimed at.
Loose == {"run", "sweep", "kill", "panicked"}
Owned ==
    /\ \A j \in Jobs : job[j].marker => job[j].pc \in Inside /\ j \in Range(markers)
    /\ \A p \in CliPids : kids[p] \in Jobs => Ended(kids[p]) \/ job[kids[p]].marker
    /\ \A p \in CliPids : kids[p] \in Jobs /\ job[kids[p]].pc \notin Loose =>
         p \in spared \/ \E j \in Jobs : \E a \in job[j].aims : a.pid = p
\* The sweep has aimed at every marked child it did not fail on, once.
Aimed == \A j \in Jobs :
    /\ job[j].pc # "kill" => job[j].aims = {}
    /\ \A a, d \in job[j].aims : a.pid = d.pid => a = d
    /\ \A a \in job[j].aims : a.same => kids[a.pid] \in Range(markers)
    /\ \A p \in CliPids : job[j].pc = "kill" /\ kids[p] \in Range(markers) =>
         p \in spared \/ \E a \in job[j].aims : a.pid = p
Awaited ==
    /\ \A c \in Calls : admission[c] = "idle" <=> job[c].pc = "idle"
    /\ \A c \in Calls : drain # "joined" /\ job[c].pc # "idle" => c \in tracked
    /\ \A j \in Jobs : job[j].sent = "verified" => job[j].verdict /\ Ended(j)
    /\ \A c \in Calls : admission[c] = "verified" => job[c].sent = "verified"
CInv == CTyped /\ Owned /\ Aimed /\ Awaited /\ CliInv

LEMMA MarkersAreJobs == ASSUME markers \in Seq(Jobs) PROVE Range(markers) \subseteq Jobs
BY SMT DEF Range

LEMMA MarkerRegistered ==
    ASSUME markers \in Seq(Jobs), NEW j \in Jobs
    PROVE Registered(j) \in Seq(Jobs) /\ j \in Range(Registered(j))
<1>1. CASE j \in Range(markers) BY <1>1 DEF Registered
<1>2. CASE j \notin Range(markers) /\ Len(markers) = MarkersCap
  <2>1. markers # <<>> BY <1>2, CliAssumption
  <2>2. Tail(markers) \in Seq(Jobs) BY <2>1, SMT
  <2> DEFINE t == Tail(markers)
  <2> HIDE DEF t
  <2>3. Append(t, j) \in Seq(Jobs) /\ Append(t, j)[Len(t) + 1] = j /\ Len(t) + 1 \in DOMAIN Append(t, j) BY <2>2, SMT DEF t
  <2>4. Registered(j) = Append(t, j) BY <1>2 DEF Registered, t
  <2> QED BY <2>3, <2>4 DEF Range
<1>3. CASE j \notin Range(markers) /\ Len(markers) # MarkersCap
  <2>1. Registered(j) = Append(markers, j) BY <1>3 DEF Registered
  <2>2. /\ Append(markers, j) \in Seq(Jobs) /\ Append(markers, j)[Len(markers) + 1] = j
        /\ Len(markers) + 1 \in DOMAIN Append(markers, j)
    BY SMT
  <2> QED BY <2>1, <2>2 DEF Range
<1> QED BY <1>1, <1>2, <1>3

LEMMA JobSet ==
    ASSUME CTyped, NEW j \in Jobs, NEW r \in JobRec, SetJob(j, r)
    PROVE job' \in [Jobs -> JobRec] /\ \A i \in Jobs : job'[i] = IF i = j THEN r ELSE job[i]
BY DEF CTyped, SetJob

\* What Aimed says of one job.
AimsWell(r, pids, names, left) ==
    /\ r.pc # "kill" => r.aims = {}
    /\ \A a, d \in r.aims : a.pid = d.pid => a = d
    /\ \A a \in r.aims : a.same => pids[a.pid] \in names
    /\ \A p \in CliPids : r.pc = "kill" /\ pids[p] \in names => p \in left \/ \E a \in r.aims : a.pid = p

\* A worker that has not ended goes on: it takes or releases the lock with its
\* way in and out, has its marker registered and loses no child that carries it.
Stepped(j, r) ==
    /\ SetJob(j, r) /\ r \in JobRec /\ ~Ended(j) /\ (j \in Calls => job[j].pc # "idle") /\ r.pc # "idle"
    /\ UNCHANGED <<admission, tracked, drain, kids, hits>> /\ cleft' \in CallScenarios
    /\ \/ verifyLock' = verifyLock /\ (r.pc \in Inside <=> job[j].pc \in Inside)
       \/ verifyLock = NoJob /\ verifyLock' = j /\ r.pc \in Inside
       \/ verifyLock = j /\ verifyLock' = NoJob /\ r.pc \notin Inside
    /\ markers' \in Seq(Jobs) /\ ((markers' = markers /\ spared' = spared) \/ verifyLock = j)
    /\ r.marker => r.pc \in Inside /\ j \in Range(markers')
    /\ \A p \in CliPids : kids[p] = j => (r.pc \in {"ended", "panicked"} \/ r.marker) /\ (r.pc \notin Loose => p \in spared')
    /\ \A p \in CliPids : p \in spared \/ (\E a \in job[j].aims : a.pid = p) =>
                              p \in spared' \/ \E a \in r.aims : a.pid = p
    /\ r.pc = "tell" => \A p \in CliPids : kids[p] \in Range(markers') => p \in spared'
    /\ AimsWell(r, kids, Range(markers'), spared')
    /\ r.sent = "verified" => r.verdict /\ r.pc \in {"ended", "panicked"}

LEMMA SteppedKeeps == ASSUME CInv, NEW j \in Jobs, NEW r, Stepped(j, r) PROVE CInv'
<1>1. CTyped /\ Owned /\ Aimed /\ Awaited /\ OneBatch /\ Reaped /\ DrainOwnsWorkers BY DEF CInv, CliInv
<1>2. /\ r \in JobRec /\ ~Ended(j) /\ (j \in Calls => job[j].pc # "idle") /\ r.pc # "idle"
      /\ UNCHANGED <<admission, tracked, drain, kids, hits>> /\ cleft' \in CallScenarios
      /\ markers' \in Seq(Jobs) /\ ((markers' = markers /\ spared' = spared) \/ verifyLock = j)
  BY DEF Stepped
<1>3. job' \in [Jobs -> JobRec] /\ \A i \in Jobs : job'[i] = IF i = j THEN r ELSE job[i]
  BY <1>1, JobSet, ZenonT(60) DEF Stepped
<1>4. job'[j] = r /\ \A i \in Jobs : i # j => job'[i] = job[i] BY <1>3
<1>5. \A i \in Jobs : Ended(i) => i # j /\ Ended(i)' BY <1>2, <1>4 DEF Ended
<1>6. \A i \in Jobs : i # j /\ verifyLock = j => job[i].pc \notin Inside BY <1>1 DEF OneBatch
<1>7. CTyped' BY <1>1, <1>2, <1>3 DEF CTyped
<1>8. Owned'
  <2>1. r.marker => r.pc \in Inside /\ j \in Range(markers') BY DEF Stepped
  <2>2. \A i \in Jobs : i # j /\ job[i].marker => job[i].pc \in Inside /\ i \in Range(markers')
    BY <1>1, <1>2, <1>6 DEF Owned
  <2>3. \A i \in Jobs : job'[i].marker => job'[i].pc \in Inside /\ i \in Range(markers') BY <2>1, <2>2, <1>4
  <2>4. ASSUME NEW p \in CliPids, kids[p] \in Jobs PROVE Ended(kids[p])' \/ job'[kids[p]].marker
    <3>1. CASE kids[p] = j BY <3>1, <1>2, <1>4 DEF Stepped, Ended
    <3>2. CASE kids[p] # j BY <3>2, <2>4, <1>1, <1>2, <1>4 DEF Owned, Ended
    <3> QED BY <3>1, <3>2
  <2>5. ASSUME NEW p \in CliPids, kids[p] \in Jobs, job'[kids[p]].pc \notin Loose
        PROVE p \in spared' \/ \E i \in Jobs : \E a \in job'[i].aims : a.pid = p
    <3>1. CASE kids[p] = j BY <3>1, <2>5, <1>4 DEF Stepped
    <3>2. CASE kids[p] # j
      <4>1. p \in spared \/ \E i \in Jobs : \E a \in job[i].aims : a.pid = p BY <3>2, <2>5, <1>1, <1>4 DEF Owned
      <4>2. CASE p \in spared \/ \E a \in job[j].aims : a.pid = p
        <5>1. p \in spared' \/ \E a \in r.aims : a.pid = p BY <4>2 DEF Stepped
        <5> QED BY <5>1, <1>4
      <4>3. CASE \E i \in Jobs : i # j /\ \E a \in job[i].aims : a.pid = p BY <4>3, <1>4
      <4> QED BY <4>1, <4>2, <4>3
    <3> QED BY <3>1, <3>2
  <2>6. \A i \in Jobs : Ended(i)' <=> job'[i].pc \in {"ended", "panicked"} BY DEF Ended
  <2> QED BY <2>3, <2>4, <2>5, <2>6, <1>2 DEF Owned
<1>9. Aimed'
  <2>1. AimsWell(r, kids, Range(markers'), spared') BY DEF Stepped
  <2>2. ASSUME NEW i \in Jobs, i # j PROVE AimsWell(job'[i], kids, Range(markers'), spared')
    <3>1. AimsWell(job[i], kids, Range(markers), spared) BY <1>1 DEF Aimed, AimsWell
    <3>2. CASE markers' = markers /\ spared' = spared BY <3>1, <3>2, <2>2, <1>2, <1>4 DEF AimsWell
    <3>3. CASE verifyLock = j
      <4>1. job[i].pc # "kill" BY <3>3, <2>2, <1>6 DEF Inside
      <4> QED BY <4>1, <3>1, <2>2, <1>4 DEF AimsWell
    <3> QED BY <3>2, <3>3, <1>2
  <2>3. AimsWell(job'[j], kids, Range(markers'), spared') BY <2>1, <1>4 DEF AimsWell
  <2> QED BY <2>2, <2>3, <1>2 DEF Aimed, AimsWell
<1>10. Awaited'
  <2>1. \A i \in Jobs : job'[i].sent = "verified" => job'[i].verdict /\ Ended(i)'
    BY <1>1, <1>4, <1>5, ZenonT(60) DEF Awaited, Stepped, Ended
  <2>2. \A c \in Calls : c \in Jobs BY DEF Jobs
  <2>3. \A c \in Calls : /\ admission[c] = "idle" <=> job'[c].pc = "idle"
                         /\ drain # "joined" /\ job'[c].pc # "idle" => c \in tracked
                         /\ admission[c] = "verified" => job'[c].sent = "verified"
    <3>1. \A c \in Calls : admission[c] = "verified" => c # j BY <1>1, <1>2, <2>2 DEF Awaited
    <3> QED BY <3>1, <2>2, <1>1, <1>2, <1>4, ZenonT(60) DEF Awaited
  <2> QED BY <2>1, <2>3, <1>2 DEF Awaited
<1>11. OneBatch'
  <2>1. \A i \in Jobs : job'[i].pc \in Inside <=> verifyLock' = i
    <3>1. \A i \in Jobs : job[i].pc \in Inside <=> verifyLock = i BY <1>1 DEF OneBatch
    <3>2. NoJob \notin Jobs BY CliAssumption
    <3>3. \/ verifyLock' = verifyLock /\ (r.pc \in Inside <=> job[j].pc \in Inside)
          \/ verifyLock = NoJob /\ verifyLock' = j /\ r.pc \in Inside
          \/ verifyLock = j /\ verifyLock' = NoJob /\ r.pc \notin Inside
      BY DEF Stepped
    <3> QED BY <3>1, <3>2, <3>3, <1>4
  <2>2. \A h \in hits : h.same => h.name \in Jobs /\ (h.name = h.by \/ Ended(h.name)') BY <1>1, <1>5 DEF OneBatch
  <2> QED BY <2>1, <2>2, <1>2 DEF OneBatch, Ended
<1>12. Reaped'
  <2>1. \A p \in CliPids : kids[p] \in Jobs /\ job'[kids[p]].pc = "ended" =>
                              p \in spared' \/ \E i \in Jobs : \E a \in job'[i].aims : a.pid = p
    BY <1>2, <1>8 DEF Owned, Loose
  <2>2. ASSUME NEW i \in Jobs, job'[i].pc = "tell", NEW p \in CliPids, kids[p] \in Range(markers') PROVE p \in spared'
    <3>1. CASE i = j BY <2>2, <3>1, <1>4 DEF Stepped
    <3>2. CASE i # j
      <4>1. job[i].pc = "tell" BY <2>2, <3>2, <1>4
      <4>2. markers' = markers /\ spared' = spared BY <4>1, <3>2, <1>2, <1>6 DEF Inside
      <4> QED BY <4>1, <4>2, <2>2, <1>1 DEF Reaped, Marked
    <3> QED BY <3>1, <3>2
  <2> QED BY <2>1, <2>2, <1>2 DEF Reaped, Marked
<1>13. DrainOwnsWorkers'
  <2>1. \A c \in Calls : c \in Jobs BY DEF Jobs
  <2>2. drain = "joined" => j \notin Calls BY <1>1, <1>2 DEF DrainOwnsWorkers, Ended
  <2>3. drain = "joined" => \A c \in Calls : job'[c].pc \in {"idle", "ended", "panicked"}
    BY <2>1, <2>2, <1>1, <1>4 DEF DrainOwnsWorkers
  <2>4. \A c \in Calls : admission[c] = "verified" => job'[c].verdict BY <2>1, <1>2, <1>10 DEF Awaited
  <2> QED BY <2>3, <2>4, <1>2 DEF DrainOwnsWorkers
<1> QED BY <1>7, <1>8, <1>9, <1>10, <1>11, <1>12, <1>13 DEF CInv, CliInv

LEMMA JobFacts ==
    ASSUME CInv, NEW j \in Jobs
    PROVE /\ job[j] \in JobRec /\ markers \in Seq(Jobs) /\ cleft \in CallScenarios
          /\ job[j].marker => job[j].pc \in Inside /\ j \in Range(markers)
          /\ \A p \in CliPids : kids[p] = j => Ended(j) \/ job[j].marker
          /\ \A p \in CliPids : kids[p] = j /\ job[j].pc \notin Loose /\ ~Ended(j) => p \in spared
          /\ AimsWell(job[j], kids, Range(markers), spared) /\ (job[j].sent = "verified" => job[j].verdict /\ Ended(j))
          /\ job[j].pc \in Inside <=> verifyLock = j
<1>1. CTyped /\ Owned /\ Aimed /\ Awaited /\ OneBatch BY DEF CInv, CliInv
<1>2. ASSUME NEW p \in CliPids, kids[p] = j, job[j].pc \notin Loose, ~Ended(j) PROVE p \in spared
  <2>1. p \in spared \/ \E i \in Jobs : \E a \in job[i].aims : a.pid = p BY <1>1, <1>2 DEF Owned
  <2>2. verifyLock = j BY <1>1, <1>2 DEF Owned, OneBatch
  <2>3. ASSUME NEW i \in Jobs, job[i].aims # {} PROVE FALSE
    <3>1. job[i].pc = "kill" BY <1>1, <2>3 DEF Aimed
    <3>2. i = j BY <3>1, <2>2, <1>1 DEF OneBatch, Inside
    <3> QED BY <3>1, <3>2, <1>2 DEF Loose
  <2> QED BY <2>1, <2>3
<1>3. AimsWell(job[j], kids, Range(markers), spared) BY <1>1 DEF Aimed, AimsWell
<1> QED BY <1>1, <1>2, <1>3, ZenonT(60) DEF CTyped, Owned, Awaited, OneBatch

LEMMA SlipTyped ==
    ASSUME cleft \in CallScenarios, Slip \/ UNCHANGED cleft PROVE cleft' \in CallScenarios
<1>1. CASE Slip BY <1>1, SMTT(30) DEF Slip, CallScenarios
<1> QED BY <1>1

\* What a worker leaves behind when it ends or panics.
LEMMA SendsIs ==
    ASSUME CInv, NEW j \in Jobs, NEW pc \in {"ended", "panicked"}, NEW verdict \in BOOLEAN
    PROVE LET r == Sends(j, pc, verdict)
          IN /\ r \in JobRec /\ r.pc = pc /\ ~r.marker /\ r.aims = {}
             /\ r.sent = "verified" => r.verdict
<1>1. job[j].expired \in BOOLEAN BY JobFacts DEF JobRec
<1> QED BY <1>1 DEF Sends, JobIdle, JobRec, JobPcs

LEMMA ScratchSteps ==
    ASSUME CInv, NEW c \in Jobs, MakeScratch(c) PROVE \E r : Stepped(c, r)
<1>1. /\ job[c] \in JobRec /\ job[c].pc = "scratch" /\ markers \in Seq(Jobs) /\ cleft \in CallScenarios
      /\ UNCHANGED <<cleft, verifyLock, admission, tracked, drain, markers, kids, hits, spared>>
  BY JobFacts DEF MakeScratch
<1>2. ~job[c].marker /\ job[c].aims = {} /\ ~Ended(c) /\ job[c].sent # "verified" /\ \A p \in CliPids : kids[p] # c
  BY <1>1, JobFacts DEF Inside, Ended, AimsWell
<1>3. CASE SetJob(c, [job[c] EXCEPT !.pc = "lock"])
  <2> DEFINE r == [job[c] EXCEPT !.pc = "lock"]
  <2>1. r \in JobRec /\ r.pc = "lock" /\ ~r.marker /\ r.aims = {} /\ r.sent # "verified" BY <1>1, <1>2 DEF JobRec, JobPcs
  <2>2. AimsWell(r, kids, Range(markers'), spared') BY <2>1 DEF AimsWell
  <2> QED BY <1>1, <1>2, <1>3, <2>1, <2>2 DEF Stepped, Inside, Loose
<1>4. CASE SetJob(c, Sends(c, "ended", FALSE))
  <2> DEFINE r == Sends(c, "ended", FALSE)
  <2>1. r \in JobRec /\ r.pc = "ended" /\ ~r.marker /\ r.aims = {} /\ (r.sent = "verified" => r.verdict) BY SendsIs
  <2> HIDE DEF r
  <2>2. AimsWell(r, kids, Range(markers'), spared') BY <2>1 DEF AimsWell
  <2>3. SetJob(c, r) BY <1>4 DEF r
  <2> QED BY <1>1, <1>2, <2>1, <2>2, <2>3 DEF Stepped, Inside, Loose
<1> QED BY <1>3, <1>4 DEF MakeScratch

LEMMA LockSteps ==
    ASSUME CInv, NEW j \in Jobs, TakeVerifyLock(j) PROVE \E r : Stepped(j, r)
<1>1. /\ job[j] \in JobRec /\ job[j].pc = "lock" /\ markers \in Seq(Jobs) /\ cleft \in CallScenarios
      /\ UNCHANGED <<cleft, admission, tracked, drain, markers, kids, hits, spared>>
  BY JobFacts DEF TakeVerifyLock
<1>2. ~job[j].marker /\ job[j].aims = {} /\ ~Ended(j) /\ job[j].sent # "verified" /\ \A p \in CliPids : kids[p] # j
  BY <1>1, JobFacts DEF Inside, Ended, AimsWell
<1>3. CASE verifyLock = NoJob /\ verifyLock' = j /\ SetJob(j, [job[j] EXCEPT !.pc = "snap"])
  <2> DEFINE r == [job[j] EXCEPT !.pc = "snap"]
  <2>1. r \in JobRec /\ r.pc = "snap" /\ ~r.marker /\ r.aims = {} /\ r.sent # "verified"
    BY <1>1, <1>2 DEF JobRec, JobPcs, Inside
  <2>2. AimsWell(r, kids, Range(markers'), spared') BY <2>1 DEF AimsWell
  <2> QED BY <1>1, <1>2, <1>3, <2>1, <2>2 DEF Stepped, Inside, Loose
<1>4. CASE SetJob(j, Sends(j, "ended", FALSE)) /\ UNCHANGED verifyLock
  <2> DEFINE r == Sends(j, "ended", FALSE)
  <2>1. r \in JobRec /\ r.pc = "ended" /\ ~r.marker /\ r.aims = {} /\ (r.sent = "verified" => r.verdict) BY SendsIs
  <2> HIDE DEF r
  <2>2. AimsWell(r, kids, Range(markers'), spared') BY <2>1 DEF AimsWell
  <2>3. SetJob(j, r) BY <1>4 DEF r
  <2> QED BY <1>1, <1>2, <1>4, <2>1, <2>2, <2>3, ZenonT(60) DEF Stepped, Inside, Loose
<1> QED BY <1>3, <1>4 DEF TakeVerifyLock

LEMMA SnapshotSteps ==
    ASSUME CInv, NEW j \in Jobs, SnapshotTaken(j) PROVE \E r : Stepped(j, r)
<1> DEFINE r == [job[j] EXCEPT !.pc = "mark"]
<1>1. /\ job[j] \in JobRec /\ job[j].pc = "snap" /\ markers \in Seq(Jobs) /\ cleft \in CallScenarios /\ SetJob(j, r)
      /\ UNCHANGED <<cleft, verifyLock, admission, tracked, drain, markers, kids, hits, spared>>
  BY JobFacts DEF SnapshotTaken
<1>2. /\ job[j].aims = {} /\ ~Ended(j) /\ job[j].sent # "verified" /\ (job[j].marker => j \in Range(markers))
      /\ \A p \in CliPids : kids[p] = j => job[j].marker /\ p \in spared
  BY <1>1, JobFacts DEF Ended, AimsWell, Loose
<1>3. r \in JobRec /\ r.pc = "mark" /\ r.marker = job[j].marker /\ r.aims = {} /\ r.sent # "verified"
  BY <1>1, <1>2 DEF JobRec, JobPcs, Inside
<1>4. AimsWell(r, kids, Range(markers'), spared') BY <1>3 DEF AimsWell
<1> QED BY <1>1, <1>2, <1>3, <1>4 DEF Stepped, Inside, Loose

LEMMA MarkerSteps ==
    ASSUME CInv, NEW j \in Jobs, MakeMarker(j) PROVE \E r : Stepped(j, r)
<1>1. /\ job[j] \in JobRec /\ job[j].pc = "mark" /\ markers \in Seq(Jobs) /\ cleft \in CallScenarios
      /\ UNCHANGED <<cleft, verifyLock, admission, tracked, drain, kids, hits, spared>>
  BY JobFacts DEF MakeMarker
<1>2. /\ job[j].aims = {} /\ ~Ended(j) /\ job[j].sent # "verified" /\ (job[j].marker => j \in Range(markers))
      /\ (\A p \in CliPids : kids[p] = j => job[j].marker /\ p \in spared) /\ verifyLock = j
  BY <1>1, JobFacts DEF Ended, AimsWell, Inside, Loose
<1>3. CASE markers' = Registered(j) /\ SetJob(j, [job[j] EXCEPT !.pc = "next", !.marker = TRUE])
  <2> DEFINE r == [job[j] EXCEPT !.pc = "next", !.marker = TRUE]
  <2>1. r \in JobRec /\ r.pc = "next" /\ r.aims = {} /\ r.sent # "verified" BY <1>1, <1>2 DEF JobRec, JobPcs, Inside
  <2>2. AimsWell(r, kids, Range(markers'), spared') BY <2>1 DEF AimsWell
  <2>3. markers' \in Seq(Jobs) /\ j \in Range(markers') BY <1>1, <1>3, MarkerRegistered
  <2>4. SetJob(j, r) /\ r.marker BY <1>1, <1>3 DEF JobRec
  <2> HIDE DEF r
  <2> QED BY <1>1, <1>2, <2>1, <2>2, <2>3, <2>4, ZenonT(60) DEF Stepped, Inside, Loose
<1>4. CASE SetJob(j, [job[j] EXCEPT !.pc = "next"]) /\ UNCHANGED markers
  <2> DEFINE r == [job[j] EXCEPT !.pc = "next"]
  <2>1. r \in JobRec /\ r.pc = "next" /\ r.marker = job[j].marker /\ r.aims = {} /\ r.sent # "verified"
    BY <1>1, <1>2 DEF JobRec, JobPcs, Inside
  <2>2. AimsWell(r, kids, Range(markers'), spared') BY <2>1 DEF AimsWell
  <2> QED BY <1>1, <1>2, <1>4, <2>1, <2>2 DEF Stepped, Inside, Loose
<1> QED BY <1>3, <1>4 DEF MakeMarker

LEMMA NextSteps ==
    ASSUME CInv, NEW j \in Jobs, NextBridge(j) PROVE \E r : Stepped(j, r)
<1>1. /\ job[j] \in JobRec /\ job[j].pc = "next" /\ markers \in Seq(Jobs) /\ cleft \in CallScenarios
      /\ UNCHANGED <<cleft, admission, tracked, drain, markers, kids, hits, spared>>
  BY JobFacts DEF NextBridge
<1>2. /\ job[j].aims = {} /\ ~Ended(j) /\ job[j].sent # "verified" /\ (job[j].marker => j \in Range(markers))
      /\ (\A p \in CliPids : kids[p] = j => job[j].marker /\ p \in spared) /\ verifyLock = j
  BY <1>1, JobFacts DEF Ended, AimsWell, Inside, Loose
<1>3. CASE verifyLock' = NoJob /\ SetJob(j, Sends(j, "ended", job[j].oks > 0))
  <2>0. (job[j].oks > 0) = TRUE \/ (job[j].oks > 0) = FALSE BY <1>1, SMT DEF JobRec
  <2>1. PICK v \in BOOLEAN : v = (job[j].oks > 0) BY <2>0
  <2> DEFINE r == Sends(j, "ended", v)
  <2>2. r \in JobRec /\ r.pc = "ended" /\ ~r.marker /\ r.aims = {} /\ (r.sent = "verified" => r.verdict) BY SendsIs
  <2>3. SetJob(j, r) BY <1>3, <2>1
  <2> HIDE DEF r
  <2>4. AimsWell(r, kids, Range(markers'), spared') BY <2>2 DEF AimsWell
  <2> QED BY <1>1, <1>2, <1>3, <2>2, <2>3, <2>4 DEF Stepped, Inside, Loose
<1>4. CASE job[j].left > 0 /\ SetJob(j, [job[j] EXCEPT !.left = @ - 1]) /\ UNCHANGED verifyLock
  <2> DEFINE r == [job[j] EXCEPT !.left = @ - 1]
  <2>1. r \in JobRec /\ r.pc = "next" /\ r.marker = job[j].marker /\ r.aims = {} /\ r.sent # "verified"
    BY <1>1, <1>2, <1>4, SMTT(30) DEF JobRec
  <2>2. AimsWell(r, kids, Range(markers'), spared') BY <2>1 DEF AimsWell
  <2> QED BY <1>1, <1>2, <1>4, <2>1, <2>2 DEF Stepped, Inside, Loose
<1>5. CASE job[j].left > 0 /\ SetJob(j, [job[j] EXCEPT !.left = @ - 1, !.pc = "run"]) /\ UNCHANGED verifyLock
  <2> DEFINE r == [job[j] EXCEPT !.left = @ - 1, !.pc = "run"]
  <2>0. job[j].left - 1 \in Nat BY <1>1, <1>5, SMT DEF JobRec
  <2>1. r \in JobRec /\ r.pc = "run" /\ r.marker = job[j].marker /\ r.aims = {} /\ r.sent # "verified"
    BY <1>1, <1>2, <2>0 DEF JobRec, JobPcs, Inside
  <2>2. AimsWell(r, kids, Range(markers'), spared') BY <2>1 DEF AimsWell
  <2> QED BY <1>1, <1>2, <1>5, <2>1, <2>2 DEF Stepped, Inside, Loose
<1> QED BY <1>3, <1>4, <1>5 DEF NextBridge

LEMMA CheckEndSteps ==
    ASSUME CInv, NEW j \in Jobs, CheckEnds(j) PROVE \E r : Stepped(j, r)
<1>1. /\ job[j] \in JobRec /\ job[j].pc = "run" /\ markers \in Seq(Jobs) /\ cleft \in CallScenarios
      /\ UNCHANGED <<cleft, verifyLock, admission, tracked, drain, markers, kids, hits, spared>>
  BY JobFacts DEF CheckEnds
<1>2. PICK ok \in BOOLEAN : SetJob(j, [job[j] EXCEPT !.pc = "sweep", !.verdict = ok]) BY DEF CheckEnds
<1> DEFINE r == [job[j] EXCEPT !.pc = "sweep", !.verdict = ok]
<1>3. /\ job[j].aims = {} /\ ~Ended(j) /\ job[j].sent # "verified" /\ (job[j].marker => j \in Range(markers))
      /\ \A p \in CliPids : kids[p] = j => job[j].marker
  BY <1>1, JobFacts DEF Ended, AimsWell, Loose
<1>4. r \in JobRec /\ r.pc = "sweep" /\ r.marker = job[j].marker /\ r.aims = {} /\ r.sent # "verified"
  BY <1>1, <1>3 DEF JobRec, JobPcs, Inside
<1>5. AimsWell(r, kids, Range(markers'), spared') BY <1>4 DEF AimsWell
<1> QED BY <1>1, <1>2, <1>3, <1>4, <1>5 DEF Stepped, Inside, Loose

LEMMA PanicSteps ==
    ASSUME CInv, NEW j \in Jobs, CheckPanics(j) PROVE \E r : Stepped(j, r)
<1> DEFINE r == Sends(j, "panicked", FALSE)
<1>1. /\ job[j] \in JobRec /\ job[j].pc = "run" /\ markers \in Seq(Jobs) /\ cleft \in CallScenarios /\ cleft.panics > 0
      /\ cleft' = [cleft EXCEPT !.panics = @ - 1] /\ SetJob(j, r) /\ verifyLock' = NoJob
      /\ UNCHANGED <<admission, tracked, drain, markers, kids, hits, spared>>
  BY JobFacts DEF CheckPanics
<1>2. cleft' \in CallScenarios BY <1>1, SMTT(30) DEF CallScenarios
<1>3. ~Ended(j) /\ verifyLock = j /\ job[j].aims = {} BY <1>1, JobFacts DEF Ended, Inside, AimsWell
<1>4. r \in JobRec /\ r.pc = "panicked" /\ ~r.marker /\ r.aims = {} /\ (r.sent = "verified" => r.verdict) BY SendsIs
<1> HIDE DEF r
<1>5. AimsWell(r, kids, Range(markers'), spared') BY <1>4 DEF AimsWell
<1> QED BY <1>1, <1>2, <1>3, <1>4, <1>5 DEF Stepped, Inside, Loose

\* The listing names every child that carries a registered marker, or spares it.
LEMMA SeeSteps ==
    ASSUME CInv, NEW j \in Jobs, SeeMarked(j) PROVE \E r : Stepped(j, r)
<1>0. PICK unseen \in SUBSET Marked :
        /\ IF unseen = {} THEN UNCHANGED cleft ELSE Slip
        /\ SetJob(j, [job[j] EXCEPT !.pc = "kill", !.aims = {[pid |-> p, same |-> TRUE] : p \in Marked \ unseen}])
        /\ spared' = (spared \ Marked) \cup unseen
  BY DEF SeeMarked
<1> DEFINE seen == {[pid |-> p, same |-> TRUE] : p \in Marked \ unseen}
           r == [job[j] EXCEPT !.pc = "kill", !.aims = seen]
<1>1. /\ job[j] \in JobRec /\ job[j].pc = "sweep" /\ markers \in Seq(Jobs) /\ SetJob(j, r)
      /\ UNCHANGED <<verifyLock, admission, tracked, drain, markers, kids, hits>> /\ verifyLock = j
  BY <1>0, JobFacts DEF SeeMarked, Inside
<1>a. cleft' \in CallScenarios BY <1>0, SlipTyped, JobFacts
<1>b. job[j].aims = {} BY <1>1, JobFacts DEF AimsWell
<1>2. /\ ~Ended(j) /\ job[j].sent # "verified" /\ (job[j].marker => j \in Range(markers))
      /\ \A p \in CliPids : kids[p] = j => job[j].marker
  BY <1>1, JobFacts DEF Ended
<1>3. /\ \A a \in seen : \E p \in CliPids : kids[p] \in Range(markers) /\ a = [pid |-> p, same |-> TRUE]
      /\ \A p \in CliPids : kids[p] \in Range(markers) /\ p \notin spared' => [pid |-> p, same |-> TRUE] \in seen
      /\ \A p \in CliPids : p \in spared /\ p \notin spared' => [pid |-> p, same |-> TRUE] \in seen
  BY <1>0 DEF Marked
<1> HIDE DEF seen
<1>4. \A p \in CliPids : [pid |-> p, same |-> TRUE] \in Aims BY DEF Aims
<1>5. \A p : [pid |-> p, same |-> TRUE].pid = p OBVIOUS
<1>6. seen \subseteq Aims BY <1>3, <1>4
<1>7. /\ \A a, d \in seen : a.pid = d.pid => a = d
      /\ \A a \in seen : kids[a.pid] \in Range(markers)
      /\ \A p \in CliPids : kids[p] \in Range(markers) \/ p \in spared => p \in spared' \/ \E a \in seen : a.pid = p
  <2>1. \A a \in seen : kids[a.pid] \in Range(markers) /\ a = [pid |-> a.pid, same |-> TRUE]
    <3> SUFFICES ASSUME NEW a \in seen PROVE kids[a.pid] \in Range(markers) /\ a = [pid |-> a.pid, same |-> TRUE]
      OBVIOUS
    <3>1. PICK p \in CliPids : kids[p] \in Range(markers) /\ a = [pid |-> p, same |-> TRUE] BY <1>3
    <3>2. a.pid = p BY <3>1, <1>5
    <3> QED BY <3>1, <3>2
  <2>2. \A a, d \in seen : a.pid = d.pid => a = d BY <2>1
  <2>3. \A p \in CliPids : kids[p] \in Range(markers) \/ p \in spared => p \in spared' \/ \E a \in seen : a.pid = p
    BY <1>3, <1>5
  <2> QED BY <2>1, <2>2, <2>3
<1>8. r \in JobRec /\ r.pc = "kill" /\ r.marker = job[j].marker /\ r.aims = seen /\ r.sent # "verified"
  BY <1>1, <1>2, <1>6 DEF JobRec, JobPcs, Inside
<1>9. AimsWell(r, kids, Range(markers'), spared') BY <1>1, <1>7, <1>8 DEF AimsWell
<1> HIDE DEF r
<1> QED BY <1>1, <1>a, <1>b, <1>2, <1>7, <1>8, <1>9, ZenonT(60) DEF Stepped, Inside, Loose

\* With every aim taken there is no marked child left, the batch's own included,
\* but those the sweep spared.
LEMMA SweptSteps ==
    ASSUME CInv, NEW j \in Jobs, job[j].pc = "kill", job[j].aims = {}, SetJob(j, [job[j] EXCEPT !.pc = "tell"]),
           UNCHANGED <<cleft, verifyLock, admission, tracked, drain, markers, kids, hits, spared>>
    PROVE \E r : Stepped(j, r)
<1> DEFINE r == [job[j] EXCEPT !.pc = "tell"]
<1>1. job[j] \in JobRec /\ markers \in Seq(Jobs) /\ cleft \in CallScenarios BY JobFacts
<1>2. /\ ~Ended(j) /\ job[j].sent # "verified" /\ (job[j].marker => j \in Range(markers))
      /\ (\A p \in CliPids : kids[p] = j => job[j].marker)
      /\ \A p \in CliPids : kids[p] \in Range(markers) => p \in spared
  BY JobFacts DEF Ended, AimsWell, Loose
<1>3. r \in JobRec /\ r.pc = "tell" /\ r.marker = job[j].marker /\ r.aims = {} /\ r.sent # "verified"
  BY <1>1, <1>2 DEF JobRec, JobPcs, Inside
<1>4. AimsWell(r, kids, Range(markers'), spared') BY <1>3 DEF AimsWell
<1> QED BY <1>1, <1>2, <1>3, <1>4 DEF Stepped, Inside, Loose

LEMMA TellSteps ==
    ASSUME CInv, NEW j \in Jobs, TellResult(j) PROVE \E r : Stepped(j, r)
<1>1. /\ job[j] \in JobRec /\ job[j].pc = "tell" /\ markers \in Seq(Jobs) /\ cleft \in CallScenarios
      /\ UNCHANGED <<cleft, verifyLock, admission, tracked, drain, markers, kids, hits, spared>>
  BY JobFacts DEF TellResult
<1> DEFINE n == IF job[j].verdict THEN job[j].oks + 1 ELSE job[j].oks
           r == [job[j] EXCEPT !.pc = "next", !.verdict = FALSE, !.oks = n]
<1>2. SetJob(j, r) BY <1>1 DEF TellResult
<1>3. n \in Nat BY <1>1, SMT DEF JobRec
<1>4. /\ job[j].aims = {} /\ ~Ended(j) /\ job[j].sent # "verified" /\ (job[j].marker => j \in Range(markers))
      /\ \A p \in CliPids : kids[p] = j => job[j].marker /\ p \in spared
  BY <1>1, JobFacts DEF Ended, AimsWell, Loose
<1> HIDE DEF n
<1>5. r \in JobRec /\ r.pc = "next" /\ r.marker = job[j].marker /\ r.aims = {} /\ r.sent # "verified"
  BY <1>1, <1>3, <1>4 DEF JobRec, JobPcs, Inside
<1>6. AimsWell(r, kids, Range(markers'), spared') BY <1>5 DEF AimsWell
<1> QED BY <1>1, <1>2, <1>4, <1>5, <1>6 DEF Stepped, Inside, Loose

LEMMA DeadlineSteps ==
    ASSUME CInv, NEW c \in Calls, DeadlineOf(c) PROVE \E r : Stepped(c, r)
<1> DEFINE r == [job[c] EXCEPT !.expired = TRUE]
<1>0. c \in Jobs BY DEF Jobs
<1>1. /\ job[c] \in JobRec /\ markers \in Seq(Jobs) /\ cleft \in CallScenarios /\ SetJob(c, r) /\ ~Ended(c)
      /\ UNCHANGED <<cleft, verifyLock, admission, tracked, drain, markers, kids, hits, spared>>
  BY <1>0, JobFacts DEF DeadlineOf
<1>2. job[c].pc # "idle" BY DEF CInv, Awaited, DeadlineOf
<1>3. /\ AimsWell(job[c], kids, Range(markers), spared) /\ job[c].sent # "verified"
      /\ (job[c].marker => job[c].pc \in Inside /\ c \in Range(markers))
      /\ \A p \in CliPids : kids[p] = c => job[c].marker /\ (job[c].pc \notin Loose => p \in spared)
  BY <1>0, <1>1, JobFacts
<1>4. /\ r \in JobRec /\ r.pc = job[c].pc /\ r.marker = job[c].marker /\ r.aims = job[c].aims /\ r.sent # "verified"
  BY <1>1, <1>3 DEF JobRec
<1>5. AimsWell(r, kids, Range(markers'), spared') BY <1>1, <1>3, <1>4 DEF AimsWell
<1>6. r.pc = "tell" => \A p \in CliPids : kids[p] \in Range(markers') => p \in spared'
  BY <1>0, <1>1, <1>4 DEF CInv, CliInv, Reaped, Marked
<1> HIDE DEF r
<1> QED BY <1>1, <1>2, <1>3, <1>4, <1>5, <1>6 DEF Stepped

LEMMA RoundSteps ==
    ASSUME CInv, NEW q \in Rounds, StartRound(q) PROVE \E r : Stepped(q, r)
<1>0. q \in Jobs /\ q \notin Calls BY CliAssumption DEF Jobs
<1>1. /\ job[q] \in JobRec /\ job[q].pc = "idle" /\ markers \in Seq(Jobs) /\ cleft \in CallScenarios
      /\ UNCHANGED <<cleft, verifyLock, admission, tracked, drain, markers, kids, hits, spared>>
  BY <1>0, JobFacts DEF StartRound
<1>2. PICK n \in 0 .. cleft.due : SetJob(q, [JobIdle EXCEPT !.pc = IF n = 0 THEN "ended" ELSE "lock", !.left = n])
  BY DEF StartRound
<1> DEFINE r == [JobIdle EXCEPT !.pc = IF n = 0 THEN "ended" ELSE "lock", !.left = n]
<1>3. ~Ended(q) /\ job[q].aims = {} /\ \A p \in CliPids : kids[p] # q BY <1>0, <1>1, JobFacts DEF Ended, Inside, AimsWell
<1>3a. n \in Nat BY <1>1, SMT DEF CallScenarios
<1>4. r \in JobRec /\ r.pc \in {"ended", "lock"} /\ ~r.marker /\ r.aims = {} /\ r.sent = "no"
  BY <1>3a DEF JobIdle, JobRec, JobPcs
<1>5. AimsWell(r, kids, Range(markers'), spared') BY <1>4 DEF AimsWell
<1> HIDE DEF r
<1>6. SetJob(q, r) BY <1>2 DEF r
<1> QED BY <1>0, <1>1, <1>3, <1>4, <1>5, <1>6 DEF Stepped, Inside, Loose

\* Steps that leave the workers and their children alone.
LEMMA AsideCli ==
    ASSUME CInv, cleft' \in CallScenarios, drain' \in {"open", "joining", "joined"},
           UNCHANGED <<verifyLock, job, markers, kids, hits, spared>>,
           admission' \in [Calls -> {"idle", "waiting", "failed", "verified", "refused", "deferred", "abandoned"}],
           \A c \in Calls : admission'[c] = "idle" <=> admission[c] = "idle",
           \A c \in Calls : admission'[c] = "verified" => job[c].sent = "verified",
           drain' # "joined" => drain # "joined" /\ tracked' = tracked,
           drain' = "joined" => \A c \in Calls : job[c].pc \in {"idle", "ended", "panicked"}
    PROVE CInv'
<1>1. CTyped /\ Owned /\ Aimed /\ Awaited /\ OneBatch /\ Reaped /\ DrainOwnsWorkers BY DEF CInv, CliInv
<1>2. CTyped' BY <1>1 DEF CTyped
<1>3. Owned' BY <1>1 DEF Owned, Ended
<1>4. Aimed' BY <1>1 DEF Aimed
<1>5. Awaited' BY <1>1 DEF Awaited, Ended
<1>6. OneBatch' BY <1>1 DEF OneBatch, Ended
<1>7. Reaped' BY <1>1 DEF Reaped, Marked
<1>8. DrainOwnsWorkers'
  <2>1. \A c \in Calls : job[c].sent = "verified" => job[c].verdict BY <1>1 DEF Awaited, Jobs
  <2> QED BY <2>1 DEF DrainOwnsWorkers
<1> QED BY <1>2, <1>3, <1>4, <1>5, <1>6, <1>7, <1>8 DEF CInv, CliInv

LEMMA DecisionKeeps == ASSUME CInv, NEW c \in Calls, Decision(c) \/ Abandon(c) PROVE CInv'
<1>1. /\ cleft \in CallScenarios /\ job[c] \in JobRec /\ drain \in {"open", "joining", "joined"}
      /\ admission \in [Calls -> {"idle", "waiting", "failed", "verified", "refused", "deferred", "abandoned"}]
      /\ \A d \in Calls : admission[d] = "verified" => job[d].sent = "verified"
      /\ drain = "joined" => \A d \in Calls : job[d].pc \in {"idle", "ended", "panicked"}
  BY DEF CInv, CTyped, Awaited, CliInv, DrainOwnsWorkers, Jobs
<1>2. CASE Decision(c)
  <2>1. PICK v \in {"failed", "verified", "refused", "deferred"} :
          admission' = [admission EXCEPT ![c] = v] /\ (v = "verified" => job[c].sent = "verified")
    BY <1>1, <1>2 DEF Decision, JobRec
  <2>2. admission[c] = "waiting" /\ UNCHANGED <<cleft, verifyLock, job, tracked, drain, markers, kids, hits, spared>>
    BY <1>2 DEF Decision
  <2> QED BY <1>1, <2>1, <2>2, AsideCli
<1>3. CASE Abandon(c)
  <2>1. /\ admission' = [admission EXCEPT ![c] = "abandoned"] /\ admission[c] = "waiting"
        /\ cleft' = [cleft EXCEPT !.abandons = @ - 1] /\ cleft.abandons > 0
        /\ UNCHANGED <<verifyLock, job, tracked, drain, markers, kids, hits, spared>>
    BY <1>3 DEF Abandon
  <2>2. cleft' \in CallScenarios BY <1>1, <2>1, SMTT(30) DEF CallScenarios
  <2> QED BY <1>1, <2>1, <2>2, AsideCli
<1> QED BY <1>2, <1>3

\* The drain ends only when every worker it has started is done.
LEMMA DrainKeeps == ASSUME CInv, DrainJoins PROVE CInv'
<1>1. /\ cleft \in CallScenarios /\ drain \in {"open", "joining", "joined"}
      /\ admission \in [Calls -> {"idle", "waiting", "failed", "verified", "refused", "deferred", "abandoned"}]
      /\ \A d \in Calls : admission[d] = "verified" => job[d].sent = "verified"
      /\ \A d \in Calls : drain # "joined" /\ job[d].pc # "idle" => d \in tracked
  BY DEF CInv, CTyped, Awaited
<1>2. UNCHANGED <<cleft, verifyLock, job, admission, markers, kids, hits, spared>> BY DEF DrainJoins
<1>3. \/ drain = "open" /\ drain' = "joining" /\ tracked' = tracked
      \/ drain = "joining" /\ drain' = "joined" /\ \A c \in tracked : Ended(c)
  BY DEF DrainJoins
<1>4. drain' = "joined" => \A c \in Calls : job[c].pc \in {"idle", "ended", "panicked"} BY <1>1, <1>3 DEF Ended
<1> QED BY <1>1, <1>2, <1>3, <1>4, AsideCli

LEMMA StopKeeps == ASSUME CInv, StopVerifier \/ UNCHANGED cvars PROVE CInv'
<1>1. /\ cleft \in CallScenarios /\ drain \in {"open", "joining", "joined"}
      /\ admission \in [Calls -> {"idle", "waiting", "failed", "verified", "refused", "deferred", "abandoned"}]
      /\ \A d \in Calls : admission[d] = "verified" => job[d].sent = "verified"
      /\ drain = "joined" => \A d \in Calls : job[d].pc \in {"idle", "ended", "panicked"}
  BY DEF CInv, CTyped, Awaited, CliInv, DrainOwnsWorkers
<1>2. UNCHANGED <<cleft, verifyLock, job, admission, tracked, drain, markers, kids, hits, spared>> BY DEF StopVerifier, cvars
<1> QED BY <1>1, <1>2, AsideCli

\* A decision starts its worker and registers it in the same step.
LEMMA AdmitKeeps == ASSUME CInv, NEW c \in Calls, AdmitBridge(c) PROVE CInv'
<1> DEFINE r == [JobIdle EXCEPT !.pc = "scratch", !.left = 1]
<1>1. CTyped /\ Owned /\ Aimed /\ Awaited /\ OneBatch /\ Reaped /\ DrainOwnsWorkers BY DEF CInv, CliInv
<1>2. /\ drain = "open" /\ admission[c] = "idle" /\ SetJob(c, r)
      /\ admission' = [admission EXCEPT ![c] = "waiting"] /\ tracked' = tracked \cup {c}
      /\ UNCHANGED <<cleft, verifyLock, drain, markers, kids, hits, spared>>
  BY DEF AdmitBridge
<1>3. c \in Jobs /\ job[c].pc = "idle" BY <1>1, <1>2 DEF Awaited, Jobs
<1>4. r \in JobRec /\ r.pc = "scratch" /\ ~r.marker /\ r.aims = {} /\ r.sent = "no" BY DEF JobIdle, JobRec, JobPcs
<1>5. job' \in [Jobs -> JobRec] /\ \A i \in Jobs : job'[i] = IF i = c THEN r ELSE job[i]
  BY <1>1, <1>2, <1>3, <1>4, JobSet
<1> HIDE DEF r
<1>6. job'[c] = r /\ \A i \in Jobs : i # c => job'[i] = job[i] BY <1>3, <1>5
<1>7. /\ admission'[c] = "waiting" /\ \A d \in Calls : d # c => admission'[d] = admission[d]
      /\ admission' \in [Calls -> {"idle", "waiting", "failed", "verified", "refused", "deferred", "abandoned"}]
  BY <1>1, <1>2 DEF CTyped
<1>8. \A i \in Jobs : Ended(i) => i # c /\ Ended(i)' BY <1>3, <1>6 DEF Ended
<1>9. \A d \in Calls : d \in Jobs BY DEF Jobs
<1>10. CTyped' BY <1>1, <1>2, <1>5, <1>7 DEF CTyped
<1>11. Owned'
  <2>1. \A p \in CliPids : kids[p] # c BY <1>1, <1>3 DEF Owned, Inside, Ended
  <2>2. \A i \in Jobs : job'[i].aims = job[i].aims BY <1>1, <1>3, <1>4, <1>6 DEF Aimed
  <2>3. \A i \in Jobs : job'[i].marker => job'[i].pc \in Inside /\ i \in Range(markers) BY <1>1, <1>4, <1>6 DEF Owned
  <2>4. \A p \in CliPids : kids[p] \in Jobs => job'[kids[p]].pc \in {"ended", "panicked"} \/ job'[kids[p]].marker
    BY <2>1, <1>1, <1>6 DEF Owned, Ended
  <2>5. \A p \in CliPids : kids[p] \in Jobs /\ job'[kids[p]].pc \notin Loose =>
                              p \in spared \/ \E i \in Jobs : \E a \in job'[i].aims : a.pid = p
    BY <2>1, <2>2, <1>1, <1>6 DEF Owned
  <2> QED BY <2>3, <2>4, <2>5, <1>2 DEF Owned, Ended
<1>12. Aimed'
  <2>1. \A i \in Jobs : AimsWell(job'[i], kids, Range(markers), spared) BY <1>1, <1>4, <1>6, SMT, SMTT(30) DEF Aimed, AimsWell
  <2> QED BY <2>1, <1>2, ZenonT(60) DEF Aimed, AimsWell
<1>13. Awaited'
  <2>1. \A i \in Jobs : job'[i].sent = "verified" => job'[i].verdict /\ Ended(i)' BY <1>1, <1>4, <1>6, <1>8 DEF Awaited
  <2>2. \A d \in Calls : /\ admission'[d] = "idle" <=> job'[d].pc = "idle"
                         /\ job'[d].pc # "idle" => d \in tracked'
                         /\ admission'[d] = "verified" => job'[d].sent = "verified"
    BY <1>1, <1>2, <1>4, <1>6, <1>7, <1>9, SMTT(30) DEF Awaited
  <2> QED BY <2>1, <2>2 DEF Awaited
<1>14. OneBatch'
  <2>1. \A i \in Jobs : job'[i].pc \in Inside <=> verifyLock = i
    BY <1>1, <1>3, <1>4, <1>6 DEF OneBatch, Inside
  <2>2. \A h \in hits : h.same => h.name \in Jobs /\ (h.name = h.by \/ Ended(h.name)') BY <1>1, <1>8 DEF OneBatch
  <2> QED BY <2>1, <2>2, <1>2 DEF OneBatch, Ended
<1>15. Reaped'
  <2>1. \A p \in CliPids : kids[p] \in Jobs /\ job'[kids[p]].pc = "ended" =>
                              p \in spared \/ \E i \in Jobs : \E a \in job'[i].aims : a.pid = p
    BY <1>2, <1>11 DEF Owned, Loose
  <2>2. \A i \in Jobs : job'[i].pc = "tell" => job[i].pc = "tell" BY <1>4, <1>6
  <2> QED BY <2>1, <2>2, <1>1, <1>2 DEF Reaped, Marked
<1>16. DrainOwnsWorkers'
  <2>1. \A d \in Calls : admission'[d] = "verified" => job'[d].verdict
    BY <1>1, <1>6, <1>7, <1>9, ZenonT(60) DEF DrainOwnsWorkers
  <2> QED BY <2>1, <1>2 DEF DrainOwnsWorkers
<1> QED BY <1>10, <1>11, <1>12, <1>13, <1>14, <1>15, <1>16 DEF CInv, CliInv

\* A child appears at a free pid: unmarked, or marked by a batch in its check.
Born(p, name) ==
    /\ kids[p] = NoJob /\ kids' = [kids EXCEPT ![p] = name] /\ cleft' \in CallScenarios
    /\ name = "pt" \/ (name \in Jobs /\ job[name].pc = "run" /\ job[name].marker)
    /\ UNCHANGED <<verifyLock, job, admission, tracked, drain, markers, hits, spared>>

LEMMA BornKeeps == ASSUME CInv, NEW p \in CliPids, NEW name, Born(p, name) PROVE CInv'
<1>1. CTyped /\ Owned /\ Aimed /\ Awaited /\ OneBatch /\ Reaped /\ DrainOwnsWorkers BY DEF CInv, CliInv
<1>2. /\ kids[p] = NoJob /\ kids' = [kids EXCEPT ![p] = name] /\ cleft' \in CallScenarios
      /\ name = "pt" \/ (name \in Jobs /\ job[name].pc = "run" /\ job[name].marker)
      /\ UNCHANGED <<verifyLock, job, admission, tracked, drain, markers, hits, spared>>
  BY DEF Born
<1>3. CTyped' BY <1>1, <1>2 DEF CTyped
<1>4. kids'[p] = name /\ \A q \in CliPids : q # p => kids'[q] = kids[q] BY <1>1, <1>2 DEF CTyped
<1>5. Range(markers) \subseteq Jobs /\ NoJob \notin Range(markers) /\ "pt" \notin Jobs
  BY <1>1, MarkersAreJobs, CliAssumption, ZenonT(60) DEF CTyped
<1>6. \A i \in Jobs : name \in Jobs => job[i].pc \notin {"kill", "tell"}
  BY <1>1, <1>2, <1>5, SMTT(30) DEF OneBatch, Inside
<1>7. Owned'
  <2>0. \A q \in CliPids : kids'[q] \in Jobs =>
           kids'[q] = kids[q] \/ (job[kids'[q]].pc = "run" /\ job[kids'[q]].marker)
    <3>1. name \in Jobs => job[name].pc = "run" /\ job[name].marker BY <1>2, <1>5
    <3> QED BY <3>1, <1>4
  <2>1. \A q \in CliPids : kids'[q] \in Jobs => Ended(kids'[q]) \/ job[kids'[q]].marker
    BY <2>0, <1>1 DEF Owned
  <2>2. \A q \in CliPids : kids'[q] \in Jobs /\ job[kids'[q]].pc \notin Loose =>
                              q \in spared \/ \E i \in Jobs : \E a \in job[i].aims : a.pid = q
    BY <2>0, <1>1 DEF Owned, Loose
  <2> QED BY <2>1, <2>2, <1>1, <1>2 DEF Owned, Ended
<1>8. Aimed'
  <2>1. ASSUME NEW i \in Jobs PROVE AimsWell(job[i], kids', Range(markers), spared')
    <3>1. AimsWell(job[i], kids, Range(markers), spared) /\ job[i] \in JobRec BY <1>1 DEF Aimed, AimsWell, CTyped
    <3>2. \A a \in job[i].aims : a.pid \in CliPids BY <3>1 DEF JobRec, Aims
    <3>3. \A a \in job[i].aims : a.same => kids'[a.pid] \in Range(markers)
      BY <3>1, <3>2, <1>2, <1>4, <1>5, ZenonT(60) DEF AimsWell
    <3>4. \A q \in CliPids : job[i].pc = "kill" /\ kids'[q] \in Range(markers) =>
                                q \in spared' \/ \E a \in job[i].aims : a.pid = q
      BY <3>1, <1>2, <1>4, <1>5, <1>6 DEF AimsWell
    <3> QED BY <3>1, <3>3, <3>4 DEF AimsWell
  <2> QED BY <2>1, <1>2 DEF Aimed, AimsWell
<1>9. Awaited' BY <1>1, <1>2 DEF Awaited, Ended
<1>10. OneBatch' BY <1>1, <1>2 DEF OneBatch, Ended
<1>11. Reaped'
  <2>1. \A q \in CliPids : kids'[q] \in Jobs /\ job[kids'[q]].pc = "ended" =>
                              q \in spared \/ \E i \in Jobs : \E a \in job[i].aims : a.pid = q
    BY <1>2, <1>7 DEF Owned, Loose
  <2>2. \A i \in Jobs : job[i].pc = "tell" => \A q \in CliPids : kids'[q] \in Range(markers) => q \in spared
    BY <1>1, <1>2, <1>4, <1>5, <1>6, ZenonT(60) DEF Reaped, Marked
  <2> QED BY <2>1, <2>2, <1>2 DEF Reaped, Marked
<1>12. DrainOwnsWorkers' BY <1>1, <1>2 DEF DrainOwnsWorkers
<1> QED BY <1>3, <1>7, <1>8, <1>9, <1>10, <1>11, <1>12 DEF CInv, CliInv

LEMMA ChildKeeps == ASSUME CInv, NEW j \in Jobs, NEW p \in CliPids, StartChild(j, p) PROVE CInv'
<1>1. cleft \in CallScenarios /\ cleft.spawns > 0 /\ cleft' = [cleft EXCEPT !.spawns = @ - 1] BY JobFacts DEF StartChild
<1>2. cleft' \in CallScenarios BY <1>1, SMT DEF CallScenarios
<1>3. Born(p, IF job[j].marker THEN j ELSE "pt") BY <1>2 DEF StartChild, Born
<1> QED BY <1>3, BornKeeps

LEMMA MainPtKeeps == ASSUME CInv, NEW p \in CliPids, MainPtStarts(p) PROVE CInv'
<1>1. cleft \in CallScenarios /\ cleft.main > 0 /\ cleft' = [cleft EXCEPT !.main = @ - 1]
  BY DEF CInv, CTyped, MainPtStarts
<1>2. cleft' \in CallScenarios BY <1>1, SMT DEF CallScenarios
<1>3. Born(p, "pt") BY <1>2 DEF MainPtStarts, Born
<1> QED BY <1>3, BornKeeps

\* A child is gone, or spared: every worker keeps its place, and the aims that are
\* left still name each marked child once and know those that changed hands.
Reduced(p) ==
    /\ kids' = [kids EXCEPT ![p] = NoJob] \/ (kids' = kids /\ p \in spared')
    /\ cleft' \in CallScenarios /\ \A q \in spared : q = p \/ q \in spared'
    /\ UNCHANGED <<verifyLock, admission, tracked, drain, markers>> /\ job' \in [Jobs -> JobRec]
    /\ \A i \in Jobs : /\ job'[i].pc = job[i].pc /\ job'[i].marker = job[i].marker
                       /\ job'[i].verdict = job[i].verdict /\ job'[i].sent = job[i].sent
                       /\ AimsWell(job'[i], kids', Range(markers), spared')
                       /\ \A a \in job[i].aims : a.pid = p \/ \E d \in job'[i].aims : d.pid = a.pid
    /\ \A h \in hits' : h \in hits \/ (h.same => h.name \in Jobs /\ (h.name = h.by \/ Ended(h.name)))

LEMMA ReducedKeeps == ASSUME CInv, NEW p \in CliPids, Reduced(p) PROVE CInv'
<1>1. CTyped /\ Owned /\ Aimed /\ Awaited /\ OneBatch /\ Reaped /\ DrainOwnsWorkers BY DEF CInv, CliInv
<1>2. /\ kids' = [kids EXCEPT ![p] = NoJob] \/ (kids' = kids /\ p \in spared')
      /\ cleft' \in CallScenarios /\ \A q \in spared : q = p \/ q \in spared'
      /\ UNCHANGED <<verifyLock, admission, tracked, drain, markers>> /\ job' \in [Jobs -> JobRec]
  BY DEF Reduced
<1>3. \A i \in Jobs : /\ job'[i].pc = job[i].pc /\ job'[i].marker = job[i].marker
                      /\ job'[i].verdict = job[i].verdict /\ job'[i].sent = job[i].sent
  BY DEF Reduced
<1>4. CTyped' BY <1>1, <1>2 DEF CTyped
<1>5. /\ kids'[p] = NoJob \/ (kids'[p] = kids[p] /\ p \in spared')
      /\ \A q \in CliPids : q # p => kids'[q] = kids[q]
  BY <1>1, <1>2 DEF CTyped
<1>6. Range(markers) \subseteq Jobs /\ NoJob \notin Range(markers) /\ NoJob \notin Jobs
  BY <1>1, MarkersAreJobs, CliAssumption DEF CTyped
<1>7. \A i \in Jobs : Ended(i)' <=> Ended(i) BY <1>3 DEF Ended
<1>8. \A c \in Calls : c \in Jobs BY ZenonT(60) DEF Jobs
<1>9. Owned'
  <2>1. \A i \in Jobs : job'[i].marker => job'[i].pc \in Inside /\ i \in Range(markers) BY <1>1, <1>3 DEF Owned
  <2>2. \A q \in CliPids : kids'[q] \in Jobs => kids'[q] = kids[q] BY <1>5, <1>6
  <2>3. ASSUME NEW q \in CliPids, kids'[q] \in Jobs
        PROVE job'[kids'[q]].pc \in {"ended", "panicked"} \/ job'[kids'[q]].marker
    <3>1. kids'[q] = kids[q] BY <2>2, <2>3
    <3>2. Ended(kids[q]) \/ job[kids[q]].marker BY <3>1, <2>3, <1>1 DEF Owned
    <3> QED BY <3>1, <3>2, <2>3, <1>3 DEF Ended
  <2>4. ASSUME NEW q \in CliPids, kids'[q] \in Jobs, job'[kids'[q]].pc \notin Loose
        PROVE q \in spared' \/ \E i \in Jobs : \E d \in job'[i].aims : d.pid = q
    <3>1. CASE q = p BY <3>1, <2>4, <1>5, <1>6
    <3>2. CASE q # p
      <4>0. kids'[q] = kids[q] /\ job'[kids[q]].pc = job[kids[q]].pc BY <2>2, <2>4, <1>3
      <4>1. q \in spared \/ \E i \in Jobs : \E a \in job[i].aims : a.pid = q BY <4>0, <2>4, <1>1 DEF Owned
      <4>2. \A i \in Jobs : \A a \in job[i].aims : a.pid = p \/ \E d \in job'[i].aims : d.pid = a.pid BY DEF Reduced
      <4>3. CASE q \in spared BY <4>3, <3>2, <1>2
      <4>4. CASE \E i \in Jobs : \E a \in job[i].aims : a.pid = q
        <5>1. PICK i \in Jobs : \E a \in job[i].aims : a.pid = q BY <4>4
        <5>2. \E d \in job'[i].aims : d.pid = q BY <5>1, <4>2, <3>2, ZenonT(60)
        <5> QED BY <5>2
      <4> QED BY <4>1, <4>3, <4>4
    <3> QED BY <3>1, <3>2
  <2> QED BY <2>1, <2>3, <2>4, <1>2 DEF Owned, Ended
<1>10. Aimed'
  <2>1. \A i \in Jobs : AimsWell(job'[i], kids', Range(markers), spared') BY ZenonT(60) DEF Reduced
  <2> QED BY <2>1, <1>2 DEF Aimed, AimsWell
<1>11. Awaited' BY <1>1, <1>2, <1>3, <1>7, <1>8, SMTT(30) DEF Awaited
<1>12. OneBatch'
  <2>1. \A h \in hits' : h.same => h.name \in Jobs /\ (h.name = h.by \/ Ended(h.name)) BY <1>1 DEF Reduced, OneBatch
  <2>2. \A h \in hits' : h.same => h.name \in Jobs /\ (h.name = h.by \/ Ended(h.name)') BY <2>1, <1>7
  <2>3. \A i \in Jobs : job'[i].pc \in Inside <=> verifyLock = i BY <1>1, <1>3 DEF OneBatch
  <2> QED BY <2>2, <2>3, <1>2 DEF OneBatch, Ended
<1>13. Reaped'
  <2>1. \A q \in CliPids : kids'[q] \in Jobs /\ job'[kids'[q]].pc = "ended" =>
                              q \in spared' \/ \E i \in Jobs : \E a \in job'[i].aims : a.pid = q
    BY <1>9 DEF Owned, Loose
  <2>2. \A i \in Jobs : job'[i].pc = "tell" => \A q \in CliPids : kids'[q] \in Range(markers) => q \in spared'
    BY <1>1, <1>2, <1>3, <1>5, <1>6, ZenonT(60) DEF Reaped, Marked
  <2> QED BY <2>1, <2>2, <1>2 DEF Reaped, Marked
<1>14. DrainOwnsWorkers' BY <1>1, <1>2, <1>3, <1>8, ZenonT(60) DEF DrainOwnsWorkers
<1> QED BY <1>4, <1>9, <1>10, <1>11, <1>12, <1>13, <1>14, ZenonT(60) DEF CInv, CliInv

\* What a sweep terminates under a pid that has not changed hands carries a
\* marker: the batch's own, or that of a batch that panicked.
LEMMA TerminateKeeps ==
    ASSUME CInv, NEW j \in Jobs, job[j].pc = "kill", NEW a \in job[j].aims,
           SetJob(j, [job[j] EXCEPT !.aims = @ \ {a}]), cleft' \in CallScenarios,
           \/ kids' = [kids EXCEPT ![a.pid] = NoJob] /\ spared' = spared \ {a.pid}
           \/ kids' = kids /\ spared' = spared \cup {a.pid},
           hits' \in {hits, hits \cup {[by |-> j, name |-> kids[a.pid], same |-> a.same]}},
           UNCHANGED <<verifyLock, admission, tracked, drain, markers>>
    PROVE CInv'
<1> DEFINE r == [job[j] EXCEPT !.aims = @ \ {a}]
<1>1. CTyped /\ Owned /\ OneBatch BY DEF CInv, CliInv
<1>2. job[j] \in JobRec /\ AimsWell(job[j], kids, Range(markers), spared) /\ cleft \in CallScenarios /\ verifyLock = j
  BY JobFacts DEF Inside
<1>3. a.pid \in CliPids /\ \A d \in job[j].aims : d.pid \in CliPids BY <1>2 DEF JobRec, Aims
<1>4. /\ r \in JobRec /\ r.pc = job[j].pc /\ r.marker = job[j].marker /\ r.verdict = job[j].verdict
      /\ r.sent = job[j].sent /\ r.aims = job[j].aims \ {a}
  BY <1>2 DEF JobRec
<1>5. job' \in [Jobs -> JobRec] /\ \A i \in Jobs : job'[i] = IF i = j THEN r ELSE job[i] BY <1>1, <1>4, JobSet, ZenonT(60)
<1> HIDE DEF r
<1>6. /\ kids'[a.pid] = NoJob \/ (kids' = kids /\ a.pid \in spared')
      /\ \A q \in CliPids : q # a.pid => kids'[q] = kids[q] /\ (q \in spared => q \in spared')
  BY <1>1, <1>3 DEF CTyped
<1>7. Range(markers) \subseteq Jobs /\ NoJob \notin Range(markers)
  BY <1>1, MarkersAreJobs, CliAssumption DEF CTyped
<1>8. AimsWell(r, kids', Range(markers), spared')
  <2>1. \A d \in r.aims : d \in job[j].aims /\ d.pid # a.pid /\ d.pid \in CliPids BY <1>2, <1>3, <1>4 DEF AimsWell
  <2>2. \A d \in r.aims : d.same => kids'[d.pid] \in Range(markers) BY <2>1, <1>2, <1>6 DEF AimsWell
  <2>3. ASSUME NEW q \in CliPids, kids'[q] \in Range(markers) PROVE q \in spared' \/ \E d \in r.aims : d.pid = q
    <3>1. CASE q = a.pid BY <3>1, <2>3, <1>6, <1>7
    <3>2. CASE q # a.pid
      <4>1. q \in spared \/ \E d \in job[j].aims : d.pid = q BY <3>2, <2>3, <1>2, <1>6 DEF AimsWell
      <4> QED BY <4>1, <3>2, <1>4, <1>6
    <3> QED BY <3>1, <3>2
  <2> QED BY <2>1, <2>2, <2>3, <1>2, <1>4 DEF AimsWell
<1>9. ASSUME NEW i \in Jobs, i # j PROVE AimsWell(job[i], kids', Range(markers), spared')
  <2>1. job[i].pc # "kill" /\ AimsWell(job[i], kids, Range(markers), spared) BY <1>2, <1>9, JobFacts DEF Inside
  <2> QED BY <2>1 DEF AimsWell
<1>10. \A i \in Jobs : /\ job'[i].pc = job[i].pc /\ job'[i].marker = job[i].marker
                       /\ job'[i].verdict = job[i].verdict /\ job'[i].sent = job[i].sent
                       /\ AimsWell(job'[i], kids', Range(markers), spared')
                       /\ \A d \in job[i].aims : d.pid = a.pid \/ \E e \in job'[i].aims : e.pid = d.pid
  BY <1>4, <1>5, <1>8, <1>9
<1>11. a.same => kids[a.pid] \in Jobs /\ (kids[a.pid] = j \/ Ended(kids[a.pid]))
  <2>1. a.same => kids[a.pid] \in Range(markers) BY <1>2 DEF AimsWell
  <2>2. kids[a.pid] \in Jobs => kids[a.pid] = j \/ Ended(kids[a.pid])
    BY <1>1, <1>2, <1>3 DEF Owned, OneBatch, Inside, Ended
  <2> QED BY <2>1, <2>2, <1>7
<1>12. ASSUME NEW h \in hits' PROVE h \in hits \/ (h.same => h.name \in Jobs /\ (h.name = h.by \/ Ended(h.name)))
  <2>1. h \in hits \/ h = [by |-> j, name |-> kids[a.pid], same |-> a.same] BY <1>12
  <2>2. CASE h = [by |-> j, name |-> kids[a.pid], same |-> a.same]
    <3>1. h.by = j /\ h.name = kids[a.pid] /\ h.same = a.same BY <2>2
    <3> QED BY <3>1, <1>11
  <2> QED BY <2>1, <2>2
<1>13. \A q \in spared : q = a.pid \/ q \in spared' OBVIOUS
<1>14. Reduced(a.pid) BY <1>2, <1>5, <1>6, <1>10, <1>12, <1>13, ZenonT(60) DEF Reduced
<1> QED BY <1>3, <1>14, ReducedKeeps

\* An aim keeps its pid and forgets that it was the process that has gone.
LEMMA AimLost ==
    ASSUME NEW a \in Aims, NEW p
    PROVE LET d == [a EXCEPT !.same = @ /\ a.pid # p]
          IN d \in Aims /\ d.pid = a.pid /\ (d.same => a.same /\ a.pid # p)
<1> DEFINE b == a.same /\ a.pid # p
<1>1. b \in BOOLEAN OBVIOUS
<1>2. b => a.same /\ a.pid # p OBVIOUS
<1>3. [a EXCEPT !.same = @ /\ a.pid # p] = [a EXCEPT !.same = b] OBVIOUS
<1> HIDE DEF b
<1>4. [a EXCEPT !.same = b] \in Aims /\ [a EXCEPT !.same = b].pid = a.pid /\ [a EXCEPT !.same = b].same = b
  BY <1>1 DEF Aims
<1> QED BY <1>2, <1>3, <1>4

\* A child that exits takes its marker with it, and every aim at it is stale.
LEMMA ExitKidKeeps == ASSUME CInv, NEW p \in CliPids, KidExits(p) PROVE CInv'
<1>1. CTyped BY DEF CInv
<1>2. /\ cleft \in CallScenarios /\ cleft.exits > 0 /\ cleft' = [cleft EXCEPT !.exits = @ - 1]
      /\ kids' = [kids EXCEPT ![p] = NoJob] /\ spared' = spared \ {p}
      /\ UNCHANGED <<verifyLock, admission, tracked, drain, markers, hits>>
  BY <1>1 DEF CTyped, KidExits
<1>3. cleft' \in CallScenarios BY <1>2, SMT DEF CallScenarios
<1>4. kids'[p] = NoJob /\ \A q \in CliPids : q # p => kids'[q] = kids[q] BY <1>1, <1>2 DEF CTyped
<1>5. Range(markers) \subseteq Jobs /\ NoJob \notin Range(markers)
  BY <1>1, MarkersAreJobs, CliAssumption DEF CTyped
<1>6. ASSUME NEW i \in Jobs
      PROVE /\ job'[i] \in JobRec /\ job'[i].pc = job[i].pc /\ job'[i].marker = job[i].marker
            /\ job'[i].verdict = job[i].verdict /\ job'[i].sent = job[i].sent
            /\ AimsWell(job'[i], kids', Range(markers), spared')
            /\ \A a \in job[i].aims : \E d \in job'[i].aims : d.pid = a.pid
  <2> DEFINE lost(a) == [a EXCEPT !.same = @ /\ a.pid # p]
             n == {lost(a) : a \in job[i].aims}
             r == [job[i] EXCEPT !.aims = n]
  <2>1. job'[i] = r BY DEF KidExits
  <2>2. job[i] \in JobRec /\ AimsWell(job[i], kids, Range(markers), spared) BY JobFacts
  <2>3. job[i].aims \subseteq Aims BY <2>2 DEF JobRec
  <2>4. \A a \in job[i].aims : lost(a) \in Aims /\ lost(a).pid = a.pid /\ (lost(a).same => a.same /\ a.pid # p)
    BY <2>3, AimLost
  <2>5. (\A d \in n : \E a \in job[i].aims : d = lost(a)) /\ \A a \in job[i].aims : lost(a) \in n OBVIOUS
  <2> HIDE DEF n, lost
  <2>6. n \subseteq Aims BY <2>4, <2>5
  <2>7. /\ r \in JobRec /\ r.pc = job[i].pc /\ r.marker = job[i].marker /\ r.verdict = job[i].verdict
        /\ r.sent = job[i].sent /\ r.aims = n
    BY <2>2, <2>6 DEF JobRec
  <2> HIDE DEF r
  <2>8. r.pc # "kill" => n = {} BY <2>2, <2>5, <2>7 DEF AimsWell
  <2>9. ASSUME NEW d \in n, NEW e \in n, d.pid = e.pid PROVE d = e
    <3>1. PICK a \in job[i].aims, c \in job[i].aims : d = lost(a) /\ e = lost(c) BY <2>5
    <3>2. a.pid = c.pid BY <3>1, <2>4, <2>9
    <3> QED BY <3>1, <3>2, <2>2 DEF AimsWell
  <2>10. ASSUME NEW d \in n, d.same PROVE kids'[d.pid] \in Range(markers)
    <3>1. PICK a \in job[i].aims : d = lost(a) BY <2>5
    <3>2. a.same /\ a.pid # p /\ d.pid = a.pid BY <3>1, <2>4, <2>10
    <3>3. a.pid \in CliPids BY <2>3 DEF Aims
    <3> QED BY <3>2, <3>3, <2>2, <1>4 DEF AimsWell
  <2>11. ASSUME NEW q \in CliPids, r.pc = "kill", kids'[q] \in Range(markers)
         PROVE q \in spared' \/ \E d \in n : d.pid = q
    <3>1. kids[q] \in Range(markers) /\ q # p BY <2>11, <1>4, <1>5
    <3>2. q \in spared \/ \E a \in job[i].aims : a.pid = q BY <3>1, <2>2, <2>7, <2>11 DEF AimsWell
    <3> QED BY <3>1, <3>2, <1>2, <2>4, <2>5, ZenonT(60)
  <2>12. AimsWell(r, kids', Range(markers), spared') BY <2>7, <2>8, <2>9, <2>10, <2>11, ZenonT(60) DEF AimsWell
  <2>13. \A a \in job[i].aims : \E d \in n : d.pid = a.pid BY <2>4, <2>5
  <2> QED BY <2>1, <2>7, <2>12, <2>13, ZenonT(60)
<1>7. job' \in [Jobs -> JobRec]
  <2>1. job' = [i \in Jobs |-> job'[i]] BY DEF KidExits
  <2> QED BY <2>1, <1>6
<1>8. Reduced(p) BY <1>2, <1>3, <1>6, <1>7, ZenonT(60) DEF Reduced
<1> QED BY <1>8, ReducedKeeps

------------------------------------------------------------------------------
(* The CLI as a whole.                                                      *)

LEMMA CliKept == ASSUME CInv, [CliNext]_cvars PROVE CInv'
<1>1. ASSUME NEW j \in Jobs, JobSteps(j) PROVE CInv'
  <2>1. CASE Terminate(j)
    <3>1. CASE job[j].aims = {} BY <2>1, <3>1, SweptSteps, SteppedKeeps, ZenonT(60) DEF Terminate
    <3>2. CASE job[j].aims # {}
      <4>1. PICK a \in job[j].aims :
              /\ SetJob(j, [job[j] EXCEPT !.aims = @ \ {a}]) /\ (Slip \/ UNCHANGED cleft)
              /\ \/ kids' = [kids EXCEPT ![a.pid] = NoJob] /\ spared' = spared \ {a.pid}
                 \/ kids' = kids /\ spared' = spared \cup {a.pid}
              /\ hits' \in {hits, hits \cup {[by |-> j, name |-> kids[a.pid], same |-> a.same]}}
        BY <2>1, <3>2 DEF Terminate
      <4>2. cleft' \in CallScenarios BY <4>1, SlipTyped, JobFacts
      <4> QED BY <4>1, <4>2, <2>1, TerminateKeeps DEF Terminate
    <3> QED BY <3>1, <3>2
  <2>2. CASE ~Terminate(j)
    <3>1. \E r : Stepped(j, r)
      BY <1>1, <2>2, ScratchSteps, LockSteps, SnapshotSteps, MarkerSteps, NextSteps, CheckEndSteps, SeeSteps, TellSteps, ZenonT(60)
      DEF JobSteps
    <3> QED BY <3>1, SteppedKeeps, ZenonT(60)
  <2> QED BY <2>1, <2>2
<1>2. ASSUME NEW c \in Calls, DeadlineOf(c) PROVE CInv'
  <2>1. c \in Jobs BY DEF Jobs
  <2> QED BY <1>2, <2>1, DeadlineSteps, SteppedKeeps
<1>3. ASSUME NEW q \in Rounds, StartRound(q) PROVE CInv'
  <2>1. q \in Jobs BY DEF Jobs
  <2> QED BY <1>3, <2>1, RoundSteps, SteppedKeeps
<1>4. ASSUME NEW j \in Jobs, CheckPanics(j) PROVE CInv' BY <1>4, PanicSteps, SteppedKeeps
<1>5. CASE CliSteps BY <1>5, <1>1, <1>2, DecisionKeeps, DrainKeeps, ZenonT(60) DEF CliSteps
<1>6. CASE \E c \in Calls : AdmitBridge(c) \/ Abandon(c) BY <1>6, AdmitKeeps, DecisionKeeps
<1>7. CASE \E p \in CliPids : MainPtStarts(p) \/ KidExits(p) \/ \E j \in Jobs : StartChild(j, p)
  BY <1>7, MainPtKeeps, ExitKidKeeps, ChildKeeps
<1>8. CASE StopVerifier \/ UNCHANGED cvars BY <1>8, StopKeeps, ZenonT(60)
<1> QED BY <1>3, <1>4, <1>5, <1>6, <1>7, <1>8, ZenonT(60) DEF CliNext

LEMMA CliInitial == ASSUME NEW S, S \subseteq CallScenarios, CliInit(S) PROVE CInv
<1>1. JobIdle \in JobRec /\ JobIdle.pc = "idle" /\ ~JobIdle.marker /\ JobIdle.aims = {} /\ JobIdle.sent = "no"
  BY DEF JobIdle, JobRec, JobPcs
<1>2. \A j \in Jobs : job[j] = JobIdle BY DEF CliInit
<1>3. Range(markers) = {} /\ markers \in Seq(Jobs)
  <2>1. markers = <<>> BY DEF CliInit
  <2> QED BY <2>1, SMT, SMTT(30) DEF Range
<1>4. \A p \in CliPids : kids[p] = NoJob BY DEF CliInit
<1>5. NoJob \notin Jobs BY CliAssumption
<1>6. \A c \in Calls : c \in Jobs BY DEF Jobs
<1>7. CTyped BY <1>1, <1>3 DEF CliInit, CTyped
<1>8. Owned BY <1>1, <1>2, <1>4, <1>5 DEF Owned
<1>9. Aimed BY <1>1, <1>2, <1>3 DEF Aimed
<1>10. Awaited BY <1>1, <1>2, <1>6 DEF Awaited, CliInit
<1>11. OneBatch BY <1>1, <1>2, <1>5 DEF OneBatch, Inside, CliInit
<1>12. Reaped BY <1>1, <1>2, <1>4, <1>5 DEF Reaped, Marked
<1>13. DrainOwnsWorkers BY DEF DrainOwnsWorkers, CliInit
<1> QED BY <1>7, <1>8, <1>9, <1>10, <1>11, <1>12, <1>13, ZenonT(60) DEF CInv, CliInv

------------------------------------------------------------------------------
(* Together.                                                                *)

AllInv == VInv /\ CInv /\ SInv

\* The bridge checks of both platforms and the snapshot they start from
\* (bridge_check.rs, bridge_verify.rs, snapshot.rs): a batch answers every
\* bridge once and signals only children of its own check, a scratch directory
\* belongs to one batch, one CLI batch at a time holds the verifier, a sweep
\* terminates only marked children of its own or of an ended batch, a child that
\* outlives its batch is one the sweeps failed to read, to see or to terminate, a
\* drain outlives its workers, and a snapshot that counts is whole, with no sidecar
\* but one whose removal failed.
THEOREM ChecksHold == ChecksSpec => []ChecksInv
<1>1. ChecksInit => AllInv
  <2> SUFFICES ASSUME ChecksInit PROVE AllInv OBVIOUS
  <2>1. VInv BY VerifyInitial DEF ChecksInit
  <2>2. CInv BY CliInitial DEF ChecksInit
  <2>3. SInv BY SnapInitial DEF ChecksInit
  <2> QED BY <2>1, <2>2, <2>3 DEF AllInv
<1>2. AllInv /\ [ChecksNext]_<<vvars, cvars, svars>> => AllInv'
  <2> SUFFICES ASSUME AllInv, [ChecksNext]_<<vvars, cvars, svars>> PROVE AllInv' OBVIOUS
  <2>1. [VerifyNext]_vvars /\ [CliNext]_cvars /\ [SnapNext]_svars BY DEF ChecksNext
  <2>2. VInv' BY <2>1, VerifyKept DEF AllInv
  <2>3. CInv' BY <2>1, CliKept DEF AllInv
  <2>4. SInv' BY <2>1, SnapKept DEF AllInv
  <2> QED BY <2>2, <2>3, <2>4 DEF AllInv
<1>3. AllInv => ChecksInv
  <2> SUFFICES ASSUME AllInv PROVE ChecksInv OBVIOUS
  <2>1. VerifyInv BY VerifyImplied DEF AllInv
  <2>2. CliInv BY DEF AllInv, CInv
  <2>3. SnapTypeOK /\ SnapshotWhole BY DEF AllInv, SInv, SnapTypeOK
  <2> QED BY <2>1, <2>2, <2>3 DEF ChecksInv
<1> QED BY <1>1, <1>2, <1>3, PTL DEF ChecksSpec

------------------------------------------------------------------------------
(* The maintenance loop.                                                    *)

Cycling ==
    /\ cyc = [pc |-> cyc.pc, cfg |-> cyc.cfg, pass |-> cyc.pass, usable |-> cyc.usable,
              works |-> cyc.works, keep |-> cyc.keep, found |-> cyc.found]
    /\ cyc.cfg \subseteq All /\ cyc.found \subseteq All /\ cyc.keep \in BOOLEAN
    /\ cyc.pc \notin {"probe", "choose"} => cyc.keep = FALSE
    /\ cyc.pc = "apply" => cyc.found # {}

Counter == [tcp : 0 .. MaxTcp - 1, circ : 0 .. MaxCircuit]
Counting == count \in [All -> Counter]

Belled == bell = [needed |-> bell.needed, recovery |-> bell.recovery, refresh |-> bell.refresh,
                  recoveryDue |-> bell.recoveryDue, refreshDue |-> bell.refreshDue]

MaintInv == MaintenanceInv /\ Cycling /\ Counting /\ Belled
-----------------------------------------------------------------------------
(* What the choices of a pass range over.                                  *)

\* Preferences only ever leave bridges out.
LEMMA PreferringWithin ==
    ASSUME NEW bs
    PROVE  Preferring(bs) \subseteq bs /\ PreferredTransport(bs) \subseteq bs
BY DEF Preferring, PreferredTransport

\* select_active_probe_bridges only ever leaves bridges out.
LEMMA SlicesWithin ==
    ASSUME NEW bs, NEW s \in Slices(bs)
    PROVE  s \subseteq bs
BY DEF Slices, kSubset

\* Every round probes bridges of the configuration, or seeds.
LEMMA ProbeRoundsWithin ==
    ASSUME Cycling, NEW pool \in Pools, NEW slice \in Slices(PreferredTransport(pool))
    PROVE  /\ ProbeRounds(pool, slice) \in Seq(SUBSET All)
           /\ \A i \in 1 .. Len(ProbeRounds(pool, slice)) : ProbeRounds(pool, slice)[i] \subseteq All
<1> DEFINE preferred == PreferredTransport(pool)
           first == IF slice = preferred THEN <<slice>> ELSE <<slice, preferred>>
           fallback == IF cyc.keep \/ want.transport # "webtunnel" THEN {} ELSE (pool \cap Obfs4) \ preferred
           seeds == IF cyc.keep THEN {} ELSE Seeds
<1>1. pool \subseteq All
  BY DEF Pools, Cycling
<1>2. preferred \subseteq All /\ slice \subseteq All
  BY <1>1, PreferringWithin, SlicesWithin
<1>3. fallback \subseteq All /\ seeds \subseteq All
  <2>1. Seeds \subseteq All /\ pool \cap Obfs4 \subseteq All
    BY <1>1, MaintenanceAssumption DEF All
  <2>2. fallback = {} \/ fallback = (pool \cap Obfs4) \ preferred
    OBVIOUS
  <2>3. seeds = {} \/ seeds = Seeds
    OBVIOUS
  <2> HIDE DEF fallback, seeds
  <2>4. QED BY <2>1, <2>2, <2>3
<1>4. first \in Seq(SUBSET All)
  <2>1. \A x, y \in SUBSET All : <<x>> \in Seq(SUBSET All) /\ <<x, y>> \in Seq(SUBSET All)
    BY SMT
  <2>2. first = <<slice>> \/ first = <<slice, preferred>>
    OBVIOUS
  <2> HIDE DEF first, preferred
  <2>3. QED BY <1>2, <2>1, <2>2
<1>5. <<fallback, seeds>> \in Seq(SUBSET All)
  BY <1>3, SMT, SMTT(30)
<1>6. ProbeRounds(pool, slice) = first \o <<fallback, seeds>>
  BY DEF ProbeRounds
<1> HIDE DEF first, fallback, seeds
<1>7. ProbeRounds(pool, slice) \in Seq(SUBSET All)
  BY <1>4, <1>5, <1>6, SMT, SMTT(30)
<1>8. QED BY <1>7, SMT, SMTT(30)

\* So what answers is a set of bridges.
LEMMA ReportsWithin ==
    ASSUME Cycling, NEW pool \in Pools, NEW slice \in Slices(PreferredTransport(pool)),
           NEW r \in Reports(ProbeRounds(pool, slice))
    PROVE  r.alive \subseteq All
<1>1. PICK i \in 1 .. Len(ProbeRounds(pool, slice)) :
        \E up \in SUBSET ProbeRounds(pool, slice)[i] : r.alive = up
  BY SMT DEF Reports
<1>2. QED BY <1>1, ProbeRoundsWithin

\* authenticate_fallback chooses among what was found and configured.
LEMMA AuthenticatedWithin ==
    ASSUME NEW pool, NEW found \in SUBSET All, NEW prefer, NEW new \in Authenticated(pool, found, prefer)
    PROVE  new \subseteq All
<1>1. \A bs, x : x \in {y \in SUBSET bs : y # {} /\ Cardinality(y) <= MaxActive} => x \subseteq bs
  OBVIOUS
<1>2. \/ new = found \/ new = {}
      \/ new \subseteq Obfs4 \cap (found \cup pool)
  BY DEF Authenticated
<1>3. QED BY <1>2 DEF All

\* drain_into_store leaves the circuit counters within their bound.
LEMMA DrainedWithin ==
    ASSUME Counting, NEW b \in All, NEW n \in Drained(b)
    PROVE  n \in 0 .. MaxCircuit
<1>1. count[b].circ \in 0 .. MaxCircuit /\ MaxCircuit \in Nat
  BY MaintenanceAssumption DEF Counting, Counter
<1>2. \/ n = count[b].circ \/ n = 0 \/ n = Up1(count[b].circ, MaxCircuit)
  BY DEF Drained
<1>3. QED BY <1>1, <1>2, SMT, SMTT(30) DEF Up1

-----------------------------------------------------------------------------
(* Steps.                                                                  *)

\* A cycle that ends, or goes on to discovery, keeps no route.
LEMMA RestingIs ==
    ASSUME Cycling, cyc' = Resting \/ \E usable : cyc' = [Resting EXCEPT !.pc = "discover", !.cfg = cyc.cfg, !.usable = usable]
    PROVE  Cycling' /\ cyc'.pc \in {"idle", "discover"} /\ cyc'.keep = FALSE
<1>1. CASE cyc' = Resting
  BY <1>1 DEF Cycling, Resting
<1>2. ASSUME NEW usable, cyc' = [Resting EXCEPT !.pc = "discover", !.cfg = cyc.cfg, !.usable = usable]
      PROVE  Cycling' /\ cyc'.pc \in {"idle", "discover"} /\ cyc'.keep = FALSE
  BY <1>2 DEF Cycling, Resting
<1>3. QED BY <1>1, <1>2

\* Every way a pass ends is one of them.
LEMMA PassEnds ==
    ASSUME Cycling, Failed \/ PassFailed \/ \E usable : PassDone(usable)
    PROVE  Cycling' /\ cyc'.pc \in {"idle", "discover"} /\ cyc'.keep = FALSE
<1>1. ASSUME NEW usable, PassDone(usable)
      PROVE  cyc' = Resting \/ \E u : cyc' = [Resting EXCEPT !.pc = "discover", !.cfg = cyc.cfg, !.usable = u]
  BY <1>1 DEF PassDone
<1>2. ASSUME Failed PROVE cyc' = Resting
  BY <1>2, SMT, SMTT(30) DEF Failed
<1>3. QED BY <1>1, <1>2, RestingIs DEF PassFailed

\* The cycle's own variables stay well formed.
LEMMA CyclingStep ==
    ASSUME MaintInv, [MaintNext]_maintvars
    PROVE  Cycling'
<1> USE DEF MaintInv
<1>1. CASE Request \/ Recover \/ Verdict \/ TimersOut \/ UNCHANGED maintvars
  <2>1. cyc' = cyc
    BY <1>1 DEF Request, Recover, Verdict, TimersOut, maintvars
  <2>2. QED BY <2>1 DEF Cycling
<1>2. CASE Wake
  BY <1>2 DEF Wake, Cycling, Resting
<1>3. CASE Load
  <2>1. CASE Failed
    BY <2>1, PassEnds
  <2>2. CASE cyc' = [cyc EXCEPT !.pc = "drain", !.cfg = lines, !.pass = "first"]
    BY <1>3, <2>2, ZenonT(60) DEF Cycling, MaintenanceInv, Load
  <2>3. QED BY <1>3, <2>1, <2>2 DEF Load
<1>4. CASE Discover
  <2>1. CASE Failed
    BY <2>1, PassEnds
  <2>2. CASE cyc' = Resting
    BY <2>2, RestingIs
  <2>3. CASE cyc' = [cyc EXCEPT !.pc = "reload"]
    BY <1>4, <2>3 DEF Cycling, Discover
  <2>4. QED BY <1>4, <2>1, <2>2, <2>3, ZenonT(60) DEF Discover
<1>5. CASE Recheck
  BY <1>5 DEF Recheck, Cycling
<1>6. CASE Reload
  <2>1. CASE Failed
    BY <2>1, PassEnds
  <2>2. CASE cyc' = [cyc EXCEPT !.pc = "drain", !.cfg = lines, !.pass = "final"]
    BY <1>6, <2>2 DEF Cycling, MaintenanceInv, Reload
  <2>3. QED BY <1>6, <2>1, <2>2, ZenonT(60) DEF Reload
<1>7. CASE Drain
  <2>1. CASE PassFailed
    BY <2>1, PassEnds
  <2>2. CASE cyc' = [cyc EXCEPT !.pc = "route"]
    BY <1>7, <2>2 DEF Cycling, Drain
  <2>3. QED BY <1>7, <2>1, <2>2 DEF Drain
<1>8. CASE Route
  BY <1>8 DEF Route, Cycling, CanKeep
<1>9. CASE Probe
  <2>1. PICK new \in SUBSET All : cyc' = [cyc EXCEPT !.pc = "choose", !.found = new]
    <3>1. \A bs : \A x \in Slices(bs) : x \subseteq bs
      BY SlicesWithin
    <3>2. PICK pool \in Pools : \E slice \in Slices(PreferredTransport(pool)) :
             \E r \in Reports(ProbeRounds(pool, slice)) : \E new :
               /\ new \subseteq PreferredTransport(r.alive)
               /\ cyc' = [cyc EXCEPT !.pc = "choose", !.found = new]
      BY <1>9, <3>1 DEF Probe
    <3>3. PICK slice \in Slices(PreferredTransport(pool)) :
             \E r \in Reports(ProbeRounds(pool, slice)) : \E new :
               /\ new \subseteq PreferredTransport(r.alive)
               /\ cyc' = [cyc EXCEPT !.pc = "choose", !.found = new]
      BY <3>2
    <3>4. PICK r \in Reports(ProbeRounds(pool, slice)) : \E new :
               /\ new \subseteq PreferredTransport(r.alive)
               /\ cyc' = [cyc EXCEPT !.pc = "choose", !.found = new]
      BY <3>3
    <3>5. r.alive \subseteq All
      BY ReportsWithin
    <3>6. QED BY <3>4, <3>5, PreferringWithin
  <2>2. QED BY <1>9, <2>1 DEF Cycling, Probe
<1>10. CASE Choose
  <2>1. CASE \E usable : PassDone(usable)
    BY <2>1, PassEnds
  <2>2. ASSUME ~cyc.keep, NEW pool, NEW prefer, NEW new \in Authenticated(pool, cyc.found, prefer),
               new # {}, cyc' = [cyc EXCEPT !.pc = "apply", !.found = new]
        PROVE  Cycling'
    <3>1. new \subseteq All
      BY <2>2, AuthenticatedWithin DEF Cycling
    <3>2. cyc.keep = FALSE
      BY <1>10, <2>2 DEF Choose, Cycling
    <3>3. QED BY <2>2, <3>1, <3>2 DEF Cycling
  <2>3. QED BY <1>10, <2>1, <2>2 DEF Choose
<1>11. CASE Apply
  <2>1. CASE PassFailed \/ \E usable : PassDone(usable)
    BY <2>1, PassEnds
  <2>2. CASE cyc' = [cyc EXCEPT !.pc = "show"]
    BY <1>11, <2>2 DEF Cycling, Apply
  <2>3. QED BY <1>11, <2>1, <2>2 DEF Apply
<1>12. CASE Show
  BY <1>12, PassEnds, ZenonT(60) DEF Show
<1>13. QED BY <1>1, <1>2, <1>3, <1>4, <1>5, <1>6, <1>7, <1>8, <1>9, <1>10, <1>11, <1>12, SMTT(30)
  DEF MaintNext, Upkeep

\* The store's counters stay below their limits: a bridge that reaches one is
\* forgotten with its counters.
LEMMA CountingStep ==
    ASSUME MaintInv, [MaintNext]_maintvars
    PROVE  Counting'
<1> USE DEF MaintInv
<1>1. count \in [All -> Counter] /\ MaxTcp \in Nat \ {0} /\ MaxCircuit \in Nat \ {0}
  BY MaintenanceAssumption DEF Counting
<1>2. CASE count' = count
  BY <1>1, <1>2 DEF Counting
<1>3. CASE Drain
  <2>1. ASSUME NEW c \in [All -> 0 .. MaxCircuit],
               count' = [b \in All |-> [count[b] EXCEPT !.circ = c[b]]]
        PROVE  Counting'
    BY <1>1, <2>1 DEF Counting, Counter
  <2>2. QED BY <1>2, <1>3, <2>1 DEF Drain
<1>4. CASE Probe
  <2>1. ASSUME NEW alive, NEW blamed, count' = Pruned(Noted(alive, blamed))
        PROVE  Counting'
    <3> DEFINE seen == Noted(alive, blamed)
    <3>1. \A b \in All : seen[b] \in [tcp : 0 .. MaxTcp, circ : 0 .. MaxCircuit]
      BY <1>1, SMTT(30) DEF Noted, Counter
    <3> HIDE DEF seen
    <3>2. count' = [b \in All |-> IF b \in Dead(seen) THEN [tcp |-> 0, circ |-> 0] ELSE seen[b]]
      BY <2>1 DEF Pruned, seen
    <3>3. ASSUME NEW b \in All PROVE count'[b] \in Counter
      <4>1. CASE b \in Dead(seen)
        BY <1>1, <3>2, <4>1, SMTT(30) DEF Counter
      <4>2. CASE b \notin Dead(seen)
        BY <1>1, <3>1, <3>2, <4>2, SMTT(30) DEF Counter, Dead
      <4>3. QED BY <4>1, <4>2, ZenonT(60)
    <3>4. QED BY <3>2, <3>3 DEF Counting
  <2>2. QED BY <1>2, <1>4, <2>1 DEF Probe
<1>5. CASE Choose
  <2>1. ASSUME NEW new, count' = [b \in All |-> IF b \in new THEN [count[b] EXCEPT !.tcp = 0] ELSE count[b]]
        PROVE  Counting'
    BY <1>1, <2>1, SMTT(30) DEF Counting, Counter
  <2>2. QED BY <1>2, <1>5, <2>1 DEF Choose
<1>6. QED BY <1>2, <1>3, <1>4, <1>5, ZenonT(60)
  DEF MaintNext, Upkeep, Request, Recover, Verdict, TimersOut, Wake, Load, Discover, Recheck,
      Reload, Route, Apply, Show, maintvars

\* Whether requests are heard follows the count of the last pass.
LEMMA NeededStep ==
    ASSUME MaintInv, [MaintNext]_maintvars
    PROVE  Belled' /\ (cyc'.pc = "discover" => (bell'.needed <=> NeedsRefresh(cyc.usable)'))
<1> DEFINE Heard == Belled' /\ (cyc'.pc = "discover" => (bell'.needed <=> NeedsRefresh(cyc.usable)'))
<1> USE DEF MaintInv
<1>1. ASSUME NEW u, PassDone(u), UNCHANGED <<want, mine>> PROVE Heard
  <2>1. Belled' /\ bell'.needed = NeedsRefresh(u)
    BY <1>1 DEF PassDone, Belled
  <2>2. cyc' = Resting \/ cyc' = [Resting EXCEPT !.pc = "discover", !.cfg = cyc.cfg, !.usable = u]
    BY <1>1 DEF PassDone
  <2>3. cyc'.pc = "discover" => cyc'.usable = u
    <3>1. Resting.pc # "discover" /\ [Resting EXCEPT !.pc = "discover", !.cfg = cyc.cfg, !.usable = u].usable = u
      BY DEF Resting
    <3>2. QED BY <2>2, <3>1
  <2>4. QED BY <1>1, <2>1, <2>3 DEF NeedsRefresh, PreferredMissing, Preferring
<1>2. ASSUME Failed PROVE Heard
  <2>1. cyc' = Resting /\ bell' = [bell EXCEPT !.refreshDue = FALSE]
    BY <1>2 DEF Failed
  <2>2. QED BY <2>1 DEF Resting, Belled
<1>3. ASSUME PassFailed, UNCHANGED <<want, mine>> PROVE Heard
  BY <1>1, <1>2, <1>3 DEF PassFailed
<1>4. ASSUME NEW pc \in {"load", "drain", "reload", "route", "probe", "choose", "apply", "show"}, cyc'.pc = pc, Belled'
      PROVE  Heard
  BY <1>4
<1>5. CASE Request \/ Recover \/ Verdict \/ TimersOut \/ UNCHANGED maintvars
  <2>1. UNCHANGED <<cyc, want, mine>>
    BY <1>5 DEF Request, Recover, Verdict, TimersOut, maintvars
  <2>2. Belled' /\ bell'.needed = bell.needed
    BY <1>5 DEF Request, Recover, Verdict, TimersOut, maintvars, Belled
  <2>3. QED BY <2>1, <2>2 DEF MaintenanceInv, NeedsRefresh, PreferredMissing, Preferring
<1>6. CASE Wake \/ Recheck
  <2>1. cyc'.pc \in {"load", "drain"}
    BY <1>6 DEF Wake, Recheck, Resting, Cycling
  <2>2. Belled'
    BY <1>6 DEF Wake, Recheck, Belled
  <2>3. QED BY <2>1, <2>2, <1>4
<1>7. CASE Load \/ Reload
  <2>1. CASE bell' = bell /\ cyc'.pc = "drain"
    BY <2>1, <1>4 DEF Belled
  <2>2. QED BY <1>7, <1>2, <2>1 DEF Load, Reload, Cycling
<1>8. CASE Discover
  <2>1. CASE bell' = [bell EXCEPT !.needed = NeedsRefresh(cyc.usable), !.refreshDue = FALSE] /\ cyc' = Resting
    BY <2>1 DEF Belled, Resting
  <2>2. CASE bell' = bell /\ cyc' = [cyc EXCEPT !.pc = "reload"]
    BY <2>2, <1>4 DEF Belled, Cycling
  <2>3. QED BY <1>8, <1>2, <2>1, <2>2 DEF Discover
<1>9. CASE Drain
  <2>1. CASE bell' = bell /\ cyc' = [cyc EXCEPT !.pc = "route"]
    BY <2>1, <1>4 DEF Belled, Cycling
  <2>2. QED BY <1>9, <1>3, <2>1 DEF Drain
<1>10. CASE Route \/ Probe
  <2>1. bell' = bell /\ cyc'.pc \in {"probe", "choose"}
    BY <1>10 DEF Route, Probe, Cycling
  <2>2. QED BY <2>1, <1>4 DEF Belled
<1>11. CASE Choose
  <2>1. UNCHANGED <<want, mine>>
    BY <1>11 DEF Choose
  <2>2. CASE bell' = bell /\ \E new : cyc' = [cyc EXCEPT !.pc = "apply", !.found = new]
    <3>1. cyc'.pc = "apply"
      BY <2>2 DEF Cycling
    <3>2. QED BY <2>2, <3>1 DEF Belled
  <2>3. (\E u : PassDone(u)) \/ (bell' = bell /\ \E new : cyc' = [cyc EXCEPT !.pc = "apply", !.found = new])
    BY <1>11, ZenonT(60) DEF Choose
  <2>4. QED BY <1>1, <2>1, <2>2, <2>3
<1>12. CASE Apply
  <2>1. CASE bell' = bell /\ cyc' = [cyc EXCEPT !.pc = "show"]
    BY <2>1, <1>4 DEF Belled, Cycling
  <2>2. QED BY <1>12, <1>1, <1>3, <2>1 DEF Apply
<1>13. CASE Show
  BY <1>13, <1>1 DEF Show
<1>14. QED BY <1>5, <1>6, <1>7, <1>8, <1>9, <1>10, <1>11, <1>12, <1>13, ZenonT(60) DEF MaintNext, Upkeep

\* The client, the loop and the published list stay in step, and nonempty.
LEMMA MaintenanceStep ==
    ASSUME MaintInv, [MaintNext]_maintvars
    PROVE  MaintenanceInv'
<1> USE DEF MaintInv
<1>0. cyc'.pc = "discover" => (bell'.needed <=> NeedsRefresh(cyc.usable)')
  BY NeededStep
<1>1. \A b \in All : count'[b].tcp \in 0 .. MaxTcp - 1 /\ count'[b].circ \in 0 .. MaxCircuit
  BY CountingStep DEF Counting, Counter
<1>2. lines' \subseteq All
  <2>1. lines \subseteq All
    BY DEF MaintenanceInv
  <2>2. ASSUME Discover PROVE lines' \subseteq All
    BY <2>1, <2>2 DEF Discover
  <2>3. ASSUME Probe PROVE lines' \subseteq lines
    BY <2>3 DEF Probe
  <2>4. QED BY <2>1, <2>2, <2>3, ZenonT(60)
    DEF MaintNext, Upkeep, Request, Recover, Verdict, TimersOut, Wake, Load, Recheck, Drain,
        Reload, Route, Choose, Apply, Show, maintvars
<1>3. CASE Apply
  <2>1. CASE UNCHANGED <<arti, mine>>
    BY <1>0, <1>1, <1>2, <1>3, <2>1, ZenonT(60) DEF Apply, MaintenanceInv
  <2>2. CASE arti' = cyc.found /\ mine' = cyc.found /\ cyc' = [cyc EXCEPT !.pc = "show"]
    <3>1. cyc'.pc = "show"
      BY <2>2 DEF Cycling
    <3>2. mine' # {} /\ mine' \subseteq All
      BY <1>3, <2>2 DEF Apply, Cycling
    <3>3. QED BY <1>0, <1>1, <1>2, <2>2, <3>1, <3>2, ZenonT(60) DEF MaintenanceInv
  <2>3. QED BY <1>3, <2>1, <2>2 DEF Apply
<1>4. CASE Show
  BY <1>0, <1>1, <1>2, <1>4, ZenonT(60) DEF Show, MaintenanceInv
<1>5. CASE ~Apply /\ ~Show
  <2>1. UNCHANGED <<mine, arti, shown>>
    BY <1>5 DEF MaintNext, Upkeep, Request, Recover, Verdict, TimersOut, Wake, Load, Discover,
       Recheck, Drain, Reload, Route, Probe, Choose, maintvars
  <2>2. cyc'.pc # "show" => cyc.pc # "show"
    BY <1>5 DEF MaintNext, Upkeep, Request, Recover, Verdict, TimersOut, Wake, Load, Discover,
       Recheck, Drain, Reload, Route, Probe, Choose, maintvars
  <2>3. QED BY <1>0, <1>1, <1>2, <2>1, <2>2 DEF MaintenanceInv
<1>6. QED BY <1>3, <1>4, <1>5

-----------------------------------------------------------------------------
\* The invariant holds when the loop starts, whatever was asked for.
LEMMA MaintInvInit ==
    ASSUME NEW CONSTANT wants
    PROVE  MaintInit(wants) => MaintInv
<1> SUFFICES ASSUME MaintInit(wants) PROVE MaintInv
  OBVIOUS
<1>1. Counting
  BY MaintenanceAssumption, SMT DEF MaintInit, Counting, Counter
<1>2. Cycling /\ cyc.pc = "load"
  BY DEF MaintInit, Cycling, Resting
<1>3. MaintenanceInv
  <2>1. \A b \in All : count[b].tcp \in 0 .. MaxTcp - 1 /\ count[b].circ \in 0 .. MaxCircuit
    BY <1>1 DEF Counting, Counter
  <2>2. mine # {} /\ mine \subseteq All /\ lines \subseteq All /\ arti = mine /\ shown = mine
    BY DEF MaintInit, All
  <2>3. QED BY <1>2, <2>1, <2>2 DEF MaintenanceInv
<1>4. Belled
  BY DEF MaintInit, Belled
<1>5. QED BY <1>1, <1>2, <1>3, <1>4 DEF MaintInv

\* Every step of the loop and around it preserves it.
LEMMA MaintInvStep == MaintInv /\ [MaintNext]_maintvars => MaintInv'
BY CyclingStep, CountingStep, NeededStep, MaintenanceStep DEF MaintInv

\* The running client always has bridges, the ones the loop believes in and
\* TorHandle::active_bridges shows outside an activation, whatever bridges
\* answer, which passes fail and how many requests and verdicts come in
\* (refresh_routes, apply_pool); the count a recheck reports decides whether
\* requests are heard; and the store's counters stay within limits.
THEOREM ClientKeepsBridges ==
    ASSUME NEW CONSTANT wants
    PROVE  MaintInit(wants) /\ [][MaintNext]_maintvars => []MaintenanceInv
<1>1. MaintInit(wants) => MaintInv
  BY MaintInvInit
<1>2. MaintInv => MaintenanceInv
  BY ZenonT(60) DEF MaintInv
<1>3. QED BY <1>1, <1>2, MaintInvStep, PTL

\* A route that works and may be kept is neither replaced nor blamed, in any
\* pass (can_keep_current, retain_probe_observations).
THEOREM WorkingRouteIsKept ==
    ASSUME NEW CONSTANT wants
    PROVE  MaintInit(wants) /\ [][MaintNext]_maintvars => RouteKept
<1> DEFINE Keeps == cyc.keep => /\ arti' = arti
                                /\ \A b \in arti : count'[b].tcp <= count[b].tcp
<1>1. MaintInit(wants) => MaintInv
  BY MaintInvInit
<1>2. MaintInv /\ [MaintNext]_maintvars => [Keeps]_maintvars
  <2> SUFFICES ASSUME MaintInv, [MaintNext]_maintvars, cyc.keep
               PROVE  arti' = arti /\ \A b \in arti : count'[b].tcp <= count[b].tcp
    OBVIOUS
  <2>1. cyc.pc \in {"probe", "choose"}
    BY DEF MaintInv, Cycling
  <2>2. arti = mine /\ arti \subseteq All /\ \A b \in All : count[b].tcp \in Nat /\ count[b] \in Counter
    BY MaintenanceAssumption, SMT, SMTT(30) DEF MaintInv, MaintenanceInv, Counting, Counter
  <2>3. CASE UNCHANGED <<arti, count>>
    BY <2>2, <2>3, SMTT(30)
  <2>4. CASE Probe
    <3>1. arti' = arti
      BY <2>4, ZenonT(60) DEF Probe
    <3>2. ASSUME NEW r, NEW blamed \in {{}, Observed(r)},
                 count' = Pruned(Noted(r.alive, blamed)), NEW b \in arti
          PROVE  count'[b].tcp <= count[b].tcp
      <4> DEFINE seen == Noted(r.alive, blamed)
      <4>1. b \notin blamed /\ b \in All
        BY <2>2, <3>2 DEF Observed
      <4>2. seen[b].tcp \in {0, count[b].tcp}
        BY <2>2, <4>1 DEF Counter, Noted
      <4> HIDE DEF seen
      <4>3. count' = [x \in All |-> IF x \in Dead(seen) THEN [tcp |-> 0, circ |-> 0] ELSE seen[x]]
        BY <3>2 DEF Pruned, seen
      <4>4. count'[b].tcp \in {0, count[b].tcp}
        BY <4>1, <4>2, <4>3
      <4>5. QED BY <2>2, <4>1, <4>4, SMTT(30)
    <3>3. CASE count' = count
      BY <2>3, <3>1, <3>3
    <3>4. QED BY <2>4, <3>1, <3>2, <3>3 DEF Probe
  <2>5. QED BY <2>1, <2>3, <2>4, ZenonT(60)
    DEF MaintNext, Upkeep, Request, Recover, Verdict, TimersOut, Wake, Load, Discover, Recheck,
        Reload, Drain, Route, Choose, Apply, Show, maintvars
<1>3. QED BY <1>1, <1>2, MaintInvStep, PTL DEF RouteKept

===============================================================================
