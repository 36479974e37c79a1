----------------------------- MODULE VerifyProofs -----------------------------
(***************************************************************************)
(* Proofs about the bridge checks of the Android engine (BridgeVerify),    *)
(* for any batches, workers, pids and bridges.                             *)
(*                                                                         *)
(* VInv is the inductive invariant.  Only slots of a batch at work are     *)
(* busy (Slotted), each batch at work owns its directory (Claimed), every  *)
(* bridge before next is answered or with exactly one check (Taken), a     *)
(* handle is bound to a live process and, once proved, to a child of the   *)
(* check that holds it (Held), and a child is in sight of its check's      *)
(* sweep, noted as left behind, or missed by a read (Children).            *)
(*                                                                         *)
(* Each action is first shown to be one of a few shapes of step (Moved,    *)
(* Lost, Spawned) and each shape to keep the invariant.                    *)
(***************************************************************************)
EXTENDS BridgeVerify, TLAPS

(* The leaves are first-order and go to Zenon; those about numbers, records *)
(* or sequences say SMT.                                                   *)
USE Zenon

BatchRec == [pc : {"load", "scratch", "work", "over"}, dir : ScratchNames \cup {None}, next : Nat, told : SUBSET Nat]
Unbusy == {"idle", "exit"}
Sweeping == {"open", "prove", "kill"}
CheckRec == [pc : Unbusy \cup Sweeping \cup {"start", "run", "scan", "remove", "answer"},
             idx : Nat, pt : BOOLEAN, aims : SUBSET Pids, at : Pids \cup {None}, held : BOOLEAN]

\* The types, and the slots that take part: those of a batch at work.
VTyped ==
    /\ vleft \in BatchScenarios /\ scratchSeq \in Nat /\ dirs \subseteq ScratchNames
    /\ batch \in [Batches -> BatchRec] /\ check \in [Batches -> [Slots -> CheckRec]]
    /\ procs \in [Pids -> ProcRec \cup {None}]
Slotted ==
    /\ \A b \in Batches, w \in Slots :
         check[b][w].pc # "idle" => w \in Workers(b) /\ batch[b].pc = "work"
    /\ \A b \in Batches : /\ batch[b].told \subseteq Lines
                          /\ batch[b].pc = "load" => b \in vleft.batches
                          /\ batch[b].pc \in {"load", "scratch"} => batch[b].next = 1
\* A batch at work has a directory of its own.
Claimed ==
    /\ StaleDirs \subseteq dirs
    /\ \A b \in Batches : IF batch[b].pc = "work" THEN batch[b].dir \in dirs \ StaleDirs ELSE batch[b].dir = None
    /\ \A b, c \in Batches : b # c /\ batch[b].pc = "work" => batch[b].dir # batch[c].dir
\* A bridge is before next and answered or with one worker, or still to come.
Taken ==
    /\ \A b \in Batches, w, x \in Slots : check[b][w].pc \notin Unbusy =>
         /\ check[b][w].idx < batch[b].next /\ check[b][w].idx \notin batch[b].told
         /\ check[b][w].idx \in Lines
         /\ check[b][x].pc \notin Unbusy /\ w # x => check[b][w].idx # check[b][x].idx
    /\ \A b \in Batches, i \in Lines : batch[b].pc = "work" /\ i < batch[b].next =>
         i \in batch[b].told \/ \E w \in Slots : check[b][w].pc \notin Unbusy /\ check[b][w].idx = i
    /\ \A b \in Batches, w \in Slots, i \in Lines : check[b][w].pc = "exit" =>
         i < batch[b].next \/ i \in batch[b].told
    /\ \A b \in vleft.batches \cap Scans : batch[b].pc = "over" => batch[b].told = Lines
\* A handle is bound to a process that lives, and past the proof to our own.
Held ==
    /\ \A b \in Batches, w \in Slots : check[b][w].held =>
         /\ check[b][w].at \in Pids /\ procs[check[b][w].at] # None
         /\ check[b][w].pc \in {"prove", "kill"}
         /\ check[b][w].pc = "kill" => procs[check[b][w].at].of = Id(b, w)
    /\ \A k \in kills : k[1] = k[2]
\* A child none of whose reads failed is still looked for by the sweep of its
\* check, or noted.
Covers(c, p) ==
    \/ c.pc \in {"run", "scan"}
    \/ c.pc \in Sweeping /\ (p \in c.aims \/ (c.held /\ p = c.at))
Tracked(p, b, i) ==
    /\ vleft.pt /\ batch[b].pc \in {"work", "over"} /\ i < batch[b].next
    /\ \/ <<b, i>> \in noted
       \/ \E w \in Slots : check[b][w].idx = i /\ check[b][w].pc \notin Unbusy /\ Covers(check[b][w], p)
Children == \A p \in Pids, b \in Batches, i \in Nat :
                procs[p] # None /\ procs[p].of = <<b, i>> /\ ~procs[p].missed => Tracked(p, b, i)
\* A transport runs only where there is one.
Equipped == \A b \in Batches, w \in Slots : check[b][w].pc = "run" /\ check[b][w].pt => vleft.pt
VInv == VTyped /\ Slotted /\ Claimed /\ Taken /\ Held /\ Children /\ Equipped

-----------------------------------------------------------------------------
\* What SetCheck and SetBatch write.
LEMMA CheckSet ==
    ASSUME VTyped, NEW b \in Batches, NEW w \in Slots, NEW r \in CheckRec, SetCheck(b, w, r)
    PROVE /\ check' \in [Batches -> [Slots -> CheckRec]]
          /\ \A x \in Batches, y \in Slots : check'[x][y] = IF x = b /\ y = w THEN r ELSE check[x][y]
<1>1. check \in [Batches -> [Slots -> CheckRec]] BY DEF VTyped
<1>2. check' = [check EXCEPT ![b] = [check[b] EXCEPT ![w] = r]] BY <1>1 DEF SetCheck
<1>3. [check[b] EXCEPT ![w] = r] \in [Slots -> CheckRec] BY <1>1
<1> QED BY <1>1, <1>2, <1>3

LEMMA BatchSet ==
    ASSUME VTyped, NEW b \in Batches, NEW r \in BatchRec, SetBatch(b, r)
    PROVE /\ batch' \in [Batches -> BatchRec]
          /\ \A x \in Batches : batch'[x] = IF x = b THEN r ELSE batch[x]
BY DEF VTyped, SetBatch

LEMMA CheckFields ==
    ASSUME VTyped, NEW b \in Batches, NEW w \in Slots
    PROVE /\ check[b][w] \in CheckRec /\ batch[b] \in BatchRec
          /\ vleft.lines \in Nat /\ Lines \subseteq Nat
<1>1. check[b][w] \in CheckRec /\ batch[b] \in BatchRec BY DEF VTyped
<1>2. vleft.lines \in Nat BY DEF VTyped, BatchScenarios
<1> QED BY <1>1, <1>2, SMT DEF Lines

\* The processes stay, some of them missed by a read.
Aged ==
    /\ procs' \in [Pids -> ProcRec \cup {None}]
    /\ \A p \in Pids : /\ procs'[p] = None <=> procs[p] = None
                       /\ procs[p] # None => /\ procs'[p].of = procs[p].of
                                             /\ procs[p].missed => procs'[p].missed
LEMMA SameAged == ASSUME VTyped, UNCHANGED procs PROVE Aged
BY DEF VTyped, Aged
LEMMA MissAged ==
    ASSUME VTyped, NEW id, NEW S, procs' = Miss(id, S)
    PROVE Aged /\ \A p \in S \cap Pids : procs'[p] # None /\ procs'[p].of = id => procs'[p].missed
<1>1. procs \in [Pids -> ProcRec \cup {None}] BY DEF VTyped
<1>2. ASSUME NEW p \in Pids, procs[p] # None, procs[p].of = id, p \in S
      PROVE LET n == [procs[p] EXCEPT !.missed = TRUE]
            IN procs'[p] = n /\ n \in ProcRec /\ n.of = procs[p].of /\ n.missed
  <2>1. procs[p] \in ProcRec BY <1>1, <1>2
  <2>2. procs'[p] = [procs[p] EXCEPT !.missed = TRUE] BY <1>2 DEF Miss
  <2> QED BY <2>1, <2>2 DEF ProcRec
<1>3. None \notin ProcRec BY VerifyAssumption
<1>4. \A p \in Pids : ~(procs[p] # None /\ procs[p].of = id /\ p \in S) => procs'[p] = procs[p]
  BY DEF Miss
<1>5. procs' \in [Pids -> ProcRec \cup {None}]
  <2>1. \A p \in Pids : procs'[p] \in ProcRec \cup {None} BY <1>1, <1>2, <1>4
  <2> QED BY <2>1 DEF Miss
<1>6. ASSUME NEW p \in Pids
      PROVE /\ procs'[p] = None <=> procs[p] = None
            /\ procs[p] # None => procs'[p].of = procs[p].of /\ (procs[p].missed => procs'[p].missed)
            /\ p \in S /\ procs'[p] # None /\ procs'[p].of = id => procs'[p].missed
  <2>1. CASE procs[p] # None /\ procs[p].of = id /\ p \in S BY <1>2, <1>3, <2>1
  <2>2. CASE ~(procs[p] # None /\ procs[p].of = id /\ p \in S) BY <1>4, <2>2
  <2> QED BY <2>1, <2>2
<1> QED BY <1>5, <1>6 DEF Aged

\* A busy check of the batch goes on with its bridge: its sweep never loses
\* sight of a child without noting it, but by a read that failed.
Moved(b, w, r) ==
    /\ SetCheck(b, w, r) /\ r \in CheckRec /\ r.idx = check[b][w].idx
    /\ check[b][w].pc \notin Unbusy /\ r.pc \notin Unbusy
    /\ UNCHANGED <<vleft, scratchSeq, dirs, batch, kills>> /\ Aged /\ noted \subseteq noted'
    /\ r.held => /\ r.at \in Pids /\ procs[r.at] # None /\ r.pc \in {"prove", "kill"}
                 /\ r.pc = "kill" => procs[r.at].of = Id(b, w)
    /\ r.pc = "run" /\ r.pt => vleft.pt
    /\ \A p \in Pids : procs'[p] # None /\ procs'[p].of = Id(b, w) /\ ~procs'[p].missed =>
         Id(b, w) \in noted' \/ Covers(r, p)

LEMMA MovedKeeps ==
    ASSUME VInv, NEW b \in Batches, NEW w \in Slots, NEW r, Moved(b, w, r) PROVE VInv'
<1>1. /\ check' \in [Batches -> [Slots -> CheckRec]]
      /\ \A x \in Batches, y \in Slots : check'[x][y] = IF x = b /\ y = w THEN r ELSE check[x][y]
  BY CheckSet, SMT DEF VInv, Moved
<1>2. /\ UNCHANGED <<vleft, scratchSeq, dirs, batch, kills>> /\ Aged /\ noted \subseteq noted'
      /\ r \in CheckRec /\ r.idx = check[b][w].idx /\ check[b][w].pc \notin Unbusy /\ r.pc \notin Unbusy
  BY DEF Moved
<1>3. Lines' = Lines /\ \A x \in Batches, y \in Slots : check'[x][y].idx = check[x][y].idx
                            /\ (check'[x][y].pc \in Unbusy <=> check[x][y].pc \in Unbusy)
                            /\ (check'[x][y].pc \in Unbusy => check'[x][y] = check[x][y])
  BY <1>1, <1>2, ZenonT(60) DEF Lines
<1>4. VTyped' BY <1>1, <1>2 DEF VInv, VTyped, Aged
<1>5. Slotted' BY <1>2, <1>3, SMT DEF VInv, Slotted, Unbusy
<1>6. Claimed' BY <1>2 DEF VInv, Claimed
<1>7. Taken'
  <2>1. Taken BY DEF VInv
  <2>2. \A x \in Batches, y \in Slots : check'[x][y].pc = "exit" => check[x][y].pc = "exit" BY <1>3 DEF Unbusy
  <2> QED BY <2>1, <2>2, <1>2, <1>3, SMT, SMTT(30) DEF Taken
<1>8. Held'
  <2>1. Held BY DEF VInv
  <2>2. \A x \in Batches, y \in Slots : Id(x, y)' = Id(x, y) BY <1>3 DEF Id
  <2>3. r.held => /\ r.at \in Pids /\ procs[r.at] # None /\ r.pc \in {"prove", "kill"}
                  /\ r.pc = "kill" => procs[r.at].of = Id(b, w)
    BY DEF Moved
  <2>4. \A p \in Pids : procs[p] # None => procs'[p] # None /\ procs'[p].of = procs[p].of BY <1>2 DEF Aged
  <2> QED BY <2>1, <2>2, <2>3, <2>4, <1>1, <1>2, SMT DEF Held
<1>9. Children'
  <2> SUFFICES ASSUME NEW p \in Pids, NEW x \in Batches, NEW i \in Nat, procs'[p] # None, procs'[p].of = <<x, i>>,
                      ~procs'[p].missed
               PROVE Tracked(p, x, i)'
    BY DEF Children
  <2>1. Tracked(p, x, i) BY <1>2 DEF VInv, Children, Aged
  <2>2. CASE <<x, i>> \in noted' BY <1>2, <2>1, <2>2 DEF Tracked
  <2>3. CASE <<x, i>> \notin noted'
    <3>1. PICK y \in Slots : check[x][y].idx = i /\ check[x][y].pc \notin Unbusy /\ Covers(check[x][y], p)
      BY <2>1, <2>3, <1>2 DEF Tracked
    <3>2. CASE x = b /\ y = w
      <4>1. Covers(r, p) BY <1>2, <2>3, <3>1, <3>2, ZenonT(60) DEF Moved, Id
      <4> QED BY <4>1, <2>1, <3>1, <3>2, <1>1, <1>2, SMTT(30) DEF Covers, Tracked
    <3>3. CASE ~(x = b /\ y = w) BY <2>1, <3>1, <3>3, <1>1, <1>2, SMT DEF Covers, Tracked
    <3> QED BY <3>2, <3>3
  <2> QED BY <2>2, <2>3
<1>10. Equipped' BY <1>1, <1>2, SMT DEF VInv, Equipped, Moved
<1> QED BY <1>4, <1>5, <1>6, <1>7, <1>8, <1>9, <1>10 DEF VInv

\* A child of a busy check is in sight of that check's sweep, or noted.
LEMMA OwnChild ==
    ASSUME VInv, NEW b \in Batches, NEW w \in Slots, check[b][w].pc \notin Unbusy,
           NEW p \in Pids, procs[p] # None, procs[p].of = Id(b, w), ~procs[p].missed
    PROVE Id(b, w) \in noted \/ Covers(check[b][w], p)
<1> DEFINE i == check[b][w].idx
<1>1. i \in Nat BY CheckFields DEF VInv, CheckRec
<1>2. Tracked(p, b, i) BY <1>1 DEF VInv, Children, Id
<1>3. CASE Id(b, w) \notin noted
  <2>1. PICK y \in Slots : check[b][y].idx = i /\ check[b][y].pc \notin Unbusy /\ Covers(check[b][y], p)
    BY <1>2, <1>3 DEF Tracked, Id
  <2>2. y = w BY <2>1, SMT DEF VInv, Taken
  <2> QED BY <2>1, <2>2
<1> QED BY <1>3

LEMMA StartMoves ==
    ASSUME VInv, NEW b \in Batches, NEW w \in Slots, StartCheck(b, w) PROVE \E r : Moved(b, w, r)
<1>1. check[b][w] \in CheckRec /\ check[b][w].pc = "start" /\ UNCHANGED <<vleft, scratchSeq, dirs, batch, procs, kills, noted>>
  BY CheckFields DEF VInv, StartCheck
<1>2. ~check[b][w].held BY <1>1 DEF VInv, Held
<1>3. \A p \in Pids : procs[p] # None /\ procs[p].of = Id(b, w) /\ ~procs[p].missed => Id(b, w) \in noted
  BY <1>1, OwnChild DEF Covers, Sweeping, Unbusy
<1>4. CASE SetCheck(b, w, [check[b][w] EXCEPT !.pc = "answer"])
  <2> DEFINE r == [check[b][w] EXCEPT !.pc = "answer"]
  <2>1. /\ r \in CheckRec /\ r.idx = check[b][w].idx /\ ~r.held /\ r.pc = "answer"
    BY <1>1, <1>2 DEF CheckRec
  <2> QED BY <1>1, <1>3, <1>4, <2>1, SameAged DEF VInv, Moved, Unbusy
<1>5. CASE ~(check[b][w].pt /\ ~vleft.pt) /\ SetCheck(b, w, [check[b][w] EXCEPT !.pc = "run"])
  <2> DEFINE r == [check[b][w] EXCEPT !.pc = "run"]
  <2>1. /\ r \in CheckRec /\ r.idx = check[b][w].idx /\ ~r.held /\ r.pc = "run" /\ r.pt = check[b][w].pt
    BY <1>1, <1>2 DEF CheckRec
  <2> QED BY <1>1, <1>3, <1>5, <2>1, SameAged DEF VInv, Moved, Unbusy
<1> QED BY <1>4, <1>5 DEF StartCheck

LEMMA RunMoves ==
    ASSUME VInv, NEW b \in Batches, NEW w \in Slots, RunEnds(b, w) PROVE \E r : Moved(b, w, r)
<1> DEFINE r == [check[b][w] EXCEPT !.pc = "scan"]
<1>1. check[b][w] \in CheckRec /\ check[b][w].pc = "run" /\ UNCHANGED <<vleft, scratchSeq, dirs, batch, procs, kills, noted>>
  BY CheckFields DEF VInv, RunEnds
<1>2. ~check[b][w].held BY <1>1 DEF VInv, Held
<1>3. r \in CheckRec /\ r.idx = check[b][w].idx /\ ~r.held /\ r.pc = "scan" BY <1>1, <1>2 DEF CheckRec
<1>4. \A p \in Pids : Covers(r, p) BY <1>3 DEF Covers
<1> QED BY <1>1, <1>3, <1>4, SameAged DEF VInv, Moved, Unbusy, RunEnds

LEMMA RemoveMoves ==
    ASSUME VInv, NEW b \in Batches, NEW w \in Slots, RemoveCheckDir(b, w) PROVE \E r : Moved(b, w, r)
<1> DEFINE r == [check[b][w] EXCEPT !.pc = "answer"]
<1>1. check[b][w] \in CheckRec /\ check[b][w].pc = "remove" /\ UNCHANGED <<vleft, scratchSeq, dirs, batch, procs, kills, noted>>
  BY CheckFields DEF VInv, RemoveCheckDir
<1>2. ~check[b][w].held BY <1>1 DEF VInv, Held
<1>3. r \in CheckRec /\ r.idx = check[b][w].idx /\ ~r.held /\ r.pc = "answer" BY <1>1, <1>2 DEF CheckRec
<1>4. \A p \in Pids : procs[p] # None /\ procs[p].of = Id(b, w) /\ ~procs[p].missed => Id(b, w) \in noted
  BY <1>1, OwnChild DEF Covers, Sweeping, Unbusy
<1> QED BY <1>1, <1>3, <1>4, SameAged DEF VInv, Moved, Unbusy, RemoveCheckDir

\* The scan finds every child of the check whose reads succeed.
LEMMA ScanMoves ==
    ASSUME VInv, NEW b \in Batches, NEW w \in Slots, ScanChildren(b, w) PROVE \E r : Moved(b, w, r)
<1> DEFINE id == Id(b, w)
<1>0. PICK skipped, dark :
        /\ noted' = IF ~vleft.pidfd \/ (vleft.pt /\ dark # {}) THEN noted \cup {id} ELSE noted
        /\ procs' = Miss(id, skipped)
        /\ SetCheck(b, w, [check[b][w] EXCEPT
                             !.pc = IF vleft.pidfd THEN "open" ELSE "remove",
                             !.aims = IF vleft.pidfd THEN Targets(id, Listed(skipped) \ dark) ELSE {}])
  BY DEF ScanChildren
<1> DEFINE T == Targets(id, Listed(skipped) \ dark)
           r == [check[b][w] EXCEPT !.pc = IF vleft.pidfd THEN "open" ELSE "remove",
                                    !.aims = IF vleft.pidfd THEN T ELSE {}]
<1>1. /\ check[b][w] \in CheckRec /\ check[b][w].pc = "scan" /\ SetCheck(b, w, r)
      /\ UNCHANGED <<vleft, scratchSeq, dirs, batch, kills>>
  BY <1>0, CheckFields DEF VInv, ScanChildren
<1>2. ~check[b][w].held BY <1>1 DEF VInv, Held
<1>3. T \subseteq Pids BY DEF Targets, Listed
<1>4. /\ r \in CheckRec /\ r.idx = check[b][w].idx /\ ~r.held
      /\ r.pc = (IF vleft.pidfd THEN "open" ELSE "remove") /\ (vleft.pidfd => r.aims = T)
  BY <1>1, <1>2, <1>3 DEF CheckRec, Sweeping, Unbusy
<1>a. Aged /\ \A p \in skipped \cap Pids : procs'[p] # None /\ procs'[p].of = id => procs'[p].missed
  BY <1>0, MissAged DEF VInv
<1>5. ASSUME NEW p \in Pids, procs'[p] # None, procs'[p].of = id, ~procs'[p].missed
      PROVE  id \in noted' \/ Covers(r, p)
  <2>1. check[b][w].idx \in Nat BY <1>1 DEF CheckRec
  <2>2. procs[p] # None /\ procs[p].of = id /\ ~procs[p].missed /\ p \notin skipped BY <1>a, <1>5 DEF Aged
  <2>3. vleft.pt BY <2>1, <2>2 DEF VInv, Children, Tracked, Id
  <2>4. CASE ~vleft.pidfd \/ dark # {} BY <1>0, <2>3, <2>4
  <2>5. CASE vleft.pidfd /\ dark = {}
    <3>1. p \in T BY <2>2, <2>3, <2>5 DEF Targets, Listed
    <3> QED BY <3>1, <1>4, <2>5 DEF Covers, Sweeping
  <2> QED BY <2>4, <2>5
<1> HIDE DEF id, r
<1>6. noted \subseteq noted' BY <1>0
<1> QED BY <1>1, <1>a, <1>4, <1>5, <1>6 DEF Moved, Unbusy, id

\* A target is left only when its process is gone, held or noted.
LEMMA OpenMoves ==
    ASSUME VInv, NEW b \in Batches, NEW w \in Slots, OpenHandle(b, w) PROVE \E r : Moved(b, w, r)
<1> DEFINE c == check[b][w]
           id == Id(b, w)
<1>1. /\ c \in CheckRec /\ c.pc = "open" /\ UNCHANGED <<vleft, scratchSeq, dirs, batch, procs, kills>>
  BY CheckFields DEF VInv, OpenHandle
<1>2. ~c.held BY <1>1 DEF VInv, Held
<1>3. \A p \in Pids : procs[p] # None /\ procs[p].of = id /\ ~procs[p].missed =>
        id \in noted \/ p \in c.aims
  BY <1>1, <1>2, OwnChild DEF Covers, Unbusy
<1>4. CASE c.aims = {} /\ SetCheck(b, w, [c EXCEPT !.pc = "remove"]) /\ UNCHANGED noted
  <2> DEFINE r == [c EXCEPT !.pc = "remove"]
  <2>1. r \in CheckRec /\ r.idx = c.idx /\ ~r.held /\ r.pc = "remove" BY <1>1, <1>2 DEF CheckRec
  <2> QED BY <1>1, <1>3, <1>4, <2>1, SameAged DEF VInv, Moved, Unbusy
<1>5. ASSUME NEW p \in c.aims, procs[p] = None, SetCheck(b, w, [c EXCEPT !.aims = @ \ {p}]), UNCHANGED noted
      PROVE \E r : Moved(b, w, r)
  <2> DEFINE r == [c EXCEPT !.aims = @ \ {p}]
  <2>1. r \in CheckRec /\ r.idx = c.idx /\ ~r.held /\ r.pc = "open" /\ r.aims = c.aims \ {p} BY <1>1, <1>2 DEF CheckRec
  <2>2. \A q \in Pids : procs[q] # None /\ procs[q].of = id /\ ~procs[q].missed => id \in noted' \/ Covers(r, q)
    BY <1>3, <1>5, <2>1 DEF Covers, Sweeping
  <2> QED BY <1>1, <1>5, <2>1, <2>2, SameAged DEF VInv, Moved, Unbusy
<1>6. ASSUME NEW p \in c.aims, procs[p] # None, UNCHANGED noted,
             SetCheck(b, w, [[c EXCEPT !.aims = @ \ {p}] EXCEPT !.pc = "prove", !.at = p, !.held = TRUE])
      PROVE \E r : Moved(b, w, r)
  <2> DEFINE r == [[c EXCEPT !.aims = @ \ {p}] EXCEPT !.pc = "prove", !.at = p, !.held = TRUE]
  <2>0. p \in Pids BY <1>1 DEF CheckRec
  <2>1. /\ r \in CheckRec /\ r.idx = c.idx /\ r.held /\ r.pc = "prove" /\ r.at = p /\ r.aims = c.aims \ {p}
    BY <1>1, <1>2, <2>0 DEF CheckRec, Sweeping
  <2>2. \A q \in Pids : procs[q] # None /\ procs[q].of = id /\ ~procs[q].missed => id \in noted' \/ Covers(r, q)
    BY <1>3, <1>6, <2>1 DEF Covers, Sweeping
  <2> QED BY <1>1, <1>6, <2>0, <2>1, <2>2, SameAged DEF VInv, Moved, Unbusy
<1>7. ASSUME NEW p \in c.aims, noted' = noted \cup {id},
             \/ SetCheck(b, w, [c EXCEPT !.aims = @ \ {p}])
             \/ SetCheck(b, w, [[c EXCEPT !.aims = @ \ {p}] EXCEPT !.pc = "remove", !.aims = {}])
      PROVE \E r : Moved(b, w, r)
  <2> DEFINE r == [c EXCEPT !.aims = @ \ {p}]
             s == [[c EXCEPT !.aims = @ \ {p}] EXCEPT !.pc = "remove", !.aims = {}]
  <2>1. r \in CheckRec /\ r.idx = c.idx /\ ~r.held /\ r.pc = "open" BY <1>1, <1>2 DEF CheckRec
  <2>2. s \in CheckRec /\ s.idx = c.idx /\ ~s.held /\ s.pc = "remove" BY <1>1, <1>2 DEF CheckRec
  <2>3. Moved(b, w, r) \/ Moved(b, w, s)
    BY <1>1, <1>7, <2>1, <2>2, SameAged DEF VInv, Moved, Unbusy
  <2> QED BY <2>3
<1> QED BY <1>4, <1>5, <1>6, <1>7 DEF OpenHandle

\* Only a child of the check goes on to be killed; what the proof rejects is
\* not one, or one whose environment could not be read.
LEMMA RevalidateMoves ==
    ASSUME VInv, NEW b \in Batches, NEW w \in Slots, Revalidate(b, w) PROVE \E r : Moved(b, w, r)
<1> DEFINE c == check[b][w]
           id == Id(b, w)
           ours == procs[c.at] # None /\ procs[c.at].of = id
<1>0. PICK failed : /\ procs' = Miss(id, failed) /\ failed \subseteq {c.at}
                    /\ SetCheck(b, w, IF ours /\ failed = {} THEN [c EXCEPT !.pc = "kill"]
                                      ELSE [c EXCEPT !.pc = "open", !.at = None, !.held = FALSE])
  BY DEF Revalidate, Failing
<1>1. /\ c \in CheckRec /\ c.pc = "prove" /\ UNCHANGED <<vleft, scratchSeq, dirs, batch, kills, noted>>
  BY CheckFields DEF VInv, Revalidate
<1>a. Aged /\ \A p \in failed \cap Pids : procs'[p] # None /\ procs'[p].of = id => procs'[p].missed
  BY <1>0, MissAged DEF VInv
<1>2. c.held => c.at \in Pids /\ procs[c.at] # None BY DEF VInv, Held
<1>b. \A p \in Pids : procs'[p] # None /\ procs'[p].of = id /\ ~procs'[p].missed =>
         procs[p] # None /\ procs[p].of = id /\ ~procs[p].missed /\ p \notin failed
  BY <1>a DEF Aged
<1>3. \A p \in Pids : procs'[p] # None /\ procs'[p].of = id /\ ~procs'[p].missed => id \in noted \/ Covers(c, p)
  BY <1>1, <1>b, OwnChild DEF Unbusy
<1>4. CASE ours /\ SetCheck(b, w, [c EXCEPT !.pc = "kill"])
  <2> DEFINE r == [c EXCEPT !.pc = "kill"]
  <2>1. r \in CheckRec /\ r.idx = c.idx /\ r.held = c.held /\ r.pc = "kill" /\ r.at = c.at /\ r.aims = c.aims
    BY <1>1 DEF CheckRec, Sweeping
  <2>2. \A p \in Pids : Covers(c, p) => Covers(r, p) BY <1>1, <2>1 DEF Covers, Sweeping
  <2> QED BY <1>1, <1>a, <1>2, <1>3, <1>4, <2>1, <2>2, ZenonT(60) DEF Moved, Unbusy
<1>5. CASE (~ours \/ failed # {}) /\ SetCheck(b, w, [c EXCEPT !.pc = "open", !.at = None, !.held = FALSE])
  <2> DEFINE r == [c EXCEPT !.pc = "open", !.at = None, !.held = FALSE]
  <2>1. r \in CheckRec /\ r.idx = c.idx /\ ~r.held /\ r.pc = "open" /\ r.aims = c.aims
    BY <1>1 DEF CheckRec, Sweeping
  <2>2. \A p \in Pids : procs[p] # None /\ procs[p].of = id /\ p \notin failed /\ Covers(c, p) => Covers(r, p)
    <3>1. failed # {} => c.at \in failed BY <1>0
    <3> QED BY <1>1, <1>5, <2>1, <3>1 DEF Covers, Sweeping
  <2> QED BY <1>1, <1>a, <1>b, <1>3, <1>5, <2>1, <2>2 DEF Moved, Unbusy
<1> QED BY <1>0, <1>4, <1>5

\* A process is gone, by itself or by a signal: no handle is bound to its pid
\* any more, and no other child drops out of sight.
Lost(p) ==
    /\ procs' = [procs EXCEPT ![p] = None] /\ check' \in [Batches -> [Slots -> CheckRec]]
    /\ UNCHANGED <<vleft, scratchSeq, dirs, batch, noted>>
    /\ \A k \in kills' : k \in kills \/ k[1] = k[2]
    /\ \A x \in Batches, y \in Slots :
         /\ check'[x][y].idx = check[x][y].idx /\ check'[x][y].pt = check[x][y].pt
         /\ check'[x][y].pc = check[x][y].pc \/ {check[x][y].pc, check'[x][y].pc} \subseteq Sweeping
         /\ check'[x][y].held => /\ check[x][y].held /\ check'[x][y].pc = check[x][y].pc
                                 /\ check'[x][y].at = check[x][y].at /\ check[x][y].at # p
         /\ \A q \in Pids \ {p} : Covers(check[x][y], q) => Covers(check'[x][y], q)

LEMMA LostKeeps == ASSUME VInv, NEW p \in Pids, Lost(p) PROVE VInv'
<1>1. /\ procs' = [procs EXCEPT ![p] = None] /\ check' \in [Batches -> [Slots -> CheckRec]]
      /\ UNCHANGED <<vleft, scratchSeq, dirs, batch, noted>>
  BY DEF Lost
<1>2. \A x \in Batches, y \in Slots :
         /\ check'[x][y].idx = check[x][y].idx /\ check'[x][y].pt = check[x][y].pt
         /\ check'[x][y].pc = check[x][y].pc \/ {check[x][y].pc, check'[x][y].pc} \subseteq Sweeping
  BY DEF Lost
<1>3. Lines' = Lines /\ \A x \in Batches, y \in Slots : Id(x, y)' = Id(x, y) BY <1>1, <1>2 DEF Lines, Id
<1>4. VTyped /\ VTyped' BY <1>1 DEF VInv, VTyped
<1>5. \A x \in Batches, y \in Slots : /\ check'[x][y].pc \in Unbusy <=> check[x][y].pc \in Unbusy
                                      /\ check'[x][y].pc \notin Sweeping => check'[x][y].pc = check[x][y].pc
  BY <1>2, ZenonT(60) DEF Sweeping, Unbusy
<1>6. Slotted' BY <1>1, <1>3, <1>5 DEF VInv, Slotted, Unbusy, Sweeping
<1>7. Claimed' BY <1>1 DEF VInv, Claimed
<1>8. Taken'
  <2>1. Taken BY DEF VInv
  <2>2. \A x \in Batches, y \in Slots : check'[x][y].pc = "exit" => check[x][y].pc = "exit" BY <1>5 DEF Sweeping
  <2> QED BY <2>1, <2>2, <1>1, <1>2, <1>3, <1>5, SMT, SMTT(30) DEF Taken
<1>9. Held'
  <2>1. Held BY DEF VInv
  <2>2. \A x \in Batches, y \in Slots : check'[x][y].held =>
                                 /\ check[x][y].held /\ check'[x][y].pc = check[x][y].pc
                                 /\ check'[x][y].at = check[x][y].at /\ check[x][y].at # p
    BY DEF Lost
  <2>3. \A k \in kills' : k[1] = k[2] BY <2>1 DEF Lost, Held
  <2>4. \A q \in Pids \ {p} : procs'[q] = procs[q] BY <1>1, <1>4 DEF VTyped
  <2> QED BY <2>1, <2>2, <2>3, <2>4, <1>3, SMT DEF Held
<1>10. Children'
  <2> SUFFICES ASSUME NEW q \in Pids, NEW x \in Batches, NEW i \in Nat, procs'[q] # None, procs'[q].of = <<x, i>>,
                      ~procs'[q].missed
               PROVE Tracked(q, x, i)'
    BY DEF Children
  <2>1. q # p /\ procs'[q] = procs[q] BY <1>1, <1>4 DEF VTyped
  <2>2. Tracked(q, x, i) BY <2>1 DEF VInv, Children
  <2>3. CASE <<x, i>> \in noted BY <2>2, <2>3, <1>1 DEF Tracked
  <2>4. CASE <<x, i>> \notin noted
    <3>1. PICK y \in Slots : check[x][y].idx = i /\ check[x][y].pc \notin Unbusy /\ Covers(check[x][y], q)
      BY <2>2, <2>4 DEF Tracked
    <3>2. Covers(check'[x][y], q) BY <3>1, <2>1, SMT DEF Lost
    <3> QED BY <3>1, <3>2, <2>2, <1>1, <1>2, <1>5 DEF Tracked
  <2> QED BY <2>3, <2>4
<1>11. Equipped' BY <1>1, <1>2, <1>5, SMT DEF VInv, Equipped, Sweeping
<1> QED BY <1>4, <1>6, <1>7, <1>8, <1>9, <1>10, <1>11 DEF VInv

LEMMA ExitKeeps == ASSUME VInv, NEW p \in Pids, ChildExits(p) PROVE VInv'
<1>1. \A x \in Batches, y \in Slots : check[x][y] \in CheckRec BY CheckFields DEF VInv
<1>2. check' = [x \in Batches |-> [y \in Slots |->
                   IF check[x][y].at = p THEN [check[x][y] EXCEPT !.held = FALSE] ELSE check[x][y]]]
  BY DEF ChildExits
<1>3. ASSUME NEW x \in Batches, NEW y \in Slots
      PROVE /\ check'[x][y] \in CheckRec /\ check'[x][y].idx = check[x][y].idx /\ check'[x][y].pt = check[x][y].pt
            /\ check'[x][y].pc = check[x][y].pc /\ check'[x][y].at = check[x][y].at
            /\ check'[x][y].aims = check[x][y].aims
            /\ check'[x][y].held => check[x][y].held /\ check[x][y].at # p
            /\ check[x][y].held /\ check[x][y].at # p => check'[x][y].held
  BY <1>1, <1>2, ZenonT(60) DEF CheckRec
<1>4. check' \in [Batches -> [Slots -> CheckRec]] BY <1>2, <1>3
<1>5. procs' = [procs EXCEPT ![p] = None] /\ UNCHANGED <<vleft, scratchSeq, dirs, batch, kills, noted>> BY DEF ChildExits
<1>6. \A q \in Pids \ {p} : procs'[q] = procs[q] BY <1>5 DEF VInv, VTyped
<1>7. \A x \in Batches, y \in Slots, q \in Pids \ {p} : Covers(check[x][y], q) => Covers(check'[x][y], q)
  BY <1>3, <1>6, SMT DEF Covers
<1>8. Lost(p) BY <1>3, <1>4, <1>5, <1>7, SMT DEF Lost
<1> QED BY <1>8, LostKeeps

\* The signal reaches the child the proof was about.
LEMMA SignalKeeps ==
    ASSUME VInv, NEW b \in Batches, NEW w \in Slots, Signal(b, w) PROVE VInv'
<1> DEFINE c == check[b][w]
           id == Id(b, w)
           r == [c EXCEPT !.pc = "open", !.at = None, !.held = FALSE]
<1>1. /\ c \in CheckRec /\ c.pc = "kill" /\ UNCHANGED <<vleft, scratchSeq, dirs, batch>>
  BY CheckFields DEF VInv, Signal
<1>2. c.held => c.at \in Pids /\ procs[c.at] # None /\ procs[c.at].of = id BY <1>1 DEF VInv, Held
<1>3. r \in CheckRec /\ r.idx = c.idx /\ r.pt = c.pt /\ ~r.held /\ r.pc = "open" /\ r.aims = c.aims
  BY <1>1 DEF CheckRec, Sweeping
<1>4. CASE /\ c.held /\ kills' = kills \cup {<<id, procs[c.at].of>>} /\ procs' = [procs EXCEPT ![c.at] = None]
           /\ check' = [x \in Batches |-> [y \in Slots |->
                          IF x = b /\ y = w THEN r
                          ELSE IF check[x][y].at = c.at THEN [check[x][y] EXCEPT !.held = FALSE] ELSE check[x][y]]]
           /\ UNCHANGED noted
  <2>1. \A x \in Batches, y \in Slots : check[x][y] \in CheckRec BY CheckFields DEF VInv
  <2>2. ASSUME NEW x \in Batches, NEW y \in Slots, ~(x = b /\ y = w)
        PROVE /\ check'[x][y] \in CheckRec /\ check'[x][y].idx = check[x][y].idx /\ check'[x][y].pt = check[x][y].pt
              /\ check'[x][y].pc = check[x][y].pc /\ check'[x][y].at = check[x][y].at
              /\ check'[x][y].aims = check[x][y].aims
              /\ check'[x][y].held => check[x][y].held /\ check[x][y].at # c.at
              /\ check[x][y].held /\ check[x][y].at # c.at => check'[x][y].held
    <3>1. check'[x][y] = IF check[x][y].at = c.at THEN [check[x][y] EXCEPT !.held = FALSE] ELSE check[x][y]
      BY <1>4, <2>2
    <3>2. check[x][y] \in CheckRec BY <2>1
    <3> HIDE DEF c
    <3> QED BY <3>1, <3>2, ZenonT(60) DEF CheckRec
  <2>3. check'[b][w] = r BY <1>4
  <2>4. check' \in [Batches -> [Slots -> CheckRec]]
    <3>1. \A x \in Batches, y \in Slots : check'[x][y] \in CheckRec BY <1>3, <2>2, <2>3, SMT
    <3> QED BY <1>4, <3>1
  <2>5. \A q \in Pids \ {c.at} : procs'[q] = procs[q] BY <1>2, <1>4 DEF VInv, VTyped
  <2>6. ASSUME NEW x \in Batches, NEW y \in Slots, NEW q \in Pids \ {c.at}, Covers(check[x][y], q)
        PROVE Covers(check'[x][y], q)
    <3>1. CASE x = b /\ y = w BY <1>1, <1>3, <2>3, <2>5, <2>6, <3>1 DEF Covers, Sweeping
    <3>2. CASE ~(x = b /\ y = w) BY <2>2, <2>5, <2>6, <3>2, SMT, SMTT(30) DEF Covers
    <3> QED BY <3>1, <3>2
  <2>7. \A k \in kills' : k \in kills \/ k[1] = k[2] BY <1>2, <1>4, SMT
  <2>8. ASSUME NEW x \in Batches, NEW y \in Slots
        PROVE /\ check'[x][y].idx = check[x][y].idx /\ check'[x][y].pt = check[x][y].pt
              /\ check'[x][y].pc = check[x][y].pc \/ {check[x][y].pc, check'[x][y].pc} \subseteq Sweeping
              /\ check'[x][y].held => /\ check[x][y].held /\ check'[x][y].pc = check[x][y].pc
                                      /\ check'[x][y].at = check[x][y].at /\ check[x][y].at # c.at
    <3>1. CASE x = b /\ y = w BY <1>1, <1>3, <2>3, <3>1 DEF Sweeping
    <3>2. CASE ~(x = b /\ y = w) BY <2>2, <3>2, ZenonT(60)
    <3> QED BY <3>1, <3>2
  <2>9. Lost(c.at)
    <3> HIDE DEF c, r, id
    <3>1. procs' = [procs EXCEPT ![c.at] = None] /\ UNCHANGED <<vleft, scratchSeq, dirs, batch, noted>> BY <1>1, <1>4
    <3> QED BY <3>1, <2>4, <2>6, <2>7, <2>8, ZenonT(60) DEF Lost
  <2> QED BY <1>2, <1>4, <2>9, LostKeeps
<1>5. CASE /\ SetCheck(b, w, r) /\ UNCHANGED <<procs, kills>>
           /\ \/ ~c.held /\ noted' = noted
              \/ noted' = noted \cup {id}
  <2>1. \A p \in Pids : procs[p] # None /\ procs[p].of = id /\ ~procs[p].missed => id \in noted \/ Covers(c, p)
    BY <1>1, OwnChild DEF Unbusy
  <2>2. \A p \in Pids : ~c.held /\ Covers(c, p) => Covers(r, p) BY <1>1, <1>3 DEF Covers, Sweeping
  <2>3. Moved(b, w, r) BY <1>1, <1>3, <1>5, <2>1, <2>2, SameAged DEF VInv, Moved, Unbusy
  <2> QED BY <2>3, MovedKeeps
<1> QED BY <1>4, <1>5 DEF Signal

\* A process appears at a free pid: the engine's, or a child some check covers.
Spawned(p, new) ==
    /\ procs[p] = None /\ new \in ProcRec /\ procs' = [procs EXCEPT ![p] = new]
    /\ vleft' \in BatchScenarios /\ vleft'.batches = vleft.batches /\ vleft'.lines = vleft.lines /\ vleft'.pt = vleft.pt
    /\ UNCHANGED <<scratchSeq, dirs, batch, check, kills, noted>>
    /\ \A x \in Batches, i \in Nat : new.of = <<x, i>> => Tracked(p, x, i)'

LEMMA SpawnedKeeps == ASSUME VInv, NEW p \in Pids, NEW new, Spawned(p, new) PROVE VInv'
<1>1. /\ procs[p] = None /\ new \in ProcRec /\ procs' = [procs EXCEPT ![p] = new]
      /\ vleft' \in BatchScenarios /\ vleft'.batches = vleft.batches /\ vleft'.lines = vleft.lines /\ vleft'.pt = vleft.pt
      /\ UNCHANGED <<scratchSeq, dirs, batch, check, kills, noted>>
  BY DEF Spawned
<1>2. Lines' = Lines /\ \A x \in Batches, y \in Slots : Id(x, y)' = Id(x, y) BY <1>1 DEF Lines, Id
<1>3. VTyped' BY <1>1 DEF VInv, VTyped
<1>4. procs'[p] = new /\ \A q \in Pids \ {p} : procs'[q] = procs[q] BY <1>1 DEF VInv, VTyped
<1>5. Slotted' BY <1>1, <1>2 DEF VInv, Slotted
<1>6. Claimed' BY <1>1 DEF VInv, Claimed
<1>7. Taken' BY <1>1, <1>2, SMT DEF VInv, Taken
<1>8. Held'
  <2>1. Held BY DEF VInv
  <2>2. \A x \in Batches, y \in Slots : check[x][y].held => check[x][y].at \in Pids \ {p} BY <2>1, <1>1 DEF Held
  <2> QED BY <2>1, <2>2, <1>1, <1>2, <1>4, SMT DEF Held
<1>9. Children'
  <2> SUFFICES ASSUME NEW q \in Pids, NEW x \in Batches, NEW i \in Nat, procs'[q] # None, procs'[q].of = <<x, i>>,
                      ~procs'[q].missed
               PROVE Tracked(q, x, i)'
    BY DEF Children
  <2>1. CASE q = p BY <2>1, <1>4 DEF Spawned
  <2>2. CASE q # p
    <3>1. procs'[q] = procs[q] BY <1>4, <2>2
    <3>2. Tracked(q, x, i) BY <3>1 DEF VInv, Children
    <3> QED BY <3>1, <3>2, <1>1 DEF Tracked, Covers
  <2> QED BY <2>1, <2>2
<1>10. Equipped' BY <1>1 DEF VInv, Equipped
<1> QED BY <1>3, <1>5, <1>6, <1>7, <1>8, <1>9, <1>10 DEF VInv

LEMMA EngineSpawnKeeps == ASSUME VInv, NEW p \in Pids, EngineSpawns(p) PROVE VInv'
<1> DEFINE new == [of |-> <<"engine", 0>>, missed |-> FALSE]
<1>1. vleft \in BatchScenarios BY DEF VInv, VTyped
<1>2. /\ vleft' \in BatchScenarios /\ vleft'.batches = vleft.batches /\ vleft'.lines = vleft.lines /\ vleft'.pt = vleft.pt
  BY <1>1, SMT DEF EngineSpawns, BatchScenarios
<1>3. \A x \in Batches, i \in Nat : new.of # <<x, i>> BY VerifyAssumption
<1>4. Spawned(p, new) BY <1>2, <1>3 DEF Spawned, EngineSpawns, ProcRec
<1> QED BY <1>4, SpawnedKeeps

LEMMA SpawnChildKeeps ==
    ASSUME VInv, NEW b \in Batches, NEW w \in Slots, NEW p \in Pids, SpawnChild(b, w, p) PROVE VInv'
<1> DEFINE new == [of |-> Id(b, w), missed |-> FALSE]
<1>2. vleft \in BatchScenarios /\ check[b][w] \in CheckRec BY CheckFields DEF VInv, VTyped
<1>3. /\ vleft' \in BatchScenarios /\ vleft'.batches = vleft.batches /\ vleft'.lines = vleft.lines /\ vleft'.pt = vleft.pt
  BY <1>2, SMT DEF SpawnChild, BatchScenarios
<1>4. check[b][w].pc = "run" /\ check[b][w].pt BY DEF SpawnChild
<1>5. vleft.pt /\ batch[b].pc = "work" /\ check[b][w].idx < batch[b].next
  BY <1>4 DEF VInv, Equipped, Slotted, Taken, Unbusy
<1>6. UNCHANGED <<batch, check>> BY DEF SpawnChild
<1>7. Tracked(p, b, check[b][w].idx)' BY <1>3, <1>4, <1>5, <1>6 DEF Tracked, Covers, Unbusy
<1>8. ASSUME NEW x \in Batches, NEW i \in Nat, new.of = <<x, i>> PROVE Tracked(p, x, i)'
  <2>1. x = b /\ i = check[b][w].idx BY <1>8 DEF Id
  <2> QED BY <2>1, <1>7, <1>6
<1>1. new \in ProcRec BY <1>2 DEF ProcRec, CheckRec, Id
<1>9. Spawned(p, new) BY <1>1, <1>3, <1>8 DEF Spawned, SpawnChild
<1> QED BY <1>9, SpawnedKeeps

\* A batch before its work, or one that ends without it: no check is busy.
LEMMA BatchAside ==
    ASSUME VInv, NEW b \in Batches, batch[b].pc # "work"
    PROVE \A w \in Slots : check[b][w].pc = "idle"
BY DEF VInv, Slotted

LEMMA PartitionKeeps == ASSUME VInv, NEW b \in Batches, PartitionDead(b) PROVE VInv'
<1>1. PICK dead \in {{}, {vleft.lines}} :
        (dead # {} => b \in Scans) /\ SetBatch(b, [batch[b] EXCEPT !.pc = "scratch", !.told = dead])
  BY DEF PartitionDead
<1> DEFINE r == [batch[b] EXCEPT !.pc = "scratch", !.told = dead]
<1>2. batch[b] \in BatchRec /\ vleft.lines \in Nat /\ batch[b].pc = "load" /\ vleft \in BatchScenarios
      /\ UNCHANGED <<vleft, scratchSeq, dirs, check, procs, kills, noted>>
  BY DEF VInv, VTyped, BatchScenarios, PartitionDead
<1>3. vleft.lines \in Lines BY <1>2, SMT DEF VInv, Slotted, BatchScenarios, Lines
<1>4. /\ r \in BatchRec /\ r.pc = "scratch" /\ r.told = dead /\ r.next = batch[b].next /\ r.dir = batch[b].dir
      /\ r.told \subseteq Lines
  BY <1>1, <1>2, <1>3 DEF BatchRec
<1>5. batch' \in [Batches -> BatchRec] /\ \A x \in Batches : batch'[x] = IF x = b THEN r ELSE batch[x]
  BY <1>1, <1>4, BatchSet DEF VInv
<1> HIDE DEF r
<1>6. Lines' = Lines BY <1>2 DEF Lines
<1>7. \A w \in Slots : check[b][w].pc = "idle" BY <1>2, BatchAside
<1>8. VTyped' BY <1>2, <1>5 DEF VInv, VTyped
<1>9. Slotted' BY <1>2, <1>4, <1>5, <1>6, <1>7, SMTT(30) DEF VInv, Slotted
<1>10. Claimed' BY <1>2, <1>4, <1>5, SMT, SMTT(30) DEF VInv, Claimed
<1>11. Taken'
  <2>1. Taken BY DEF VInv
  <2>2. \A x \in Batches : batch'[x].pc \in {"work", "over"} => batch'[x] = batch[x] BY <1>4, <1>5
  <2>3. \A x \in Batches, y \in Slots : check[x][y].pc # "idle" => batch'[x] = batch[x] BY <1>5, <1>7
  <2>4. vleft.batches \subseteq Batches BY <1>2 DEF BatchScenarios
  <2> QED BY <2>1, <2>2, <2>3, <2>4, <1>2, <1>6, SMT DEF Taken, Unbusy
<1>12. Held' BY <1>2, ZenonT(60) DEF VInv, Held, Id
<1>13. Children'
  <2> SUFFICES ASSUME NEW p \in Pids, NEW x \in Batches, NEW i \in Nat, procs'[p] # None, procs'[p].of = <<x, i>>,
                      ~procs'[p].missed
               PROVE Tracked(p, x, i)'
    BY DEF Children
  <2>1. Tracked(p, x, i) BY <1>2 DEF VInv, Children
  <2>2. x # b BY <2>1, <1>2 DEF Tracked
  <2> QED BY <2>1, <2>2, <1>2, <1>5 DEF Tracked, Covers
<1>14. Equipped' BY <1>2 DEF VInv, Equipped
<1> QED BY <1>8, <1>9, <1>10, <1>11, <1>12, <1>13, <1>14 DEF VInv

\* create_exclusive_scratch: an existing name is passed over, a new one is
\* nobody else's, and a scan without a directory answers for every bridge.
LEMMA ClaimKeeps == ASSUME VInv, NEW b \in Batches, ClaimScratch(b) PROVE VInv'
<1> DEFINE name == <<KindOf(b), scratchSeq>>
<1>1. /\ batch[b] \in BatchRec /\ vleft \in BatchScenarios /\ scratchSeq \in Nat /\ dirs \subseteq ScratchNames
      /\ scratchSeq' = scratchSeq + 1 /\ batch[b].pc = "scratch" /\ UNCHANGED <<vleft, check, procs, kills, noted>>
  BY DEF VInv, VTyped, ClaimScratch
<1>2. name \in ScratchNames BY <1>1 DEF ScratchNames, KindOf
<1>3. Lines' = Lines /\ Lines \subseteq Nat BY <1>1, SMT DEF Lines, BatchScenarios
<1>4. \A w \in Slots : check[b][w].pc = "idle" BY <1>1, BatchAside
<1>5. VTyped /\ Slotted /\ Claimed /\ Taken BY DEF VInv
<1>6. Held' BY <1>1 DEF VInv, Held, Id
<1>7. Equipped' BY <1>1 DEF VInv, Equipped
<1>8. batch[b].next = 1 /\ batch[b].dir = None BY <1>1, <1>5 DEF Slotted, Claimed
<1>9. \A p \in Pids, x \in Batches, i \in Nat : procs[p] # None /\ procs[p].of = <<x, i>> /\ ~procs[p].missed => x # b
  BY <1>1, ZenonT(60) DEF VInv, Children, Tracked
<1>10. ASSUME batch' \in [Batches -> BatchRec], \A x \in Batches \ {b} : batch'[x] = batch[x] PROVE Children'
  <2> SUFFICES ASSUME NEW p \in Pids, NEW x \in Batches, NEW i \in Nat, procs'[p] # None, procs'[p].of = <<x, i>>,
                      ~procs'[p].missed
               PROVE Tracked(p, x, i)'
    BY DEF Children
  <2>1. Tracked(p, x, i) BY <1>1 DEF VInv, Children
  <2>2. x # b BY <1>1, <1>9
  <2> QED BY <2>1, <2>2, <1>1, <1>10 DEF Tracked, Covers
<1>11. CASE name \in dirs /\ UNCHANGED <<dirs, batch>>
  <2>1. VTyped' BY <1>1, <1>5, <1>11, SMT DEF VTyped
  <2>2. Slotted' BY <1>1, <1>3, <1>5, <1>11 DEF Slotted
  <2>3. Claimed' BY <1>5, <1>11 DEF Claimed
  <2>4. Taken' BY <1>1, <1>3, <1>5, <1>11, SMT DEF Taken
  <2>5. Children' BY <1>5, <1>10, <1>11 DEF VTyped
  <2> QED BY <2>1, <2>2, <2>3, <2>4, <2>5, <1>6, <1>7 DEF VInv
<1>12. CASE /\ name \notin dirs /\ dirs' = dirs \cup {name}
            /\ SetBatch(b, [batch[b] EXCEPT !.pc = "work", !.dir = name])
  <2> DEFINE r == [batch[b] EXCEPT !.pc = "work", !.dir = name]
  <2>1. /\ r \in BatchRec /\ r.pc = "work" /\ r.dir = name /\ r.next = 1 /\ r.told = batch[b].told
    BY <1>1, <1>2, <1>8 DEF BatchRec
  <2>2. batch' \in [Batches -> BatchRec] /\ \A x \in Batches : batch'[x] = IF x = b THEN r ELSE batch[x]
    BY <1>5, <1>12, <2>1, BatchSet
  <2> HIDE DEF r, name
  <2>3. VTyped' BY <1>1, <1>2, <1>5, <1>12, <2>2, SMT DEF VTyped
  <2>4. Slotted' BY <1>1, <1>3, <1>5, <2>1, <2>2, ZenonT(60) DEF Slotted
  <2>5. Claimed'
    <3>1. name # None /\ name \notin StaleDirs BY <1>2, <1>5, <1>12, VerifyAssumption DEF Claimed
    <3>2. \A x \in Batches \ {b} : batch'[x] = batch[x] /\ batch[x].dir # name
      BY <1>5, <1>12, <2>2, <3>1 DEF Claimed
    <3> QED BY <1>5, <1>12, <2>1, <2>2, <3>1, <3>2, SMT DEF Claimed
  <2>6. Taken'
    <3>1. \A x \in Batches, y \in Slots : check[x][y].pc # "idle" => batch'[x] = batch[x] BY <2>2, <1>4
    <3>2. \A i \in Lines : ~(i < batch'[b].next) BY <2>1, <2>2, <1>1, SMT DEF Lines, BatchScenarios
    <3>3. \A x \in Batches : batch'[x].pc \in {"work", "over"} => x = b \/ batch'[x] = batch[x] BY <2>2
    <3>4. vleft.batches \subseteq Batches BY <1>1 DEF BatchScenarios
    <3>5. batch'[b].pc = "work" BY <2>1, <2>2
    <3> QED BY <3>1, <3>2, <3>3, <3>4, <3>5, <1>1, <1>3, <1>5, SMT DEF Taken, Unbusy
  <2>7. Children' BY <1>10, <2>2
  <2> QED BY <2>3, <2>4, <2>5, <2>6, <2>7, <1>6, <1>7 DEF VInv
<1>13. CASE /\ SetBatch(b, [batch[b] EXCEPT !.pc = "over", !.told = IF b \in Scans THEN Lines ELSE {}])
            /\ UNCHANGED dirs
  <2> DEFINE r == [batch[b] EXCEPT !.pc = "over", !.told = IF b \in Scans THEN Lines ELSE {}]
  <2>1. /\ r \in BatchRec /\ r.pc = "over" /\ r.dir = None /\ r.next = 1 /\ r.told = IF b \in Scans THEN Lines ELSE {}
    BY <1>1, <1>3, <1>8 DEF BatchRec
  <2>2. batch' \in [Batches -> BatchRec] /\ \A x \in Batches : batch'[x] = IF x = b THEN r ELSE batch[x]
    BY <1>5, <1>13, <2>1, BatchSet, ZenonT(60)
  <2> HIDE DEF r, name
  <2>3. VTyped' BY <1>1, <1>5, <1>13, <2>2, SMT DEF VTyped
  <2>4. Slotted' BY <1>1, <1>3, <1>4, <1>5, <2>1, <2>2, SMT DEF Slotted
  <2>5. Claimed'
    <3>1. \A x \in Batches : batch'[x].pc = "work" => batch'[x] = batch[x] BY <2>1, <2>2
    <3>2. \A x \in Batches : batch'[x].dir = batch[x].dir BY <2>1, <2>2, <1>8, ZenonT(60)
    <3> QED BY <1>1, <1>5, <1>13, <2>1, <2>2, <3>1, <3>2, SMT DEF Claimed
  <2>6. Taken'
    <3>1. \A x \in Batches, y \in Slots : check[x][y].pc # "idle" => batch'[x] = batch[x] BY <2>2, <1>4
    <3>2. \A x \in Batches : batch'[x].pc = "work" => batch'[x] = batch[x] BY <2>1, <2>2
    <3>3. b \in Scans => batch'[b].told = Lines BY <2>1, <2>2
    <3>4. vleft.batches \subseteq Batches BY <1>1 DEF BatchScenarios
    <3>5. \A x \in Batches \ {b} : batch'[x] = batch[x] BY <2>2
    <3> QED BY <3>1, <3>2, <3>3, <3>4, <3>5, <1>1, <1>3, <1>5, SMT, SMTT(30) DEF Taken, Unbusy
  <2>7. Children' BY <1>10, <2>2
  <2> QED BY <2>3, <2>4, <2>5, <2>6, <2>7, <1>6, <1>7 DEF VInv
<1> QED BY <1>11, <1>12, <1>13 DEF ClaimScratch

LEMMA IdleCheck ==
    /\ CheckIdle \in CheckRec /\ CheckIdle.pc = "idle" /\ ~CheckIdle.held /\ CheckIdle.idx = 0
    /\ [CheckIdle EXCEPT !.pc = "exit"] \in CheckRec
    /\ [CheckIdle EXCEPT !.pc = "exit"].pc = "exit" /\ ~[CheckIdle EXCEPT !.pc = "exit"].held
BY DEF CheckIdle, CheckRec, Unbusy

LEMMA WorkerExists == ASSUME NEW b \in Batches PROVE 1 \in Slots /\ 1 \in Workers(b) /\ Workers(b) \subseteq Slots
BY VerifyAssumption, SMT DEF Slots, Workers

\* The batch ends when its workers have: every bridge is then answered, and a
\* child that is left was noted.
LEMMA EndKeeps == ASSUME VInv, NEW b \in Batches, EndBatch(b) PROVE VInv'
<1> DEFINE r == [batch[b] EXCEPT !.pc = "over", !.dir = None]
<1>1. /\ batch[b] \in BatchRec /\ vleft \in BatchScenarios /\ check \in [Batches -> [Slots -> CheckRec]]
      /\ batch[b].pc = "work" /\ \A w \in Workers(b) : check[b][w].pc = "exit"
      /\ dirs' = dirs \ {batch[b].dir} /\ SetBatch(b, r)
      /\ UNCHANGED <<vleft, scratchSeq, procs, kills, noted>>
  BY DEF VInv, VTyped, EndBatch
<1>2. VTyped /\ Slotted /\ Claimed /\ Taken BY DEF VInv
<1>3. \A w \in Slots : check[b][w].pc \in Unbusy BY <1>1, <1>2 DEF Slotted, Unbusy
<1>4. r \in BatchRec /\ r.pc = "over" /\ r.dir = None /\ r.next = batch[b].next /\ r.told = batch[b].told
  BY <1>1 DEF BatchRec
<1>5. batch' \in [Batches -> BatchRec] /\ \A x \in Batches : batch'[x] = IF x = b THEN r ELSE batch[x]
  BY <1>1, <1>2, <1>4, BatchSet
<1>6. /\ check' \in [Batches -> [Slots -> CheckRec]]
      /\ \A x \in Batches, y \in Slots : check'[x][y] = IF x = b THEN CheckIdle ELSE check[x][y]
  <2>1. check' = [check EXCEPT ![b] = [w \in Slots |-> CheckIdle]] BY DEF EndBatch
  <2>2. [w \in Slots |-> CheckIdle] \in [Slots -> CheckRec] BY IdleCheck
  <2> QED BY <1>1, <2>1, <2>2
<1> HIDE DEF r
<1>7. Lines' = Lines /\ Lines \subseteq Nat BY <1>1, SMT DEF Lines, BatchScenarios
<1>8. batch[b].told = Lines
  <2>1. check[b][1].pc = "exit" /\ 1 \in Slots BY <1>1, WorkerExists
  <2>2. \A i \in Lines : i < batch[b].next \/ i \in batch[b].told BY <2>1, <1>2 DEF Taken
  <2>3. \A i \in Lines : i < batch[b].next => i \in batch[b].told BY <1>1, <1>2, <1>3 DEF Taken
  <2>4. batch[b].told \subseteq Lines BY <1>2 DEF Slotted
  <2> QED BY <2>2, <2>3, <2>4
<1>9. VTyped' BY <1>1, <1>2, <1>5, <1>6 DEF VTyped
<1>10. Slotted'
  <2>1. \A x \in Batches, y \in Slots : check'[x][y].pc # "idle" => x # b /\ check'[x][y] = check[x][y] BY <1>6, IdleCheck
  <2>2. \A x \in Batches : batch'[x].told = batch[x].told /\ (batch'[x].pc # "over" => batch'[x] = batch[x]) BY <1>4, <1>5
  <2>3. \A x \in Batches \ {b} : batch'[x] = batch[x] BY <1>5
  <2> QED BY <2>1, <2>2, <2>3, <1>1, <1>2, <1>7, SMT DEF Slotted
<1>11. Claimed'
  <2>1. batch[b].dir \notin StaleDirs BY <1>1, <1>2 DEF Claimed
  <2>2. \A x \in Batches \ {b} : batch'[x] = batch[x] /\ (batch[x].pc = "work" => batch[x].dir # batch[b].dir)
    BY <1>2, <1>5 DEF Claimed
  <2>3. batch'[b].pc = "over" /\ batch'[b].dir = None BY <1>4, <1>5
  <2>4. \A x \in Batches : batch[x].pc = "work" => batch[x].dir # None
    BY <1>2, VerifyAssumption DEF Claimed, VTyped
  <2>5. StaleDirs \subseteq dirs' BY <1>1, <1>2, <2>1 DEF Claimed
  <2>6. ASSUME NEW x \in Batches
        PROVE IF batch'[x].pc = "work" THEN batch'[x].dir \in dirs' \ StaleDirs ELSE batch'[x].dir = None
    <3>1. CASE x = b BY <2>3, <3>1
    <3>2. CASE x # b
      <4>1. batch'[x] = batch[x] /\ (batch[x].pc = "work" => batch[x].dir # batch[b].dir) BY <2>2, <3>2
      <4>2. IF batch[x].pc = "work" THEN batch[x].dir \in dirs \ StaleDirs ELSE batch[x].dir = None
        BY <1>2 DEF Claimed
      <4> QED BY <1>1, <4>1, <4>2
    <3> QED BY <3>1, <3>2
  <2>7. \A x, y \in Batches : x # y /\ batch'[x].pc = "work" => batch'[x].dir # batch'[y].dir
    <3> SUFFICES ASSUME NEW x \in Batches, NEW y \in Batches, x # y, batch'[x].pc = "work"
                 PROVE batch'[x].dir # batch'[y].dir
      OBVIOUS
    <3>1. x # b /\ batch'[x] = batch[x] BY <2>2, <2>3
    <3>2. CASE y = b BY <2>3, <2>4, <3>1, <3>2
    <3>3. CASE y # b
      <4>1. batch'[y] = batch[y] BY <2>2, <3>3
      <4> QED BY <1>2, <3>1, <4>1, ZenonT(60) DEF Claimed
    <3> QED BY <3>2, <3>3
  <2> QED BY <2>5, <2>6, <2>7 DEF Claimed
<1>12. Taken'
  <2>1. \A x \in Batches, y \in Slots : check'[x][y].pc # "idle" => x # b BY <1>6, IdleCheck
  <2>2. \A x \in Batches \ {b} : batch'[x] = batch[x] /\ \A y \in Slots : check'[x][y] = check[x][y] BY <1>5, <1>6
  <2>3. batch'[b].pc = "over" /\ batch'[b].told = Lines BY <1>4, <1>5, <1>8
  <2>4. vleft.batches \subseteq Batches BY <1>1 DEF BatchScenarios
  <2>5. \A x \in Batches, y \in Slots : check'[x][y].pc \notin Unbusy => x \in Batches \ {b} BY <2>1 DEF Unbusy
  <2>6. \A x \in Batches, y, z \in Slots : check'[x][y].pc \notin Unbusy =>
         /\ check'[x][y].idx < batch'[x].next /\ check'[x][y].idx \notin batch'[x].told
         /\ check'[x][y].idx \in Lines
         /\ check'[x][z].pc \notin Unbusy /\ y # z => check'[x][y].idx # check'[x][z].idx
    BY <1>2, <2>2, <2>5, SMTT(30) DEF Taken
  <2>7. \A x \in Batches, i \in Lines : batch'[x].pc = "work" /\ i < batch'[x].next =>
          i \in batch'[x].told \/ \E w \in Slots : check'[x][w].pc \notin Unbusy /\ check'[x][w].idx = i
    BY <1>2, <2>2, <2>3, SMT, SMTT(30) DEF Taken
  <2>8. \A x \in Batches, y \in Slots, i \in Lines : check'[x][y].pc = "exit" => i < batch'[x].next \/ i \in batch'[x].told
    BY <1>2, <2>1, <2>2, SMTT(30) DEF Taken
  <2>9. \A x \in vleft.batches \cap Scans : batch'[x].pc = "over" => batch'[x].told = Lines
    BY <1>2, <2>2, <2>3, <2>4, ZenonT(60) DEF Taken
  <2> QED BY <2>6, <2>7, <2>8, <2>9, <1>1, <1>7, SMT DEF Taken
<1>13. Held'
  <2>1. \A x \in Batches, y \in Slots : check'[x][y].held => x # b /\ check'[x][y] = check[x][y] BY <1>6, IdleCheck
  <2> QED BY <2>1, <1>1, SMT DEF VInv, Held, Id
<1>14. Children'
  <2> SUFFICES ASSUME NEW p \in Pids, NEW x \in Batches, NEW i \in Nat, procs'[p] # None, procs'[p].of = <<x, i>>,
                      ~procs'[p].missed
               PROVE Tracked(p, x, i)'
    BY DEF Children
  <2>1. Tracked(p, x, i) BY <1>1 DEF VInv, Children
  <2>2. CASE x = b
    <3>1. <<x, i>> \in noted BY <2>1, <2>2, <1>3, ZenonT(60) DEF Tracked
    <3> QED BY <3>1, <2>1, <2>2, <1>1, <1>4, <1>5 DEF Tracked
  <2>3. CASE x # b
    <3>1. batch'[x] = batch[x] /\ \A y \in Slots : check'[x][y] = check[x][y] BY <2>3, <1>5, <1>6
    <3> QED BY <3>1, <2>1, <1>1, SMT DEF Tracked, Covers
  <2> QED BY <2>2, <2>3
<1>15. Equipped'
  <2>1. \A x \in Batches, y \in Slots : check'[x][y].pc = "run" => check'[x][y] = check[x][y] BY <1>6, IdleCheck
  <2> QED BY <2>1, <1>1, ZenonT(60) DEF VInv, Equipped
<1> QED BY <1>9, <1>10, <1>11, <1>12, <1>13, <1>14, <1>15 DEF VInv

\* The answer is the last thing a check does: its child is gone or noted.
LEMMA AnswerKeeps ==
    ASSUME VInv, NEW b \in Batches, NEW w \in Slots, Answer(b, w) PROVE VInv'
<1> DEFINE c == check[b][w]
           r == [batch[b] EXCEPT !.told = @ \cup {c.idx}]
<1>1. /\ c \in CheckRec /\ batch[b] \in BatchRec /\ vleft \in BatchScenarios /\ c.pc = "answer"
      /\ SetBatch(b, r) /\ SetCheck(b, w, CheckIdle)
      /\ UNCHANGED <<vleft, scratchSeq, dirs, procs, kills, noted>>
  BY CheckFields DEF VInv, VTyped, Answer
<1>2. VTyped /\ Slotted /\ Claimed /\ Taken BY DEF VInv
<1>3. c.idx \in Lines /\ c.idx < batch[b].next /\ c.idx \in Nat /\ batch[b].pc = "work"
  BY <1>1, <1>2 DEF Taken, Slotted, Unbusy, CheckRec
<1>4. r \in BatchRec /\ r.pc = "work" /\ r.dir = batch[b].dir /\ r.next = batch[b].next /\ r.told = batch[b].told \cup {c.idx}
  BY <1>1, <1>3 DEF BatchRec
<1>5. batch' \in [Batches -> BatchRec] /\ \A x \in Batches : batch'[x] = IF x = b THEN r ELSE batch[x]
  BY <1>1, <1>2, <1>4, BatchSet, ZenonT(60)
<1>6. /\ check' \in [Batches -> [Slots -> CheckRec]]
      /\ \A x \in Batches, y \in Slots : check'[x][y] = IF x = b /\ y = w THEN CheckIdle ELSE check[x][y]
  BY <1>1, <1>2, IdleCheck, CheckSet, SMT
<1> HIDE DEF r
<1>7. Lines' = Lines /\ Lines \subseteq Nat BY <1>1, SMTT(30) DEF Lines, BatchScenarios
<1>8. \A x \in Batches, y \in Slots : check'[x][y].pc # "idle" => ~(x = b /\ y = w) /\ check'[x][y] = check[x][y]
  BY <1>6, IdleCheck
<1>9. /\ \A x \in Batches : batch'[x].pc = batch[x].pc /\ batch'[x].dir = batch[x].dir /\ batch'[x].next = batch[x].next
      /\ batch'[b].told = batch[b].told \cup {c.idx}
      /\ \A x \in Batches \ {b} : batch'[x].told = batch[x].told
  BY <1>3, <1>4, <1>5
<1>a. c = check[b][w] OBVIOUS
<1> HIDE DEF c
<1>10. VTyped' BY <1>1, <1>2, <1>5, <1>6 DEF VTyped
<1>11. Slotted' BY <1>1, <1>2, <1>3, <1>7, <1>8, <1>9, SMTT(30) DEF Slotted
<1>12. Claimed' BY <1>1, <1>2, <1>9, SMTT(30) DEF Claimed
<1>13. Taken'
  <2>1. \A x \in Batches, y, z \in Slots : check'[x][y].pc \notin Unbusy =>
         /\ check'[x][y].idx < batch'[x].next /\ check'[x][y].idx \notin batch'[x].told
         /\ check'[x][y].idx \in Lines
         /\ check'[x][z].pc \notin Unbusy /\ y # z => check'[x][y].idx # check'[x][z].idx
    <3>1. \A x \in Batches, y \in Slots : check'[x][y].pc \notin Unbusy =>
            check[x][y].pc \notin Unbusy /\ check'[x][y] = check[x][y] /\ (x = b => check[x][y].idx # c.idx)
      BY <1>a, <1>1, <1>2, <1>8, SMTT(30) DEF Taken, Unbusy
    <3> QED BY <3>1, <1>2, <1>9, SMTT(30) DEF Taken
  <2>2. ASSUME NEW x \in Batches, NEW i \in Lines, batch'[x].pc = "work", i < batch'[x].next, i \notin batch'[x].told
        PROVE \E y \in Slots : check'[x][y].pc \notin Unbusy /\ check'[x][y].idx = i
    <3>1. PICK y \in Slots : check[x][y].pc \notin Unbusy /\ check[x][y].idx = i BY <2>2, <1>2, <1>9, SMT DEF Taken
    <3>2. ~(x = b /\ y = w) BY <3>1, <2>2, <1>9, <1>a
    <3> QED BY <3>1, <3>2, <1>6
  <2>3. \A x \in Batches, y \in Slots, i \in Lines : check'[x][y].pc = "exit" => i < batch'[x].next \/ i \in batch'[x].told
    BY <1>2, <1>8, <1>9, SMTT(30) DEF Taken
  <2>4. \A x \in vleft.batches \cap Scans : batch'[x].pc = "over" => batch'[x].told = Lines
    BY <1>1, <1>2, <1>3, <1>9, SMTT(30) DEF Taken, BatchScenarios
  <2> QED BY <2>1, <2>2, <2>3, <2>4, <1>1, <1>7, SMTT(30) DEF Taken
<1>14. Held'
  <2>1. \A x \in Batches, y \in Slots : check'[x][y].held => check'[x][y] = check[x][y] BY <1>6, IdleCheck, ZenonT(60)
  <2> QED BY <2>1, <1>1, SMT DEF VInv, Held, Id
<1>15. Children'
  <2> SUFFICES ASSUME NEW p \in Pids, NEW x \in Batches, NEW i \in Nat, procs'[p] # None, procs'[p].of = <<x, i>>,
                      ~procs'[p].missed
               PROVE Tracked(p, x, i)'
    BY DEF Children
  <2>1. Tracked(p, x, i) BY <1>1 DEF VInv, Children
  <2>2. CASE <<x, i>> \in noted BY <2>1, <2>2, <1>1, <1>9, ZenonT(60) DEF Tracked
  <2>3. CASE <<x, i>> \notin noted
    <3>1. PICK y \in Slots : check[x][y].idx = i /\ check[x][y].pc \notin Unbusy /\ Covers(check[x][y], p)
      BY <2>1, <2>3 DEF Tracked
    <3>2. ~(x = b /\ y = w) BY <3>1, <1>1, <1>a, ZenonT(60) DEF Covers, Sweeping
    <3>3. check'[x][y] = check[x][y] BY <3>2, <1>6
    <3>4. vleft'.pt /\ batch'[x].pc \in {"work", "over"} /\ i < batch'[x].next BY <2>1, <1>1, <1>9 DEF Tracked
    <3> QED BY <3>1, <3>3, <3>4, ZenonT(60) DEF Tracked, Covers
  <2> QED BY <2>2, <2>3
<1>16. Equipped' BY <1>1, <1>8, SMT DEF VInv, Equipped
<1> QED BY <1>10, <1>11, <1>12, <1>13, <1>14, <1>15, <1>16 DEF VInv

\* A worker that finds no bridge left knows that each was taken or answered.
LEMMA LeaveKeeps ==
    ASSUME VInv, NEW b \in Batches, NEW w \in Workers(b), batch[b].pc = "work", check[b][w].pc = "idle",
           \A i \in Lines : i < batch[b].next \/ i \in batch[b].told,
           SetCheck(b, w, [CheckIdle EXCEPT !.pc = "exit"]),
           UNCHANGED <<vleft, scratchSeq, dirs, batch, procs, kills, noted>>
    PROVE VInv'
<1> DEFINE r == [CheckIdle EXCEPT !.pc = "exit"]
<1>1. w \in Slots BY WorkerExists
<1>2. VTyped /\ Slotted /\ Claimed /\ Taken BY DEF VInv
<1>3. r \in CheckRec /\ r.pc = "exit" /\ ~r.held BY IdleCheck
<1>4. /\ check' \in [Batches -> [Slots -> CheckRec]]
      /\ \A x \in Batches, y \in Slots : check'[x][y] = IF x = b /\ y = w THEN r ELSE check[x][y]
  BY <1>1, <1>2, <1>3, CheckSet, SMT
<1> HIDE DEF r
<1>5. Lines' = Lines BY DEF Lines
<1>6. \A x \in Batches, y \in Slots : check'[x][y].pc \notin Unbusy <=> check[x][y].pc \notin Unbusy BY <1>3, <1>4 DEF Unbusy
<1>7. \A x \in Batches, y \in Slots : check'[x][y].pc \notin Unbusy \/ check'[x][y].held => check'[x][y] = check[x][y]
  BY <1>3, <1>4 DEF Unbusy
<1>8. VTyped' BY <1>2, <1>4 DEF VTyped
<1>9. Slotted' BY <1>1, <1>2, <1>4, <1>5, SMT, SMTT(30) DEF Slotted
<1>10. Claimed' BY <1>2 DEF Claimed
<1>11. Taken'
  <2>1. \A x \in Batches, y \in Slots : check'[x][y].pc = "exit" => x = b \/ check[x][y].pc = "exit" BY <1>4
  <2>2. \A x \in Batches, y \in Slots, i \in Lines : check'[x][y].pc = "exit" => i < batch[x].next \/ i \in batch[x].told
    BY <1>2, <2>1, SMTT(30) DEF Taken
  <2>3. \A x \in Batches, y, z \in Slots : check'[x][y].pc \notin Unbusy =>
         /\ check'[x][y].idx < batch[x].next /\ check'[x][y].idx \notin batch[x].told
         /\ check'[x][y].idx \in Lines
         /\ check'[x][z].pc \notin Unbusy /\ y # z => check'[x][y].idx # check'[x][z].idx
    BY <1>2, <1>6, <1>7, SMT, SMTT(30) DEF Taken
  <2>4. \A x \in Batches, i \in Lines : batch[x].pc = "work" /\ i < batch[x].next =>
          i \in batch[x].told \/ \E y \in Slots : check'[x][y].pc \notin Unbusy /\ check'[x][y].idx = i
    BY <1>2, <1>6, <1>7, SMT, SMTT(30) DEF Taken
  <2> QED BY <1>2, <1>5, <2>2, <2>3, <2>4, SMT DEF Taken
<1>12. Held'
  <2>1. Held BY DEF VInv
  <2>2. \A x \in Batches, y \in Slots : check'[x][y].held => check'[x][y] = check[x][y] /\ Id(x, y)' = Id(x, y)
    BY <1>7 DEF Id
  <2>3. procs' = procs /\ kills' = kills OBVIOUS
  <2> QED BY <2>1, <2>2, <2>3, SMT DEF Held
<1>13. Children'
  <2> SUFFICES ASSUME NEW p \in Pids, NEW x \in Batches, NEW i \in Nat, procs'[p] # None, procs'[p].of = <<x, i>>,
                      ~procs'[p].missed
               PROVE Tracked(p, x, i)'
    BY DEF Children
  <2>1. Tracked(p, x, i) BY DEF VInv, Children
  <2> QED BY <2>1, <1>6, <1>7, SMT DEF Tracked, Covers
<1>14. Equipped' BY <1>3, <1>4, ZenonT(60) DEF VInv, Equipped
<1> QED BY <1>8, <1>9, <1>10, <1>11, <1>12, <1>13, <1>14 DEF VInv

\* A worker takes the next bridge that has no answer: nobody else has it, and
\* the ones it passes over are answered.
LEMMA TakeKeeps ==
    ASSUME VInv, NEW b \in Batches, NEW w \in Workers(b), batch[b].pc = "work", check[b][w].pc = "idle",
           NEW i \in Lines, i >= batch[b].next, i \notin batch[b].told,
           \A j \in Lines : j >= batch[b].next /\ j \notin batch[b].told => i <= j,
           NEW pt \in BOOLEAN, SetBatch(b, [batch[b] EXCEPT !.next = i + 1]),
           SetCheck(b, w, [CheckIdle EXCEPT !.pc = "start", !.idx = i, !.pt = pt]),
           UNCHANGED <<vleft, scratchSeq, dirs, procs, kills, noted>>
    PROVE VInv'
<1> DEFINE r == [batch[b] EXCEPT !.next = i + 1]
           s == [CheckIdle EXCEPT !.pc = "start", !.idx = i, !.pt = pt]
<1>1. w \in Slots BY WorkerExists
<1>2. VTyped /\ Slotted /\ Claimed /\ Taken BY DEF VInv
<1>3. batch[b] \in BatchRec /\ batch[b].next \in Nat /\ Lines' = Lines /\ Lines \subseteq Nat /\ i \in Nat
  BY <1>2, SMT DEF VTyped, BatchScenarios, BatchRec, Lines
<1>4. r \in BatchRec /\ r.pc = "work" /\ r.next = i + 1 /\ r.dir = batch[b].dir /\ r.told = batch[b].told
  BY <1>3, SMT DEF BatchRec
<1>5. s \in CheckRec /\ s.pc = "start" /\ s.idx = i /\ ~s.held BY <1>3 DEF CheckIdle, CheckRec
<1>6. batch' \in [Batches -> BatchRec] /\ \A x \in Batches : batch'[x] = IF x = b THEN r ELSE batch[x]
  BY <1>2, <1>4, BatchSet
<1>7. /\ check' \in [Batches -> [Slots -> CheckRec]]
      /\ \A x \in Batches, y \in Slots : check'[x][y] = IF x = b /\ y = w THEN s ELSE check[x][y]
  BY <1>1, <1>2, <1>5, CheckSet, SMT
<1> HIDE DEF r, s
<1>8. /\ \A x \in Batches : batch'[x].pc = batch[x].pc /\ batch'[x].dir = batch[x].dir /\ batch'[x].told = batch[x].told
      /\ batch'[b].next = i + 1 /\ \A x \in Batches \ {b} : batch'[x].next = batch[x].next
  BY <1>4, <1>6
<1>9. \A x \in Batches, y \in Slots : ~(x = b /\ y = w) => check'[x][y] = check[x][y] BY <1>7
<1>10. check'[b][w].pc = "start" /\ check'[b][w].idx = i /\ ~check'[b][w].held BY <1>1, <1>5, <1>7
<1>11. VTyped' BY <1>2, <1>6, <1>7 DEF VTyped
<1>12. Slotted'
  <2>1. \A x \in Batches : batch[x].pc \in {"load", "scratch"} => x # b OBVIOUS
  <2>2. \A x \in Batches, y \in Slots : check'[x][y].pc # "idle" => y \in Workers(x) /\ batch'[x].pc = "work"
    BY <1>2, <1>8, <1>9, SMTT(30) DEF Slotted
  <2> QED BY <1>2, <1>3, <1>8, <2>1, <2>2, SMT DEF Slotted
<1>13. Claimed' BY <1>2, <1>8, SMT, SMTT(30) DEF Claimed
<1>14. Taken'
  <2>1. \A x \in Batches, y \in Slots : check[x][y].idx \in Nat /\ batch[x].next \in Nat
    BY <1>2, CheckFields DEF CheckRec, BatchRec
  <2>2. \A y \in Slots : check[b][y].pc \notin Unbusy => check[b][y].idx < i BY <1>2, <1>3, <2>1, SMT DEF Taken
  <2>3. ASSUME NEW x \in Batches, NEW y \in Slots, check'[x][y].pc \notin Unbusy
        PROVE /\ check'[x][y].idx < batch'[x].next /\ check'[x][y].idx \notin batch'[x].told
              /\ check'[x][y].idx \in Lines
    <3>1. CASE x = b /\ y = w BY <3>1, <1>3, <1>8, <1>10, SMTT(30)
    <3>2. CASE ~(x = b /\ y = w)
      <4>1. check[x][y].pc \notin Unbusy /\ check'[x][y] = check[x][y] BY <2>3, <3>2, <1>9
      <4>2. /\ check[x][y].idx < batch[x].next /\ check[x][y].idx \notin batch[x].told /\ check[x][y].idx \in Lines
        BY <4>1, <1>2 DEF Taken
      <4>3. batch[x].next <= batch'[x].next BY <1>3, <1>8, <2>1, SMT
      <4>4. batch'[x].next \in Nat BY <1>3, <1>8, <2>1, SMT
      <4> QED BY <4>1, <4>2, <4>3, <4>4, <2>1, <1>8, SMT
    <3> QED BY <3>1, <3>2
  <2>4. ASSUME NEW x \in Batches, NEW y \in Slots, NEW z \in Slots, y # z,
               check'[x][y].pc \notin Unbusy, check'[x][z].pc \notin Unbusy
        PROVE check'[x][y].idx # check'[x][z].idx
    <3>1. CASE x = b /\ (y = w \/ z = w)
      BY <3>1, <2>1, <2>2, <2>4, <1>3, <1>9, <1>10, SMT, SMTT(30)
    <3>2. CASE ~(x = b /\ (y = w \/ z = w)) BY <3>2, <2>4, <1>2, <1>9, SMT DEF Taken
    <3> QED BY <3>1, <3>2
  <2>5. ASSUME NEW x \in Batches, NEW j \in Lines, batch'[x].pc = "work", j < batch'[x].next, j \notin batch'[x].told
        PROVE \E y \in Slots : check'[x][y].pc \notin Unbusy /\ check'[x][y].idx = j
    <3>1. CASE x = b /\ j = i BY <3>1, <1>1, <1>10 DEF Unbusy
    <3>2. CASE ~(x = b /\ j = i)
      <4>1. j < batch[x].next
        <5>1. CASE x = b
          <6>1. j < i BY <5>1, <3>2, <2>5, <1>3, <1>8, SMT, SMTT(30)
          <6>2. ~(j >= batch[b].next) BY <6>1, <5>1, <2>5, <1>3, <1>8, SMT
          <6> QED BY <6>2, <5>1, <1>3, SMT
        <5>2. CASE x # b BY <5>2, <2>5, <1>8
        <5> QED BY <5>1, <5>2
      <4>2. PICK y \in Slots : check[x][y].pc \notin Unbusy /\ check[x][y].idx = j BY <4>1, <2>5, <1>2, <1>8, SMT DEF Taken
      <4>3. ~(x = b /\ y = w) BY <4>2 DEF Unbusy
      <4> QED BY <4>2, <4>3, <1>9
    <3> QED BY <3>1, <3>2
  <2>6. ASSUME NEW x \in Batches, NEW y \in Slots, NEW j \in Lines, check'[x][y].pc = "exit"
        PROVE j < batch'[x].next \/ j \in batch'[x].told
    <3>1. check[x][y].pc = "exit" BY <2>6, <1>9, <1>10
    <3>2. j < batch[x].next \/ j \in batch[x].told BY <3>1, <1>2 DEF Taken
    <3>3. batch[x].next <= batch'[x].next /\ batch'[x].next \in Nat BY <1>3, <1>8, <2>1, SMTT(30)
    <3> QED BY <3>2, <3>3, <2>1, <1>3, <1>8, SMT
  <2>7. \A x \in vleft.batches \cap Scans : batch'[x].pc = "over" => batch'[x].told = Lines
    BY <1>2, <1>8, SMTT(30) DEF Taken, VTyped, BatchScenarios
  <2> QED BY <2>3, <2>4, <2>5, <2>6, <2>7, <1>3, SMT DEF Taken
<1>15. Held'
  <2>1. Held BY DEF VInv
  <2>2. \A x \in Batches, y \in Slots : check'[x][y].held => check'[x][y] = check[x][y] /\ Id(x, y)' = Id(x, y)
    BY <1>9, <1>10 DEF Id
  <2>3. procs' = procs /\ kills' = kills OBVIOUS
  <2> QED BY <2>1, <2>2, <2>3, SMT DEF Held
<1>16. Children'
  <2> SUFFICES ASSUME NEW p \in Pids, NEW x \in Batches, NEW j \in Nat, procs'[p] # None, procs'[p].of = <<x, j>>,
                      ~procs'[p].missed
               PROVE Tracked(p, x, j)'
    BY DEF Children
  <2>1. Tracked(p, x, j) BY DEF VInv, Children
  <2>2. batch[x].next \in Nat BY <1>2 DEF VTyped, BatchRec
  <2>3. j < batch'[x].next BY <2>1, <2>2, <1>3, <1>8, SMTT(30) DEF Tracked
  <2>4. CASE <<x, j>> \in noted BY <2>1, <2>3, <2>4, <1>8, ZenonT(60) DEF Tracked
  <2>5. CASE <<x, j>> \notin noted
    <3>1. PICK y \in Slots : check[x][y].idx = j /\ check[x][y].pc \notin Unbusy /\ Covers(check[x][y], p)
      BY <2>1, <2>5 DEF Tracked
    <3>2. check'[x][y] = check[x][y] BY <3>1, <1>9 DEF Unbusy
    <3>3. vleft'.pt /\ batch'[x].pc \in {"work", "over"} BY <2>1, <1>8 DEF Tracked
    <3> QED BY <3>1, <3>2, <3>3, <2>3, ZenonT(60) DEF Tracked, Covers
  <2> QED BY <2>4, <2>5
<1>17. Equipped'
  <2>1. \A x \in Batches, y \in Slots : check'[x][y].pc = "run" => check'[x][y] = check[x][y] BY <1>9, <1>10
  <2> QED BY <2>1 DEF VInv, Equipped
<1> QED BY <1>11, <1>12, <1>13, <1>14, <1>15, <1>16, <1>17 DEF VInv

LEMMA BridgeKeeps ==
    ASSUME VInv, NEW b \in Batches, NEW w \in Workers(b), TakeBridge(b, w) PROVE VInv'
<1> DEFINE rest == {i \in Lines : i >= batch[b].next /\ i \notin batch[b].told}
<1>1. /\ batch[b].pc = "work" /\ check[b][w].pc = "idle"
      /\ UNCHANGED <<vleft, scratchSeq, dirs, procs, kills, noted>>
  BY DEF TakeBridge
<1>2. Lines \subseteq Nat /\ batch[b].next \in Nat
  BY SMT DEF VInv, VTyped, BatchScenarios, Lines, BatchRec
<1>3. CASE rest = {} /\ SetCheck(b, w, [CheckIdle EXCEPT !.pc = "exit"]) /\ UNCHANGED batch
  <2>1. \A i \in Lines : i < batch[b].next \/ i \in batch[b].told BY <1>2, <1>3, SMT
  <2> QED BY <2>1, <1>1, <1>3, LeaveKeeps
<1>4. ASSUME NEW i \in rest, NEW pt \in BOOLEAN, \A j \in rest : i <= j,
             SetBatch(b, [batch[b] EXCEPT !.next = i + 1]),
             SetCheck(b, w, [CheckIdle EXCEPT !.pc = "start", !.idx = i, !.pt = pt])
      PROVE VInv'
  <2>1. i \in Lines /\ i >= batch[b].next /\ i \notin batch[b].told OBVIOUS
  <2>2. \A j \in Lines : j >= batch[b].next /\ j \notin batch[b].told => i <= j BY <1>4
  <2> QED BY <1>1, <1>4, <2>1, <2>2, TakeKeeps
<1> HIDE DEF VInv
<1> QED BY <1>3, <1>4 DEF TakeBridge

LEMMA VerifyKept == ASSUME VInv, [VerifyNext]_vvars PROVE VInv'
<1>1. ASSUME NEW b \in Batches, PartitionDead(b) \/ ClaimScratch(b) \/ EndBatch(b) PROVE VInv'
  BY <1>1, PartitionKeeps, ClaimKeeps, EndKeeps
<1>2. ASSUME NEW b \in Batches, NEW w \in Workers(b), CheckSteps(b, w) PROVE VInv'
  <2>1. w \in Slots BY WorkerExists
  <2>2. CASE TakeBridge(b, w) BY <2>2, BridgeKeeps
  <2>3. CASE Signal(b, w) BY <2>1, <2>3, SignalKeeps
  <2>4. CASE Answer(b, w) BY <2>1, <2>4, AnswerKeeps
  <2>5. CASE \E r : Moved(b, w, r) BY <2>1, <2>5, MovedKeeps
  <2>6. CASE StartCheck(b, w) BY <2>1, <2>5, <2>6, StartMoves
  <2>7. CASE RunEnds(b, w) BY <2>1, <2>5, <2>7, RunMoves
  <2>8. CASE ScanChildren(b, w) BY <2>1, <2>5, <2>8, ScanMoves
  <2>9. CASE OpenHandle(b, w) BY <2>1, <2>5, <2>9, OpenMoves
  <2>10. CASE Revalidate(b, w) BY <2>1, <2>5, <2>10, RevalidateMoves
  <2>11. CASE RemoveCheckDir(b, w) BY <2>1, <2>5, <2>11, RemoveMoves
  <2> QED BY <1>2, <2>2, <2>3, <2>4, <2>6, <2>7, <2>8, <2>9, <2>10, <2>11 DEF CheckSteps
<1>3. ASSUME NEW p \in Pids, EngineSpawns(p) \/ ChildExits(p) PROVE VInv'
  BY <1>3, EngineSpawnKeeps, ExitKeeps
<1>4. ASSUME NEW p \in Pids, NEW b \in Batches, NEW w \in Slots, SpawnChild(b, w, p) PROVE VInv'
  BY <1>4, SpawnChildKeeps
<1>5. CASE UNCHANGED vvars
  <2>1. UNCHANGED <<vleft, scratchSeq, dirs, batch, check, procs, kills, noted>> BY <1>5 DEF vvars
  <2>2. VTyped' /\ Slotted' /\ Claimed' BY <2>1, ZenonT(60) DEF VInv, VTyped, Slotted, Claimed, Lines
  <2>3. Taken' BY <2>1, SMTT(30) DEF VInv, Taken, Lines
  <2>4. Held' BY <2>1, ZenonT(60) DEF VInv, Held, Id
  <2>5. Children' /\ Equipped' BY <2>1, SMTT(30) DEF VInv, Children, Tracked, Covers, Equipped
  <2> QED BY <2>2, <2>3, <2>4, <2>5 DEF VInv
<1> QED BY <1>1, <1>2, <1>3, <1>4, <1>5 DEF VerifyNext, VerifySteps

LEMMA VerifyInitial ==
    ASSUME NEW S, S \subseteq BatchScenarios, VerifyInit(S) PROVE VInv
<1>1. /\ vleft \in BatchScenarios /\ scratchSeq = 0 /\ dirs = StaleDirs /\ kills = {} /\ noted = {}
      /\ batch = [b \in Batches |-> [pc |-> IF b \in vleft.batches THEN "load" ELSE "over",
                                     dir |-> None, next |-> 1, told |-> {}]]
      /\ check = [b \in Batches |-> [w \in Slots |-> CheckIdle]] /\ procs = [p \in Pids |-> None]
  BY DEF VerifyInit
<1>2. \A b \in Batches, w \in Slots : check[b][w].pc = "idle" /\ ~check[b][w].held BY <1>1, IdleCheck
<1>3. \A b \in Batches : /\ batch[b].pc = (IF b \in vleft.batches THEN "load" ELSE "over") /\ batch[b].dir = None
                         /\ batch[b].next = 1 /\ batch[b].told = {}
  BY <1>1
<1>4. VTyped
  <2>1. check \in [Batches -> [Slots -> CheckRec]] BY <1>1, IdleCheck
  <2>2. batch \in [Batches -> BatchRec] BY <1>1 DEF BatchRec
  <2> QED BY <1>1, <2>1, <2>2, VerifyAssumption DEF VTyped
<1>5. Slotted BY <1>2, <1>3, ZenonT(60) DEF Slotted
<1>6. Claimed BY <1>1, <1>3 DEF Claimed
<1>7. Taken BY <1>1, <1>2, <1>3 DEF Taken, Unbusy, BatchScenarios
<1>8. Held BY <1>1, <1>2 DEF Held
<1>9. Children BY <1>1 DEF Children
<1>10. Equipped BY <1>2 DEF Equipped
<1> QED BY <1>4, <1>5, <1>6, <1>7, <1>8, <1>9, <1>10 DEF VInv

LEMMA VerifyImplied == ASSUME VInv PROVE VerifyInv
<1>1. VerifyTypeOK BY SMT DEF VInv, VTyped, Slotted, VerifyTypeOK, BatchRec, CheckRec
<1>2. OwnOnly BY DEF VInv, Claimed, Held, OwnOnly
<1>3. Accounted
  <2>1. \A b \in Batches : Busy(b) \subseteq Slots /\ \A w \in Busy(b) : check[b][w].pc \notin Unbusy
    BY WorkerExists, ZenonT(60) DEF Busy, Unbusy
  <2>2. \A b \in Batches : \A w, x \in Busy(b) :
         /\ w # x => check[b][w].idx # check[b][x].idx
         /\ check[b][w].idx \notin batch[b].told
    BY <2>1, SMT DEF VInv, Taken
  <2>3. ASSUME NEW p \in Pids, NEW b \in Batches, NEW i \in Lines, procs[p] # None, procs[p].of = <<b, i>>,
               i \in batch[b].told, <<b, i>> \notin noted, ~procs[p].missed
        PROVE FALSE
    <3>1. i \in Nat BY SMT DEF VInv, VTyped, BatchScenarios, Lines
    <3>2. Tracked(p, b, i) BY <2>3, <3>1 DEF VInv, Children
    <3>3. PICK w \in Slots : check[b][w].idx = i /\ check[b][w].pc \notin Unbusy BY <2>3, <3>2 DEF Tracked
    <3> QED BY <2>3, <3>3 DEF VInv, Taken
  <2>4. \A b \in Batches : b \in vleft.batches \cap Scans /\ batch[b].pc = "over" => batch[b].told = Lines
    BY DEF VInv, Taken
  <2> QED BY <2>2, <2>3, <2>4 DEF Accounted
<1> QED BY <1>1, <1>2, <1>3 DEF VerifyInv

\* The batches of a scan and of the periodic check (bridge_check.rs): every bridge
\* is answered once, a check signals only children of its own, a scratch directory
\* belongs to one batch, and a child that outlives its check is noted, unless a read
\* of that child failed during the sweep.
THEOREM BatchesHold == VerifyInit(BatchScenarios) /\ [][VerifyNext]_vvars => []VerifyInv
<1>1. VerifyInit(BatchScenarios) => VInv BY VerifyInitial
<1>2. VInv /\ [VerifyNext]_vvars => VInv' BY VerifyKept
<1>3. VInv => VerifyInv BY VerifyImplied
<1> QED BY <1>1, <1>2, <1>3, PTL

=============================================================================
