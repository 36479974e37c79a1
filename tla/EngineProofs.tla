----------------------------- MODULE EngineProofs -----------------------------
(***************************************************************************)
(* Proofs about Engine, for any callers, number of starts and scenarios.   *)
(*                                                                         *)
(* EngInv is the inductive invariant.  The one live thread is that of the  *)
(* current generation, its handle is in the slot or with the one call that *)
(* stops it (Handles); engines not yet started are untouched (Unstarted);  *)
(* a panic is only recorded on the way out (Panicked), a progress callback *)
(* only runs while its runtime exists (Forwarding); and one writer at a    *)
(* time has a copy of the health store, an engine thread or a call only    *)
(* where it waits for it (OneWriter).                                      *)
(***************************************************************************)
EXTENDS Engine, TLAPS

(* The leaves are first-order and go to Zenon; those about numbers, records *)
(* or sequences say SMT.                                                   *)
USE Zenon

EngRec == [pc : Pcs, stop : {"no", "sent"}, ready : BOOLEAN, top : Percents \cup {0},
           pool : {"active", "full", "rescue"}, alive : BOOLEAN, run : Runs, tries : Nat,
           res : {"ok", "err", "panic"}, done : {"empty", "sent", "dropped"}]
CallRec == [pc : {"idle", "off", "mark", "wait", "late", "note", "refresh"}, h : 0 .. MaxStarts]
StatusRec == [k : {"Off", "Starting", "On", "Stopping", "Error"}, p : Percents \cup {0}]
Fields == {"pc", "stop", "ready", "top", "pool", "alive", "run", "tries", "res", "done"}
SlotRec == [st : {"Idle", "Running", "Stopping"}, h : 0 .. MaxStarts]

Typed ==
    /\ slot \in SlotRec /\ status \in StatusRec
    /\ gen \in 0 .. MaxStarts /\ tun \in 0 .. MaxStarts /\ act \in 0 .. MaxStarts
    /\ eng \in [Engines -> EngRec]
    /\ fwd \in [Engines -> [Runs -> Percents \cup {NoTask, Listening}]]
    /\ call \in [Callers -> CallRec]

Stops(c) == call[c].pc \in {"mark", "wait"}

Handles ==
    /\ \A g \in Engines : Live(g) => g = gen
    /\ \A c \in Callers : Stops(c) => call[c].h = gen /\ slot = [st |-> "Stopping", h |-> 0]
    /\ \A c, d \in Callers : Stops(c) /\ Stops(d) => c = d
    /\ slot.st = "Idle" => slot = Free /\ \A g \in Engines : ~Live(g)
    /\ slot.st # "Idle" => /\ gen # 0
                           /\ \/ slot.h = gen
                              \/ slot = [st |-> "Stopping", h |-> 0] /\ \E c \in Callers : Stops(c)

Unstarted == \A g \in Engines : g > gen => eng[g] = Unborn

Ending == {"drop", "final", "gone"}
Panicked == \A g \in Engines : eng[g].res = "panic" => eng[g].pc \in Ending

Idling == {"none", "attach", "final", "gone"}
Forwarding == \A g \in Engines : eng[g].pc \in Idling => \A r \in Runs : fwd[g][r] = NoTask

OneWriter ==
    /\ store = [open |-> store.open, lost |-> FALSE]
    /\ \A o \in store.open : /\ o.w \in Writers /\ o.stale = FALSE
                             /\ \A g \in Engines : o.w = Main(g) => eng[g].pc \in {"keep", "src"}
                             /\ \A c \in Callers : o.w = Caller(c) => call[c].pc = "note"
    /\ \A o, p \in store.open : o = p

SharedTunnel == tun # 0 => eng[tun].pc = "serve" \/ eng[tun].res = "panic"

EngInv == /\ Typed /\ Handles /\ Unstarted /\ Panicked /\ Forwarding /\ OneWriter
          /\ SharedTunnel /\ StatusTrue
-----------------------------------------------------------------------------
(* What the steps write into an engine's record.                           *)

(* Of a record that moved to p, what a thread's own step leaves alone.     *)
Stays(e, v, p) == v \in EngRec /\ v.pc = p /\ v.res = e.res /\ v.done = e.done /\ v.stop = e.stop

\* The bootstrap writes its place and one or two of its own fields.
LEMMA WithPlace ==
    ASSUME NEW e \in EngRec, NEW p \in Pcs
    PROVE  /\ Stays(e, With(e, [pc |-> p]), p)
           /\ \A b \in BOOLEAN : Stays(e, With(e, [pc |-> p, alive |-> b]), p)
           /\ \A q \in {"active", "full", "rescue"} : Stays(e, With(e, [pc |-> p, pool |-> q]), p)
           /\ Stays(e, With(e, [pc |-> p, pool |-> "active", alive |-> FALSE]), p)
           /\ \A t \in Percents : Stays(e, With(e, [pc |-> p, top |-> t]), p)
           /\ \A r \in Runs : Stays(e, With(e, [pc |-> p, run |-> r]), p)
           /\ Stays(e, With(e, [pc |-> p, tries |-> 1, run |-> 1]), p)
           /\ Stays(e, With(e, [pc |-> p, ready |-> TRUE]), p)
<1> USE DEF With, EngRec, Stays
<1>1. Stays(e, With(e, [pc |-> p]), p)
  BY SMT
<1>2. \A b \in BOOLEAN : Stays(e, With(e, [pc |-> p, alive |-> b]), p)
  OBVIOUS
<1>3. \A q \in {"active", "full", "rescue"} : Stays(e, With(e, [pc |-> p, pool |-> q]), p)
  BY ZenonT(60)
<1>4. Stays(e, With(e, [pc |-> p, pool |-> "active", alive |-> FALSE]), p)
  OBVIOUS
<1>5. \A t \in Percents : Stays(e, With(e, [pc |-> p, top |-> t]), p)
  OBVIOUS
<1>6. \A r \in Runs : Stays(e, With(e, [pc |-> p, run |-> r]), p)
  BY ZenonT(60)
<1>7. Stays(e, With(e, [pc |-> p, tries |-> 1, run |-> 1]), p)
  BY SMT DEF Runs
<1>8. Stays(e, With(e, [pc |-> p, ready |-> TRUE]), p)
  BY ZenonT(60)
<1>9. QED BY <1>1, <1>2, <1>3, <1>4, <1>5, <1>6, <1>7, <1>8

\* Steps that do not move the thread: another attempt, progress, the signal.
LEMMA WithField ==
    ASSUME NEW e \in EngRec
    PROVE  /\ Stays(e, With(e, [tries |-> e.tries + 1]), e.pc)
           /\ \A t \in Percents : Stays(e, With(e, [top |-> t]), e.pc)
           /\ With(e, [stop |-> "sent"]) \in EngRec
           /\ With(e, [stop |-> "sent"]).pc = e.pc
           /\ With(e, [stop |-> "sent"]).res = e.res
           /\ With(e, [stop |-> "sent"]).done = e.done
<1> USE DEF With, EngRec, Stays
<1>1. Stays(e, With(e, [tries |-> e.tries + 1]), e.pc)
  BY SMT
<1>2. \A t \in Percents : Stays(e, With(e, [top |-> t]), e.pc)
  OBVIOUS
<1>3. QED BY <1>1, <1>2, SMT

(* The types of an engine's fields.                                        *)
FieldsTyped(v) ==
    /\ v.pc \in Pcs /\ v.stop \in {"no", "sent"} /\ v.ready \in BOOLEAN
    /\ v.top \in Percents \cup {0} /\ v.pool \in {"active", "full", "rescue"}
    /\ v.alive \in BOOLEAN /\ v.run \in Runs /\ v.tries \in Nat
    /\ v.res \in {"ok", "err", "panic"} /\ v.done \in {"empty", "sent", "dropped"}

\* An engine's record has these fields, and no others.
LEMMA RecordIs ==
    ASSUME NEW v \in EngRec
    PROVE  v = [k \in Fields |-> v[k]] /\ FieldsTyped(v)
BY DEF EngRec, Fields, FieldsTyped

\* And whatever has them is one.
LEMMA IsRecord ==
    ASSUME NEW v, v = [k \in Fields |-> v[k]], FieldsTyped(v)
    PROVE  v \in EngRec
BY DEF EngRec, Fields, FieldsTyped

\* Leaving engine_async, and a runtime that could not be built.
LEMMA WithEnd ==
    ASSUME NEW e \in EngRec, NEW x \in {"ok", "err", "panic"}
    PROVE  /\ With(e, Leave(x)) \in EngRec /\ With(e, Leave(x)).pc = "drop"
           /\ With(e, Leave(x)).res = x /\ With(e, Leave(x)).done = e.done
           /\ With(e, [pc |-> "final", res |-> "err"]) \in EngRec
           /\ With(e, [pc |-> "final", res |-> "err"]).pc = "final"
           /\ With(e, [pc |-> "final", res |-> "err"]).res = "err"
           /\ With(e, [pc |-> "final", res |-> "err"]).done = e.done
<1> DEFINE v == With(e, Leave(x))
<1>1. DOMAIN e = Fields
  BY RecordIs
<1>2. v = [k \in Fields |-> v[k]]
  BY <1>1 DEF With
<1>3. /\ v.pc = "drop" /\ v.stop = e.stop /\ v.ready = e.ready /\ v.top = e.top /\ v.pool = "active"
      /\ v.alive = FALSE /\ v.run = 1 /\ v.tries = 1 /\ v.res = x /\ v.done = e.done
  BY <1>1 DEF With, Leave, Fields
<1> HIDE DEF v
<1>4. "drop" \in Pcs /\ 1 \in Runs
  BY SMT DEF Pcs, Runs
<1>5. v \in EngRec
  <2>1. FieldsTyped(e)
    BY RecordIs
  <2>2. v.ready \in BOOLEAN /\ v.alive \in BOOLEAN
    BY <1>3, <2>1 DEF FieldsTyped
  <2>3. v.tries \in Nat
    BY <1>3, SMT
  <2>4. FieldsTyped(v)
    BY <1>3, <1>4, <2>1, <2>2, <2>3 DEF FieldsTyped
  <2>5. QED BY <1>2, <2>4, IsRecord
<1>6. /\ With(e, [pc |-> "final", res |-> "err"]) \in EngRec
      /\ With(e, [pc |-> "final", res |-> "err"]).pc = "final"
      /\ With(e, [pc |-> "final", res |-> "err"]).res = "err"
      /\ With(e, [pc |-> "final", res |-> "err"]).done = e.done
  BY SMT DEF With, EngRec, Pcs
<1>7. QED BY <1>3, <1>5, <1>6 DEF v

\* The record of a thread that has ended.
LEMMA WithGone ==
    ASSUME Typed, NEW g \in Engines, NEW d \in {"sent", "dropped"}
    PROVE  /\ With(eng[g], Gone(g, d)) \in EngRec /\ With(eng[g], Gone(g, d)).pc = "gone"
           /\ With(eng[g], Gone(g, d)).res = eng[g].res /\ With(eng[g], Gone(g, d)).done = d
<1> DEFINE v == Gone(g, d)
<1>1. eng[g] \in EngRec
  BY DEF Typed
<1>2. v = [k \in Fields |-> v[k]]
  BY DEF Gone, Unborn, Fields
<1>3. /\ v.pc = "gone" /\ v.stop = "no" /\ v.ready = FALSE /\ v.top = 0 /\ v.pool = "active"
      /\ v.alive = FALSE /\ v.run = 1 /\ v.tries = 1 /\ v.res = eng[g].res /\ v.done = d
  BY DEF Gone, Unborn
<1>4. "gone" \in Pcs /\ 1 \in Runs
  BY SMT DEF Pcs, Runs
<1>5. eng[g].res \in {"ok", "err", "panic"} /\ eng[g] = [k \in Fields |-> eng[g][k]]
  BY <1>1, RecordIs DEF FieldsTyped
<1> HIDE DEF v
<1>6. v \in EngRec
  <2>1. v.ready \in BOOLEAN /\ v.alive \in BOOLEAN
    BY <1>3
  <2>2. v.tries \in Nat
    BY <1>3, SMT
  <2>3. FieldsTyped(v)
    BY <1>3, <1>4, <1>5, <2>1, <2>2 DEF FieldsTyped
  <2>4. QED BY <1>2, <2>3, IsRecord
<1>7. With(eng[g], v) = v
  BY <1>2, <1>5 DEF With
<1>8. QED BY <1>3, <1>6, <1>7 DEF v

\* SetEng writes one engine's record.
LEMMA SetEngIs ==
    ASSUME Typed, NEW g \in Engines, NEW r, SetEng(g, r), With(eng[g], r) \in EngRec
    PROVE  /\ eng' \in [Engines -> EngRec] /\ eng'[g] = With(eng[g], r)
           /\ \A h \in Engines : h # g => eng'[h] = eng[h]
BY DEF Typed, SetEng

(* A step of a thread at work that leaves it at work or on its way out.    *)
Moved(g) ==
    /\ eng' \in [Engines -> EngRec]
    /\ \A h \in Engines : h # g => eng'[h] = eng[h]
    /\ eng[g].pc \notin {"none", "drop", "final", "gone"}
    /\ eng'[g].pc \notin Idling
    /\ eng'[g].res = "panic" => eng'[g].pc = "drop"
    /\ eng'[g].done = eng[g].done

\* On to another place ...
LEMMA MovedTo ==
    ASSUME EngInv, NEW g \in Engines, eng[g].pc \notin {"none", "drop", "final", "gone"}, NEW r, SetEng(g, r),
           NEW p \in Pcs \ Idling, Stays(eng[g], With(eng[g], r), p)
    PROVE  Moved(g) /\ eng'[g].pc = p
<1>1. Typed /\ eng[g] \in EngRec /\ eng[g].res # "panic"
  BY DEF EngInv, Typed, Panicked, Ending
<1>2. QED BY <1>1, SetEngIs DEF Moved, Stays

\* ... or out of engine_async.
LEMMA MovedOut ==
    ASSUME EngInv, NEW g \in Engines, eng[g].pc \notin {"none", "drop", "final", "gone"},
           NEW x \in {"ok", "err", "panic"}, SetEng(g, Leave(x))
    PROVE  Moved(g) /\ eng'[g].pc = "drop" /\ eng'[g].res = x
<1>1. Typed /\ eng[g] \in EngRec
  BY DEF EngInv, Typed
<1>2. QED BY <1>1, SetEngIs, WithEnd, SMT DEF Moved, Idling
(* The steps of an engine thread between its start and its runtime's end.  *)
Work(g) ==
    \/ Attach(g) \/ StopSeen(g) \/ Probe(g) \/ Fetch(g) \/ Boot(g) \/ Wait(g) \/ AttemptFailed(g)
    \/ Verify(g) \/ Bind(g) \/ TurnOn(g) \/ Ready(g) \/ Publish(g) \/ Teardown(g) \/ Grace(g)
    \/ Panic(g)

(* What such a step does to the rest.                                      *)
Worked(g) ==
    /\ Moved(g)
    /\ UNCHANGED <<slot, gen, call>>
    /\ \/ UNCHANGED store /\ eng[g].pc \notin {"keep", "src"}
       \/ store' = [open |-> {}, lost |-> FALSE]
    /\ status' = status \/ status' = On \/ \E p \in Percents : status' = Starting(p)
    /\ \/ tun' = tun /\ (eng[g].pc = "serve" => eng'[g].res = "panic")
       \/ tun' = g /\ eng'[g].pc = "serve"
       \/ tun' = 0
    /\ act' \in {act, g, 0}
    /\ fwd' = fwd \/ \E r \in Runs : fwd' = [fwd EXCEPT ![g][r] = Listening]

\* A thread at work moves, writes status, tunnel and bridges at most as its
\* place allows, and leaves slot and calls alone.
LEMMA WorkMoves ==
    ASSUME EngInv, NEW g \in Engines, Work(g)
    PROVE  Worked(g)
<1> USE DEF At
<1>1. eng[g] \in EngRec /\ {"probe", "boot", "keep", "src", "wait", "failed", "verify", "bind", "on", "ready",
                            "publish", "serve", "grace"} \subseteq Pcs \ Idling
  BY DEF EngInv, Typed, Pcs, Idling
<1>2. ASSUME NEW r, Own(g, r), Moved(g), eng[g].pc \notin {"keep", "src", "serve"} PROVE Worked(g)
  BY <1>2 DEF Own, Worked, slotVars, sharedVars, taskVars
<1>3. ASSUME NEW p \in {"probe", "boot", "src", "verify", "failed", "publish"}, Own(g, [pc |-> p]),
             eng[g].pc \notin {"none", "drop", "final", "gone", "keep", "src", "serve"}
      PROVE  Worked(g)
  <2>1. p \in Pcs \ Idling /\ Stays(eng[g], With(eng[g], [pc |-> p]), p)
    BY <1>1, <1>3, WithPlace
  <2>2. Moved(g)
    BY <1>3, <2>1, MovedTo DEF Own
  <2>3. QED BY <1>2, <1>3, <2>2
<1>4. ASSUME NEW x \in {"ok", "err"}, Own(g, Leave(x)),
             eng[g].pc \notin {"none", "drop", "final", "gone", "keep", "src", "serve"}
      PROVE  Worked(g)
  BY <1>2, <1>4, MovedOut DEF Own
<1>5. CASE Attach(g)
  <2>1. Own(g, [pc |-> "probe"]) \/ Own(g, [pc |-> "boot"])
    BY <1>5 DEF Attach
  <2>2. QED BY <1>3, <1>5, <2>1 DEF Attach
<1>6. CASE StopSeen(g)
  BY <1>4, <1>6 DEF StopSeen
<1>7. CASE Probe(g)
  <2>1. PICK b \in BOOLEAN : Own(g, [pc |-> "keep", alive |-> b])
    BY <1>7 DEF Probe
  <2>2. Stays(eng[g], With(eng[g], [pc |-> "keep", alive |-> b]), "keep")
    BY <1>1, WithPlace
  <2>3. Moved(g)
    BY <1>1, <1>7, <2>1, <2>2, MovedTo DEF Own, Probe
  <2>4. QED BY <1>2, <1>7, <2>1, <2>3 DEF Probe
<1>8. CASE Fetch(g)
  BY <1>3, <1>8 DEF Fetch
<1>9. CASE Boot(g)
  <2>1. CASE SetEng(g, [pc |-> "failed"]) /\ UNCHANGED <<status, fwd>>
    <3>1. Moved(g)
      BY <1>1, <1>9, <2>1, WithPlace, MovedTo, ZenonT(60) DEF Boot
    <3>2. QED BY <1>9, <2>1, <3>1 DEF Boot, Worked, slotVars, sharedVars
  <2>2. ASSUME NEW p \in Percents, fwd' = [fwd EXCEPT ![g][eng[g].run] = Listening],
               \/ status' = Starting(p) /\ SetEng(g, [pc |-> "wait", top |-> p])
               \/ UNCHANGED status /\ SetEng(g, [pc |-> "wait"])
        PROVE  Worked(g)
    <3>1. Moved(g) /\ eng'[g].pc = "wait"
      <4>1. /\ Stays(eng[g], With(eng[g], [pc |-> "wait", top |-> p]), "wait")
            /\ Stays(eng[g], With(eng[g], [pc |-> "wait"]), "wait")
        BY <1>1, WithPlace
      <4>2. QED BY <1>1, <1>9, <2>2, <4>1, MovedTo, ZenonT(60) DEF Boot
    <3>2. eng[g].run \in Runs
      BY <1>1 DEF EngRec
    <3>3. QED BY <1>9, <2>2, <3>1, <3>2 DEF Boot, Worked, slotVars, sharedVars
  <2>3. QED BY <1>9, <2>1, <2>2 DEF Boot
<1>10. CASE Wait(g)
  BY <1>3, <1>10 DEF Wait
<1>11. CASE AttemptFailed(g)
  <2>1. CASE Own(g, [pc |-> "boot", run |-> 2])
    <3>1. Stays(eng[g], With(eng[g], [pc |-> "boot", run |-> 2]), "boot")
      <4>1. 2 \in Runs /\ "boot" \in Pcs
        BY <1>1, SMT DEF Runs
      <4>2. QED BY <1>1, <4>1, WithPlace
    <3>2. Moved(g)
      BY <1>1, <1>11, <2>1, <3>1, MovedTo DEF Own, AttemptFailed
    <3>3. QED BY <1>2, <1>11, <2>1, <3>2 DEF AttemptFailed
  <2>2. CASE Own(g, Leave("err"))
    BY <1>4, <1>11, <2>2 DEF AttemptFailed
  <2>3. QED BY <1>11, <2>1, <2>2 DEF AttemptFailed
<1>12. CASE Verify(g)
  <2>1. CASE Own(g, [pc |-> "bind", tries |-> 1, run |-> 1])
    <3>1. Moved(g)
      <4>1. Stays(eng[g], With(eng[g], [pc |-> "bind", tries |-> 1, run |-> 1]), "bind")
        BY <1>1, WithPlace
      <4>2. QED BY <1>1, <1>12, <2>1, <4>1, MovedTo DEF Own, Verify
    <3>2. QED BY <1>2, <1>12, <2>1, <3>1 DEF Verify
  <2>2. CASE Own(g, [tries |-> eng[g].tries + 1])
    <3>1. Stays(eng[g], With(eng[g], [tries |-> eng[g].tries + 1]), "verify")
      BY <1>1, <1>12, WithField DEF Verify
    <3>2. Moved(g)
      BY <1>1, <1>12, <2>2, <3>1, MovedTo DEF Own, Verify
    <3>3. QED BY <1>2, <1>12, <2>2, <3>2 DEF Verify
  <2>3. CASE Own(g, Leave("err"))
    BY <1>4, <1>12, <2>3 DEF Verify
  <2>4. QED BY <1>12, <2>1, <2>2, <2>3 DEF Verify
<1>13. CASE Bind(g)
  <2>1. Moved(g)
    <3>1. CASE SetEng(g, Leave("err"))
      BY <1>1, <1>13, <3>1, MovedOut DEF Bind
    <3>2. CASE SetEng(g, [pc |-> "on"])
      <4>1. Stays(eng[g], With(eng[g], [pc |-> "on"]), "on")
        BY <1>1, WithPlace
      <4>2. QED BY <1>1, <1>13, <3>2, <4>1, MovedTo DEF Bind
    <3>3. QED BY <1>13, <3>1, <3>2 DEF Bind
  <2>2. QED BY <1>13, <2>1 DEF Bind, Worked, slotVars, taskVars
<1>14. CASE TurnOn(g)
  <2>1. Moved(g)
    <3>1. Stays(eng[g], With(eng[g], [pc |-> "ready"]), "ready")
      BY <1>1, WithPlace
    <3>2. QED BY <1>1, <1>14, <3>1, MovedTo DEF TurnOn
  <2>2. QED BY <1>14, <2>1 DEF TurnOn, Worked, slotVars, sharedVars, taskVars
<1>15. CASE Ready(g)
  <2>1. Moved(g)
    <3>1. Stays(eng[g], With(eng[g], [pc |-> "publish", ready |-> TRUE]), "publish")
      BY <1>1, WithPlace
    <3>2. QED BY <1>1, <1>15, <3>1, MovedTo DEF Ready, Own
  <2>2. QED BY <1>2, <1>15, <2>1 DEF Ready
<1>16. CASE Publish(g)
  <2>1. Moved(g) /\ eng'[g].pc = "serve"
    <3>1. Stays(eng[g], With(eng[g], [pc |-> "serve"]), "serve")
      BY <1>1, WithPlace
    <3>2. QED BY <1>1, <1>16, <3>1, MovedTo DEF Publish
  <2>2. QED BY <1>16, <2>1 DEF Publish, Worked, slotVars
<1>17. CASE Teardown(g)
  <2>1. Moved(g)
    <3>1. Stays(eng[g], With(eng[g], [pc |-> "grace"]), "grace")
      BY <1>1, WithPlace
    <3>2. QED BY <1>1, <1>17, <3>1, MovedTo DEF Teardown
  <2>2. gen = g
    BY <1>17 DEF Teardown, EngInv, Handles, Live
  <2>3. QED BY <1>17, <2>1, <2>2 DEF Teardown, Worked, slotVars, taskVars
<1>18. CASE Grace(g)
  BY <1>4, <1>18 DEF Grace
<1>19. CASE Panic(g)
  <2>1. Moved(g) /\ eng'[g].res = "panic"
    BY <1>19, MovedOut DEF Panic
  <2>2. QED BY <1>19, <2>1 DEF Panic, Worked, slotVars, sharedVars, taskVars
<1>20. QED BY <1>5, <1>6, <1>7, <1>8, <1>9, <1>10, <1>11, <1>12, <1>13, <1>14, <1>15, <1>16,
              <1>17, <1>18, <1>19 DEF Work

\* Whoever saves has the only copy, and it is fresh.
LEMMA SaveStoreIs ==
    ASSUME EngInv, NEW w, SaveStore(w)
    PROVE  /\ store' = [open |-> {}, lost |-> FALSE]
           /\ \E o \in store.open : o.w = w
           /\ AfterSave(w) /\ UNCHANGED <<slot, gen, status, tun, act, fwd, left>>
<1>1. PICK o \in store.open, ok \in BOOLEAN :
         /\ o.w = w
         /\ store' = [open |-> {[p EXCEPT !.stale = @ \/ ok] : p \in store.open \ {o}},
                      lost |-> store.lost \/ (ok /\ o.stale)]
  BY DEF SaveStore
<1>2. store.lost = FALSE /\ o.stale = FALSE /\ \A p \in store.open : p = o
  BY SMT DEF EngInv, OneWriter
<1>3. store.open \ {o} = {}
  BY <1>2
<1>4. {[p EXCEPT !.stale = @ \/ ok] : p \in store.open \ {o}} = {}
  BY <1>3
<1>5. (store.lost \/ (ok /\ o.stale)) = FALSE
  BY <1>2
<1>6. QED BY <1>1, <1>4, <1>5 DEF SaveStore, slotVars, sharedVars

\* An engine thread goes on after its save as the bootstrap says.
LEMMA AfterSaveMain ==
    ASSUME NEW g \in Engines, AfterSave(Main(g))
    PROVE  /\ UNCHANGED call
           /\ \/ SetEng(g, AfterRound(eng[g]))
              \/ SetEng(g, [pc |-> "probe"])
              \/ SetEng(g, Leave("err"))
BY DEF AfterSave, Main

\* Any other writer leaves the engines alone.
LEMMA AfterSaveOther ==
    ASSUME NEW w \in Writers, \A g \in Engines : w # Main(g), AfterSave(w)
    PROVE  /\ eng' = eng
           /\ call' = call \/ \E c \in Callers : w = Caller(c) /\ SetCall(c, "idle", 0)
<1>1. CASE \E c \in Callers : w = Caller(c)
  BY <1>1, SMT DEF AfterSave, Caller
<1>2. ASSUME NEW n \in TaskNames, NEW g \in Engines, w = Task(n, g) PROVE eng' = eng /\ call' = call
  BY <1>2 DEF AfterSave, Task, TaskNames
<1>3. QED BY <1>1, <1>2, SMT DEF Writers

\* So the save of a probe round or of a rescue's sources is a step of the
\* thread at work.
LEMMA SaveMoves ==
    ASSUME EngInv, NEW g \in Engines, SaveStore(Main(g))
    PROVE  Worked(g)
<1>1. eng[g] \in EngRec /\ {"probe", "boot", "fetch"} \subseteq Pcs \ Idling
  BY DEF EngInv, Typed, Pcs, Idling
<1>2. /\ store' = [open |-> {}, lost |-> FALSE]
      /\ AfterSave(Main(g)) /\ UNCHANGED <<slot, gen, status, tun, act, fwd, left>>
  BY SaveStoreIs
<1>3. eng[g].pc \in {"keep", "src"}
  BY SaveStoreIs, ZenonT(60) DEF EngInv, OneWriter
<1>4. UNCHANGED call
  BY <1>2, AfterSaveMain
<1>5. /\ Stays(eng[g], With(eng[g], [pc |-> "probe"]), "probe")
      /\ Stays(eng[g], With(eng[g], [pc |-> "probe", pool |-> "full"]), "probe")
      /\ Stays(eng[g], With(eng[g], [pc |-> "fetch", pool |-> "rescue"]), "fetch")
      /\ Stays(eng[g], With(eng[g], [pc |-> "boot", pool |-> "active", alive |-> FALSE]), "boot")
  BY <1>1, WithPlace
<1>6. AfterRound(eng[g]) \in {[pc |-> "boot", pool |-> "active", alive |-> FALSE],
                              [pc |-> "probe", pool |-> "full"],
                              [pc |-> "fetch", pool |-> "rescue"], Leave("err")}
  BY DEF AfterRound
<1>7. Moved(g)
  <2>1. CASE SetEng(g, [pc |-> "probe"])
    BY <1>1, <1>3, <1>5, <2>1, MovedTo
  <2>2. CASE SetEng(g, Leave("err"))
    BY <1>3, <2>2, MovedOut
  <2>3. CASE SetEng(g, [pc |-> "boot", pool |-> "active", alive |-> FALSE])
    BY <1>1, <1>3, <1>5, <2>3, MovedTo
  <2>4. CASE SetEng(g, [pc |-> "probe", pool |-> "full"])
    BY <1>1, <1>3, <1>5, <2>4, MovedTo
  <2>5. CASE SetEng(g, [pc |-> "fetch", pool |-> "rescue"])
    BY <1>1, <1>3, <1>5, <2>5, MovedTo
  <2>6. QED BY <1>2, <1>6, <2>1, <2>2, <2>3, <2>4, <2>5, AfterSaveMain
<1>8. QED BY <1>2, <1>3, <1>4, <1>7 DEF Worked

\* The status stays true while it stays, and the engine or the call behind it does.
LEMMA StatusKept ==
    ASSUME StatusTrue, status' = status, eng' = eng,
           \A d \in Callers : call[d].pc \in {"wait", "late"} => call'[d].pc \in {"wait", "late"}
    PROVE  StatusTrue'
BY DEF StatusTrue, Live

\* Off and Error need nothing behind them.
LEMMA StatusOver ==
    ASSUME status' \in {Off, Error}
    PROVE  StatusTrue'
<1>1. status'.k \in {"Off", "Error"}
  BY SMT DEF Off, Error
<1>2. status'.k \notin {"Starting", "On"} /\ status'.k # "Stopping"
  BY <1>1
<1>3. QED BY <1>2 DEF StatusTrue

\* A callback's cell takes a percentage, or that it listens.
LEMMA FwdTyped ==
    ASSUME Typed, NEW g \in Engines, NEW r \in Runs, NEW p \in Percents \cup {NoTask, Listening}
    PROVE  /\ [fwd EXCEPT ![g][r] = p] \in [Engines -> [Runs -> Percents \cup {NoTask, Listening}]]
           /\ \A h \in Engines : h # g => [fwd EXCEPT ![g][r] = p][h] = fwd[h]
<1>1. fwd[g] \in [Runs -> Percents \cup {NoTask, Listening}]
  BY DEF Typed
<1>2. [fwd[g] EXCEPT ![r] = p] \in [Runs -> Percents \cup {NoTask, Listening}]
  BY <1>1
<1>3. QED BY <1>2 DEF Typed

\* Handles is about slot, generation, stopping calls and live threads only.
LEMMA HandlesKept ==
    ASSUME Handles, UNCHANGED <<slot, gen>>, \A g \in Engines : Live(g)' => Live(g),
           \A c \in Callers : (Stops(c)' <=> Stops(c)) /\ (Stops(c) => call'[c].h = call[c].h)
    PROVE  Handles'
BY DEF Handles

\* A thread at work preserves the invariant.
LEMMA WorkedKeeps ==
    ASSUME EngInv, NEW g \in Engines, Worked(g)
    PROVE  EngInv'
<1> USE DEF EngInv
<1>1. g = gen /\ Live(g) /\ Live(g)'
  BY DEF Worked, Moved, Handles, Live, Idling
<1>2. \A h \in Engines : (Live(h)' <=> Live(h)) /\ (h # g => eng'[h] = eng[h])
  BY <1>1 DEF Worked, Moved, Live
<1>3. UNCHANGED <<slot, gen, call>>
  BY DEF Worked
<1>4. Typed'
  <2>1. status' \in StatusRec
    BY SMT DEF Worked, Typed, StatusRec, On, Starting
  <2>2. g \in 0 .. MaxStarts /\ 0 \in 0 .. MaxStarts
    BY EngineAssumption, SMT DEF Engines
  <2>3. tun' \in 0 .. MaxStarts /\ act' \in 0 .. MaxStarts
    BY <2>2 DEF Worked, Typed
  <2>4. fwd' \in [Engines -> [Runs -> Percents \cup {NoTask, Listening}]]
    <3>1. fwd \in [Engines -> [Runs -> Percents \cup {NoTask, Listening}]]
      BY DEF Typed
    <3>2. CASE \E r \in Runs : fwd' = [fwd EXCEPT ![g][r] = Listening]
      BY <3>2, FwdTyped, SMT
    <3>3. QED BY <3>1, <3>2 DEF Worked
  <2>5. QED BY <1>3, <2>1, <2>3, <2>4 DEF Worked, Moved, Typed
<1>5. Handles'
  <2>1. \A c \in Callers : Stops(c)' <=> Stops(c)
    BY <1>3 DEF Stops
  <2>2. QED BY <1>2, <1>3, <2>1 DEF Handles
<1>6. Unstarted'
  BY <1>1, <1>2, <1>3, SMT DEF Unstarted, Typed, Engines
<1>7. Panicked'
  BY <1>2 DEF Panicked, Worked, Moved, Ending
<1>8. Forwarding'
  <2>1. ASSUME NEW h \in Engines, eng'[h].pc \in Idling PROVE \A r \in Runs : fwd'[h][r] = NoTask
    <3>1. h # g /\ eng[h].pc \in Idling
      BY <1>2, <2>1 DEF Worked, Moved
    <3>2. fwd'[h] = fwd[h]
      BY <3>1 DEF Worked, Typed
    <3>3. QED BY <3>1, <3>2 DEF Forwarding
  <2>2. QED BY <2>1 DEF Forwarding
<1>9. OneWriter'
  <2>1. CASE store' = [open |-> {}, lost |-> FALSE]
    BY <2>1 DEF OneWriter
  <2>2. CASE UNCHANGED store /\ eng[g].pc \notin {"keep", "src"}
    BY <1>2, <1>3, <2>2, ZenonT(60) DEF OneWriter
  <2>3. QED BY <2>1, <2>2 DEF Worked
<1>10. SharedTunnel'
  <2>1. tun # 0 => tun \in Engines
    BY EngineAssumption, SMT DEF Typed, Engines
  <2>2. g # 0
    BY SMT DEF Engines
  <2>3. CASE tun' = tun /\ (eng[g].pc = "serve" => eng'[g].res = "panic")
    <3>1. eng[g].res # "panic"
      BY DEF Panicked, Worked, Moved, Ending
    <3>2. QED BY <1>2, <2>1, <2>3, <3>1 DEF SharedTunnel
  <2>4. QED BY <2>3 DEF SharedTunnel, Worked
<1>11. StatusTrue'
  <2>1. \E h \in Engines : Live(h)'
    BY <1>1
  <2>2. status'.k = "Stopping" => status' = status
    BY SMT DEF Worked, On, Starting
  <2>3. QED BY <1>3, <2>1, <2>2 DEF StatusTrue
<1>12. QED BY <1>4, <1>5, <1>6, <1>7, <1>8, <1>9, <1>10, <1>11

-----------------------------------------------------------------------------
(* The end of an engine thread.                                            *)

Ended(g) ==
    /\ UNCHANGED <<slot, gen, call, store, tun, act>>
    /\ eng' \in [Engines -> EngRec] /\ \A h \in Engines : h # g => eng'[h] = eng[h]
    /\ eng[g].pc \in {"attach", "drop", "final"} /\ eng'[g].pc \in {"final", "gone"}
    /\ eng'[g].res = eng[g].res \/ (eng[g].pc = "attach" /\ eng'[g].res = "err")
    /\ fwd' \in [Engines -> [Runs -> Percents \cup {NoTask, Listening}]]
    /\ \A h \in Engines : h # g => fwd'[h] = fwd[h]
    /\ \A r \in Runs : fwd'[g][r] = NoTask
    /\ \/ status' = status /\ (eng'[g].pc = "final" \/ eng'[g].done = "dropped")
       \/ status' \in {Off, Error}

\* The steps that end a thread, and what they publish.
LEMMA EndSteps ==
    ASSUME EngInv, NEW g \in Engines,
           AttachFails(g) \/ RuntimeFails(g) \/ DropRuntime(g) \/ Finish(g) \/ ThreadDies(g)
    PROVE  Ended(g)
<1> USE DEF At
<1>1. Typed /\ eng[g] \in EngRec /\ fwd \in [Engines -> [Runs -> Percents \cup {NoTask, Listening}]]
  BY DEF EngInv, Typed
<1>2. eng[g].pc \in Idling => \A r \in Runs : fwd[g][r] = NoTask
  BY DEF EngInv, Forwarding
<1>3. CASE AttachFails(g)
  <2>1. /\ eng' \in [Engines -> EngRec] /\ eng'[g] = With(eng[g], Gone(g, "sent"))
        /\ \A h \in Engines : h # g => eng'[h] = eng[h]
    BY <1>1, <1>3, SetEngIs, WithGone DEF AttachFails
  <2>2. QED BY <1>1, <1>2, <1>3, <2>1, WithGone, ZenonT(60) DEF AttachFails, Ended, Idling, slotVars, sharedVars, taskVars
<1>4. CASE RuntimeFails(g)
  <2>1. /\ eng' \in [Engines -> EngRec] /\ eng'[g] = With(eng[g], [pc |-> "final", res |-> "err"])
        /\ \A h \in Engines : h # g => eng'[h] = eng[h]
    BY <1>1, <1>4, SetEngIs, WithEnd DEF RuntimeFails
  <2>2. QED BY <1>1, <1>2, <1>4, <2>1, WithEnd, SMT DEF RuntimeFails, Ended, Idling, slotVars, sharedVars, taskVars
<1>5. CASE DropRuntime(g)
  <2>1. Stays(eng[g], With(eng[g], [pc |-> "final"]), "final")
    BY <1>1, WithPlace DEF Pcs
  <2>2. /\ eng' \in [Engines -> EngRec] /\ eng'[g] = With(eng[g], [pc |-> "final"])
        /\ \A h \in Engines : h # g => eng'[h] = eng[h]
    BY <1>1, <1>5, <2>1, SetEngIs DEF DropRuntime, Stays
  <2>3. /\ fwd' \in [Engines -> [Runs -> Percents \cup {NoTask, Listening}]]
        /\ \A h \in Engines : h # g => fwd'[h] = fwd[h]
        /\ \A r \in Runs : fwd'[g][r] = NoTask
    BY <1>1, <1>5 DEF DropRuntime
  <2>4. QED BY <1>5, <2>1, <2>2, <2>3 DEF DropRuntime, Ended, Stays, slotVars, sharedVars
<1>6. CASE Finish(g)
  <2>1. /\ eng' \in [Engines -> EngRec] /\ eng'[g] = With(eng[g], Gone(g, "sent"))
        /\ \A h \in Engines : h # g => eng'[h] = eng[h]
    BY <1>1, <1>6, SetEngIs, WithGone DEF Finish
  <2>2. gen = g
    BY <1>6 DEF Finish, EngInv, Handles, Live
  <2>3. QED BY <1>1, <1>2, <1>6, <2>1, <2>2, WithGone DEF Finish, Ended, Idling, slotVars, sharedVars, taskVars
<1>7. CASE ThreadDies(g)
  <2>1. /\ eng' \in [Engines -> EngRec] /\ eng'[g] = With(eng[g], Gone(g, "dropped"))
        /\ \A h \in Engines : h # g => eng'[h] = eng[h]
    BY <1>1, <1>7, SetEngIs, WithGone DEF ThreadDies
  <2>2. QED BY <1>1, <1>2, <1>7, <2>1, WithGone DEF ThreadDies, Ended, Idling, slotVars, sharedVars, taskVars
<1>8. QED BY <1>3, <1>4, <1>5, <1>6, <1>7

\* A thread's end preserves the invariant: it leaves no callback, no status of an
\* engine alive unless it died, and a tunnel only after a panic.
LEMMA EndedKeeps ==
    ASSUME EngInv, NEW g \in Engines, Ended(g)
    PROVE  EngInv'
<1> USE DEF EngInv
<1>1. \A h \in Engines : Live(h)' => Live(h)
  BY DEF Ended, Live
<1>2. Typed'
  <2>1. status' \in StatusRec
    BY SMT DEF Ended, Typed, StatusRec, Off, Error
  <2>2. QED BY <2>1 DEF Ended, Typed
<1>3. Handles'
  <2>1. \A c \in Callers : (Stops(c)' <=> Stops(c)) /\ (Stops(c) => call'[c].h = call[c].h)
    BY DEF Ended, Stops
  <2>2. QED BY <1>1, <2>1, HandlesKept DEF Ended
<1>4. Unstarted'
  <2>1. eng[g] # Unborn
    BY SMT DEF Ended, Unborn
  <2>2. QED BY <2>1 DEF Unstarted, Ended
<1>5. Panicked'
  BY DEF Panicked, Ended, Ending
<1>6. Forwarding'
  BY ZenonT(60) DEF Forwarding, Ended
<1>7. OneWriter'
  BY SMT DEF OneWriter, Ended
<1>8. SharedTunnel'
  <2>1. tun # 0 => tun \in Engines
    BY EngineAssumption, SMT DEF Typed, Engines
  <2>2. eng[g].res = "panic" => eng'[g].res = "panic"
    BY DEF Ended, Panicked, Ending
  <2>3. QED BY <2>1, <2>2 DEF SharedTunnel, Ended
<1>9. StatusTrue'
  <2>1. CASE status' = status /\ (eng'[g].pc = "final" \/ eng'[g].done = "dropped")
    BY <2>1 DEF StatusTrue, Live, Ended
  <2>2. CASE status' \in {Off, Error}
    BY <2>2, StatusOver
  <2>3. QED BY <2>1, <2>2 DEF Ended
<1>10. QED BY <1>2, <1>3, <1>4, <1>5, <1>6, <1>7, <1>8, <1>9
-----------------------------------------------------------------------------
(* Steps beside the engine's record and the calls.                         *)

Aside ==
    /\ UNCHANGED <<slot, gen, status, eng, tun, fwd, call>>
    /\ act' \in 0 .. MaxStarts
    /\ UNCHANGED store \/ store' = [open |-> {}, lost |-> FALSE]

\* The tasks' own steps touch nothing the invariant is about.
LEMMA AsideKeeps ==
    ASSUME EngInv, Aside
    PROVE  EngInv'
<1> USE DEF EngInv, Aside
<1>1. Typed'
  BY DEF Typed
<1>2. Handles' /\ Unstarted' /\ Panicked' /\ Forwarding'
  BY DEF Handles, Unstarted, Panicked, Forwarding, Live, Stops
<1>3. OneWriter'
  BY SMT DEF OneWriter
<1>4. SharedTunnel' /\ StatusTrue'
  BY DEF SharedTunnel, StatusTrue, Live
<1>5. QED BY <1>1, <1>2, <1>3, <1>4

\* They are such steps.
LEMMA TaskSteps ==
    ASSUME EngInv, NEW g \in Engines,
           \/ \E n \in TaskNames : TaskStops(g, n) \/ Warmed(g, n) \/ PublishWarm(g, n)
           \/ DogWakes(g) \/ DogSpawns(g) \/ TickDone(g) \/ SweepStep(g)
    PROVE  Aside
<1>1. act \in 0 .. MaxStarts /\ {g, 0} \subseteq 0 .. MaxStarts
  BY EngineAssumption, SMT DEF EngInv, Typed, Engines
<1>2. ASSUME NEW n \in TaskNames, TaskStops(g, n) \/ Warmed(g, n) PROVE Aside
  BY <1>1, <1>2 DEF TaskStops, Warmed, Moves, Aside, slotVars, sharedVars
<1>3. ASSUME NEW n \in TaskNames, PublishWarm(g, n) PROVE Aside
  BY <1>1, <1>3 DEF PublishWarm, Aside, slotVars
<1>4. CASE DogWakes(g) \/ DogSpawns(g)
  BY <1>1, <1>4 DEF DogWakes, DogSpawns, Aside, slotVars, sharedVars
<1>5. CASE TickDone(g) \/ SweepStep(g)
  BY <1>1, <1>5 DEF TickDone, SweepStep, Moves, Aside, slotVars, sharedVars
<1>6. QED BY <1>2, <1>3, <1>4, <1>5

\* A progress event is only taken while the thread is at work.
LEMMA ProgressKeeps ==
    ASSUME EngInv, NEW g \in Engines, NEW r \in Runs, NEW p \in Percents, Progress(g, r, p)
    PROVE  EngInv'
<1> USE DEF EngInv
<1>1. Typed /\ eng[g] \in EngRec
  BY DEF Typed
<1>2. Stays(eng[g], With(eng[g], [top |-> p]), eng[g].pc)
  BY <1>1, WithField
<1>3. /\ eng' \in [Engines -> EngRec] /\ Stays(eng[g], eng'[g], eng[g].pc)
      /\ \A h \in Engines : h # g => eng'[h] = eng[h]
  BY <1>1, <1>2, SetEngIs DEF Progress, Stays
<1>4. \A h \in Engines : eng'[h].pc = eng[h].pc /\ eng'[h].res = eng[h].res /\ eng'[h].done = eng[h].done
  BY <1>3 DEF Stays
<1>5. UNCHANGED <<slot, gen, status, tun, act, call, store>>
  BY DEF Progress, slotVars, sharedVars
<1>6. /\ fwd' \in [Engines -> [Runs -> Percents \cup {NoTask, Listening}]]
      /\ \A h \in Engines : h # g => fwd'[h] = fwd[h]
  BY <1>1, FwdTyped, ZenonT(60) DEF Progress
<1>7. eng[g].pc \notin Idling
  BY SMT DEF Progress, Forwarding, Listening, NoTask
<1>8. Typed'
  BY <1>3, <1>5, <1>6 DEF Typed
<1>9. Handles'
  BY <1>4, <1>5, HandlesKept DEF Live, Stops
<1>10. Unstarted' /\ Panicked' /\ Forwarding'
  <2>1. Unstarted'
    BY <1>3, <1>5, <1>7, SMT DEF Unstarted, Unborn, Idling
  <2>2. Panicked'
    BY <1>4 DEF Panicked
  <2>3. Forwarding'
    BY <1>4, <1>6, <1>7, SMT DEF Forwarding
  <2>4. QED BY <2>1, <2>2, <2>3
<1>11. OneWriter'
  BY <1>4, <1>5, SMT DEF OneWriter
<1>12. SharedTunnel' /\ StatusTrue'
  <2>1. tun # 0 => tun \in Engines
    BY EngineAssumption, SMT DEF Typed, Engines
  <2>2. QED BY <1>4, <1>5, <2>1 DEF SharedTunnel, StatusTrue, Live
<1>13. QED BY <1>8, <1>9, <1>10, <1>11, <1>12

\* So is its status: the runtime's drop waits for a callback that is running.
LEMMA ShowProgressKeeps ==
    ASSUME EngInv, NEW g \in Engines, NEW r \in Runs, ShowProgress(g, r)
    PROVE  EngInv'
<1> USE DEF EngInv
<1>1. fwd[g][r] \in Percents
  <2>1. fwd[g][r] \in Percents \cup {NoTask, Listening}
    BY DEF Typed
  <2>2. QED BY <2>1, SMT DEF ShowProgress, NoTask, Listening
<1>2. UNCHANGED <<slot, gen, eng, tun, act, call, store>>
  BY DEF ShowProgress, slotVars, sharedVars
<1>3. /\ fwd' \in [Engines -> [Runs -> Percents \cup {NoTask, Listening}]]
      /\ \A h \in Engines : h # g => fwd'[h] = fwd[h]
  BY FwdTyped DEF ShowProgress
<1>4. eng[g].pc \notin Idling
  BY EngineAssumption, <1>1, SMT DEF Forwarding, NoTask
<1>5. Typed'
  BY <1>1, <1>2, <1>3 DEF Typed, ShowProgress, Starting, StatusRec
<1>6. Handles' /\ Unstarted' /\ Panicked'
  BY <1>2 DEF Handles, Unstarted, Panicked, Live, Stops
<1>7. Forwarding'
  BY <1>2, <1>3, <1>4 DEF Forwarding
<1>8. OneWriter' /\ SharedTunnel'
  BY <1>2 DEF OneWriter, SharedTunnel
<1>9. StatusTrue'
  BY <1>2, <1>4 DEF StatusTrue, Live, ShowProgress, Starting, Idling
<1>10. QED BY <1>5, <1>6, <1>7, <1>8, <1>9

\* A writer loads the store when nobody else has it.
LEMMA LoadKeeps ==
    ASSUME EngInv, NEW w \in Writers, LoadStore(w)
    PROVE  EngInv'
<1> USE DEF EngInv
<1>1. UNCHANGED <<slot, gen, status, eng, tun, act, fwd, call>>
  BY DEF LoadStore, Loads, slotVars, sharedVars, taskVars
<1>2. Typed' /\ Handles' /\ Unstarted' /\ Panicked' /\ Forwarding' /\ SharedTunnel' /\ StatusTrue'
  BY <1>1, ZenonT(60) DEF Typed, Handles, Unstarted, Panicked, Forwarding, SharedTunnel, StatusTrue, Live, Stops
<1>3. store' = [store EXCEPT !.open = @ \cup {[w |-> w, stale |-> FALSE]}] /\ store.open = {} /\ Wants(w)
  BY DEF LoadStore, Loads
<1>4. ASSUME NEW g \in Engines, w = Main(g) PROVE eng[g].pc \in {"keep", "src"}
  BY <1>3, <1>4 DEF Wants, Main
<1>5. ASSUME NEW c \in Callers, w = Caller(c) PROVE call[c].pc = "note"
  BY <1>3, <1>5 DEF Wants, Caller
<1>6. store' = [open |-> {[w |-> w, stale |-> FALSE]}, lost |-> FALSE]
  <2>1. store = [open |-> {}, lost |-> FALSE]
    BY <1>3 DEF OneWriter
  <2>2. store' = [[open |-> {}, lost |-> FALSE] EXCEPT !.open = {[w |-> w, stale |-> FALSE]}]
    BY <1>3, <2>1
  <2>3. QED BY <2>2
<1>7. OneWriter'
  <2>1. \A o \in store'.open : o = [w |-> w, stale |-> FALSE]
    BY <1>6
  <2>2. store' = [open |-> store'.open, lost |-> FALSE]
    BY <1>6
  <2>3. \A o \in store'.open : o.w = w /\ o.stale = FALSE
    BY <2>1, SMT
  <2>4. \A g \in Engines : w = Main(g) => eng'[g].pc \in {"keep", "src"}
    BY <1>1, <1>4
  <2>5. \A c \in Callers : w = Caller(c) => call'[c].pc = "note"
    BY <1>1, <1>5
  <2>6. QED BY <2>1, <2>2, <2>3, <2>4, <2>5 DEF OneWriter
<1>8. QED BY <1>2, <1>7

-----------------------------------------------------------------------------
(* Native calls that leave the slot alone.                                 *)

Placed(c) ==
    /\ call' \in [Callers -> CallRec] /\ \A d \in Callers : d # c => call'[d] = call[d]
    /\ call'[c].pc \notin {"mark", "wait"}
Called(c) ==
    /\ UNCHANGED <<slot, gen, eng, tun, act, fwd>>
    /\ Placed(c) /\ call[c].pc \notin {"mark", "wait"}
    /\ \/ UNCHANGED store /\ call[c].pc # "note"
       \/ store' = [open |-> {}, lost |-> FALSE]
    /\ \/ UNCHANGED status /\ call[c].pc # "late"
       \/ status' \in {Off, Error}

\* SetCall writes one caller's record.
LEMMA SetCallIs ==
    ASSUME Typed, NEW c \in Callers, NEW p, NEW h, SetCall(c, p, h), [pc |-> p, h |-> h] \in CallRec
    PROVE  /\ call' \in [Callers -> CallRec] /\ call'[c] = [pc |-> p, h |-> h]
           /\ \A d \in Callers : d # c => call'[d] = call[d]
BY DEF Typed, SetCall

LEMMA SetCallPlaces ==
    ASSUME Typed, NEW c \in Callers, NEW p \in {"idle", "off", "note", "refresh"}, NEW h \in 0 .. MaxStarts,
           SetCall(c, p, h)
    PROVE  Placed(c)
<1>1. [pc |-> p, h |-> h] \in CallRec
  BY DEF CallRec
<1>2. QED BY <1>1, SetCallIs, SMT DEF Placed

\* Such calls.
LEMMA CallSteps ==
    ASSUME EngInv, NEW c \in Callers,
           \/ StopIdle(c) \/ StopLate(c) \/ NoteBridges(c) \/ RefreshBridges(c) \/ RefreshEnds(c)
           \/ SaveStore(Caller(c))
           \/ BeginStop(c) /\ UNCHANGED slot /\ SetCall(c, "off", 0)
    PROVE  Called(c)
<1> USE DEF slotVars, sharedVars, taskVars
<1>1. Typed /\ tun \in 0 .. MaxStarts /\ 0 \in 0 .. MaxStarts
  BY EngineAssumption, SMT DEF EngInv, Typed
<1>2. CASE StopIdle(c)
  <2>1. Placed(c)
    BY <1>1, <1>2, SetCallPlaces DEF StopIdle
  <2>2. QED BY <1>2, <2>1 DEF StopIdle, Called
<1>3. CASE StopLate(c)
  <2>1. Placed(c)
    BY <1>1, <1>3, SetCallPlaces, ZenonT(60) DEF StopLate
  <2>2. QED BY <1>3, <2>1 DEF StopLate, Called
<1>4. CASE NoteBridges(c)
  <2>1. Placed(c)
    BY <1>1, <1>4, SetCallPlaces DEF NoteBridges
  <2>2. QED BY <1>4, <2>1, SMT DEF NoteBridges, Called, Rest
<1>5. CASE RefreshBridges(c)
  <2>1. Placed(c)
    BY <1>1, <1>5, SetCallPlaces DEF RefreshBridges
  <2>2. QED BY <1>5, <2>1, SMT DEF RefreshBridges, Called, Rest
<1>6. CASE RefreshEnds(c)
  <2>1. Placed(c)
    BY <1>1, <1>6, SetCallPlaces DEF RefreshEnds
  <2>2. QED BY <1>6, <2>1 DEF RefreshEnds, Called
<1>7. CASE SaveStore(Caller(c))
  <2>1. /\ store' = [open |-> {}, lost |-> FALSE]
        /\ \E o \in store.open : o.w = Caller(c)
        /\ AfterSave(Caller(c)) /\ UNCHANGED <<slot, gen, status, tun, act, fwd, left>>
    BY <1>7, SaveStoreIs
  <2>2. call[c].pc = "note"
    BY <2>1 DEF EngInv, OneWriter
  <2>3. SetCall(c, "idle", 0) /\ UNCHANGED eng
    BY <2>1 DEF AfterSave, Caller
  <2>4. Placed(c)
    BY <1>1, <2>3, SetCallPlaces
  <2>5. QED BY <2>1, <2>2, <2>3, <2>4 DEF Called
<1>8. CASE BeginStop(c) /\ UNCHANGED slot /\ SetCall(c, "off", 0)
  <2>1. Placed(c)
    BY <1>1, <1>8, SetCallPlaces
  <2>2. QED BY <1>8, <2>1, SMT DEF BeginStop, Called, Rest
<1>9. QED BY <1>2, <1>3, <1>4, <1>5, <1>6, <1>7, <1>8

\* They preserve the invariant.
LEMMA CalledKeeps ==
    ASSUME EngInv, NEW c \in Callers, Called(c)
    PROVE  EngInv'
<1> USE DEF EngInv
<1>1. Typed'
  <2>1. status' \in StatusRec
    BY SMT DEF Called, Typed, StatusRec, Off, Error
  <2>2. QED BY <2>1 DEF Called, Placed, Typed
<1>2. Handles'
  <2>1. \A d \in Callers : (Stops(d)' <=> Stops(d)) /\ (Stops(d) => call'[d].h = call[d].h)
    BY DEF Called, Placed, Stops
  <2>2. QED BY <2>1, HandlesKept DEF Called, Live
<1>3. Unstarted' /\ Panicked' /\ Forwarding' /\ SharedTunnel'
  BY DEF Called, Unstarted, Panicked, Forwarding, SharedTunnel
<1>4. OneWriter'
  BY SMT DEF Called, Placed, OneWriter
<1>5. StatusTrue'
  <2>1. CASE UNCHANGED status /\ call[c].pc # "late"
    <3>1. \A d \in Callers : call[d].pc \in {"wait", "late"} => call'[d].pc \in {"wait", "late"}
      BY <2>1 DEF Called, Placed
    <3>2. QED BY <2>1, <3>1, StatusKept DEF Called
  <2>2. CASE status' \in {Off, Error}
    BY <2>2, StatusOver
  <2>3. QED BY <2>1, <2>2 DEF Called
<1>6. QED BY <1>1, <1>2, <1>3, <1>4, <1>5
-----------------------------------------------------------------------------
(* nativeStart and nativeStop at the slot.                                 *)

\* A call that stops the engine has its handle, and is the only one that does.
LEMMA StopsHolds ==
    ASSUME Handles, NEW c \in Callers, Stops(c)
    PROVE  /\ call[c].h = gen /\ gen # 0 /\ slot.st = "Stopping"
           /\ \A d \in Callers : Stops(d) => d = c
<1>1. call[c].h = gen /\ slot = [st |-> "Stopping", h |-> 0]
  BY DEF Handles
<1>2. slot.st = "Stopping"
  BY <1>1
<1>3. gen # 0
  BY <1>2 DEF Handles
<1>4. \A d \in Callers : Stops(d) => d = c
  BY DEF Handles
<1>5. QED BY <1>1, <1>2, <1>3, <1>4

\* One call took the handle from the slot.
LEMMA HandlesTaken ==
    ASSUME \A g \in Engines : Live(g)' => g = gen', slot' = [st |-> "Stopping", h |-> 0], gen' # 0,
           NEW c \in Callers, \A d \in Callers : Stops(d)' <=> d = c, call'[c].h = gen'
    PROVE  Handles'
<1>1. slot'.st # "Idle"
  OBVIOUS
<1>2. QED BY <1>1 DEF Handles

\* A slot that can be acquired has no engine alive and no call that stops one.
LEMMA AcquirableIs ==
    ASSUME EngInv, Acquirable
    PROVE  (\A g \in Engines : ~Live(g)) /\ (\A c \in Callers : ~Stops(c))
<1> USE DEF EngInv
<1>1. slot.st \in {"Idle", "Running"}
  BY DEF Acquirable
<1>2. \A c \in Callers : ~Stops(c)
  BY <1>1, StopsHolds
<1>3. CASE slot.st = "Running"
  <2>1. slot.h = gen /\ eng[gen].pc = "gone"
    BY <1>1, <1>2, <1>3 DEF Handles, Acquirable
  <2>2. QED BY <1>2, <2>1 DEF Handles, Live
<1>4. QED BY <1>1, <1>2, <1>3 DEF Handles

\* A refused start frees the slot.
LEMMA RefusedKeeps ==
    ASSUME EngInv, NEW c \in Callers, StartRefused(c)
    PROVE  EngInv'
<1> USE DEF EngInv
<1>1. (\A g \in Engines : ~Live(g)) /\ (\A d \in Callers : ~Stops(d))
  BY AcquirableIs DEF StartRefused
<1>2. slot' = Free /\ UNCHANGED <<gen, status, eng, tun, act, fwd, call, store>>
  BY DEF StartRefused, sharedVars, taskVars
<1>3. Typed'
  BY <1>2, EngineAssumption, SMT DEF Typed, SlotRec, Free
<1>4. Handles'
  BY <1>1, <1>2 DEF Handles, Free, Stops, Live
<1>5. Unstarted' /\ Panicked' /\ Forwarding' /\ OneWriter' /\ SharedTunnel' /\ StatusTrue'
  BY <1>2, ZenonT(60) DEF Unstarted, Panicked, Forwarding, OneWriter, SharedTunnel, StatusTrue, Live
<1>6. QED BY <1>3, <1>4, <1>5

\* So does a spawn that fails; the generation it took stays unstarted.
LEMMA SpawnFailsKeeps ==
    ASSUME EngInv, NEW c \in Callers, SpawnFails(c)
    PROVE  EngInv'
<1> USE DEF EngInv
<1>1. (\A g \in Engines : ~Live(g)) /\ (\A d \in Callers : ~Stops(d))
  BY AcquirableIs DEF SpawnFails
<1>2. /\ slot' = Free /\ gen' = gen + 1 /\ status' = Error /\ gen < MaxStarts
      /\ UNCHANGED <<eng, tun, act, fwd, call, store>>
  BY DEF SpawnFails, sharedVars, taskVars
<1>3. Typed'
  <2>1. status' \in StatusRec /\ slot' \in SlotRec
    BY <1>2, EngineAssumption, SMT DEF SlotRec, Free, StatusRec, Error
  <2>2. gen' \in 0 .. MaxStarts
    BY <1>2, EngineAssumption, SMT DEF Typed
  <2>3. QED BY <1>2, <2>1, <2>2 DEF Typed
<1>4. Handles'
  BY <1>1, <1>2 DEF Handles, Free, Stops, Live
<1>5. Unstarted'
  BY <1>2, EngineAssumption, SMT DEF Unstarted, Typed, Engines
<1>6. Panicked' /\ Forwarding' /\ OneWriter' /\ SharedTunnel' /\ StatusTrue'
  BY <1>2, ZenonT(60) DEF Panicked, Forwarding, OneWriter, SharedTunnel, StatusTrue, Error
<1>7. QED BY <1>3, <1>4, <1>5, <1>6

\* A start that succeeds: the next engine is the one alive.
LEMMA StartKeeps ==
    ASSUME EngInv, NEW c \in Callers, NativeStart(c)
    PROVE  EngInv'
<1> DEFINE n == gen + 1
<1> USE DEF EngInv
<1>1. (\A g \in Engines : ~Live(g)) /\ (\A d \in Callers : ~Stops(d))
  BY AcquirableIs DEF NativeStart
<1>2. /\ gen' = n /\ status' = Starting(0) /\ gen < MaxStarts
      /\ slot' = [st |-> "Running", h |-> n]
      /\ UNCHANGED <<tun, act, fwd, call, store>>
  BY DEF NativeStart, sharedVars, taskVars
<1>3. n \in Engines /\ n > gen /\ gen \in Nat
  BY <1>2, EngineAssumption, SMT DEF Typed, Engines
<1>4. eng[n] = Unborn /\ eng[n] \in EngRec
  BY <1>3 DEF Unstarted, Typed
<1>5. Stays(eng[n], With(eng[n], [pc |-> "attach"]), "attach")
  BY <1>4, WithPlace DEF Pcs
<1>6. /\ eng' \in [Engines -> EngRec] /\ \A g \in Engines : g # n => eng'[g] = eng[g]
      /\ eng'[n].pc = "attach" /\ eng'[n].res = "ok"
  <2>1. SetEng(n, [pc |-> "attach"])
    BY DEF NativeStart
  <2>2. /\ eng' \in [Engines -> EngRec] /\ \A g \in Engines : g # n => eng'[g] = eng[g]
        /\ eng'[n] = With(eng[n], [pc |-> "attach"])
    BY <1>3, <1>5, <2>1, SetEngIs DEF Stays
  <2>3. eng[n].res = "ok"
    BY <1>4, SMT DEF Unborn
  <2>4. QED BY <1>5, <2>2, <2>3 DEF Stays
<1>7. eng[n].pc = "none" /\ eng[n].res = "ok"
  BY <1>4, SMT DEF Unborn
<1> HIDE DEF n
<1>8. Typed'
  <2>1. n \in 0 .. MaxStarts
    BY <1>3, SMT DEF Engines
  <2>2. status' \in StatusRec /\ slot' \in SlotRec
    BY <1>2, <2>1 DEF StatusRec, SlotRec, Starting
  <2>3. QED BY <1>2, <1>6, <2>1, <2>2 DEF Typed
<1>9. Handles'
  <2>1. \A g \in Engines : Live(g)' => g = n
    BY <1>1, <1>6 DEF Live
  <2>2. \A d \in Callers : ~Stops(d)'
    BY <1>1, <1>2 DEF Stops
  <2>3. n # 0
    BY <1>3, SMT DEF Engines
  <2>4. QED BY <1>2, <2>1, <2>2, <2>3 DEF Handles
<1>10. Unstarted'
  BY <1>2, <1>3, <1>6, SMT DEF Unstarted, Engines
<1>11. Panicked' /\ Forwarding'
  <2>1. Panicked'
    BY <1>6 DEF Panicked
  <2>2. \A r \in Runs : fwd[n][r] = NoTask
    BY <1>3, <1>7 DEF Forwarding, Idling
  <2>3. QED BY <1>2, <1>6, <2>1, <2>2 DEF Forwarding
<1>12. OneWriter'
  <2>1. \A g \in Engines : eng[g].pc \in {"keep", "src"} => eng'[g].pc \in {"keep", "src"}
    BY <1>6, <1>7
  <2>2. QED BY <1>2, <2>1 DEF OneWriter
<1>13. SharedTunnel'
  <2>1. tun # n
    BY <1>7, <1>3, SMT DEF SharedTunnel, Engines
  <2>2. tun # 0 => tun \in Engines
    BY EngineAssumption, SMT DEF Typed, Engines
  <2>3. QED BY <1>2, <1>6, <2>1, <2>2 DEF SharedTunnel
<1>14. StatusTrue'
  BY <1>2, <1>3, <1>6 DEF StatusTrue, Live, Starting
<1>15. QED BY <1>8, <1>9, <1>10, <1>11, <1>12, <1>13, <1>14

\* A stop takes the handle out of the slot.
LEMMA TakeKeeps ==
    ASSUME EngInv, NEW c \in Callers, BeginStop(c), slot.h # 0, SetCall(c, "mark", slot.h),
           slot' = [st |-> "Stopping", h |-> 0]
    PROVE  EngInv'
<1> USE DEF EngInv
<1>1. call[c] = Rest /\ UNCHANGED <<gen, status, eng, tun, act, fwd, store>>
  BY DEF BeginStop, sharedVars, taskVars
<1>2. slot.st # "Idle" /\ gen # 0 /\ slot.h = gen
  BY SMT DEF Handles, Free
<1>3. \A d \in Callers : ~Stops(d)
  BY SMT DEF Handles
<1>4. gen \in 0 .. MaxStarts /\ 0 \in 0 .. MaxStarts
  BY EngineAssumption, SMT, SMTT(30) DEF Typed
<1>5. /\ call' \in [Callers -> CallRec] /\ call'[c] = [pc |-> "mark", h |-> gen]
      /\ \A d \in Callers : d # c => call'[d] = call[d]
  <2>1. [pc |-> "mark", h |-> gen] \in CallRec
    BY <1>4 DEF CallRec
  <2>2. QED BY <1>2, <2>1, SetCallIs, SMT
<1>6. Typed'
  BY <1>1, <1>4, <1>5 DEF Typed, SlotRec
<1>7. Handles'
  <2>1. \A d \in Callers : Stops(d)' <=> d = c
    BY <1>3, <1>5, SMT DEF Stops
  <2>2. \A g \in Engines : Live(g)' => Live(g)
    BY <1>1 DEF Live
  <2>3. \A g \in Engines : Live(g)' => g = gen'
    BY <1>1, <2>2 DEF Handles
  <2>4. gen' # 0 /\ call'[c].h = gen'
    BY <1>1, <1>2, <1>5, SMT
  <2>5. QED BY <2>1, <2>3, <2>4, HandlesTaken
<1>8. Unstarted' /\ Panicked' /\ Forwarding' /\ SharedTunnel'
  BY <1>1 DEF Unstarted, Panicked, Forwarding, SharedTunnel
<1>9. OneWriter'
  BY <1>1, <1>5, SMT DEF OneWriter, Rest
<1>10. StatusTrue'
  <2>1. call[c].pc = "idle"
    BY <1>1, SMT DEF Rest
  <2>2. QED BY <1>1, <1>5, <2>1, StatusKept
<1>11. QED BY <1>6, <1>7, <1>8, <1>9, <1>10

\* The stop sends its signal: the status says Stopping while that call waits.
LEMMA MarkKeeps ==
    ASSUME EngInv, NEW c \in Callers, StopMark(c)
    PROVE  EngInv'
<1> USE DEF EngInv
<1>1. call[c].pc = "mark" /\ status' = Stopping /\ UNCHANGED <<slot, gen, tun, act, fwd, store>>
  BY DEF StopMark, slotVars, sharedVars, taskVars
<1>2. call[c].h = gen /\ gen # 0
  BY <1>1, StopsHolds DEF Stops
<1>3. gen \in Engines /\ gen \in 0 .. MaxStarts
  BY <1>2, EngineAssumption, SMT DEF Typed, Engines
<1>4. eng[gen] \in EngRec
  BY <1>3 DEF Typed
<1>5. /\ With(eng[gen], [stop |-> "sent"]) \in EngRec
      /\ With(eng[gen], [stop |-> "sent"]).pc = eng[gen].pc
      /\ With(eng[gen], [stop |-> "sent"]).res = eng[gen].res
      /\ With(eng[gen], [stop |-> "sent"]).done = eng[gen].done
  BY <1>4, WithField
<1>6. /\ eng' \in [Engines -> EngRec] /\ eng'[gen] = With(eng[gen], [stop |-> "sent"])
      /\ \A g \in Engines : g # gen => eng'[g] = eng[g]
  BY <1>2, <1>3, <1>5, SetEngIs DEF StopMark
<1>7. \A g \in Engines : eng'[g].pc = eng[g].pc /\ eng'[g].res = eng[g].res /\ eng'[g].done = eng[g].done
  BY <1>5, <1>6
<1>8. /\ call' \in [Callers -> CallRec] /\ call'[c] = [pc |-> "wait", h |-> gen]
      /\ \A d \in Callers : d # c => call'[d] = call[d]
  <2>1. [pc |-> "wait", h |-> gen] \in CallRec
    BY <1>3 DEF CallRec
  <2>2. QED BY <1>2, <2>1, SetCallIs, ZenonT(60) DEF StopMark
<1>9. Typed'
  BY <1>1, <1>6, <1>8 DEF Typed, StatusRec, Stopping
<1>10. Handles'
  <2>1. \A d \in Callers : (Stops(d)' <=> Stops(d)) /\ (Stops(d) => call'[d].h = call[d].h)
    BY <1>1, <1>2, <1>8, SMTT(30) DEF Stops
  <2>2. QED BY <1>1, <1>7, <2>1, HandlesKept DEF Live
<1>11. Unstarted'
  BY <1>1, <1>3, <1>6, SMT DEF Unstarted, Engines
<1>12. Panicked' /\ Forwarding'
  BY <1>1, <1>7 DEF Panicked, Forwarding
<1>13. OneWriter'
  BY <1>1, <1>7, <1>8, SMT DEF OneWriter
<1>14. SharedTunnel'
  <2>1. tun # 0 => tun \in Engines
    BY EngineAssumption, SMT DEF Typed, Engines
  <2>2. QED BY <1>1, <1>7, <2>1 DEF SharedTunnel
<1>15. StatusTrue'
  <2>1. status'.k = "Stopping" /\ call'[c].pc = "wait"
    BY <1>1, <1>8, SMT DEF Stopping
  <2>2. QED BY <2>1 DEF StatusTrue
<1>16. QED BY <1>9, <1>10, <1>11, <1>12, <1>13, <1>14, <1>15

\* A stop that joined the thread frees the slot: no other thread was alive.
LEMMA JoinKeeps ==
    ASSUME EngInv, NEW c \in Callers, StopJoin(c)
    PROVE  EngInv'
<1> USE DEF EngInv
<1>1. /\ call[c].pc = "wait" /\ eng[call[c].h].pc = "gone" /\ slot' = Free
      /\ status' \in {Off, Error} /\ UNCHANGED <<gen, eng, tun, act, fwd, store>>
  BY DEF StopJoin, sharedVars, taskVars
<1>2. Stops(c) /\ call[c].h = gen /\ \A d \in Callers : Stops(d) => d = c
  BY <1>1, StopsHolds DEF Stops
<1>3. /\ call' \in [Callers -> CallRec] /\ call'[c] = [pc |-> "idle", h |-> 0]
      /\ \A d \in Callers : d # c => call'[d] = call[d]
  <2>1. [pc |-> "idle", h |-> 0] \in CallRec
    BY EngineAssumption, SMT DEF CallRec
  <2>2. QED BY <2>1, SetCallIs DEF StopJoin
<1>4. Typed'
  <2>1. slot' \in SlotRec /\ status' \in StatusRec
    BY <1>1, EngineAssumption, SMT DEF SlotRec, StatusRec, Free, Off, Error
  <2>2. QED BY <1>1, <1>3, <2>1 DEF Typed
<1>5. Handles'
  <2>1. \A g \in Engines : ~Live(g)'
    BY <1>1, <1>2 DEF Handles, Live
  <2>2. \A d \in Callers : ~Stops(d)'
    BY <1>2, <1>3, SMTT(30) DEF Stops
  <2>3. QED BY <1>1, <2>1, <2>2 DEF Handles, Free
<1>6. Unstarted' /\ Panicked' /\ Forwarding' /\ SharedTunnel'
  BY <1>1 DEF Unstarted, Panicked, Forwarding, SharedTunnel
<1>7. OneWriter'
  BY <1>1, <1>3, SMT DEF OneWriter
<1>8. StatusTrue'
  BY <1>1, StatusOver
<1>9. QED BY <1>4, <1>5, <1>6, <1>7, <1>8

\* A stop that gave up waiting puts the handle back.
LEMMA TimeoutKeeps ==
    ASSUME EngInv, NEW c \in Callers, StopTimeout(c)
    PROVE  EngInv'
<1> USE DEF EngInv
<1>1. /\ call[c].pc = "wait" /\ slot' = [st |-> "Stopping", h |-> call[c].h]
      /\ UNCHANGED <<gen, status, eng, tun, act, fwd, store>>
  BY DEF StopTimeout, sharedVars, taskVars
<1>2. Stops(c) /\ call[c].h = gen /\ gen # 0 /\ \A d \in Callers : Stops(d) => d = c
  BY <1>1, StopsHolds DEF Stops
<1>3. /\ call' \in [Callers -> CallRec] /\ call'[c] = [pc |-> "late", h |-> 0]
      /\ \A d \in Callers : d # c => call'[d] = call[d]
  <2>1. [pc |-> "late", h |-> 0] \in CallRec
    BY EngineAssumption, SMT DEF CallRec
  <2>2. QED BY <2>1, SetCallIs DEF StopTimeout
<1>4. Typed'
  <2>1. slot' \in SlotRec
    BY <1>1, <1>2 DEF SlotRec, Typed
  <2>2. QED BY <1>1, <1>3, <2>1 DEF Typed
<1>5. Handles'
  <2>1. \A g \in Engines : Live(g)' => Live(g)
    BY <1>1 DEF Live
  <2>2. \A d \in Callers : ~Stops(d)'
    BY <1>2, <1>3, SMT DEF Stops
  <2>3. QED BY <1>1, <1>2, <2>1, <2>2 DEF Handles
<1>6. Unstarted' /\ Panicked' /\ Forwarding' /\ SharedTunnel'
  BY <1>1 DEF Unstarted, Panicked, Forwarding, SharedTunnel
<1>7. OneWriter'
  BY <1>1, <1>3, ZenonT(60) DEF OneWriter
<1>8. StatusTrue'
  BY <1>1, <1>3, StatusKept, SMT
<1>9. QED BY <1>4, <1>5, <1>6, <1>7, <1>8
-----------------------------------------------------------------------------
\* The invariant holds before the first call ...
LEMMA EngInvInit == Init => EngInv
<1> SUFFICES ASSUME Init PROVE EngInv
  OBVIOUS
<1> USE DEF Init
<1>1. Unborn \in EngRec
  <2>1. Unborn = [k \in Fields |-> Unborn[k]]
    BY DEF Unborn, Fields
  <2>2. Unborn.ready \in BOOLEAN /\ Unborn.alive \in BOOLEAN
    BY DEF Unborn
  <2>3. Unborn.tries \in Nat /\ Unborn.run \in Runs /\ Unborn.top \in Percents \cup {0}
    BY SMT DEF Unborn, Runs
  <2>4. /\ Unborn.pc \in Pcs /\ Unborn.stop \in {"no", "sent"} /\ Unborn.pool \in {"active", "full", "rescue"}
        /\ Unborn.res \in {"ok", "err", "panic"} /\ Unborn.done \in {"empty", "sent", "dropped"}
    BY DEF Unborn, Pcs
  <2>5. QED BY <2>1, <2>2, <2>3, <2>4, IsRecord DEF FieldsTyped
<1>2. Typed
  <2>1. slot \in SlotRec /\ status \in StatusRec
    BY EngineAssumption, SMT DEF SlotRec, StatusRec, Free, Off
  <2>2. Rest \in CallRec
    BY EngineAssumption, SMT DEF Rest, CallRec
  <2>3. fwd \in [Engines -> [Runs -> Percents \cup {NoTask, Listening}]]
    OBVIOUS
  <2>4. gen \in 0 .. MaxStarts /\ tun \in 0 .. MaxStarts /\ act \in 0 .. MaxStarts
    BY EngineAssumption, SMT
  <2>5. QED BY <1>1, <2>1, <2>2, <2>3, <2>4 DEF Typed
<1>3. \A g \in Engines : eng[g] = Unborn /\ ~Live(g)
  BY DEF Live, Unborn
<1>4. \A c \in Callers : ~Stops(c)
  BY DEF Stops, Rest
<1>5. Handles
  BY <1>3, <1>4 DEF Handles, Free
<1>6. Unstarted /\ Panicked /\ Forwarding
  BY <1>3 DEF Unstarted, Panicked, Forwarding, Unborn
<1>7. OneWriter /\ SharedTunnel /\ StatusTrue
  BY DEF OneWriter, SharedTunnel, StatusTrue, Off
<1>8. QED BY <1>2, <1>5, <1>6, <1>7 DEF EngInv

\* ... a writer's save preserves it ...
LEMMA SaveKeeps ==
    ASSUME EngInv, NEW w \in Writers, SaveStore(w)
    PROVE  EngInv'
<1>1. CASE \E g \in Engines : w = Main(g)
  BY <1>1, SaveMoves, WorkedKeeps
<1>2. CASE \E c \in Callers : w = Caller(c)
  BY <1>2, CallSteps, CalledKeeps
<1>3. CASE (\A g \in Engines : w # Main(g)) /\ (\A c \in Callers : w # Caller(c))
  <2>1. /\ store' = [open |-> {}, lost |-> FALSE]
        /\ AfterSave(w) /\ UNCHANGED <<slot, gen, status, tun, act, fwd>>
    BY SaveStoreIs
  <2>2. eng' = eng /\ call' = call
    BY <1>3, <2>1, AfterSaveOther
  <2>3. act \in 0 .. MaxStarts
    BY DEF EngInv, Typed
  <2>4. Aside
    BY <2>1, <2>2, <2>3 DEF Aside
  <2>5. QED BY <2>4, AsideKeeps
<1>4. QED BY <1>1, <1>2, <1>3

\* ... and so does every step.
LEMMA EngInvStep == EngInv /\ [Next]_vars => EngInv'
<1> SUFFICES ASSUME EngInv, [Next]_vars PROVE EngInv'
  OBVIOUS
<1>1. ASSUME NEW c \in Callers, BeginStop(c) PROVE EngInv'
  <2>1. CASE UNCHANGED slot /\ SetCall(c, "off", 0)
    BY <1>1, <2>1, CallSteps, CalledKeeps
  <2>2. CASE slot.h # 0 /\ SetCall(c, "mark", slot.h) /\ slot' = [st |-> "Stopping", h |-> 0]
    BY <1>1, <2>2, TakeKeeps
  <2>3. CASE UNCHANGED <<slot, call>>
    <3>1. Aside
      BY <1>1, <2>3 DEF Aside, BeginStop, sharedVars, taskVars, EngInv, Typed
    <3>2. QED BY <3>1, AsideKeeps
  <2>4. QED BY <1>1, <2>1, <2>2, <2>3 DEF BeginStop
<1>2. ASSUME NEW c \in Callers,
             \/ StartRefused(c) \/ SpawnFails(c) \/ NativeStart(c)
             \/ StopMark(c) \/ StopJoin(c) \/ StopTimeout(c)
      PROVE  EngInv'
  BY <1>2, RefusedKeeps, SpawnFailsKeeps, StartKeeps, MarkKeeps, JoinKeeps, TimeoutKeeps
<1>3. ASSUME NEW c \in Callers,
             StopIdle(c) \/ StopLate(c) \/ NoteBridges(c) \/ RefreshBridges(c) \/ RefreshEnds(c)
      PROVE  EngInv'
  BY <1>3, CallSteps, CalledKeeps
<1>4. ASSUME NEW g \in Engines, Work(g) PROVE EngInv'
  BY <1>4, WorkMoves, WorkedKeeps
<1>5. ASSUME NEW g \in Engines,
             AttachFails(g) \/ RuntimeFails(g) \/ DropRuntime(g) \/ Finish(g) \/ ThreadDies(g)
      PROVE  EngInv'
  BY <1>5, EndSteps, EndedKeeps
<1>6. ASSUME NEW g \in Engines,
             \/ \E n \in TaskNames : TaskStops(g, n) \/ Warmed(g, n) \/ PublishWarm(g, n)
             \/ DogWakes(g) \/ DogSpawns(g) \/ TickDone(g) \/ SweepStep(g)
      PROVE  EngInv'
  BY <1>6, TaskSteps, AsideKeeps
<1>7. ASSUME NEW g \in Engines, NEW r \in Runs, (\E p \in Percents : Progress(g, r, p)) \/ ShowProgress(g, r)
      PROVE  EngInv'
  BY <1>7, ProgressKeeps, ShowProgressKeeps
<1>8. ASSUME NEW w \in Writers, LoadStore(w) \/ SaveStore(w) PROVE EngInv'
  BY <1>8, LoadKeeps, SaveKeeps
<1>9. CASE Inputs
  BY <1>1, <1>2, <1>3, <1>4, <1>5, <1>6, <1>7, <1>9 DEF Inputs, Work
<1>10. CASE Steps
  BY <1>2, <1>3, <1>4, <1>5, <1>6, <1>7, <1>8, <1>10 DEF Steps, Work
<1>11. CASE UNCHANGED vars
  <2>1. Aside
    BY <1>11 DEF Aside, vars, EngInv, Typed
  <2>2. QED BY <2>1, AsideKeeps
<1>12. QED BY <1>9, <1>10, <1>11 DEF Next

\* The inductive invariant holds throughout.
LEMMA EngInvariant == Spec => []EngInv
<1>1. QED BY EngInvInit, EngInvStep, PTL DEF Spec
-----------------------------------------------------------------------------
\* The one handle of EngineInv, from the invariant.
LEMMA EngInvEngineInv == EngInv => EngineInv
<1> SUFFICES ASSUME EngInv PROVE EngineInv
  OBVIOUS
<1> USE DEF EngInv
<1>1. TypeOK
  <2>1. \A g \in Engines : eng[g].pc \in Pcs /\ eng[g].top \in Percents \cup {0}
    BY RecordIs DEF Typed, FieldsTyped
  <2>2. \A c \in Callers : call[c].pc \in {"idle", "off", "mark", "wait", "late", "note", "refresh"}
    BY DEF Typed, CallRec
  <2>3. QED BY <2>1, <2>2 DEF TypeOK, Typed, SlotRec, StatusRec, OneWriter
<1>2. \A g \in Engines : g # gen => ~Live(g) /\ Holders(g) = {}
  BY DEF Handles, Holders, Stops
<1>3. slot.st = "Idle" => slot = Free /\ \A g \in Engines : ~Live(g) /\ Holders(g) = {}
  BY SMTT(30) DEF Handles, Holders, Stops, Free
<1>4. ASSUME slot.st # "Idle"
      PROVE  \E h \in Engines :
               /\ \A g \in Engines \ {h} : ~Live(g) /\ Holders(g) = {}
               /\ h = gen
               /\ \/ slot.h = h /\ Holders(h) = {}
                  \/ slot = [st |-> "Stopping", h |-> 0] /\ \E c \in Callers : Holders(h) = {c}
  <2>1. gen \in Engines
    BY <1>4, EngineAssumption, SMTT(30) DEF Handles, Typed, Engines
  <2>2. CASE slot.h = gen
    <3>1. Holders(gen) = {}
      BY <2>1, <2>2, SMT DEF Handles, Holders, Stops, Engines
    <3>2. QED BY <1>2, <2>1, <2>2, <3>1, ZenonT(60)
  <2>3. CASE slot = [st |-> "Stopping", h |-> 0] /\ \E c \in Callers : Stops(c)
    <3>1. PICK c \in Callers : Stops(c)
      BY <2>3
    <3>2. Holders(gen) = {c}
      BY <3>1 DEF Handles, Holders, Stops
    <3>3. QED BY <1>2, <2>1, <2>3, <3>2
  <2>4. QED BY <1>4, <2>2, <2>3, ZenonT(60) DEF Handles
<1>5. QED BY <1>1, <1>3, <1>4, SMT DEF EngineInv, SharedTunnel, OneWriter

\* nativeStart and nativeStop keep one handle for at most one live engine thread,
\* however calls, timeouts, faults and the engine's own end interleave; the shared
\* tunnel is the serving engine's unless a panic left it, and no writer of the
\* health store overwrites what another one saved.
THEOREM OneEngineAtATime == Spec => []EngineInv
BY EngInvariant, EngInvEngineInv, PTL

\* nativeGetStatus never shows Starting or On without an engine that is alive or
\* whose thread died unjoined, nor Stopping without a stop call at work.
THEOREM StatusIsTrue == Spec => []StatusTrue
<1>1. EngInv => StatusTrue
  BY DEF EngInv
<1>2. QED BY <1>1, EngInvariant, PTL

=============================================================================
