---------------------------- MODULE ServerProofs ----------------------------
(***************************************************************************)
(* Proofs about Server, for any listeners, connections, producers, permits *)
(* and verification slots, and both kinds of egress.                       *)
(*                                                                         *)
(* ServerInv is the inductive invariant.  Admission is exact because a     *)
(* connection sits in one accept loop before it becomes a task (Loops) and *)
(* is verified once (Verified); the summaries stay exact because a failure *)
(* always has a class (Classified); the writer closes last because the     *)
(* join leaves only abandoned producers behind (Handover).                 *)
(***************************************************************************)
EXTENDS Server, FiniteSetTheorems, TLAPS

(* The leaves are first-order and go to Zenon; those about numbers, records *)
(* or sequences say SMT.                                                   *)
USE Zenon

(* A loop holds a connection nobody else holds and no task serves, and the *)
(* identifiers not handed out yet are unused.                              *)
Loops ==
    /\ \A l \in Listeners : loop[l] # Nobody => conn[loop[l]].pc = "waiting"
    /\ \A l, m \in Listeners : l # m /\ loop[l] # Nobody => loop[l] # loop[m]
    /\ \A c \in Conns : c >= next_conn_id => conn[c].pc = "client"

(* A running verification belongs to a connection past its handshake read. *)
Verified == \A c \in verifying : conn[c].pc \notin {"client", "waiting", "handshake"}

(* A failure that is about to be reported was classified.                  *)
Errors == {"client", "tor", "relay", "other"}
Classified == \A c \in Conns : conn[c].pc = "failed" => conn[c].kind \in Errors

(* From the join on, only abandoned producers are unfinished; until the    *)
(* close the Tor server's writer is open and has rejected nothing.         *)
Handover ==
    /\ mode.egress = "upstream" => Unfinished = {}
    /\ main \in {"cancel", "drain", "join", "close", "bye"} => mode.egress = "tor"
    /\ mode.egress = "tor" /\ main \notin {"bye", "exited"} => writer
    /\ writer => rejected = {}
    /\ main \in {"close", "bye"} \/ ~writer => Unfinished \subseteq abandoned

ServerInv ==
    /\ Conserved /\ Loops /\ Verified /\ Classified
    /\ FailClosed /\ EveryEndReported /\ Handover /\ WriterLast

-----------------------------------------------------------------------------
\* The identifiers are a finite set, so every set of connections is finite.
LEMMA ConnsFinite == ASSUME NEW S \in SUBSET Conns PROVE IsFiniteSet(S) /\ Cardinality(S) \in Nat
<1>1. IsFiniteSet(Conns)
  BY BoundsAssumption, FS_Interval, SMT DEF Conns
<1>2. QED BY <1>1, FS_Subset, FS_CardinalityType

\* A connection record that replaces another one of a live task keeps the
\* set of tasks.
LEMMA TaskStays ==
    ASSUME conn \in [Conns -> ConnTask], NEW c \in Conns, conn[c].pc \in Live,
           NEW r, r.pc \in Live, conn' = [conn EXCEPT ![c] = r]
    PROVE  Tasks' = Tasks
BY DEF Tasks

\* A connection that becomes a task is one task more.
LEMMA TaskEnters ==
    ASSUME conn \in [Conns -> ConnTask], NEW c \in Conns, conn[c].pc \notin Live,
           NEW r, r.pc \in Live, conn' = [conn EXCEPT ![c] = r]
    PROVE  Cardinality(Tasks') = Cardinality(Tasks) + 1
<1>1. Tasks' = Tasks \cup {c} /\ c \notin Tasks
  BY DEF Tasks
<1>2. Tasks \subseteq Conns
  BY DEF Tasks
<1>3. QED BY <1>1, <1>2, ConnsFinite, FS_AddElement

\* A task that ends is one task less.
LEMMA TaskLeaves ==
    ASSUME conn \in [Conns -> ConnTask], NEW c \in Conns, conn[c].pc \in Live,
           NEW r, r.pc \notin Live, conn' = [conn EXCEPT ![c] = r]
    PROVE  Cardinality(Tasks') = Cardinality(Tasks) - 1
<1>1. Tasks' = Tasks \ {c} /\ c \in Tasks
  BY DEF Tasks
<1>2. Tasks \subseteq Conns
  BY DEF Tasks
<1>3. QED BY <1>1, <1>2, ConnsFinite, FS_RemoveElement

-----------------------------------------------------------------------------
(* Admission: the permits and the gauge against the live tasks, the        *)
(* verification slots against the running verifications.                   *)

PermitsExact ==
    /\ permits \in 0..MaxPermits
    /\ permits + Cardinality(Tasks) = MaxPermits
    /\ pending = Cardinality(Tasks)

SlotsExact ==
    /\ slots \in 0..MaxVerifications
    /\ slots + Cardinality(verifying) = MaxVerifications

\* The permit and the gauge guard of a task that ends are given back.
LEMMA ReleaseExact ==
    ASSUME Conserved, NEW c \in Conns, conn[c].pc \in Live, NEW end, Release(c, end)
    PROVE  PermitsExact'
<1> DEFINE r == [Task("done") EXCEPT !.kind = end]
<1>1. conn' = [conn EXCEPT ![c] = r] /\ permits' = permits + 1 /\ pending' = pending - 1
  BY DEF Release
<1>2. r.pc \notin Live
  BY DEF Task, Live
<1> HIDE DEF r
<1>3. Cardinality(Tasks') = Cardinality(Tasks) - 1
  BY <1>1, <1>2, TaskLeaves DEF Conserved, TypeOK
<1>4. Cardinality(Tasks) \in Nat /\ Cardinality(Tasks') \in Nat
  BY ConnsFinite DEF Tasks
<1>5. QED BY <1>1, <1>3, <1>4, BoundsAssumption, SMTT(30) DEF PermitsExact, Conserved, TypeOK

\* A live task that goes on keeps its permit.
LEMMA LiveExact ==
    ASSUME Conserved, NEW c \in Conns, conn[c].pc \in Live,
           \/ \E pc \in Live : Goto(c, pc)
           \/ \E stage, kind : Fail(c, stage, kind),
           UNCHANGED <<permits, pending>>
    PROVE  PermitsExact'
<1>1. PICK r : conn' = [conn EXCEPT ![c] = r] /\ r.pc \in Live
  BY DEF Goto, Fail, Task, Live
<1>2. Tasks' = Tasks
  BY <1>1, TaskStays DEF Conserved, TypeOK
<1>3. QED BY <1>2 DEF PermitsExact, Conserved, TypeOK

LEMMA PermitsStep ==
    ASSUME ServerInv, [Next]_vars
    PROVE  PermitsExact'
<1> USE DEF ServerInv
<1>1. ASSUME UNCHANGED <<permits, pending>>, Tasks' = Tasks
      PROVE  PermitsExact'
  BY <1>1 DEF PermitsExact, Conserved, TypeOK
<1>2. ASSUME NEW l \in Listeners, Accept(l) PROVE PermitsExact'
  <2>1. next_conn_id \in Conns /\ conn[next_conn_id].pc = "client"
    BY <1>2, SMT DEF Accept, Loops, Conns, Conserved, TypeOK
  <2>2. conn' = [conn EXCEPT ![next_conn_id] = Task("waiting")]
    BY <1>2 DEF Accept
  <2>3. Tasks' = Tasks
    BY <2>1, <2>2 DEF Tasks, Task, Live, Conserved, TypeOK
  <2>4. QED BY <1>1, <1>2, <2>3 DEF Accept, counters
<1>3. ASSUME NEW l \in Listeners, Admit(l) PROVE PermitsExact'
  <2> DEFINE c == loop[l]
  <2>1. c \in Conns /\ conn[c].pc = "waiting"
    BY <1>3 DEF Admit, Loops, Conserved, TypeOK, Nobody
  <2>2. /\ conn' = [conn EXCEPT ![c] = Task("handshake")]
        /\ permits > 0 /\ permits' = permits - 1 /\ pending' = pending + 1
    BY <1>3 DEF Admit
  <2>3. conn[c].pc \notin Live /\ Task("handshake").pc \in Live
    BY <2>1 DEF Live, Task
  <2>4. Cardinality(Tasks') = Cardinality(Tasks) + 1
    BY <2>1, <2>2, <2>3, TaskEnters DEF Conserved, TypeOK
  <2>5. Cardinality(Tasks) \in Nat
    BY ConnsFinite DEF Tasks
  <2>6. /\ MaxPermits \in Nat /\ permits \in 0..MaxPermits
        /\ permits + Cardinality(Tasks) = MaxPermits /\ pending = Cardinality(Tasks)
    BY BoundsAssumption DEF Conserved, TypeOK
  <2>7. QED BY <2>2, <2>4, <2>5, <2>6, SMT DEF PermitsExact
<1>4. ASSUME NEW c \in Conns, ConnStep(c) PROVE PermitsExact'
  <2> USE DEF Conserved, At, counters, Live
  <2>1. CASE Handshake(c)
    BY <2>1, LiveExact DEF Handshake
  <2>2. CASE ReadRequest(c) \/ HandshakeFails(c)
    BY <2>2, LiveExact DEF ReadRequest, HandshakeFails
  <2>3. CASE Request(c)
    BY <2>3, LiveExact, ReleaseExact DEF Request
  <2>4. ASSUME NEW verdict, VerifyEnds(c, verdict) PROVE PermitsExact'
    <3>1. CASE conn[c].pc = "verify"
      BY <2>4, <3>1, LiveExact DEF VerifyEnds
    <3>2. CASE conn[c].pc # "verify"
      BY <2>4, <3>2, <1>1 DEF VerifyEnds, Tasks
    <3>3. QED BY <3>1, <3>2
  <2>5. CASE Connect(c)
    BY <2>5, LiveExact DEF Connect
  <2>6. CASE Reply(c)
    BY <2>6, LiveExact DEF Reply
  <2>7. CASE Relay(c)
    BY <2>7, LiveExact, ReleaseExact DEF Relay
  <2>8. CASE Report(c)
    BY <2>8, ReleaseExact DEF Report
  <2>9. CASE Panic(c)
    BY <2>9, ReleaseExact DEF Panic, Tasks
  <2>10. QED BY <1>4, <2>1, <2>2, <2>3, <2>4, <2>5, <2>6, <2>7, <2>8, <2>9 DEF ConnStep
<1>5. CASE Stop
  <2>1. Tasks' = Tasks
    BY <1>5 DEF Stop, Tasks, Task, Live
  <2>2. QED BY <1>1, <1>5, <2>1 DEF Stop, counters
<1>6. CASE Swap \/ (\E p \in Producers : Tick(p) \/ Work(p) \/ ProducerEnds(p)) \/ TearDown
  BY <1>1, <1>6 DEF Swap, Tick, Work, ProducerEnds, TearDown, Cancel, Drain, Join,
     JoinTimeout, Close, Exit, admission, counters, Tasks
<1>7. CASE UNCHANGED vars
  BY <1>1, <1>7 DEF vars, admission, counters, Tasks
<1>8. QED BY <1>2, <1>3, <1>4, <1>5, <1>6, <1>7 DEF Next

LEMMA SlotsStep ==
    ASSUME ServerInv, [Next]_vars
    PROVE  SlotsExact' /\ verifying' \subseteq Conns
<1> USE DEF ServerInv
<1>1. /\ MaxVerifications \in Nat /\ slots \in 0..MaxVerifications
      /\ slots + Cardinality(verifying) = MaxVerifications
      /\ verifying \subseteq Conns
  BY BoundsAssumption DEF Conserved, TypeOK
<1>2. IsFiniteSet(verifying) /\ Cardinality(verifying) \in Nat
  BY <1>1, ConnsFinite
<1>3. ASSUME UNCHANGED <<slots, verifying>>
      PROVE  SlotsExact' /\ verifying' \subseteq Conns
  BY <1>1, <1>3 DEF SlotsExact
<1>4. ASSUME NEW c \in Conns, Handshake(c)
      PROVE  SlotsExact' /\ verifying' \subseteq Conns
  <2>1. CASE slots > 0 /\ slots' = slots - 1 /\ verifying' = verifying \cup {c}
    <3>1. c \notin verifying
      BY <1>4 DEF Handshake, At, Verified
    <3>2. Cardinality(verifying') = Cardinality(verifying) + 1
      BY <1>2, <2>1, <3>1, FS_AddElement
    <3>3. QED BY <1>1, <1>2, <2>1, <3>2, SMT DEF SlotsExact
  <2>2. CASE UNCHANGED <<slots, verifying>>
    BY <1>3, <2>2
  <2>3. QED BY <1>4, <2>1, <2>2 DEF Handshake
<1>5. ASSUME NEW c \in Conns, NEW verdict, VerifyEnds(c, verdict)
      PROVE  SlotsExact' /\ verifying' \subseteq Conns
  <2>1. c \in verifying /\ slots' = slots + 1 /\ verifying' = verifying \ {c}
    BY <1>5 DEF VerifyEnds
  <2>2. Cardinality(verifying') = Cardinality(verifying) - 1 /\ Cardinality(verifying') \in Nat
    BY <1>1, <1>2, <2>1, ConnsFinite, FS_RemoveElement
  <2>3. QED BY <1>1, <1>2, <2>1, <2>2, SMT DEF SlotsExact
<1>6. CASE \/ \E l \in Listeners : Accept(l) \/ Admit(l)
           \/ \E p \in Producers : Tick(p) \/ Work(p) \/ ProducerEnds(p)
           \/ Swap \/ Stop \/ TearDown \/ UNCHANGED vars
  BY <1>3, <1>6 DEF Accept, Admit, Swap, Tick, Work, ProducerEnds, Stop, TearDown, Cancel,
     Drain, Join, JoinTimeout, Close, Exit, vars, admission
<1>7. ASSUME NEW c \in Conns, ConnStep(c)
      PROVE  SlotsExact' /\ verifying' \subseteq Conns
  <2>1. CASE ReadRequest(c) \/ HandshakeFails(c) \/ Request(c) \/ Connect(c) \/ Reply(c) \/ Relay(c)
             \/ Report(c) \/ Panic(c)
    BY <1>3, <2>1 DEF ReadRequest, HandshakeFails, Request, Connect, Reply, Relay, Report, Panic
  <2>2. QED BY <1>4, <1>5, <1>7, <2>1 DEF ConnStep
<1>8. QED BY <1>6, <1>7 DEF Next

-----------------------------------------------------------------------------
(* What one step does to the connections: the facts that type correctness, *)
(* the loops and the verifications need.                                   *)

\* Every action writes at most one connection record, a well-formed one.
LEMMA ConnStepWrites ==
    ASSUME TypeOK, Classified, NEW c \in Conns, ConnStep(c)
    PROVE  /\ conn' \in [Conns -> ConnTask]
           /\ \A d \in Conns \ {c} : conn'[d] = conn[d]
           /\ conn[c].pc \in Live \/ conn' = conn
           /\ conn'[c].pc \notin {"client", "waiting", "handshake"} \/ conn' = conn
           /\ conn'[c].pc = "failed" => conn'[c].kind \in Errors
<1> USE DEF At, ConnTask, Task, Live, TypeOK, Classified, Errors
<1> DEFINE P == /\ conn' \in [Conns -> ConnTask]
                /\ \A d \in Conns \ {c} : conn'[d] = conn[d]
                /\ conn[c].pc \in Live \/ conn' = conn
                /\ conn'[c].pc \notin {"client", "waiting", "handshake"} \/ conn' = conn
                /\ conn'[c].pc = "failed" => conn'[c].kind \in Errors
<1>1. ASSUME NEW pc \in Live \ {"handshake", "failed"}, Goto(c, pc),
             conn[c].pc \in Live
      PROVE  P
  BY <1>1 DEF Goto
<1>2. ASSUME NEW stage \in {"Handshake", "Connect", "Relay", "Other"},
             NEW kind \in Errors, Fail(c, stage, kind),
             conn[c].pc \in Live
      PROVE  P
  BY <1>2 DEF Fail
<1>3. ASSUME conn' = conn PROVE P
  BY <1>3
<1>r. ASSUME NEW end \in Errors \cup {"closed", "silent"}, Release(c, end), conn[c].pc \in Live
      PROVE  P
  BY <1>r DEF Release
<1> SUFFICES P
  OBVIOUS
<1> HIDE DEF P
<1>4. CASE Handshake(c)
  BY <1>1, <1>2, <1>4 DEF Handshake
<1>5. CASE ReadRequest(c) \/ HandshakeFails(c)
  BY <1>1, <1>2, <1>5 DEF ReadRequest, HandshakeFails
<1>6. CASE Request(c)
  BY <1>1, <1>2, <1>r, <1>6 DEF Request
<1>7. ASSUME NEW verdict, VerifyEnds(c, verdict) PROVE P
  BY <1>1, <1>2, <1>3, <1>7 DEF VerifyEnds
<1>8. CASE Connect(c)
  BY <1>1, <1>2, <1>8 DEF Connect
<1>9. CASE Reply(c)
  BY <1>1, <1>2, <1>9 DEF Reply
<1>10. CASE Relay(c)
  BY <1>2, <1>r, <1>10 DEF Relay
<1>11. CASE Report(c)
  BY <1>r, <1>11 DEF Report
<1>12. CASE Panic(c)
  BY <1>r, <1>12 DEF Panic, Tasks
<1>13. QED
  BY <1>4, <1>5, <1>6, <1>7, <1>8, <1>9, <1>10, <1>11, <1>12 DEF ConnStep

\* A loop's connection and the unused identifiers are left alone by tasks.
LEMMA LoopsStep ==
    ASSUME ServerInv, [Next]_vars
    PROVE  Loops'
<1> USE DEF ServerInv, Conserved
<1>1. ASSUME NEW l \in Listeners, Accept(l) PROVE Loops'
  <2>1. /\ next_conn_id \in Conns /\ next_conn_id # Nobody
        /\ next_conn_id' = next_conn_id + 1
        /\ loop' = [loop EXCEPT ![l] = next_conn_id]
        /\ conn' = [conn EXCEPT ![next_conn_id] = Task("waiting")]
    BY <1>1, SMT DEF Accept, TypeOK, Conns, Nobody
  <2>2. \A m \in Listeners : loop[m] # next_conn_id
    BY <2>1, SMT DEF Loops, TypeOK, Conns
  <2>3. \A m \in Listeners : loop'[m] # Nobody => conn'[loop'[m]].pc = "waiting"
    BY <2>1, <2>2 DEF Loops, TypeOK, Task
  <2>4. \A m, n \in Listeners : m # n /\ loop'[m] # Nobody => loop'[m] # loop'[n]
    BY <2>1, <2>2 DEF Loops, TypeOK
  <2>5. \A c \in Conns : c >= next_conn_id' => conn'[c].pc = "client"
    BY <2>1, SMT DEF Loops, TypeOK, Conns
  <2>6. QED BY <2>3, <2>4, <2>5 DEF Loops
<1>2. ASSUME NEW l \in Listeners, Admit(l) PROVE Loops'
  <2>1. /\ loop[l] \in Conns /\ conn[loop[l]].pc = "waiting"
        /\ next_conn_id' = next_conn_id
        /\ loop' = [loop EXCEPT ![l] = Nobody]
        /\ conn' = [conn EXCEPT ![loop[l]] = Task("handshake")]
    BY <1>2 DEF Admit, Loops, TypeOK, Nobody
  <2>2. \A m \in Listeners : loop'[m] # Nobody => conn'[loop'[m]].pc = "waiting"
    BY <2>1 DEF Loops, TypeOK
  <2>3. \A m, n \in Listeners : m # n /\ loop'[m] # Nobody => loop'[m] # loop'[n]
    BY <2>1 DEF Loops, TypeOK
  <2>4. \A c \in Conns : c >= next_conn_id' => conn'[c].pc = "client"
    BY <2>1 DEF Loops, TypeOK, Conns
  <2>5. QED BY <2>2, <2>3, <2>4 DEF Loops
<1>3. ASSUME NEW c \in Conns, ConnStep(c) PROVE Loops'
  <2>1. UNCHANGED <<loop, next_conn_id>>
    BY <1>3 DEF ConnStep, Handshake, ReadRequest, HandshakeFails, Request, VerifyEnds, Connect,
       Reply, Relay, Report, Panic
  <2>2. CASE conn' = conn
    BY <2>1, <2>2 DEF Loops
  <2>3. CASE conn[c].pc \in Live
    <3>1. \A d \in Conns : conn[d].pc \in {"waiting", "client"} => conn'[d] = conn[d]
      BY <1>3, <2>3, ConnStepWrites DEF Live
    <3>2. \A l \in Listeners : loop[l] # Nobody => loop[l] \in Conns
      BY DEF TypeOK, Nobody
    <3>3. QED BY <2>1, <3>1, <3>2 DEF Loops
  <2>4. QED BY <1>3, <2>2, <2>3, ConnStepWrites
<1>4. CASE Stop
  <2>1. \A c \in Conns : conn[c].pc = "client" => conn'[c].pc = "client"
    BY <1>4 DEF Stop, TypeOK
  <2>2. loop' = [l \in Listeners |-> Nobody] /\ next_conn_id' = next_conn_id
    BY <1>4 DEF Stop
  <2>3. QED BY <2>1, <2>2 DEF Loops
<1>5. CASE \/ \E p \in Producers : Tick(p) \/ Work(p) \/ ProducerEnds(p)
           \/ Swap \/ TearDown \/ UNCHANGED vars
  <2>1. UNCHANGED admission
    BY <1>5 DEF Swap, Tick, Work, ProducerEnds, TearDown, Cancel, Drain, Join, JoinTimeout,
       Close, Exit, vars
  <2>2. QED BY <2>1 DEF admission, Loops
<1>6. QED BY <1>1, <1>2, <1>3, <1>4, <1>5 DEF Next

\* A verification starts after the handshake read and outlives its
\* connection's task, never the other way round.
LEMMA TaskFactsStep ==
    ASSUME ServerInv, [Next]_vars
    PROVE  conn' \in [Conns -> ConnTask] /\ Verified' /\ Classified'
<1> USE DEF ServerInv, Conserved
<1>1. conn \in [Conns -> ConnTask] /\ verifying \subseteq Conns
  BY DEF TypeOK
<1>2. ASSUME NEW c \in Conns, NEW r \in ConnTask, r.pc \in {"waiting", "handshake"},
             conn[c].pc \in {"client", "waiting"},
             conn' = [conn EXCEPT ![c] = r], verifying' = verifying
      PROVE  conn' \in [Conns -> ConnTask] /\ Verified' /\ Classified'
  BY <1>1, <1>2 DEF Verified, Classified
<1>3. ASSUME NEW l \in Listeners, Accept(l)
      PROVE  conn' \in [Conns -> ConnTask] /\ Verified' /\ Classified'
  <2>1. next_conn_id \in Conns /\ conn[next_conn_id].pc = "client"
    BY <1>3, SMT DEF Accept, Loops, TypeOK, Conns
  <2>2. Task("waiting") \in ConnTask /\ Task("waiting").pc = "waiting"
    BY DEF Task, ConnTask
  <2>3. QED BY <1>2, <1>3, <2>1, <2>2 DEF Accept
<1>4. ASSUME NEW l \in Listeners, Admit(l)
      PROVE  conn' \in [Conns -> ConnTask] /\ Verified' /\ Classified'
  <2>1. loop[l] \in Conns /\ conn[loop[l]].pc = "waiting"
    BY <1>4 DEF Admit, Loops, TypeOK, Nobody
  <2>2. Task("handshake") \in ConnTask /\ Task("handshake").pc = "handshake"
    BY DEF Task, ConnTask, Live
  <2>3. QED BY <1>2, <1>4, <2>1, <2>2 DEF Admit
<1>5. ASSUME NEW c \in Conns, ConnStep(c)
      PROVE  conn' \in [Conns -> ConnTask] /\ Verified' /\ Classified'
  <2>1. /\ conn' \in [Conns -> ConnTask]
        /\ \A d \in Conns \ {c} : conn'[d] = conn[d]
        /\ conn'[c].pc \notin {"client", "waiting", "handshake"} \/ conn' = conn
        /\ conn'[c].pc = "failed" => conn'[c].kind \in Errors
    BY <1>5, ConnStepWrites, ZenonT(60)
  <2>2. verifying' \subseteq verifying \/ (verifying' = verifying \cup {c} /\ conn'[c].pc = "verify")
    BY <1>1, <1>5, SMT DEF ConnStep, Handshake, ReadRequest, HandshakeFails, Request, VerifyEnds,
       Connect, Reply, Relay, Report, Panic, Goto, Task
  <2>3. Verified'
    BY <1>1, <2>1, <2>2 DEF Verified
  <2>4. Classified'
    BY <2>1 DEF Classified
  <2>5. QED BY <2>1, <2>3, <2>4
<1>6. CASE Stop
  <2>1. conn' \in [Conns -> ConnTask]
    BY <1>6 DEF Stop, TypeOK, ConnTask, Task
  <2>2. QED BY <1>6, <2>1 DEF Stop, TypeOK, Task, Verified, Classified
<1>7. CASE \/ \E p \in Producers : Tick(p) \/ Work(p) \/ ProducerEnds(p)
           \/ Swap \/ TearDown \/ UNCHANGED vars
  <2>1. UNCHANGED admission
    BY <1>7 DEF Swap, Tick, Work, ProducerEnds, TearDown, Cancel, Drain, Join, JoinTimeout,
       Close, Exit, vars
  <2>2. QED BY <1>1, <2>1 DEF admission, Verified, Classified
<1>8. QED BY <1>3, <1>4, <1>5, <1>6, <1>7 DEF Next

-----------------------------------------------------------------------------
(* The gates: who may be past the handshake.                               *)

\* Nobody comes past the handshake without a verdict, and a connection loses
\* its voucher only when its task ends.
LEMMA FailClosedStep ==
    ASSUME ServerInv, [Next]_vars
    PROVE  FailClosed' /\ vouched' \subseteq Conns
<1> DEFINE Past == {"read", "request", "connecting", "reply", "relay"}
<1> USE DEF ServerInv, Conserved
<1>1. conn \in [Conns -> ConnTask] /\ vouched \subseteq Conns
  BY DEF TypeOK
<1>2. ASSUME UNCHANGED <<mode, vouched>>,
             \A c \in Conns : conn'[c].pc \in Past => conn[c].pc \in Past
      PROVE  FailClosed' /\ vouched' \subseteq Conns
  BY <1>1, <1>2 DEF FailClosed
<1>3. ASSUME NEW c \in Conns, NEW end, Release(c, end), mode' = mode
      PROVE  FailClosed' /\ vouched' \subseteq Conns
  BY <1>1, <1>3 DEF FailClosed, Release, Task
<1>4. ASSUME NEW c \in Conns, NEW stage, NEW kind, Fail(c, stage, kind), UNCHANGED <<mode, vouched>>
      PROVE  FailClosed' /\ vouched' \subseteq Conns
  BY <1>1, <1>4 DEF FailClosed, Fail
<1>5. ASSUME NEW l \in Listeners, Accept(l) \/ Admit(l)
      PROVE  FailClosed' /\ vouched' \subseteq Conns
  BY <1>1, <1>2, <1>5, SMTT(30) DEF Accept, Admit, Task, teardown
<1>6. ASSUME NEW c \in Conns, ConnStep(c)
      PROVE  FailClosed' /\ vouched' \subseteq Conns
  <2> USE DEF At
  <2>1. CASE Handshake(c)
    <3>1. CASE ~mode.auth
      BY <1>1, <2>1, <3>1 DEF Handshake, FailClosed
    <3>2. CASE mode.auth /\ slots > 0
      BY <1>1, <2>1, <3>2, SMT DEF Handshake, FailClosed, Goto, Task
    <3>3. CASE mode.auth /\ ~(slots > 0)
      BY <1>4, <2>1, <3>3 DEF Handshake
    <3>4. QED BY <3>1, <3>2, <3>3
  <2>2. CASE ReadRequest(c) \/ HandshakeFails(c)
    <3>1. CASE ReadRequest(c)
      BY <1>1, <3>1 DEF ReadRequest, FailClosed, Goto, Task
    <3>2. QED BY <1>4, <2>2, <3>1 DEF HandshakeFails
  <2>3. CASE Request(c)
    <3>1. CASE Goto(c, "connecting") /\ UNCHANGED vouched
      BY <1>1, <2>3, <3>1 DEF Request, FailClosed, Goto, Task
    <3>2. QED BY <1>3, <1>4, <2>3, <3>1 DEF Request
  <2>4. ASSUME NEW verdict, VerifyEnds(c, verdict)
        PROVE  FailClosed' /\ vouched' \subseteq Conns
    <3>1. CASE conn[c].pc # "verify"
      BY <1>1, <2>4, <3>1 DEF VerifyEnds, FailClosed
    <3>2. CASE conn[c].pc = "verify" /\ verdict = "yes"
      BY <1>1, <2>4, <3>2 DEF VerifyEnds, FailClosed, Goto, Task
    <3>3. CASE conn[c].pc = "verify" /\ verdict # "yes"
      BY <1>4, <2>4, <3>3 DEF VerifyEnds
    <3>4. QED BY <3>1, <3>2, <3>3
  <2>5. CASE Connect(c)
    <3>1. CASE Goto(c, "reply") /\ UNCHANGED vouched
      BY <1>1, <2>5, <3>1 DEF Connect, FailClosed, Goto, Task
    <3>2. QED BY <1>4, <2>5, <3>1 DEF Connect
  <2>6. CASE Reply(c)
    <3>1. CASE Goto(c, "relay") /\ UNCHANGED vouched
      BY <1>1, <2>6, <3>1 DEF Reply, FailClosed, Goto, Task
    <3>2. QED BY <1>4, <2>6, <3>1 DEF Reply
  <2>7. CASE Relay(c)
    BY <1>3, <1>4, <2>7 DEF Relay
  <2>8. CASE Report(c)
    BY <1>3, <2>8 DEF Report
  <2>9. CASE Panic(c)
    BY <1>3, <2>9 DEF Panic
  <2>10. QED BY <1>6, <2>1, <2>2, <2>3, <2>4, <2>5, <2>6, <2>7, <2>8, <2>9 DEF ConnStep
<1>7. CASE Stop
  BY <1>1, <1>2, <1>7 DEF Stop, Task
<1>8. CASE \/ \E p \in Producers : Tick(p) \/ Work(p) \/ ProducerEnds(p)
           \/ Swap \/ TearDown \/ UNCHANGED vars
  <2>1. UNCHANGED <<mode, admission>>
    BY <1>8 DEF Swap, Tick, Work, ProducerEnds, TearDown, Cancel, Drain, Join, JoinTimeout,
       Close, Exit, vars
  <2>2. QED BY <1>2, <2>1 DEF admission
<1>9. QED BY <1>5, <1>6, <1>7, <1>8 DEF Next

-----------------------------------------------------------------------------
(* The counters.                                                           *)

\* Each class of failure has a counter of its own.
LEMMA CounterNames ==
    /\ DOMAIN ErrorCounter = Errors
    /\ {"started", "relay_closed", "connect_ok", "connect_failed"} \subseteq Counters
    /\ \A e \in Errors :
          /\ ErrorCounter[e] \in Counters
          /\ ErrorCounter[e] \notin {"started", "relay_closed", "connect_ok", "connect_failed"}
          /\ \A f \in Errors : ErrorCounter[e] = ErrorCounter[f] => e = f
<1>1. Counters = {"started", "connect_ok", "connect_failed", "relay_closed", "relay_errors",
                  "client_errors", "tor_errors", "other_errors"}
  <2>1. DOMAIN CounterOrder = 1..8
    BY SMT DEF CounterOrder
  <2>2. 1..8 = {1, 2, 3, 4, 5, 6, 7, 8}
    BY SMT
  <2>3. /\ CounterOrder[1] = "started" /\ CounterOrder[2] = "connect_ok"
        /\ CounterOrder[3] = "connect_failed" /\ CounterOrder[4] = "relay_closed"
        /\ CounterOrder[5] = "relay_errors" /\ CounterOrder[6] = "client_errors"
        /\ CounterOrder[7] = "tor_errors" /\ CounterOrder[8] = "other_errors"
    BY SMT DEF CounterOrder
  <2>4. QED BY <2>1, <2>2, <2>3, SMT DEF Counters
<1>2. /\ DOMAIN ErrorCounter = Errors
      /\ ErrorCounter["client"] = "client_errors" /\ ErrorCounter["tor"] = "tor_errors"
      /\ ErrorCounter["relay"] = "relay_errors" /\ ErrorCounter["other"] = "other_errors"
  BY SMT DEF ErrorCounter, Errors
<1>3. QED BY <1>1, <1>2, SMT DEF Errors

\* What a bump and a swap do to the counters and to what the summaries say.
LEMMA TotalBumped ==
    ASSUME count \in [Counters -> Nat], reported \in [Counters -> Nat], NEW ks, Bump(ks)
    PROVE  /\ count' \in [Counters -> Nat] /\ reported' \in [Counters -> Nat]
           /\ \A k \in Counters : /\ k \in ks => Total(k)' = Total(k) + 1
                                  /\ k \notin ks => Total(k)' = Total(k)
BY SMT DEF Bump, Add, Total

LEMMA TotalSwapped ==
    ASSUME count \in [Counters -> Nat], reported \in [Counters -> Nat],
           swap \in 1..Len(CounterOrder), Swap
    PROVE  /\ count' \in [Counters -> Nat] /\ reported' \in [Counters -> Nat]
           /\ swap' \in 1..Len(CounterOrder)
           /\ \A k \in Counters : Total(k)' = Total(k)
<1>1. Len(CounterOrder) = 8 /\ DOMAIN CounterOrder = 1..8
  BY SMT DEF CounterOrder
<1> DEFINE s == CounterOrder[swap]
<1>2. s \in Counters
  BY <1>1 DEF Counters
<1>3. /\ reported' = [reported EXCEPT ![s] = @ + count[s]]
      /\ count' = [count EXCEPT ![s] = 0]
      /\ swap' = (swap % Len(CounterOrder)) + 1
  BY DEF Swap
<1> HIDE DEF s
<1>4. swap' \in 1..Len(CounterOrder)
  BY <1>1, <1>3, SMT
<1>5. QED BY <1>2, <1>3, <1>4, SMT, SMTT(30) DEF Total

\* A record that is written without ending a task changes no end.
LEMMA EndsStay ==
    ASSUME conn \in [Conns -> ConnTask], NEW c \in Conns, conn[c].pc \in Live,
           NEW r, r.pc \in Live, conn' = [conn EXCEPT ![c] = r]
    PROVE  Started' = Started /\ \A kind : Ended(kind)' = Ended(kind)
BY DEF Started, Ended, Live

\* A task that ends adds itself to the ends of its kind.
LEMMA EndsGrow ==
    ASSUME conn \in [Conns -> ConnTask], NEW c \in Conns, conn[c].pc \in Live, NEW end,
           Release(c, end)
    PROVE  /\ Started' = Started
           /\ Cardinality(Ended(end)') = Cardinality(Ended(end)) + 1
           /\ \A kind : kind # end => Ended(kind)' = Ended(kind)
<1>1. /\ conn' = [conn EXCEPT ![c] = [Task("done") EXCEPT !.kind = end]]
      /\ [Task("done") EXCEPT !.kind = end].pc = "done"
      /\ [Task("done") EXCEPT !.kind = end].kind = end
  BY DEF Release, Task
<1>2. Started' = Started /\ \A kind : kind # end => Ended(kind)' = Ended(kind)
  BY <1>1 DEF Started, Ended, Live
<1>3. Ended(end)' = Ended(end) \cup {c} /\ c \notin Ended(end) /\ Ended(end) \subseteq Conns
  BY <1>1 DEF Ended, Live
<1>4. QED BY <1>2, <1>3, ConnsFinite, FS_AddElement, ZenonT(60)

\* A connection that is admitted is started, and no task ended.
LEMMA StartedGrows ==
    ASSUME conn \in [Conns -> ConnTask], NEW c \in Conns, conn[c].pc = "waiting",
           conn' = [conn EXCEPT ![c] = Task("handshake")]
    PROVE  /\ Cardinality(Started') = Cardinality(Started) + 1
           /\ \A kind : Ended(kind)' = Ended(kind)
<1>1. \A kind : Ended(kind)' = Ended(kind)
  BY DEF Ended, Task
<1>2. Started' = Started \cup {c} /\ c \notin Started /\ Started \subseteq Conns
  BY DEF Started, Task, Live
<1>3. QED BY <1>1, <1>2, ConnsFinite, FS_AddElement

\* The counters stay numbers, and the summary's place stays in range.
LEMMA CountersType ==
    ASSUME ServerInv, [Next]_vars
    PROVE  /\ count' \in [Counters -> Nat] /\ reported' \in [Counters -> Nat]
           /\ swap' \in 1..Len(CounterOrder)
<1> USE DEF ServerInv, Conserved, TypeOK
<1>1. CASE Swap
  BY <1>1, TotalSwapped
<1>2. ASSUME NEW ks, Bump(ks) PROVE count' \in [Counters -> Nat] /\ reported' \in [Counters -> Nat]
  BY <1>2, TotalBumped
<1>3. CASE \E l \in Listeners : Accept(l) \/ Admit(l)
  BY <1>2, <1>3 DEF Accept, Admit, counters
<1>4. CASE \E c \in Conns : ConnStep(c)
  <2>1. UNCHANGED swap /\ (UNCHANGED <<count, reported>> \/ \E ks : Bump(ks))
    BY <1>4, ZenonT(60) DEF ConnStep, Handshake, ReadRequest, HandshakeFails, Request, VerifyEnds, Connect,
       Reply, Relay, Report, Panic, counters
  <2>2. QED BY <1>2, <2>1
<1>5. CASE \/ \E p \in Producers : Tick(p) \/ Work(p) \/ ProducerEnds(p)
           \/ Stop \/ TearDown \/ UNCHANGED vars
  <2>1. UNCHANGED <<counters, swap>>
    BY <1>5 DEF Stop, Tick, Work, ProducerEnds, TearDown, Cancel, Drain, Join, JoinTimeout,
       Close, Exit, vars
  <2>2. QED BY <2>1 DEF counters
<1>6. QED BY <1>1, <1>3, <1>4, <1>5 DEF Next

\* A bump that counts no end, beside a step that ends and starts no task.
LEMMA QuietReports ==
    ASSUME ServerInv, Started' = Started, \A kind \in Errors \cup {"closed"} : Ended(kind)' = Ended(kind),
           \/ UNCHANGED <<count, reported>>
           \/ Swap
           \/ \E ks \in SUBSET {"connect_ok", "connect_failed"} : Bump(ks)
    PROVE  EveryEndReported'
<1>1. \A k \in {"started", "relay_closed"} \cup {ErrorCounter[e] : e \in Errors} :
         Total(k)' = Total(k)
  <2>1. CASE UNCHANGED <<count, reported>>
    BY <2>1 DEF Total
  <2>2. CASE Swap
    BY <2>2, TotalSwapped, CounterNames DEF ServerInv, Conserved, TypeOK
  <2>3. CASE \E ks \in SUBSET {"connect_ok", "connect_failed"} : Bump(ks)
    <3>1. PICK ks \in SUBSET {"connect_ok", "connect_failed"} : Bump(ks)
      BY <2>3
    <3>2. \A k \in Counters : k \notin ks => Total(k)' = Total(k)
      BY <3>1, TotalBumped DEF ServerInv, Conserved, TypeOK
    <3>3. "started" \notin ks /\ "relay_closed" \notin ks
      OBVIOUS
    <3>4. QED BY <3>2, <3>3, CounterNames
  <2>4. QED BY <2>1, <2>2, <2>3
<1>2. QED BY <1>1, CounterNames, ZenonT(60) DEF ServerInv, EveryEndReported

\* A task that ends silently is in no summary.
LEMMA SilentReports ==
    ASSUME ServerInv, NEW c \in Conns, conn[c].pc \in Live, Release(c, "silent"),
           UNCHANGED <<count, reported>>
    PROVE  EveryEndReported'
<1>1. Started' = Started /\ \A kind : kind # "silent" => Ended(kind)' = Ended(kind)
  BY EndsGrow DEF ServerInv, Conserved, TypeOK
<1>2. QED BY <1>1, QuietReports DEF Errors

LEMMA ReportsStep ==
    ASSUME ServerInv, [Next]_vars
    PROVE  EveryEndReported'
<1> USE DEF ServerInv, Conserved
<1>1. /\ conn \in [Conns -> ConnTask]
      /\ count \in [Counters -> Nat] /\ reported \in [Counters -> Nat]
  BY DEF TypeOK
<1>2. ASSUME UNCHANGED conn, UNCHANGED <<count, reported>> \/ Swap PROVE EveryEndReported'
  BY <1>2, QuietReports DEF Started, Ended
<1>3. ASSUME NEW l \in Listeners, Accept(l) PROVE EveryEndReported'
  <2>1. next_conn_id \in Conns /\ conn[next_conn_id].pc = "client"
    BY <1>3, SMT DEF Accept, Loops, Conns, TypeOK
  <2>2. conn' = [conn EXCEPT ![next_conn_id] = Task("waiting")]
    BY <1>3 DEF Accept
  <2>3. Started' = Started /\ \A kind : Ended(kind)' = Ended(kind)
    BY <1>1, <2>1, <2>2 DEF Started, Ended, Task, Live
  <2>4. QED BY <1>3, <2>3, QuietReports DEF Accept, counters
<1>4. ASSUME NEW l \in Listeners, Admit(l) PROVE EveryEndReported'
  <2>1. loop[l] \in Conns /\ conn[loop[l]].pc = "waiting"
    BY <1>4 DEF Admit, Loops, TypeOK, Nobody
  <2>2. conn' = [conn EXCEPT ![loop[l]] = Task("handshake")] /\ Bump({"started"})
    BY <1>4 DEF Admit
  <2>3. Cardinality(Started') = Cardinality(Started) + 1 /\ \A kind : Ended(kind)' = Ended(kind)
    BY <1>1, <2>1, <2>2, StartedGrows
  <2>4. \A k \in Counters : /\ k \in {"started"} => Total(k)' = Total(k) + 1
                            /\ k \notin {"started"} => Total(k)' = Total(k)
    BY <1>1, <2>2, TotalBumped
  <2>5. QED BY <2>3, <2>4, CounterNames DEF EveryEndReported
<1>5. ASSUME NEW c \in Conns, conn[c].pc \in Live,
             \/ \E pc \in Live : Goto(c, pc)
             \/ \E stage, kind : Fail(c, stage, kind),
             \/ UNCHANGED <<count, reported>>
             \/ \E ks \in SUBSET {"connect_ok", "connect_failed"} : Bump(ks)
      PROVE  EveryEndReported'
  <2>1. PICK r : conn' = [conn EXCEPT ![c] = r] /\ r.pc \in Live
    BY <1>5, ZenonT(60) DEF Goto, Fail, Task, Live
  <2>2. Started' = Started /\ \A kind : Ended(kind)' = Ended(kind)
    BY <1>1, <1>5, <2>1, EndsStay
  <2>3. QED BY <1>5, <2>2, QuietReports
<1>6. ASSUME NEW c \in Conns, ConnStep(c) PROVE EveryEndReported'
  <2> USE DEF At, counters
  <2>0. {"handshake", "verify", "read", "request", "connecting", "reply", "relay", "failed"} = Live
    BY DEF Live
  <2>1. CASE Handshake(c) \/ ReadRequest(c) \/ HandshakeFails(c)
    BY <1>5, <2>0, <2>1 DEF Handshake, ReadRequest, HandshakeFails
  <2>2. CASE Request(c)
    <3>1. conn[c].pc \in Live
      BY <2>0, <2>2 DEF Request
    <3>2. CASE Release(c, "silent") /\ UNCHANGED <<count, reported>>
      BY <3>1, <3>2, SilentReports
    <3>3. CASE Fail(c, "Connect", "other") /\ Bump({"connect_failed"})
      BY <1>5, <3>1, <3>3
    <3>4. QED BY <1>5, <2>0, <2>2, <3>1, <3>2, <3>3, ZenonT(60) DEF Request
  <2>3. ASSUME NEW verdict, VerifyEnds(c, verdict) PROVE EveryEndReported'
    <3>1. CASE conn[c].pc = "verify"
      BY <1>5, <2>0, <2>3, <3>1 DEF VerifyEnds
    <3>2. CASE conn[c].pc # "verify"
      BY <1>2, <2>3, <3>2 DEF VerifyEnds
    <3>3. QED BY <3>1, <3>2
  <2>4. CASE Connect(c)
    <3>1. conn[c].pc \in Live
      BY <2>0, <2>4 DEF Connect
    <3>2. CASE Goto(c, "reply") /\ Bump({"connect_ok"})
      BY <1>5, <2>0, <3>1, <3>2
    <3>3. CASE (\E stage, kind : Fail(c, stage, kind)) /\ Bump({"connect_failed"})
      BY <1>5, <3>1, <3>3
    <3>4. QED BY <2>4, <3>2, <3>3 DEF Connect
  <2>5. CASE Reply(c)
    BY <1>5, <2>0, <2>5 DEF Reply
  <2>6. CASE Relay(c)
    <3>1. conn[c].pc \in Live
      BY <2>0, <2>6 DEF Relay
    <3>2. CASE Release(c, "closed") /\ Bump({"relay_closed"})
      <4>1. /\ Started' = Started
            /\ Cardinality(Ended("closed")') = Cardinality(Ended("closed")) + 1
            /\ \A kind \in Errors : Ended(kind)' = Ended(kind)
        BY <1>1, <3>1, <3>2, EndsGrow DEF Errors
      <4>2. \A k \in Counters : /\ k \in {"relay_closed"} => Total(k)' = Total(k) + 1
                                /\ k \notin {"relay_closed"} => Total(k)' = Total(k)
        BY <1>1, <3>2, TotalBumped
      <4>3. QED BY <4>1, <4>2, CounterNames DEF EveryEndReported
    <3>3. QED BY <1>5, <2>6, <3>1, <3>2 DEF Relay
  <2>7. CASE Report(c)
    <3>1. PICK e \in Errors : conn[c].pc \in Live /\ e = conn[c].kind
      BY <2>0, <2>7 DEF Report, Classified
    <3>2. PICK ks \in SUBSET {ErrorCounter[e], "connect_failed"} :
             ErrorCounter[e] \in ks /\ Release(c, e) /\ Bump(ks)
      BY <2>7, <3>1 DEF Report
    <3>3. ErrorCounter[e] \in ks /\ ks \subseteq {ErrorCounter[e], "connect_failed"}
      BY <3>2
    <3>4. /\ Started' = Started
          /\ Cardinality(Ended(e)') = Cardinality(Ended(e)) + 1
          /\ \A kind : kind # e => Ended(kind)' = Ended(kind)
      BY <1>1, <3>1, <3>2, EndsGrow
    <3>5. \A k \in Counters : /\ k \in ks => Total(k)' = Total(k) + 1
                              /\ k \notin ks => Total(k)' = Total(k)
      BY <1>1, <3>2, TotalBumped
    <3>6. Total("started")' = Cardinality(Started')
      BY <3>1, <3>3, <3>4, <3>5, CounterNames DEF EveryEndReported
    <3>7. Total("relay_closed")' = Cardinality(Ended("closed")')
      BY <3>1, <3>3, <3>4, <3>5, CounterNames DEF EveryEndReported, Errors
    <3>8. ASSUME NEW f \in Errors
          PROVE  Total(ErrorCounter[f])' = Cardinality(Ended(f)')
      <4>1. CASE f = e
        BY <3>1, <3>3, <3>4, <3>5, <4>1, CounterNames, ZenonT(60) DEF EveryEndReported
      <4>2. CASE f # e
        BY <3>1, <3>3, <3>4, <3>5, <4>2, CounterNames, ZenonT(60) DEF EveryEndReported
      <4>3. QED BY <4>1, <4>2
    <3>9. QED BY <3>6, <3>7, <3>8, CounterNames DEF EveryEndReported
  <2>8. CASE Panic(c)
    BY <2>8, SilentReports DEF Panic, Tasks
  <2>9. QED BY <1>6, <2>1, <2>2, <2>3, <2>4, <2>5, <2>6, <2>7, <2>8 DEF ConnStep
<1>7. CASE Stop
  <2>1. Started' = Started /\ \A kind : Ended(kind)' = Ended(kind)
    BY <1>1, <1>7 DEF Stop, Started, Ended, Task, Live
  <2>2. QED BY <1>7, <2>1, QuietReports DEF Stop, counters
<1>8. CASE \/ \E p \in Producers : Tick(p) \/ Work(p) \/ ProducerEnds(p)
           \/ Swap \/ TearDown \/ UNCHANGED vars
  <2>1. UNCHANGED admission /\ (UNCHANGED counters \/ Swap)
    BY <1>8 DEF Swap, Tick, Work, ProducerEnds, TearDown, Cancel, Drain, Join, JoinTimeout,
       Close, Exit, vars
  <2>2. QED BY <1>2, <2>1 DEF admission, counters
<1>9. QED BY <1>3, <1>4, <1>6, <1>7, <1>8 DEF Next

-----------------------------------------------------------------------------
(* The shutdown.                                                           *)

\* The types of what run_server and the producers own.
LEMMA TeardownTypes ==
    ASSUME ServerInv, [Next]_vars
    PROVE  /\ mode' = mode
           /\ main' \in {"serving", "cancel", "drain", "join", "close", "bye", "exited"}
           /\ next_conn_id' \in 1..(MaxConns + 1)
           /\ loop' \in [Listeners -> Conns \cup {Nobody}]
           /\ {tunnel', cancelled', writer'} \subseteq BOOLEAN
           /\ prod' \in [Producers -> {"idle", "working", "done"}]
           /\ abandoned' \subseteq Producers /\ rejected' \subseteq Producers
<1> USE DEF ServerInv, Conserved, TypeOK
<1>1. CASE \E l \in Listeners : Accept(l) \/ Admit(l)
  <2>1. PICK l \in Listeners : Accept(l) \/ Admit(l)
    BY <1>1
  <2>2. UNCHANGED <<mode, upkeep, teardown>>
    BY <2>1 DEF Accept, Admit
  <2>3. MaxConns \in Nat /\ next_conn_id \in 1..(MaxConns + 1)
    BY BoundsAssumption
  <2>4. next_conn_id' \in 1..(MaxConns + 1)
    BY <2>1, <2>3, SMTT(30) DEF Accept, Admit
  <2>5. loop' \in [Listeners -> Conns \cup {Nobody}]
    BY <2>1, <2>3, SMTT(30) DEF Accept, Admit, Conns
  <2>6. QED BY <2>2, <2>4, <2>5 DEF upkeep, teardown
<1>2. CASE \E c \in Conns : ConnStep(c)
  <2>1. UNCHANGED <<mode, next_conn_id, loop, upkeep, teardown>>
    BY <1>2 DEF ConnStep, Handshake, ReadRequest, HandshakeFails, Request, VerifyEnds, Connect,
       Reply, Relay, Report, Panic
  <2>2. QED BY <2>1 DEF upkeep, teardown
<1>3. CASE Swap \/ UNCHANGED vars
  BY <1>3 DEF Swap, vars, admission, upkeep, teardown
<1>4. ASSUME NEW p \in Producers, Tick(p) \/ Work(p) \/ ProducerEnds(p)
      PROVE  /\ prod' \in [Producers -> {"idle", "working", "done"}]
             /\ rejected' \subseteq Producers
             /\ UNCHANGED <<mode, admission, teardown>>
  BY <1>4 DEF Tick, Work, ProducerEnds
<1>5. CASE Stop
  BY <1>5 DEF Stop, upkeep
<1>6. CASE TearDown
  <2>1. UNCHANGED <<mode, admission, upkeep>>
    BY <1>6 DEF TearDown, Cancel, Drain, Join, JoinTimeout, Close, Exit
  <2>2. main' \in {"serving", "cancel", "drain", "join", "close", "bye", "exited"}
    BY <1>6 DEF TearDown, Cancel, Drain, Join, JoinTimeout, Close, Exit
  <2>3. {tunnel', cancelled', writer'} \subseteq BOOLEAN /\ abandoned' \subseteq Producers
    BY <1>6 DEF TearDown, Cancel, Drain, Join, JoinTimeout, Close, Exit, Unfinished
  <2>4. QED BY <2>1, <2>2, <2>3 DEF admission, upkeep
<1>7. QED BY <1>1, <1>2, <1>3, <1>4, <1>5, <1>6 DEF Next, admission, teardown

\* A producer is unfinished at the close only if the join gave it up, and a
\* finished one never writes again.
LEMMA HandoverStep ==
    ASSUME ServerInv, [Next]_vars
    PROVE  Handover' /\ WriterLast'
<1> USE DEF ServerInv, Handover, WriterLast
<1>1. mode.egress \in {"tor", "upstream"} /\ mode' = mode
  BY ModesAssumption, TeardownTypes DEF Conserved, TypeOK
<1>2. ASSUME UNCHANGED <<upkeep, teardown>> PROVE Handover' /\ WriterLast'
  BY <1>1, <1>2 DEF upkeep, teardown, Unfinished
<1>3. CASE \/ \E l \in Listeners : Accept(l) \/ Admit(l)
           \/ \E c \in Conns : ConnStep(c)
           \/ Swap \/ UNCHANGED vars
  BY <1>2, <1>3, ZenonT(60) DEF Accept, Admit, ConnStep, Handshake, ReadRequest, HandshakeFails, Request,
     VerifyEnds, Connect, Reply, Relay, Report, Panic, Swap, vars
<1>4. ASSUME NEW p \in Producers, Tick(p) \/ Work(p) \/ ProducerEnds(p)
      PROVE  Handover' /\ WriterLast'
  <2>1. p \in Unfinished /\ Unfinished' \subseteq Unfinished /\ UNCHANGED teardown
    BY <1>4 DEF Tick, Work, ProducerEnds, Unfinished, Conserved, TypeOK
  <2>2. rejected' = rejected \/ (~writer /\ rejected' = rejected \cup {p})
    BY <1>4 DEF Tick, Work, ProducerEnds
  <2>3. CASE rejected' = rejected
    BY <1>1, <2>1, <2>3 DEF teardown
  <2>4. CASE ~writer /\ rejected' = rejected \cup {p}
    BY <1>1, <2>1, <2>4 DEF teardown
  <2>5. QED BY <2>2, <2>3, <2>4
<1>5. CASE Stop
  BY <1>1, <1>5 DEF Stop, upkeep, Unfinished
<1>6. CASE Cancel \/ Drain \/ Exit
  BY <1>1, <1>6, SMT, SMTT(30) DEF Cancel, Drain, Exit, upkeep, Unfinished
<1>7. CASE Join
  BY <1>1, <1>7 DEF Join, upkeep, Unfinished
<1>8. CASE JoinTimeout
  BY <1>1, <1>8 DEF JoinTimeout, upkeep, Unfinished
<1>9. CASE Close
  BY <1>1, <1>9 DEF Close, upkeep, Unfinished
<1>10. QED BY <1>3, <1>4, <1>5, <1>6, <1>7, <1>8, <1>9, ZenonT(60) DEF Next, TearDown

-----------------------------------------------------------------------------
(* The results.                                                            *)

\* A server that starts to serve satisfies the inductive invariant.
LEMMA ServerInvInit == Init => ServerInv
<1> SUFFICES ASSUME Init PROVE ServerInv
  OBVIOUS
<1> USE BoundsAssumption, ModesAssumption DEF Init
<1>1. mode.egress \in {"tor", "upstream"}
  OBVIOUS
<1>2. Task("client") \in ConnTask /\ Task("client").pc = "client"
  BY DEF Task, ConnTask
<1>3. Tasks = {} /\ Cardinality(Tasks) = 0 /\ Cardinality(verifying) = 0
  BY <1>2, FS_EmptySet DEF Tasks, Live
<1>4. Len(CounterOrder) = 8
  BY DEF CounterOrder
<1>5. {tunnel, cancelled, writer} \subseteq BOOLEAN
  OBVIOUS
<1>6. prod \in [Producers -> {"idle", "working", "done"}]
  OBVIOUS
<1>7. TypeOK
  BY <1>2, <1>4, <1>5, <1>6, SMTT(30) DEF TypeOK, Nobody, Zero
<1>8. Conserved
  BY <1>3, <1>7, SMT, SMTT(30) DEF Conserved
<1>9. Loops /\ Verified /\ Classified /\ FailClosed
  BY <1>2 DEF Loops, Verified, Classified, FailClosed
<1>10. Handover /\ WriterLast
  BY <1>1 DEF Handover, WriterLast, Unfinished
<1>11. EveryEndReported
  <2>1. Started = {} /\ \A kind : Ended(kind) = {}
    BY <1>2 DEF Started, Ended, Live
  <2>2. ASSUME NEW k \in Counters PROVE Total(k) = 0
    BY SMT DEF Total, Zero
  <2>3. QED BY <2>1, <2>2, FS_EmptySet, CounterNames DEF EveryEndReported
<1>12. QED BY <1>8, <1>9, <1>10, <1>11 DEF ServerInv

\* Every step preserves the inductive invariant.
LEMMA ServerInvStep == ServerInv /\ [Next]_vars => ServerInv'
<1> SUFFICES ASSUME ServerInv, [Next]_vars PROVE ServerInv'
  OBVIOUS
<1>1. PermitsExact' /\ SlotsExact' /\ verifying' \subseteq Conns
  BY PermitsStep, SlotsStep
<1>2. conn' \in [Conns -> ConnTask] /\ Verified' /\ Classified'
  BY TaskFactsStep
<1>3. FailClosed' /\ vouched' \subseteq Conns
  BY FailClosedStep
<1>4. /\ count' \in [Counters -> Nat] /\ reported' \in [Counters -> Nat]
      /\ swap' \in 1..Len(CounterOrder) /\ EveryEndReported'
  BY CountersType, ReportsStep
<1>5. pending' \in Nat
  <2>1. Tasks' \subseteq Conns
    BY DEF Tasks
  <2>2. QED BY <1>1, <2>1, ConnsFinite DEF PermitsExact
<1>6. mode' \in Modes
  BY TeardownTypes DEF ServerInv, Conserved, TypeOK
<1>7. TypeOK'
  BY <1>1, <1>2, <1>3, <1>4, <1>5, <1>6, TeardownTypes DEF TypeOK, PermitsExact, SlotsExact
<1>8. Conserved'
  BY <1>1, <1>7 DEF Conserved, PermitsExact, SlotsExact
<1>9. QED BY <1>2, <1>3, <1>4, <1>8, LoopsStep, HandoverStep DEF ServerInv

LEMMA ServerInvariant == Spec => []ServerInv
BY ServerInvInit, ServerInvStep, PTL DEF Spec

(* Whatever ends a connection task, an error, the handshake deadline, a    *)
(* panic or a clean close, its permit and its place in the pending gauge   *)
(* come back exactly once, and a verification the deadline detached keeps  *)
(* its slot until it ends (accept_loop, the permit and gauge guards).      *)
THEOREM AdmissionIsExact == Spec => []Conserved
BY ServerInvariant, PTL DEF ServerInv

(* With users configured no connection is past authenticate unless its own *)
(* verification said yes: a full verification pool, a panic or a verdict   *)
(* that comes after the deadline refuse it.                                *)
THEOREM AuthenticationFailsClosed == Spec => []FailClosed
BY ServerInvariant, PTL DEF ServerInv

(* snapshot_and_reset swaps one counter at a time while tasks record: over *)
(* all summaries every connection is started once, and its end is counted  *)
(* once, in the counter of its class.                                      *)
THEOREM SummariesLoseNothing == Spec => []EveryEndReported
BY ServerInvariant, PTL DEF ServerInv

(* shutdown_producers closes the bridge-store writer after its producers:  *)
(* only an update of a producer that outlived the join budget meets a      *)
(* closed writer.                                                          *)
THEOREM WriterClosesLast == Spec => []WriterLast
BY ServerInvariant, PTL DEF ServerInv

=============================================================================
