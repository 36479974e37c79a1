------------------------------- MODULE Server -------------------------------
(***************************************************************************)
(* The proxy server: accept loops, connection tasks, the admission of      *)
(* password verifications, the connection-health counters and the          *)
(* shutdown choreography (apps/socks5-proxy/src/server/server.rs,          *)
(* packages/socks5-proto/src/lib.rs, .../tor/conn_health.rs).              *)
(*                                                                         *)
(* A connection is a record of where its task is and why it failed.  The   *)
(* SOCKS5/HTTP framing, the verdict of AuthState (module Auth) and the     *)
(* egress network are outcomes.  Producers are the background tasks that   *)
(* write to the bridge store, whose writer is module StoreWriter.          *)
(***************************************************************************)
EXTENDS Naturals, FiniteSets, Sequences

CONSTANTS
    Listeners,
    MaxConns,           \* bound on the connections accepted
    Producers,          \* background tasks joined at shutdown
    MaxPermits,         \* MAX_CONCURRENT_CONNECTIONS
    MaxVerifications,   \* MAX_BLOCKING_VERIFICATIONS
    Modes               \* configurations: egress, whether users exist, whether summaries are logged

ASSUME BoundsAssumption ==
    {MaxConns, MaxPermits, MaxVerifications} \subseteq Nat \ {0}
ASSUME ModesAssumption ==
    Modes \subseteq [egress : {"tor", "upstream"}, auth : BOOLEAN, summary : BOOLEAN]

\* Connection identifiers; 0 stands for none.
Conns == 1..MaxConns
Nobody == 0

\* The windowed counters, in the order the summary swaps them.
CounterOrder ==
    <<"started", "connect_ok", "connect_failed", "relay_closed", "relay_errors",
      "client_errors", "tor_errors", "other_errors">>
Counters == {CounterOrder[i] : i \in DOMAIN CounterOrder}

VARIABLES
    mode,       \* the configuration of this run
    main,       \* where run_server is
    next_conn_id,
    loop,       \* per listener: the connection its accept loop holds
    conn,       \* per connection: its task
    permits,    \* free connection permits
    slots,      \* free verification slots
    verifying,  \* blocking verifications queued or running
    vouched,    \* live connections whose credentials verified (history)
    count,      \* ConnHealthCounters, the windowed ones
    pending,    \* ... and the gauge
    swap,       \* the counter snapshot_and_reset swaps next
    reported,   \* per counter: the sum of all logged summaries (history)
    tunnel,     \* is there a tunnel in the TorHandle slot?
    cancelled,  \* producer_token
    prod,       \* per producer: where it is
    writer,     \* is the bridge-store writer open?
    abandoned,  \* producers not joined in time
    rejected    \* producers whose store update met a closed writer (history)

admission == <<next_conn_id, loop, conn, permits, slots, verifying, vouched>>
counters == <<count, pending, reported>>
upkeep == <<prod, rejected>>
teardown == <<main, tunnel, cancelled, writer, abandoned>>
vars == <<mode, admission, counters, swap, upkeep, teardown>>

\* Where a task is, and the classified failure it has to report; of a task that is
\* done, how it ended (history): closed, with a reported failure, or silently.
Task(pc) == [pc |-> pc, stage |-> "none", kind |-> "none"]
Live == {"handshake", "verify", "read", "request", "connecting", "reply", "relay", "failed"}
Tasks == {c \in Conns : conn[c].pc \in Live}

Zero == [k \in Counters |-> 0]

Init ==
    /\ mode \in Modes
    /\ main = "serving"
    /\ next_conn_id = 1
    /\ loop = [l \in Listeners |-> Nobody]
    /\ conn = [c \in Conns |-> Task("client")]
    /\ permits = MaxPermits /\ slots = MaxVerifications
    /\ verifying = {} /\ vouched = {}
    /\ count = Zero /\ reported = Zero
    /\ pending = 0 /\ swap = 1
    /\ tunnel = (mode.egress = "tor") /\ writer = (mode.egress = "tor")
    /\ cancelled = FALSE
    /\ prod = [p \in Producers |-> IF mode.egress = "tor" THEN "idle" ELSE "done"]
    /\ abandoned = {} /\ rejected = {}

Running == main # "exited"

-----------------------------------------------------------------------------
(* ConnHealthCounters.                                                     *)

Add(f, ks) == [k \in Counters |-> IF k \in ks THEN f[k] + 1 ELSE f[k]]
Bump(ks) == count' = Add(count, ks) /\ UNCHANGED reported

\* Mutant: everything is reset once the first counter was read.
SwapResetsAll ==
    LET k == CounterOrder[swap]
    IN  /\ Running /\ mode.summary
        /\ reported' = [reported EXCEPT ![k] = @ + count[k]]
        /\ count' = Zero
        /\ swap' = (swap % Len(CounterOrder)) + 1
        /\ UNCHANGED <<mode, admission, pending, upkeep, teardown>>

\* One atomic swap(0) of snapshot_and_reset; tasks run between two of them.
Swap ==
    LET k == CounterOrder[swap]
    IN  /\ Running /\ mode.summary
        /\ reported' = [reported EXCEPT ![k] = @ + count[k]]
        /\ count' = [count EXCEPT ![k] = 0]
        /\ swap' = (swap % Len(CounterOrder)) + 1
        /\ UNCHANGED <<mode, admission, pending, upkeep, teardown>>

-----------------------------------------------------------------------------
(* The accept loops.  A loop holds the one connection it accepted until a  *)
(* permit is free; a peer the ingress ACL denies was dropped before that,  *)
(* and a failed accept is retried: neither leaves a trace.                 *)

Accept(l) ==
    /\ main = "serving" /\ loop[l] = Nobody /\ next_conn_id <= MaxConns
    /\ next_conn_id' = next_conn_id + 1
    /\ loop' = [loop EXCEPT ![l] = next_conn_id]
    /\ conn' = [conn EXCEPT ![next_conn_id] = Task("waiting")]
    /\ UNCHANGED <<mode, permits, slots, verifying, vouched, counters, swap, upkeep, teardown>>

\* The permit is taken and the connection task starts.
Admit(l) ==
    LET c == loop[l]
    IN  /\ main = "serving" /\ c # Nobody /\ permits > 0
        /\ permits' = permits - 1 /\ pending' = pending + 1 /\ Bump({"started"})
        /\ conn' = [conn EXCEPT ![c] = Task("handshake")]
        /\ loop' = [loop EXCEPT ![l] = Nobody]
        /\ UNCHANGED <<mode, next_conn_id, slots, verifying, vouched, swap, upkeep, teardown>>

-----------------------------------------------------------------------------
(* The connection task: handle_client and the reporting around it.         *)

At(c, pc) == Running /\ conn[c].pc = pc
Goto(c, pc) == conn' = [conn EXCEPT ![c] = Task(pc)]

\* handle_client returns an error that classify_conn_failure sorts.
Fail(c, stage, kind) ==
    conn' = [conn EXCEPT ![c] = [pc |-> "failed", stage |-> stage, kind |-> kind]]

\* Mutant: only a task that reports no error gives its permit back.
ReleaseIfClean(c, end) ==
    /\ permits' = permits + (IF conn[c].pc = "failed" THEN 0 ELSE 1)
    /\ pending' = pending - 1 /\ vouched' = vouched \ {c}
    /\ conn' = [conn EXCEPT ![c] = [Task("done") EXCEPT !.kind = end]]

\* The task's permit and gauge guard are dropped.
Release(c, end) ==
    /\ permits' = permits + 1
    /\ pending' = pending - 1 /\ vouched' = vouched \ {c}
    /\ conn' = [conn EXCEPT ![c] = [Task("done") EXCEPT !.kind = end]]

\* Without users the CONNECT request is read next; with users the credentials are
\* handed to a blocking verification, or refused when no slot is free.
Handshake(c) ==
    /\ At(c, "handshake")
    /\ IF ~mode.auth
          THEN Goto(c, "read") /\ UNCHANGED <<slots, verifying>>
        ELSE IF slots > 0
          THEN /\ slots' = slots - 1 /\ verifying' = verifying \cup {c}
               /\ Goto(c, "verify")
        ELSE Fail(c, "Handshake", "client") /\ UNCHANGED <<slots, verifying>>
    /\ UNCHANGED <<mode, next_conn_id, loop, permits, vouched, counters, swap, upkeep, teardown>>

\* Mutant: a verification that panics counts as a success.
VerifyOpen(c, verdict) ==
    /\ Running /\ c \in verifying
    /\ slots' = slots + 1 /\ verifying' = verifying \ {c}
    /\ vouched' = IF At(c, "verify") /\ verdict = "yes" THEN vouched \cup {c} ELSE vouched
    /\ CASE conn[c].pc # "verify" -> UNCHANGED conn
         [] conn[c].pc = "verify" /\ verdict # "no" -> Goto(c, "read")
         [] OTHER -> Fail(c, "Handshake", "client")
    /\ UNCHANGED <<mode, next_conn_id, loop, permits, counters, swap, upkeep, teardown>>

\* The closure ends: its slot is free only now, and the verdict reaches the
\* connection only if that still waits for it.
VerifyEnds(c, verdict) ==
    /\ Running /\ c \in verifying
    /\ slots' = slots + 1 /\ verifying' = verifying \ {c}
    /\ vouched' = IF At(c, "verify") /\ verdict = "yes" THEN vouched \cup {c} ELSE vouched
    /\ CASE conn[c].pc # "verify" -> UNCHANGED conn
         [] conn[c].pc = "verify" /\ verdict = "yes" -> Goto(c, "read")
         [] OTHER -> Fail(c, "Handshake", "client")
    /\ UNCHANGED <<mode, next_conn_id, loop, permits, counters, swap, upkeep, teardown>>

\* The CONNECT request is read, still within accept: accept returns.
ReadRequest(c) ==
    /\ At(c, "read") /\ Goto(c, "request")
    /\ UNCHANGED <<mode, next_conn_id, loop, permits, slots, verifying, vouched, counters, swap,
                   upkeep, teardown>>

\* Mutant: the deadline is disarmed once the credentials were accepted.
DeadlineOnAuth(c) ==
    /\ At(c, "handshake") \/ At(c, "verify")
    /\ Fail(c, "Handshake", "client")
    /\ UNCHANGED <<mode, next_conn_id, loop, permits, slots, verifying, vouched, counters, swap,
                   upkeep, teardown>>

\* The absolute handshake deadline, or a protocol error before it, up to the end of
\* the CONNECT request; a running verification is detached and keeps its slot.
HandshakeFails(c) ==
    /\ At(c, "handshake") \/ At(c, "verify") \/ At(c, "read")
    /\ Fail(c, "Handshake", "client")
    /\ UNCHANGED <<mode, next_conn_id, loop, permits, slots, verifying, vouched, counters, swap,
                   upkeep, teardown>>

\* An authority that does not parse, a gate that refuses (onion policy, the
\* account's client ACL), or on to the egress: the tunnel is read from the
\* slot, where the drain leaves none.
Request(c) ==
    /\ At(c, "request")
    /\ \/ Fail(c, "Handshake", "client") /\ UNCHANGED <<permits, vouched, counters>>
       \/ Release(c, "silent") /\ UNCHANGED <<count, reported>>
       \/ /\ mode.egress = "upstream" \/ tunnel
          /\ Goto(c, "connecting") /\ UNCHANGED <<permits, vouched, counters>>
       \/ /\ mode.egress = "tor" /\ ~tunnel
          /\ Fail(c, "Connect", "other") /\ Bump({"connect_failed"})
          /\ UNCHANGED <<permits, vouched, pending>>
    /\ UNCHANGED <<mode, next_conn_id, loop, slots, verifying, swap, upkeep, teardown>>

Connect(c) ==
    /\ At(c, "connecting")
    /\ \/ Goto(c, "reply") /\ Bump({"connect_ok"})
       \/ /\ Fail(c, "Connect", IF mode.egress = "tor" THEN "tor" ELSE "other")
          /\ Bump({"connect_failed"})
    /\ UNCHANGED <<mode, next_conn_id, loop, permits, slots, verifying, vouched, pending, swap,
                   upkeep, teardown>>

\* The Established reply carries no stage tag when it fails.
Reply(c) ==
    /\ At(c, "reply")
    /\ \/ Goto(c, "relay")
       \/ \E kind \in {"client", "other"} : Fail(c, "Other", kind)
    /\ UNCHANGED <<mode, next_conn_id, loop, permits, slots, verifying, vouched, counters, swap,
                   upkeep, teardown>>

\* The early bytes and both directions are copied.
Relay(c) ==
    /\ At(c, "relay")
    /\ \/ Release(c, "closed") /\ Bump({"relay_closed"})
       \/ \E kind \in {"relay", "other"} :
             Fail(c, "Relay", kind) /\ UNCHANGED <<permits, vouched, counters>>
    /\ UNCHANGED <<mode, next_conn_id, loop, slots, verifying, swap, upkeep, teardown>>

ErrorCounter ==
    [client |-> "client_errors", tor |-> "tor_errors",
     relay |-> "relay_errors", other |-> "other_errors"]

\* record_failure, then the permit and the guard are dropped.
Report(c) ==
    /\ At(c, "failed")
    /\ Bump({ErrorCounter[conn[c].kind]}
             \cup (IF conn[c].stage = "Connect" THEN {"connect_failed"} ELSE {}))
    /\ Release(c, conn[c].kind)
    /\ UNCHANGED <<mode, next_conn_id, loop, slots, verifying, swap, upkeep, teardown>>

\* A panic unwinds through the permit and the guard and reports nothing.
Panic(c) ==
    /\ Running /\ c \in Tasks
    /\ Release(c, "silent")
    /\ UNCHANGED <<mode, next_conn_id, loop, slots, verifying, count, reported, swap, upkeep, teardown>>

-----------------------------------------------------------------------------
(* The producers: a biased select on the token before each iteration, an   *)
(* operation that may read the tunnel, and one store update.               *)

Tick(p) ==
    /\ Running /\ prod[p] = "idle" /\ ~cancelled
    /\ prod' = [prod EXCEPT ![p] = "working"]
    /\ UNCHANGED <<mode, admission, counters, swap, rejected, teardown>>

\* The update is accepted by an open writer; without a tunnel the iteration
\* may end with nothing to write.
Work(p) ==
    /\ Running /\ prod[p] = "working"
    /\ prod' = [prod EXCEPT ![p] = "idle"]
    /\ \/ rejected' = IF writer THEN rejected ELSE rejected \cup {p}
       \/ ~tunnel /\ UNCHANGED rejected
    /\ UNCHANGED <<mode, admission, counters, swap, teardown>>

ProducerEnds(p) ==
    /\ Running /\ prod[p] = "idle" /\ cancelled
    /\ prod' = [prod EXCEPT ![p] = "done"]
    /\ UNCHANGED <<mode, admission, counters, swap, rejected, teardown>>

-----------------------------------------------------------------------------
(* run_server after the accept loops, and shutdown_producers.              *)

\* The shutdown signal: the loops are dropped with what they hold.
Stop ==
    /\ main = "serving"
    /\ main' = IF mode.egress = "tor" THEN "cancel" ELSE "exited"
    /\ conn' = [c \in Conns |-> IF conn[c].pc = "waiting" THEN Task("refused") ELSE conn[c]]
    /\ loop' = [l \in Listeners |-> Nobody]
    /\ UNCHANGED <<mode, next_conn_id, permits, slots, verifying, vouched, counters, swap,
                   upkeep, tunnel, cancelled, writer, abandoned>>

Cancel ==
    /\ main = "cancel"
    /\ cancelled' = TRUE /\ main' = "drain"
    /\ UNCHANGED <<mode, admission, counters, swap, upkeep, tunnel, writer, abandoned>>

Drain ==
    /\ main = "drain"
    /\ tunnel' = FALSE /\ main' = "join"
    /\ UNCHANGED <<mode, admission, counters, swap, upkeep, cancelled, writer, abandoned>>

Unfinished == {p \in Producers : prod[p] # "done"}

\* Mutant: the join waits only for the producers that are idle.
JoinIdle ==
    /\ main = "join" /\ \A p \in Producers : prod[p] # "idle"
    /\ main' = "close"
    /\ UNCHANGED <<mode, admission, counters, swap, upkeep, tunnel, cancelled, writer,
                   abandoned>>

Join ==
    /\ main = "join" /\ Unfinished = {}
    /\ main' = "close"
    /\ UNCHANGED <<mode, admission, counters, swap, upkeep, tunnel, cancelled, writer,
                   abandoned>>

\* Mutant: the join has no budget.
NoJoinTimeout == main # main /\ UNCHANGED vars

JoinTimeout ==
    /\ main = "join" /\ Unfinished # {}
    /\ abandoned' = Unfinished /\ main' = "close"
    /\ UNCHANGED <<mode, admission, counters, swap, upkeep, tunnel, cancelled, writer>>

Close ==
    /\ main = "close"
    /\ writer' = FALSE /\ main' = "bye"
    /\ UNCHANGED <<mode, admission, counters, swap, upkeep, tunnel, cancelled, abandoned>>

\* run_server returns; tasks still running end with the runtime.
Exit ==
    /\ main = "bye"
    /\ main' = "exited"
    /\ UNCHANGED <<mode, admission, counters, swap, upkeep, tunnel, cancelled, writer,
                   abandoned>>

TearDown == Cancel \/ Drain \/ Join \/ JoinTimeout \/ Close \/ Exit

ConnStep(c) ==
    \/ Handshake(c) \/ ReadRequest(c) \/ HandshakeFails(c) \/ Request(c)
    \/ \E verdict \in {"yes", "no", "panic"} : VerifyEnds(c, verdict)
    \/ Connect(c) \/ Reply(c) \/ Relay(c) \/ Report(c) \/ Panic(c)

Next ==
    \/ \E l \in Listeners : Accept(l) \/ Admit(l)
    \/ \E c \in Conns : ConnStep(c)
    \/ Swap
    \/ \E p \in Producers : Tick(p) \/ Work(p) \/ ProducerEnds(p)
    \/ Stop \/ TearDown

Spec == Init /\ [][Next]_vars

\* What a connection task does without waiting for anybody.
OwnStep(c) == HandshakeFails(c) \/ Request(c) \/ Report(c)

(* The deadline timer fires, a failed task reports, a request that was     *)
(* read is acted on, an accept loop takes a free permit, and run_server    *)
(* goes on once it was told to stop: the runtime polls what is ready.      *)
(* Clients, verifications, the egress and the producers may hang for ever. *)
FairSpec ==
    /\ Spec
    /\ \A c \in Conns : WF_vars(OwnStep(c))
    /\ \A l \in Listeners : WF_vars(Admit(l))
    /\ WF_vars(TearDown)

-----------------------------------------------------------------------------
ConnTask ==
    [pc : Live \cup {"client", "waiting", "refused", "done"},
     stage : {"none", "Handshake", "Connect", "Relay", "Other"},
     kind : {"none", "client", "tor", "relay", "other", "closed", "silent"}]

(* The state of the server is of the right shape.                          *)
TypeOK ==
    /\ mode \in Modes
    /\ main \in {"serving", "cancel", "drain", "join", "close", "bye", "exited"}
    /\ next_conn_id \in 1..(MaxConns + 1)
    /\ loop \in [Listeners -> Conns \cup {Nobody}]
    /\ conn \in [Conns -> ConnTask]
    /\ permits \in 0..MaxPermits /\ slots \in 0..MaxVerifications
    /\ verifying \subseteq Conns /\ vouched \subseteq Conns
    /\ count \in [Counters -> Nat] /\ reported \in [Counters -> Nat]
    /\ pending \in Nat /\ swap \in 1..Len(CounterOrder)
    /\ {tunnel, cancelled, writer} \subseteq BOOLEAN
    /\ prod \in [Producers -> {"idle", "working", "done"}]
    /\ abandoned \subseteq Producers /\ rejected \subseteq Producers

(* Admission is exact however a task ends (reply, error, deadline, panic): *)
(* every permit is free or held by one live task, the pending gauge counts *)
(* those tasks, and the verifications that really run, the ones detached   *)
(* by the deadline included, never exceed their slots.                     *)
Conserved ==
    /\ TypeOK
    /\ permits + Cardinality(Tasks) = MaxPermits
    /\ pending = Cardinality(Tasks)
    /\ slots + Cardinality(verifying) = MaxVerifications

(* With users configured, a connection comes to the gates and the egress   *)
(* only when its own verification said yes: saturation, a panic of the     *)
(* verifier and a late verdict all refuse.                                 *)
FailClosed ==
    mode.auth =>
        \A c \in Conns :
            conn[c].pc \in {"read", "request", "connecting", "reply", "relay"} => c \in vouched

Started == {c \in Conns : conn[c].pc \in Live \cup {"done"}}
Ended(kind) == {c \in Conns : conn[c].pc = "done" /\ conn[c].kind = kind}

\* What the summaries logged so far and the one to come say of a counter.
Total(k) == reported[k] + count[k]

(* However a summary, which swaps one counter after the other, races the   *)
(* tasks: over all summaries every connection that was started appears     *)
(* once, and every end appears once and under its own class: a clean close *)
(* as relay_closed, each classified failure in its error counter, and a    *)
(* panic or a refused request in none of them.                             *)
EveryEndReported ==
    /\ Total("started") = Cardinality(Started)
    /\ Total("relay_closed") = Cardinality(Ended("closed"))
    /\ \A kind \in DOMAIN ErrorCounter : Total(ErrorCounter[kind]) = Cardinality(Ended(kind))

(* "Nobody can write after this close": a store update meets a closed      *)
(* writer only if its producer outlived the join budget.                   *)
WriterLast == rejected \subseteq abandoned

Greeting == {c \in Conns : conn[c].pc \in {"handshake", "verify", "read", "request", "failed"}}

(* However clients stall between the first byte and the end of the CONNECT *)
(* request, and however long verifications take, they keep nobody out:     *)
(* their handshakes end, and a connection that waits for a permit gets     *)
(* one, unless connections past the handshake hold all of them or the      *)
(* server stops.                                                           *)
HandshakeEnds ==
    \A c \in Conns :
        /\ (c \in Greeting) ~> (c \notin Greeting \/ main = "exited")
        /\ (conn[c].pc = "waiting")
             ~> (conn[c].pc # "waiting" \/ Cardinality(Tasks \ Greeting) = MaxPermits)

(* Once told to stop the server exits, whatever hangs.                     *)
ShutdownEnds == (main = "cancel") ~> (main = "exited")

(* The completion cohort connect_ok + connect_failed counts connections:   *)
(* it never exceeds the connections that were started.                     *)
CompletesOnce == Total("connect_ok") + Total("connect_failed") <= Cardinality(Started)

=============================================================================
