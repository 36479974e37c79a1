----------------------------- MODULE DnsServer ------------------------------
(* The DNS server as one owned lifecycle: the listener pairs and the retry  *)
(* of addresses that are not there yet, admission of datagrams, TCP         *)
(* connections and background refreshes to the backend, periodic cache      *)
(* saves, and the order in which everything stops.  All of it is polled by  *)
(* one task, so a step between two awaits is atomic.                        *)
EXTENDS Integers, FiniteSets

CONSTANTS Addresses,    \* configured listen addresses
          Datagrams,    \* UDP questions that may be asked
          Streams,      \* TCP connections that may be opened
          Questions,
          Backend,      \* MAX_DNS_CONCURRENT_QUERIES
          Connections   \* MAX_TCP_CONNECTIONS

ASSUME DnsServerBounds == Backend > 1 /\ Connections > 0

\* binding: what the last bind attempt of an address said.  reach: whether the
\* address exists on this host.  endpoints: what the recursion guard knows.
\* work: the requests the loops own.  refused: a miss turned away for want of a
\* permit.  cache and file: the questions with an answer in memory and on disk.
\* save: the one active publication.  more: what may still happen.
VARIABLES phase, binding, reach, endpoints, permits, slots, work, refused,
          prefetch, cache, file, save, kept, more
dvars == <<phase, binding, reach, endpoints, permits, slots, work, refused,
           prefetch, cache, file, save, kept, more>>

Requests == Datagrams \cup Streams
Unasked == [pc |-> "none", q |-> "none", at |-> "none"]
Holding == {r \in Requests : work[r].pc = "resolve"}
Loops == {a \in Addresses : binding[a] = "bound" /\ phase = "serve"}
WorkOf(a, kind) == {r \in kind : work[r].at = a /\ work[r].pc # "none"}

ServerInit(scenarios) ==
    /\ more \in scenarios
    /\ phase = IF more.on THEN "bind" ELSE "exit"
    /\ binding = [a \in Addresses |-> "unbound"] /\ reach = more.reach /\ endpoints = {}
    /\ permits = Backend /\ slots = Connections /\ work = [r \in Requests |-> Unasked] /\ refused = 0
    /\ prefetch = [pc |-> "off", q |-> "none"]
    /\ cache = {} /\ file = {} /\ save = [pc |-> "none", snap |-> {}] /\ kept = TRUE

-----------------------------------------------------------------------------
(* Listeners.                                                               *)

NetworkOnly == UNCHANGED <<permits, slots, refused, cache, file, save, kept>>

\* bind_pair: both halves, or the error of one of them, which drops the other.
BindPair(a) == IF a \in reach THEN {"ok"} \cup more.trouble ELSE {"no_address"}
\* skipped_bind_reason: a port that is taken or forbidden is left out, an address
\* that does not exist is retried, any other error is fatal.
BindVerdict(result) ==
    CASE result = "ok" -> "bound"
      [] result \in {"in_use", "denied"} -> "skipped"
      [] result = "no_address" -> "retry"
      [] OTHER -> "error"
PublishEndpoints(pairs) == endpoints' = endpoints \cup pairs
\* bind_listeners: a fatal error, or no pair at all, fails the start.
BindListeners ==
    /\ phase = "bind"
    /\ \E got \in [Addresses -> {"bound", "skipped", "retry", "error"}] :
         /\ \A a \in Addresses : got[a] \in {BindVerdict(r) : r \in BindPair(a)}
         /\ LET ok == {a \in Addresses : got[a] = "bound"}
            IN IF ok = {} \/ \E a \in Addresses : got[a] = "error"
               THEN phase' = "exit" /\ UNCHANGED <<binding, endpoints, prefetch>>
               ELSE /\ phase' = "serve" /\ binding' = got /\ PublishEndpoints(ok)
                    /\ prefetch' = [prefetch EXCEPT !.pc = IF more.statistics THEN "idle" ELSE "off"]
    /\ UNCHANGED <<reach, work, more>> /\ NetworkOnly

\* The interface with the address comes up.
AddressAppears(a) ==
    /\ a \notin reach /\ more.appear /\ reach' = reach \cup {a}
    /\ UNCHANGED <<phase, binding, endpoints, work, prefetch, more>> /\ NetworkOnly

\* retry_listener_pair, owned by networking: after the delay the pair is bound,
\* published to the recursion guard and only then served; a failed attempt
\* changes nothing and is repeated.
RetryPair(a) ==
    /\ phase = "serve" /\ binding[a] = "retry" /\ a \in reach
    /\ PublishEndpoints({a}) /\ binding' = [binding EXCEPT ![a] = "bound"]
    /\ UNCHANGED <<phase, reach, work, prefetch, more>> /\ NetworkOnly

-----------------------------------------------------------------------------
(* Requests.  An answer from the local policy or the cache is given inline. *)

RequestOnly == UNCHANGED <<phase, binding, reach, endpoints, prefetch, file, save, kept>>

\* A miss: refused when the loop already owns Backend of them, or without a permit.
Miss(r, a, q) ==
    IF permits = 0 \/ (r \in Datagrams /\ Cardinality(WorkOf(a, Datagrams)) >= Backend)
    THEN /\ refused' = IF permits = 0 THEN refused + 1 ELSE refused
         /\ work' = [work EXCEPT ![r].pc = IF r \in Datagrams THEN "none" ELSE "write"]
         /\ UNCHANGED permits
    ELSE /\ permits' = permits - 1
         /\ work' = [work EXCEPT ![r] = [pc |-> "resolve", q |-> q, at |-> a]] /\ UNCHANGED refused

\* One datagram.  A client outside the access list and a packet that does not
\* parse get no answer; unsupported requests and empty questions get an error,
\* a cached or local question its answer: none of them needs the backend.
UdpQuestion(r, a) ==
    /\ a \in Loops /\ r \in Datagrams /\ work[r].pc = "none" /\ more.asks > 0
    /\ more' = [more EXCEPT !.asks = @ - 1]
    /\ \E q \in Questions : q \notin cache /\ Miss(r, a, q)
    /\ UNCHANGED <<slots, cache>> /\ RequestOnly

\* accept: the access list, the loop's own limit and the shared one.
TcpAccept(r, a) ==
    /\ a \in Loops /\ r \in Streams /\ work[r].pc = "none" /\ slots > 0 /\ more.asks > 0
    /\ more' = [more EXCEPT !.asks = @ - 1]
    /\ slots' = slots - 1 /\ work' = [work EXCEPT ![r] = [pc |-> "read", q |-> "none", at |-> a]]
    /\ UNCHANGED <<permits, refused, cache>> /\ RequestOnly

\* A frame is read: answered inline, refused, or resolved; a bad frame, the end
\* of the stream, a read deadline or the connection's lifetime close it.
TcpFrame(r) ==
    /\ work[r].pc = "read" /\ r \in Streams /\ more.asks > 0
    /\ more' = [more EXCEPT !.asks = @ - 1]
    /\ \E q \in Questions :
         IF q \in cache THEN work' = [work EXCEPT ![r].pc = "write"] /\ UNCHANGED <<permits, refused>>
         ELSE Miss(r, work[r].at, q)
    /\ UNCHANGED <<slots, cache>> /\ RequestOnly
TcpClose(r) ==
    /\ r \in Streams /\ work[r].pc # "none"
    /\ work' = [work EXCEPT ![r] = Unasked] /\ slots' = slots + 1
    /\ permits' = permits + IF r \in Holding THEN 1 ELSE 0
    /\ UNCHANGED <<refused, cache, more>> /\ RequestOnly

\* resolve_miss under its absolute deadline: a complete answer is cached before
\* the permit goes back, an error or the deadline caches nothing.  A datagram is
\* answered and forgotten, a stream writes its frame and reads the next.
Resolved(r) ==
    /\ work[r].pc = "resolve" /\ permits' = permits + 1
    /\ \/ cache' = cache \cup {work[r].q}
       \/ UNCHANGED cache
    /\ work' = [work EXCEPT ![r] = IF r \in Datagrams THEN Unasked ELSE [@ EXCEPT !.pc = "write", !.q = "none"]]
    /\ UNCHANGED <<slots, refused, more>> /\ RequestOnly
TcpWrite(r) ==
    /\ work[r].pc = "write" /\ r \in Streams
    /\ work' = [work EXCEPT ![r].pc = "read"]
    /\ UNCHANGED <<permits, slots, refused, cache, more>> /\ RequestOnly

-----------------------------------------------------------------------------
(* The background refresh: one at a time, under one deadline.               *)

PrefetchOnly == UNCHANGED <<phase, binding, reach, endpoints, slots, work, refused, file, save, kept>>

RefreshAsked ==
    /\ prefetch.pc = "idle" /\ phase = "serve" /\ more.refreshes > 0
    /\ more' = [more EXCEPT !.refreshes = @ - 1]
    /\ \E q \in Questions : prefetch' = [pc |-> "admit", q |-> q]
    /\ UNCHANGED <<cache, permits>> /\ PrefetchOnly
\* The mutation of taking a permit like a foreground question.
RefreshAdmittedAny ==
    /\ prefetch.pc = "admit" /\ permits > 0 /\ permits' = permits - 1
    /\ prefetch' = [prefetch EXCEPT !.pc = "resolve"]
    /\ UNCHANGED <<cache, more>> /\ PrefetchOnly
\* Two permits are taken at once and one is given back immediately.
RefreshAdmitted ==
    /\ prefetch.pc = "admit" /\ permits > 1 /\ permits' = (permits - 2) + 1
    /\ prefetch' = [prefetch EXCEPT !.pc = "resolve"]
    /\ UNCHANGED <<cache, more>> /\ PrefetchOnly
RefreshEnds ==
    /\ prefetch.pc \in {"admit", "resolve"}
    /\ \/ prefetch.pc = "resolve" /\ cache' = cache \cup {prefetch.q}
       \/ UNCHANGED cache
    /\ permits' = permits + IF prefetch.pc = "resolve" THEN 1 ELSE 0
    /\ prefetch' = [pc |-> "idle", q |-> "none"]
    /\ UNCHANGED more /\ PrefetchOnly

-----------------------------------------------------------------------------
(* Saves and the end.                                                       *)

EndOnly == UNCHANGED <<binding, reach, endpoints, refused, cache, more>>

\* The ticker starts a save only when none is active, until the lifecycle has
\* ended; the blocking worker snapshots the cache later, then publishes.
SaveTick ==
    /\ save.pc = "none" /\ more.saves > 0 /\ phase \in {"serve", "prefetch", "statistics"}
    /\ save' = [pc |-> "start", snap |-> {}] /\ more' = [more EXCEPT !.saves = @ - 1]
    /\ UNCHANGED <<phase, binding, reach, endpoints, permits, slots, work, refused, prefetch, cache, file, kept>>
SaveSnapshot ==
    /\ save.pc = "start" /\ save' = [pc |-> "write", snap |-> cache]
    /\ UNCHANGED <<phase, permits, slots, work, prefetch, file, kept>> /\ EndOnly
SavePublish ==
    /\ save.pc = "write" /\ save' = [pc |-> "none", snap |-> {}]
    /\ \/ file' = save.snap /\ kept' = TRUE
       \/ kept' = FALSE /\ file' \in {file, save.snap}
    /\ phase' = IF phase = "final" THEN "exit" ELSE phase
    /\ UNCHANGED <<permits, slots, work, prefetch>> /\ EndOnly

\* Shutdown, or networking that ended with an error: every loop, connection,
\* request and retry is dropped with its permits and slots.
StopNetworking ==
    /\ phase = "serve" /\ phase' = "prefetch"
    /\ work' = [r \in Requests |-> Unasked] /\ slots' = Connections
    /\ permits' = permits + Cardinality(Holding)
    /\ UNCHANGED <<prefetch, file, save, kept>> /\ EndOnly
\* The refresher is cancelled and awaited; its exchange is dropped.
StopPrefetch ==
    /\ phase = "prefetch" /\ phase' = "statistics" /\ prefetch' = [pc |-> "off", q |-> "none"]
    /\ permits' = permits + IF prefetch.pc = "resolve" THEN 1 ELSE 0
    /\ UNCHANGED <<slots, work, file, save, kept>> /\ EndOnly
\* The statistics worker is shut down and joined: the lifecycle has ended.
DrainStatistics ==
    /\ phase = "statistics" /\ phase' = "drain"
    /\ UNCHANGED <<permits, slots, work, prefetch, file, save, kept>> /\ EndOnly
\* The active save ends first, then the last one starts.
FinalSave ==
    /\ phase = "drain" /\ save.pc = "none"
    /\ phase' = "final" /\ save' = [pc |-> "start", snap |-> {}]
    /\ UNCHANGED <<permits, slots, work, prefetch, file, kept>> /\ EndOnly

ServerSteps ==
    \/ BindListeners \/ (\E a \in Addresses : RetryPair(a))
    \/ (\E r \in Requests : Resolved(r) \/ TcpWrite(r) \/ TcpClose(r)) \/ RefreshAdmitted \/ RefreshEnds
    \/ SaveSnapshot \/ SavePublish \/ StopPrefetch \/ DrainStatistics \/ FinalSave
ServerInputs ==
    \/ (\E a \in Addresses : AddressAppears(a) \/ \E r \in Requests : UdpQuestion(r, a) \/ TcpAccept(r, a))
    \/ (\E r \in Requests : TcpFrame(r)) \/ RefreshAsked \/ SaveTick \/ StopNetworking
ServerNext == ServerSteps \/ ServerInputs

-----------------------------------------------------------------------------
\* Permits and connection slots are neither lost nor made, whatever is dropped
\* where ("dropping the future releases the owned backend permit").
Permits ==
    /\ permits + Cardinality(Holding) + (IF prefetch.pc = "resolve" THEN 1 ELSE 0) = Backend
    /\ slots + Cardinality({r \in Streams : work[r].pc # "none"}) = Connections

\* The recursion guard knows every pair that is served, recovered ones too.
GuardCoversLoops == Loops \subseteq endpoints

\* Nothing outlives the phase that stops it, and a server that ended with its
\* last save published has every answer it ever cached on disk: no request or
\* refresh can add one behind the final snapshot.
StopsInOrder ==
    /\ phase \notin {"bind", "serve"} => \A r \in Requests : work[r] = Unasked
    /\ phase \in {"statistics", "drain", "final", "exit"} => prefetch.pc = "off"
    /\ (phase = "exit" /\ kept) => file = cache

\* The last free permit only ever goes to a foreground miss, so a refresh costs
\* clients one permit at most: a miss is refused for want of one only while
\* other misses hold all but one of them.
ForegroundFirst ==
    [][ /\ (permits > 0 /\ permits' = 0) => Cardinality(Holding') > Cardinality(Holding)
        /\ refused' # refused => Cardinality(Holding) >= Backend - 1 ]_dvars

\* A server told to stop ends; while it serves, no address that has appeared is
\* left waiting for its pair.
ServerQuiet == phase \in {"serve", "exit"} /\ \A a \in Addresses : phase = "serve" => ~(binding[a] = "retry" /\ a \in reach)
=============================================================================
