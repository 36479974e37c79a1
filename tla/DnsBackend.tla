----------------------------- MODULE DnsBackend -----------------------------
(* Where the answer of a miss comes from: the ordered DoH providers behind  *)
(* the tunnel, one configured server, or the servers of the operating       *)
(* system, whose list is read by a gated blocking worker.  A caller may be  *)
(* dropped at any await; every exchange belongs to its caller.              *)
EXTENDS Integers, Sequences, FiniteSets

CONSTANTS Lookups,    \* concurrent misses
          Servers,    \* plain DNS servers that may be configured
          Wildcard,   \* the endpoint of a listener bound to the unspecified address
          Loopback,   \* servers whose address is loopback or unspecified
          Deaf,       \* those that cannot be bound, connected or routed
          Providers   \* number of DoH providers

ASSUME Loopback \cup Deaf \subseteq Servers /\ Wildcard \notin Servers /\ Providers \in Nat

\* look: a miss.  list is what it still has to scan or try, usable what passed the
\* scan, seen the outcomes so far, given the list it read, known the endpoints of this
\* server it cloned when it began, since those published after that, saw the host's
\* addresses at its last probe.
\* permit: the one of CONFIG_READ_GATE, owned by a read; reads: blocking reads
\* scheduled and not finished.  config: what the operating system lists at the moment.
\* listening: the published endpoints, a server for a listener bound to its address.
\* here: the servers whose address is one of this host's, as its routes show.
\* asked: the queries sent: by whom, whether they reach this server itself, and whether
\* through a gap: a listener newer than the lookup, or addresses newer than the probe.
VARIABLES look, permit, reads, asked, config, listening, here, can
bvars == <<look, permit, reads, asked, config, listening, here, can>>

Start == [pc |-> "start", route |-> "none", list |-> <<>>, usable |-> <<>>, seen |-> <<>>, given |-> <<>>,
          known |-> {}, since |-> {}, saw |-> {}]
Answers == {"answer", "failure"}
\* What an exchange may return.  SERVFAIL is a well-formed but temporary answer.
Exchanged == {"answer", "servfail", "error"}
TemporaryResponse(what) == what = "servfail"
\* self_reference: an endpoint is bound to the server's address, or to every address and
\* the server is the host, by its own address or by the local one of the route.
SelfReference(s, endpoints, local) ==
    s \in endpoints \/ (Wildcard \in endpoints /\ s \in Loopback \cup local)
\* probe_upstream: recursion is told apart from a server that cannot be used, first by
\* the address alone and, once the socket is connected, by the route it has now.
ProbeUpstream(l, s) ==
    CASE SelfReference(s, look[l].known, {}) -> "self"
      [] s \in Deaf -> "transport"
      [] SelfReference(s, look[l].known, here) -> "self"
      [] OTHER -> "ok"

BackendInit(budgets) ==
    /\ can \in budgets
    /\ look = [l \in Lookups |-> IF l \in can.who THEN Start ELSE [Start EXCEPT !.pc = "dropped"]]
    /\ permit = {} /\ reads = {} /\ asked = {}
    /\ config \in can.configs /\ listening = can.bound /\ here = can.here

Set(l, e) == look' = [look EXCEPT ![l] = e]
End(l, pc) == Set(l, [Start EXCEPT !.pc = pc, !.route = look[l].route, !.seen = look[l].seen, !.given = look[l].given,
                                      !.known = look[l].known, !.since = look[l].since])

\* resolve_miss: the endpoints are cloned, once.  An override names a server or the
\* system; everything else needs the tunnel, without which there is no answer.
Choose(l) ==
    /\ look[l].pc = "start"
    /\ \E route \in can.routes :
         LET begun == [Start EXCEPT !.route = route, !.known = listening]
         IN \/ route = "server" /\ \E s \in Servers : Set(l, [begun EXCEPT !.pc = "probe", !.list = <<s>>])
            \/ route = "system" /\ Set(l, [begun EXCEPT !.pc = "gate"])
            \/ route = "pool" /\ \E pc \in {"pool", "failure"} : Set(l, [begun EXCEPT !.pc = pc])
    /\ UNCHANGED <<permit, reads, asked, config, listening, here, can>>

\* The caller's deadline, or the caller is dropped with the connection or server.
Drop(l) ==
    /\ look[l].pc \notin {"start", "dropped"} \cup Answers /\ can.drops > 0
    /\ can' = [can EXCEPT !.drops = @ - 1] /\ End(l, "dropped")
    /\ UNCHANGED <<permit, reads, asked, config, listening, here>>

-----------------------------------------------------------------------------
(* The system's servers.                                                    *)

\* schedule_config_read: the permit is waited for inside the caller's budget; with
\* it the blocking read is scheduled, which owns the permit until it is over.
TakePermit(l) ==
    /\ look[l].pc = "gate" /\ permit = {}
    /\ permit' = {l} /\ reads' = reads \cup {l} /\ Set(l, [look[l] EXCEPT !.pc = "config"])
    /\ UNCHANGED <<asked, config, listening, here, can>>
\* The read ends, for a caller that still waits or for none.
ReadEnds(l) ==
    /\ l \in reads /\ reads' = reads \ {l} /\ permit' = permit \ {l}
    /\ IF look[l].pc # "config" THEN UNCHANGED look
       ELSE \/ End(l, "failure")
            \/ config # <<>> /\ Set(l, [look[l] EXCEPT !.pc = "scan", !.list = config, !.given = config])
    /\ UNCHANGED <<asked, config, listening, here, can>>
\* The operating system's list changes.
Reconfigured ==
    /\ can.changes > 0 /\ can' = [can EXCEPT !.changes = @ - 1]
    /\ config' \in can.configs \ {config}
    /\ UNCHANGED <<look, permit, reads, asked, listening, here>>
\* A listener pair is recovered: its endpoint is published, for the lookups to come.
Recovered ==
    /\ \E e \in can.recovers :
        /\ listening' = listening \cup {e} /\ can' = [can EXCEPT !.recovers = @ \ {e}]
        /\ look' = [l \in Lookups |-> IF look[l].pc = "start" THEN look[l] ELSE [look[l] EXCEPT !.since = @ \cup {e}]]
    /\ UNCHANGED <<permit, reads, asked, config, here>>
\* The host gets or loses an address.
Readdressed ==
    /\ can.moves > 0 /\ can' = [can EXCEPT !.moves = @ - 1]
    /\ here' \in SUBSET can.moving \ {here}
    /\ UNCHANGED <<look, permit, reads, asked, config, listening>>

\* Every listed server is looked at before any query is sent: one that is this
\* listener ends the lookup, one that cannot be reached is left out.
Scan(l) ==
    /\ look[l].pc = "scan"
    /\ IF look[l].list = <<>> THEN Set(l, [look[l] EXCEPT !.pc = "probe", !.list = look[l].usable])
       ELSE LET s == Head(look[l].list)
            IN IF ProbeUpstream(l, s) = "self" THEN End(l, "failure")
               ELSE Set(l, [look[l] EXCEPT !.list = Tail(@),
                                           !.usable = IF ProbeUpstream(l, s) = "ok" THEN Append(@, s) ELSE @])
    /\ UNCHANGED <<permit, reads, asked, config, listening, here, can>>

-----------------------------------------------------------------------------
(* One server, for an override or for the next of the system's list.        *)

Rest(l) == [look[l] EXCEPT !.pc = "probe", !.list = Tail(@)]
Asked(l, s, saw) ==
    asked' = asked \cup {[by |-> l, self |-> SelfReference(s, listening, here),
                          gap |-> SelfReference(s, look[l].since, here) \/ saw # here]}
\* probe_upstream again, then the query.  A single server's failure is the answer.
Query(l) ==
    /\ look[l].pc = "probe"
    /\ IF look[l].list = <<>> THEN End(l, "failure") /\ UNCHANGED asked
       ELSE LET s == Head(look[l].list)
            IN IF ProbeUpstream(l, s) # "ok"
               THEN /\ UNCHANGED asked
                    /\ IF look[l].route = "server" THEN End(l, "failure") ELSE Set(l, Rest(l))
               ELSE Asked(l, s, here) /\ Set(l, [look[l] EXCEPT !.pc = "udp", !.saw = here])
    /\ UNCHANGED <<permit, reads, config, listening, here, can>>
\* A datagram that does not match the query is ignored; a valid one answers, or,
\* truncated, sends the query again over TCP, which nothing checks; the exchange may fail.
\* A temporary failure moves a traversal on and is the answer of a single server.
Taken(l, what) ==
    IF what # "error" /\ (TemporaryResponse(what) => look[l].route = "server")
    THEN Set(l, [look[l] EXCEPT !.pc = "answer", !.seen = Append(@, what), !.list = <<>>, !.usable = <<>>])
    ELSE IF look[l].route = "server" THEN End(l, "failure")
    ELSE Set(l, [Rest(l) EXCEPT !.seen = Append(@, what)])
Received(l) ==
    /\ look[l].pc = "udp"
    /\ \/ \E what \in Exchanged : Taken(l, what) /\ UNCHANGED asked
       \/ Set(l, [look[l] EXCEPT !.pc = "tcp"]) /\ Asked(l, Head(look[l].list), look[l].saw)
    /\ UNCHANGED <<permit, reads, config, listening, here, can>>
\* A stream cannot be truncated: an answer that says so is an error.
Streamed(l) ==
    /\ look[l].pc = "tcp" /\ \E what \in Exchanged : Taken(l, what)
    /\ UNCHANGED <<permit, reads, asked, config, listening, here, can>>

\* ordered_pool: one provider after the other within one budget, which may end
\* after any of them; only SERVFAIL and failures move on.
Provider(l) ==
    /\ look[l].pc = "pool"
    /\ \/ Len(look[l].seen) = Providers /\ End(l, "failure")
       \/ /\ Len(look[l].seen) < Providers
          /\ \E what \in Exchanged, late \in BOOLEAN :
               Set(l, [look[l] EXCEPT !.seen = Append(@, what),
                         !.pc = IF what = "answer" THEN "answer" ELSE IF late THEN "failure" ELSE "pool"])
    /\ UNCHANGED <<permit, reads, asked, config, listening, here, can>>

LookSteps(l) ==
    \/ Choose(l) \/ TakePermit(l) \/ ReadEnds(l) \/ Scan(l) \/ Query(l)
    \/ Received(l) \/ Streamed(l) \/ Provider(l)
BackendSteps == \E l \in Lookups : LookSteps(l)
BackendNext == BackendSteps \/ Reconfigured \/ Recovered \/ Readdressed \/ \E l \in Lookups : Drop(l)

-----------------------------------------------------------------------------
\* One read of the system's configuration runs at a time, also when the callers
\* that asked for it are gone, and the permit is never lost.
OneRead == Cardinality(reads) <= 1 /\ permit = reads

\* The server asks itself only through one of two gaps: the listener that the query
\* reaches was published after the lookup had cloned the endpoints, or the host's
\* addresses changed between the probe and the repetition over TCP.  The lookup that such
\* a query starts here begins after the publication and does not ask on: there is no
\* loop.  And a traversal that was given an address of this server as it knew it sent
\* nothing at all, wherever in the list it stood.
NoLoop ==
    /\ \A a \in asked : a.self => a.gap
    /\ \A l \in Lookups :
         (\E i \in DOMAIN look[l].given : SelfReference(look[l].given[i], look[l].known, {})) => \A a \in asked : a.by # l

\* A traversal that answers tried its servers or providers in order: all before
\* the answering one failed or were temporary.
OrderedAnswer ==
    \A l \in Lookups :
        (look[l].pc = "answer" /\ look[l].route # "server") =>
            /\ look[l].seen[Len(look[l].seen)] = "answer"
            /\ \A i \in 1..(Len(look[l].seen) - 1) : look[l].seen[i] # "answer"

BackendQuiet == reads = {} /\ \A l \in Lookups : look[l].pc \in {"dropped"} \cup Answers
=============================================================================
