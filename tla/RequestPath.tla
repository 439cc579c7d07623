----------------------------- MODULE RequestPath -----------------------------
(***************************************************************************)
(* The way of a request in the centralised mode: a component of the        *)
(* simulation asks its proxy, the proxy's client library asks the server,  *)
(* and the answer comes back, or does not.  Services REGISTER themselves;  *)
(* a gate resolves the task with QUERY, retries, and falls back on the     *)
(* address it cached.                                                      *)
(*                                                                         *)
(* Both hops can lose a message, the second can duplicate one over UDP,    *)
(* and each end gives up alone.  A call is what the proxy does for one     *)
(* request, with a socket of its own towards the server; its name is used  *)
(* again when nothing of it is left.  A tick is longer than any request    *)
(* with its retries (less than 33 s), so none is under way when one ends.  *)
(* The proxy's counters are left out.                                      *)
(***************************************************************************)
EXTENDS Integers, FiniteSets

CONSTANTS
    Services,       \* addresses offering the task
    Allowed,        \* those the firewall allows the proxy to use
    Taps,           \* concurrent taps at the gate
    Calls,          \* bound: calls that exist at a time
    Setups,         \* protocol, fallback address, capacities asked for, actors,
                    \* services that use another proxy
    MaxConcurrent,  \* the server's limit on handlers
    MaxAttempts,    \* attempts of a tap
    CacheTTL,       \* two minutes, in ticks
    MaxDuplicates,  \* bound: duplicated datagrams
    None

ASSUME PathAssumption ==
    /\ Allowed \subseteq Services /\ Services \cap Taps = {}
    /\ None \notin Services \cup Calls \cup {"REGISTER", "QUERY"}
    /\ CacheTTL \in Nat \ {0}
    /\ \A s \in Setups : s.capacities \subseteq Int

Clients == Services \cup Taps
Fallbacks == {s.fallback : s \in Setups}

\* setup: TDS_SERVER_PROTO, the gate's flag, what services ask for and which
\* components use this proxy or another, fixed at the start.  client: what the components
\* do.  call: what the proxy does.  wire, handling: requests on the way to the
\* server and in its handlers.  directory: the capacity registered for each
\* service, 0 for none.  cache: the gate's cachedAddr.  offered: history, ticks
\* since the server last gave an address to anybody.
VARIABLES setup, client, call, wire, handling, duplicates, directory, cache,
          offered

proto == setup.proto
fallback == setup.fallback
serverVars == <<wire, handling, duplicates, directory, offered>>
vars == <<setup, client, call, serverVars, cache>>

Free == [pc |-> "free", command |-> None, address |-> None, capacity |-> 0,
         status |-> None, seen |-> {}, given |-> 0]
Over(c) == [c EXCEPT !.pc = "over", !.status = None, !.seen = {}, !.given = 0]
NoAnswer == [status |-> None, address |-> None, seen |-> {}, given |-> 0]
Idle == [pc |-> "idle", call |-> None, attempt |-> 0, status |-> None,
         base |-> None, from |-> None]
NoCache == [value |-> None, age |-> CacheTTL]

Init ==
    /\ setup \in Setups
    /\ client = [c \in Clients |-> Idle]
    /\ call = [i \in Calls |-> Free]
    /\ wire = {} /\ handling = {} /\ duplicates = 0
    /\ directory = [s \in Services |-> 0]
    /\ cache = NoCache
    /\ offered = [s \in Services |-> CacheTTL]

-----------------------------------------------------------------------------
\* The components.

\* roundTripJSON sends a request to the proxy.
Ask(c, i, request) ==
    /\ call[i] = Free
    /\ call' = [call EXCEPT ![i] = request]
    /\ UNCHANGED <<setup, serverVars, cache>>

Register(s, i) ==
    /\ s \in setup.actors /\ client[s].pc = "idle"
    /\ client' = [client EXCEPT ![s] = [Idle EXCEPT !.pc = "waiting", !.call = i]]
    /\ \E capacity \in setup.capacities :
          Ask(s, i, [Free EXCEPT !.pc = "asked", !.command = "REGISTER",
                                 !.address = s, !.capacity = capacity])

\* A tap, or its next attempt.
Query(t, i) ==
    /\ t \in setup.actors /\ client[t].pc \in {"idle", "retry"}
    /\ client' = [client EXCEPT ![t] = [Idle EXCEPT
           !.pc = "waiting", !.call = i, !.attempt = client[t].attempt + 1]]
    /\ Ask(t, i, [Free EXCEPT !.pc = "asked", !.command = "QUERY"])

\* The proxy's answer arrives, or the component stops waiting.  A tap holds OK
\* with an address, NOTFOUND, ERR or a timeout; a service tries again at its
\* next refresh, whatever it heard.
Hear(c, status, base) ==
    client' = [client EXCEPT ![c] =
        IF c \in Services THEN Idle
        ELSE [@ EXCEPT !.pc = "heard", !.call = None, !.status = status, !.base = base]]

Answered(c) ==
    LET i == client[c].call
    IN  /\ client[c].pc = "waiting" /\ call[i].pc = "answered"
        /\ Hear(c, call[i].status, call[i].address)
        /\ call' = [call EXCEPT ![i] = Over(@)]
        /\ UNCHANGED <<setup, serverVars, cache>>

TimesOut(c) ==
    /\ client[c].pc = "waiting"
    /\ Hear(c, "timeout", None)
    /\ UNCHANGED <<setup, call, serverVars, cache>>

\* isRetryableResolveErr: a server that answers FORBIDDEN over TLS is not asked
\* again.
isRetryableResolveErr(status) == status \in {"NOTFOUND", "timeout"}

\* The tap ends with a base address, and where it comes from.
Resolve(t, base, from) ==
    client' = [client EXCEPT ![t] = [@ EXCEPT !.pc = "done", !.base = base, !.from = from]]

CacheAnswer(t) ==
    /\ client[t].pc = "heard" /\ client[t].status = "OK"
    /\ cache' = [value |-> client[t].base, age |-> 0]
    /\ Resolve(t, client[t].base, "query")
    /\ UNCHANGED <<setup, call, serverVars>>

Retry(t) ==
    /\ client[t].pc = "heard" /\ client[t].status # "OK"
    /\ isRetryableResolveErr(client[t].status) /\ client[t].attempt < MaxAttempts
    /\ client' = [client EXCEPT ![t].pc = "retry"]
    /\ UNCHANGED <<setup, call, serverVars, cache>>

GivesUp(t) ==
    /\ client[t].pc = "heard" /\ client[t].status # "OK"
    /\ ~isRetryableResolveErr(client[t].status) \/ client[t].attempt = MaxAttempts
    /\ UNCHANGED <<setup, call, serverVars>>

FallBackRefreshing(t) ==
    /\ GivesUp(t)
    /\ IF cache.value # None /\ cache.age < CacheTTL
       THEN Resolve(t, cache.value, "cache") /\ cache' = [cache EXCEPT !.age = 0]
       ELSE Resolve(t, fallback, IF fallback = None THEN "error" ELSE "flag")
            /\ UNCHANGED cache

\* The cached address if it is fresh, the flag, or the last error.
FallBack(t) ==
    /\ GivesUp(t)
    /\ IF cache.value # None /\ cache.age < CacheTTL
       THEN Resolve(t, cache.value, "cache")
       ELSE Resolve(t, fallback, IF fallback = None THEN "error" ELSE "flag")
    /\ UNCHANGED cache

EndTap(t) ==
    /\ client[t].pc = "done"
    /\ client' = [client EXCEPT ![t] = Idle]
    /\ UNCHANGED <<setup, call, serverVars, cache>>

-----------------------------------------------------------------------------
\* The proxy and the client library.

Reply(i, status) ==
    call' = [call EXCEPT ![i] = [@ EXCEPT !.pc = "answered", !.status = status,
                                          !.seen = {}, !.given = 0]]

\* The datagram to the proxy is lost.  (When its answer is, the component times
\* out.)
HopLost(i) ==
    /\ call[i].pc = "asked"
    /\ call' = [call EXCEPT ![i] = Over(@)]
    /\ UNCHANGED <<setup, client, serverVars, cache>>

\* parseProxyRequest refuses a negative capacity.
Refuse(i) ==
    /\ call[i].pc = "asked" /\ call[i].capacity < 0
    /\ Reply(i, "ERR")
    /\ UNCHANGED <<setup, client, serverVars, cache>>

SentByEveryProtocol(i) == 1

\* RegisterUDPWithCapacity and RegisterTCPWithCapacity: no capacity means 1.
RegisterWithCapacity(i) == IF call[i].capacity = 0 THEN 1 ELSE call[i].capacity

\* RegisterTLS takes no capacity.
RegisterTLS(i) == 1

\* What the client library asks the server for.
SentCapacity(i) == IF proto = "tls" THEN RegisterTLS(i) ELSE RegisterWithCapacity(i)

\* handleCentralizedRequest.
Forward(i) ==
    /\ call[i].pc = "asked" /\ call[i].capacity >= 0
    /\ wire' = wire \cup {i}
    /\ call' = [call EXCEPT ![i].pc = "sent"]
    /\ UNCHANGED <<setup, client, handling, duplicates, directory,
                   offered, cache>>

\* The client library fails to connect, or its deadline passes.
BackendFails(i) ==
    /\ call[i].pc \in {"sent", "returning"}
    /\ Reply(i, "timeout")
    /\ UNCHANGED <<setup, client, serverVars, cache>>

UnderstoodAsMissing(status) == IF status = "FORBIDDEN" THEN "NOTFOUND" ELSE status

\* QueryUDP and QueryTCP return the address of an answer that is neither
\* NOTFOUND nor ERR, which for FORBIDDEN is empty; the proxy then says NOTFOUND.
QueryPlain(status) == IF status = "FORBIDDEN" THEN "NOTFOUND" ELSE status

\* QueryTLS makes an error of it.
QueryTLS(status) == IF status = "FORBIDDEN" THEN "ERR" ELSE status

Understood(status) == IF proto = "tls" THEN QueryTLS(status) ELSE QueryPlain(status)

Receive(i) ==
    /\ call[i].pc = "returning"
    /\ call' = [call EXCEPT ![i].pc = "answered", ![i].status = Understood(@)]
    /\ UNCHANGED <<setup, client, serverVars, cache>>

\* The name of a call is free again.
Recycle(i) ==
    /\ call[i].pc \in {"answered", "over"}
    /\ \A c \in Clients : client[c].call # i
    /\ i \notin wire \cup handling
    /\ call' = [call EXCEPT ![i] = Free]
    /\ UNCHANGED <<setup, client, wire, handling, duplicates, directory,
                   offered, cache>>

-----------------------------------------------------------------------------
\* The server.

\* A request gets a handler; a duplicated datagram stays on the wire.
Accept(i) ==
    /\ i \in wire /\ i \notin handling /\ Cardinality(handling) < MaxConcurrent
    /\ handling' = handling \cup {i}
    /\ \/ wire' = wire \ {i} /\ UNCHANGED duplicates
       \/ /\ proto = "udp" /\ duplicates < MaxDuplicates
          /\ duplicates' = duplicates + 1
          /\ UNCHANGED wire
    /\ UNCHANGED <<setup, client, call, directory, offered, cache>>

\* No handler is free for 100 ms, or the network loses the request.
Drop(i) ==
    /\ i \in wire
    /\ wire' = wire \ {i}
    /\ UNCHANGED <<setup, client, call, handling, duplicates,
                   directory, offered, cache>>

Registered == {s \in Services : directory[s] > 0}

Only(status) == [NoAnswer EXCEPT !.status = status]

\* handleQuery: an allowed service, FORBIDDEN when there are only others, or
\* NOTFOUND.
QueryAnswers ==
    LET ok(s) == [status |-> "OK", address |-> s, seen |-> Registered, given |-> 0]
        none(status) == [Only(status) EXCEPT !.seen = Registered]
    IN  IF Registered = {} THEN {none("NOTFOUND")}
        ELSE IF Registered \cap Allowed = {} THEN {none("FORBIDDEN")}
        ELSE {ok(s) : s \in Registered \cap Allowed}

ReturnsToAny(i) == {j \in Calls : call[j].pc = "sent"}

\* Who reads the answer: the socket of the request, unless it is closed or has
\* an answer already.
ReturnsTo(i) == {j \in {i} : call[j].pc = "sent"}

\* The answer of the server is on its way back; when it is lost, the client
\* library times out.
Return(i, a) ==
    \/ ReturnsTo(i) = {} /\ UNCHANGED call
    \/ \E j \in ReturnsTo(i) : call' = [call EXCEPT ![j] = [@ EXCEPT
          !.pc = "returning", !.status = a.status, !.seen = a.seen, !.given = a.given,
          !.address = IF a.address = None THEN call[j].address ELSE a.address]]

HandleMessage(i) ==
    /\ i \in handling
    /\ handling' = handling \ {i}
    /\ \/ /\ call[i].command = "REGISTER"
          /\ directory' = [directory EXCEPT ![call[i].address] = SentCapacity(i)]
          /\ Return(i, [Only("OK") EXCEPT !.given = SentCapacity(i)])
          /\ UNCHANGED offered
       \/ /\ call[i].command = "QUERY"
          /\ \E a \in QueryAnswers :
                /\ Return(i, a)
                /\ offered' = [s \in Services |-> IF s = a.address THEN 0 ELSE offered[s]]
          /\ UNCHANGED directory
    /\ UNCHANGED <<setup, client, wire, duplicates, cache>>

\* Other services come through other proxies.
RegisterElsewhere(s) ==
    /\ s \in setup.others /\ directory[s] = 0
    /\ directory' = [directory EXCEPT ![s] = 1]
    /\ UNCHANGED <<setup, client, call, wire, handling, duplicates,
                   offered, cache>>

\* The heartbeat timeout removes a service.
Forget(s) ==
    /\ directory[s] > 0
    /\ directory' = [directory EXCEPT ![s] = 0]
    /\ UNCHANGED <<setup, client, call, wire, handling, duplicates,
                   offered, cache>>

Older(age) == IF age < CacheTTL THEN age + 1 ELSE CacheTTL

Tick ==
    /\ \A c \in Clients : client[c].pc = "idle"
    /\ \A i \in Calls : call[i] = Free
    /\ cache.age < CacheTTL
    /\ cache' = [cache EXCEPT !.age = Older(@)]
    /\ offered' = [s \in Services |-> Older(offered[s])]
    /\ UNCHANGED <<setup, client, call, wire, handling, duplicates,
                   directory>>

-----------------------------------------------------------------------------
Tap(t) == CacheAnswer(t) \/ Retry(t) \/ FallBack(t) \/ EndTap(t)

Proxy(i) == Refuse(i) \/ Forward(i) \/ BackendFails(i) \/ Receive(i) \/ Recycle(i)

Next ==
    \/ \E s \in Services, i \in Calls : Register(s, i)
    \/ \E t \in Taps, i \in Calls : Query(t, i)
    \/ \E c \in Clients : Answered(c) \/ TimesOut(c)
    \/ \E s \in Services : RegisterElsewhere(s) \/ Forget(s)
    \/ \E t \in Taps : Tap(t)
    \/ \E i \in Calls : Proxy(i) \/ HopLost(i)
    \/ \E i \in Calls : Accept(i) \/ Drop(i) \/ HandleMessage(i)
    \/ Tick

Spec == Init /\ [][Next]_vars

-----------------------------------------------------------------------------
\* What the proxy tells a component about a REGISTER that succeeded was done
\* for that very request, with the capacity it asks for; over TLS with
\* capacity 1.  Late and duplicated answers to other requests never count,
\* because every call of the client library has a socket of its own.
OkWasApplied ==
    \A i \in Calls :
        call[i].pc = "answered" /\ call[i].status = "OK" /\ call[i].command = "REGISTER"
            => \/ call[i].given = call[i].capacity
               \/ call[i].given = 1 /\ (call[i].capacity = 0 \/ proto = "tls")

\* NOTFOUND for a QUERY means that when the server looked, no service was
\* registered; over UDP and TCP it may also mean that the firewall forbids all
\* of them, FORBIDDEN being lost in QueryUDP and QueryTCP.  An address was
\* registered and allowed.
QueryExplained ==
    \A i \in Calls :
        call[i].pc = "answered" /\ call[i].command = "QUERY" =>
            /\ call[i].status = "OK" => call[i].address \in call[i].seen \cap Allowed
            /\ call[i].status = "NOTFOUND" =>
                  /\ call[i].seen \cap Allowed = {}
                  /\ proto = "tls" => call[i].seen = {}

\* Unless it is the flag's, the base address a tap ends with is one the server
\* gave less than two minutes ago: concurrent taps share the cache, and no
\* use of it prolongs it.
ResolvedIsRecent ==
    \A t \in Taps :
        client[t].pc = "done" /\ client[t].from \in {"query", "cache"}
            => client[t].base \in Allowed /\ offered[client[t].base] < CacheTTL
=============================================================================
