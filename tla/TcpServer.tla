------------------------------ MODULE TcpServer ------------------------------
(***************************************************************************)
(* The TCP server and its TLS variant: the accept loop, the goroutine that *)
(* closes everything when the context is cancelled, one goroutine per      *)
(* connection, and the semaphore that limits them.                         *)
(*                                                                         *)
(* A connection is used once.  sock is the server's end of it, peer tells  *)
(* whether the client's end is open, and unread whether a line waits to be *)
(* scanned.  The accept loop is a process with its place in `loop' and the *)
(* connection it works on in inHand; the closing goroutine is `sweeper'.   *)
(* The WaitGroup `handlers' is the set of goroutines that have not called  *)
(* Done.                                                                   *)
(***************************************************************************)
EXTENDS Naturals, FiniteSets

CONSTANTS
    Conns,          \* connections clients may open
    MaxHandlers,    \* maxConcurrent: weight of the semaphore, after the default
                    \* is applied
    NoConn

ASSUME ConnsAssumption == IsFiniteSet(Conns) /\ NoConn \notin Conns

ASSUME LimitAssumption == MaxHandlers \in Nat \ {0}

VARIABLES
    tls,          \* which of the two servers runs
    cancelled,    \* ctx.Done() is closed
    listening,    \* the listener is open
    sweeper, loop, inHand,
    sock, peer, unread,
    activeConns,  \* the map under connMu
    free,         \* weight left in the semaphore
    handler       \* place of each connection's goroutine

tcpVars == <<tls, cancelled, listening, sweeper, loop, inHand, sock, peer,
             unread, activeConns, free, handler>>

clientVars == <<peer, unread>>
closingVars == <<tls, cancelled, listening, sweeper>>

\* Places of a goroutine that counts in the WaitGroup, in the order it passes
\* them; up to "deleted" it holds its weight of the semaphore.
Running == {"handshake", "scanning", "handling", "closed", "deleted", "released"}
Holding == Running \ {"released"}

handlers == {c \in Conns : handler[c] \in Running}
holders == {c \in Conns : handler[c] \in Holding}

ServerInit ==
    /\ tls \in BOOLEAN
    /\ cancelled = FALSE /\ listening = TRUE
    /\ sweeper = "waiting" /\ loop = "accept" /\ inHand = NoConn
    /\ sock = [c \in Conns |-> "new"]
    /\ peer = [c \in Conns |-> FALSE]
    /\ unread = [c \in Conns |-> FALSE]
    /\ activeConns = {}
    /\ free = MaxHandlers
    /\ handler = [c \in Conns |-> "none"]

-----------------------------------------------------------------------------
\* The clients: they connect, send lines and hang up whenever they like.

Connect(c) ==
    /\ listening /\ sock[c] = "new"
    /\ sock' = [sock EXCEPT ![c] = "queued"]
    /\ peer' = [peer EXCEPT ![c] = TRUE]
    /\ UNCHANGED <<closingVars, loop, inHand, unread, activeConns, free, handler>>

\* What is sent earlier waits in the socket until the goroutine scans.
SendLine(c) ==
    /\ peer[c] /\ ~unread[c] /\ sock[c] = "open" /\ handler[c] = "scanning"
    /\ unread' = [unread EXCEPT ![c] = TRUE]
    /\ UNCHANGED <<closingVars, loop, inHand, sock, peer, activeConns, free, handler>>

HangUp(c) ==
    /\ peer[c]
    /\ peer' = [peer EXCEPT ![c] = FALSE]
    /\ UNCHANGED <<closingVars, loop, inHand, sock, unread, activeConns, free, handler>>

-----------------------------------------------------------------------------
\* Shutting down.  The owner cancels the context; the goroutine closes the
\* listener, which resets what is still in its backlog, and then closes the
\* recorded connections under the mutex.

Cancel ==
    /\ ~cancelled
    /\ cancelled' = TRUE
    /\ UNCHANGED <<tls, listening, sweeper, loop, inHand, sock, clientVars,
                   activeConns, free, handler>>

CloseListener ==
    /\ cancelled /\ sweeper = "waiting"
    /\ listening' = FALSE
    /\ sweeper' = "sweeping"
    /\ sock' = [c \in Conns |-> IF sock[c] = "queued" THEN "closed" ELSE sock[c]]
    /\ UNCHANGED <<tls, cancelled, loop, inHand, clientVars, activeConns, free,
                   handler>>

Sweep ==
    /\ sweeper = "sweeping"
    /\ sweeper' = "done"
    /\ sock' = [c \in Conns |-> IF c \in activeConns THEN "closed" ELSE sock[c]]
    /\ UNCHANGED <<tls, cancelled, listening, loop, inHand, clientVars,
                   activeConns, free, handler>>

-----------------------------------------------------------------------------
\* The accept loop.

AcceptConn(c) ==
    /\ loop = "accept" /\ listening /\ sock[c] = "queued"
    /\ sock' = [sock EXCEPT ![c] = "open"]
    /\ inHand' = c
    /\ loop' = "record"
    /\ UNCHANGED <<closingVars, clientVars, activeConns, free, handler>>

AcceptRetries == loop = "accept" /\ ~listening /\ UNCHANGED tcpVars

\* Accept fails once the listener is closed.
AcceptFails ==
    /\ loop = "accept" /\ ~listening
    /\ loop' = "drain"
    /\ UNCHANGED <<closingVars, inHand, sock, clientVars, activeConns, free, handler>>

RecordInHandler ==
    /\ loop = "record"
    /\ loop' = "acquire"
    /\ UNCHANGED <<closingVars, inHand, sock, clientVars, activeConns, free, handler>>

Record ==
    /\ loop = "record"
    /\ activeConns' = activeConns \cup {inHand}
    /\ loop' = "acquire"
    /\ UNCHANGED <<closingVars, inHand, sock, clientVars, free, handler>>

\* Acquire returns in time: the goroutine is added and started.  Only the loop
\* acquires, so a released weight is given to it at once.
Serve ==
    /\ loop = "acquire" /\ free > 0
    /\ free' = free - 1
    /\ handler' = [handler EXCEPT ![inHand] = IF tls THEN "handshake" ELSE "scanning"]
    /\ inHand' = NoConn
    /\ loop' = "accept"
    /\ UNCHANGED <<closingVars, sock, clientVars, activeConns>>

RejectNever ==
    /\ FALSE
    /\ UNCHANGED tcpVars

\* A second has passed without a free weight: the connection is taken out of
\* the map and then closed.
Reject ==
    /\ loop = "acquire" /\ free = 0
    /\ activeConns' = activeConns \ {inHand}
    /\ loop' = "reject"
    /\ UNCHANGED <<closingVars, inHand, sock, clientVars, free, handler>>

CloseRejected ==
    /\ loop = "reject"
    /\ sock' = [sock EXCEPT ![inHand] = "closed"]
    /\ inHand' = NoConn
    /\ loop' = "accept"
    /\ UNCHANGED <<closingVars, clientVars, activeConns, free, handler>>

ReturnAtOnce ==
    /\ loop = "drain"
    /\ loop' = "returned"
    /\ UNCHANGED <<closingVars, inHand, sock, clientVars, activeConns, free, handler>>

\* handlers.Wait() and return.
ReturnServer ==
    /\ loop = "drain" /\ handlers = {}
    /\ loop' = "returned"
    /\ UNCHANGED <<closingVars, inHand, sock, clientVars, activeConns, free, handler>>

-----------------------------------------------------------------------------
\* A connection's goroutine.

\* handleTCPConn returns, which closes the connection.
Leaves(c) ==
    /\ handler' = [handler EXCEPT ![c] = "closed"]
    /\ sock' = [sock EXCEPT ![c] = "closed"]
    /\ UNCHANGED <<closingVars, loop, inHand, clientVars, activeConns, free>>

\* Over TLS the first read makes the handshake, which needs the client's
\* certificate.
Handshake(c) ==
    /\ handler[c] = "handshake" /\ sock[c] = "open" /\ peer[c]
    /\ handler' = [handler EXCEPT ![c] = "scanning"]
    /\ UNCHANGED <<closingVars, loop, inHand, sock, clientVars, activeConns, free>>

HandshakeFails(c) ==
    /\ handler[c] = "handshake"
    /\ Leaves(c)

\* The next line; it may be in the scanner's buffer when the socket is closed.
ReadLine(c) ==
    /\ handler[c] = "scanning" /\ unread[c]
    /\ unread' = [unread EXCEPT ![c] = FALSE]
    /\ handler' = [handler EXCEPT ![c] = "handling"]
    /\ UNCHANGED <<closingVars, loop, inHand, sock, peer, activeConns, free>>

\* The line is answered, with ERR if it is not JSON.
Answer(c) ==
    /\ handler[c] = "handling" /\ sock[c] = "open"
    /\ handler' = [handler EXCEPT ![c] = "scanning"]
    /\ UNCHANGED <<closingVars, loop, inHand, sock, clientVars, activeConns, free>>

EncodeFails(c) ==
    /\ handler[c] = "handling" /\ (sock[c] = "closed" \/ ~peer[c])
    /\ Leaves(c)

EndOfInput(c) ==
    /\ handler[c] = "scanning"
    /\ sock[c] = "closed" \/ (~peer[c] /\ ~unread[c])
    /\ Leaves(c)

\* The deferred calls, last one first.
DeleteConn(c) ==
    /\ handler[c] = "closed"
    /\ activeConns' = activeConns \ {c}
    /\ handler' = [handler EXCEPT ![c] = "deleted"]
    /\ UNCHANGED <<closingVars, loop, inHand, sock, clientVars, free>>

ReleaseForgotten(c) ==
    /\ handler[c] = "deleted"
    /\ handler' = [handler EXCEPT ![c] = "released"]
    /\ UNCHANGED <<closingVars, loop, inHand, sock, clientVars, activeConns, free>>

Release(c) ==
    /\ handler[c] = "deleted"
    /\ free' = free + 1
    /\ handler' = [handler EXCEPT ![c] = "released"]
    /\ UNCHANGED <<closingVars, loop, inHand, sock, clientVars, activeConns>>

Done(c) ==
    /\ handler[c] = "released"
    /\ handler' = [handler EXCEPT ![c] = "done"]
    /\ UNCHANGED <<closingVars, loop, inHand, sock, clientVars, activeConns, free>>

-----------------------------------------------------------------------------
Client(c) == Connect(c) \/ SendLine(c) \/ HangUp(c)

Closer == CloseListener \/ Sweep

AcceptLoop ==
    \/ \E c \in Conns : AcceptConn(c)
    \/ AcceptFails \/ Record \/ Serve \/ Reject \/ CloseRejected \/ ReturnServer

handleTCPConn(c) ==
    \/ Handshake(c) \/ HandshakeFails(c)
    \/ ReadLine(c) \/ Answer(c) \/ EncodeFails(c) \/ EndOfInput(c)

Deferred(c) == DeleteConn(c) \/ Release(c) \/ Done(c)

Stopped ==
    /\ loop = "returned" /\ sweeper = "done"
    /\ UNCHANGED tcpVars

ServerNext ==
    \/ \E c \in Conns : Client(c) \/ handleTCPConn(c) \/ Deferred(c)
    \/ Cancel \/ Closer \/ AcceptLoop \/ Stopped

ServerSpec == ServerInit /\ [][ServerNext]_tcpVars

\* A handshake waits for the client as long as both ends are open.
Waiting(c) == handler[c] = "handshake" /\ sock[c] = "open" /\ peer[c]

\* The server's goroutines run; nothing is assumed of the clients.
ServerFairness ==
    /\ WF_tcpVars(Closer) /\ WF_tcpVars(AcceptLoop)
    /\ \A c \in Conns :
          WF_tcpVars(handleTCPConn(c) /\ ~Waiting(c)) /\ WF_tcpVars(Deferred(c))

FairSpec == ServerSpec /\ ServerFairness

-----------------------------------------------------------------------------
\* Every variable stays in its domain; in particular the semaphore gives no
\* more than its weight.
TypeOK ==
    /\ tls \in BOOLEAN /\ cancelled \in BOOLEAN /\ listening \in BOOLEAN
    /\ sweeper \in {"waiting", "sweeping", "done"}
    /\ loop \in {"accept", "record", "acquire", "reject", "drain", "returned"}
    /\ inHand \in Conns \cup {NoConn}
    /\ sock \in [Conns -> {"new", "queued", "open", "closed"}]
    /\ peer \in [Conns -> BOOLEAN] /\ unread \in [Conns -> BOOLEAN]
    /\ activeConns \subseteq Conns
    /\ free \in 0..MaxHandlers
    /\ handler \in [Conns -> Running \cup {"none", "done"}]

\* Open connections that are served never exceed the limit, and no weight is
\* lost or given back twice on any way a goroutine ends (Acquire and the
\* deferred Release).
SlotsAccounted == free + Cardinality(holders) = MaxHandlers

\* When the server function has returned, no goroutine of it still runs and
\* every connection it ever accepted is closed (handlers.Wait, conn.Close).
ReturnIsClean ==
    loop = "returned" =>
        handlers = {} /\ \A c \in Conns : sock[c] \in {"new", "closed"}

\* The sweep closes every open connection but one: the connection the accept
\* loop had accepted and not yet recorded, or was about to reject.
OneEscapesSweep ==
    sweeper = "done" =>
        \A c, d \in Conns : sock[c] = "open" /\ sock[d] = "open" => c = d

\* A connection in the backlog is taken by the accept loop, or reset when
\* the listener closes, although idle clients may hold every weight of the
\* semaphore for ever (the timeout of Acquire).
NobodyWaitsForEver ==
    \A c \in Conns : sock[c] = "queued" ~> sock[c] # "queued"

\* After a cancellation the server function returns, unless a connection that
\* escaped the sweep is kept open by its client: no deadline is set, and
\* handlers.Wait waits for its goroutine.
ShutdownEnds ==
    <>cancelled =>
        \/ <>(loop = "returned")
        \/ <>[](sweeper = "done" /\ \E c \in Conns : sock[c] = "open" /\ peer[c])
=============================================================================
