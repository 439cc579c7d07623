----------------------------- MODULE ServerProofs -----------------------------
(***************************************************************************)
(* Theorems about the servers and the proxy.                               *)
(*                                                                         *)
(* How they end: the TCP server, for any number of connections and any     *)
(* limit (the semaphore's accounts, what the sweep leaves open and what is *)
(* left when the server function returns), and the proxy process (what is  *)
(* left of the DHT).                                                       *)
(*                                                                         *)
(* The way of a request, for any services, taps, calls and set-ups, any    *)
(* number of handlers, attempts and duplicates, and any time to live of    *)
(* the gate's cache.                                                       *)
(***************************************************************************)
EXTENDS RequestPath, TcpServer, ProxyLifecycle, FiniteSetTheorems, TLAPS

\* The TCP server and the proxy.

Talking == {"handshake", "scanning", "handling"}

\* Where the accept loop is and the connection it has in hand.
LoopPhase ==
    /\ inHand = NoConn <=> loop \in {"accept", "drain", "returned"}
    /\ loop = "acquire" => inHand \in activeConns
    /\ loop \in {"drain", "returned"} => ~listening
    /\ listening <=> sweeper = "waiting"
    /\ loop = "returned" => handlers = {}

\* A connection, its goroutine and the map of connections.
Placed(c) ==
    /\ sock[c] \in {"new", "queued"} => handler[c] = "none" /\ c # inHand
    /\ sock[c] = "queued" => listening
    /\ sock[c] = "open" => c = inHand \/ handler[c] \in Talking
    /\ c = inHand => handler[c] = "none"
    /\ handler[c] \in Talking => c \in activeConns
    /\ handler[c] \in {"closed", "deleted", "released", "done"} => sock[c] = "closed"

Served ==
    /\ TypeOK
    /\ LoopPhase
    /\ \A c \in Conns : Placed(c)
    /\ SlotsAccounted
    /\ OneEscapesSweep

-----------------------------------------------------------------------------
\* The goroutines that hold a weight are finitely many.
LEMMA HoldersFinite == IsFiniteSet(holders) /\ Cardinality(holders) \in Nat
BY ConnsAssumption, FS_Subset, FS_CardinalityType DEF holders

LEMMA ServedInit == ServerInit => Served
<1> SUFFICES ASSUME ServerInit
             PROVE  Served
  OBVIOUS
<1>0. TypeOK
  <2>1. free \in 0..MaxHandlers
    BY LimitAssumption DEF ServerInit
  <2>2. /\ sock \in [Conns -> {"new", "queued", "open", "closed"}]
        /\ handler \in [Conns -> Running \cup {"none", "done"}]
    BY DEF ServerInit
  <2>3. QED
    BY <2>1, <2>2, Zenon DEF ServerInit, TypeOK
<1>1. LoopPhase /\ OneEscapesSweep
  BY DEF ServerInit, LoopPhase, OneEscapesSweep
<1>2. ASSUME NEW c \in Conns PROVE Placed(c)
  BY ConnsAssumption DEF ServerInit, Placed, Talking
<1>3. holders = {}
  BY DEF ServerInit, holders, Holding, Running
<1>4. SlotsAccounted
  BY <1>3, FS_EmptySet, LimitAssumption DEF ServerInit, SlotsAccounted
<1>5. QED
  BY <1>0, <1>1, <1>2, <1>4 DEF Served

-----------------------------------------------------------------------------
\* Steps that take, keep and give back a weight.
LEMMA WeightKept ==
    ASSUME SlotsAccounted, free' = free, holders' = holders
    PROVE  SlotsAccounted'
BY DEF SlotsAccounted

LEMMA WeightTaken ==
    ASSUME Served, Serve
    PROVE  SlotsAccounted'
<1>1. /\ inHand \in Conns /\ handler[inHand] = "none"
      /\ handler' = [handler EXCEPT ![inHand] = IF tls THEN "handshake" ELSE "scanning"]
      /\ handler \in [Conns -> Running \cup {"none", "done"}]
  BY DEF Serve, Served, LoopPhase, Placed, TypeOK
<1>2. handler' = [handler EXCEPT ![inHand] = "handshake"]
      \/ handler' = [handler EXCEPT ![inHand] = "scanning"]
  BY <1>1, Zenon
<1>3. holders' = holders \cup {inHand} /\ inHand \notin holders
  BY <1>1, <1>2 DEF holders, Holding, Running
<1>4. Cardinality(holders') = Cardinality(holders) + 1
  BY <1>3, HoldersFinite, FS_AddElement
<1>5. free \in Nat /\ free > 0 /\ free' = free - 1
  BY LimitAssumption DEF Serve, Served, TypeOK
<1>6. QED
  BY <1>4, <1>5, HoldersFinite DEF Served, SlotsAccounted

LEMMA WeightReleased ==
    ASSUME Served, NEW c \in Conns, Release(c)
    PROVE  SlotsAccounted' /\ free' \in 0..MaxHandlers
<1>1. holders' = holders \ {c} /\ c \in holders
  BY DEF Release, Served, TypeOK, holders, Holding, Running
<1>2. Cardinality(holders') = Cardinality(holders) - 1
  BY <1>1, HoldersFinite, FS_RemoveElement
<1>3. Cardinality(holders') \in Nat
  BY <1>1, HoldersFinite, FS_Subset, FS_CardinalityType
<1>4. free \in Nat /\ free' = free + 1
  BY LimitAssumption DEF Release, Served, TypeOK
<1>5. SlotsAccounted'
  BY <1>2, <1>4, HoldersFinite DEF Served, SlotsAccounted
<1>6. QED
  BY <1>3, <1>4, <1>5, LimitAssumption DEF SlotsAccounted

-----------------------------------------------------------------------------
LEMMA ClientStep ==
    ASSUME Served, NEW c \in Conns, Client(c)
    PROVE  Served'
<1>1. UNCHANGED <<closingVars, loop, inHand, activeConns, free, handler>>
  BY DEF Client, Connect, SendLine, HangUp
<1>2. \/ sock' = sock
      \/ listening /\ sock[c] = "new" /\ sock' = [sock EXCEPT ![c] = "queued"]
  BY DEF Client, Connect, SendLine, HangUp
<1>3. TypeOK'
  BY ZenonT(40) DEF Client, Connect, SendLine, HangUp, closingVars, Served, TypeOK
<1>4. LoopPhase'
  BY <1>1 DEF Served, LoopPhase, handlers, closingVars
<1>5. ASSUME NEW x \in Conns PROVE Placed(x)'
  BY <1>1, <1>2 DEF Served, TypeOK, Placed, closingVars
<1>6. OneEscapesSweep'
  BY <1>1, <1>2 DEF Served, TypeOK, OneEscapesSweep, closingVars
<1>7. SlotsAccounted'
  BY <1>1, WeightKept DEF Served, holders
<1>8. QED
  BY <1>3, <1>4, <1>5, <1>6, <1>7 DEF Served

\* Closing the listener empties the backlog, and the sweep leaves open at
\* most the connection in hand.
LEMMA CloserStep ==
    ASSUME Served, Closer
    PROVE  Served'
<1>1. UNCHANGED <<tls, cancelled, loop, inHand, clientVars, activeConns, free, handler>>
  BY DEF Closer, CloseListener, Sweep
<1>2. SlotsAccounted'
  BY <1>1, WeightKept DEF Served, holders
<1>3. CASE CloseListener
  <2>1. TypeOK' /\ LoopPhase'
    BY <1>3, Zenon DEF CloseListener, clientVars, Served, TypeOK, LoopPhase, handlers
  <2>2. ASSUME NEW x \in Conns PROVE Placed(x)'
    BY <1>3 DEF CloseListener, Served, TypeOK, Placed, Talking
  <2>3. OneEscapesSweep'
    BY <1>3 DEF CloseListener, OneEscapesSweep
  <2>4. QED
    BY <1>2, <2>1, <2>2, <2>3 DEF Served
<1>4. CASE Sweep
  <2>1. TypeOK' /\ LoopPhase'
    BY <1>4 DEF Sweep, clientVars, Served, TypeOK, LoopPhase, handlers
  <2>2. ASSUME NEW x \in Conns PROVE Placed(x)' /\ (sock'[x] = "open" => x = inHand)
    BY <1>4 DEF Sweep, Served, TypeOK, LoopPhase, Placed, Talking
  <2>3. OneEscapesSweep'
    BY <2>2 DEF OneEscapesSweep
  <2>4. QED
    BY <1>2, <2>1, <2>2, <2>3 DEF Served
<1>5. QED
  BY <1>3, <1>4 DEF Closer

LEMMA AcceptLoopStep ==
    ASSUME Served, AcceptLoop
    PROVE  Served'
<1>1. ASSUME NEW c \in Conns, AcceptConn(c)
      PROVE  Served'
  <2>1. TypeOK' /\ LoopPhase'
    BY <1>1, ConnsAssumption
       DEF AcceptConn, closingVars, clientVars, Served, TypeOK, LoopPhase, handlers
  <2>2. ASSUME NEW x \in Conns PROVE Placed(x)'
    BY <1>1, ConnsAssumption DEF AcceptConn, closingVars, Served, TypeOK, LoopPhase, Placed
  <2>3. OneEscapesSweep'
    BY <1>1 DEF AcceptConn, closingVars, Served, LoopPhase, OneEscapesSweep
  <2>4. SlotsAccounted'
    BY <1>1, WeightKept DEF AcceptConn, Served, holders
  <2>5. QED
    BY <2>1, <2>2, <2>3, <2>4 DEF Served
<1>2. CASE AcceptFails \/ ReturnServer
  <2>1. /\ UNCHANGED <<closingVars, inHand, sock, clientVars, activeConns, free, handler>>
        /\ \/ loop = "accept" /\ ~listening /\ loop' = "drain"
           \/ loop = "drain" /\ handlers = {} /\ loop' = "returned"
    BY <1>2 DEF AcceptFails, ReturnServer
  <2>2. TypeOK' /\ LoopPhase'
    BY <2>1 DEF closingVars, clientVars, Served, TypeOK, LoopPhase, handlers
  <2>3. (\A x \in Conns : Placed(x)') /\ OneEscapesSweep'
    BY <2>1 DEF closingVars, Served, Placed, OneEscapesSweep
  <2>4. SlotsAccounted'
    BY <2>1, WeightKept DEF Served, holders
  <2>5. QED
    BY <2>2, <2>3, <2>4 DEF Served
<1>3. CASE Record \/ Reject
  <2>1. /\ UNCHANGED <<closingVars, inHand, sock, clientVars, free, handler>>
        /\ inHand \in Conns
        /\ \/ loop' = "acquire" /\ activeConns' = activeConns \cup {inHand}
           \/ loop' = "reject" /\ activeConns' = activeConns \ {inHand}
        /\ loop \in {"record", "acquire"}
    BY <1>3 DEF Record, Reject, Served, TypeOK, LoopPhase
  <2>2. TypeOK' /\ LoopPhase'
    BY <2>1 DEF closingVars, clientVars, Served, TypeOK, LoopPhase, handlers
  <2>3. (\A x \in Conns : Placed(x)') /\ OneEscapesSweep'
    BY <2>1 DEF closingVars, Served, Placed, Talking, OneEscapesSweep
  <2>4. SlotsAccounted'
    BY <2>1, WeightKept DEF Served, holders
  <2>5. QED
    BY <2>2, <2>3, <2>4 DEF Served
<1>4. CASE Serve
  <2>1. /\ inHand \in Conns /\ inHand \in activeConns
        /\ \/ handler' = [handler EXCEPT ![inHand] = "handshake"]
           \/ handler' = [handler EXCEPT ![inHand] = "scanning"]
        /\ inHand' = NoConn /\ loop' = "accept"
        /\ UNCHANGED <<closingVars, sock, clientVars, activeConns>>
    BY <1>4, Zenon DEF Serve, Served, TypeOK, LoopPhase
  <2>2. free' \in 0..MaxHandlers
    BY <1>4, LimitAssumption DEF Serve, Served, TypeOK
  <2>3. TypeOK'
    BY <2>1, <2>2 DEF closingVars, clientVars, Served, TypeOK, Running
  <2>4. LoopPhase'
    BY <1>4, <2>1 DEF Serve, closingVars, Served, LoopPhase
  <2>5. ASSUME NEW x \in Conns PROVE Placed(x)'
    BY <2>1, ConnsAssumption DEF closingVars, Served, TypeOK, Placed, Talking
  <2>6. OneEscapesSweep'
    BY <2>1 DEF closingVars, Served, OneEscapesSweep
  <2>7. QED
    BY <1>4, <2>3, <2>4, <2>5, <2>6, WeightTaken DEF Served
<1>5. CASE CloseRejected
  <2>1. inHand \in Conns
    BY <1>5 DEF CloseRejected, Served, TypeOK, LoopPhase
  <2>2. TypeOK' /\ LoopPhase'
    BY <1>5, <2>1
       DEF CloseRejected, closingVars, clientVars, Served, TypeOK, LoopPhase, handlers
  <2>3. ASSUME NEW x \in Conns PROVE Placed(x)'
    BY <1>5, <2>1, ConnsAssumption DEF CloseRejected, closingVars, Served, TypeOK, Placed
  <2>4. OneEscapesSweep'
    BY <1>5, <2>1 DEF CloseRejected, closingVars, Served, TypeOK, OneEscapesSweep
  <2>5. SlotsAccounted'
    BY <1>5, WeightKept DEF CloseRejected, Served, holders
  <2>6. QED
    BY <2>2, <2>3, <2>4, <2>5 DEF Served
<1>6. QED
  BY <1>1, <1>2, <1>3, <1>4, <1>5 DEF AcceptLoop

-----------------------------------------------------------------------------
\* A goroutine between its start and its return moves on or leaves, with its
\* connection closed.
LEMMA HandlerStep ==
    ASSUME Served, NEW c \in Conns, handleTCPConn(c)
    PROVE  Served'
<1>1. /\ handler[c] \in Talking
      /\ UNCHANGED <<closingVars, loop, inHand, activeConns, free>>
      /\ \/ /\ sock' = sock
            /\ \/ handler' = [handler EXCEPT ![c] = "scanning"]
               \/ handler' = [handler EXCEPT ![c] = "handling"]
         \/ /\ sock' = [sock EXCEPT ![c] = "closed"]
            /\ handler' = [handler EXCEPT ![c] = "closed"]
  BY DEF handleTCPConn, Handshake, HandshakeFails, ReadLine, Answer, EncodeFails,
         EndOfInput, Leaves, Talking
<1>2. peer' = peer /\ unread' \in [Conns -> BOOLEAN]
  BY Zenon DEF handleTCPConn, Handshake, HandshakeFails, ReadLine, Answer, EncodeFails,
         EndOfInput, Leaves, clientVars, Served, TypeOK
<1>3. TypeOK'
  BY <1>1, <1>2 DEF closingVars, Served, TypeOK, Running
<1>4. LoopPhase'
  <2>1. loop # "returned"
    BY <1>1 DEF Served, LoopPhase, handlers, Talking, Running
  <2>2. QED
    BY <1>1, <2>1 DEF closingVars, Served, LoopPhase
<1>5. ASSUME NEW x \in Conns PROVE Placed(x)'
  BY <1>1 DEF closingVars, Served, TypeOK, Placed, Talking
<1>6. OneEscapesSweep'
  BY <1>1 DEF closingVars, Served, TypeOK, OneEscapesSweep
<1>7. SlotsAccounted'
  <2>1. holders' = holders
    BY <1>1 DEF Served, TypeOK, holders, Holding, Running, Talking
  <2>2. QED
    BY <1>1, <2>1, WeightKept DEF Served
<1>8. QED
  BY <1>3, <1>4, <1>5, <1>6, <1>7 DEF Served

LEMMA DeferredStep ==
    ASSUME Served, NEW c \in Conns, Deferred(c)
    PROVE  Served'
<1>1. /\ handler[c] \in {"closed", "deleted", "released"}
      /\ UNCHANGED <<closingVars, loop, inHand, sock, clientVars>>
      /\ \/ activeConns' = activeConns
         \/ activeConns' = activeConns \ {c}
      /\ \/ handler' = [handler EXCEPT ![c] = "deleted"]
         \/ handler' = [handler EXCEPT ![c] = "released"]
         \/ handler' = [handler EXCEPT ![c] = "done"]
  BY DEF Deferred, DeleteConn, Release, Done
<1>2. SlotsAccounted' /\ free' \in 0..MaxHandlers
  <2>1. CASE Release(c)
    BY <2>1, WeightReleased
  <2>2. CASE DeleteConn(c) \/ Done(c)
    <3>1. holders' = holders /\ free' = free
      BY <2>2 DEF DeleteConn, Done, Served, TypeOK, holders, Holding, Running
    <3>2. QED
      BY <3>1, WeightKept DEF Served, TypeOK
  <2>3. QED
    BY <2>1, <2>2 DEF Deferred
<1>3. TypeOK'
  BY <1>1, <1>2 DEF closingVars, clientVars, Served, TypeOK, Running
<1>4. LoopPhase'
  <2>1. loop # "returned" /\ c # inHand
    BY <1>1 DEF Served, LoopPhase, Placed, handlers, Running
  <2>2. QED
    BY <1>1, <2>1 DEF closingVars, Served, LoopPhase
<1>5. ASSUME NEW x \in Conns PROVE Placed(x)'
  BY <1>1 DEF closingVars, Served, TypeOK, Placed, Talking
<1>6. OneEscapesSweep'
  BY <1>1 DEF closingVars, Served, OneEscapesSweep
<1>7. QED
  BY <1>2, <1>3, <1>4, <1>5, <1>6 DEF Served

LEMMA ServedStep == Served /\ [ServerNext]_tcpVars => Served'
<1> SUFFICES ASSUME Served, [ServerNext]_tcpVars
             PROVE  Served'
  OBVIOUS
<1>1. ASSUME NEW c \in Conns, Client(c) \/ handleTCPConn(c) \/ Deferred(c)
      PROVE  Served'
  BY <1>1, ClientStep, HandlerStep, DeferredStep
<1>2. CASE Cancel
  BY <1>2 DEF Cancel, clientVars, Served, TypeOK, LoopPhase, Placed, SlotsAccounted,
              OneEscapesSweep, handlers, holders
<1>3. CASE UNCHANGED tcpVars
  BY <1>3 DEF tcpVars, Served, TypeOK, LoopPhase, Placed, SlotsAccounted,
              OneEscapesSweep, handlers, holders
<1>4. QED
  BY <1>1, <1>2, <1>3, CloserStep, AcceptLoopStep DEF ServerNext, Stopped

LEMMA ServedAlways == ServerSpec => []Served
BY ServedInit, ServedStep, PTL DEF ServerSpec

-----------------------------------------------------------------------------
\* No weight of the semaphore is lost or given back twice, however the
\* goroutines, the rejections and the shutdown interleave.
THEOREM WeightsAccounted == ServerSpec => []SlotsAccounted
<1>1. Served => SlotsAccounted
  BY DEF Served
<1>2. QED
  BY <1>1, ServedAlways, PTL

\* Whatever a client does, the server function leaves no goroutine and no
\* open connection behind when it returns.
THEOREM NothingLeftBehind == ServerSpec => []ReturnIsClean
<1>1. Served => ReturnIsClean
  <2> SUFFICES ASSUME Served, loop = "returned"
               PROVE  handlers = {} /\ \A c \in Conns : sock[c] \in {"new", "closed"}
    BY DEF ReturnIsClean
  <2>1. handlers = {} /\ inHand = NoConn /\ ~listening
    BY DEF Served, LoopPhase
  <2>2. ASSUME NEW c \in Conns
        PROVE  sock[c] \in {"new", "closed"}
    <3>1. handler[c] \notin Talking /\ c # inHand
      BY <2>1, ConnsAssumption DEF handlers, Talking, Running
    <3>2. QED
      BY <2>1, <3>1 DEF Served, TypeOK, Placed
  <2>3. QED
    BY <2>1, <2>2
<1>2. QED
  BY <1>1, ServedAlways, PTL

\* Of any number of connections, at most one is open after the sweep.
THEOREM SweepMissesOne == ServerSpec => []OneEscapesSweep
<1>1. Served => OneEscapesSweep
  BY DEF Served
<1>2. QED
  BY <1>1, ServedAlways, PTL

-----------------------------------------------------------------------------
\* The inductive invariant of the proxy process.  Before main has started the
\* DHT nothing runs, and a shutdown that is over by then came early.  After it
\* a finished shutdown has stopped the DHT, unless it came early.
DHTEnds ==
    /\ pc \in [Callers -> {"starting", "created", "awaiting", "reading", "screen",
                           "dashboard", "listening", "off", "watching", "shutting",
                           "stopping", "over", "gone"}]
    /\ once.at = "done" /\ dht = "running" => early
    /\ pc.main \in {"starting", "created"} =>
          dht # "running" /\ (once.at = "done" => early)
    /\ pc.main = "awaiting" => mode.ui = "background"
    /\ ExitStopsDHT

\* main is at the start and shutdown was not called.
LEMMA DHTEndsInit == ProxyInit => DHTEnds
  BY DEF ProxyInit, DHTEnds, ExitStopsDHT, Gone, Callers

\* A goroutine other than main moves, or main does and the DHT does not run.
LEMMA DHTEndsMove ==
    ASSUME DHTEnds, NEW g \in Callers, NEW from, NEW to, Moves(g, from, to),
           to \in {"reading", "screen", "dashboard", "watching", "shutting",
                   "stopping", "over", "gone"},
           to = "gone" => \/ mode.ui = "background" \/ dht # "running"
                          \/ once.at = "done",
           UNCHANGED <<mode, once, dht, early>>
    PROVE  DHTEnds'
<1>1. pc' = [pc EXCEPT ![g] = to]
  BY DEF Moves
<1>2. /\ pc' \in [Callers -> {"starting", "created", "awaiting", "reading", "screen",
                              "dashboard", "listening", "off", "watching", "shutting",
                              "stopping", "over", "gone"}]
      /\ pc'.main = pc.main \/ pc'.main = to
  BY <1>1 DEF DHTEnds
<1>. QED
  BY <1>2 DEF DHTEnds, ExitStopsDHT, Gone

\* main makes and starts the DHT.
LEMMA DHTEndsStart == DHTEnds /\ (CreateDHT \/ StartProxy) => DHTEnds'
<1>. DEFINE Places == {"starting", "created", "awaiting", "reading", "screen",
                       "dashboard", "listening", "off", "watching", "shutting",
                       "stopping", "over", "gone"}
<1>1. ASSUME DHTEnds, CreateDHT PROVE DHTEnds'
  <2>1. PICK to \in {"created", "gone"} :
           /\ pc.main = "starting" /\ pc' = [pc EXCEPT !["main"] = to]
           /\ to = "created" => dht' = "created"
           /\ to = "gone" => dht' = dht
    BY <1>1 DEF CreateDHT, Moves
  <2>2. pc' \in [Callers -> Places] /\ pc'.main = to
    BY <1>1, <2>1 DEF DHTEnds, Callers
  <2>3. UNCHANGED <<mode, once, early>>
    BY <1>1 DEF CreateDHT
  <2>. QED
    BY <1>1, <2>1, <2>2, <2>3 DEF DHTEnds, ExitStopsDHT, Gone
<1>2. ASSUME DHTEnds, StartProxy PROVE DHTEnds'
  <2>1. UNCHANGED <<mode, once, early>>
    BY <1>2 DEF StartProxy
  <2>2. PICK to \in {"awaiting", "screen", "reading", "gone"} :
           /\ pc.main \in {"starting", "created"} /\ pc' = [pc EXCEPT !["main"] = to]
           /\ to = "gone" => dht' = dht
           /\ to = "awaiting" => mode.ui = "background"
    BY <1>2 DEF StartProxy, Moves, Frontend
  <2>3. pc' \in [Callers -> Places] /\ pc'.main = to
    BY <1>2, <2>2 DEF DHTEnds, Callers
  <2>. QED
    BY <1>2, <2>1, <2>2, <2>3 DEF DHTEnds, ExitStopsDHT, Gone
<1>. QED
  BY <1>1, <1>2

\* Every step of the process preserves the invariant.
LEMMA DHTEndsStep ==
    ASSUME DHTEnds, [ProxyNext]_proxyVars
    PROVE  DHTEnds'
<1>1. CASE CreateDHT \/ StartProxy
  BY <1>1, DHTEndsStart
<1>2. CASE BackgroundEnds
  BY <1>2, DHTEndsMove, Zenon DEF BackgroundEnds, Callers, DHTEnds, Moves
<1>3. CASE PromptEnds \/ AppRuns \/ AppEnds
  BY <1>3, DHTEndsMove DEF PromptEnds, AppRuns, AppEnds, Callers
<1>4. CASE StartWatcher
  <2>1. Moves("watcher", "off", "watching") /\ UNCHANGED <<mode, once, dht, early>>
    BY <1>4 DEF StartWatcher, Moves
  <2>. QED
    BY <2>1, DHTEndsMove DEF Callers
<1>5. CASE HearSignal \/ Watch \/ PressQ
  BY <1>5, DHTEndsMove DEF HearSignal, Watch, PressQ, Callers
<1>6. ASSUME NEW g \in Callers, EndShutdown(g) PROVE DHTEnds'
  <2>1. After(g) \in {"gone", "over", "stopping"}
    BY DEF After
  <2>. QED
    BY <1>6, <2>1, DHTEndsMove DEF EndShutdown
<1>7. ASSUME NEW g \in Callers, StopApp(g) PROVE DHTEnds'
  BY <1>7, DHTEndsMove DEF StopApp
<1>8. ASSUME NEW g \in Callers, BeginShutdown(g) PROVE DHTEnds'
  <2>1. once'.at = "waiting" /\ UNCHANGED <<mode, pc, dht, early>>
    BY <1>8 DEF BeginShutdown
  <2>. QED
    BY <2>1 DEF DHTEnds, ExitStopsDHT, Gone
<1>9. CASE WaitForProxy
  <2>1. once'.at # "done" /\ UNCHANGED <<mode, pc, dht, early>>
    BY <1>9 DEF WaitForProxy
  <2>. QED
    BY <2>1 DEF DHTEnds, ExitStopsDHT, Gone
<1>10. CASE StopDHT
  <2>1. /\ ~Gone /\ dht' # "running" /\ UNCHANGED <<mode, pc>>
        /\ early' = (pc.main \in {"starting", "created"})
    BY <1>10 DEF StopDHT
  <2>. QED
    BY <2>1, Zenon DEF DHTEnds, ExitStopsDHT, Gone
<1>11. CASE ProxyListens \/ ProxyReturns \/ CloseExited \/ Signal \/ UNCHANGED proxyVars
  <2>1. UNCHANGED <<mode, pc, once, dht, early>>
    BY <1>11 DEF ProxyListens, ProxyReturns, CloseExited, Signal, proxyVars
  <2>. QED
    BY <2>1 DEF DHTEnds, ExitStopsDHT, Gone
<1>. QED
  BY <1>1, <1>2, <1>3, <1>4, <1>5, <1>6, <1>7, <1>8, <1>9, <1>10, <1>11
  DEF ProxyNext, ProxyStep, ProxyOver

\* With a dashboard or a prompt the process ends with a DHT that still runs
\* only when shutdown was over before main started the DHT.
THEOREM NoDHTLeftRunning == ProxySpec => []ExitStopsDHT
<1>1. DHTEnds => ExitStopsDHT
  BY DEF DHTEnds
<1>. QED
  BY <1>1, DHTEndsInit, DHTEndsStep, PTL DEF ProxySpec

-----------------------------------------------------------------------------
\* The way of a request.

Statuses == {None, "OK", "NOTFOUND", "FORBIDDEN", "ERR", "timeout"}

CallType ==
    [pc : {"free", "asked", "sent", "returning", "answered", "over"},
     command : {None, "REGISTER", "QUERY"}, address : Services \cup {None},
     capacity : Int, status : Statuses, seen : SUBSET Services, given : Int]

ClientType ==
    [pc : {"idle", "waiting", "heard", "retry", "done"}, call : Calls \cup {None},
     attempt : Int, status : Statuses, base : Services \cup {None} \cup Fallbacks,
     from : {None, "query", "cache", "flag", "error"}]

Typed ==
    /\ setup \in Setups
    /\ client \in [Clients -> ClientType]
    /\ call \in [Calls -> CallType]
    /\ directory \in [Services -> Int]
    /\ cache \in [value : Services \cup {None}, age : 0..CacheTTL]
    /\ offered \in [Services -> 0..CacheTTL]

\* An address the server gave in this tick.
JustOffered(s) == s \in Allowed /\ offered[s] = 0

\* What an answer says, before and after the client library has read it.
Registers(i) ==
    call[i].pc \in {"returning", "answered"} /\ call[i].command = "REGISTER"
            /\ call[i].status = "OK"
        => call[i].given = SentCapacity(i)

Queries(i) ==
    call[i].pc \in {"returning", "answered"} /\ call[i].command = "QUERY" =>
        /\ call[i].status = "OK" =>
               call[i].address \in call[i].seen /\ JustOffered(call[i].address)
        /\ call[i].status = "FORBIDDEN" => call[i].seen \cap Allowed = {}
        /\ call[i].status = "NOTFOUND" =>
               /\ call[i].seen \cap Allowed = {}
               /\ call[i].pc = "returning" \/ proto = "tls" => call[i].seen = {}

Waits(c) ==
    client[c].pc = "waiting" =>
        /\ client[c].call \in Calls
        /\ c \in Taps => call[client[c].call].command = "QUERY"

Resolves(t) ==
    /\ client[t].pc = "heard" /\ client[t].status = "OK" => JustOffered(client[t].base)
    /\ client[t].pc = "done" /\ client[t].from = "query" => JustOffered(client[t].base)
    /\ client[t].pc = "done" /\ client[t].from = "cache" =>
           client[t].base \in Allowed /\ offered[client[t].base] < CacheTTL

\* The cache never looks fresher than the address in it is.
CacheHonest ==
    cache.value # None => cache.value \in Allowed /\ offered[cache.value] <= cache.age

Explained ==
    /\ Typed
    /\ \A i \in Calls : Registers(i) /\ Queries(i)
    /\ \A c \in Clients : Waits(c)
    /\ \A t \in Taps : Resolves(t)
    /\ CacheHonest

-----------------------------------------------------------------------------
LEMMA RestTypes ==
    /\ Free \in CallType /\ Free.pc = "free" /\ Free.command = None
    /\ Idle \in ClientType /\ Idle.pc = "idle"
<1>1. Free \in CallType /\ Free.pc = "free" /\ Free.command = None
  BY DEF Free, CallType, Statuses
<1>2. Idle \in ClientType /\ Idle.pc = "idle"
  BY DEF Idle, ClientType, Statuses
<1>3. QED
  BY <1>1, <1>2

LEMMA ServerTypes ==
    ASSUME Explained
    PROVE  /\ directory \in [Services -> Int] /\ offered \in [Services -> 0..CacheTTL]
           /\ \A s \in Services : offered[s] \in Int
           /\ cache.value \in Services \cup {None} /\ cache.age \in Int
           /\ CacheTTL \in Nat /\ CacheTTL > 0 /\ Allowed \subseteq Services
BY PathAssumption DEF Explained, Typed

LEMMA ExplainedInit == Init => Explained
<1> SUFFICES ASSUME Init
             PROVE  Explained
  OBVIOUS
<1>1. Typed
  BY RestTypes, PathAssumption DEF Init, Typed, NoCache
<1>2. /\ \A i \in Calls : call[i].pc = "free"
      /\ \A c \in Clients : client[c].pc = "idle"
      /\ cache.value = None
  BY RestTypes DEF Init, NoCache
<1>3. QED
  BY <1>1, <1>2
     DEF Explained, Registers, Queries, Waits, Resolves, CacheHonest, Clients

-----------------------------------------------------------------------------
\* A step of the components that leaves the calls alone.
LEMMA TapStep ==
    ASSUME Explained, NEW t \in Taps, Tap(t)
    PROVE  Explained'
<1> USE DEF Explained
<1>1. t \in Clients /\ client[t] \in ClientType
  BY DEF Clients, Typed
<1>2. UNCHANGED <<setup, call, directory, offered>>
  BY DEF Tap, CacheAnswer, Retry, FallBack, GivesUp, EndTap, serverVars
<1>3. ASSUME NEW new \in ClientType, client' = [client EXCEPT ![t] = new],
             new.pc # "waiting",
             new.pc = "heard" /\ new.status = "OK" => JustOffered(new.base),
             new.pc = "done" /\ new.from = "query" => JustOffered(new.base),
             new.pc = "done" /\ new.from = "cache" =>
                 new.base \in Allowed /\ offered[new.base] < CacheTTL,
             cache' \in [value : Services \cup {None}, age : 0..CacheTTL],
             CacheHonest'
      PROVE  Explained'
  <2>1. Typed'
    BY <1>1, <1>2, <1>3 DEF Typed
  <2>2. ASSUME NEW c \in Clients PROVE Waits(c)'
    BY <1>1, <1>2, <1>3 DEF Typed, Waits
  <2>3. ASSUME NEW u \in Taps PROVE Resolves(u)'
    <3>1. u \in Clients
      BY DEF Clients
    <3>2. QED
      BY <1>1, <1>2, <1>3, <3>1 DEF Typed, Resolves, JustOffered
  <2>4. ASSUME NEW i \in Calls PROVE Registers(i)' /\ Queries(i)'
    BY <1>2 DEF Registers, Queries, SentCapacity, RegisterTLS, RegisterWithCapacity,
                proto, JustOffered
  <2>5. QED
    BY <1>3, <2>1, <2>2, <2>3, <2>4
<1>4. CASE CacheAnswer(t)
  <2> DEFINE new == [client[t] EXCEPT !.pc = "done", !.base = client[t].base,
                                      !.from = "query"]
  <2>1. client' = [client EXCEPT ![t] = new]
    BY <1>1, <1>4 DEF CacheAnswer, Resolve, Typed
  <2>2. new \in ClientType /\ new.pc = "done" /\ new.from = "query"
        /\ new.base = client[t].base
    BY <1>1, Zenon DEF ClientType
  <2>3. JustOffered(client[t].base)
    BY <1>4 DEF CacheAnswer, Resolves
  <2>4. cache' = [value |-> client[t].base, age |-> 0]
    BY <1>4 DEF CacheAnswer
  <2>5. CacheHonest' /\ cache' \in [value : Services \cup {None}, age : 0..CacheTTL]
    <3>1. /\ client[t].base \in Allowed /\ client[t].base \in Services
          /\ offered'[client[t].base] = 0
      BY <1>2, <2>3, ServerTypes DEF JustOffered
    <3>2. cache'.value = client[t].base /\ cache'.age = 0 /\ 0 \in 0..CacheTTL
      BY <2>4, ServerTypes
    <3>3. cache' \in [value : Services \cup {None}, age : 0..CacheTTL]
      BY <2>4, <3>1, <3>2
    <3>4. QED
      BY <3>1, <3>2, <3>3 DEF CacheHonest
  <2>6. QED
    <3> HIDE DEF new
    <3>1. QED
      BY <1>3, <2>1, <2>2, <2>3, <2>5, Zenon
<1>5. CASE Retry(t)
  <2> DEFINE new == [client[t] EXCEPT !.pc = "retry"]
  <2>1. client' = [client EXCEPT ![t] = new] /\ cache' = cache
    BY <1>1, <1>5 DEF Retry, Typed
  <2>2. new \in ClientType /\ new.pc = "retry"
    BY <1>1 DEF ClientType
  <2>3. QED
    <3> HIDE DEF new
    <3>1. QED
      BY <1>2, <1>3, <2>1, <2>2, Zenon DEF CacheHonest, Typed
<1>6. CASE FallBack(t)
  <2>1. cache' = cache /\ CacheHonest'
    BY <1>2, <1>6 DEF FallBack, CacheHonest
  <2>2. CASE cache.value # None /\ cache.age < CacheTTL
    <3> DEFINE new == [client[t] EXCEPT !.pc = "done", !.base = cache.value,
                                        !.from = "cache"]
    <3>1. client' = [client EXCEPT ![t] = new]
      BY <1>1, <1>6, <2>2 DEF FallBack, Resolve, Typed
    <3>2. new \in ClientType /\ new.pc = "done" /\ new.from = "cache"
          /\ new.base = cache.value
      BY <1>1, Zenon DEF ClientType, Typed
    <3>3. cache.value \in Allowed /\ offered[cache.value] < CacheTTL
      BY <2>2, PathAssumption DEF CacheHonest, Typed
    <3>4. QED
      <4> HIDE DEF new
      <4>1. QED
        BY <1>3, <2>1, <3>1, <3>2, <3>3, Zenon DEF Typed
  <2>3. CASE ~(cache.value # None /\ cache.age < CacheTTL)
    <3> DEFINE how == IF fallback = None THEN "error" ELSE "flag"
               new == [client[t] EXCEPT !.pc = "done", !.base = fallback, !.from = how]
    <3>1. client' = [client EXCEPT ![t] = new]
      BY <1>1, <1>6, <2>3 DEF FallBack, Resolve, Typed
    <3>2. fallback \in Fallbacks
      BY DEF Fallbacks, fallback, Typed
    <3>3. new \in ClientType /\ new.pc = "done" /\ new.from \in {"error", "flag"}
      BY <1>1, <3>2, Zenon DEF ClientType
    <3>4. QED
      <4> HIDE DEF new
      <4>1. QED
        BY <1>3, <2>1, <3>1, <3>3, Zenon DEF Typed
  <2>4. QED
    BY <2>2, <2>3
<1>7. CASE EndTap(t)
  <2>1. client' = [client EXCEPT ![t] = Idle] /\ cache' = cache
    BY <1>7 DEF EndTap
  <2>2. QED
    BY <1>2, <1>3, <2>1, RestTypes, Zenon DEF CacheHonest, Typed
<1>8. QED
  BY <1>4, <1>5, <1>6, <1>7 DEF Tap

-----------------------------------------------------------------------------
\* Addresses that were given are not taken back while a request is under way.
LEMMA StillOffered ==
    ASSUME Explained, offered' \in [Services -> 0..CacheTTL],
           \A s \in Services : offered'[s] <= offered[s]
    PROVE  \A s : JustOffered(s) => JustOffered(s)'
<1> SUFFICES ASSUME NEW s, JustOffered(s)
             PROVE  JustOffered(s)'
  OBVIOUS
<1>1. s \in Allowed /\ s \in Services /\ offered[s] = 0
  BY PathAssumption DEF JustOffered
<1>2. offered'[s] \in 0..CacheTTL /\ offered'[s] <= 0
  BY <1>1
<1>3. offered'[s] = 0
  BY <1>2, PathAssumption
<1>4. QED
  BY <1>1, <1>3 DEF JustOffered

\* A step that changes one call.
LEMMA CallStep ==
    ASSUME Explained, NEW i \in Calls, NEW new \in CallType,
           call' = [call EXCEPT ![i] = new],
           UNCHANGED <<setup, cache>>,
           directory' \in [Services -> Int],
           offered' \in [Services -> 0..CacheTTL],
           \A s \in Services : offered'[s] <= offered[s],
           client' \in [Clients -> ClientType],
           Registers(i)', Queries(i)',
           \A c \in Clients : Waits(c)',
           \A t \in Taps : Resolves(t)'
    PROVE  Explained'
<1>1. Typed'
  BY DEF Explained, Typed
<1>2. ASSUME NEW j \in Calls PROVE Registers(j)' /\ Queries(j)'
  <2>1. CASE j = i
    BY <2>1
  <2>2. CASE j # i
    <3>1. call'[j] = call[j] /\ setup' = setup
      BY <2>2 DEF Explained, Typed
    <3>2. Registers(j)'
      BY <3>1 DEF Explained, Registers, SentCapacity, RegisterTLS,
                  RegisterWithCapacity, proto
    <3>3. Queries(j)'
      BY <3>1, StillOffered DEF Explained, Queries, proto
    <3>4. QED
      BY <3>2, <3>3
  <2>3. QED
    BY <2>1, <2>2
<1>3. CacheHonest'
  <2> SUFFICES ASSUME cache.value # None
               PROVE  cache.value \in Allowed /\ offered'[cache.value] <= cache.age
    BY DEF CacheHonest
  <2>1. cache.value \in Services /\ cache.value \in Allowed
        /\ offered[cache.value] <= cache.age
    BY ServerTypes DEF Explained, CacheHonest
  <2>2. offered'[cache.value] \in Int /\ offered[cache.value] \in Int /\ cache.age \in Int
    BY <2>1, ServerTypes
  <2>3. offered'[cache.value] <= offered[cache.value]
    BY <2>1
  <2>4. QED
    BY <2>1, <2>2, <2>3
<1>4. QED
  BY <1>1, <1>2, <1>3 DEF Explained

\* ... and no client; the call keeps its command, or nobody waits for it.
LEMMA CallOnlyStep ==
    ASSUME Explained, NEW i \in Calls, NEW new \in CallType,
           call' = [call EXCEPT ![i] = new],
           UNCHANGED <<setup, cache, client>>,
           directory' \in [Services -> Int],
           offered' \in [Services -> 0..CacheTTL],
           \A s \in Services : offered'[s] <= offered[s],
           Registers(i)', Queries(i)',
           \/ new.command = call[i].command
           \/ \A c \in Clients : client[c].call # i
    PROVE  Explained'
<1>1. client' \in [Clients -> ClientType]
  BY DEF Explained, Typed
<1>2. ASSUME NEW c \in Clients PROVE Waits(c)'
  BY DEF Explained, Typed, Waits
<1>3. ASSUME NEW t \in Taps PROVE Resolves(t)'
  <2>1. Resolves(t) /\ client[t].base = client'[t].base
    BY DEF Explained
  <2>2. ASSUME client[t].base \in Allowed, offered[client[t].base] < CacheTTL
        PROVE  offered'[client[t].base] < CacheTTL
    BY <2>2, ServerTypes
  <2>3. QED
    BY <2>1, <2>2, StillOffered DEF Resolves
<1>4. QED
  BY <1>1, <1>2, <1>3, CallStep, Zenon

-----------------------------------------------------------------------------
\* A call that ends without an answer of the server.
LEMMA Unanswered ==
    ASSUME NEW c \in CallType, NEW status \in Statuses, NEW place \in {"answered", "over"}
    PROVE  LET new == [c EXCEPT !.pc = place, !.status = status, !.seen = {}, !.given = 0]
           IN  /\ new \in CallType /\ new.pc = place /\ new.status = status
               /\ new.command = c.command
<1> DEFINE moved == [c EXCEPT !.pc = place, !.status = status]
           cleared == [moved EXCEPT !.seen = {}]
           new == [cleared EXCEPT !.given = 0]
<1>1. /\ moved \in CallType /\ moved.pc = place /\ moved.status = status
      /\ moved.command = c.command
  BY Zenon DEF CallType
<1>2. /\ cleared \in CallType /\ cleared.pc = moved.pc /\ cleared.status = moved.status
      /\ cleared.command = moved.command
  <2> HIDE DEF moved
  <2>1. QED
    BY <1>1 DEF CallType
<1>3. /\ new \in CallType /\ new.pc = cleared.pc /\ new.status = cleared.status
      /\ new.command = cleared.command
  <2> HIDE DEF cleared
  <2>1. QED
    BY <1>2 DEF CallType
<1>4. [c EXCEPT !.pc = place, !.status = status, !.seen = {}, !.given = 0] = new
  BY DEF CallType
<1>5. QED
  BY <1>1, <1>2, <1>3, <1>4

\* A call whose answer nobody waits for any more.
LEMMA OverTyped ==
    ASSUME NEW c \in CallType
    PROVE  Over(c) \in CallType /\ Over(c).pc = "over" /\ Over(c).command = c.command
<1> DEFINE moved == [c EXCEPT !.pc = "over", !.status = None]
           cleared == [moved EXCEPT !.seen = {}]
           new == [cleared EXCEPT !.given = 0]
<1>1. moved \in CallType /\ moved.pc = "over" /\ moved.command = c.command
  BY Zenon DEF CallType, Statuses
<1>2. Over(c) = new
  BY DEF Over
<1> HIDE DEF moved
<1>3. cleared \in CallType /\ cleared.pc = moved.pc /\ cleared.command = moved.command
  BY <1>1 DEF CallType
<1> HIDE DEF cleared
<1>4. new \in CallType /\ new.pc = cleared.pc /\ new.command = cleared.command
  BY <1>3 DEF CallType
<1>5. QED
  BY <1>1, <1>2, <1>3, <1>4

\* Steps of the proxy and the client library.
LEMMA ProxyCallStep ==
    ASSUME Explained, NEW i \in Calls, Proxy(i) \/ HopLost(i)
    PROVE  Explained'
<1>0. call[i] \in CallType /\ call \in [Calls -> CallType]
  BY DEF Explained, Typed
<1>1. UNCHANGED <<setup, cache, client, directory, offered>>
  BY DEF Proxy, HopLost, Refuse, Forward, BackendFails, Receive, Recycle, serverVars
<1>2. /\ directory' \in [Services -> Int] /\ offered' \in [Services -> 0..CacheTTL]
      /\ \A s \in Services : offered'[s] <= offered[s]
  BY <1>1, ServerTypes
<1>3. ASSUME NEW new \in CallType, call' = [call EXCEPT ![i] = new],
             new.pc \notin {"returning", "answered"} \/ new.status \in {"ERR", "timeout"},
             \/ new.command = call[i].command
             \/ \A c \in Clients : client[c].call # i
      PROVE  Explained'
  <2>1. call'[i] = new
    BY <1>0, <1>3
  <2>2. Registers(i)' /\ Queries(i)'
    BY <1>3, <2>1 DEF Registers, Queries
  <2>3. QED
    BY <1>1, <1>2, <1>3, <2>2, CallOnlyStep, Zenon
<1>4. CASE HopLost(i)
  <2>1. Over(call[i]) \in CallType /\ Over(call[i]).pc = "over"
        /\ Over(call[i]).command = call[i].command
    BY <1>0, OverTyped
  <2>2. QED
    BY <1>0, <1>3, <1>4, <2>1, Zenon DEF HopLost
<1>5. CASE Refuse(i) \/ BackendFails(i)
  <2>1. PICK status \in {"ERR", "timeout"} : Reply(i, status)
    BY <1>5 DEF Refuse, BackendFails
  <2> DEFINE new == [call[i] EXCEPT !.pc = "answered", !.status = status,
                                    !.seen = {}, !.given = 0]
  <2>2. call' = [call EXCEPT ![i] = new]
    BY <1>0, <2>1 DEF Reply
  <2>3. new \in CallType /\ new.status = status /\ new.command = call[i].command
    <3>1. status \in Statuses
      BY DEF Statuses
    <3>2. QED
      BY <1>0, <3>1, Unanswered, Zenon
  <2>4. QED
    <3> HIDE DEF new
    <3>1. QED
      BY <1>3, <2>1, <2>2, <2>3, Zenon
<1>6. CASE Forward(i)
  <2> DEFINE new == [call[i] EXCEPT !.pc = "sent"]
  <2>1. call' = [call EXCEPT ![i] = new]
    BY <1>0, <1>6 DEF Forward
  <2>2. new \in CallType /\ new.pc = "sent" /\ new.command = call[i].command
    BY <1>0 DEF CallType
  <2>3. QED
    <3> HIDE DEF new
    <3>1. QED
      BY <1>3, <2>1, <2>2, Zenon
<1>7. CASE Receive(i)
  <2> DEFINE new == [call[i] EXCEPT !.pc = "answered", !.status = Understood(call[i].status)]
  <2>1. call' = [call EXCEPT ![i] = new] /\ call[i].pc = "returning"
    BY <1>0, <1>7, Zenon DEF Receive
  <2>2. Understood(call[i].status) \in Statuses
    BY <1>0 DEF CallType, Statuses, Understood, QueryPlain, QueryTLS
  <2>3. /\ new \in CallType /\ new.pc = "answered"
        /\ new.status = Understood(call[i].status)
        /\ new.command = call[i].command /\ new.address = call[i].address
        /\ new.capacity = call[i].capacity /\ new.seen = call[i].seen
        /\ new.given = call[i].given
    BY <1>0, <2>2, Zenon DEF CallType
  <2> HIDE DEF new
  <2>4. call'[i] = new
    BY <1>0, <2>1
  <2>5. Registers(i)'
    <3>1. new.status = "OK" => call[i].status = "OK"
      BY <2>3 DEF Understood, QueryPlain, QueryTLS
    <3>2. QED
      BY <1>1, <2>1, <2>3, <2>4, <3>1, Zenon
         DEF Explained, Registers, SentCapacity, RegisterTLS, RegisterWithCapacity, proto
  <2>6. Queries(i)'
    <3>1. Queries(i)
      BY DEF Explained
    <3>2. /\ new.status = "OK" => call[i].status = "OK"
          /\ new.status # "FORBIDDEN"
          /\ new.status = "NOTFOUND" =>
                \/ call[i].status = "NOTFOUND"
                \/ call[i].status = "FORBIDDEN" /\ proto # "tls"
      BY <2>3 DEF Understood, QueryPlain, QueryTLS
    <3>3. JustOffered(call[i].address) => JustOffered(call[i].address)'
      BY <1>1, <2>3, <2>4 DEF JustOffered
    <3>4. QED
      BY <1>1, <2>1, <2>3, <2>4, <3>1, <3>2, <3>3 DEF Queries, proto
  <2>7. QED
    BY <1>1, <1>2, <2>1, <2>3, <2>5, <2>6, CallOnlyStep, Zenon
<1>8. CASE Recycle(i)
  BY <1>3, <1>8, RestTypes, Zenon DEF Recycle
<1>9. QED
  BY <1>4, <1>5, <1>6, <1>7, <1>8 DEF Proxy

-----------------------------------------------------------------------------
\* A component asks: its call was free, so nobody else waits for it.
LEMMA AskStep ==
    ASSUME Explained, NEW c \in Clients, NEW i \in Calls, call[i] = Free,
           NEW request \in CallType, request.pc = "asked",
           c \in Taps => request.command = "QUERY",
           call' = [call EXCEPT ![i] = request],
           NEW asking \in ClientType, asking.pc = "waiting", asking.call = i,
           client' = [client EXCEPT ![c] = asking],
           UNCHANGED <<setup, serverVars, cache>>
    PROVE  Explained'
<1>1. /\ client \in [Clients -> ClientType] /\ call \in [Calls -> CallType]
      /\ offered \in [Services -> 0..CacheTTL]
  BY DEF Explained, Typed
<1>2. /\ call'[i] = request /\ client'[c] = asking
      /\ \A j \in Calls \ {i} : call'[j] = call[j]
      /\ \A d \in Clients \ {c} : client'[d] = client[d]
  BY <1>1
<1>3. Registers(i)' /\ Queries(i)'
  BY <1>2 DEF Registers, Queries
<1>4. ASSUME NEW d \in Clients PROVE Waits(d)'
  <2>1. Waits(d)
    BY DEF Explained
  <2>2. call[i].command # "QUERY"
    BY RestTypes, PathAssumption
  <2>3. CASE d = c
    BY <1>2, <2>3 DEF Waits
  <2>4. CASE d # c
    <3>1. client'[d] = client[d]
      BY <1>2, <2>4
    <3>2. CASE client[d].call = i
      BY <2>1, <2>2, <3>1, <3>2 DEF Waits
    <3>3. CASE client[d].call # i
      BY <1>2, <2>1, <3>1, <3>3 DEF Waits
    <3>4. QED
      BY <3>2, <3>3
  <2>5. QED
    BY <2>3, <2>4
<1>5. ASSUME NEW t \in Taps PROVE Resolves(t)'
  <2>1. t \in Clients /\ Resolves(t)
    BY DEF Clients, Explained
  <2>2. offered' = offered
    BY DEF serverVars
  <2>3. QED
    BY <1>2, <2>1, <2>2 DEF Resolves, JustOffered
<1>6. /\ client' \in [Clients -> ClientType]
      /\ directory' \in [Services -> Int] /\ offered' \in [Services -> 0..CacheTTL]
  BY <1>1 DEF Explained, Typed, serverVars
<1>7. \A s \in Services : offered'[s] <= offered[s]
  BY <1>1, PathAssumption DEF serverVars
<1>8. QED
  BY <1>3, <1>4, <1>5, <1>6, <1>7, CallStep, Zenon

LEMMA RegisterStep ==
    ASSUME Explained, NEW s \in Services, NEW i \in Calls, Register(s, i)
    PROVE  Explained'
<1>1. PICK capacity \in setup.capacities :
          Ask(s, i, [Free EXCEPT !.pc = "asked", !.command = "REGISTER",
                                 !.address = s, !.capacity = capacity])
  BY Zenon DEF Register
<1> DEFINE request == [Free EXCEPT !.pc = "asked", !.command = "REGISTER",
                                   !.address = s, !.capacity = capacity]
           asking == [Idle EXCEPT !.pc = "waiting", !.call = i]
<1>2. capacity \in Int
  BY PathAssumption DEF Explained, Typed
<1>3. request \in CallType /\ request.pc = "asked"
  <2> DEFINE asked == [Free EXCEPT !.pc = "asked", !.command = "REGISTER"]
             filled == [asked EXCEPT !.address = s, !.capacity = capacity]
  <2>1. asked \in CallType /\ asked.pc = "asked"
    BY RestTypes, Zenon DEF CallType
  <2>2. filled \in CallType /\ filled.pc = asked.pc
    <3> HIDE DEF asked
    <3>1. QED
      BY <1>2, <2>1, Zenon DEF CallType
  <2>3. request = filled
    BY RestTypes DEF CallType
  <2>4. QED
    BY <2>1, <2>2, <2>3
<1>4. asking \in ClientType /\ asking.pc = "waiting" /\ asking.call = i
  BY RestTypes, Zenon DEF ClientType
<1>5. s \in Clients /\ s \notin Taps
  BY PathAssumption DEF Clients
<1>6. /\ call[i] = Free /\ call' = [call EXCEPT ![i] = request]
      /\ client' = [client EXCEPT ![s] = asking]
      /\ UNCHANGED <<setup, serverVars, cache>>
  BY <1>1, Zenon DEF Register, Ask
<1>7. QED
  <2> HIDE DEF request, asking
  <2>1. QED
    BY <1>3, <1>4, <1>5, <1>6, AskStep, Zenon

LEMMA QueryStep ==
    ASSUME Explained, NEW t \in Taps, NEW i \in Calls, Query(t, i)
    PROVE  Explained'
<1> DEFINE request == [Free EXCEPT !.pc = "asked", !.command = "QUERY"]
           asking == [Idle EXCEPT !.pc = "waiting", !.call = i,
                                  !.attempt = client[t].attempt + 1]
<1>1. t \in Clients /\ client[t].attempt \in Int
  BY DEF Explained, Typed, Clients, ClientType
<1>2. request \in CallType /\ request.pc = "asked" /\ request.command = "QUERY"
  BY RestTypes, Zenon DEF CallType
<1>3. asking \in ClientType /\ asking.pc = "waiting" /\ asking.call = i
  <2> DEFINE waiting == [Idle EXCEPT !.pc = "waiting", !.call = i]
             counted == [waiting EXCEPT !.attempt = client[t].attempt + 1]
  <2>1. waiting \in ClientType /\ waiting.pc = "waiting" /\ waiting.call = i
    BY RestTypes, Zenon DEF ClientType
  <2>2. /\ counted \in ClientType /\ counted.pc = waiting.pc
        /\ counted.call = waiting.call
    <3> HIDE DEF waiting
    <3>1. QED
      BY <1>1, <2>1 DEF ClientType
  <2>3. asking = counted
    BY RestTypes DEF ClientType
  <2>4. QED
    BY <2>1, <2>2, <2>3
<1>4. /\ call[i] = Free /\ call' = [call EXCEPT ![i] = request]
      /\ client' = [client EXCEPT ![t] = asking]
      /\ UNCHANGED <<setup, serverVars, cache>>
  BY DEF Query, Ask
<1>5. QED
  <2> HIDE DEF request, asking
  <2>1. QED
    BY <1>1, <1>2, <1>3, <1>4, AskStep, Zenon

-----------------------------------------------------------------------------
\* A component hears an answer or stops waiting.
LEMMA HearStep ==
    ASSUME Explained, NEW c \in Clients, NEW status \in Statuses,
           NEW base \in Services \cup {None}, Hear(c, status, base),
           c \in Taps /\ status = "OK" => JustOffered(base)
    PROVE  /\ client' \in [Clients -> ClientType]
           /\ client'[c].pc \in {"idle", "heard"}
           /\ \A d \in Clients \ {c} : client'[d] = client[d]
           /\ offered' = offered => \A t \in Taps : Resolves(t)'
<1> DEFINE heard == [client[c] EXCEPT !.pc = "heard", !.call = None,
                                      !.status = status, !.base = base]
           new == IF c \in Services THEN Idle ELSE heard
<1>1. client \in [Clients -> ClientType]
  BY DEF Explained, Typed
<1>2. Idle \in ClientType /\ Idle.pc = "idle"
  BY RestTypes
<1>3. /\ heard \in ClientType /\ heard.pc = "heard" /\ heard.status = status
      /\ heard.base = base
  <2> DEFINE moved == [client[c] EXCEPT !.pc = "heard", !.call = None]
             later == [moved EXCEPT !.status = status, !.base = base]
  <2>1. moved \in ClientType /\ moved.pc = "heard"
    BY <1>1, Zenon DEF ClientType
  <2>2. /\ later \in ClientType /\ later.pc = moved.pc /\ later.status = status
        /\ later.base = base
    <3> HIDE DEF moved
    <3>1. QED
      BY <2>1, Zenon DEF ClientType
  <2>3. heard = later
    BY <1>1 DEF ClientType
  <2>4. QED
    BY <2>1, <2>2, <2>3
<1>4. client' = [client EXCEPT ![c] = new]
  BY <1>1 DEF Hear
<1> HIDE DEF heard
<1>5. new \in ClientType /\ new.pc \in {"idle", "heard"}
  BY <1>2, <1>3
<1>6. /\ client' \in [Clients -> ClientType] /\ client'[c] = new
      /\ \A d \in Clients \ {c} : client'[d] = client[d]
  <2> HIDE DEF new
  <2>1. QED
    BY <1>1, <1>4, <1>5
<1>7. ASSUME offered' = offered, NEW t \in Taps PROVE Resolves(t)'
  <2>1. t \in Clients /\ t \notin Services /\ Resolves(t)
    BY PathAssumption DEF Explained, Clients
  <2>2. CASE t = c
    BY <1>3, <1>6, <1>7, <2>1, <2>2 DEF Resolves, JustOffered
  <2>3. CASE t # c
    BY <1>6, <1>7, <2>1, <2>3 DEF Resolves, JustOffered
  <2>4. QED
    BY <2>2, <2>3
<1>8. QED
  BY <1>5, <1>6, <1>7

LEMMA AnsweredStep ==
    ASSUME Explained, NEW c \in Clients, Answered(c)
    PROVE  Explained'
<1>1. PICK i \in Calls :
          client[c].call = i /\ (c \in Taps => call[i].command = "QUERY")
  BY DEF Explained, Waits, Answered
<1>0. Hear(c, call[i].status, call[i].address)
  BY <1>1 DEF Answered, Hear
<1>2. /\ call[i].pc = "answered"
      /\ call' = [call EXCEPT ![i] = Over(call[i])]
      /\ UNCHANGED <<setup, serverVars, cache>>
  BY <1>1 DEF Answered
<1>3. /\ call[i] \in CallType /\ call[i].status \in Statuses
      /\ call[i].address \in Services \cup {None}
  BY <1>1 DEF Explained, Typed, CallType
<1>4. c \in Taps /\ call[i].status = "OK" => JustOffered(call[i].address)
  BY <1>1, <1>2 DEF Explained, Queries
<1>5. offered' = offered /\ directory' = directory
  BY <1>2 DEF serverVars
<1>6. /\ client' \in [Clients -> ClientType] /\ client'[c].pc \in {"idle", "heard"}
      /\ \A d \in Clients \ {c} : client'[d] = client[d]
      /\ \A t \in Taps : Resolves(t)'
  BY <1>0, <1>3, <1>4, <1>5, HearStep
<1>7. /\ Over(call[i]) \in CallType /\ Over(call[i]).pc = "over"
      /\ Over(call[i]).command = call[i].command
  BY <1>3, OverTyped
<1>8. /\ call'[i] = Over(call[i]) /\ \A j \in Calls \ {i} : call'[j] = call[j]
  BY <1>1, <1>2 DEF Explained, Typed
<1>9. ASSUME NEW d \in Clients PROVE Waits(d)'
  <2>1. Waits(d)
    BY DEF Explained
  <2>2. \A j \in Calls : call'[j].command = call[j].command
    BY <1>7, <1>8
  <2>3. CASE d = c
    BY <1>6, <2>3 DEF Waits
  <2>4. CASE d # c
    BY <1>6, <2>1, <2>2, <2>4 DEF Waits
  <2>5. QED
    BY <2>3, <2>4
<1>10. Registers(i)' /\ Queries(i)'
  BY <1>7, <1>8 DEF Registers, Queries
<1>11. /\ directory' \in [Services -> Int] /\ offered' \in [Services -> 0..CacheTTL]
       /\ \A s \in Services : offered'[s] <= offered[s]
  BY <1>5, ServerTypes
<1>12. QED
  BY <1>1, <1>2, <1>6, <1>7, <1>9, <1>10, <1>11, CallStep, Zenon

\* The steps of a server that leave requests and answers alone.
LEMMA QuietStep ==
    ASSUME Explained, UNCHANGED <<setup, client, call, cache, offered>>,
           directory' \in [Services -> Int]
    PROVE  Explained'
<1>1. Typed'
  BY DEF Explained, Typed
<1>2. ASSUME NEW i \in Calls PROVE Registers(i)' /\ Queries(i)'
  BY DEF Explained, Registers, Queries, SentCapacity, RegisterTLS,
         RegisterWithCapacity, proto, JustOffered
<1>3. /\ \A c \in Clients : Waits(c)'
      /\ \A t \in Taps : Resolves(t)'
      /\ CacheHonest'
  BY DEF Explained, Waits, Resolves, CacheHonest, JustOffered
<1>4. QED
  BY <1>1, <1>2, <1>3 DEF Explained

LEMMA TimesOutStep ==
    ASSUME Explained, NEW c \in Clients, TimesOut(c)
    PROVE  Explained'
<1>1. UNCHANGED <<setup, call, cache, offered, directory>>
  BY DEF TimesOut, serverVars
<1>2. Hear(c, "timeout", None)
  BY DEF TimesOut
<1>3. "timeout" \in Statuses
  BY DEF Statuses
<1>4. /\ client' \in [Clients -> ClientType] /\ client'[c].pc \in {"idle", "heard"}
      /\ \A d \in Clients \ {c} : client'[d] = client[d]
      /\ \A t \in Taps : Resolves(t)'
  BY <1>1, <1>2, <1>3, HearStep
<1>5. Typed' /\ CacheHonest'
  BY <1>1, <1>4 DEF Explained, Typed, CacheHonest
<1>6. ASSUME NEW i \in Calls PROVE Registers(i)' /\ Queries(i)'
  BY <1>1 DEF Explained, Registers, Queries, SentCapacity, RegisterTLS,
              RegisterWithCapacity, proto, JustOffered
<1>7. ASSUME NEW d \in Clients PROVE Waits(d)'
  BY <1>1, <1>4 DEF Explained, Waits
<1>8. QED
  BY <1>4, <1>5, <1>6, <1>7 DEF Explained

-----------------------------------------------------------------------------
AnswerType == [status : {"OK", "NOTFOUND", "FORBIDDEN"}, address : Services \cup {None},
               seen : SUBSET Services, given : Int]

\* The server's answer reaches the socket of its request, or nobody.
LEMMA ReturnStep ==
    ASSUME Explained, NEW i \in Calls, NEW a \in AnswerType, Return(i, a),
           UNCHANGED <<setup, cache, client>>,
           directory' \in [Services -> Int],
           offered' \in [Services -> 0..CacheTTL],
           \A s \in Services : offered'[s] <= offered[s],
           call[i].command = "REGISTER" => a.given = SentCapacity(i),
           call[i].command = "QUERY" =>
               /\ a.status = "OK" => a.address \in a.seen /\ JustOffered(a.address)'
               /\ a.status = "FORBIDDEN" => a.seen \cap Allowed = {}
               /\ a.status = "NOTFOUND" => a.seen = {}
    PROVE  Explained'
<1>0. call[i] \in CallType /\ call \in [Calls -> CallType]
  BY DEF Explained, Typed
<1>1. CASE call' = call
  <2>1. call' = [call EXCEPT ![i] = call[i]]
    BY <1>0, <1>1
  <2>2. Registers(i)'
    BY <1>1 DEF Explained, Registers, SentCapacity, RegisterTLS,
                RegisterWithCapacity, proto
  <2>3. Queries(i)'
    BY <1>1, StillOffered DEF Explained, Queries, proto
  <2>4. QED
    BY <1>0, <2>1, <2>2, <2>3, CallOnlyStep, Zenon
<1>2. CASE call' # call
  <2> DEFINE address == IF a.address = None THEN call[i].address ELSE a.address
             seen == [call[i] EXCEPT !.pc = "returning", !.status = a.status]
             given == [seen EXCEPT !.seen = a.seen, !.given = a.given]
             new == [given EXCEPT !.address = address]
  <2>1. call' = [call EXCEPT ![i] = [call[i] EXCEPT
            !.pc = "returning", !.status = a.status, !.seen = a.seen,
            !.given = a.given, !.address = address]]
    BY <1>0, <1>2, Zenon DEF Return, ReturnsTo
  <2>2. /\ a.status \in Statuses /\ a.seen \in SUBSET Services /\ a.given \in Int
        /\ address \in Services \cup {None}
    BY <1>0 DEF AnswerType, Statuses, CallType
  <2>3. [call[i] EXCEPT !.pc = "returning", !.status = a.status, !.seen = a.seen,
                        !.given = a.given, !.address = address] = new
    BY <1>0 DEF CallType
  <2> HIDE DEF address
  <2>4. /\ seen \in CallType /\ seen.pc = "returning" /\ seen.status = a.status
        /\ seen.command = call[i].command /\ seen.capacity = call[i].capacity
    BY <1>0, <2>2, Zenon DEF CallType
  <2> HIDE DEF seen
  <2>5. /\ given \in CallType /\ given.pc = seen.pc /\ given.status = seen.status
        /\ given.command = seen.command /\ given.capacity = seen.capacity
        /\ given.seen = a.seen /\ given.given = a.given
    BY <2>2, <2>4, Zenon DEF CallType
  <2> HIDE DEF given
  <2>6. /\ new \in CallType /\ new.pc = given.pc /\ new.status = given.status
        /\ new.command = given.command /\ new.capacity = given.capacity
        /\ new.seen = given.seen /\ new.given = given.given /\ new.address = address
    BY <2>2, <2>5 DEF CallType
  <2> HIDE DEF new
  <2>7. PICK n \in CallType :
          /\ call' = [call EXCEPT ![i] = n] /\ n.pc = "returning"
          /\ n.status = a.status /\ n.command = call[i].command
          /\ n.capacity = call[i].capacity /\ n.seen = a.seen /\ n.given = a.given
          /\ a.address # None => n.address = a.address
    <3>1. a.address # None => address = a.address
      BY DEF address
    <3>2. QED
      BY <2>1, <2>3, <2>4, <2>5, <2>6, <3>1, Zenon
  <2>8. call'[i] = n
    BY <1>0, <2>7
  <2>9. Registers(i)'
    BY <2>7, <2>8 DEF Registers, SentCapacity, RegisterTLS, RegisterWithCapacity, proto
  <2>10. Queries(i)'
    <3>1. n.command = "QUERY" /\ n.status = "OK" =>
              n.address = a.address /\ a.address \in a.seen
      BY <2>7, PathAssumption DEF AnswerType
    <3>2. n.command = "QUERY" /\ n.status = "OK" => JustOffered(n.address)'
      BY <2>7, <3>1 DEF JustOffered
    <3>3. QED
      BY <2>7, <2>8, <3>1, <3>2 DEF Queries
  <2>11. QED
    BY <2>7, <2>9, <2>10, CallOnlyStep, ZenonT(40)
<1>3. QED
  BY <1>1, <1>2

LEMMA OnlyAnswer ==
    ASSUME NEW status \in {"OK", "NOTFOUND", "FORBIDDEN"}
    PROVE  Only(status) \in AnswerType /\ Only(status).status = status
BY DEF Only, NoAnswer, AnswerType

\* What handleQuery may answer.
LEMMA QueryAnswer ==
    ASSUME NEW a \in QueryAnswers
    PROVE  /\ a \in AnswerType
           /\ a.status = "OK" => a.address \in a.seen /\ a.address \in Allowed
           /\ a.status = "FORBIDDEN" => a.seen \cap Allowed = {}
           /\ a.status = "NOTFOUND" => a.seen = {}
<1> DEFINE ok(s) == [status |-> "OK", address |-> s, seen |-> Registered, given |-> 0]
           none(status) == [Only(status) EXCEPT !.seen = Registered]
<1>1. Registered \subseteq Services
  BY DEF Registered
<1>2. ASSUME NEW status \in {"NOTFOUND", "FORBIDDEN"}
      PROVE  /\ none(status) \in AnswerType /\ none(status).status = status
             /\ none(status).seen = Registered
  BY <1>1, OnlyAnswer DEF AnswerType
<1>3. ASSUME NEW s \in Registered \cap Allowed
      PROVE  /\ ok(s) \in AnswerType /\ ok(s).status = "OK" /\ ok(s).address = s
             /\ ok(s).seen = Registered
  BY <1>1 DEF AnswerType
<1>4. \/ Registered = {} /\ a = none("NOTFOUND")
      \/ Registered \cap Allowed = {} /\ a = none("FORBIDDEN")
      \/ \E s \in Registered \cap Allowed : a = ok(s)
  BY DEF QueryAnswers
<1> HIDE DEF ok, none
<1>5. QED
  BY <1>2, <1>3, <1>4

LEMMA HandleMessageStep ==
    ASSUME Explained, NEW i \in Calls, HandleMessage(i)
    PROVE  Explained'
<1>1. UNCHANGED <<setup, cache, client>>
  BY DEF HandleMessage
<1>2. SentCapacity(i) \in Int
  BY DEF Explained, Typed, CallType, SentCapacity, RegisterTLS, RegisterWithCapacity
<1>3. /\ directory \in [Services -> Int] /\ offered \in [Services -> 0..CacheTTL]
  BY DEF Explained, Typed
<1>4. CASE call[i].command = "REGISTER"
  <2> DEFINE a == [Only("OK") EXCEPT !.given = SentCapacity(i)]
  <2>1. /\ directory' = [directory EXCEPT ![call[i].address] = SentCapacity(i)]
        /\ offered' = offered
    BY <1>4 DEF HandleMessage
  <2>2. Return(i, a)
    BY <1>4 DEF HandleMessage
  <2>3. a \in AnswerType /\ a.given = SentCapacity(i)
    BY <1>2, OnlyAnswer DEF AnswerType
  <2>4. directory' \in [Services -> Int]
    BY <1>2, <1>3, <2>1, Zenon
  <2>5. /\ offered' \in [Services -> 0..CacheTTL]
        /\ \A s \in Services : offered'[s] <= offered[s]
    BY <1>3, <2>1, PathAssumption
  <2>6. PICK b \in AnswerType : b.given = SentCapacity(i) /\ Return(i, b)
    BY <2>2, <2>3, Zenon
  <2>7. QED
    BY <1>1, <1>4, <2>4, <2>5, <2>6, ReturnStep
<1>5. CASE call[i].command = "QUERY"
  <2>1. PICK a \in QueryAnswers :
          /\ Return(i, a)
          /\ offered' = [s \in Services |-> IF s = a.address THEN 0 ELSE offered[s]]
    BY <1>5 DEF HandleMessage
  <2>2. directory' = directory
    BY <1>5 DEF HandleMessage
  <2>3. /\ directory' \in [Services -> Int] /\ offered' \in [Services -> 0..CacheTTL]
        /\ \A s \in Services : offered'[s] <= offered[s]
    <3>1. directory' \in [Services -> Int]
      BY <2>2, ServerTypes
    <3>2. \A s \in Services : offered'[s] = 0 \/ offered'[s] = offered[s]
      BY <2>1
    <3>3. 0 \in 0..CacheTTL /\ \A s \in Services : offered[s] \in 0..CacheTTL
      BY ServerTypes
    <3>4. offered' \in [Services -> 0..CacheTTL]
      BY <2>1, <3>3
    <3>5. QED
      BY <3>1, <3>2, <3>3, <3>4
  <2>4. a.address \in Allowed => JustOffered(a.address)'
    BY <2>1, PathAssumption DEF JustOffered
  <2>5. QED
    BY <1>1, <1>5, <2>1, <2>3, <2>4, QueryAnswer, ReturnStep
<1>6. QED
  BY <1>4, <1>5 DEF HandleMessage

\* Time passes only when no request is under way; the cache and the address in
\* it grow old together.
LEMMA TickStep ==
    ASSUME Explained, Tick
    PROVE  Explained'
<1>1. /\ \A c \in Clients : client[c].pc = "idle"
      /\ \A i \in Calls : call[i].pc = "free"
      /\ UNCHANGED <<setup, client, call, directory>>
  BY RestTypes DEF Tick
<1>2. /\ offered' = [s \in Services |-> Older(offered[s])]
      /\ cache' = [cache EXCEPT !.age = Older(cache.age)]
      /\ cache.age < CacheTTL
  BY DEF Tick, Explained, Typed
<1>3. ASSUME NEW age \in 0..CacheTTL PROVE Older(age) \in 0..CacheTTL
  BY PathAssumption DEF Older
<1>4. /\ cache.age \in 0..CacheTTL /\ cache.value \in Services \cup {None}
      /\ \A s \in Services : offered[s] \in 0..CacheTTL
  BY DEF Explained, Typed
<1>5. /\ offered' \in [Services -> 0..CacheTTL]
      /\ cache' \in [value : Services \cup {None}, age : 0..CacheTTL]
      /\ cache'.value = cache.value /\ cache'.age = Older(cache.age)
  BY <1>2, <1>3, <1>4 DEF Explained, Typed
<1>6. Typed'
  BY <1>1, <1>5 DEF Explained, Typed
<1>7. /\ \A i \in Calls : Registers(i)' /\ Queries(i)'
      /\ \A c \in Clients : Waits(c)'
      /\ \A t \in Taps : Resolves(t)'
  BY <1>1 DEF Registers, Queries, Waits, Resolves, Clients
<1>8. CacheHonest'
  <2> SUFFICES ASSUME cache.value # None
               PROVE  /\ cache.value \in Allowed
                      /\ offered'[cache.value] <= cache'.age
    BY <1>5 DEF CacheHonest
  <2>1. cache.value \in Allowed /\ offered[cache.value] <= cache.age
    BY DEF Explained, CacheHonest
  <2>2. offered'[cache.value] = Older(offered[cache.value])
    BY <1>2, <1>4
  <2>3. offered[cache.value] \in 0..CacheTTL
    BY <1>4
  <2>4. Older(offered[cache.value]) <= Older(cache.age)
    BY <1>2, <1>4, <2>1, <2>3, PathAssumption DEF Older
  <2>5. QED
    BY <1>5, <2>1, <2>2, <2>4
<1>9. QED
  BY <1>6, <1>7, <1>8 DEF Explained

-----------------------------------------------------------------------------
LEMMA ExplainedStep == Explained /\ [Next]_vars => Explained'
<1> SUFFICES ASSUME Explained, [Next]_vars
             PROVE  Explained'
  OBVIOUS
<1>1. ASSUME NEW s \in Services, RegisterElsewhere(s) \/ Forget(s)
      PROVE  Explained'
  <2>1. /\ UNCHANGED <<setup, client, call, cache, offered>>
        /\ directory' \in [Services -> Int]
    BY <1>1, ServerTypes DEF RegisterElsewhere, Forget
  <2>2. QED
    BY <2>1, QuietStep
<1>2. ASSUME NEW i \in Calls, Accept(i) \/ Drop(i)
      PROVE  Explained'
  <2>1. /\ UNCHANGED <<setup, client, call, cache, offered>>
        /\ directory' \in [Services -> Int]
    BY <1>2 DEF Accept, Drop, Explained, Typed
  <2>2. QED
    BY <2>1, QuietStep
<1>3. CASE UNCHANGED vars
  <2>1. /\ UNCHANGED <<setup, client, call, cache, offered>>
        /\ directory' \in [Services -> Int]
    BY <1>3 DEF vars, serverVars, Explained, Typed
  <2>2. QED
    BY <2>1, QuietStep
<1>4. QED
  BY <1>1, <1>2, <1>3, RegisterStep, QueryStep, AnsweredStep, TimesOutStep, TapStep,
     ProxyCallStep, HandleMessageStep, TickStep DEF Next

LEMMA ExplainedAlways == Spec => []Explained
BY ExplainedInit, ExplainedStep, PTL DEF Spec

-----------------------------------------------------------------------------
\* An OK for a REGISTER was earned by that request, with its capacity, however
\* requests and answers of other calls are lost, late or duplicated.
THEOREM OkIsEarned == Spec => []OkWasApplied
<1>1. Explained => OkWasApplied
  BY DEF Explained, Registers, OkWasApplied, SentCapacity, RegisterTLS,
         RegisterWithCapacity
<1>2. QED
  BY <1>1, ExplainedAlways, PTL

\* What a QUERY is answered was true of the directory when the server looked,
\* with FORBIDDEN read as NOTFOUND over UDP and TCP.
THEOREM AnswersExplained == Spec => []QueryExplained
<1>1. Explained => QueryExplained
  BY DEF Explained, Queries, QueryExplained, JustOffered
<1>2. QED
  BY <1>1, ExplainedAlways, PTL

\* The address a tap ends with, from the server or the shared cache, was given
\* by the server within the cache's time to live.
THEOREM ResolvedRecently == Spec => []ResolvedIsRecent
<1>1. ASSUME Explained
      PROVE  ResolvedIsRecent
  <2>1. \A t \in Taps : Resolves(t)
    BY <1>1 DEF Explained
  <2>2. CacheTTL \in Nat /\ CacheTTL > 0
    BY <1>1, ServerTypes
  <2>3. QED
    BY <2>1, <2>2 DEF Resolves, ResolvedIsRecent, JustOffered
<1>2. QED
  BY <1>1, ExplainedAlways, PTL
=============================================================================
