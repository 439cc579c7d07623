---------------------------- MODULE ProxyLifecycle ----------------------------
(***************************************************************************)
(* How the client proxy program starts and ends: main, the goroutine that  *)
(* waits for a signal, the one that runs the proxy, and with the dashboard *)
(* the one that watches the proxy and the ones that keys start.            *)
(*                                                                         *)
(* shutdown runs once and every caller waits for it.  The proxy itself is  *)
(* RequestPath; here it listens, or fails to, and returns when its context *)
(* is cancelled.  A process that is over takes no step.                    *)
(***************************************************************************)
EXTENDS Naturals

\* mode: the user interface, and whether the registry is a DHT.  pc: where
\* main ("main"), the signal goroutine ("signal"), the dashboard's watcher
\* ("watcher") and the handler of the key q ("key") are.  once: how far
\* shutdown is, and who runs it.  proxy, exited: the goroutine that runs the
\* proxy, and whether proxyExited is closed.  dht: dhtRegistry.  app: the
\* tview application; stopped: stopOnce of the dashboard.
\* History: signalled, a signal arrived; quit, q was pressed; early, shutdown
\* ran before main had started the DHT; unseen, the application was stopped
\* before it had a screen.
VARIABLES mode, pc, once, proxy, exited, dht, app, stopped,
          signalled, quit, early, unseen

proxyVars == <<mode, pc, once, proxy, exited, dht, app, stopped,
               signalled, quit, early, unseen>>

Modes == [ui : {"background", "prompt"}, p2p : BOOLEAN]
             \cup [ui : {"dashboard"}, p2p : {TRUE}]

ProxyInit ==
    /\ mode \in Modes
    /\ pc = [main |-> "starting", signal |-> "listening", watcher |-> "off",
             key |-> "off"]
    /\ once = [at |-> "free", by |-> "nobody"]
    /\ proxy = "off" /\ exited = FALSE
    /\ dht = "none"
    /\ app = "off" /\ stopped = FALSE
    /\ signalled = FALSE /\ quit = FALSE /\ early = FALSE /\ unseen = FALSE

Gone == pc.main = "gone"

Moves(g, from, to) ==
    /\ ~Gone
    /\ pc[g] = from
    /\ pc' = [pc EXCEPT ![g] = to]

\* Where main goes when the proxy runs.
Frontend == CASE mode.ui = "background" -> "awaiting"
              [] mode.ui = "dashboard" -> "screen"
              [] OTHER -> "reading"

-----------------------------------------------------------------------------
\* main.

\* With a DHT: NewDHTRegistry, which may fail.
CreateDHT ==
    /\ mode.p2p
    /\ \/ Moves("main", "starting", "created") /\ dht' = "created"
       \/ Moves("main", "starting", "gone") /\ UNCHANGED dht
    /\ UNCHANGED <<mode, once, proxy, exited, app, stopped, signalled, quit,
                   early, unseen>>

\* dhtRegistry.Start, or exit(1); the proxy goroutine starts.  A DHT that was
\* stopped before still opens its listener.
StartProxy ==
    /\ \/ /\ Moves("main", IF mode.p2p THEN "created" ELSE "starting", Frontend)
          /\ proxy' = "starting"
          /\ dht' = IF mode.p2p THEN "running" ELSE dht
       \/ /\ mode.p2p
          /\ Moves("main", "created", "gone")
          /\ UNCHANGED <<proxy, dht>>
    /\ UNCHANGED <<mode, once, exited, app, stopped, signalled, quit, early,
                   unseen>>

\* In the background: main returns, or exits with 1, when the proxy is over.
BackgroundEnds ==
    /\ Moves("main", "awaiting", "gone")
    /\ exited
    /\ UNCHANGED <<mode, once, proxy, exited, dht, app, stopped, signalled, quit,
                   early, unseen>>

\* quit, or the end of the input, at the prompt.
PromptEnds ==
    /\ Moves("main", "reading", "shutting")
    /\ UNCHANGED <<mode, once, proxy, exited, dht, app, stopped, signalled, quit,
                   early, unseen>>

\* Run of the dashboard starts the watcher ...
StartWatcher ==
    /\ ~Gone
    /\ pc.main = "screen" /\ pc.watcher = "off"
    /\ pc' = [pc EXCEPT !.watcher = "watching"]
    /\ UNCHANGED <<mode, once, proxy, exited, dht, app, stopped, signalled, quit,
                   early, unseen>>

\* ... and then app.Run gets a screen, or fails, whereupon the dashboard stops.
AppRuns ==
    /\ pc.watcher # "off" /\ app = "off"
    /\ \/ /\ Moves("main", "screen", "dashboard")
          /\ app' = "running"
          /\ UNCHANGED stopped
       \/ /\ Moves("main", "screen", "shutting")
          /\ stopped' = TRUE
          /\ UNCHANGED app
    /\ UNCHANGED <<mode, once, proxy, exited, dht, signalled, quit, early, unseen>>

\* app.Run returns.
AppEnds ==
    /\ app = "over"
    /\ Moves("main", "dashboard", "shutting")
    /\ UNCHANGED <<mode, once, proxy, exited, dht, app, stopped, signalled, quit,
                   early, unseen>>

-----------------------------------------------------------------------------
\* The proxy goroutine, and the one that closes proxyExited after it.

\* The proxy listens, or returns an error at once.
ProxyListens ==
    /\ ~Gone
    /\ proxy = "starting"
    /\ proxy' \in {"running", "returned"}
    /\ UNCHANGED <<mode, pc, once, exited, dht, app, stopped, signalled, quit,
                   early, unseen>>

Cancelled == once.at # "free"

ProxyReturns ==
    /\ ~Gone
    /\ proxy = "running" /\ Cancelled
    /\ proxy' = "returned"
    /\ UNCHANGED <<mode, pc, once, exited, dht, app, stopped, signalled, quit,
                   early, unseen>>

CloseExited ==
    /\ ~Gone
    /\ proxy = "returned" /\ ~exited
    /\ exited' = TRUE
    /\ UNCHANGED <<mode, pc, once, proxy, dht, app, stopped, signalled, quit,
                   early, unseen>>

-----------------------------------------------------------------------------
\* shutdown, called by goroutine g.

Callers == {"main", "signal", "watcher", "key"}

\* The first caller cancels the context ...
BeginShutdown(g) ==
    /\ ~Gone
    /\ pc[g] = "shutting" /\ once.at = "free"
    /\ once' = [at |-> "waiting", by |-> g]
    /\ UNCHANGED <<mode, pc, proxy, exited, dht, app, stopped, signalled, quit,
                   early, unseen>>

\* ... waits for the proxy, or for two seconds ...
WaitForProxy ==
    /\ ~Gone
    /\ once.at = "waiting"
    /\ once' = [once EXCEPT !.at = "stopping"]
    /\ UNCHANGED <<mode, pc, proxy, exited, dht, app, stopped, signalled, quit,
                   early, unseen>>

\* ... and stops the DHT if there is one.
StopDHT ==
    /\ ~Gone
    /\ once.at = "stopping"
    /\ once' = [once EXCEPT !.at = "done"]
    /\ dht' = IF dht = "none" THEN dht ELSE "stopped"
    /\ early' = (pc.main \in {"starting", "created"})
    /\ UNCHANGED <<mode, pc, proxy, exited, app, stopped, signalled, quit, unseen>>

\* What a caller does next: main ends the process, the dashboard's goroutines
\* stop the application.
After(g) == CASE g = "main" -> "gone"
              [] g = "signal" -> "over"
              [] OTHER -> "stopping"

ShutWithoutWaiting(g) ==
    /\ once.at = "done" \/ (once.at # "free" /\ once.by # g)
    /\ Moves(g, "shutting", After(g))
    /\ UNCHANGED <<mode, once, proxy, exited, dht, app, stopped, signalled, quit,
                   early, unseen>>

\* shutdownOnce.Do returns, to every caller, when the function has returned.
EndShutdown(g) ==
    /\ once.at = "done"
    /\ Moves(g, "shutting", After(g))
    /\ UNCHANGED <<mode, once, proxy, exited, dht, app, stopped, signalled, quit,
                   early, unseen>>

\* stop of the dashboard, once; app.Stop does nothing without a screen.
StopApp(g) ==
    /\ Moves(g, "stopping", "over")
    /\ stopped' = TRUE
    /\ app' = IF ~stopped /\ app = "running" THEN "over" ELSE app
    /\ unseen' = (unseen \/ (~stopped /\ app = "off"))
    /\ UNCHANGED <<mode, once, proxy, exited, dht, signalled, quit, early>>

-----------------------------------------------------------------------------
\* Who calls shutdown.

Signal ==
    /\ ~Gone /\ ~signalled
    /\ signalled' = TRUE
    /\ UNCHANGED <<mode, pc, once, proxy, exited, dht, app, stopped, quit, early,
                   unseen>>

HearUnlessPrompt ==
    /\ signalled /\ mode.ui # "prompt"
    /\ Moves("signal", "listening", "shutting")
    /\ UNCHANGED <<mode, once, proxy, exited, dht, app, stopped, signalled, quit,
                   early, unseen>>

HearSignal ==
    /\ signalled
    /\ Moves("signal", "listening", "shutting")
    /\ UNCHANGED <<mode, once, proxy, exited, dht, app, stopped, signalled, quit,
                   early, unseen>>

WatchStopOnly ==
    /\ stopped
    /\ Moves("watcher", "watching", "over")
    /\ UNCHANGED <<mode, once, proxy, exited, dht, app, stopped, signalled, quit,
                   early, unseen>>

\* The watcher sees that the proxy is over, or that the dashboard has stopped.
Watch ==
    /\ \/ exited /\ Moves("watcher", "watching", "shutting")
       \/ stopped /\ Moves("watcher", "watching", "over")
    /\ UNCHANGED <<mode, once, proxy, exited, dht, app, stopped, signalled, quit,
                   early, unseen>>

\* q, as often as the user likes.
PressQ ==
    /\ app = "running"
    /\ \E from \in {"off", "over"} : Moves("key", from, "shutting")
    /\ quit' = TRUE
    /\ UNCHANGED <<mode, once, proxy, exited, dht, app, stopped, signalled, early,
                   unseen>>

ProxyStep ==
    \/ CreateDHT \/ StartProxy \/ BackgroundEnds \/ StartWatcher \/ AppRuns
    \/ AppEnds \/ ProxyListens \/ ProxyReturns \/ CloseExited
    \/ WaitForProxy \/ StopDHT \/ HearSignal \/ Watch
    \/ \E g \in Callers : BeginShutdown(g) \/ EndShutdown(g) \/ StopApp(g)

ProxyOver == Gone /\ UNCHANGED proxyVars

ProxyNext == ProxyStep \/ PromptEnds \/ Signal \/ PressQ \/ ProxyOver

ProxySpec == ProxyInit /\ [][ProxyNext]_proxyVars

\* Every goroutine that can go on does.  Users and signals owe nothing.
ProxyFairness ==
    /\ WF_proxyVars(CreateDHT \/ StartProxy \/ BackgroundEnds \/ StartWatcher
                        \/ AppRuns \/ AppEnds)
    /\ WF_proxyVars(ProxyListens \/ ProxyReturns)
    /\ WF_proxyVars(CloseExited)
    /\ WF_proxyVars(WaitForProxy \/ StopDHT)
    /\ WF_proxyVars(HearSignal)
    /\ WF_proxyVars(Watch)
    /\ \A g \in Callers :
          WF_proxyVars(BeginShutdown(g) \/ EndShutdown(g) \/ StopApp(g))

-----------------------------------------------------------------------------
\* With a dashboard or a prompt the process never ends with a DHT that still
\* runs, whichever goroutines call shutdown at the same time, unless shutdown
\* was over before main started the DHT.  (In the background main returns
\* while the signal goroutine may still be in shutdown.)
ExitStopsDHT ==
    (Gone /\ mode.ui # "background" /\ dht = "running") => early

\* A signal stops the proxy in every mode, also one that comes while main is
\* still starting.
SignalStopsProxy == signalled ~> (Gone \/ proxy = "returned")

\* A signal, or a proxy that fails, ends the process in the background and
\* with the dashboard, unless the dashboard was stopped before it had a
\* screen.  (At the prompt main goes on reading until its input ends.)
ExitFollows ==
    ((signalled \/ exited) /\ mode.ui # "prompt") ~> (Gone \/ unseen)

\* "q quit" (the dashboard's footer): after q the process ends.
QuitQuits == quit ~> Gone
=============================================================================
