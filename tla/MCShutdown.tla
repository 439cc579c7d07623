------------------------------ MODULE MCShutdown ------------------------------
(***************************************************************************)
(* How the programs end: the stream servers of the transport and the       *)
(* client proxy.  A behaviour is one of the two.                           *)
(***************************************************************************)
EXTENDS TcpServer, ProxyLifecycle, TLC

CONSTANTS c1, c2, c3

VARIABLE part

MCInit ==
    /\ ServerInit /\ ProxyInit
    /\ \/ part = "server" /\ mode = [ui |-> "prompt", p2p |-> FALSE]
       \/ part = "proxy" /\ tls = FALSE

MCNext ==
    \/ /\ part = "server" /\ ServerNext /\ UNCHANGED <<part, proxyVars>>
       /\ tls => sock'[c3] = "new"   \* two clients come to the TLS server
    \/ part = "proxy" /\ ProxyNext /\ UNCHANGED <<part, tcpVars>>

MCSpec ==
    /\ MCInit /\ [][MCNext]_<<part, tcpVars, proxyVars>>
    /\ \/ part = "server" /\ ServerFairness
       \/ part = "proxy" /\ ProxyFairness
=============================================================================
