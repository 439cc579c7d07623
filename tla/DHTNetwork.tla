----------------------------- MODULE DHTNetwork -----------------------------
(***************************************************************************)
(* The nodes of the distributed hash table: membership by JOIN, discovery  *)
(* and pings, and one registration that is stored on the nodes closest to  *)
(* its task, looked up, expired and dropped.                               *)
(*                                                                         *)
(* A call is one or two steps: the receiver handles the message, and the   *)
(* caller uses the answer, so that both views may change in between.  A    *)
(* node has at most one Store or Find, one JOIN exchange and any number of *)
(* failed pings under way.  A registration is its age in ticks, Timeout    *)
(* meaning expired, or None.                                               *)
(*                                                                         *)
(* `acked' and `since' are history, for a period in which the nodes stay   *)
(* up and their views agree: the age of the last Store that succeeded, as  *)
(* counted from its start, and for each operation that started in the      *)
(* period, the time since it started for a Store and the age it had to     *)
(* find for a Find; Timeout when there is none.                            *)
(***************************************************************************)
EXTENDS HashRing, Lists, FiniteSetsExt

CONSTANTS
    Task,              \* HashTask of the task
    ReplicationFactor, \* k
    Bootstrap,         \* bootstrap nodes each node is started with
    Registrars,        \* nodes whose proxy registers the task
    Finders,           \* nodes whose proxy asks for it
    Timeout,           \* ServiceHeartbeatTimeout in ticks
    Budgets,           \* bounds: crashes, pings and calls lost, ticks, operations
    None

VARIABLES up, peers, storage, joining, listing, failing, op, budget,
          acked, since

system == <<up, peers, storage, joining, listing, failing, op, budget>>
vars == <<system, acked, since>>

ASSUME DHTAssumption ==
    /\ Task \in Positions
    /\ ReplicationFactor \in Nat \ {0}
    /\ Bootstrap \in [Nodes -> SUBSET Nodes]
    /\ Registrars \subseteq Nodes /\ Finders \subseteq Nodes
    /\ Timeout \in Nat \ {0}
    /\ None \notin Nodes /\ None \notin 0..Timeout /\ None \notin {"store", "find"}

Ages == 0..Timeout

\* `ok' is the set of nodes that successCount counts, `want' the nodes a Store
\* began with.
NoOp == [pc |-> "idle", kind |-> None, queue |-> <<>>, attempted |-> {},
         target |-> None, reply |-> <<>>, answer |-> None, ok |-> {}, want |-> {},
         failed |-> FALSE, refused |-> FALSE]

Spend(what) == budget[what] > 0 /\ budget' = [budget EXCEPT ![what] = @ - 1]

\* The k closest nodes in every view a node can have, and in its present one.
Closest ==
    [n \in Nodes |-> [known \in SUBSET Nodes |->
        FindKClosestNodes(n, known, Task, ReplicationFactor)]]

KClosest(n) == Closest[n][peers[n]]

AmIIn(n, known) == n \in Range(Closest[n][known])

\* The peers after AddPeer for each of new at node n.
AddPeers(n, new) == [peers EXCEPT ![n] = @ \cup new]

\* The storage after StoreTask at node n.
StoreTask(n) == [storage EXCEPT ![n] = 0]

Init ==
    /\ up = Nodes
    /\ peers = [n \in Nodes |-> {}]
    /\ storage = [n \in Nodes |-> None]
    /\ joining = [n \in Nodes |-> Bootstrap[n] # {}]
    /\ listing = [n \in Nodes |-> None]
    /\ failing = [n \in Nodes |-> {}]
    /\ op = [n \in Nodes |-> NoOp]
    /\ budget \in Budgets
    /\ acked = Timeout /\ since = [n \in Nodes |-> Timeout]

-----------------------------------------------------------------------------
\* Membership.

\* Mutation: the caller is on the list it gets.
AskBootstrapUnfiltered(n, b) ==
    /\ n \in up /\ b \in up /\ b \in Bootstrap[n] \ {n} /\ listing[n] = None
    /\ peers' = AddPeers(b, {n})
    /\ listing' = [listing EXCEPT ![n] =
           [peers |-> peers[b] \cup {n}, add |-> IF joining[n] THEN {b} ELSE {}]]
    /\ joining' = [joining EXCEPT ![n] = FALSE]
    /\ UNCHANGED <<up, storage, failing, op, budget>>

\* joinNetwork, or a round of peerDiscoveryLoop: the bootstrap node adds the
\* caller and answers with its peers.  (joinNetwork is over before the first
\* round.)
AskBootstrap(n, b) ==
    /\ n \in up /\ b \in up /\ b \in Bootstrap[n] \ {n} /\ listing[n] = None
    /\ peers' = AddPeers(b, {n})
    /\ listing' = [listing EXCEPT ![n] =
           [peers |-> peers[b] \ {n}, add |-> IF joining[n] THEN {b} ELSE {}]]
    /\ joining' = [joining EXCEPT ![n] = FALSE]
    /\ UNCHANGED <<up, storage, failing, op, budget>>

JoinFails(n, b) ==
    /\ n \in up /\ b \notin up /\ b \in Bootstrap[n] /\ joining[n]
    /\ joining' = [joining EXCEPT ![n] = FALSE]
    /\ UNCHANGED <<up, peers, storage, listing, failing, op, budget>>

\* The peers on the list are added, and by joinNetwork the bootstrap node.
AddListed(n) ==
    /\ listing[n] # None
    /\ peers' = AddPeers(n, listing[n].peers \cup listing[n].add)
    /\ listing' = [listing EXCEPT ![n] = None]
    /\ UNCHANGED <<up, storage, joining, failing, op, budget>>

\* A ping of the maintenance loop that is answered: the peer adds the sender.
Ping(n, p) ==
    /\ n \in up /\ p \in peers[n] \ {n} /\ p \in up /\ n \notin peers[p]
    /\ peers' = AddPeers(p, {n})
    /\ UNCHANGED <<up, storage, joining, listing, failing, op, budget>>

\* A ping that is not; pingPeer removes the peer when its call has failed,
\* whatever happened meanwhile.
PingFails(n, p) ==
    /\ n \in up /\ p \in peers[n] /\ p \notin failing[n]
    /\ IF p \in up THEN Spend("pings") ELSE UNCHANGED budget
    /\ failing' = [failing EXCEPT ![n] = @ \cup {p}]
    /\ UNCHANGED <<up, peers, storage, joining, listing, op>>

\* Mutation: the failed ping is only logged.
RemoveNothing(n, p) ==
    /\ p \in failing[n]
    /\ failing' = [failing EXCEPT ![n] = @ \ {p}]
    /\ UNCHANGED <<up, peers, storage, joining, listing, op, budget>>

RemovePeer(n, p) ==
    /\ p \in failing[n]
    /\ peers' = [peers EXCEPT ![n] = @ \ {p}]
    /\ failing' = [failing EXCEPT ![n] = @ \ {p}]
    /\ UNCHANGED <<up, storage, joining, listing, op, budget>>

CrashNode(n) ==
    /\ n \in up /\ Spend("crashes")
    /\ up' = up \ {n}
    /\ peers' = [peers EXCEPT ![n] = {}]
    /\ storage' = [storage EXCEPT ![n] = None]
    /\ listing' = [listing EXCEPT ![n] = None]
    /\ failing' = [failing EXCEPT ![n] = {}]
    /\ op' = [op EXCEPT ![n] = NoOp]
    /\ UNCHANGED joining

\* A node starts with nobody but itself on the ring.
Start(n) ==
    /\ n \notin up
    /\ up' = up \cup {n}
    /\ joining' = [joining EXCEPT ![n] = Bootstrap[n] # {}]
    /\ UNCHANGED <<peers, storage, listing, failing, op, budget>>

-----------------------------------------------------------------------------
\* The registration on the nodes.

\* The node stores and answers for the task.
Responsible(n, known) ==
    \/ Cardinality(known) + 1 <= ReplicationFactor
    \/ AmIIn(n, known)

Active(n) == storage[n] # None /\ storage[n] < Timeout

\* LookupTask at a node among the k closest, which does not forward.
LookupTask(n) == Active(n)

\* Mutation: one node fewer is responsible.
KeptByFewer(n) ==
    Active(n) /\ AmIInKClosest(n, peers[n], Task, ReplicationFactor - 1)

\* CleanupExpiredRegistrations and CleanupStaleData leave the registration.
Kept(n) == Active(n) /\ AmIIn(n, peers[n])

Maintain(n) ==
    /\ n \in up /\ storage[n] # None /\ ~Kept(n)
    /\ storage' = [storage EXCEPT ![n] = None]
    /\ UNCHANGED <<up, peers, joining, listing, failing, op, budget>>

-----------------------------------------------------------------------------
\* Store and Find.

StartStore(n) ==
    /\ n \in up /\ op[n].pc \in {"idle", "done"} /\ Spend("stores")
    /\ op' = [op EXCEPT ![n] = [NoOp EXCEPT
           !.pc = "next", !.kind = "store", !.queue = KClosest(n),
           !.want = Range(KClosest(n))]]
    /\ UNCHANGED <<up, peers, storage, joining, listing, failing>>

\* A node among the k closest looks at its own storage first.
StartFind(n) ==
    LET local == AmIIn(n, peers[n]) /\ LookupTask(n)
    IN  /\ n \in up /\ op[n].pc \in {"idle", "done"} /\ Spend("finds")
        /\ op' = [op EXCEPT ![n] = [NoOp EXCEPT
               !.pc = IF local THEN "done" ELSE "next", !.kind = "find",
               !.ok = IF local THEN {n} ELSE {}, !.attempted = {n},
               !.queue = IF local THEN <<>> ELSE KClosest(n)]]
        /\ UNCHANGED <<up, peers, storage, joining, listing, failing>>

\* Position in the queue of the next node that was not attempted, or 0.
NextUp(o) ==
    LET untried == {i \in DOMAIN o.queue : o.queue[i] \notin o.attempted}
    IN  IF untried = {} THEN 0 ELSE Min(untried)

\* Mutation: the first copy ends the Store.
FinishOnFirst(n) ==
    /\ op[n].pc = "next" /\ (NextUp(op[n]) = 0 \/ op[n].ok # {})
    /\ op' = [op EXCEPT ![n] = [@ EXCEPT !.pc = "done", !.queue = <<>>, !.attempted = {}]]
    /\ UNCHANGED <<up, peers, storage, joining, listing, failing, budget>>

\* The queue is exhausted.
Finish(n) ==
    /\ op[n].pc = "next" /\ NextUp(op[n]) = 0
    /\ op' = [op EXCEPT ![n] = [@ EXCEPT !.pc = "done", !.queue = <<>>, !.attempted = {}]]
    /\ UNCHANGED <<up, peers, storage, joining, listing, failing, budget>>

\* The next node is taken from the queue: the node itself stores, others are
\* called.
Attempt(n) ==
    LET i == NextUp(op[n])
        m == op[n].queue[i]
        rest == SubSeq(op[n].queue, i + 1, Len(op[n].queue))
    IN  /\ op[n].pc = "next" /\ i # 0
        /\ op' = [op EXCEPT ![n] = [op[n] EXCEPT
               !.queue = rest, !.attempted = @ \cup {m},
               !.pc = IF m = n THEN "next" ELSE "sent",
               !.target = IF m = n THEN None ELSE m,
               !.ok = IF m = n THEN @ \cup {n} ELSE @]]
        /\ storage' = IF m = n THEN StoreTask(n) ELSE storage
        /\ UNCHANGED <<up, peers, joining, listing, failing, budget>>

\* handleMessage at the target: it adds the sender, and then stores the
\* registration or names the nodes it finds closest, or looks it up.
handleMessage(n) ==
    LET m == op[n].target
        known == peers[m] \cup {n}
        mine == Responsible(m, known)
        answer == IF op[n].kind = "store"
                  THEN IF mine THEN "OK" ELSE "NOT_RESPONSIBLE"
                  ELSE IF mine /\ LookupTask(m) THEN "FOUND" ELSE "NOTFOUND"
    IN  /\ op[n].pc = "sent" /\ m \in up
        /\ peers' = AddPeers(m, {n})
        /\ storage' = IF answer = "OK" THEN StoreTask(m) ELSE storage
        /\ op' = [op EXCEPT ![n] = [@ EXCEPT
               !.pc = "replied", !.answer = answer,
               !.reply = IF answer = "NOT_RESPONSIBLE" THEN Closest[m][known] ELSE <<>>]]
        /\ UNCHANGED <<up, joining, listing, failing, budget>>

NextCall(o) == [o EXCEPT !.pc = "next", !.target = None, !.answer = None, !.reply = <<>>]

\* sendMessage fails, before or after the message was handled.
CallFails(n) ==
    /\ \/ op[n].pc = "sent" /\ op[n].target \notin up /\ UNCHANGED budget
       \/ op[n].pc \in {"sent", "replied"} /\ Spend("calls")
    /\ op' = [op EXCEPT ![n] = [NextCall(@) EXCEPT !.failed = TRUE]]
    /\ UNCHANGED <<up, peers, storage, joining, listing, failing>>

getFarthestDistance(attempted) == Max({Distance(Task, Position[m]) : m \in attempted})

\* Suggested nodes that are worth a call.
Closer(o) ==
    Subsequence(o.reply, {i \in DOMAIN o.reply :
        /\ o.reply[i] \notin o.attempted
        /\ Distance(Task, Position[o.reply[i]]) < getFarthestDistance(o.attempted)})

Answered(n, answer) ==
    /\ op[n].pc = "replied" /\ op[n].answer = answer
    /\ UNCHANGED <<up, storage, joining, listing, failing, budget>>

Stored(n) ==
    /\ Answered(n, "OK")
    /\ op' = [op EXCEPT ![n] = [NextCall(op[n]) EXCEPT !.ok = @ \cup {op[n].target}]]
    /\ UNCHANGED peers

\* Every suggested node becomes a peer, and closer ones are queued.
NotResponsible(n) ==
    /\ Answered(n, "NOT_RESPONSIBLE")
    /\ peers' = AddPeers(n, Range(op[n].reply))
    /\ op' = [op EXCEPT ![n] = [NextCall(op[n]) EXCEPT
           !.queue = @ \o Closer(op[n]), !.refused = TRUE]]

Found(n) ==
    /\ Answered(n, "FOUND")
    /\ op' = [op EXCEPT ![n] = [NextCall(@) EXCEPT
           !.pc = "done", !.ok = {op[n].target}, !.queue = <<>>, !.attempted = {}]]
    /\ UNCHANGED peers

NotFound(n) ==
    /\ Answered(n, "NOTFOUND")
    /\ op' = [op EXCEPT ![n] = NextCall(@)]
    /\ UNCHANGED peers

-----------------------------------------------------------------------------
Older(age) == Min({age + 1, Timeout})

Tick ==
    /\ Spend("ticks")
    /\ storage' = [n \in Nodes |-> IF storage[n] = None THEN None ELSE Older(storage[n])]
    /\ UNCHANGED <<up, peers, joining, listing, failing, op>>

Membership(n) ==
    \/ \E b \in Nodes : AskBootstrap(n, b) \/ JoinFails(n, b)
    \/ AddListed(n)
    \/ \E p \in Nodes : Ping(n, p) \/ PingFails(n, p) \/ RemovePeer(n, p)

Operation(n) ==
    \/ Finish(n) \/ Attempt(n) \/ handleMessage(n) \/ CallFails(n)
    \/ Stored(n) \/ NotResponsible(n) \/ Found(n) \/ NotFound(n)

Step ==
    \/ \E n \in Nodes : Membership(n) \/ Operation(n) \/ Maintain(n)
    \/ \E n \in Nodes : CrashNode(n) \/ Start(n)
    \/ \E n \in Registrars : StartStore(n)
    \/ \E n \in Finders : StartFind(n)

\* Every running node knows every running node and nobody else, apart from
\* listing itself among its peers.
Agreed == \A n \in up : peers[n] \ {n} = up \ {n}

Starts(n) == op'[n].kind # None /\ op'[n] # op[n] /\ op[n].pc \in {"idle", "done"}

\* A Find that starts asks all of the k closest nodes; a node that lists
\* itself as a peer asks fewer.
StartsAt(n) ==
    IF op'[n].kind = "store" THEN 0 ELSE IF n \in peers[n] THEN Timeout ELSE acked

\* What the history variables become, an age becoming Aged(age).
History(Aged(_)) ==
    LET acks == {n \in Nodes : /\ op[n].kind = "store" /\ op[n].pc = "next"
                               /\ op'[n].pc = "done" /\ op'[n].ok # {}}
    IN  IF Agreed' /\ up' = up
        THEN /\ acked' = Min({Aged(acked)} \cup {since[n] : n \in acks})
             /\ since' = [n \in Nodes |-> IF Starts(n) THEN StartsAt(n) ELSE Aged(since[n])]
        ELSE /\ acked' = Timeout
             /\ since' = [n \in Nodes |-> Timeout]

Next ==
    \/ Step /\ History(LAMBDA age : age)
    \/ Tick /\ History(Older)

Spec == Init /\ [][Next]_vars

\* peerDiscoveryLoop and maintenanceLoop of every running node go on.  Time
\* needs not pass, and nobody needs to start or to end an operation.
Discovery(n) == AddListed(n) \/ \E b \in Bootstrap[n] : AskBootstrap(n, b)

Pings(n) ==
    \E p \in Nodes : \/ Ping(n, p) \/ RemovePeer(n, p)
                     \/ p \notin up /\ PingFails(n, p)

Fairness ==
    \A n \in Nodes : WF_system(Discovery(n)) /\ WF_system(Pings(n))

FairSpec == Spec /\ Fairness

-----------------------------------------------------------------------------
\* Once a Store has succeeded while all views agreed, a Find that starts later
\* in the same period, and ends before the registration expires, finds it
\* unless a call of its own fails, although some of the calls of the Store may
\* have failed.
StoredThenFound ==
    \A n \in Nodes :
        op[n].kind = "find" /\ op[n].pc = "done" /\ since[n] < Timeout
            => op[n].ok # {} \/ op[n].failed

\* A Store that ends without a failed call and without a refusal has a copy
\* on each of the k closest nodes of the caller's view ("The k=3 closest nodes
\* store each task for fault tolerance", README.md); the views of the others
\* may only change who refuses.
CopiesUnlessRefused ==
    \A n \in Nodes :
        op[n].kind = "store" /\ op[n].pc = "done"
            => op[n].want \subseteq op[n].ok \/ op[n].failed \/ op[n].refused

\* A node becomes its own peer only through the nodes another one suggests
\* in NOT_RESPONSIBLE: Store adds them unseen.
SelfPeerFromRefusal ==
    [][\A n \in Nodes : n \in peers'[n] /\ n \notin peers[n] =>
          op[n].pc = "replied" /\ op[n].answer = "NOT_RESPONSIBLE"]_vars

\* When the crashes are over and the bootstrap nodes run, every running node
\* comes to know every running node, and the dead ones are forgotten although
\* lists and suggestions on their way name them again.
ViewsConverge ==
    <>[](\A n \in Nodes : Bootstrap[n] \subseteq up) => <>[]Agreed
=============================================================================
