--------------------------- MODULE DHTNetworkProofs ---------------------------
(***************************************************************************)
(* Theorems about the distributed hash table, for any nodes, positions,    *)
(* replication factor and timeout: what a Store leaves behind, what a Find *)
(* finds, and how a node becomes its own peer.                             *)
(***************************************************************************)
EXTENDS DHTOperationProofs

\* Nobody is told of itself in the list of a bootstrap node, and a node that
\* is down has nothing.
NodeKept(n) ==
    /\ listing[n] # None => n \notin listing[n].peers \cup listing[n].add
    /\ n \notin up =>
          peers[n] = {} /\ storage[n] = None /\ listing[n] = None /\ op[n] = NoOp

\* The inductive invariant behind all three theorems.
Working ==
    /\ up \subseteq Nodes
    /\ peers \in [Nodes -> SUBSET Nodes]
    /\ storage \in [Nodes -> Ages \cup {None}]
    /\ DOMAIN op = Nodes /\ DOMAIN listing = Nodes
    /\ \A n \in Nodes :
          /\ NodeKept(n) /\ OpKept(n, op[n])
          /\ listing[n] # None => listing[n].peers \cup listing[n].add \subseteq Nodes

\* Node m is one of the k closest and has a copy of at most the age.
Holds(m, age) == m \in Nearest /\ storage[m] # None /\ storage[m] <= age

Holders(age) == {m \in Nodes : Holds(m, age)}

\* A Store that runs in a period calls and stores on the k closest nodes.
Stores(o, held) ==
    o.kind = "store" /\ o.pc # "done" =>
        /\ Range(o.queue) \subseteq Nearest
        /\ Range(o.reply) \subseteq Nearest
        /\ o.ok # {} \/ (o.pc = "replied" /\ o.answer = "OK") => held # {}

\* A Find that runs in a period has found the registration or still has a
\* node to ask that holds it.
Finds(o, held) ==
    o.kind = "find" =>
        \/ o.failed
        \/ o.pc = "done" /\ o.ok # {}
        \/ o.pc = "replied" /\ o.answer = "FOUND"
        \/ \E m \in held :
              \/ o.pc # "done" /\ m \in Range(o.queue) /\ m \notin o.attempted
              \/ o.pc = "sent" /\ o.target = m

Pursues(o, held) == Stores(o, held) /\ Finds(o, held)

\* The inductive invariant of periods: the last Store that succeeded, and each
\* that is on its way and has stored, has a copy that is as young as itself on
\* one of the k closest nodes.
Period ==
    /\ acked \in Ages /\ since \in [Nodes -> Ages]
    /\ ~Agreed => acked = Timeout /\ \A n \in Nodes : since[n] = Timeout
    /\ acked < Timeout => Holders(acked) # {}
    /\ \A n \in Nodes : since[n] < Timeout => Pursues(op[n], Holders(since[n]))

-----------------------------------------------------------------------------
\* Every step keeps what Working says.

\* The k closest nodes of the present view.
LEMMA KClosestTyped ==
    ASSUME Working, NEW n \in Nodes
    PROVE  KClosest(n) \in Seq(Nodes)
<1>1. peers[n] \in SUBSET Nodes
  BY DEF Working
<1>. QED
  BY <1>1, ClosestTyped DEF KClosest

\* A step of an operation changes that operation alone.
LEMMA OneOperation ==
    ASSUME Working, NEW n \in Nodes, Operation(n) \/ StartStore(n) \/ StartFind(n)
    PROVE  /\ DOMAIN op' = Nodes
           /\ \A m \in Nodes : OpKept(m, op'[m])
           /\ \A m \in Nodes \ {n} : op'[m] = op[m]
<1>. DEFINE o == op[n]
<1>1. DOMAIN op = Nodes /\ \A m \in Nodes : OpKept(m, op[m])
  BY DEF Working
<1>2. SUFFICES \E p : OpKept(n, p) /\ op' = [op EXCEPT ![n] = p]
  BY <1>1
<1>3. OpKept(n, o) /\ o \in Ops
  BY <1>1 DEF OpKept
<1>4. CASE Finish(n)
  <2>1. OpKept(n, [o EXCEPT !.pc = "done", !.queue = <<>>, !.attempted = {}])
    BY <1>3, <1>4, KeptFinish, Zenon DEF Finish
  <2>. QED
    BY <1>4, <2>1, ZenonT(40) DEF Finish
<1>5. CASE Attempt(n)
  <2>. DEFINE i == NextUp(o)
              m == o.queue[i]
              p == [o EXCEPT
                  !.queue = SubSeq(o.queue, i + 1, Len(o.queue)),
                  !.attempted = @ \cup {m},
                  !.pc = IF m = n THEN "next" ELSE "sent",
                  !.target = IF m = n THEN None ELSE m,
                  !.ok = IF m = n THEN @ \cup {n} ELSE @]
  <2>1. o.pc = "next" /\ i # 0 /\ op' = [op EXCEPT ![n] = p]
    BY <1>5 DEF Attempt
  <2>2. OpKept(n, p)
    BY <1>3, <2>1, KeptAttempt, ZenonT(40)
  <2>. QED
    BY <2>1, <2>2, Zenon
<1>6. CASE handleMessage(n)
  <2>. DEFINE Answers == IF o.kind = "store" THEN {"OK", "NOT_RESPONSIBLE"}
                         ELSE {"FOUND", "NOTFOUND"}
  <2>1. /\ o.pc = "sent" /\ o.target \in Nodes /\ peers[o.target] \cup {n} \in SUBSET Nodes
        /\ Closest[o.target][peers[o.target] \cup {n}] \in Seq(Nodes) /\ <<>> \in Seq(Nodes)
    <3>1. o.pc = "sent" /\ o.target \in Nodes
      BY <1>3, <1>6 DEF handleMessage, OpKept, Phase
    <3>2. peers[o.target] \cup {n} \in SUBSET Nodes
      BY <3>1 DEF Working
    <3>. QED
      BY <3>1, <3>2, ClosestTyped
  <2>2. \E answer, reply :
          /\ reply \in Seq(Nodes)
          /\ answer \in Answers
          /\ op' = [op EXCEPT ![n] = [o EXCEPT !.pc = "replied", !.answer = answer,
                                               !.reply = reply]]
    BY <1>6, <2>1, Zenon DEF handleMessage
  <2>3. PICK answer, reply : /\ reply \in Seq(Nodes)
          /\ answer \in Answers
          /\ op' = [op EXCEPT ![n] = [o EXCEPT !.pc = "replied", !.answer = answer,
                                               !.reply = reply]]
    BY <2>2, ZenonT(40)
  <2>4. OpKept(n, [o EXCEPT !.pc = "replied", !.answer = answer, !.reply = reply])
    BY <1>3, <2>1, <2>3, KeptReply, Zenon
  <2>. QED
    BY <2>3, <2>4, Zenon
<1>7. CASE CallFails(n)
  <2>1. o.pc \in {"sent", "replied"} /\ op' = [op EXCEPT ![n] = [NextCall(o) EXCEPT !.failed = TRUE]]
    BY <1>7 DEF CallFails
  <2>2. OpKept(n, [NextCall(o) EXCEPT !.failed = TRUE])
    BY <1>3, <2>1, KeptCallFails
  <2>. QED
    BY <2>1, <2>2, Zenon
<1>8. CASE Stored(n)
  <2>1. OpKept(n, [NextCall(o) EXCEPT !.ok = @ \cup {o.target}])
    BY <1>3, <1>8, KeptStored DEF Stored, Answered
  <2>. QED
    BY <1>8, <2>1, Zenon DEF Stored
<1>9. CASE NotResponsible(n)
  <2>1. OpKept(n, [NextCall(o) EXCEPT !.queue = @ \o Closer(o), !.refused = TRUE])
    BY <1>3, <1>9, KeptNotResponsible, Zenon DEF NotResponsible, Answered
  <2>. QED
    BY <1>9, <2>1, Zenon DEF NotResponsible
<1>10. CASE Found(n)
  <2>1. OpKept(n, [NextCall(o) EXCEPT !.pc = "done", !.ok = {o.target}, !.queue = <<>>,
                                      !.attempted = {}])
    BY <1>3, <1>10, KeptFound, Zenon DEF Found, Answered
  <2>. QED
    BY <1>10, <2>1, Zenon DEF Found
<1>11. CASE NotFound(n)
  <2>1. OpKept(n, NextCall(o))
    BY <1>3, <1>11, KeptNotFound DEF NotFound, Answered
  <2>. QED
    BY <1>11, <2>1, Zenon DEF NotFound
<1>12. CASE StartStore(n)
  <2>1. OpKept(n, [NoOp EXCEPT !.pc = "next", !.kind = "store", !.queue = KClosest(n),
                               !.want = Range(KClosest(n))])
    BY KClosestTyped, KeptStartStore, Zenon
  <2>. QED
    BY <1>12, <2>1, Zenon DEF StartStore
<1>13. CASE StartFind(n)
  <2>. DEFINE local == AmIIn(n, peers[n]) /\ LookupTask(n)
              pc == IF local THEN "done" ELSE "next"
              ok == IF local THEN {n} ELSE {}
              queue == IF local THEN <<>> ELSE KClosest(n)
  <2>1. pc \in {"next", "done"} /\ ok \in SUBSET Nodes /\ queue \in Seq(Nodes)
    BY KClosestTyped, <<>> \in Seq(Nodes)
  <2>2. op' = [op EXCEPT ![n] = [NoOp EXCEPT !.pc = pc, !.kind = "find", !.ok = ok,
                                             !.attempted = {n}, !.queue = queue]]
    BY <1>13, Zenon DEF StartFind
  <2>. HIDE DEF pc, ok, queue
  <2>3. OpKept(n, [NoOp EXCEPT !.pc = pc, !.kind = "find", !.ok = ok,
                               !.attempted = {n}, !.queue = queue])
    BY <2>1, KeptStartFind, Zenon
  <2>. QED
    BY <2>2, <2>3, Zenon
<1>. QED
  BY <1>4, <1>5, <1>6, <1>7, <1>8, <1>9, <1>10, <1>11, <1>12, <1>13 DEF Operation
\* Working is about each node alone.
LEMMA NodesWork ==
    ASSUME Working, NEW n \in Nodes, up' \subseteq Nodes,
           NEW known \in SUBSET Nodes, peers' = [peers EXCEPT ![n] = known],
           n \notin up' => known = {}, \A m \in Nodes \ {n} : m \in up <=> m \in up',
           storage' \in [Nodes -> Ages \cup {None}],
           \A m \in Nodes : m \notin up' => storage'[m] = None,
           DOMAIN op' = Nodes, \A m \in Nodes : OpKept(m, op'[m]),
           \A m \in Nodes : m \notin up' => op'[m] = NoOp,
           DOMAIN listing' = Nodes, \A m \in Nodes : m \notin up' => listing'[m] = None,
           \A m \in Nodes : listing'[m] # None =>
               listing'[m].peers \cup listing'[m].add \subseteq Nodes \ {m}
    PROVE  Working'
<1>1. peers' \in [Nodes -> SUBSET Nodes]
  BY DEF Working
<1>2. \A m \in Nodes : m \notin up' => peers'[m] = {}
  BY DEF Working, NodeKept
<1>3. ASSUME NEW m \in Nodes
      PROVE  NodeKept(m)'
  <2>1. m \notin up' => /\ peers'[m] = {} /\ storage'[m] = None
                         /\ listing'[m] = None /\ op'[m] = NoOp
    BY <1>2
  <2>2. listing'[m] # None => m \notin listing'[m].peers \cup listing'[m].add
    OBVIOUS
  <2>. QED
    BY <2>1, <2>2, Zenon DEF NodeKept
<1>4. \A m \in Nodes : OpKept(m, op[m])'
  BY DEF OpKept, Phase, Copying
<1>5. \A m \in Nodes : listing'[m] # None => listing'[m].peers \cup listing'[m].add \subseteq Nodes
  OBVIOUS
<1>. QED
  BY <1>1, <1>3, <1>4, <1>5, Zenon DEF Working

\* What is the same for all nodes.
LEMMA Works ==
    ASSUME Working
    PROVE  /\ up \subseteq Nodes
           /\ peers \in [Nodes -> SUBSET Nodes]
           /\ storage \in [Nodes -> Ages \cup {None}]
           /\ DOMAIN op = Nodes /\ DOMAIN listing = Nodes
           /\ \A m \in Nodes : OpKept(m, op[m])
           /\ \A m \in Nodes : m \notin up =>
                  peers[m] = {} /\ storage[m] = None /\ listing[m] = None /\ op[m] = NoOp
           /\ \A m \in Nodes : listing[m] # None =>
                  listing[m].peers \cup listing[m].add \subseteq Nodes \ {m}
  BY DEF Working, NodeKept

\* The storage of one node.
LEMMA StorageWorks ==
    ASSUME Working, NEW n \in up, NEW age \in {0, None}
    PROVE  /\ [storage EXCEPT ![n] = age] \in [Nodes -> Ages \cup {None}]
           /\ \A m \in Nodes : m \notin up => [storage EXCEPT ![n] = age][m] = None
<1>1. n \in Nodes /\ 0 \in Ages
  BY Works, DHTAssumption DEF Ages
<1>. QED
  BY <1>1, Works
\* Every step of a node.
LEMMA MembershipWorks ==
    ASSUME Working, NEW n \in Nodes,
           Membership(n) \/ CrashNode(n) \/ Start(n) \/ Maintain(n)
    PROVE  Working'
<1>. USE Works
<1>1. CASE \E b \in Nodes : AskBootstrap(n, b)
  <2>1. PICK b \in Nodes : AskBootstrap(n, b)
    BY <1>1
  <2>. DEFINE told == [peers |-> peers[b] \ {n}, add |-> IF joining[n] THEN {b} ELSE {}]
  <2>2. /\ n \in up /\ b \in up /\ b # n
        /\ peers' = [peers EXCEPT ![b] = peers[b] \cup {n}]
        /\ listing' = [listing EXCEPT ![n] = told]
        /\ UNCHANGED <<up, storage, op>>
    BY <2>1 DEF AskBootstrap, AddPeers
  <2>3. told.peers \cup told.add \subseteq Nodes \ {n}
    BY <2>2
  <2>. HIDE DEF told
  <2>4. /\ \A m \in Nodes : m \notin up' => listing'[m] = None
        /\ \A m \in Nodes : listing'[m] # None =>
               listing'[m].peers \cup listing'[m].add \subseteq Nodes \ {m}
    BY <2>2, <2>3
  <2>5. peers[b] \cup {n} \in SUBSET Nodes
    OBVIOUS
  <2>6. /\ up' \subseteq Nodes /\ b \in up' /\ \A m \in Nodes \ {b} : m \in up <=> m \in up'
        /\ storage' \in [Nodes -> Ages \cup {None}]
        /\ \A m \in Nodes : m \notin up' => storage'[m] = None
        /\ DOMAIN op' = Nodes /\ \A m \in Nodes : OpKept(m, op'[m])
        /\ \A m \in Nodes : m \notin up' => op'[m] = NoOp
        /\ DOMAIN listing' = Nodes
    BY <2>2
  <2>7. peers' = [peers EXCEPT ![b] = peers[b] \cup {n}]
    BY <2>2
  <2>. QED
    BY <2>4, <2>5, <2>6, <2>7, NodesWork, Zenon
<1>2. CASE (\E b \in Nodes : JoinFails(n, b)) \/ \E p \in Nodes : PingFails(n, p)
  <2>1. UNCHANGED <<up, peers, storage, op, listing>>
    BY <1>2 DEF JoinFails, PingFails
  <2>2. peers' = [peers EXCEPT ![n] = peers[n]] /\ peers[n] \in SUBSET Nodes
    BY <2>1
  <2>. QED
    BY <2>1, <2>2, NodesWork, ZenonT(40)
<1>3. CASE AddListed(n)
  <2>. DEFINE known == peers[n] \cup (listing[n].peers \cup listing[n].add)
  <2>1. /\ listing[n] # None /\ n \in up
        /\ peers' = [peers EXCEPT ![n] = known]
        /\ listing' = [listing EXCEPT ![n] = None]
        /\ UNCHANGED <<up, storage, op>>
    BY <1>3 DEF AddListed, AddPeers
  <2>2. known \in SUBSET Nodes
    BY <2>1
  <2>. HIDE DEF known
  <2>3. /\ \A m \in Nodes : m \notin up' => listing'[m] = None
        /\ \A m \in Nodes : listing'[m] # None =>
               listing'[m].peers \cup listing'[m].add \subseteq Nodes \ {m}
    BY <2>1
  <2>. QED
    BY <2>1, <2>2, <2>3, NodesWork, ZenonT(40)
<1>4. CASE \E p \in Nodes : Ping(n, p)
  <2>1. PICK p \in Nodes : Ping(n, p)
    BY <1>4
  <2>2. /\ p \in up /\ peers' = [peers EXCEPT ![p] = peers[p] \cup {n}]
        /\ UNCHANGED <<up, storage, op, listing>> /\ peers[p] \cup {n} \in SUBSET Nodes
    BY <2>1 DEF Ping, AddPeers
  <2>. QED
    BY <2>2, NodesWork, Zenon
<1>5. CASE \E p \in Nodes : RemovePeer(n, p)
  <2>1. PICK p \in Nodes : RemovePeer(n, p)
    BY <1>5
  <2>2. /\ peers' = [peers EXCEPT ![n] = peers[n] \ {p}]
        /\ UNCHANGED <<up, storage, op, listing>> /\ peers[n] \ {p} \in SUBSET Nodes
        /\ n \notin up' => peers[n] \ {p} = {}
    BY <2>1 DEF RemovePeer
  <2>. QED
    BY <2>2, NodesWork, Zenon
<1>6. CASE CrashNode(n)
  <2>1. /\ n \in up /\ up' = up \ {n} /\ peers' = [peers EXCEPT ![n] = {}]
        /\ storage' = [storage EXCEPT ![n] = None]
        /\ listing' = [listing EXCEPT ![n] = None] /\ op' = [op EXCEPT ![n] = NoOp]
    BY <1>6 DEF CrashNode
  <2>2. /\ storage' \in [Nodes -> Ages \cup {None}]
        /\ \A m \in Nodes : m \notin up' => storage'[m] = None
    BY <2>1
  <2>3. /\ DOMAIN op' = Nodes /\ \A m \in Nodes : OpKept(m, op'[m])
        /\ \A m \in Nodes : m \notin up' => op'[m] = NoOp
    BY <2>1, KeptNoOp
  <2>4. /\ DOMAIN listing' = Nodes /\ \A m \in Nodes : m \notin up' => listing'[m] = None
        /\ \A m \in Nodes : listing'[m] # None =>
               listing'[m].peers \cup listing'[m].add \subseteq Nodes \ {m}
    BY <2>1
  <2>5. /\ up' \subseteq Nodes /\ {} \in SUBSET Nodes
        /\ \A m \in Nodes \ {n} : m \in up <=> m \in up'
    BY <2>1
  <2>. QED
    BY <2>1, <2>2, <2>3, <2>4, <2>5, NodesWork, ZenonT(40)
<1>7. CASE Start(n)
  <2>1. n \notin up /\ up' = up \cup {n} /\ UNCHANGED <<peers, storage, listing, op>>
    BY <1>7 DEF Start
  <2>2. /\ peers' = [peers EXCEPT ![n] = peers[n]] /\ peers[n] \in SUBSET Nodes
        /\ up' \subseteq Nodes /\ n \in up' /\ \A m \in Nodes : m \notin up' => m \notin up
        /\ \A m \in Nodes \ {n} : m \in up <=> m \in up'
    BY <2>1
  <2>. QED
    BY <2>1, <2>2, NodesWork, ZenonT(40)
<1>8. CASE Maintain(n)
  <2>1. /\ n \in up /\ storage' = [storage EXCEPT ![n] = None]
        /\ UNCHANGED <<up, peers, op, listing>>
    BY <1>8 DEF Maintain
  <2>2. /\ storage' \in [Nodes -> Ages \cup {None}]
        /\ \A m \in Nodes : m \notin up' => storage'[m] = None
    BY <2>1
  <2>3. peers' = [peers EXCEPT ![n] = peers[n]] /\ peers[n] \in SUBSET Nodes
    BY <2>1
  <2>. QED
    BY <2>1, <2>2, <2>3, NodesWork, ZenonT(40)
<1>. QED
  BY <1>1, <1>2, <1>3, <1>4, <1>5, <1>6, <1>7, <1>8 DEF Membership
\* Only a node that is up has an operation.
LEMMA Running ==
    ASSUME Working, NEW n \in Nodes, op[n].pc # "idle"
    PROVE  n \in up
  BY Works DEF NoOp

\* What a step of an operation does to the views and to the storage.
LEMMA OperationEffects ==
    ASSUME Working, NEW n \in Nodes, Operation(n)
    PROVE  /\ n \in up /\ UNCHANGED <<up, listing>>
           /\ \E m \in up, new \in SUBSET Nodes :
                 /\ peers' = [peers EXCEPT ![m] = peers[m] \cup new]
                 /\ storage' = storage \/ storage' = [storage EXCEPT ![m] = 0]
<1>. USE Works
<1>1. CASE Finish(n) \/ CallFails(n) \/ Stored(n) \/ Found(n) \/ NotFound(n)
  <2>1. UNCHANGED <<up, listing, peers, storage>> /\ op[n].pc # "idle"
    BY <1>1 DEF Finish, CallFails, Stored, Found, NotFound, Answered
  <2>2. n \in up /\ peers' = [peers EXCEPT ![n] = peers[n] \cup {}] /\ {} \in SUBSET Nodes
    BY <2>1, Running
  <2>. QED
    BY <2>1, <2>2, ZenonT(40)
<1>2. CASE Attempt(n)
  <2>1. /\ UNCHANGED <<up, listing, peers>> /\ op[n].pc # "idle"
        /\ storage' = storage \/ storage' = [storage EXCEPT ![n] = 0]
    BY <1>2 DEF Attempt, StoreTask
  <2>2. n \in up /\ peers' = [peers EXCEPT ![n] = peers[n] \cup {}] /\ {} \in SUBSET Nodes
    BY <2>1, Running
  <2>. QED
    BY <2>1, <2>2, Zenon
<1>3. CASE handleMessage(n)
  <2>. DEFINE m == op[n].target
  <2>1. /\ UNCHANGED <<up, listing>> /\ op[n].pc # "idle" /\ m \in up
        /\ peers' = [peers EXCEPT ![m] = peers[m] \cup {n}]
        /\ storage' = storage \/ storage' = [storage EXCEPT ![m] = 0]
    BY <1>3 DEF handleMessage, StoreTask, AddPeers
  <2>2. n \in up /\ {n} \in SUBSET Nodes
    BY <2>1, Running
  <2>. QED
    BY <2>1, <2>2, Zenon
<1>4. CASE NotResponsible(n)
  <2>. DEFINE new == Range(op[n].reply)
  <2>1. /\ UNCHANGED <<up, listing, storage>> /\ op[n].pc # "idle"
        /\ peers' = [peers EXCEPT ![n] = peers[n] \cup new]
    BY <1>4 DEF NotResponsible, Answered, AddPeers
  <2>2. op[n].reply \in Seq(Nodes)
    BY DEF OpKept, Ops
  <2>3. n \in up /\ new \in SUBSET Nodes
    BY <2>1, <2>2, Running DEF Range
  <2>. QED
    BY <2>1, <2>3, ZenonT(40)
<1>. QED
  BY <1>1, <1>2, <1>3, <1>4, Zenon DEF Operation

LEMMA OperationWorks ==
    ASSUME Working, NEW n \in Nodes, Operation(n) \/ StartStore(n) \/ StartFind(n)
    PROVE  Working'
<1>. USE Works
<1>1. /\ n \in up /\ UNCHANGED <<up, listing>>
      /\ \E m \in up, new \in SUBSET Nodes :
            /\ peers' = [peers EXCEPT ![m] = peers[m] \cup new]
            /\ storage' = storage \/ storage' = [storage EXCEPT ![m] = 0]
  <2>1. CASE Operation(n)
    BY <2>1, OperationEffects, Zenon
  <2>2. CASE StartStore(n) \/ StartFind(n)
    <3>1. n \in up /\ UNCHANGED <<up, listing, peers, storage>>
      BY <2>2 DEF StartStore, StartFind
    <3>2. peers' = [peers EXCEPT ![n] = peers[n] \cup {}] /\ {} \in SUBSET Nodes
      BY <3>1
    <3>. QED
      BY <3>1, <3>2, Zenon
  <2>. QED
    BY <2>1, <2>2, Zenon
<1>2. PICK m \in up, new \in SUBSET Nodes :
            /\ peers' = [peers EXCEPT ![m] = peers[m] \cup new]
            /\ storage' = storage \/ storage' = [storage EXCEPT ![m] = 0]
  BY <1>1, ZenonT(40)
<1>3. /\ storage' \in [Nodes -> Ages \cup {None}]
      /\ \A q \in Nodes : q \notin up => storage'[q] = None
  BY <1>2, StorageWorks
<1>4. /\ DOMAIN op' = Nodes /\ \A q \in Nodes : OpKept(q, op'[q])
      /\ \A q \in Nodes \ {n} : op'[q] = op[q]
  BY OneOperation, Zenon
<1>5. \A q \in Nodes : q \notin up => op'[q] = NoOp
  BY <1>1, <1>4
<1>6. m \in Nodes /\ peers[m] \cup new \in SUBSET Nodes /\ m \in up'
  BY <1>1, <1>2
<1>7. /\ up' \subseteq Nodes /\ \A q \in Nodes \ {m} : q \in up <=> q \in up'
      /\ \A q \in Nodes : q \notin up' => storage'[q] = None /\ op'[q] = NoOp
      /\ DOMAIN listing' = Nodes /\ \A q \in Nodes : q \notin up' => listing'[q] = None
      /\ \A q \in Nodes : listing'[q] # None =>
             listing'[q].peers \cup listing'[q].add \subseteq Nodes \ {q}
  BY <1>1, <1>3, <1>5, SMTT(20)
<1>8. peers' = [peers EXCEPT ![m] = peers[m] \cup new]
  BY <1>2
<1>. QED
  BY <1>3, <1>4, <1>6, <1>7, <1>8, NodesWork, ZenonT(40)

LEMMA OlderIs ==
    ASSUME NEW age \in Ages
    PROVE  Older(age) \in Ages /\ Older(age) = IF age < Timeout THEN age + 1 ELSE Timeout
<1>. DEFINE ages == {age + 1, Timeout}
            low == IF age < Timeout THEN age + 1 ELSE Timeout
<1>1. low \in ages /\ \A x \in ages : low <= x
  BY DHTAssumption DEF Ages
<1>2. Min(ages) = low
  BY <1>1, DHTAssumption DEF Min, Ages
<1>. QED
  BY <1>2, DHTAssumption DEF Older, Ages

LEMMA TickWorks ==
    ASSUME Working, Tick
    PROVE  Working'
<1>. USE Works
<1>1. /\ storage' = [n \in Nodes |-> IF storage[n] = None THEN None ELSE Older(storage[n])]
      /\ UNCHANGED <<up, peers, listing, op>>
  BY DEF Tick
<1>2. /\ storage' \in [Nodes -> Ages \cup {None}]
      /\ \A m \in Nodes : m \notin up => storage'[m] = None
  BY <1>1, OlderIs
<1>3. ASSUME NEW n \in Nodes
      PROVE  Working'
  <2>1. peers' = [peers EXCEPT ![n] = peers[n]] /\ peers[n] \in SUBSET Nodes
    BY <1>1
  <2>. QED
    BY <1>1, <1>2, <2>1, NodesWork, ZenonT(40)
<1>4. CASE Nodes = {}
  BY <1>1, <1>2, <1>4 DEF Working
<1>. QED
  BY <1>3, <1>4
LEMMA WorkingInit ==
    ASSUME Init
    PROVE  Working
<1>1. /\ up \subseteq Nodes /\ peers \in [Nodes -> SUBSET Nodes]
      /\ storage \in [Nodes -> Ages \cup {None}]
      /\ DOMAIN op = Nodes /\ DOMAIN listing = Nodes
      /\ \A n \in Nodes : n \in up /\ listing[n] = None /\ op[n] = NoOp
  BY DEF Init
<1>2. \A n \in Nodes : OpKept(n, op[n])
  BY <1>1, KeptNoOp
<1>. QED
  BY <1>1, <1>2, Zenon DEF Working, NodeKept

LEMMA WorkingStep ==
    ASSUME Working, [Next]_vars
    PROVE  Working'
<1>1. CASE Step
  <2>1. Registrars \subseteq Nodes /\ Finders \subseteq Nodes
    BY DHTAssumption
  <2>2. CASE \E n \in Nodes : Membership(n) \/ CrashNode(n) \/ Start(n) \/ Maintain(n)
    BY <2>2, MembershipWorks, Zenon
  <2>3. CASE \E n \in Nodes : Operation(n) \/ StartStore(n) \/ StartFind(n)
    BY <2>3, OperationWorks, Zenon
  <2>. QED
    BY <1>1, <2>1, <2>2, <2>3, Zenon DEF Step
<1>2. CASE Tick
  BY <1>2, TickWorks
<1>3. CASE UNCHANGED vars
  BY <1>3 DEF vars, system, Working, NodeKept, OpKept, Phase, Copying
<1>. QED
  BY <1>1, <1>2, <1>3 DEF Next

LEMMA AlwaysWorking == Spec => []Working
<1>. QED
  BY WorkingInit, WorkingStep, PTL DEF Spec

\* A Store that ends without a failed call and without a refusal has a copy on
\* each of the k closest nodes of the view it began with, whatever the other
\* nodes know and however views change meanwhile (Store in
\* distributed_hash_table.go walks a queue that its own answers extend).
THEOREM NoCopyMissing == Spec => []CopiesUnlessRefused
<1>1. Working => CopiesUnlessRefused
  BY Zenon DEF Working, OpKept, Copying, CopiesUnlessRefused
<1>. QED
  BY <1>1, AlwaysWorking, PTL

\* A node never becomes its own peer by JOIN, discovery or pings, but only
\* when a refused Store adds the nodes suggested to it: the bootstrap node
\* leaves the caller out of its list, and nobody calls itself.
THEOREM OwnPeerByRefusal == Spec => SelfPeerFromRefusal
<1>. DEFINE Refused(n) == op[n].pc = "replied" /\ op[n].answer = "NOT_RESPONSIBLE"
            Only == \A n \in Nodes : n \in peers'[n] /\ n \notin peers[n] => Refused(n)
<1>1. ASSUME Working, [Next]_vars
      PROVE  [Only]_vars
  <2>. USE <1>1, Works
  <2>. SUFFICES ASSUME NEW n \in Nodes, n \in peers'[n], n \notin peers[n] PROVE Refused(n)
    OBVIOUS
  <2>1. CASE peers' = peers
    BY <2>1
  <2>2. CASE \E m, b \in Nodes : AskBootstrap(m, b) \/ Ping(m, b)
    BY <2>2 DEF AskBootstrap, Ping, AddPeers
  <2>3. CASE \E m \in Nodes : AddListed(m)
    BY <2>3 DEF AddListed, AddPeers
  <2>4. CASE \E m, p \in Nodes : RemovePeer(m, p)
    BY <2>4 DEF RemovePeer
  <2>5. CASE \E m \in Nodes : CrashNode(m)
    BY <2>5 DEF CrashNode
  <2>6. CASE \E m \in Nodes : handleMessage(m)
    <3>1. PICK m \in Nodes : handleMessage(m)
      BY <2>6
    <3>2. op[m].target \in Nodes \ {m}
      BY <3>1 DEF handleMessage, OpKept, Phase
    <3>3. peers' = [peers EXCEPT ![op[m].target] = peers[op[m].target] \cup {m}]
      BY <3>1 DEF handleMessage, AddPeers
    <3>. QED
      BY <3>2, <3>3
  <2>7. CASE \E m \in Nodes : NotResponsible(m)
    BY <2>7 DEF NotResponsible, Answered, AddPeers
  <2>8. CASE \E m \in Nodes : \/ Finish(m) \/ Attempt(m) \/ CallFails(m) \/ Stored(m) \/ Found(m)
                              \/ NotFound(m) \/ Maintain(m) \/ Start(m) \/ StartStore(m)
                              \/ StartFind(m) \/ \E b \in Nodes : JoinFails(m, b) \/ PingFails(m, b)
    <3>1. peers' = peers
      BY <2>8 DEF Finish, Attempt, CallFails, Stored, Found, NotFound, Maintain, Start,
                  StartStore, StartFind, JoinFails, PingFails, Answered
    <3>. QED
      BY <3>1
  <2>9. CASE Tick \/ UNCHANGED vars
    <3>1. peers' = peers
      BY <2>9 DEF Tick, vars, system
    <3>. QED
      BY <3>1
  <2>10. Registrars \subseteq Nodes /\ Finders \subseteq Nodes
    BY DHTAssumption
  <2>. QED
    BY <2>2, <2>3, <2>4, <2>5, <2>6, <2>7, <2>8, <2>9, <2>10, Zenon
       DEF Next, Step, Membership, Operation
<1>. QED
  BY <1>1, AlwaysWorking, PTL DEF Spec, SelfPeerFromRefusal
-----------------------------------------------------------------------------
\* Every step keeps what Period says.

\* In a period a copy that has not expired stays where it is: maintenance
\* drops it only at a node that is not among the k closest.
LEMMA CopyStays ==
    ASSUME Working, Step, Agreed, up' = up,
           NEW m \in Nodes, NEW age \in Ages, age < Timeout, Holds(m, age)
    PROVE  Holds(m, age)'
<1>. USE Works
<1>1. Nearest' = Nearest /\ m \in Nearest /\ m \in up
  BY DEF Nearest, Holds
<1>2. storage[m] # None /\ storage[m] \in Ages /\ storage[m] <= age
  BY DEF Holds
<1>3. SUFFICES storage'[m] = storage[m] \/ storage'[m] = 0
  BY <1>1, <1>2, DHTAssumption DEF Holds, Ages
<1>4. ASSUME NEW n \in Nodes, Operation(n)
      PROVE  storage'[m] = storage[m] \/ storage'[m] = 0
  <2>1. \E q \in up, new \in SUBSET Nodes :
                 /\ peers' = [peers EXCEPT ![q] = peers[q] \cup new]
                 /\ storage' = storage \/ storage' = [storage EXCEPT ![q] = 0]
    BY <1>4, OperationEffects, Zenon
  <2>. QED
    BY <2>1
<1>5. ASSUME NEW n \in Nodes, Maintain(n)
      PROVE  storage'[m] = storage[m]
  <2>1. /\ n \in up /\ ~Kept(n) /\ storage' = [storage EXCEPT ![n] = None]
        /\ peers' = peers
    BY <1>5, ZenonT(40) DEF Maintain
  <2>2. SUFFICES m # n
    BY <2>1
  <2>3. peers[m] \ {m} = up \ {m} /\ peers[m] \in SUBSET Nodes
    BY <1>1 DEF Agreed
  <2>4. AmIIn(m, peers[m])
    BY <1>1, <2>3, ViewOfNearest
  <2>5. Active(m)
    BY <1>2, DHTAssumption DEF Active, Ages
  <2>. QED
    BY <2>1, <2>4, <2>5 DEF Kept
<1>6. ASSUME NEW n \in Nodes, CrashNode(n)
      PROVE  FALSE
  BY <1>6 DEF CrashNode
<1>7. ASSUME NEW n \in Nodes, Membership(n) \/ Start(n) \/ StartStore(n) \/ StartFind(n)
      PROVE  storage' = storage
  BY <1>7 DEF Membership, AskBootstrap, JoinFails, AddListed, Ping, PingFails, RemovePeer,
              Start, StartStore, StartFind
<1>. QED
  BY <1>4, <1>5, <1>6, <1>7, DHTAssumption, ZenonT(40) DEF Step

LEMMA CopyAges ==
    ASSUME Working, Tick, NEW m \in Nodes, NEW age \in Ages, Holds(m, age)
    PROVE  Holds(m, Older(age))'
<1>1. /\ storage' = [n \in Nodes |-> IF storage[n] = None THEN None ELSE Older(storage[n])]
      /\ up' = up
  BY DEF Tick
<1>2. storage[m] # None /\ storage[m] \in Ages /\ storage[m] <= age /\ m \in Nearest
  BY Works DEF Holds
<1>3. storage'[m] = Older(storage[m]) /\ Nearest' = Nearest
  BY <1>1, <1>2 DEF Nearest
<1>4. storage'[m] \in Ages /\ storage'[m] <= Older(age)
  <2>1. /\ Older(storage[m]) \in Ages
        /\ Older(storage[m]) = IF storage[m] < Timeout THEN storage[m] + 1 ELSE Timeout
        /\ Older(age) = IF age < Timeout THEN age + 1 ELSE Timeout
    BY <1>2, OlderIs
  <2>. QED
    BY <1>2, <1>3, <2>1, DHTAssumption DEF Ages
<1>5. Older(age)' = Older(age)
  BY DEF Older
<1>6. storage'[m] # None
  BY <1>4, DHTAssumption DEF Ages
<1>. QED
  BY <1>2, <1>3, <1>4, <1>6 DEF Holds
\* What becomes of a Store or Find in a period, change by change: o is the
\* operation before and p after it, held and more the nodes with a copy.
LEMMA PursuesUnchanged ==
    ASSUME NEW o, NEW held, NEW more, held \subseteq more, Pursues(o, held)
    PROVE  Pursues(o, more)
  BY Zenon DEF Pursues, Stores, Finds

LEMMA PursuesFinish ==
    ASSUME NEW o \in Ops, NEW held, Pursues(o, held), o.pc = "next", NextUp(o) = 0,
           NEW p, p.kind = o.kind, p.pc = "done", p.failed = o.failed
    PROVE  Pursues(p, held)
<1>1. Range(o.queue) \subseteq o.attempted
  BY NextUpIs
<1>2. Stores(p, held)
  BY DEF Stores
<1>3. Finds(p, held)
  BY <1>1, Zenon DEF Pursues, Finds
<1>. QED
  BY <1>2, <1>3 DEF Pursues

\* The operation o of node n has become p by an attempt at node m.
Attempted(n, o, p, m) ==
    /\ o.pc = "next" /\ NextUp(o) # 0 /\ m = o.queue[NextUp(o)]
    /\ p.kind = o.kind /\ p.failed = o.failed /\ p.reply = o.reply
    /\ p.queue = SubSeq(o.queue, NextUp(o) + 1, Len(o.queue))
    /\ p.attempted = o.attempted \cup {m}
    /\ p.pc = IF m = n THEN "next" ELSE "sent"
    /\ p.target = IF m = n THEN None ELSE m
    /\ p.ok = IF m = n THEN o.ok \cup {n} ELSE o.ok

LEMMA PursuesAttempt ==
    ASSUME NEW n \in Nodes, NEW o, OpKept(n, o), NEW held, NEW more, held \subseteq more,
           Pursues(o, held), NEW m, NEW p, Attempted(n, o, p, m),
           m = n /\ n \in Nearest => n \in more
    PROVE  Pursues(p, more)
<1>. USE DEF Attempted
<1>. DEFINE i == NextUp(o)
<1>1. o \in Ops /\ Phase(n, o)
  BY DEF OpKept
<1>2. /\ m \in Nodes /\ m \notin o.attempted /\ m \in Range(o.queue)
      /\ Range(p.queue) \subseteq Range(o.queue)
      /\ Range(o.queue) \subseteq Range(p.queue) \cup o.attempted \cup {m}
  BY <1>1, Taken
<1>3. Stores(p, more)
  <2>. SUFFICES ASSUME o.kind = "store"
                PROVE  /\ Range(p.queue) \subseteq Nearest /\ Range(p.reply) \subseteq Nearest
                       /\ p.ok # {} => more # {}
    BY DEF Stores
  <2>1. /\ Range(o.queue) \subseteq Nearest /\ Range(o.reply) \subseteq Nearest
        /\ o.ok # {} => held # {}
    BY Zenon DEF Pursues, Stores
  <2>. QED
    BY <1>2, <2>1, ZenonT(40)
<1>4. Finds(p, more)
  <2>. SUFFICES ASSUME o.kind = "find", ~o.failed
                PROVE  \E x \in more :
                          \/ p.pc # "done" /\ x \in Range(p.queue) /\ x \notin p.attempted
                          \/ p.pc = "sent" /\ p.target = x
    BY Zenon DEF Finds
  <2>1. m # n
    BY <1>1, <1>2 DEF Phase
  <2>2. PICK x \in held : x \in Range(o.queue) /\ x \notin o.attempted
    BY Zenon DEF Pursues, Finds
  <2>. QED
    BY <1>2, <2>1, <2>2
<1>. QED
  BY <1>3, <1>4 DEF Pursues

LEMMA PursuesReply ==
    ASSUME NEW o, NEW held, NEW more, held \subseteq more, Pursues(o, held), o.pc = "sent",
           NEW p, p.kind = o.kind, p.failed = o.failed, p.queue = o.queue, p.ok = o.ok,
           p.attempted = o.attempted, p.pc = "replied", Range(p.reply) \subseteq Nearest,
           p.answer = "OK" => more # {},
           o.kind = "find" /\ o.target \in held => p.answer = "FOUND"
    PROVE  Pursues(p, more)
<1>1. Stores(p, more)
  BY Zenon DEF Pursues, Stores
<1>2. Finds(p, more)
  BY Zenon DEF Pursues, Finds
<1>. QED
  BY <1>1, <1>2 DEF Pursues

\* The answer is used, and the next node is up.
LEMMA PursuesNext ==
    ASSUME NEW o, NEW held, Pursues(o, held), o.pc \in {"sent", "replied"},
           NEW p, p.kind = o.kind, p.pc = "next", p.attempted = o.attempted, p.reply = <<>>,
           o.kind = "store" => Range(p.queue) \subseteq Range(o.queue) \cup Range(o.reply),
           p.ok # {} => o.ok # {} \/ (o.pc = "replied" /\ o.answer = "OK"),
           o.kind = "find" => p.queue = o.queue,
           p.failed \/ (o.pc = "replied" /\ o.answer # "FOUND" /\ p.failed = o.failed)
    PROVE  Pursues(p, held)
<1>1. Range(<<>>) = {}
  BY DEF Range
<1>2. Stores(p, held)
  BY <1>1, Zenon DEF Pursues, Stores
<1>3. Finds(p, held)
  BY Zenon DEF Pursues, Finds
<1>. QED
  BY <1>2, <1>3 DEF Pursues
\* The step of an operation keeps it on its way.
LEMMA OperationPursues ==
    ASSUME Working, Agreed, NEW n \in Nodes, Operation(n), NEW age \in Ages, age < Timeout,
           Pursues(op[n], Holders(age))
    PROVE  Pursues(op[n], Holders(age))'
<1>. USE Works
<1>1. n \in up /\ up' = up
  BY OperationEffects, Zenon
<1>2. PICK held : held = Holders(age)
  OBVIOUS
<1>3. PICK more : more = Holders(age)'
  OBVIOUS
<1>4. PICK o : o = op[n]
  OBVIOUS
<1>5. PICK p : p = op'[n]
  OBVIOUS
<1>6. held \subseteq more
  <2>1. Step
    BY Zenon DEF Step
  <2>. QED
    BY <1>1, <1>2, <1>3, <2>1, CopyStays DEF Holders
<1>7. Nearest' = Nearest
  BY <1>1 DEF Nearest
<1>8. SUFFICES Pursues(p, more)
  <2>1. /\ Range(p.queue) \subseteq Nearest <=> Range(p.queue) \subseteq Nearest'
        /\ Range(p.reply) \subseteq Nearest <=> Range(p.reply) \subseteq Nearest'
    BY <1>7
  <2>. QED
    BY <1>3, <1>5, <2>1, Zenon DEF Pursues, Stores, Finds
<1>9. OpKept(n, o) /\ o \in Ops /\ Phase(n, o) /\ Pursues(o, held)
  BY <1>2, <1>4 DEF OpKept
<1>10. \A m \in Nodes : m \in more <=> Holds(m, age)'
  BY <1>3 DEF Holders
<1>11. ASSUME NEW m \in Nearest, m \in Nodes, storage'[m] = 0 PROVE m \in more
  <2>1. 0 # None /\ 0 <= age
    BY DHTAssumption DEF Ages
  <2>2. Holds(m, age)'
    BY <1>7, <1>11, <2>1 DEF Holds
  <2>. QED
    BY <1>10, <1>11, <2>2
<1>12. CASE Finish(n)
  <2>1. o.pc = "next" /\ NextUp(o) = 0 /\ p.kind = o.kind /\ p.pc = "done" /\ p.failed = o.failed
    BY <1>4, <1>5, <1>9, <1>12 DEF Finish, Ops
  <2>2. Pursues(p, held)
    BY <1>9, <2>1, PursuesFinish, Zenon
  <2>. QED
    BY <1>6, <2>2, PursuesUnchanged, Zenon
<1>13. CASE Attempt(n)
  <2>1. PICK m : m = o.queue[NextUp(o)]
    OBVIOUS
  <2>2. /\ o.pc = "next" /\ NextUp(o) # 0
        /\ p = [o EXCEPT !.queue = SubSeq(o.queue, NextUp(o) + 1, Len(o.queue)),
                          !.attempted = @ \cup {m}, !.pc = IF m = n THEN "next" ELSE "sent",
                          !.target = IF m = n THEN None ELSE m,
                          !.ok = IF m = n THEN @ \cup {n} ELSE @]
        /\ m = n => storage' = [storage EXCEPT ![n] = 0]
    BY <1>4, <1>5, <1>13, <2>1 DEF Attempt, StoreTask
  <2>3. Attempted(n, o, p, m)
    BY <1>9, <2>1, <2>2, ZenonT(40) DEF Ops, Attempted
  <2>4. m = n /\ n \in Nearest => n \in more
    BY <1>11, <2>2
  <2>. QED
    BY <1>6, <1>9, <2>3, <2>4, PursuesAttempt, Zenon
<1>14. CASE handleMessage(n)
  <2>1. PICK m : m = o.target
    OBVIOUS
  <2>2. PICK known : known = peers[m] \cup {n}
    BY ZenonT(40)
  <2>3. /\ o.pc = "sent" /\ m \in up
        /\ storage' = IF p.answer = "OK" THEN [storage EXCEPT ![m] = 0] ELSE storage
        /\ p.answer = IF o.kind = "store"
                      THEN IF Responsible(m, known) THEN "OK" ELSE "NOT_RESPONSIBLE"
                      ELSE IF Responsible(m, known) /\ LookupTask(m) THEN "FOUND" ELSE "NOTFOUND"
        /\ p.reply = IF p.answer = "NOT_RESPONSIBLE" THEN Closest[m][known] ELSE <<>>
        /\ p.kind = o.kind /\ p.failed = o.failed /\ p.queue = o.queue /\ p.ok = o.ok
        /\ p.attempted = o.attempted /\ p.pc = "replied"
    BY <1>4, <1>5, <1>9, <1>14, <2>1, <2>2 DEF handleMessage, StoreTask, Ops
  <2>4. m # n /\ m \in Nodes /\ known \in SUBSET Nodes /\ known \ {m} = up \ {m}
    <3>1. m # n /\ m \in Nodes
      BY <1>9, <2>1, <2>3, ZenonT(40) DEF Phase
    <3>2. peers[m] \in SUBSET Nodes /\ peers[m] \ {m} = up \ {m}
      BY <2>3, <3>1 DEF Agreed
    <3>. QED
      BY <1>1, <2>2, <3>1, <3>2
  <2>5. /\ Range(Closest[m][known]) \subseteq Nearest
        /\ Responsible(m, known) <=> m \in Nearest
    BY <2>3, <2>4, ViewOfNearest, ZenonT(40)
  <2>6. Range(p.reply) \subseteq Nearest
    <3>1. Range(<<>>) = {}
      BY DEF Range
    <3>. QED
      BY <2>3, <2>5, <3>1, ZenonT(40)
  <2>7. p.answer = "OK" => more # {}
    BY <1>11, <2>3, <2>4, <2>5, ZenonT(40)
  <2>8. o.kind = "find" /\ m \in held => p.answer = "FOUND"
    <3>. SUFFICES ASSUME o.kind = "find", m \in held PROVE p.answer = "FOUND"
      OBVIOUS
    <3>1. m \in Nearest /\ storage[m] # None /\ storage[m] <= age /\ storage[m] \in Ages
      BY <1>2, <2>4 DEF Holders, Holds
    <3>2. LookupTask(m)
      BY <3>1, DHTAssumption DEF LookupTask, Active, Ages
    <3>3. Responsible(m, known)
      BY <2>5, <3>1, ZenonT(40)
    <3>. QED
      BY <2>3, <3>2, <3>3, ZenonT(40)
  <2>. QED
    BY <1>6, <1>9, <2>1, <2>3, <2>6, <2>7, <2>8, PursuesReply, Zenon
<1>15. CASE CallFails(n)
  <2>. DEFINE c == NextCall(o)
  <2>1. o.pc \in {"sent", "replied"} /\ p = [c EXCEPT !.failed = TRUE]
    BY <1>4, <1>5, <1>15 DEF CallFails
  <2>2. /\ c \in Ops /\ c.pc = "next" /\ c.kind = o.kind /\ c.queue = o.queue /\ c.ok = o.ok
        /\ c.attempted = o.attempted /\ c.reply = <<>>
    BY <1>9, NextCallIs, ZenonT(40)
  <2>. HIDE DEF c
  <2>3. /\ p.pc = "next" /\ p.kind = o.kind /\ p.queue = o.queue /\ p.ok = o.ok
        /\ p.attempted = o.attempted /\ p.reply = <<>> /\ p.failed = TRUE
    BY <2>1, <2>2 DEF Ops
  <2>4. Pursues(p, held)
    BY <1>9, <2>1, <2>3, PursuesNext, Zenon
  <2>. QED
    BY <1>6, <2>4, PursuesUnchanged, Zenon
<1>16. CASE Stored(n)
  <2>. DEFINE c == NextCall(o)
  <2>1. o.pc = "replied" /\ o.answer = "OK" /\ p = [c EXCEPT !.ok = @ \cup {o.target}]
    BY <1>4, <1>5, <1>16 DEF Stored, Answered
  <2>2. /\ c \in Ops /\ c.pc = "next" /\ c.kind = o.kind /\ c.queue = o.queue
        /\ c.attempted = o.attempted /\ c.reply = <<>> /\ c.failed = o.failed
    BY <1>9, NextCallIs, ZenonT(40)
  <2>. HIDE DEF c
  <2>3. /\ p.pc = "next" /\ p.kind = o.kind /\ p.queue = o.queue
        /\ p.attempted = o.attempted /\ p.reply = <<>> /\ p.failed = o.failed
    BY <2>1, <2>2 DEF Ops
  <2>4. Pursues(p, held)
    <3>1. o.answer # "FOUND"
      BY <2>1
    <3>. QED
      BY <1>9, <2>1, <2>3, <3>1, PursuesNext, Zenon
  <2>. QED
    BY <1>6, <2>4, PursuesUnchanged, Zenon
<1>17. CASE NotResponsible(n)
  <2>. DEFINE c == NextCall(o)
  <2>1. /\ o.pc = "replied" /\ o.answer = "NOT_RESPONSIBLE"
        /\ p = [c EXCEPT !.queue = @ \o Closer(o), !.refused = TRUE]
    BY <1>4, <1>5, <1>17 DEF NotResponsible, Answered
  <2>2. /\ c \in Ops /\ c.pc = "next" /\ c.kind = o.kind /\ c.queue = o.queue /\ c.ok = o.ok
        /\ c.attempted = o.attempted /\ c.reply = <<>> /\ c.failed = o.failed
    BY <1>9, NextCallIs, ZenonT(40)
  <2>. HIDE DEF c
  <2>3. /\ p.pc = "next" /\ p.kind = o.kind /\ p.queue = o.queue \o Closer(o) /\ p.ok = o.ok
        /\ p.attempted = o.attempted /\ p.reply = <<>> /\ p.failed = o.failed
    BY <2>1, <2>2 DEF Ops
  <2>4. Range(p.queue) \subseteq Range(o.queue) \cup Range(o.reply)
    BY <1>9, <2>3, CloserNodes, ZenonT(40)
  <2>5. o.kind # "find" /\ o.answer # "FOUND" /\ o.answer # "OK"
    BY <1>9, <2>1 DEF Phase
  <2>6. Pursues(p, held)
    BY <1>9, <2>1, <2>3, <2>4, <2>5, PursuesNext, Zenon
  <2>. QED
    BY <1>6, <2>6, PursuesUnchanged, Zenon
<1>18. CASE Found(n)
  <2>. DEFINE c == NextCall(o)
  <2>1. /\ o.pc = "replied" /\ o.answer = "FOUND"
        /\ p = [c EXCEPT !.pc = "done", !.ok = {o.target}, !.queue = <<>>, !.attempted = {}]
    BY <1>4, <1>5, <1>18 DEF Found, Answered
  <2>2. c \in Ops
    BY <1>9, NextCallIs, ZenonT(40)
  <2>. HIDE DEF c
  <2>3. p.pc = "done" /\ p.ok # {}
    BY <2>1, <2>2 DEF Ops
  <2>. QED
    BY <2>3, Zenon DEF Pursues, Stores, Finds
<1>19. CASE NotFound(n)
  <2>1. o.pc = "replied" /\ o.answer = "NOTFOUND" /\ p = NextCall(o)
    BY <1>4, <1>5, <1>19 DEF NotFound, Answered
  <2>2. /\ p.pc = "next" /\ p.kind = o.kind /\ p.queue = o.queue /\ p.ok = o.ok
        /\ p.attempted = o.attempted /\ p.reply = <<>> /\ p.failed = o.failed
    BY <1>9, <2>1, NextCallIs, ZenonT(40)
  <2>3. o.answer # "FOUND"
    BY <2>1
  <2>4. Pursues(p, held)
    BY <1>9, <2>1, <2>2, <2>3, PursuesNext, Zenon
  <2>. QED
    BY <1>6, <2>4, PursuesUnchanged, Zenon
<1>. QED
  BY <1>12, <1>13, <1>14, <1>15, <1>16, <1>17, <1>18, <1>19, ZenonT(40) DEF Operation
\* An operation that starts in a period has all its way before it.
LEMMA StartPursues ==
    ASSUME Working, Period, Agreed, NEW n \in Nodes, StartStore(n) \/ StartFind(n),
           NEW age \in Ages, age = StartsAt(n), age < Timeout
    PROVE  Pursues(op[n], Holders(age))'
<1>. USE Works
<1>1. n \in up /\ UNCHANGED <<up, peers, storage>>
  BY DEF StartStore, StartFind
<1>2. PICK held : held = Holders(age)
  OBVIOUS
<1>3. PICK p : p = op'[n]
  OBVIOUS
<1>4. Nearest' = Nearest /\ Holders(age)' = Holders(age)
  BY <1>1, Zenon DEF Nearest, Holders, Holds
<1>5. SUFFICES Pursues(p, held)
  <2>1. /\ Range(p.queue) \subseteq Nearest <=> Range(p.queue) \subseteq Nearest'
        /\ Range(p.reply) \subseteq Nearest <=> Range(p.reply) \subseteq Nearest'
    BY <1>4
  <2>. QED
    BY <1>2, <1>3, <1>4, <2>1, Zenon DEF Pursues, Stores, Finds
<1>6. /\ Range(KClosest(n)) \subseteq Nearest
      /\ n \notin peers[n] => Nearest \subseteq Range(KClosest(n))
      /\ AmIIn(n, peers[n]) <=> n \in Nearest
  <2>1. peers[n] \in SUBSET Nodes /\ peers[n] \ {n} = up \ {n}
    BY <1>1 DEF Agreed
  <2>. QED
    BY <1>1, <2>1, ViewOfNearest, ZenonT(40) DEF KClosest
<1>7. CASE StartStore(n)
  <2>1. p.kind = "store" /\ p.queue = KClosest(n) /\ p.reply = <<>> /\ p.ok = {} /\ p.pc = "next"
    BY <1>3, <1>7 DEF StartStore, NoOp
  <2>2. Range(<<>>) = {}
    BY DEF Range
  <2>3. Stores(p, held)
    BY <1>6, <2>1, <2>2 DEF Stores
  <2>4. Finds(p, held)
    BY <2>1 DEF Finds
  <2>. QED
    BY <2>3, <2>4, Zenon DEF Pursues
<1>8. CASE StartFind(n)
  <2>. DEFINE local == AmIIn(n, peers[n]) /\ LookupTask(n)
  <2>1. /\ p.kind = "find" /\ p.pc = IF local THEN "done" ELSE "next"
        /\ p.ok = IF local THEN {n} ELSE {}
        /\ p.attempted = {n} /\ p.queue = IF local THEN <<>> ELSE KClosest(n)
    BY <1>3, <1>8 DEF StartFind, NoOp
  <2>2. n \notin peers[n] /\ age = acked
    <3>1. p.kind # "store" /\ age # Timeout
      BY <2>1, DHTAssumption DEF Ages
    <3>. QED
      BY <1>3, <3>1, Zenon DEF StartsAt
  <2>3. PICK m \in Nodes : Holds(m, age)
    BY <2>2 DEF Period, Holders
  <2>4. m \in Nearest /\ storage[m] # None /\ storage[m] <= age /\ storage[m] \in Ages
    BY <2>3 DEF Holds
  <2>5. ~local => m # n
    <3>1. Active(m)
      BY <2>4, DHTAssumption DEF Active, Ages
    <3>. QED
      BY <1>6, <2>4, <3>1, ZenonT(40) DEF LookupTask
  <2>6. m \in held /\ m \in Range(KClosest(n))
    BY <1>2, <1>6, <2>2, <2>3, <2>4, ZenonT(40) DEF Holders
  <2>7. Finds(p, held)
    <3>1. CASE local
      BY <2>1, <3>1, ZenonT(40) DEF Finds
    <3>2. CASE ~local
      BY <2>1, <2>5, <2>6, <3>2, ZenonT(40) DEF Finds
    <3>. QED
      BY <3>1, <3>2
  <2>8. Stores(p, held)
    BY <2>1 DEF Stores
  <2>. QED
    BY <2>7, <2>8 DEF Pursues
<1>. QED
  BY <1>7, <1>8

\* Who changes the operation of a node.
LEMMA WhoMoves ==
    ASSUME Working, Step, up' = up, NEW n \in Nodes
    PROVE  op'[n] = op[n] \/ Operation(n) \/ StartStore(n) \/ StartFind(n)
<1>1. CASE \E m \in Nodes : Operation(m) \/ StartStore(m) \/ StartFind(m)
  <2>1. PICK m \in Nodes : Operation(m) \/ StartStore(m) \/ StartFind(m)
    BY <1>1
  <2>2. \A q \in Nodes \ {m} : op'[q] = op[q]
    BY <2>1, OneOperation, Zenon
  <2>. QED
    BY <2>1, <2>2
<1>2. CASE \E m \in Nodes : Membership(m) \/ Start(m) \/ Maintain(m)
  BY <1>2, ZenonT(40) DEF Membership, AskBootstrap, JoinFails, AddListed, Ping, PingFails, RemovePeer,
              Start, Maintain
<1>3. ASSUME NEW m \in Nodes, CrashNode(m) PROVE FALSE
  BY <1>3, Works DEF CrashNode
<1>4. Registrars \subseteq Nodes /\ Finders \subseteq Nodes
  BY DHTAssumption
<1>. QED
  BY <1>1, <1>2, <1>3, <1>4, Zenon DEF Step

\* A Store ends when its queue is exhausted, with the copies it has.
LEMMA StoreEnds ==
    ASSUME Working, Step, up' = up, NEW n \in Nodes, op[n].kind = "store", op[n].pc = "next",
           op'[n].pc = "done"
    PROVE  op'[n].ok = op[n].ok
<1>1. op[n] \in Ops /\ DOMAIN op = Nodes
  BY Works DEF OpKept
<1>2. ~StartStore(n) /\ ~StartFind(n) /\ op'[n] # op[n]
  BY DEF StartStore, StartFind
<1>3. Operation(n)
  BY <1>2, WhoMoves, Zenon
<1>4. CASE Finish(n)
  BY <1>1, <1>4 DEF Finish, Ops
<1>5. ~Attempt(n)
  <2>. SUFFICES ASSUME Attempt(n) PROVE FALSE
    OBVIOUS
  <2>1. op'[n].pc \in {"next", "sent"}
    BY <1>1 DEF Attempt, Ops
  <2>. QED
    BY <2>1
<1>6. ~handleMessage(n) /\ ~CallFails(n) /\ ~Stored(n) /\ ~NotResponsible(n) /\ ~Found(n) /\ ~NotFound(n)
  BY DEF handleMessage, CallFails, Stored, NotResponsible, Found, NotFound, Answered
<1>. QED
  BY <1>3, <1>4, <1>5, <1>6, ZenonT(40) DEF Operation
\* A step other than the passing of time, in a period.
LEMMA PeriodStep ==
    ASSUME Working, Period, Step, Agreed', up' = up, History(LAMBDA age : age)
    PROVE  Period'
<1>. DEFINE acks == {n \in Nodes : /\ op[n].kind = "store" /\ op[n].pc = "next"
                                   /\ op'[n].pc = "done" /\ op'[n].ok # {}}
            ages == {acked} \cup {since[n] : n \in acks}
<1>1. /\ acked' = Min(ages)
      /\ since' = [n \in Nodes |-> IF Starts(n) THEN StartsAt(n) ELSE since[n]]
  BY DEF History
<1>2. acked \in Ages /\ since \in [Nodes -> Ages] /\ Timeout \in Nat /\ 0 \in Ages /\ Timeout \in Ages
  BY DHTAssumption DEF Period, Ages
<1>3. acked' \in ages /\ ages \subseteq Ages
  <2>1. ages \subseteq Ages /\ ages # {}
    BY <1>2
  <2>2. ages \subseteq Nat
    BY <1>2, <2>1 DEF Ages
  <2>3. \E x \in ages : \A y \in ages : x <= y
    BY <2>1, <2>2, HasLeast, Zenon
  <2>. HIDE DEF ages
  <2>4. Min(ages) \in ages
    BY <2>3 DEF Min
  <2>. QED
    BY <1>1, <2>1, <2>4
<1>4. acked' \in Ages /\ since' \in [Nodes -> Ages]
  <2>1. \A n \in Nodes : StartsAt(n) \in Ages
    BY <1>2 DEF StartsAt
  <2>. QED
    BY <1>1, <1>2, <1>3, <2>1
<1>5. ASSUME NEW age \in Ages, age < Timeout, Agreed
      PROVE  Holders(age) \subseteq Holders(age)'
  <2>1. \A m \in Nodes : Holds(m, age) => Holds(m, age)'
    BY <1>5, CopyStays
  <2>. QED
    BY <2>1 DEF Holders
<1>6. ASSUME acked' < Timeout PROVE (Holders(acked) # {})'
  <2>1. CASE acked' = acked
    <3>1. Agreed /\ Holders(acked) # {}
      BY <1>2, <1>6, <2>1 DEF Period, Ages
    <3>2. PICK age \in Ages : age = acked
      BY <1>2
    <3>3. Holders(age)' # {}
      BY <1>5, <1>6, <2>1, <3>1, <3>2
    <3>. QED
      BY <2>1, <3>2, <3>3 DEF Holders, Holds
  <2>2. CASE \E n \in acks : acked' = since[n]
    <3>1. PICK n \in acks : acked' = since[n]
      BY <2>2
    <3>2. PICK age \in Ages : age = since[n]
      BY <1>2, <3>1
    <3>3. /\ n \in Nodes /\ op[n].kind = "store" /\ op[n].pc = "next"
          /\ op'[n].pc = "done" /\ op'[n].ok # {}
      BY <3>1
    <3>4. op[n].ok # {}
      BY <3>3, StoreEnds
    <3>5. Agreed /\ Pursues(op[n], Holders(age))
      <4>1. since[n] < Timeout /\ since[n] # Timeout
        BY <1>2, <1>6, <3>1, <3>3 DEF Ages
      <4>. QED
        BY <3>2, <3>3, <4>1 DEF Period
    <3>6. Holders(age) # {}
      BY <3>3, <3>4, <3>5 DEF Pursues, Stores
    <3>7. Holders(age)' # {}
      BY <1>5, <1>6, <3>1, <3>2, <3>5, <3>6
    <3>. QED
      BY <3>1, <3>2, <3>7 DEF Holders, Holds
  <2>. QED
    BY <1>3, <2>1, <2>2
<1>7. ASSUME NEW n \in Nodes, since'[n] < Timeout
      PROVE  Pursues(op[n], Holders(since[n]))'
  <2>1. PICK age \in Ages : age = since'[n]
    BY <1>4
  <2>2. SUFFICES Pursues(op[n], Holders(age))'
    BY <2>1 DEF Pursues, Stores, Finds, Holders, Holds
  <2>3. op'[n] = op[n] \/ Operation(n) \/ StartStore(n) \/ StartFind(n)
    BY WhoMoves, Zenon
  <2>4. CASE Starts(n)
    <3>1. StartStore(n) \/ StartFind(n)
      <4>1. Operation(n) => op[n].pc \notin {"idle", "done"}
        BY DEF Operation, Finish, Attempt, handleMessage, CallFails, Stored, NotResponsible,
               Found, NotFound, Answered
      <4>. QED
        BY <2>3, <2>4, <4>1 DEF Starts
    <3>2. Agreed
      BY <3>1 DEF StartStore, StartFind, Agreed
    <3>3. age = StartsAt(n) /\ age < Timeout
      BY <1>1, <1>7, <2>1, <2>4
    <3>. QED
      BY <3>1, <3>2, <3>3, StartPursues
  <2>5. CASE ~Starts(n)
    <3>1. age = since[n] /\ age < Timeout /\ since[n] # Timeout
      BY <1>1, <1>2, <1>7, <2>1, <2>5 DEF Ages
    <3>2. Agreed /\ Pursues(op[n], Holders(age))
      BY <3>1 DEF Period
    <3>3. CASE op'[n] = op[n]
      <4>1. PICK held, more : held = Holders(age) /\ more = Holders(age)'
        OBVIOUS
      <4>2. PICK o : o = op[n] /\ o = op'[n]
        BY <3>3
      <4>3. Pursues(o, more)
        BY <1>5, <3>1, <3>2, <4>1, <4>2, PursuesUnchanged
      <4>4. Nearest' = Nearest
        BY DEF Nearest
      <4>5. /\ Range(o.queue) \subseteq Nearest <=> Range(o.queue) \subseteq Nearest'
            /\ Range(o.reply) \subseteq Nearest <=> Range(o.reply) \subseteq Nearest'
        BY <4>4
      <4>. QED
        BY <4>1, <4>2, <4>3, <4>5, Zenon DEF Pursues, Stores, Finds
    <3>4. CASE Operation(n)
      BY <3>1, <3>2, <3>4, OperationPursues
    <3>5. CASE (StartStore(n) \/ StartFind(n)) /\ op'[n] # op[n]
      <4>1. op'[n].kind \in {"store", "find"} /\ op[n].pc \in {"idle", "done"}
        <5>1. DOMAIN op = Nodes
          BY Works
        <5>2. CASE StartStore(n)
          BY <5>1, <5>2 DEF StartStore, NoOp
        <5>3. CASE StartFind(n)
          BY <5>1, <5>3 DEF StartFind, NoOp
        <5>. QED
          BY <3>5, <5>2, <5>3
      <4>2. op'[n].kind # None
        BY <4>1, DHTAssumption
      <4>. QED
        BY <2>5, <3>5, <4>1, <4>2 DEF Starts
    <3>. QED
      BY <2>3, <3>3, <3>4, <3>5
  <2>. QED
    BY <2>4, <2>5
<1>. QED
  BY <1>4, <1>6, <1>7 DEF Period
\* Time passes in a period.
LEMMA PeriodTick ==
    ASSUME Working, Period, Tick, Agreed', History(Older)
    PROVE  Period'
<1>. DEFINE acks == {n \in Nodes : /\ op[n].kind = "store" /\ op[n].pc = "next"
                                   /\ op'[n].pc = "done" /\ op'[n].ok # {}}
<1>1. UNCHANGED <<up, peers, op>>
  BY DEF Tick
<1>2. /\ acked' = Min({Older(acked)} \cup {since[n] : n \in acks})
      /\ since' = [n \in Nodes |-> IF Starts(n) THEN StartsAt(n) ELSE Older(since[n])]
  BY <1>1 DEF History
<1>3. acked \in Ages /\ since \in [Nodes -> Ages] /\ Timeout \in Nat
  BY DHTAssumption DEF Period
<1>4. /\ Older(acked) \in Ages /\ (Older(acked) < Timeout => acked < Timeout)
      /\ \A n \in Nodes : Older(since[n]) \in Ages /\ (Older(since[n]) < Timeout => since[n] < Timeout)
  BY <1>3, OlderIs DEF Ages
<1>5. acked' = Older(acked) /\ since' = [n \in Nodes |-> Older(since[n])]
  <2>1. acks = {} /\ \A n \in Nodes : ~Starts(n)
    BY <1>1 DEF Starts
  <2>2. acked' = Min({Older(acked)})
    <3>1. {Older(acked)} \cup {since[n] : n \in acks} = {Older(acked)}
      BY <2>1
    <3>. QED
      BY <1>2, <3>1, Zenon
  <2>3. Min({Older(acked)}) = Older(acked)
    BY <1>4 DEF Min, Ages
  <2>. QED
    BY <1>2, <2>1, <2>2, <2>3
<1>6. acked' \in Ages /\ since' \in [Nodes -> Ages]
  BY <1>4, <1>5
<1>7. ASSUME acked' < Timeout PROVE (Holders(acked) # {})'
  <2>1. PICK m \in Nodes : Holds(m, acked)
    BY <1>4, <1>5, <1>7 DEF Period, Holders
  <2>2. PICK age \in Ages : age = acked
    BY <1>3
  <2>3. Holds(m, Older(age))'
    BY <2>1, <2>2, CopyAges
  <2>4. Older(age) = acked'
    BY <1>5, <2>2
  <2>. QED
    BY <2>3, <2>4 DEF Holders, Holds
<1>8. ASSUME NEW n \in Nodes, since'[n] < Timeout
      PROVE  Pursues(op[n], Holders(since[n]))'
  <2>1. PICK age \in Ages : age = since[n]
    BY <1>3
  <2>2. PICK older \in Ages : older = Older(age) /\ older = since'[n]
    BY <1>4, <1>5, <2>1
  <2>3. Pursues(op[n], Holders(age))
    BY <1>4, <1>5, <1>8, <2>1, ZenonT(40) DEF Period
  <2>4. PICK held, more : held = Holders(age) /\ more = Holders(older)'
    OBVIOUS
  <2>5. held \subseteq more
    <3>1. \A m \in Nodes : Holds(m, age) => Holds(m, Older(age))'
      BY CopyAges
    <3>2. \A m \in Nodes : Holds(m, age) => Holds(m, older)'
      BY <2>2, <3>1 DEF Holds
    <3>. QED
      BY <2>4, <3>2 DEF Holders
  <2>6. PICK o : o = op[n] /\ o = op'[n]
    BY <1>1
  <2>7. Pursues(o, more)
    BY <2>3, <2>4, <2>5, <2>6, PursuesUnchanged
  <2>8. Nearest' = Nearest
    BY <1>1 DEF Nearest
  <2>9. /\ Range(o.queue) \subseteq Nearest <=> Range(o.queue) \subseteq Nearest'
        /\ Range(o.reply) \subseteq Nearest <=> Range(o.reply) \subseteq Nearest'
    BY <2>8
  <2>10. Pursues(op[n], Holders(older))'
    BY <2>4, <2>6, <2>7, <2>9, Zenon DEF Pursues, Stores, Finds
  <2>. QED
    BY <2>2, <2>10, ZenonT(40) DEF Pursues, Stores, Finds, Holders, Holds
<1>. QED
  BY <1>6, <1>7, <1>8 DEF Period

LEMMA PeriodInit ==
    ASSUME Init
    PROVE  Period
<1>1. Timeout \in Ages /\ ~(Timeout < Timeout)
  BY DHTAssumption DEF Ages
<1>2. acked = Timeout /\ since = [n \in Nodes |-> Timeout]
  BY DEF Init
<1>. QED
  BY <1>1, <1>2, Zenon DEF Period

LEMMA PeriodNext ==
    ASSUME Working, Period, [Next]_vars
    PROVE  Period'
<1>1. CASE Agreed' /\ up' = up /\ Next
  BY <1>1, PeriodStep, PeriodTick DEF Next
<1>2. CASE ~(Agreed' /\ up' = up) /\ Next
  <2>1. acked' = Timeout /\ since' = [n \in Nodes |-> Timeout]
    BY <1>2, ZenonT(40) DEF Next, History
  <2>2. Timeout \in Ages /\ ~(Timeout < Timeout)
    BY DHTAssumption DEF Ages
  <2>. QED
    BY <2>1, <2>2, Zenon DEF Period
<1>3. CASE UNCHANGED vars
  <2>1. UNCHANGED <<up, peers, storage, op, acked, since>>
    BY <1>3 DEF vars, system
  <2>. QED
    BY <2>1, ZenonT(40) DEF Period, Agreed, Pursues, Stores, Finds, Holders, Holds, Nearest
<1>. QED
  BY <1>1, <1>2, <1>3

\* What a Store has stored is found: while the nodes stay up and their views
\* agree, a Find that starts after a Store has succeeded, at a node that does
\* not list itself, ends with the registration unless it has expired since the
\* Store began or a call of the Find itself failed (Store, Find, handleMessage
\* and CleanupStaleData of distributed_hash_table.go).
THEOREM FoundWhileViewsAgree == Spec => []StoredThenFound
<1>1. Period => StoredThenFound
  <2>. SUFFICES ASSUME Period, NEW n \in Nodes, op[n].kind = "find", op[n].pc = "done",
                       since[n] < Timeout
                PROVE  op[n].ok # {} \/ op[n].failed
    BY DEF StoredThenFound
  <2>1. Finds(op[n], Holders(since[n]))
    BY Zenon DEF Period, Pursues
  <2>. QED
    BY <2>1, Zenon DEF Finds
<1>. QED
  BY <1>1, AlwaysWorking, PeriodInit, PeriodNext, PTL DEF Spec
=============================================================================
