------------------------ MODULE RegistryQueriesProofs ------------------------
(***************************************************************************)
(* Theorems about the queries of the in-memory registry, for any number of *)
(* them in any interleaving: why a query fails, what it chooses, what the  *)
(* counters say and how the rotation divides the queries; and about the    *)
(* firewall that filters what they choose from.                            *)
(***************************************************************************)
EXTENDS MemoryRegistryProofs, Firewall

-----------------------------------------------------------------------------
\* The entries a query may choose from are a list of candidates, of positive
\* weight unless it is empty.
LEMMA AllowedWeight ==
    ASSUME Typed, NEW q \in Queries
    PROVE  /\ AllowedEntries(q) \in Seq(Candidate)
           /\ exactWeight(AllowedEntries(q)) \in Nat
           /\ AllowedEntries(q) # <<>> => exactWeight(AllowedEntries(q)) > 0
<1> DEFINE allowed == AllowedEntries(q)
<1>1. allowed \in Seq(Candidate)
  BY AllowedProperties DEF Typed, TypeOK
<1>2. exactWeight(allowed) \in Nat
  BY <1>1, RunningFits
<1>3. ASSUME allowed # <<>>
      PROVE  exactWeight(allowed) > 0
  <2> DEFINE w == weights(allowed)
             n == Len(allowed)
  <2>1. w \in Seq(PositiveNats) /\ Len(w) = n /\ n \in Nat
    BY <1>1, WeightsType
  <2>2. n # 0
    BY <1>1, <1>3
  <2>3. exactWeight(allowed) = RunningSums(w)[n]
    BY <2>1 DEF exactWeight, Total
  <2> HIDE DEF w, n
  <2>4. 0 \in 0..n /\ n \in 0..n /\ 0 < n
    BY <2>1, <2>2
  <2>5. RunningSums(w)[0] = 0 /\ RunningSums(w)[0] < RunningSums(w)[n]
    BY <2>1, <2>4, RunningSumsProperties
  <2> QED
    BY <1>2, <2>3, <2>5
<1> QED
  BY <1>1, <1>2, <1>3

\* What a query may choose from depends on its copy, its requestor and the
\* firewall only.
LEMMA AllowedFrame ==
    ASSUME NEW q \in Queries, entryCopy'[q] = entryCopy[q],
           requestor'[q] = requestor[q], firewall' = firewall
    PROVE  AllowedEntries(q)' = AllowedEntries(q)
BY DEF AllowedEntries, Filtered, PermittedPositions

\* SelectEntry always finds an entry.
LEMMA SelectEntryFinds ==
    ASSUME Typed, NEW q \in Queries, SelectEntry(q)
    PROVE  LET allowed == AllowedEntries(q)
               total == totalServiceWeight(allowed)
               cursor == roundRobinIndex[task[q]]
           IN  /\ pc[q] = "copied" /\ task[q] \in Tasks
               /\ cursor \in Nat /\ total > 0
               /\ roundRobinIndex' = [roundRobinIndex EXCEPT ![task[q]] = @ + 1]
               /\ ticket' = [ticket EXCEPT ![q] = cursor]
               /\ pc' = [pc EXCEPT ![q] = "selected"]
               /\ result' = [result EXCEPT
                                 ![q] = selectWeightedAddress(allowed, cursor % total)]
               /\ UNCHANGED <<services, queryCounters, totalQueries, firewall,
                              task, requestor, entryCopy, current>>
<1>1. PICK allowed, total, cursor :
          /\ allowed = AllowedEntries(q)
          /\ total = totalServiceWeight(allowed)
          /\ cursor = roundRobinIndex[task[q]]
  OBVIOUS
<1>2. pc[q] = "copied" /\ allowed # <<>> /\ total > 0
  BY <1>1 DEF SelectEntry
<1>3. task[q] \in Tasks /\ cursor \in Nat
  BY <1>1, <1>2 DEF Typed, TypeOK, QueryPhases
<1>4. allowed \in Seq(Candidate)
  BY <1>1, AllowedWeight
<1>5. total \in Int
  BY <1>1, <1>4, RunningFits
<1>6. cursor % total \in Int /\ cursor % total < total
  BY <1>2, <1>3, <1>5
<1>7. Selects(allowed, cursor % total)
  BY <1>1, <1>2, <1>4, <1>6, SelectsBelowTotal, Zenon
<1> QED
  BY <1>1, <1>2, <1>3, <1>7, Zenon DEF SelectEntry

\* NotFoundExplained for one query.
Explained(q) ==
    result[q] = "ErrNotFound" =>
        entryCopy[q] = <<>> \/ exactWeight(AllowedEntries(q)) > MaxInt

\* Every step keeps the failures explained.
LEMMA ExplainedStep ==
    Typed /\ NotFoundExplained /\ [Next]_vars => NotFoundExplained'
<1> SUFFICES ASSUME Typed, NotFoundExplained, [Next]_vars, NEW p \in Queries
             PROVE  Explained(p)'
  BY DEF NotFoundExplained, Explained
<1>1. /\ Explained(p)
      /\ result \in [Queries -> Addrs \cup Errors \cup {NoResult}]
      /\ entryCopy \in [Queries -> Seq(Candidate)]
      /\ requestor \in [Queries -> Requestors \cup {NilIP}]
  BY DEF NotFoundExplained, Explained, Typed, TypeOK
<1>2. ASSUME result'[p] # "ErrNotFound"
      PROVE  Explained(p)'
  BY <1>2 DEF Explained
<1>3. ASSUME entryCopy'[p] = entryCopy[p], requestor'[p] = requestor[p],
             firewall' = firewall, result'[p] = result[p]
      PROVE  Explained(p)'
  <2>1. AllowedEntries(p)' = AllowedEntries(p)
    BY <1>3, AllowedFrame
  <2> QED
    BY <1>1, <1>3, <2>1 DEF Explained
<1>4. ASSUME NEW q \in Queries, NEW r, RejectBlankTask(q, r)
      PROVE  Explained(p)'
  <2>1. CASE q = p
    BY <1>1, <1>2, <1>4, <2>1 DEF RejectBlankTask, Fails
  <2>2. CASE q # p
    BY <1>1, <1>3, <1>4, <2>2 DEF RejectBlankTask, Asks, Fails
  <2> QED
    BY <2>1, <2>2
<1>5. ASSUME NEW q \in Queries, NEW t, NEW r, MissTask(q, t, r)
      PROVE  Explained(p)'
  <2>1. CASE q = p
    <3>1. entryCopy[p] = <<>> /\ entryCopy' = entryCopy
      BY <1>5, <2>1 DEF MissTask, Asks, Typed, QueryPhases
    <3> QED
      BY <3>1 DEF Explained
  <2>2. CASE q # p
    BY <1>1, <1>3, <1>5, <2>2 DEF MissTask, Asks, Fails
  <2> QED
    BY <2>1, <2>2
<1>6. ASSUME NEW q \in Queries, NEW t, NEW r, CopyEntries(q, t, r)
      PROVE  Explained(p)'
  <2>1. CASE q = p
    <3>1. result'[p] = NoResult
      BY <1>6, <2>1 DEF CopyEntries, Asks, Typed, QueryPhases
    <3> QED
      BY <1>2, <3>1 DEF NoResult
  <2>2. CASE q # p
    BY <1>1, <1>3, <1>6, <2>2 DEF CopyEntries, Asks
  <2> QED
    BY <2>1, <2>2
<1>7. ASSUME NEW q \in Queries, RefuseQuery(q)
      PROVE  Explained(p)'
  <2>1. CASE q = p
    BY <1>1, <1>2, <1>7, <2>1 DEF RefuseQuery, Fails
  <2>2. CASE q # p
    BY <1>1, <1>3, <1>7, <2>2 DEF RefuseQuery, Fails
  <2> QED
    BY <2>1, <2>2
<1>8. ASSUME NEW q \in Queries, RejectWeight(q)
      PROVE  Explained(p)'
  <2>1. CASE q = p
    <3> DEFINE allowed == AllowedEntries(q)
    <3>1. allowed # <<>> /\ totalServiceWeight(allowed) <= 0
      BY <1>8 DEF RejectWeight
    <3>2. /\ allowed \in Seq(Candidate)
          /\ exactWeight(allowed) \in Nat /\ exactWeight(allowed) > 0
      BY <3>1, AllowedWeight
    <3>3. exactWeight(allowed) <= MaxInt =>
              totalServiceWeight(allowed) = exactWeight(allowed)
      BY <3>2, RunningFits
    <3>4. exactWeight(allowed) > MaxInt
      BY <3>1, <3>2, <3>3, MaxIntAssumption
    <3>5. AllowedEntries(q)' = AllowedEntries(q)
      BY <1>8, AllowedFrame DEF RejectWeight
    <3> QED
      BY <2>1, <3>4, <3>5 DEF Explained
  <2>2. CASE q # p
    BY <1>1, <1>3, <1>8, <2>2 DEF RejectWeight, Fails
  <2> QED
    BY <2>1, <2>2
<1>9. ASSUME NEW q \in Queries, SelectEntry(q)
      PROVE  Explained(p)'
  <2>1. CASE q = p
    <3>1. pc' = [pc EXCEPT ![q] = "selected"]
      BY <1>9, SelectEntryFinds
    <3>2. pc'[p] = "selected"
      BY <2>1, <3>1 DEF Typed, TypeOK
    <3>3. Typed'
      BY TypedStep
    <3>4. result'[p] \in Addrs
      BY <3>2, <3>3 DEF Typed, QueryPhases
    <3> QED
      BY <1>2, <3>4, ErrorsAreNoAddrs
  <2>2. CASE q # p
    BY <1>1, <1>3, <1>9, <2>2 DEF SelectEntry, Fails
  <2> QED
    BY <2>1, <2>2
<1>10. CASE UNCHANGED <<entryCopy, requestor, firewall, result>>
  BY <1>3, <1>10
<1> QED
  BY <1>4, <1>5, <1>6, <1>7, <1>8, <1>9, <1>10, ZenonT(40)
     DEF Next, QueryStep, Register, RegisterWithCapacity, CountQuery,
         ReturnAddress, Cleanup, Tick, vars, queryVars

\* A known task is reported as not found only when the capacities of its
\* entries add up to more than an int holds (GetServiceForRequestor): a total
\* that fits is positive, and then the loop of selectWeightedAddress stops.
THEOREM FailuresExplained == Spec => []NotFoundExplained
<1>1. Init => NotFoundExplained
  BY DEF Init, NotFoundExplained, NoResult
<1>2. Spec => []Typed
  BY TypedInit, TypedStep, PTL DEF Spec
<1>3. QED
  BY <1>1, <1>2, ExplainedStep, PTL DEF Spec

\* The choice by slot is the choice from the expanded pool, for every list a
\* query may have filtered (selectWeightedAddress).
THEOREM ChoiceIsPoolChoice == Spec => []SelectionMatchesPool
<1>1. Typed => SelectionMatchesPool
  <2> SUFFICES ASSUME Typed, NEW q \in Queries,
                      exactWeight(AllowedEntries(q)) <= MaxInt
               PROVE  ChoosesFromPool(AllowedEntries(q))
    BY DEF SelectionMatchesPool
  <2>1. AllowedEntries(q) \in Seq(Candidate)
    BY AllowedWeight
  <2> QED
    BY <2>1, PoolChoice
<1>2. Spec => []Typed
  BY TypedInit, TypedStep, PTL DEF Spec
<1>3. QED
  BY <1>1, <1>2, PTL

-----------------------------------------------------------------------------
\* Queries that have begun.
Active == {q \in Queries : pc[q] # "idle"}

\* The addresses a query still counts as current are in the table.
StillListed ==
    \A q \in Queries :
        /\ pc[q] = "idle" => current[q] = {}
        /\ task[q] \in Tasks => current[q] \subseteq AddrsOf(services[task[q]])

\* Queries counted for the present registration of address a of task t.
CountedNow(t, a) == {q \in CountedFor(t, a) : a \in current[q]}

\* CountersExact for every address, registered or not.
CountersBetween ==
    \A t \in Tasks, a \in Addrs :
        /\ queryCounters[t][a] <= Cardinality(CountedFor(t, a))
        /\ Cardinality(CountedNow(t, a)) <= queryCounters[t][a]

\* The inductive strengthening of CountersExact: only finitely many queries
\* have begun, and Cleanup resets a counter exactly when it takes the
\* address away from every query that counts it as current.
Counting == IsFiniteSet(Active) /\ StillListed /\ CountersBetween

\* A call that returns an error before it reaches the cursor.
Returns(q) ==
    /\ pc[q] \in {"idle", "copied"}
    /\ pc' = [pc EXCEPT ![q] = "done"]
    /\ \E error \in Errors : result' = [result EXCEPT ![q] = error]
    /\ UNCHANGED <<registryVars, firewall, entryCopy, historyVars>>
    /\ \/ UNCHANGED <<task, requestor>>
       \/ \E t \in Tasks \cup {Blank}, r \in Requestors \cup {NilIP} : Asks(q, t, r)

\* The steps of the registry, by what they do to the queries.
LEMMA StepKinds ==
    ASSUME Typed, [Next]_vars
    PROVE  \/ /\ \/ \E t \in Tasks, a \in Addrs : Heartbeat(t, a)
                 \/ Tick
                 \/ UNCHANGED services
              /\ UNCHANGED <<roundRobinIndex, queryCounters, totalQueries,
                             firewall, queryVars, historyVars>>
           \/ \E q \in Queries : Returns(q)
           \/ \E q \in Queries, t \in Tasks, r \in Requestors \cup {NilIP} :
                 CopyEntries(q, t, r)
           \/ \E q \in Queries : SelectEntry(q)
           \/ \E q \in Queries : CountQuery(q)
           \/ \E q \in Queries : ReturnAddress(q)
           \/ Cleanup
<1>1. ASSUME NEW q \in Queries, NEW r \in Requestors \cup {NilIP},
             RejectBlankTask(q, r)
      PROVE  Returns(q)
  <2>1. pc[q] = "idle" /\ "ErrInvalidTaskName" \in Errors
    BY <1>1 DEF RejectBlankTask, Asks, Errors
  <2> QED
    BY <1>1, <2>1 DEF RejectBlankTask, Fails, Returns
<1>2. ASSUME NEW q \in Queries, NEW t \in Tasks,
             NEW r \in Requestors \cup {NilIP}, MissTask(q, t, r)
      PROVE  Returns(q)
  <2>1. pc[q] = "idle" /\ "ErrNotFound" \in Errors
    BY <1>2 DEF MissTask, Asks, Errors
  <2> QED
    BY <1>2, <2>1 DEF MissTask, Fails, Returns
<1>3. ASSUME NEW q \in Queries, RefuseQuery(q)
      PROVE  Returns(q)
  <2>1. pc[q] = "copied" /\ "ErrNoAllowedService" \in Errors
    BY <1>3 DEF RefuseQuery, Errors
  <2> QED
    BY <1>3, <2>1 DEF RefuseQuery, Fails, Returns
<1>4. ASSUME NEW q \in Queries, RejectWeight(q)
      PROVE  Returns(q)
  <2>1. pc[q] = "copied" /\ "ErrNotFound" \in Errors
    BY <1>4 DEF RejectWeight, Errors
  <2> QED
    BY <1>4, <2>1 DEF RejectWeight, Fails, Returns
<1> QED
  BY <1>1, <1>2, <1>3, <1>4, ZenonT(40)
     DEF Next, QueryStep, Heartbeat, Register, RegisterWithCapacity, Tick, vars,
         queryVars, historyVars

\* A registration or a tick loses no address of any task.
LEMMA TableGrows ==
    ASSUME Typed, NEW u \in Tasks,
           \/ \E t \in Tasks, a \in Addrs : Heartbeat(t, a)
           \/ Tick
           \/ UNCHANGED services
    PROVE  AddrsOf(services[u]) \subseteq AddrsOf(services'[u])
<1>1. ASSUME DOMAIN services'[u] = DOMAIN services[u],
             \A i \in DOMAIN services[u] :
                 services'[u][i].addr = services[u][i].addr
      PROVE  AddrsOf(services[u]) \subseteq AddrsOf(services'[u])
  BY <1>1 DEF AddrsOf
<1>2. ASSUME NEW t \in Tasks, NEW a \in Addrs, Heartbeat(t, a)
      PROVE  AddrsOf(services[u]) \subseteq AddrsOf(services'[u])
  <2>1. CASE u # t
    BY <1>2, <2>1, RegisterAddrs
  <2>2. ASSUME u = t, NEW e, services'[t] = Append(services[t], e)
        PROVE  AddrsOf(services[u]) \subseteq AddrsOf(services'[u])
    <3>1. services[t] \in Seq(Entry)
      BY DEF Typed, TypeOK
    <3>2. /\ DOMAIN services[t] \subseteq DOMAIN services'[t]
          /\ \A i \in DOMAIN services[t] : services'[t][i] = services[t][i]
      BY <2>2, <3>1
    <3> QED
      BY <2>2, <3>2, Zenon DEF AddrsOf
  <2>3. CASE u = t
    <3>1. \/ /\ DOMAIN services'[t] = DOMAIN services[t]
             /\ \A i \in DOMAIN services[t] :
                   services'[t][i].addr = services[t][i].addr
          \/ \E e : services'[t] = Append(services[t], e)
      BY <1>2, RegisterAddrs, Zenon
    <3> QED
      BY <1>1, <2>2, <2>3, <3>1, Zenon
  <2> QED
    BY <2>1, <2>3, Zenon
<1>3. CASE Tick
  BY <1>1, <1>3, TickAddrs
<1> QED
  BY <1>2, <1>3

\* Every step keeps the current addresses in the table.
LEMMA StillListedStep == Typed /\ StillListed /\ [Next]_vars => StillListed'
<1> SUFFICES ASSUME Typed, StillListed, [Next]_vars
             PROVE  StillListed'
  OBVIOUS
<1>1. /\ pc \in [Queries -> {"idle", "copied", "selected", "counted", "done"}]
      /\ task \in [Queries -> Tasks \cup {Blank}]
      /\ current \in [Queries -> SUBSET Addrs]
      /\ Blank \notin Tasks
  BY NamesAssumption DEF Typed, TypeOK
<1>2. CASE /\ \/ \E t \in Tasks, a \in Addrs : Heartbeat(t, a)
              \/ Tick
              \/ UNCHANGED services
           /\ UNCHANGED <<roundRobinIndex, queryCounters, totalQueries,
                          firewall, queryVars, historyVars>>
  <2>1. \A u \in Tasks : AddrsOf(services[u]) \subseteq AddrsOf(services'[u])
    BY <1>2, TableGrows
  <2>2. UNCHANGED <<pc, task, current>>
    BY <1>2 DEF queryVars, historyVars
  <2> QED
    BY <2>1, <2>2 DEF StillListed
<1>3. ASSUME NEW q \in Queries, Returns(q)
      PROVE  StillListed'
  <2>1. /\ UNCHANGED <<services, current>> /\ pc' = [pc EXCEPT ![q] = "done"]
        /\ \/ UNCHANGED task
           \/ /\ pc[q] = "idle"
              /\ \E t \in Tasks \cup {Blank} : task' = [task EXCEPT ![q] = t]
    BY <1>3 DEF Returns, Asks, registryVars, historyVars
  <2> QED
    BY <1>1, <2>1 DEF StillListed
<1>4. ASSUME NEW q \in Queries, NEW t \in Tasks, NEW r, CopyEntries(q, t, r)
      PROVE  StillListed'
  <2>1. /\ UNCHANGED services
        /\ pc' = [pc EXCEPT ![q] = "copied"]
        /\ task' = [task EXCEPT ![q] = t]
        /\ current' = [current EXCEPT ![q] = AddrsOf(services[t])]
    BY <1>4 DEF CopyEntries, Asks, registryVars
  <2> QED
    BY <1>1, <2>1 DEF StillListed
<1>5. ASSUME NEW q \in Queries,
             SelectEntry(q) \/ CountQuery(q) \/ ReturnAddress(q)
      PROVE  StillListed'
  <2>1. /\ UNCHANGED <<services, task, current>>
        /\ pc[q] # "idle"
        /\ \E s \in {"selected", "counted", "done"} : pc' = [pc EXCEPT ![q] = s]
    BY <1>5 DEF SelectEntry, CountQuery, ReturnAddress, Fails, historyVars
  <2> QED
    BY <1>1, <2>1 DEF StillListed
<1>6. CASE Cleanup
  <2>1. /\ UNCHANGED <<pc, task>>
        /\ \A q \in Queries :
              current'[q] = IF task[q] \in Tasks
                            THEN current[q] \cap AddrsOf(services'[task[q]])
                            ELSE current[q]
    BY <1>6 DEF Cleanup, queryVars
  <2> QED
    BY <2>1 DEF StillListed
<1> QED
  BY <1>2, <1>3, <1>4, <1>5, <1>6, StepKinds, Zenon

\* Only finitely many queries have begun: a step begins at most one.
LEMMA ActiveStep ==
    Typed /\ IsFiniteSet(Active) /\ [Next]_vars => IsFiniteSet(Active')
<1> SUFFICES ASSUME Typed, IsFiniteSet(Active), [Next]_vars
             PROVE  IsFiniteSet(Active')
  OBVIOUS
<1>1. pc \in [Queries -> {"idle", "copied", "selected", "counted", "done"}]
  BY DEF Typed, TypeOK
<1>2. \/ UNCHANGED pc
      \/ \E q \in Queries, s \in {"copied", "selected", "counted", "done"} :
             pc' = [pc EXCEPT ![q] = s]
  BY StepKinds, ZenonT(40)
     DEF queryVars, Returns, CopyEntries, SelectEntry, Fails, CountQuery,
         ReturnAddress, Cleanup
<1>3. CASE UNCHANGED pc
  BY <1>3 DEF Active
<1>4. ASSUME NEW q \in Queries, NEW s \in {"copied", "selected", "counted", "done"},
             pc' = [pc EXCEPT ![q] = s]
      PROVE  IsFiniteSet(Active')
  <2>1. Active' = Active \cup {q}
    BY <1>1, <1>4 DEF Active
  <2>2. IsFiniteSet(Active \cup {q})
    BY FS_AddElement
  <2> QED
    BY <2>1, <2>2
<1> QED
  BY <1>2, <1>3, <1>4

\* The counted queries are finitely many.
LEMMA CountedFinite ==
    ASSUME IsFiniteSet(Active), NEW t, NEW a
    PROVE  /\ IsFiniteSet(CountedFor(t, a)) /\ IsFiniteSet(CountedNow(t, a))
           /\ Cardinality(CountedFor(t, a)) \in Nat
           /\ Cardinality(CountedNow(t, a)) \in Nat
<1>1. CountedFor(t, a) \subseteq Active /\ CountedNow(t, a) \subseteq Active
  BY DEF CountedFor, CountedNow, Active
<1>2. IsFiniteSet(CountedFor(t, a)) /\ IsFiniteSet(CountedNow(t, a))
  BY <1>1, FS_Subset
<1> QED
  BY <1>2, FS_CardinalityType

\* A step that neither counts a query nor touches a counter.
LEMMA CountersFrame ==
    ASSUME CountersBetween, queryCounters' = queryCounters,
           \A t \in Tasks, a \in Addrs, q \in Queries :
               /\ q \in CountedFor(t, a)' <=> q \in CountedFor(t, a)
               /\ q \in CountedFor(t, a) => current'[q] = current[q]
    PROVE  CountersBetween'
<1> SUFFICES ASSUME NEW t \in Tasks, NEW a \in Addrs
             PROVE  /\ queryCounters'[t][a] <= Cardinality(CountedFor(t, a)')
                    /\ Cardinality(CountedNow(t, a)') <= queryCounters'[t][a]
  BY DEF CountersBetween
<1>1. CountedFor(t, a)' = CountedFor(t, a)
  <2>1. CountedFor(t, a)' \subseteq Queries /\ CountedFor(t, a) \subseteq Queries
    BY DEF CountedFor
  <2> QED
    BY <2>1
<1>2. CountedNow(t, a)' = CountedNow(t, a)
  <2>1. CountedFor(t, a) \subseteq Queries
    BY DEF CountedFor
  <2> QED
    BY <1>1, <2>1 DEF CountedNow
<1> QED
  BY <1>1, <1>2 DEF CountersBetween

\* Every step keeps the counters between the two counts.
LEMMA CountersStep == Typed /\ Counting /\ [Next]_vars => CountersBetween'
<1> SUFFICES ASSUME Typed, Counting, [Next]_vars
             PROVE  CountersBetween'
  OBVIOUS
<1>1. /\ pc \in [Queries -> {"idle", "copied", "selected", "counted", "done"}]
      /\ task \in [Queries -> Tasks \cup {Blank}]
      /\ result \in [Queries -> Addrs \cup Errors \cup {NoResult}]
      /\ current \in [Queries -> SUBSET Addrs]
      /\ queryCounters \in [Tasks -> [Addrs -> Nat]]
      /\ Errors \cap Addrs = {}
  BY ErrorsAssumption DEF Typed, TypeOK
<1>2. IsFiniteSet(Active) /\ StillListed /\ CountersBetween
  BY DEF Counting
<1>3. ASSUME UNCHANGED <<queryCounters, pc, task, result, current>>
      PROVE  CountersBetween'
  BY <1>2, <1>3, CountersFrame DEF CountedFor
<1>4. ASSUME NEW q \in Queries, Returns(q)
      PROVE  CountersBetween'
  <2>1. PICK error \in Errors :
            /\ pc[q] \in {"idle", "copied"} /\ pc' = [pc EXCEPT ![q] = "done"]
            /\ result' = [result EXCEPT ![q] = error]
            /\ UNCHANGED <<queryCounters, current>>
            /\ \A p \in Queries \ {q} : task'[p] = task[p]
    BY <1>1, <1>4 DEF Returns, Asks, registryVars, historyVars
  <2>2. \A t \in Tasks, a \in Addrs, p \in Queries :
            p \in CountedFor(t, a)' <=> p \in CountedFor(t, a)
    BY <1>1, <2>1 DEF CountedFor
  <2> QED
    BY <1>2, <2>1, <2>2, CountersFrame
<1>5. ASSUME NEW q \in Queries, NEW t \in Tasks, NEW r, CopyEntries(q, t, r)
      PROVE  CountersBetween'
  <2>1. /\ pc[q] = "idle" /\ pc' = [pc EXCEPT ![q] = "copied"]
        /\ task' = [task EXCEPT ![q] = t]
        /\ UNCHANGED <<queryCounters, result>>
        /\ \A p \in Queries \ {q} : current'[p] = current[p]
    BY <1>1, <1>5 DEF CopyEntries, Asks, registryVars
  <2>2. \A u \in Tasks, a \in Addrs, p \in Queries :
            /\ p \in CountedFor(u, a)' <=> p \in CountedFor(u, a)
            /\ p \in CountedFor(u, a) => current'[p] = current[p]
    BY <1>1, <2>1 DEF CountedFor
  <2> QED
    BY <1>2, <2>1, <2>2, CountersFrame
<1>6. ASSUME NEW q \in Queries, SelectEntry(q)
      PROVE  CountersBetween'
  <2>1. /\ pc[q] = "copied" /\ pc' = [pc EXCEPT ![q] = "selected"]
        /\ UNCHANGED <<queryCounters, task, current>>
        /\ \A p \in Queries \ {q} : result'[p] = result[p]
    BY <1>1, <1>6, SelectEntryFinds
  <2>2. \A t \in Tasks, a \in Addrs, p \in Queries :
            p \in CountedFor(t, a)' <=> p \in CountedFor(t, a)
    BY <1>1, <2>1 DEF CountedFor
  <2> QED
    BY <1>2, <2>1, <2>2, CountersFrame
<1>7. ASSUME NEW q \in Queries, ReturnAddress(q)
      PROVE  CountersBetween'
  <2>1. /\ pc[q] = "counted" /\ pc' = [pc EXCEPT ![q] = "done"]
        /\ UNCHANGED <<queryCounters, task, result, current>>
    BY <1>7 DEF ReturnAddress, historyVars
  <2>2. \A t \in Tasks, a \in Addrs, p \in Queries :
            p \in CountedFor(t, a)' <=> p \in CountedFor(t, a)
    BY <1>1, <2>1 DEF CountedFor
  <2> QED
    BY <1>2, <2>1, <2>2, CountersFrame
<1>8. ASSUME NEW q \in Queries, CountQuery(q)
      PROVE  CountersBetween'
  <2>1. task[q] \in Tasks /\ result[q] \in Addrs /\ pc[q] = "selected"
    BY <1>8 DEF CountQuery, Typed, QueryPhases
  <2>2. /\ pc' = [pc EXCEPT ![q] = "counted"]
        /\ queryCounters' = [queryCounters EXCEPT ![task[q]][result[q]] = @ + 1]
        /\ UNCHANGED <<task, result, current>>
    BY <1>8 DEF CountQuery, historyVars
  <2> SUFFICES ASSUME NEW t \in Tasks, NEW a \in Addrs
               PROVE  /\ queryCounters'[t][a] <= Cardinality(CountedFor(t, a)')
                      /\ Cardinality(CountedNow(t, a)') <= queryCounters'[t][a]
    BY DEF CountersBetween
  <2>3. /\ Cardinality(CountedFor(t, a)) \in Nat /\ IsFiniteSet(CountedFor(t, a))
        /\ Cardinality(CountedNow(t, a)) \in Nat /\ IsFiniteSet(CountedNow(t, a))
        /\ queryCounters[t][a] \in Nat
        /\ queryCounters[t][a] <= Cardinality(CountedFor(t, a))
        /\ Cardinality(CountedNow(t, a)) <= queryCounters[t][a]
    BY <1>1, <1>2, CountedFinite DEF CountersBetween
  <2>4. CASE t = task[q] /\ a = result[q]
    <3>1. queryCounters'[t][a] = queryCounters[t][a] + 1
      BY <1>1, <2>1, <2>2, <2>4
    <3>2. /\ CountedFor(t, a)' = CountedFor(t, a) \cup {q}
          /\ q \notin CountedFor(t, a)
      BY <1>1, <2>1, <2>2, <2>4 DEF CountedFor
    <3>3. CountedNow(t, a)' \in SUBSET (CountedNow(t, a) \cup {q})
      BY <2>2, <3>2 DEF CountedNow
    <3>4. Cardinality(CountedFor(t, a)') = Cardinality(CountedFor(t, a)) + 1
      BY <2>3, <3>2, FS_AddElement
    <3>5. PICK now, more : now = CountedNow(t, a) /\ more = now \cup {q}
      OBVIOUS
    <3>6. IsFiniteSet(more) /\ Cardinality(more) <= Cardinality(now) + 1
      <4>1. IsFiniteSet(now) /\ Cardinality(now) \in Nat
        BY <2>3, <3>5
      <4>2. /\ IsFiniteSet(now \cup {q})
            /\ Cardinality(now \cup {q}) =
                  IF q \in now THEN Cardinality(now) ELSE Cardinality(now) + 1
        BY <4>1, FS_AddElement
      <4> QED
        BY <3>5, <4>1, <4>2
    <3>7. /\ Cardinality(CountedNow(t, a)') <= Cardinality(more)
          /\ Cardinality(more) \in Nat /\ Cardinality(CountedNow(t, a)') \in Nat
      BY <3>3, <3>5, <3>6, FS_Subset, FS_CardinalityType
    <3> QED
      BY <2>3, <3>1, <3>4, <3>5, <3>6, <3>7
  <2>5. CASE ~(t = task[q] /\ a = result[q])
    <3>1. queryCounters'[t][a] = queryCounters[t][a]
      BY <1>1, <2>1, <2>2, <2>5
    <3>2. CountedFor(t, a)' = CountedFor(t, a)
      BY <1>1, <2>1, <2>2, <2>5 DEF CountedFor
    <3>3. CountedNow(t, a)' = CountedNow(t, a)
      BY <2>2, <3>2 DEF CountedNow
    <3> QED
      BY <2>3, <3>1, <3>2, <3>3
  <2> QED
    BY <2>4, <2>5
<1>9. CASE Cleanup
  <2> SUFFICES ASSUME NEW t \in Tasks, NEW a \in Addrs
               PROVE  /\ queryCounters'[t][a] <= Cardinality(CountedFor(t, a)')
                      /\ Cardinality(CountedNow(t, a)') <= queryCounters'[t][a]
    BY DEF CountersBetween
  <2>1. /\ Cardinality(CountedFor(t, a)) \in Nat /\ IsFiniteSet(CountedFor(t, a))
        /\ Cardinality(CountedNow(t, a)) \in Nat /\ IsFiniteSet(CountedNow(t, a))
        /\ queryCounters[t][a] \in Nat
        /\ queryCounters[t][a] <= Cardinality(CountedFor(t, a))
        /\ Cardinality(CountedNow(t, a)) <= queryCounters[t][a]
    BY <1>1, <1>2, CountedFinite DEF CountersBetween
  <2>2. UNCHANGED <<pc, task, result>>
    BY <1>9 DEF Cleanup, queryVars
  <2>3. CountedFor(t, a)' = CountedFor(t, a)
    BY <2>2 DEF CountedFor
  <2>4. \A q \in CountedFor(t, a) :
            current'[q] = current[q] \cap AddrsOf(Kept(services[t]))
    BY <1>9 DEF Cleanup, CountedFor
  <2>5. queryCounters'[t][a] = IF a \in Removed(t) THEN 0 ELSE queryCounters[t][a]
    BY <1>9 DEF Cleanup
  <2>6. CASE a \in Removed(t)
    <3>1. CountedNow(t, a)' = {}
      BY <2>3, <2>4, <2>6 DEF CountedNow, Removed
    <3>2. Cardinality(CountedNow(t, a)') = 0
      BY <3>1, FS_EmptySet
    <3> QED
      BY <2>1, <2>3, <2>5, <2>6, <3>2
  <2>7. CASE a \notin Removed(t)
    <3>1. CountedNow(t, a)' \in SUBSET CountedNow(t, a)
      BY <2>3, <2>4 DEF CountedNow
    <3>2. /\ Cardinality(CountedNow(t, a)') <= Cardinality(CountedNow(t, a))
          /\ Cardinality(CountedNow(t, a)') \in Nat
      BY <2>1, <3>1, FS_Subset, FS_CardinalityType
    <3> QED
      BY <2>1, <2>3, <2>5, <2>7, <3>2
  <2> QED
    BY <2>6, <2>7
<1> QED
  BY <1>3, <1>4, <1>5, <1>6, <1>7, <1>8, <1>9, StepKinds, ZenonT(40)
     DEF queryVars, historyVars

\* CountersBetween covers the registered addresses.
LEMMA CountersImplied == Typed /\ CountersBetween => CountersExact
<1> SUFFICES ASSUME Typed, CountersBetween, NEW t \in Tasks,
                    NEW i \in DOMAIN services[t]
             PROVE  LET listed == ListServices(t)[i]
                        counted == CountedFor(t, listed.addr)
                    IN  /\ listed.queryCount <= Cardinality(counted)
                        /\ Cardinality({q \in counted : listed.addr \in current[q]})
                               <= listed.queryCount
  BY DEF CountersExact
<1>1. PICK a : a = services[t][i].addr
  OBVIOUS
<1>2. a \in Addrs
  <2>1. services[t] \in Seq(Entry)
    BY DEF Typed, TypeOK
  <2>2. a \in AddrsOf(services[t])
    BY <1>1 DEF AddrsOf
  <2> QED
    BY <2>1, <2>2, AddrsOfType
<1>3. /\ ListServices(t)[i].addr = a
      /\ ListServices(t)[i].queryCount = queryCounters[t][a]
  BY <1>1 DEF ListServices
<1> QED
  BY <1>2, <1>3 DEF CountersBetween, CountedNow

\* The count ListServices reports for an entry is at least the number of
\* counted queries that copied this registration of the address and at most
\* the number of all counted queries for it, with any number of queries
\* counting without a lock while Cleanup deletes counters.
THEOREM NoCountLost == Spec => []CountersExact
<1>1. Init => Counting
  <2> SUFFICES ASSUME Init
               PROVE  Counting
    OBVIOUS
  <2>1. Active = {}
    BY DEF Init, Active
  <2>2. StillListed
    BY DEF Init, StillListed
  <2>3. CountersBetween
    <3> SUFFICES ASSUME NEW t \in Tasks, NEW a \in Addrs
                 PROVE  /\ queryCounters[t][a] <= Cardinality(CountedFor(t, a))
                        /\ Cardinality(CountedNow(t, a)) <= queryCounters[t][a]
      BY DEF CountersBetween
    <3>1. CountedFor(t, a) = {} /\ CountedNow(t, a) = {}
      BY DEF Init, CountedFor, CountedNow
    <3>2. queryCounters[t][a] = 0
      BY DEF Init
    <3> QED
      BY <3>1, <3>2, FS_EmptySet
  <2> QED
    BY <2>1, <2>2, <2>3, FS_EmptySet DEF Counting
<1>2. Typed /\ Counting /\ [Next]_vars => Counting'
  BY StillListedStep, ActiveStep, CountersStep DEF Counting
<1>3. Typed /\ Counting => CountersExact
  BY CountersImplied DEF Counting
<1>4. Spec => []Typed
  BY TypedInit, TypedStep, PTL DEF Spec
<1> QED
  BY <1>1, <1>2, <1>3, <1>4, PTL DEF Spec

-----------------------------------------------------------------------------
\* A query copies a list without duplicates.
CopiesDistinct == \A q \in Queries : Distinct(entryCopy[q])

\* What holds of a query that drew from the present cursor of its task.
Drawn(q) ==
    LET allowed == AllowedEntries(q)
        total == totalServiceWeight(allowed)
    IN  /\ pc[q] \in {"selected", "counted", "done"}
        /\ task[q] \in Tasks
        /\ ticket[q] < roundRobinIndex[task[q]]
        /\ total > 0
        /\ result[q] = selectWeightedAddress(allowed, ticket[q] % total)

\* The atomic add hands every cursor value to one query, until Cleanup
\* deletes the cursor together with the last entry of the task.
TicketsOnce ==
    /\ \A q \in Queries : ticket[q] # NoTicket => Drawn(q)
    /\ \A p, q \in Queries :
          ticket[p] # NoTicket /\ ticket[p] = ticket[q] /\ task[p] = task[q]
              => p = q

\* The filter keeps the addresses distinct.
LEMMA AllowedDistinct ==
    ASSUME Typed, NEW q \in Queries, Distinct(entryCopy[q])
    PROVE  Distinct(AllowedEntries(q))
<1>1. CASE ~Filtered(q)
  BY <1>1, AllowedProperties DEF Typed
<1>2. CASE Filtered(q)
  <2>1. PICK copy, keep, n : /\ copy = entryCopy[q] /\ keep = PermittedPositions(q)
                             /\ n = Cardinality(keep)
    OBVIOUS
  <2>2. copy \in Seq(Candidate) /\ keep \in SUBSET DOMAIN copy
    BY <2>1 DEF Typed, TypeOK, PermittedPositions
  <2>3. /\ n \in Nat
        /\ Len(Subsequence(copy, keep)) = n
        /\ Subsequence(copy, keep) \in Seq(Candidate)
        /\ \A k \in 1..n : /\ Nth(keep, k) \in keep
                           /\ Subsequence(copy, keep)[k] = copy[Nth(keep, k)]
        /\ \A k, l \in 1..n : k < l => Nth(keep, k) < Nth(keep, l)
    BY <2>1, <2>2, SubsequenceProperties
  <2>4. AllowedEntries(q) = Subsequence(copy, keep)
    BY <1>2, <2>1 DEF AllowedEntries
  <2>5. DOMAIN Subsequence(copy, keep) = 1..n
    BY <2>3
  <2> SUFFICES ASSUME NEW k \in 1..n, NEW l \in 1..n,
                      Subsequence(copy, keep)[k].addr = Subsequence(copy, keep)[l].addr
               PROVE  k = l
    BY <2>4, <2>5, Zenon DEF Distinct
  <2>6. Nth(keep, k) = Nth(keep, l)
    <3>1. /\ Nth(keep, k) \in DOMAIN copy /\ Nth(keep, l) \in DOMAIN copy
          /\ copy[Nth(keep, k)].addr = copy[Nth(keep, l)].addr
      BY <2>2, <2>3
    <3> QED
      BY <2>1, <3>1, Zenon DEF Distinct
  <2>7. Nth(keep, k) \in Nat /\ Nth(keep, l) \in Nat
    BY <2>2, <2>3
  <2> QED
    BY <2>3, <2>6, <2>7
<1> QED
  BY <1>1, <1>2

\* A copy is taken from a table without duplicates and never changes.
LEMMA CopiesStep ==
    Typed /\ UniqueAddresses /\ CopiesDistinct /\ [Next]_vars => CopiesDistinct'
<1> SUFFICES ASSUME Typed, UniqueAddresses, CopiesDistinct, [Next]_vars
             PROVE  CopiesDistinct'
  OBVIOUS
<1>1. CASE UNCHANGED entryCopy
  BY <1>1 DEF CopiesDistinct
<1>2. ASSUME NEW q \in Queries, NEW t \in Tasks, NEW r, CopyEntries(q, t, r)
      PROVE  CopiesDistinct'
  <2>1. /\ entryCopy' = [entryCopy EXCEPT ![q] = Candidates(services[t])]
        /\ entryCopy \in [Queries -> Seq(Candidate)]
    BY <1>2 DEF CopyEntries, Typed, TypeOK
  <2>2. Distinct(Candidates(services[t]))
    BY DEF UniqueAddresses, Distinct, Candidates
  <2>3. \A p \in Queries : entryCopy'[p] = entryCopy[p]
                           \/ entryCopy'[p] = Candidates(services[t])
    BY <2>1
  <2> QED
    BY <2>2, <2>3, Zenon DEF CopiesDistinct
<1> QED
  BY <1>1, <1>2, StepKinds, ZenonT(40)
     DEF queryVars, Returns, SelectEntry, CountQuery, ReturnAddress, Cleanup

\* A query that has drawn stays so while its own variables stay and the
\* cursor does not go back.
LEMMA DrawnFrame ==
    ASSUME Typed, NEW q \in Queries, Drawn(q), ticket[q] # NoTicket,
           pc'[q] \in {"selected", "counted", "done"},
           task'[q] = task[q], ticket'[q] = ticket[q], result'[q] = result[q],
           entryCopy'[q] = entryCopy[q], requestor'[q] = requestor[q],
           firewall' = firewall,
           \/ roundRobinIndex'[task[q]] = roundRobinIndex[task[q]]
           \/ roundRobinIndex'[task[q]] = roundRobinIndex[task[q]] + 1
    PROVE  Drawn(q)'
<1>1. AllowedEntries(q)' = AllowedEntries(q)
  BY AllowedFrame
<1>2. task[q] \in Tasks /\ ticket[q] < roundRobinIndex[task[q]]
  BY DEF Drawn
<1>3. ticket[q] \in Nat /\ roundRobinIndex[task[q]] \in Nat
  BY <1>2 DEF Typed, TypeOK
<1>4. ticket'[q] < roundRobinIndex'[task'[q]]
  <2>1. PICK drawn, cursor : drawn = ticket[q] /\ cursor = roundRobinIndex[task[q]]
    OBVIOUS
  <2>2. /\ drawn \in Nat /\ cursor \in Nat /\ drawn < cursor
        /\ drawn < cursor + 1
    BY <1>2, <1>3, <2>1
  <2> QED
    BY <2>1, <2>2, Zenon
<1> QED
  BY <1>1, <1>4 DEF Drawn

\* A task that Cleanup empties has no entry left, so no ticket either.
LEMMA EmptiedKeepsNone ==
    ASSUME Typed, NEW t \in Tasks, Emptied(t)
    PROVE  Kept(services[t]) = <<>>
<1>1. services[t] \in Seq(Entry) /\ FreshPositions(services[t]) = {}
  BY DEF Typed, TypeOK, Emptied
<1>2. /\ Subsequence(services[t], {}) \in Seq(Entry)
      /\ Len(Subsequence(services[t], {})) = Cardinality({})
  <2>1. {} \in SUBSET DOMAIN services[t]
    OBVIOUS
  <2> QED
    BY <1>1, <2>1, SubsequenceProperties
<1>3. Cardinality({}) = 0
  BY FS_EmptySet
<1>4. Subsequence(services[t], {}) = <<>>
  BY <1>2, <1>3
<1> QED
  BY <1>1, <1>4 DEF Kept

\* Every step keeps the tickets unique and the answers bound to them.
LEMMA TicketsStep == Typed /\ TicketsOnce /\ [Next]_vars => TicketsOnce'
<1> SUFFICES ASSUME Typed, TicketsOnce, [Next]_vars
             PROVE  TicketsOnce'
  OBVIOUS
<1>1. /\ pc \in [Queries -> {"idle", "copied", "selected", "counted", "done"}]
      /\ task \in [Queries -> Tasks \cup {Blank}]
      /\ requestor \in [Queries -> Requestors \cup {NilIP}]
      /\ entryCopy \in [Queries -> Seq(Candidate)]
      /\ result \in [Queries -> Addrs \cup Errors \cup {NoResult}]
      /\ ticket \in [Queries -> Nat \cup {NoTicket}]
      /\ roundRobinIndex \in [Tasks -> Nat]
  BY DEF Typed, TypeOK
<1>2. \A p \in Queries : ticket[p] # NoTicket =>
          Drawn(p) /\ pc[p] \in {"selected", "counted", "done"} /\ task[p] \in Tasks
  BY DEF TicketsOnce, Drawn
<1>3. ASSUME UNCHANGED <<firewall, roundRobinIndex, ticket>>,
             \A p \in Queries : ticket[p] # NoTicket =>
                 /\ pc'[p] \in {"selected", "counted", "done"}
                 /\ task'[p] = task[p] /\ result'[p] = result[p]
                 /\ entryCopy'[p] = entryCopy[p] /\ requestor'[p] = requestor[p]
      PROVE  TicketsOnce'
  <2>1. \A p \in Queries : ticket'[p] # NoTicket => Drawn(p)'
    <3> SUFFICES ASSUME NEW p \in Queries, ticket[p] # NoTicket
                 PROVE  Drawn(p)'
      BY <1>3
    <3>1. Drawn(p)
      BY <1>2
    <3>2. /\ pc'[p] \in {"selected", "counted", "done"}
          /\ task'[p] = task[p] /\ result'[p] = result[p]
          /\ entryCopy'[p] = entryCopy[p] /\ requestor'[p] = requestor[p]
          /\ ticket'[p] = ticket[p] /\ firewall' = firewall
          /\ roundRobinIndex'[task[p]] = roundRobinIndex[task[p]]
      BY <1>3
    <3> QED
      BY <3>1, <3>2, DrawnFrame
  <2>2. \A p, q \in Queries :
            ticket'[p] # NoTicket /\ ticket'[p] = ticket'[q] /\ task'[p] = task'[q]
                => p = q
    BY <1>3 DEF TicketsOnce
  <2> QED
    BY <2>1, <2>2 DEF TicketsOnce
<1>4. CASE UNCHANGED <<roundRobinIndex, firewall, queryVars, historyVars>>
  BY <1>2, <1>3, <1>4 DEF queryVars, historyVars
<1>5. ASSUME NEW q \in Queries, Returns(q)
      PROVE  TicketsOnce'
  <2>1. ticket[q] = NoTicket
    BY <1>2, <1>5 DEF Returns
  <2>2. /\ UNCHANGED <<firewall, roundRobinIndex, ticket, entryCopy>>
        /\ \A p \in Queries \ {q} : /\ pc'[p] = pc[p] /\ task'[p] = task[p]
                                    /\ result'[p] = result[p]
                                    /\ requestor'[p] = requestor[p]
    BY <1>1, <1>5 DEF Returns, Asks, registryVars, historyVars
  <2> QED
    BY <1>2, <1>3, <2>1, <2>2
<1>6. ASSUME NEW q \in Queries, NEW t \in Tasks, NEW r, CopyEntries(q, t, r)
      PROVE  TicketsOnce'
  <2>1. ticket[q] = NoTicket
    BY <1>2, <1>6 DEF CopyEntries, Asks
  <2>2. /\ UNCHANGED <<firewall, roundRobinIndex, ticket, result>>
        /\ \A p \in Queries \ {q} : /\ pc'[p] = pc[p] /\ task'[p] = task[p]
                                    /\ entryCopy'[p] = entryCopy[p]
                                    /\ requestor'[p] = requestor[p]
    BY <1>1, <1>6 DEF CopyEntries, Asks, registryVars
  <2> QED
    BY <1>2, <1>3, <2>1, <2>2
<1>7. ASSUME NEW q \in Queries, CountQuery(q) \/ ReturnAddress(q)
      PROVE  TicketsOnce'
  <2>1. /\ UNCHANGED <<firewall, roundRobinIndex, ticket, task, result,
                       entryCopy, requestor>>
        /\ \E s \in {"counted", "done"} : pc' = [pc EXCEPT ![q] = s]
    BY <1>7 DEF CountQuery, ReturnAddress, historyVars
  <2> QED
    BY <1>1, <1>2, <1>3, <2>1
<1>8. ASSUME NEW q \in Queries, SelectEntry(q)
      PROVE  TicketsOnce'
  <2>1. PICK allowed, total, cursor :
            /\ allowed = AllowedEntries(q)
            /\ total = totalServiceWeight(allowed)
            /\ cursor = roundRobinIndex[task[q]]
    OBVIOUS
  <2>2. /\ pc[q] = "copied" /\ task[q] \in Tasks
        /\ cursor \in Nat /\ total > 0
        /\ roundRobinIndex' = [roundRobinIndex EXCEPT ![task[q]] = cursor + 1]
        /\ ticket' = [ticket EXCEPT ![q] = cursor]
        /\ pc' = [pc EXCEPT ![q] = "selected"]
        /\ result' = [result EXCEPT
                          ![q] = selectWeightedAddress(allowed, cursor % total)]
        /\ UNCHANGED <<firewall, task, requestor, entryCopy>>
    BY <1>8, <2>1, SelectEntryFinds
  <2>3. Drawn(q)'
    <3>1. AllowedEntries(q)' = allowed
      BY <2>1, <2>2, AllowedFrame
    <3>2. /\ pc'[q] = "selected" /\ task'[q] \in Tasks /\ ticket'[q] = cursor
          /\ roundRobinIndex'[task'[q]] = cursor + 1
          /\ result'[q] = selectWeightedAddress(allowed, cursor % total)
      BY <1>1, <2>2
    <3>3. ticket'[q] < roundRobinIndex'[task'[q]]
      BY <2>2, <3>2
    <3> QED
      BY <2>1, <2>2, <3>1, <3>2, <3>3 DEF Drawn
  <2>4. ASSUME NEW p \in Queries, p # q, ticket'[p] # NoTicket
        PROVE  Drawn(p)' /\ ticket[p] # NoTicket /\ ticket'[p] = ticket[p]
    <3>1. ticket[p] # NoTicket /\ ticket'[p] = ticket[p]
      BY <1>1, <2>2, <2>4
    <3>2. Drawn(p) /\ pc[p] \in {"selected", "counted", "done"} /\ task[p] \in Tasks
      BY <1>2, <3>1
    <3>3. /\ pc'[p] = pc[p] /\ task'[p] = task[p] /\ result'[p] = result[p]
          /\ entryCopy'[p] = entryCopy[p] /\ requestor'[p] = requestor[p]
          /\ firewall' = firewall
          /\ \/ roundRobinIndex'[task[p]] = roundRobinIndex[task[p]]
             \/ roundRobinIndex'[task[p]] = roundRobinIndex[task[p]] + 1
      BY <1>1, <2>1, <2>2, <2>4, <3>2
    <3>4. Drawn(p)'
      BY <3>1, <3>2, <3>3, DrawnFrame
    <3> QED
      BY <3>1, <3>4
  <2>5. ASSUME NEW p \in Queries, p # q, ticket'[p] # NoTicket,
               task'[p] = task'[q]
        PROVE  ticket'[p] # ticket'[q]
    <3>1. ticket[p] # NoTicket /\ ticket'[p] = ticket[p]
      BY <2>4, <2>5
    <3>2. ticket[p] < cursor /\ ticket[p] \in Nat
      <4>1. task[p] = task[q]
        BY <2>2, <2>5
      <4>2. ticket[p] < roundRobinIndex[task[p]]
        BY <3>1 DEF TicketsOnce, Drawn
      <4> QED
        BY <1>1, <2>1, <3>1, <4>1, <4>2
    <3>3. ticket'[q] = cursor
      BY <1>1, <2>2
    <3> QED
      BY <2>2, <3>1, <3>2, <3>3
  <2>6. ticket'[q] # NoTicket
    BY <1>1, <2>2 DEF NoTicket
  <2>7. \A p \in Queries : ticket'[p] # NoTicket => Drawn(p)'
    BY <2>3, <2>4
  <2>8. \A p, r \in Queries :
            ticket'[p] # NoTicket /\ ticket'[p] = ticket'[r] /\ task'[p] = task'[r]
                => p = r
    <3> SUFFICES ASSUME NEW p \in Queries, NEW r \in Queries,
                        ticket'[p] # NoTicket, ticket'[p] = ticket'[r],
                        task'[p] = task'[r], p # r
                 PROVE  FALSE
      OBVIOUS
    <3>1. p # q /\ r # q
      BY <2>5, <2>6
    <3>2. ticket[p] # NoTicket /\ ticket[p] = ticket[r] /\ task[p] = task[r]
      BY <2>2, <2>4, <3>1
    <3> QED
      BY <3>2 DEF TicketsOnce
  <2> QED
    BY <2>7, <2>8 DEF TicketsOnce
<1>9. CASE Cleanup
  <2>1. /\ UNCHANGED <<firewall, pc, task, requestor, entryCopy, result>>
        /\ \A p \in Queries :
              ticket'[p] = IF task[p] \in Tasks /\ services'[task[p]] = <<>>
                           THEN NoTicket ELSE ticket[p]
        /\ \A t \in Tasks : /\ services'[t] = Kept(services[t])
                            /\ ~Emptied(t) => roundRobinIndex'[t] = roundRobinIndex[t]
    BY <1>9 DEF Cleanup, queryVars
  <2>2. ASSUME NEW p \in Queries, ticket'[p] # NoTicket
        PROVE  ticket'[p] = ticket[p] /\ Drawn(p)'
    <3>1. ticket'[p] = ticket[p] /\ ticket[p] # NoTicket
      BY <2>1, <2>2
    <3>2. Drawn(p) /\ pc[p] \in {"selected", "counted", "done"} /\ task[p] \in Tasks
      BY <1>2, <3>1
    <3>3. ~Emptied(task[p])
      BY <2>1, <2>2, <3>2, EmptiedKeepsNone
    <3>4. roundRobinIndex'[task[p]] = roundRobinIndex[task[p]]
      BY <2>1, <3>2, <3>3
    <3>5. Drawn(p)'
      BY <2>1, <3>1, <3>2, <3>4, DrawnFrame
    <3> QED
      BY <3>1, <3>5
  <2>3. \A p, r \in Queries :
            ticket'[p] # NoTicket /\ ticket'[p] = ticket'[r] /\ task'[p] = task'[r]
                => p = r
    <3> SUFFICES ASSUME NEW p \in Queries, NEW r \in Queries,
                        ticket'[p] # NoTicket, ticket'[p] = ticket'[r],
                        task'[p] = task'[r]
                 PROVE  p = r
      OBVIOUS
    <3>1. ticket'[p] = ticket[p] /\ ticket'[r] = ticket[r]
      BY <2>2, Zenon
    <3>2. task[p] = task[r]
      BY <2>1
    <3> QED
      BY <3>1, <3>2, Zenon DEF TicketsOnce
  <2> QED
    BY <2>2, <2>3, Zenon DEF TicketsOnce
<1> QED
  BY <1>4, <1>5, <1>6, <1>7, <1>8, <1>9, StepKinds, ZenonT(40)
     DEF queryVars, historyVars

\* The window of WeightedRotation is a full turn of the cursor.
LEMMA RotationImplied ==
    Typed /\ CopiesDistinct /\ TicketsOnce => WeightedRotation
<1> SUFFICES ASSUME Typed, CopiesDistinct, TicketsOnce, NEW q \in Queries
             PROVE  LET total == totalServiceWeight(AllowedEntries(q))
                        window == {p \in SameChoice(q) :
                                      ticket[p] \in ticket[q]..(ticket[q] + total - 1)}
                    IN  /\ ticket[q] # NoTicket
                        /\ exactWeight(AllowedEntries(q)) <= MaxInt
                        /\ Cardinality(window) = total
                        => ExactShares(window, q)
  BY DEF WeightedRotation
<1>1. PICK entries, total, base, window :
          /\ entries = AllowedEntries(q)
          /\ total = totalServiceWeight(entries)
          /\ base = ticket[q]
          /\ window = {p \in SameChoice(q) : ticket[p] \in base..(base + total - 1)}
  OBVIOUS
<1> SUFFICES ASSUME base # NoTicket, exactWeight(entries) <= MaxInt,
                    Cardinality(window) = total
             PROVE  ExactShares(window, q)
  BY <1>1
<1>2. entries \in Seq(Candidate) /\ base \in Nat
  BY <1>1, AllowedWeight DEF Typed, TypeOK
<1>3. total = exactWeight(entries)
  BY <1>1, <1>2, RunningFits
<1>4. \A i, j \in 1..Len(entries) : entries[i].addr = entries[j].addr => i = j
  <2>1. Distinct(entries)
    BY <1>1, AllowedDistinct DEF CopiesDistinct
  <2>2. DOMAIN entries = 1..Len(entries)
    BY <1>2
  <2> QED
    BY <2>1, <2>2 DEF Distinct
<1>5. PICK drawn : drawn = [p \in window |-> ticket[p]]
  OBVIOUS
<1>6. \A p \in window : /\ p \in Queries /\ ticket[p] # NoTicket
                        /\ ticket[p] \in base..(base + total - 1)
                        /\ task[p] = task[q] /\ AllowedEntries(p) = entries
  BY <1>1 DEF SameChoice
<1>7. /\ drawn \in [window -> Nat]
      /\ \A p \in window : drawn[p] \in base..(base + exactWeight(entries) - 1)
  <2>1. \A p \in window : ticket[p] \in Nat
    BY <1>6 DEF Typed, TypeOK
  <2> QED
    BY <1>3, <1>5, <1>6, <2>1
<1>8. \A p, r \in window : drawn[p] = drawn[r] => p = r
  BY <1>5, <1>6 DEF TicketsOnce
<1>9. \A p \in window :
          result[p] = selectWeightedAddress(entries, drawn[p] % exactWeight(entries))
  <2>1. \A p \in window : Drawn(p) /\ drawn[p] = ticket[p]
    BY <1>5, <1>6 DEF TicketsOnce
  <2> QED
    BY <1>1, <1>3, <1>6, <2>1 DEF Drawn
<1>10. PICK chosen : chosen = result
  OBVIOUS
<1>11. \A p \in window :
          chosen[p] = selectWeightedAddress(entries, drawn[p] % exactWeight(entries))
  BY <1>9, <1>10
<1>12. FullShares(entries, window, chosen)
  <2>1. FullTurn(entries, window, base, drawn, chosen)
    BY <1>2, <1>3, <1>4, <1>7, <1>8, <1>11 DEF FullTurn
  <2> QED
    BY <2>1, RotationShares, Zenon
<1>13. DOMAIN entries = 1..Len(entries)
  BY <1>2
<1> QED
  BY <1>1, <1>10, <1>12, <1>13, Zenon DEF ExactShares, FullShares

\* Weighted round robin: queries that drew as many consecutive cursor values
\* as the entries have weight gave every address exactly its capacity, for
\* any number of queries in any interleaving, with Cleanup deleting cursors
\* meanwhile (the atomic add in GetServiceForRequestor).
THEOREM RotationIsFair == Spec => []WeightedRotation
<1>1. Init => CopiesDistinct /\ TicketsOnce
  BY DEF Init, CopiesDistinct, Distinct, TicketsOnce
<1>2. Typed /\ UniqueAddresses /\ CopiesDistinct /\ TicketsOnce /\ [Next]_vars
          => CopiesDistinct' /\ TicketsOnce'
  BY CopiesStep, TicketsStep
<1>3. Typed /\ CopiesDistinct /\ TicketsOnce => WeightedRotation
  BY RotationImplied
<1>4. Spec => []Typed
  BY TypedInit, TypedStep, PTL DEF Spec
<1>5. Spec => []UniqueAddresses
  BY NoDuplicates
<1> QED
  BY <1>1, <1>2, <1>3, <1>4, <1>5, PTL DEF Spec

-----------------------------------------------------------------------------
\* The firewall's decision.

\* An end of a rule: a network, an address, both or neither.
RuleEnds == [network : Networks \cup {Nil}, ip : IPs \cup {Nil}]

\* A list of rules.
IsRules(rules) ==
    /\ DOMAIN rules = 1..Len(rules) /\ Len(rules) \in Nat
    /\ rules = <<>> <=> Len(rules) = 0
    /\ \A i \in DOMAIN rules : rules[i].source \in RuleEnds /\ rules[i].dest \in RuleEnds

\* The network an end is filed under contains the addresses the end matches.
LEMMA FiledAsMatched ==
    ASSUME NEW end \in RuleEnds, NEW ip \in IPs
    PROVE  InNetwork(networkOf(end), ip) <=> matches(end, ip)
<1>1. ip # Nil
  BY FirewallAssumption
<1>2. CASE end.network # Nil
  BY <1>2 DEF networkOf, matches
<1>3. CASE end.network = Nil /\ end.ip = Nil
  BY <1>1, <1>3 DEF networkOf, matches, ipToNetwork, InNetwork
<1>4. CASE end.network = Nil /\ end.ip # Nil
  <2>1. end.ip \in IPs
    BY <1>4 DEF RuleEnds
  <2>2. Network(end.ip, Bits) = end.ip /\ DOMAIN end.ip = 1..Bits
    <3>1. PICK f \in [1..Bits -> {0, 1}] : f = end.ip
      BY <2>1 DEF IPs
    <3>2. f = [b \in 1..Bits |-> f[b]] /\ DOMAIN f = 1..Bits
      OBVIOUS
    <3>. QED
      BY <3>1, <3>2, Zenon DEF Network
  <2>3. networkOf(end) = end.ip
    BY <1>4, <2>2 DEF networkOf, ipToNetwork
  <2>4. (\A b \in 1..Bits : ip[b] = end.ip[b]) <=> end.ip = ip
    <3>1. ASSUME NEW f \in [1..Bits -> {0, 1}], NEW g \in [1..Bits -> {0, 1}],
                 \A b \in 1..Bits : f[b] = g[b]
          PROVE  g = f
      <4>1. f = [b \in 1..Bits |-> f[b]] /\ g = [b \in 1..Bits |-> g[b]]
        OBVIOUS
      <4>2. [b \in 1..Bits |-> f[b]] = [b \in 1..Bits |-> g[b]]
        BY <3>1, Zenon
      <4>. QED
        BY <4>1, <4>2, Zenon
    <3>. QED
      BY <3>1, <2>1, Zenon DEF IPs
  <2>5. InNetwork(end.ip, ip) <=> end.ip = ip
    BY <1>1, <1>4, <2>2, <2>4, Zenon DEF InNetwork
  <2>6. matches(end, ip) <=> end.ip = ip
    BY <1>4, Zenon DEF matches
  <2>. QED
    BY <2>3, <2>5, <2>6, Zenon
<1>. QED
  BY <1>2, <1>3, <1>4

\* The index is empty when there are no rules, and otherwise a key of it and a
\* network listed under the key are those of one rule.
LEMMA IndexIsRules ==
    ASSUME NEW rules, IsRules(rules)
    PROVE  /\ DOMAIN rebuildIndex(rules) = {} <=> rules = <<>>
           /\ \A s, d :
                 (\E key \in DOMAIN rebuildIndex(rules) :
                     /\ InNetwork(key, s)
                     /\ \E destNet \in rebuildIndex(rules)[key] : InNetwork(destNet, d))
                 <=> \E i \in DOMAIN rules :
                        /\ InNetwork(networkOf(rules[i].source), s)
                        /\ InNetwork(networkOf(rules[i].dest), d)
<1>. DEFINE index == rebuildIndex(rules)
            Source(i) == networkOf(rules[i].source)
            Dest(i) == networkOf(rules[i].dest)
<1>1. /\ DOMAIN index = {Source(i) : i \in DOMAIN rules}
      /\ \A key \in DOMAIN index :
            index[key] = {Dest(i) : i \in {j \in DOMAIN rules : Source(j) = key}}
  BY DEF rebuildIndex
<1>2. DOMAIN rules = {} <=> rules = <<>>
  BY DEF IsRules
<1>. HIDE DEF index, Source, Dest
<1>3. DOMAIN index = {} <=> rules = <<>>
  BY <1>1, <1>2
<1>4. ASSUME NEW s, NEW d
      PROVE  (\E key \in DOMAIN index :
                 InNetwork(key, s) /\ \E destNet \in index[key] : InNetwork(destNet, d))
             <=> \E i \in DOMAIN rules : InNetwork(Source(i), s) /\ InNetwork(Dest(i), d)
  <2>1. ASSUME NEW key \in DOMAIN index, InNetwork(key, s),
               NEW destNet \in index[key], InNetwork(destNet, d)
        PROVE  \E i \in DOMAIN rules : InNetwork(Source(i), s) /\ InNetwork(Dest(i), d)
    <3>1. PICK i \in DOMAIN rules : Source(i) = key /\ Dest(i) = destNet
      BY <1>1
    <3>. QED
      BY <2>1, <3>1, Zenon
  <2>2. ASSUME NEW i \in DOMAIN rules, InNetwork(Source(i), s), InNetwork(Dest(i), d)
        PROVE  \E key \in DOMAIN index :
                  InNetwork(key, s) /\ \E destNet \in index[key] : InNetwork(destNet, d)
    <3>1. Source(i) \in DOMAIN index
      BY <1>1
    <3>2. Dest(i) \in index[Source(i)]
      BY <1>1, <3>1
    <3>. QED
      BY <2>2, <3>1, <3>2, Zenon
  <2>. QED
    BY <2>1, <2>2, Zenon
<1>. QED
  BY <1>3, <1>4, Zenon DEF index, Source, Dest

\* The index decides like the scan.
LEMMA SameDecision ==
    ASSUME NEW rules, IsRules(rules), NEW source \in IPs, NEW dest \in IPs
    PROVE  IndexAllows(rebuildIndex(rules), source, dest) <=> IsAllowed(rules, source, dest)
<1>1. \A i \in DOMAIN rules :
         /\ InNetwork(networkOf(rules[i].source), source) <=> matches(rules[i].source, source)
         /\ InNetwork(networkOf(rules[i].dest), dest) <=> matches(rules[i].dest, dest)
  BY FiledAsMatched, Zenon DEF IsRules
<1>. QED
  BY <1>1, IndexIsRules, Zenon DEF IndexAllows, IsAllowed

\* So it keeps the same addresses of a list.
LEMMA SameFilter ==
    ASSUME NEW rules, IsRules(rules), NEW source \in IPs
    PROVE  IndexFilter(rebuildIndex(rules), source, Addresses)
              = FilterAddresses(rules, source, Addresses)
<1>. DEFINE index == rebuildIndex(rules)
<1>1. DOMAIN index = {} <=> rules = <<>>
  BY IndexIsRules, Zenon
<1>2. ASSUME NEW i \in DOMAIN Addresses, Addresses[i] # Nil
      PROVE  IndexAllows(index, source, Addresses[i]) <=> IsAllowed(rules, source, Addresses[i])
  <2>1. Addresses[i] \in IPs
    BY <1>2, FirewallAssumption
  <2>. QED
    BY <2>1, SameDecision, Zenon
<1>. HIDE DEF index
<1>3. {i \in DOMAIN Addresses : Addresses[i] # Nil /\ IndexAllows(index, source, Addresses[i])}
         = {i \in DOMAIN Addresses : Addresses[i] # Nil /\ IsAllowed(rules, source, Addresses[i])}
  BY <1>2, Zenon
<1>. QED
  BY <1>1, <1>3, Zenon DEF IndexFilter, FilterAddresses, index

\* What the table holds.
Rows == Seq([source : Ends, dest : Ends])

\* Rows only get what their columns may hold.
LEMMA TableTyped == FirewallSpec => [](rows \in Rows)
<1>. DEFINE Held == rows \in Rows
<1>1. FirewallInit => Held
  BY DEF FirewallInit, Rows
<1>2. Held /\ [AddRow]_rows => Held'
  <2>. SUFFICES ASSUME rows \in Rows, AddRow PROVE rows' \in Rows
    OBVIOUS
  <2>1. PICK s \in Ends, d \in Ends : rows' = Append(rows, [source |-> s, dest |-> d])
    BY DEF AddRow
  <2>2. PICK row \in [source : Ends, dest : Ends] : row = [source |-> s, dest |-> d]
    OBVIOUS
  <2>. QED
    BY <2>1, <2>2 DEF Rows
<1>. QED
  BY <1>1, <1>2, PTL DEF FirewallSpec

\* The rows of a table.
LEMMA RowsEnds ==
    ASSUME NEW table \in Rows
    PROVE  /\ DOMAIN table = 1..Len(table) /\ Len(table) \in Nat
           /\ \A i \in DOMAIN table : table[i].source \in RuleEnds /\ table[i].dest \in RuleEnds
<1>1. Ends \subseteq RuleEnds
  BY FirewallAssumption, Zenon DEF RuleEnds
<1>2. /\ DOMAIN table = 1..Len(table) /\ Len(table) \in Nat
      /\ \A i \in DOMAIN table : table[i] \in [source : Ends, dest : Ends]
  <2>1. \A R : \A t \in Seq(R) : /\ DOMAIN t = 1..Len(t) /\ Len(t) \in Nat
                                 /\ \A i \in DOMAIN t : t[i] \in R
    OBVIOUS
  <2>. QED
    BY <2>1, Zenon DEF Rows
<1>3. \A row \in [source : Ends, dest : Ends] : row.source \in Ends /\ row.dest \in Ends
  OBVIOUS
<1>. QED
  BY <1>1, <1>2, <1>3, Zenon

\* The rules of a table.
LEMMA TableRules ==
    ASSUME NEW table \in Rows
    PROVE  IsRules(DatabaseRules(table))
<1>. DEFINE rules == DatabaseRules(table)
<1>1. /\ DOMAIN table = 1..Len(table) /\ Len(table) \in Nat
      /\ \A i \in DOMAIN table : table[i].source \in RuleEnds /\ table[i].dest \in RuleEnds
  BY RowsEnds, Zenon
<1>2. \A end \in RuleEnds : columnsEnd(end) \in RuleEnds
  BY DEF columnsEnd, RuleEnds
<1>3. /\ DOMAIN rules = 1..Len(table)
      /\ \A i \in DOMAIN rules : rules[i].source \in RuleEnds /\ rules[i].dest \in RuleEnds
      /\ rules = [i \in 1..Len(table) |-> rules[i]]
  BY <1>1, <1>2 DEF DatabaseRules
<1>. HIDE DEF rules
<1>4. Len(rules) = Len(table) /\ (rules = <<>> <=> Len(rules) = 0)
  BY <1>1, <1>3
<1>. QED
  BY <1>1, <1>3, <1>4 DEF IsRules, rules

\* IndexedFirewall decides and filters like Firewall, for addresses of any
\* width and any table of rules.
THEOREM IndexDecidesLikeScan == FirewallSpec => []IndexMatchesScan
<1>1. rows \in Rows => IndexMatchesScan
  <2>. SUFFICES ASSUME rows \in Rows PROVE IndexMatchesScan
    OBVIOUS
  <2>. DEFINE rules == DatabaseRules(rows)
  <2>1. IsRules(rules)
    BY TableRules, Zenon
  <2>. HIDE DEF rules
  <2>2. \A source, dest \in IPs :
           IndexAllows(rebuildIndex(rules), source, dest) = IsAllowed(rules, source, dest)
    <3>. SUFFICES ASSUME NEW source \in IPs, NEW dest \in IPs
                  PROVE  IndexAllows(rebuildIndex(rules), source, dest)
                            = IsAllowed(rules, source, dest)
      OBVIOUS
    <3>1. IndexAllows(rebuildIndex(rules), source, dest) <=> IsAllowed(rules, source, dest)
      BY <2>1, SameDecision, Zenon
    <3>. QED
      BY <3>1, Zenon DEF IndexAllows, IsAllowed
  <2>3. \A source \in IPs : IndexFilter(rebuildIndex(rules), source, Addresses)
                               = FilterAddresses(rules, source, Addresses)
    BY <2>1, SameFilter, Zenon
  <2>. QED
    BY <2>2, <2>3, Zenon DEF IndexMatchesScan, rules
<1>. QED
  BY <1>1, TableTyped, PTL

\* A row's columns read as a text are the end the row is loaded as.
LEMMA TextIsColumns ==
    ASSUME NEW end \in RuleEnds
    PROVE  parseEnd(Text(end)) = columnsEnd(end)
BY DEF parseEnd, Text, columnsEnd

\* Rules mean the same from LoadFromFile as from the table, but that the file
\* is refused for a rule without an end, which matches nothing.
THEOREM FileAgreesWithTable == FirewallSpec => []SourcesAgree
<1>1. rows \in Rows => SourcesAgree
  <2>. SUFFICES ASSUME rows \in Rows PROVE SourcesAgree
    OBVIOUS
  <2>. DEFINE lines == [i \in DOMAIN rows |->
                  [source |-> Text(rows[i].source), dest |-> Text(rows[i].dest)]]
              read == [i \in DOMAIN lines |->
                  [source |-> parseEnd(lines[i].source), dest |-> parseEnd(lines[i].dest)]]
              file == LoadFromFile(lines)
              table == DatabaseRules(rows)
  <2>1. \A i \in DOMAIN rows : rows[i].source \in RuleEnds /\ rows[i].dest \in RuleEnds
    BY RowsEnds, Zenon
  <2>2. read = table
    <3>1. DOMAIN lines = DOMAIN rows
      OBVIOUS
    <3>2. \A i \in DOMAIN rows : /\ parseEnd(lines[i].source) = columnsEnd(rows[i].source)
                                 /\ parseEnd(lines[i].dest) = columnsEnd(rows[i].dest)
      BY <2>1, TextIsColumns
    <3>. QED
      BY <3>1, <3>2, Zenon DEF DatabaseRules
  <2>3. DOMAIN read = DOMAIN lines /\ DOMAIN lines = DOMAIN rows
    OBVIOUS
  <2>4. file = IF \E i \in DOMAIN lines : Unparsed \in {read[i].source, read[i].dest}
               THEN [err |-> TRUE, rules |-> <<>>]
               ELSE [err |-> FALSE, rules |-> read]
    BY Zenon DEF LoadFromFile
  <2>. HIDE DEF lines, read, file, table
  <2>5. ASSUME file.err
        PROVE  \E i \in DOMAIN rows : \A s, d \in IPs : ~IsAllowed(<<table[i]>>, s, d)
    <3>1. PICK i \in DOMAIN rows : Unparsed \in {table[i].source, table[i].dest}
      BY <2>2, <2>3, <2>4, <2>5
    <3>2. \A ip \in IPs : ~matches(Unparsed, ip)
      BY FirewallAssumption DEF matches, Unparsed
    <3>3. ASSUME NEW s \in IPs, NEW d \in IPs PROVE ~IsAllowed(<<table[i]>>, s, d)
      <4>1. ~(matches(table[i].source, s) /\ matches(table[i].dest, d))
        BY <3>1, <3>2, Zenon
      <4>2. /\ <<table[i]>> # <<>> /\ DOMAIN <<table[i]>> = {1}
            /\ <<table[i]>>[1] = table[i]
        OBVIOUS
      <4>. QED
        BY <4>1, <4>2, Zenon DEF IsAllowed
    <3>. QED
      BY <3>3, Zenon
  <2>6. ASSUME ~file.err
        PROVE  \A s, d \in IPs : IsAllowed(file.rules, s, d) = IsAllowed(table, s, d)
    <3>1. file.rules = table
      BY <2>2, <2>4, <2>6
    <3>. QED
      BY <3>1, Zenon
  <2>. QED
    BY <2>5, <2>6, Zenon DEF SourcesAgree, file, lines, table
<1>. QED
  BY <1>1, TableTyped, PTL
=============================================================================
