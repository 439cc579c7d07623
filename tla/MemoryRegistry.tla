---------------------------- MODULE MemoryRegistry ----------------------------
(***************************************************************************)
(* The in-memory registry (pkg/registry/memory.go): which addresses offer  *)
(* a task, a round-robin cursor per task, a query counter per address, and *)
(* the queries running on it.                                              *)
(*                                                                         *)
(* Register, RegisterWithCapacity and Cleanup hold the write lock: one     *)
(* step each.  A query holds the read lock only while it copies the        *)
(* entries; filtering and the cursor, the counter and the total are three  *)
(* later steps, between which every other operation may run.               *)
(*                                                                         *)
(* Time is kept as the age of an entry since its last heartbeat, which     *)
(* stops at Timeout: Cleanup does not tell larger ages apart.              *)
(*                                                                         *)
(* A cursor or counter that its sync.Map does not hold is 0 here: every    *)
(* reader of an absent one starts from, or reports, 0.  Delete is a reset. *)
(***************************************************************************)
EXTENDS WeightedSelection

CONSTANTS
    Tasks,         \* task names
    Addrs,         \* service addresses
    Blank,         \* a task name that is empty after TrimSpace
    Capacities,    \* capacities a registration may carry, not all positive
    Requestors,    \* client addresses the transport could parse
    NilIP,         \* no client address (GetService, or an unparsable one)
    Firewalls,     \* rule sets: the addresses each requestor may reach
    NilFirewall,   \* no firewall configured
    Queries,       \* identities of calls of GetServiceForRequestor
    Timeout        \* heartbeat timeout, in ticks

ASSUME NamesAssumption ==
    /\ Blank \notin Tasks
    /\ NilIP \notin Requestors
    /\ NilFirewall \notin Firewalls
    /\ Firewalls \subseteq [Requestors -> SUBSET Addrs]

ASSUME BoundsAssumption ==
    /\ Timeout \in Nat \ {0}
    /\ Capacities \subseteq Int

Errors == {"ErrInvalidTaskName", "ErrNotFound", "ErrNoAllowedService"}

\* No result yet.
NoResult == "none"

\* A query that has not drawn from the current cursor of its task.
NoTicket == -1

ASSUME ErrorsAssumption == Addrs \cap (Errors \cup {NoResult}) = {}

VARIABLES
    services,         \* per task, its entries in registration order
    roundRobinIndex,  \* per task, the weighted round-robin cursor
    queryCounters,    \* per task and address, the queries counted
    totalQueries,     \* queries answered with an address
    firewall,         \* the rule set, or NilFirewall
    pc,               \* per query, the step it has completed
    task,             \* per query, the task it asks for
    requestor,        \* per query, who asks
    entryCopy,        \* per query, the entries copied under the read lock;
                      \* their heartbeats are not used and are left out
    result,           \* per query, the address or error
    current,          \* history: addresses of the copy not removed since
    ticket            \* history: the cursor value drawn, until a reset

registryVars == <<services, roundRobinIndex, queryCounters, totalQueries>>
queryVars == <<pc, task, requestor, entryCopy, result>>
historyVars == <<current, ticket>>
vars == <<services, roundRobinIndex, queryCounters, totalQueries, firewall,
          pc, task, requestor, entryCopy, result, current, ticket>>

-----------------------------------------------------------------------------
Entry == [addr : Addrs, age : 0..Timeout, cap : Nat \ {0}]

Candidate == [addr : Addrs, cap : Nat \ {0}]

AddrsOf(entries) == {entries[i].addr : i \in DOMAIN entries}

\* Mutation: the scan looks at the first entry only.
FirstRegistered(t, a) == services[t] # <<>> /\ services[t][1].addr = a

Registered(t, a) == a \in AddrsOf(services[t])

\* NewMemoryRegistry; initializeRegistry sets the firewall, if one is
\* configured, before the transport accepts its first request.
Init ==
    /\ services = [t \in Tasks |-> <<>>]
    /\ roundRobinIndex = [t \in Tasks |-> 0]
    /\ queryCounters = [t \in Tasks |-> [a \in Addrs |-> 0]]
    /\ totalQueries = 0
    /\ firewall \in Firewalls \cup {NilFirewall}
    /\ pc = [q \in Queries |-> "idle"]
    /\ task = [q \in Queries |-> Blank]
    /\ requestor = [q \in Queries |-> NilIP]
    /\ entryCopy = [q \in Queries |-> <<>>]
    /\ result = [q \in Queries |-> NoResult]
    /\ current = [q \in Queries |-> {}]
    /\ ticket = [q \in Queries |-> NoTicket]

-----------------------------------------------------------------------------
NewEntry(a, c) == [addr |-> a, age |-> 0, cap |-> c]

\* The entry of address a, as Update leaves it; other entries as they are.
UpdateEntry(entries, a, Update(_)) ==
    [i \in DOMAIN entries |->
        IF entries[i].addr = a THEN Update(entries[i]) ELSE entries[i]]

\* A registration without capacity refreshes the heartbeat of a known
\* address and keeps its capacity; an unknown one is appended with 1.
Register(t, a) ==
    /\ services' = [services EXCEPT ![t] =
           IF Registered(t, a)
           THEN UpdateEntry(@, a, LAMBDA e : [e EXCEPT !.age = 0])
           ELSE Append(@, NewEntry(a, 1))]
    /\ UNCHANGED <<roundRobinIndex, queryCounters, totalQueries, firewall,
                   queryVars, historyVars>>

\* A registration with capacity c also replaces the capacity.
RegisterWithCapacity(t, a, c) ==
    LET capacity == normalizedCapacity(c)
    IN  /\ services' = [services EXCEPT ![t] =
               IF Registered(t, a)
               THEN UpdateEntry(@, a,
                        LAMBDA e : [e EXCEPT !.age = 0, !.cap = capacity])
               ELSE Append(@, NewEntry(a, capacity))]
        /\ UNCHANGED <<roundRobinIndex, queryCounters, totalQueries, firewall,
                       queryVars, historyVars>>

-----------------------------------------------------------------------------
\* A call of GetServiceForRequestor that returns before the cursor.
Fails(q, error) ==
    /\ pc' = [pc EXCEPT ![q] = "done"]
    /\ result' = [result EXCEPT ![q] = error]

Asks(q, t, r) ==
    /\ pc[q] = "idle"
    /\ task' = [task EXCEPT ![q] = t]
    /\ requestor' = [requestor EXCEPT ![q] = r]

RejectBlankTask(q, r) ==
    /\ Asks(q, Blank, r)
    /\ Fails(q, "ErrInvalidTaskName")
    /\ UNCHANGED <<registryVars, firewall, entryCopy, historyVars>>

MissTask(q, t, r) ==
    /\ services[t] = <<>>
    /\ Asks(q, t, r)
    /\ Fails(q, "ErrNotFound")
    /\ UNCHANGED <<registryVars, firewall, entryCopy, historyVars>>

Candidates(entries) ==
    [i \in DOMAIN entries |-> [addr |-> entries[i].addr, cap |-> entries[i].cap]]

CopyEntries(q, t, r) ==
    /\ services[t] # <<>>
    /\ Asks(q, t, r)
    /\ pc' = [pc EXCEPT ![q] = "copied"]
    /\ entryCopy' = [entryCopy EXCEPT ![q] = Candidates(services[t])]
    /\ current' = [current EXCEPT ![q] = AddrsOf(services[t])]
    /\ UNCHANGED <<registryVars, firewall, result, ticket>>

\* The firewall is consulted only for a requestor that is known.
Filtered(q) == firewall # NilFirewall /\ requestor[q] # NilIP

\* Positions whose address's IP firewall.IsAllowed lets the requestor reach.
PermittedPositions(q) ==
    {i \in DOMAIN entryCopy[q] :
        entryCopy[q][i].addr \in firewall[requestor[q]]}

\* Mutation: when the firewall permits nothing, nothing is filtered.
AllowedEntriesFailOpen(q) ==
    IF Filtered(q) /\ PermittedPositions(q) # {}
    THEN Subsequence(entryCopy[q], PermittedPositions(q))
    ELSE entryCopy[q]

\* Mutation: no copy is taken, the query works on the shared list.
AllowedEntriesShared(q) == Candidates(services[task[q]])

AllowedEntries(q) ==
    IF Filtered(q) THEN Subsequence(entryCopy[q], PermittedPositions(q))
                   ELSE entryCopy[q]

RefuseQuery(q) ==
    /\ pc[q] = "copied"
    /\ AllowedEntries(q) = <<>>
    /\ Fails(q, "ErrNoAllowedService")
    /\ UNCHANGED <<registryVars, firewall, task, requestor, entryCopy,
                   historyVars>>

\* Mutation: a total of 1 is rejected too.
RejectSmallWeight(q) ==
    /\ pc[q] = "copied"
    /\ AllowedEntries(q) # <<>>
    /\ totalServiceWeight(AllowedEntries(q)) <= 1
    /\ Fails(q, "ErrNotFound")
    /\ UNCHANGED <<registryVars, firewall, task, requestor, entryCopy,
                   historyVars>>

\* The sum of the capacities has wrapped to zero or below.
RejectWeight(q) ==
    /\ pc[q] = "copied"
    /\ AllowedEntries(q) # <<>>
    /\ totalServiceWeight(AllowedEntries(q)) <= 0
    /\ Fails(q, "ErrNotFound")
    /\ UNCHANGED <<registryVars, firewall, task, requestor, entryCopy,
                   historyVars>>

\* The atomic add on the cursor, and the choice by the slot it yields.
SelectEntry(q) ==
    LET allowed == AllowedEntries(q)
        total == totalServiceWeight(allowed)
        cursor == roundRobinIndex[task[q]]
        slot == cursor % total
    IN  /\ pc[q] = "copied"
        /\ allowed # <<>>
        /\ total > 0
        /\ roundRobinIndex' = [roundRobinIndex EXCEPT ![task[q]] = @ + 1]
        /\ ticket' = [ticket EXCEPT ![q] = cursor]
        /\ IF Selects(allowed, slot)
           THEN /\ pc' = [pc EXCEPT ![q] = "selected"]
                /\ result' = [result EXCEPT
                                  ![q] = selectWeightedAddress(allowed, slot)]
           ELSE Fails(q, "ErrNotFound")
        /\ UNCHANGED <<services, queryCounters, totalQueries, firewall,
                       task, requestor, entryCopy, current>>

CountQuery(q) ==
    /\ pc[q] = "selected"
    /\ pc' = [pc EXCEPT ![q] = "counted"]
    /\ queryCounters' = [queryCounters EXCEPT ![task[q]][result[q]] = @ + 1]
    /\ UNCHANGED <<services, roundRobinIndex, totalQueries, firewall, task,
                   requestor, entryCopy, result, historyVars>>

ReturnAddress(q) ==
    /\ pc[q] = "counted"
    /\ pc' = [pc EXCEPT ![q] = "done"]
    /\ totalQueries' = totalQueries + 1
    /\ UNCHANGED <<services, roundRobinIndex, queryCounters, firewall, task,
                   requestor, entryCopy, result, historyVars>>

-----------------------------------------------------------------------------
\* Mutation: an entry is dropped one tick before the timeout.
FreshPositionsEarly(entries) ==
    {i \in DOMAIN entries : entries[i].age + 1 < Timeout}

\* Mutation: an entry that has reached the timeout is kept.
FreshPositionsLate(entries) == {i \in DOMAIN entries : entries[i].age <= Timeout}

\* Positions of the entries whose last heartbeat is recent enough.
FreshPositions(entries) == {i \in DOMAIN entries : entries[i].age < Timeout}

Kept(entries) == Subsequence(entries, FreshPositions(entries))

\* Mutation: removing one entry clears the counters of the whole task.
RemovedAll(t) ==
    IF FreshPositions(services[t]) = DOMAIN services[t]
    THEN {} ELSE AddrsOf(services[t])

Removed(t) == AddrsOf(services[t]) \ AddrsOf(Kept(services[t]))

\* A task that had entries and keeps none loses its key and its cursor.
Emptied(t) == services[t] # <<>> /\ FreshPositions(services[t]) = {}

Cleanup ==
    /\ services' = [t \in Tasks |-> Kept(services[t])]
    /\ queryCounters' = [t \in Tasks |-> [a \in Addrs |->
           IF a \in Removed(t) THEN 0 ELSE queryCounters[t][a]]]
    /\ roundRobinIndex' = [t \in Tasks |->
           IF Emptied(t) THEN 0 ELSE roundRobinIndex[t]]
    /\ current' = [q \in Queries |->
           IF task[q] \in Tasks THEN current[q] \cap AddrsOf(services'[task[q]])
                                ELSE current[q]]
    /\ ticket' = [q \in Queries |->
           IF task[q] \in Tasks /\ services'[task[q]] = <<>> THEN NoTicket
                                                             ELSE ticket[q]]
    /\ UNCHANGED <<totalQueries, firewall, queryVars>>

\* The clock: every entry grows older by one tick.
Tick ==
    /\ services' = [t \in Tasks |->
           [i \in DOMAIN services[t] |->
               [services[t][i] EXCEPT !.age = IF @ < Timeout THEN @ + 1
                                                             ELSE @]]]
    /\ UNCHANGED <<roundRobinIndex, queryCounters, totalQueries, firewall,
                   queryVars, historyVars>>

-----------------------------------------------------------------------------
QueryStep(q) ==
    \/ RefuseQuery(q)
    \/ RejectWeight(q)
    \/ SelectEntry(q)
    \/ CountQuery(q)
    \/ ReturnAddress(q)

Next ==
    \/ \E t \in Tasks, a \in Addrs : Register(t, a)
    \/ \E t \in Tasks, a \in Addrs, c \in Capacities :
           RegisterWithCapacity(t, a, c)
    \/ \E q \in Queries, r \in Requestors \cup {NilIP} : RejectBlankTask(q, r)
    \/ \E q \in Queries, t \in Tasks, r \in Requestors \cup {NilIP} :
           MissTask(q, t, r) \/ CopyEntries(q, t, r)
    \/ \E q \in Queries : QueryStep(q)
    \/ Cleanup
    \/ Tick

\* The cleanup ticker of the server loops keeps firing, time passes, and a
\* goroutine that serves a query is scheduled until it returns.
Fairness ==
    /\ WF_vars(Tick)
    /\ WF_vars(Cleanup)
    /\ \A q \in Queries : WF_vars(QueryStep(q))

Spec == Init /\ [][Next]_vars

FairSpec == Spec /\ Fairness
-----------------------------------------------------------------------------
\* ListServices: the entries of a task, each with its counter.
ListServices(t) ==
    [i \in DOMAIN services[t] |->
        [addr |-> services[t][i].addr, cap |-> services[t][i].cap,
         age |-> services[t][i].age,
         queryCount |-> queryCounters[t][services[t][i].addr]]]

GetStats == [totalQueries |-> totalQueries,
             totalTasks |-> Cardinality({t \in Tasks : services[t] # <<>>})]

\* Every variable stays in its domain; in particular a capacity that was
\* not positive never reaches the table (RegisterWithCapacity, line 73).
TypeOK ==
    /\ services \in [Tasks -> Seq(Entry)]
    /\ roundRobinIndex \in [Tasks -> Nat]
    /\ queryCounters \in [Tasks -> [Addrs -> Nat]]
    /\ totalQueries \in Nat
    /\ firewall \in Firewalls \cup {NilFirewall}
    /\ pc \in [Queries -> {"idle", "copied", "selected", "counted", "done"}]
    /\ task \in [Queries -> Tasks \cup {Blank}]
    /\ requestor \in [Queries -> Requestors \cup {NilIP}]
    /\ entryCopy \in [Queries -> Seq(Candidate)]
    /\ result \in [Queries -> Addrs \cup Errors \cup {NoResult}]
    /\ current \in [Queries -> SUBSET Addrs]
    /\ ticket \in [Queries -> Nat \cup {NoTicket}]

\* Registrations, heartbeats and cleanups in any order never leave an
\* address twice in the list of a task: a duplicate would get a double
\* share of the queries (Register and RegisterWithCapacity, the scan).
UniqueAddresses ==
    \A t \in Tasks : \A i, j \in DOMAIN services[t] :
        services[t][i].addr = services[t][j].addr => i = j

\* Whatever registers, expires or is cleaned up while a query runs, an
\* address it returns was registered for its task when the query copied
\* the entries and is one the firewall lets this requestor reach, and a
\* query is refused only when the firewall permits none of the copied
\* addresses (GetServiceForRequestor).
AnswerSound ==
    \A q \in Queries :
        /\ result[q] \in Addrs =>
              /\ result[q] \in AddrsOf(entryCopy[q])
              /\ Filtered(q) => result[q] \in firewall[requestor[q]]
        /\ result[q] = "ErrNoAllowedService" =>
              /\ Filtered(q)
              /\ AddrsOf(entryCopy[q]) \cap firewall[requestor[q]] = {}

\* A query fails with ErrNotFound on a known task only if the capacities it
\* may choose from really add up to more than an int holds.
NotFoundExplained ==
    \A q \in Queries : result[q] = "ErrNotFound" =>
        \/ entryCopy[q] = <<>>
        \/ exactWeight(AllowedEntries(q)) > MaxInt

\* As long as the capacities fit an int, selectWeightedAddress chooses from
\* the entries a query has filtered what indexing the expanded pool, with
\* each address as often as its capacity, would.
SelectionMatchesPool ==
    \A q \in Queries :
        pc[q] = "copied" /\ exactWeight(AllowedEntries(q)) <= MaxInt
            => ChoosesFromPool(AllowedEntries(q))

\* Queries that were counted for address a of task t.
CountedFor(t, a) ==
    {q \in Queries : /\ pc[q] = "counted" \/ pc[q] = "done"
                     /\ task[q] = t
                     /\ result[q] = a}

\* No query count is lost or invented: the count ListServices reports for
\* an entry is at least the number of counted queries that copied this
\* registration of the address, and at most the number of all counted
\* queries for it, although counters are lock-free and Cleanup deletes
\* them.
CountersExact ==
    \A t \in Tasks : \A i \in DOMAIN services[t] :
        LET listed == ListServices(t)[i]
            counted == CountedFor(t, listed.addr)
        IN  /\ listed.queryCount <= Cardinality(counted)
            /\ Cardinality({q \in counted : listed.addr \in current[q]})
                   <= listed.queryCount

\* Queries on the task of q that chose from the same entries as q.
SameChoice(q) ==
    {p \in Queries : /\ task[p] = task[q]
                     /\ ticket[p] # NoTicket
                     /\ AllowedEntries(p) = AllowedEntries(q)}

\* The queries of window gave each entry q could choose its exact share.
ExactShares(window, q) ==
    \A i \in DOMAIN AllowedEntries(q) :
        Cardinality({p \in window : result[p] = AllowedEntries(q)[i].addr})
            = serviceWeight(AllowedEntries(q)[i])

\* Weighted round robin: queries that draw as many consecutive cursor
\* values as the entries have weight, from the same entries, give every
\* address exactly its capacity, however the queries interleave with each
\* other and with other operations, as long as the capacities fit an int.
WeightedRotation ==
    \A q \in Queries :
        LET total == totalServiceWeight(AllowedEntries(q))
            window == {p \in SameChoice(q) :
                          ticket[p] \in ticket[q]..(ticket[q] + total - 1)}
        IN  /\ ticket[q] # NoTicket
            /\ exactWeight(AllowedEntries(q)) <= MaxInt
            /\ Cardinality(window) = total
            => ExactShares(window, q)

\* An entry leaves the registry only when it has been silent for the
\* timeout: no other step, in particular no re-registration of another
\* address, drops or reorders the entries of a task.
OnlySilentRemoved ==
    [][\A t \in Tasks : \A i, j \in DOMAIN services[t] :
          /\ services[t][i].age < Timeout
          /\ services[t][j].age < Timeout
          /\ i <= j
          => \E k, l \in DOMAIN services'[t] :
                /\ k <= l
                /\ services'[t][k].addr = services[t][i].addr
                /\ services'[t][l].addr = services[t][j].addr]_vars

Heartbeat(t, a) ==
    \/ Register(t, a)
    \/ \E c \in Capacities : RegisterWithCapacity(t, a, c)

\* A service that stops sending registrations is eventually gone for good,
\* whatever else goes on (Cleanup, called by the server's ticker loops).
SilentServiceRemoved ==
    \A t \in Tasks, a \in Addrs :
        <>[][~Heartbeat(t, a)]_vars => <>[](a \notin AddrsOf(services[t]))

-----------------------------------------------------------------------------
\* The registry as its clients see it: sets instead of lists.
Directory == INSTANCE ServiceDirectory WITH
    live <- [t \in Tasks |-> AddrsOf(services[t])],
    offer <- [q \in Queries |-> AddrsOf(entryCopy[q])],
    outcome <- result

\* Every behaviour of the registry is one of the directory: an answer comes
\* from the addresses that were live at one moment of the lookup, and only
\* Cleanup withdraws addresses.
ImplementsDirectory == Directory!DirSpec
=============================================================================
