-------------------------- MODULE StoreBackedRegistry --------------------------
(***************************************************************************)
(* The persistent registry (pkg/registry/store_backed.go) over Postgres    *)
(* (pkg/store/postgres/postgres.go): a table of rows, a cache in front of  *)
(* it that is replaced as a whole when it is warmed, and flags for the     *)
(* registrations the store has not taken.                                  *)
(*                                                                         *)
(* Registrations, queries, the cleanup loop and cache warming run          *)
(* concurrently and work on the cache they picked up, which may be         *)
(* replaced under them: caches are numbered and memCache names the         *)
(* current one.  Picking up the current cache and the first operation on   *)
(* it are one step: nobody else reads a replaced cache, so an operation    *)
(* on one is the same as the operation just before the replacement.        *)
(* Every call to the store is a step of its own and may fail.  Calls with  *)
(* a blank task or address return before any of this and are left out.     *)
(*                                                                         *)
(* Which entry a query takes, by weight and cursor, is the subject of      *)
(* MemoryRegistry: here it is any entry the requestor may reach.           *)
(* Heartbeats are kept as ages, which stop one tick after Timeout.         *)
(***************************************************************************)
EXTENDS Naturals, FiniteSets, FiniteSetsExt

CONSTANTS
    Tasks,          \* task names
    Addrs,          \* service addresses
    Registrars,     \* goroutines that serve REGISTER
    Askers,         \* calls of GetServiceForRequestor
    Reach,          \* per asker, the addresses the firewall lets it reach
    Warmers,        \* goroutines that warm the cache: LoopWarmer, the UI's
    LoopWarmer,     \* the warming that follows each cleanup in TUI mode
    Caches,         \* identities of in-memory caches
    Timeout,        \* heartbeat timeout, in ticks
    AdmitAfterMiss, \* misses before a task is admitted to the cache
    StoreDeadline,  \* ticks a registration may wait for the store
    Setups,         \* limits of the cache and faults: see setup
    None            \* no row, no entry, no key

ASSUME StoreBoundsAssumption ==
    /\ Timeout \in Nat \ {0}
    /\ AdmitAfterMiss \in Nat \ {0}
    /\ StoreDeadline \in Nat
    /\ Reach \in [Askers -> SUBSET Addrs]
    /\ Setups \subseteq [cacheMaxSize : Nat, storeFails : BOOLEAN, crashes : BOOLEAN]
    /\ Caches # {}

VARIABLES
    setup,      \* the limit of the cache, and the faults of this behaviour
    db,         \* per task and address, the row of table services
    cache,      \* per cache, task and address, the cached entry
    memCache,   \* the current cache
    pending,    \* pendingStoreSync: keys whose row could not be written
    missCounts, \* cacheMissCounts: misses per task
    reg,        \* per registrar, where it is and for which key
    ask,        \* per asker, where it is and what it has read
    warm,       \* per warmer, where it is and what it has read
    loop,       \* the cleanup loop
    heard,      \* history: per key, age of the last registration served
                \* that is not lost by a restart
    acked       \* history: per key, age of the last one the store took

system == <<db, cache, memCache, pending, missCounts, reg, ask, warm, loop,
            heard, acked>>

vars == <<setup, system>>

\* Tasks a warm-up loads, 0 for all; whether calls to the store may fail;
\* whether the server may crash and restart.
CacheMaxSize == setup.cacheMaxSize
StoreFails == setup.storeFails
Crashes == setup.crashes

-----------------------------------------------------------------------------
Ages == 0..(Timeout + 1)

Keys == Tasks \X Addrs

Row == [age : Ages, count : Nat, active : BOOLEAN]

CacheEntry == [age : Ages, count : Nat]

ASSUME NoneAssumption == None \notin Row \cup CacheEntry

Empty == [t \in Tasks |-> [a \in Addrs |-> None]]

Tables(S) == [Tasks -> [Addrs -> S \cup {None}]]

\* Keys a table holds.
Held(table) == {k \in Keys : table[k[1]][k[2]] # None}

\* Addresses of one task in a table.
AddrsOf(table, t) == {a \in Addrs : table[t][a] # None}

\* What a query or a warm-up sees of the rows: the active ones.
ActiveRows(table, tasks) ==
    [t \in Tasks |-> [a \in Addrs |->
        IF t \in tasks /\ table[t][a] # None /\ table[t][a].active
        THEN [age |-> table[t][a].age, count |-> table[t][a].count]
        ELSE None]]

IdleReg == [pc |-> "idle", key |-> None, age |-> 0]
IdleAsk == [pc |-> "idle", task |-> None, cache |-> None, rows |-> Empty,
            answer |-> None]
IdleWarm == [pc |-> "idle", listing |-> Empty, item |-> None, old |-> None,
             top |-> {}, rows |-> Empty, new |-> None]

Init ==
    /\ setup \in Setups
    /\ db = Empty
    /\ cache = [c \in Caches |-> Empty]
    /\ memCache = CHOOSE c \in Caches : TRUE
    /\ pending = {}
    /\ missCounts = [t \in Tasks |-> 0]
    /\ reg = [r \in Registrars |-> IdleReg]
    /\ ask = [q \in Askers |-> IdleAsk]
    /\ warm = [w \in Warmers |-> IdleWarm]
    /\ loop = "waiting"
    /\ heard = [k \in Keys |-> Timeout + 1]
    /\ acked = [k \in Keys |-> Timeout]

-----------------------------------------------------------------------------
\* PostgresStore.Register: a count of 0 keeps the row's count, or resets it
\* when the row was inactive; any other count replaces it.
Upsert(row, age, count) ==
    [age |-> age, active |-> TRUE,
     count |-> IF count > 0 THEN count
               ELSE IF row = None \/ ~row.active THEN 0 ELSE row.count]

StoreRegister(k, age, count) ==
    db' = [db EXCEPT ![k[1]][k[2]] = Upsert(@, age, count)]

\* Mutation: the cutoff is a tick too recent.
FlaggedEarly(table) ==
    [t \in Tasks |-> [a \in Addrs |->
        IF table[t][a] # None /\ table[t][a].age >= Timeout - 1
        THEN [table[t][a] EXCEPT !.active = FALSE]
        ELSE table[t][a]]]

\* PostgresStore.Cleanup: last_heartbeat < now - timeout.
Flagged(table) ==
    [t \in Tasks |-> [a \in Addrs |->
        IF table[t][a] # None /\ table[t][a].age > Timeout
        THEN [table[t][a] EXCEPT !.active = FALSE]
        ELSE table[t][a]]]

StoreCleanup == db' = Flagged(db)

-----------------------------------------------------------------------------
\* RegisterWithCapacity (and Register): the cache first; a known entry keeps
\* its count.
RegisterInCache(r, k) ==
    /\ reg[r].pc = "idle"
    /\ reg' = [reg EXCEPT ![r] = [pc |-> "cached", key |-> k, age |-> 0]]
    /\ cache' = [cache EXCEPT ![memCache][k[1]][k[2]] =
           [age |-> 0, count |-> IF @ = None THEN 0 ELSE @.count]]
    /\ heard' = [heard EXCEPT ![k] = 0]
    /\ UNCHANGED <<db, memCache, pending, missCounts, ask, warm, loop, acked>>

\* Then the store, with the time the call started: the call may take a while.
RegisterInStore(r) ==
    /\ reg[r].pc = "cached"
    /\ StoreRegister(reg[r].key, reg[r].age, 0)
    /\ reg' = [reg EXCEPT ![r].pc = "stored"]
    /\ UNCHANGED <<cache, memCache, pending, missCounts, ask, warm, loop,
                   heard, acked>>

RegisterStoreFails(r) ==
    /\ StoreFails
    /\ reg[r].pc = "cached"
    /\ reg' = [reg EXCEPT ![r].pc = "failed"]
    /\ UNCHANGED <<db, cache, memCache, pending, missCounts, ask, warm, loop,
                   heard, acked>>

\* Mutation: the failed registration is only logged.
PendingAfterLogOnly(r) == pending

\* markPendingStoreSync after a failure, clearPendingStoreSync otherwise.
PendingAfter(r) ==
    IF reg[r].pc = "failed" THEN pending \cup {reg[r].key}
                            ELSE pending \ {reg[r].key}

RegisterReturns(r) ==
    /\ reg[r].pc \in {"stored", "failed"}
    /\ pending' = PendingAfter(r)
    /\ acked' = IF reg[r].pc = "failed" THEN acked
                ELSE [acked EXCEPT ![reg[r].key] = Min({@, reg[r].age})]
    /\ reg' = [reg EXCEPT ![r] = IdleReg]
    /\ UNCHANGED <<db, cache, memCache, missCounts, ask, warm, loop, heard>>

-----------------------------------------------------------------------------
\* A lookup of task t in cache c succeeds with any entry in reach, which
\* it counts.
Hit(q, c, t, a) ==
    /\ a \in AddrsOf(cache[c], t) \cap Reach[q]
    /\ cache' = [cache EXCEPT ![c][t][a].count = @ + 1]
    /\ ask' = [ask EXCEPT ![q] = [IdleAsk EXCEPT !.pc = "done", !.answer = a]]

\* It fails when there is no entry, or the firewall refuses all.
NoHit(q, c, t) == AddrsOf(cache[c], t) \cap Reach[q] = {}

AskFails(q) ==
    ask' = [ask EXCEPT ![q] = [IdleAsk EXCEPT !.pc = "done"]]

AskCache(q, t) ==
    /\ ask[q].pc = "idle"
    /\ \/ \E a \in Addrs : Hit(q, memCache, t, a)
       \/ /\ NoHit(q, memCache, t)
          /\ ask' = [ask EXCEPT ![q] = [IdleAsk EXCEPT
                        !.pc = "missed", !.task = t, !.cache = memCache]]
          /\ UNCHANGED cache
    /\ UNCHANGED <<db, memCache, pending, missCounts, reg, warm, loop, heard,
                   acked>>

\* ListTaskServices fails, or returns no active row.
AskStoreFails(q) ==
    /\ ask[q].pc = "missed"
    /\ StoreFails \/ Held(ActiveRows(db, {ask[q].task})) = {}
    /\ AskFails(q)
    /\ UNCHANGED <<db, cache, memCache, pending, missCounts, reg, warm, loop,
                   heard, acked>>

\* It returns rows; shouldAdmitTaskOnMiss decides what to do with them.
AskStore(q) ==
    LET t == ask[q].task
        rows == ActiveRows(db, {t})
        admit == AdmitAfterMiss = 1 \/ missCounts[t] + 1 >= AdmitAfterMiss
    IN  /\ ask[q].pc = "missed"
        /\ Held(rows) # {}
        /\ missCounts' = [missCounts EXCEPT ![t] =
               IF AdmitAfterMiss = 1 THEN @ ELSE @ + 1]
        /\ ask' = [ask EXCEPT ![q].rows = rows,
                              ![q].pc = IF admit THEN "admit" ELSE "fallback"]
        /\ UNCHANGED <<db, cache, memCache, pending, reg, warm, loop, heard,
                       acked>>

\* Mutation: the admitted entry gets the time of the query as heartbeat.
PopulateAsNew(entry, e) == IF e = None THEN entry ELSE [e EXCEPT !.age = 0]

\* populateCacheEntry: the values of e replace those of the entry.
Populate(entry, e) == IF e = None THEN entry ELSE e

AdmitTask(q) ==
    LET t == ask[q].task
    IN  /\ ask[q].pc = "admit"
        /\ cache' = [cache EXCEPT ![ask[q].cache][t] =
               [a \in Addrs |-> Populate(@[a], ask[q].rows[t][a])]]
        /\ missCounts' = [missCounts EXCEPT ![t] = 0]
        /\ ask' = [ask EXCEPT ![q].pc = "admitted"]
        /\ UNCHANGED <<db, memCache, pending, reg, warm, loop, heard, acked>>

AskAgain(q) ==
    /\ ask[q].pc = "admitted"
    /\ \/ \E a \in Addrs : Hit(q, ask[q].cache, ask[q].task, a)
       \/ /\ NoHit(q, ask[q].cache, ask[q].task)
          /\ AskFails(q)
          /\ UNCHANGED cache
    /\ UNCHANGED <<db, memCache, pending, missCounts, reg, warm, loop, heard,
                   acked>>

\* selectFromStoreEntries and IncrementQueryCount, which needs the row to be
\* active still.
AskFallback(q) ==
    LET t == ask[q].task
        choices == AddrsOf(ask[q].rows, t) \cap Reach[q]
        active == AddrsOf(ActiveRows(db, {t}), t)
    IN  /\ ask[q].pc = "fallback"
        /\ \/ \E a \in choices \cap active :
                 /\ db' = [db EXCEPT ![t][a].count = @ + 1]
                 /\ ask' = [ask EXCEPT ![q] =
                               [IdleAsk EXCEPT !.pc = "done", !.answer = a]]
           \/ /\ StoreFails \/ choices = {} \/ ~(choices \subseteq active)
              /\ AskFails(q)
              /\ UNCHANGED db
        /\ UNCHANGED <<cache, memCache, pending, missCounts, reg, warm, loop,
                       heard, acked>>

-----------------------------------------------------------------------------
\* Mutation: only the store is cleaned.
CleanupStoreOnly ==
    /\ loop = "waiting"
    /\ loop' = "cleaned"
    /\ UNCHANGED <<db, cache, memCache, pending, missCounts, reg, ask, warm, heard,
                   acked>>

\* StoreBackedRegistry.Cleanup, from the ticker loop: the cache first.
\* MemoryRegistry.Cleanup keeps what is younger than the timeout.
CleanupCache ==
    /\ loop = "waiting"
    /\ cache' = [cache EXCEPT ![memCache] =
           [t \in Tasks |-> [a \in Addrs |->
               IF @[t][a] # None /\ @[t][a].age >= Timeout
               THEN None ELSE @[t][a]]]]
    /\ loop' = "cleaned"
    /\ UNCHANGED <<db, memCache, pending, missCounts, reg, ask, warm, heard,
                   acked>>

\* Then the store; an error is logged.  In TUI mode the loop goes on to warm
\* the cache.
CleanupStore ==
    /\ loop = "cleaned"
    /\ \/ StoreCleanup
       \/ StoreFails /\ UNCHANGED db
    /\ loop' = IF LoopWarmer \in Warmers THEN "warming" ELSE "waiting"
    /\ UNCHANGED <<cache, memCache, pending, missCounts, reg, ask, warm, heard,
                   acked>>

-----------------------------------------------------------------------------
\* A cache nobody holds: the one NewMemoryRegistry returns.
Unused(c) ==
    /\ c # memCache
    /\ \A q \in Askers : ask[q].cache # c
    /\ \A w \in Warmers : c \notin {warm[w].old, warm[w].new}

\* The steps of a warm-up change its own record and what they list.
Warms(w, from, fields) ==
    /\ warm[w].pc = from
    /\ Held(warm[w].listing) = {} /\ warm[w].item = None
    /\ warm' = [warm EXCEPT ![w] = fields]

\* The entries of a cache that were queried.
Queried(table) ==
    [t \in Tasks |-> [a \in Addrs |->
        IF table[t][a] # None /\ table[t][a].count > 0 THEN table[t][a] ELSE None]]

\* WarmCacheFromDB, from the loop or from ListServices once the last sync is
\* old: syncQueryCountsToDB lists the cache ...
StartWarm(w) ==
    /\ w = LoopWarmer => loop = "warming"
    /\ Warms(w, "idle", [IdleWarm EXCEPT
           !.pc = "counts", !.listing = Queried(cache[memCache])])
    /\ UNCHANGED <<db, cache, memCache, pending, missCounts, reg, ask, loop,
                   heard, acked>>

\* ... and writes every entry that was queried.  syncPendingRegistrations
\* does the same for every entry that is pending when its turn comes.
SyncEntry(w, k) ==
    LET e == warm[w].listing[k[1]][k[2]]
        written == warm[w].pc = "counts" \/ k \in pending
    IN  /\ warm[w].item = None
        /\ k \in Held(warm[w].listing)
        /\ \/ /\ written
              /\ StoreRegister(k, e.age, e.count)
              /\ warm' = [warm EXCEPT ![w].listing[k[1]][k[2]] = None, ![w].item = k]
           \/ /\ ~written \/ StoreFails
              /\ warm' = [warm EXCEPT ![w].listing[k[1]][k[2]] = None]
              /\ UNCHANGED db
        /\ UNCHANGED <<cache, memCache, pending, missCounts, reg, ask, loop,
                       heard, acked>>

\* What was written is no longer pending.
ClearSynced(w) ==
    /\ warm[w].item # None
    /\ pending' = pending \ {warm[w].item}
    /\ warm' = [warm EXCEPT ![w].item = None]
    /\ UNCHANGED <<db, cache, memCache, missCounts, reg, ask, loop, heard, acked>>

\* oldCache is taken, and syncPendingRegistrations lists the cache.
ListPending(w) ==
    /\ Warms(w, "counts", [IdleWarm EXCEPT
           !.pc = "pendings", !.old = memCache, !.listing = cache[memCache]])
    /\ UNCHANGED <<db, cache, memCache, pending, missCounts, reg, ask, loop,
                   heard, acked>>

\* Where the warmer's caller is after the warm-up.
LoopAfter(w) == IF w = LoopWarmer THEN "waiting" ELSE loop

\* The rows cannot be read: the cache stays.
WarmFails(w) ==
    /\ StoreFails
    /\ \/ Warms(w, "pendings", IdleWarm)
       \/ Warms(w, "top", IdleWarm)
    /\ loop' = LoopAfter(w)
    /\ UNCHANGED <<db, cache, memCache, pending, missCounts, reg, ask, heard,
                   acked>>

\* ListServices, when the cache has no limit.
LoadAll(w) ==
    /\ CacheMaxSize = 0
    /\ Warms(w, "pendings", [warm[w] EXCEPT
           !.pc = "loaded", !.rows = ActiveRows(db, Tasks)])
    /\ UNCHANGED <<db, cache, memCache, pending, missCounts, reg, ask, loop,
                   heard, acked>>

\* Queries counted for a task on its active rows.
TaskCount(rows, t) ==
    MapThenSumSet(LAMBDA a : rows[t][a].count, AddrsOf(rows, t))

\* The sets of tasks ListTopTasksByQueryCount may return: the order among
\* tasks with the same count is left open.
TopTasks(table) ==
    LET rows == ActiveRows(table, Tasks)
        known == {t \in Tasks : AddrsOf(rows, t) # {}}
        size == Min({CacheMaxSize, Cardinality(known)})
    IN  {S \in SUBSET known :
            /\ Cardinality(S) = size
            /\ \A t \in S, u \in known \ S : TaskCount(rows, t) >= TaskCount(rows, u)}

LoadTop(w) ==
    /\ CacheMaxSize > 0
    /\ \E S \in TopTasks(db) :
          Warms(w, "pendings", [warm[w] EXCEPT
              !.pc = "top", !.top = S])
    /\ UNCHANGED <<db, cache, memCache, pending, missCounts, reg, ask, loop,
                   heard, acked>>

\* ListServicesForTasks.
LoadTopServices(w) ==
    /\ Warms(w, "top", [warm[w] EXCEPT
           !.pc = "loaded", !.top = {}, !.rows = ActiveRows(db, warm[w].top)])
    /\ UNCHANGED <<db, cache, memCache, pending, missCounts, reg, ask, loop,
                   heard, acked>>

\* Entries of a cache that preservePendingEntries carries over.
PendingOf(table) ==
    [t \in Tasks |-> [a \in Addrs |->
        IF <<t, a>> \in pending THEN table[t][a] ELSE None]]

\* The new cache: the rows, and the pending entries of the old cache.
BuildCache(w) ==
    LET kept == PendingOf(cache[warm[w].old])
        new == CHOOSE c \in Caches : Unused(c)
    IN  /\ warm[w].pc = "loaded"
        /\ \E c \in Caches : Unused(c)
        /\ cache' = [cache EXCEPT ![new] = [t \in Tasks |-> [a \in Addrs |->
               Populate(Populate(None, warm[w].rows[t][a]), kept[t][a])]]]
        /\ Warms(w, "loaded", [IdleWarm EXCEPT !.pc = "built", !.new = new])
        /\ UNCHANGED <<db, memCache, pending, missCounts, reg, ask, loop,
                       heard, acked>>

\* The replaced cache is garbage unless someone works on it.
SwapCache(w) ==
    /\ Warms(w, "built", IdleWarm)
    /\ memCache' = warm[w].new
    /\ loop' = LoopAfter(w)
    /\ cache' = [cache EXCEPT ![memCache] =
           IF \/ \E q \in Askers : ask[q].cache = memCache
              \/ \E v \in Warmers : warm[v].old = memCache
           THEN @ ELSE Empty]
    /\ UNCHANGED <<db, pending, missCounts, reg, ask, heard, acked>>

-----------------------------------------------------------------------------
\* The server stops and starts again: what is in memory is lost, and
\* initializeRegistry flags stale rows and warms a new cache before any
\* request is served.
Restart ==
    /\ Crashes
    /\ db' \in {Flagged(db)} \cup (IF StoreFails THEN {db} ELSE {})
    /\ \E tasks \in IF CacheMaxSize = 0 THEN {Tasks} ELSE TopTasks(db') :
       \E rows \in {ActiveRows(db', tasks)}
                       \cup (IF StoreFails THEN {Empty} ELSE {}) :
          cache' = [c \in Caches |-> IF c = memCache THEN rows ELSE Empty]
    /\ pending' = {}
    /\ missCounts' = [t \in Tasks |-> 0]
    /\ reg' = [r \in Registrars |-> IdleReg]
    /\ ask' = [q \in Askers |-> IF ask[q].pc \in {"idle", "done"} THEN ask[q]
                                ELSE [IdleAsk EXCEPT !.pc = "done"]]
    /\ warm' = [w \in Warmers |-> IdleWarm]
    /\ loop' = "waiting"
    /\ heard' = [k \in Keys |-> IF db[k[1]][k[2]] = None THEN Timeout + 1
                                ELSE db[k[1]][k[2]].age]
    /\ UNCHANGED <<memCache, acked>>

Older(age) == Min({age + 1, Timeout + 1})

OlderTable(table) ==
    [t \in Tasks |-> [a \in Addrs |->
        IF table[t][a] = None THEN None
        ELSE [table[t][a] EXCEPT !.age = Older(@)]]]

\* Time passes; no registration waits for the store longer than its context
\* allows.
Tick ==
    /\ \A r \in Registrars : reg[r].pc = "cached" => reg[r].age < StoreDeadline
    /\ UNCHANGED <<memCache, pending, missCounts, loop>>
    /\ heard' = [k \in Keys |-> Older(heard[k])]
    /\ acked' = [k \in Keys |-> Min({acked[k] + 1, Timeout})]
    /\ db' = OlderTable(db)
    /\ cache' = [c \in Caches |-> OlderTable(cache[c])]
    /\ reg' = [r \in Registrars |->
           IF reg[r].pc = "idle" THEN reg[r] ELSE [reg[r] EXCEPT !.age = Older(@)]]
    /\ ask' = [q \in Askers |-> [ask[q] EXCEPT !.rows = OlderTable(@)]]
    /\ warm' = [w \in Warmers |-> [warm[w] EXCEPT !.listing = OlderTable(@),
                                                  !.rows = OlderTable(@)]]

-----------------------------------------------------------------------------
RegisterStep(r) ==
    RegisterInStore(r) \/ RegisterStoreFails(r) \/ RegisterReturns(r)

AskStep(q) ==
    AskStoreFails(q) \/ AskStore(q) \/ AdmitTask(q) \/ AskAgain(q) \/ AskFallback(q)

WarmStep(w) ==
    \/ \E k \in Keys : SyncEntry(w, k)
    \/ ClearSynced(w) \/ ListPending(w) \/ WarmFails(w)
    \/ LoadAll(w) \/ LoadTop(w) \/ LoadTopServices(w)
    \/ BuildCache(w) \/ SwapCache(w)

\* The ticker loop, with the warm-up that follows each cleanup in TUI mode.
LoopStep ==
    \/ CleanupCache \/ CleanupStore
    \/ \E w \in Warmers \cap {LoopWarmer} : StartWarm(w) \/ WarmStep(w)

Next ==
    \/ \E r \in Registrars, k \in Keys : RegisterInCache(r, k)
    \/ \E r \in Registrars : RegisterStep(r)
    \/ \E q \in Askers, t \in Tasks : AskCache(q, t)
    \/ \E q \in Askers : AskStep(q)
    \/ CleanupCache
    \/ CleanupStore
    \/ \E w \in Warmers : StartWarm(w)
    \/ \E w \in Warmers : WarmStep(w)
    \/ Restart
    \/ Tick

Spec == Init /\ [][Next /\ UNCHANGED setup]_vars

\* Time passes, the ticker loop goes on with its cleanups and warm-ups, and
\* the store does not fail a cleanup for ever.  Registrations and queries may
\* stop anywhere.
Fairness ==
    /\ WF_system(Tick)
    /\ WF_system(LoopStep)
    /\ SF_system(CleanupStore /\ StoreCleanup)
    /\ \A w \in Warmers \ {LoopWarmer} : WF_system(WarmStep(w))

FairSpec == Spec /\ Fairness

-----------------------------------------------------------------------------
Cached(k) == cache[memCache][k[1]][k[2]] # None

Active(k) == db[k[1]][k[2]] # None /\ db[k[1]][k[2]].active

\* However often entries are copied between the rows, the caches and the
\* listings of a warm-up or a query in progress (populateCacheEntry,
\* syncQueryCountsToDB, preservePendingEntries), no copy is younger than the
\* last registration that was served: a silent service is never kept alive.
HeartbeatsHonest ==
    \A k \in Keys :
        LET tables == {db} \cup {cache[c] : c \in Caches}
                      \cup {warm[w].listing : w \in Warmers}
                      \cup {warm[w].rows : w \in Warmers}
                      \cup {ask[q].rows : q \in Askers}
        IN  \A table \in tables :
               table[k[1]][k[2]] # None => table[k[1]][k[2]].age >= heard[k]

\* A service whose registration the store took less than Timeout ago is
\* found, in the cache or through the fall back to the rows, across failures
\* of the store and restarts of the server too: "Remove entries silent for
\* longer than this" (README.md).
FreshFindable ==
    \A k \in Keys : acked[k] < Timeout => Cached(k) \/ Active(k)

\* When no registration of k is in progress, the row has the last heartbeat
\* or k is flagged for the next sync (markPendingStoreSync): a store failure
\* is never forgotten.
UnsyncedIsPending ==
    \A k \in Keys :
        (heard[k] <= Timeout /\ \A r \in Registrars : reg[r].key # k)
            => k \in pending \/ (Active(k) /\ db[k[1]][k[2]].age = heard[k])

\* A service that stays silent is, in the end, neither cached nor active for
\* good, whatever the queries in progress and the warming copy around.
SilentServiceForgotten ==
    \A k \in Keys :
        <>[](heard[k] > Timeout) => <>[](~Cached(k) /\ ~Active(k))
=============================================================================
