---------------------- MODULE StoreBackedRegistryProofs ----------------------
(***************************************************************************)
(* Proof that no copy of an entry of the persistent registry is younger    *)
(* than the last registration of its key, for any number of tasks,         *)
(* addresses, goroutines and caches.                                       *)
(*                                                                         *)
(* The inductive invariant says where every copy lies and that each one    *)
(* is honest with respect to heard: rows, caches, the listings and rows    *)
(* of the warm-ups, the rows of the queries, and the age a registration    *)
(* is about to write to the store.                                         *)
(***************************************************************************)
EXTENDS StoreBackedRegistry, TLAPS

\* Tables of entries of S in which no age is below the one in h.
Copies(S, h) ==
    {table \in Tables(S) : \A t \in Tasks, a \in Addrs :
        table[t][a] # None => table[t][a].age >= h[<<t, a>>]}

\* A registration that is about to write its age to the store.
Regs(h) ==
    {x \in [pc : {"idle", "cached", "stored", "failed"},
            key : Keys \cup {None}, age : Ages] :
        x.pc = "cached" => x.key \in Keys /\ x.age >= h[x.key]}

\* A query knows its task and its cache until it returns, and then has let
\* go of its rows.
Asks(h) ==
    {x \in [pc : {"idle", "missed", "admit", "admitted", "fallback", "done"},
            task : Tasks \cup {None}, cache : Caches \cup {None},
            rows : Copies(CacheEntry, h), answer : Addrs \cup {None}] :
        IF x.pc \in {"idle", "done"} THEN x.rows = Empty
        ELSE x.task \in Tasks /\ x.cache \in Caches}

\* A warm-up writes entries it has listed, and knows the caches it is
\* between.
Warmings(h) ==
    {x \in [pc : {"idle", "counts", "pendings", "top", "loaded", "built"},
            listing : Copies(CacheEntry, h),
            item : Keys \cup {None}, old : Caches \cup {None},
            top : SUBSET Tasks, rows : Copies(CacheEntry, h),
            new : Caches \cup {None}] :
        /\ x.pc \in {"pendings", "top", "loaded"} => x.old \in Caches
        /\ x.pc = "built" => x.new \in Caches}

\* The inductive invariant.
HonestCopies ==
    /\ heard \in [Keys -> Ages]
    /\ db \in Copies(Row, heard)
    /\ memCache \in Caches
    /\ cache \in [Caches -> Copies(CacheEntry, heard)]
    /\ reg \in [Registrars -> Regs(heard)]
    /\ ask \in [Askers -> Asks(heard)]
    /\ warm \in [Warmers -> Warmings(heard)]

-----------------------------------------------------------------------------
\* Ageing by a tick stops at Timeout + 1 and keeps the order of ages.
LEMMA OlderAge ==
    /\ \A n \in Ages : Older(n) = IF n < Timeout + 1 THEN n + 1 ELSE Timeout + 1
    /\ \A n \in Ages : Older(n) \in Ages
    /\ \A m, n \in Ages : m >= n => Older(m) >= Older(n)
<1>1. \A n \in Ages : Older(n) = IF n < Timeout + 1 THEN n + 1 ELSE Timeout + 1
  <2>. SUFFICES ASSUME NEW n \in Ages
                PROVE  Older(n) = IF n < Timeout + 1 THEN n + 1 ELSE Timeout + 1
    OBVIOUS
  <2>. DEFINE S == {n + 1, Timeout + 1}
              m == IF n < Timeout + 1 THEN n + 1 ELSE Timeout + 1
  <2>1. m \in S /\ \A y \in S : m =< y
    BY StoreBoundsAssumption DEF Ages
  <2>2. Min(S) \in S /\ \A y \in S : Min(S) =< y
    BY <2>1 DEF Min
  <2>. QED
    BY <2>1, <2>2, StoreBoundsAssumption DEF Older, Ages
<1>. QED
  BY <1>1, StoreBoundsAssumption DEF Ages

\* A table that is empty is honest.
LEMMA EmptyCopies == ASSUME NEW S, NEW h PROVE Empty \in Copies(S, h)
BY DEF Empty, Copies, Tables

\* Reading an entry of a table.
LEMMA CopyEntry ==
    ASSUME NEW S, NEW h, NEW table \in Copies(S, h),
           NEW t \in Tasks, NEW a \in Addrs, table[t][a] # None
    PROVE  table[t][a] \in S /\ table[t][a].age >= h[<<t, a>>]
BY DEF Copies, Tables

\* A table is honest when each of its entries is.
LEMMA CopiesByEntry ==
    ASSUME NEW S, NEW h, NEW new,
           new = [t \in Tasks |-> [a \in Addrs |-> new[t][a]]],
           \A t \in Tasks, a \in Addrs :
              new[t][a] = None \/ (new[t][a] \in S /\ new[t][a].age >= h[<<t, a>>])
    PROVE  new \in Copies(S, h)
BY ZenonT(40) DEF Copies, Tables

\* Some of the entries of an honest table.
LEMMA PartCopies ==
    ASSUME NEW S, NEW h, NEW table \in Copies(S, h), NEW new,
           new = [t \in Tasks |-> [a \in Addrs |-> new[t][a]]],
           \A t \in Tasks, a \in Addrs : new[t][a] \in {None, table[t][a]}
    PROVE  new \in Copies(S, h)
BY CopyEntry, CopiesByEntry

\* Writing one entry that is honest.
LEMMA CopiesPut ==
    ASSUME NEW S, NEW h, NEW table \in Copies(S, h),
           NEW t \in Tasks, NEW a \in Addrs, NEW e \in S, e.age >= h[<<t, a>>]
    PROVE  [table EXCEPT ![t][a] = e] \in Copies(S, h)
<1>. DEFINE new == [table EXCEPT ![t][a] = e]
<1>1. new \in Tables(S)
  BY DEF Copies, Tables
<1>2. ASSUME NEW u \in Tasks, NEW b \in Addrs, new[u][b] # None
      PROVE  new[u][b].age >= h[<<u, b>>]
  <2>1. CASE u = t /\ b = a
    BY <2>1 DEF Copies, Tables
  <2>2. CASE ~(u = t /\ b = a)
    <3>1. new[u][b] = table[u][b]
      BY <2>2 DEF Copies, Tables
    <3>. QED
      BY <3>1, <1>2 DEF Copies
  <2>. QED
    BY <2>1, <2>2
<1>. QED
  BY <1>1, <1>2, ZenonT(40) DEF Copies

\* What the store returns is a copy of its rows.
LEMMA ActiveCopies ==
    ASSUME NEW h, NEW table \in Copies(Row, h), NEW tasks
    PROVE  ActiveRows(table, tasks) \in Copies(CacheEntry, h)
<1>. DEFINE f(t, a) == IF t \in tasks /\ table[t][a] # None /\ table[t][a].active
                       THEN [age |-> table[t][a].age, count |-> table[t][a].count]
                       ELSE None
<1>1. ASSUME NEW t \in Tasks, NEW a \in Addrs
      PROVE  f(t, a) = None \/ (f(t, a) \in CacheEntry /\ f(t, a).age >= h[<<t, a>>])
  <2>1. table[t][a] # None => table[t][a] \in Row /\ table[t][a].age >= h[<<t, a>>]
    BY CopyEntry
  <2>. QED
    BY <2>1 DEF Row, CacheEntry
<1>. DEFINE new == ActiveRows(table, tasks)
<1>2. \A t \in Tasks, a \in Addrs : new[t][a] = f(t, a)
  BY DEF ActiveRows
<1>3. new = [t \in Tasks |-> [a \in Addrs |-> new[t][a]]]
  BY DEF ActiveRows
<1>. HIDE DEF f, new
<1>4. new \in Copies(CacheEntry, h)
  BY <1>1, <1>2, <1>3, CopiesByEntry
<1>. QED
  BY <1>4 DEF new

\* Flagging stale rows leaves their ages alone.
LEMMA FlaggedCopies ==
    ASSUME NEW h, NEW table \in Copies(Row, h)
    PROVE  Flagged(table) \in Copies(Row, h)
<1>. DEFINE f(t, a) == IF table[t][a] # None /\ table[t][a].age > Timeout
                       THEN [table[t][a] EXCEPT !.active = FALSE]
                       ELSE table[t][a]
<1>1. ASSUME NEW t \in Tasks, NEW a \in Addrs
      PROVE  f(t, a) = None \/ (f(t, a) \in Row /\ f(t, a).age >= h[<<t, a>>])
  <2>1. table[t][a] # None => table[t][a] \in Row /\ table[t][a].age >= h[<<t, a>>]
    BY CopyEntry
  <2>. QED
    BY <2>1, ZenonT(40) DEF Row
<1>. DEFINE new == Flagged(table)
<1>2. \A t \in Tasks, a \in Addrs : new[t][a] = f(t, a)
  BY DEF Flagged
<1>3. new = [t \in Tasks |-> [a \in Addrs |-> new[t][a]]]
  BY DEF Flagged
<1>. HIDE DEF f, new
<1>4. new \in Copies(Row, h)
  BY <1>1, <1>2, <1>3, CopiesByEntry
<1>. QED
  BY <1>4 DEF new

\* A tick ages a table no slower than the registrations.
LEMMA OlderCopies ==
    ASSUME NEW S \in {Row, CacheEntry}, NEW h \in [Keys -> Ages],
           NEW table \in Copies(S, h)
    PROVE  OlderTable(table) \in Copies(S, [k \in Keys |-> Older(h[k])])
<1>. DEFINE f(t, a) == IF table[t][a] = None THEN None
                       ELSE [table[t][a] EXCEPT !.age = Older(@)]
            g == [k \in Keys |-> Older(h[k])]
<1>1. ASSUME NEW t \in Tasks, NEW a \in Addrs
      PROVE  f(t, a) = None \/ (f(t, a) \in S /\ f(t, a).age >= g[<<t, a>>])
  <2>. SUFFICES ASSUME table[t][a] # None
                PROVE  f(t, a) \in S /\ f(t, a).age >= g[<<t, a>>]
    OBVIOUS
  <2>1. table[t][a] \in S /\ table[t][a].age >= h[<<t, a>>]
    BY CopyEntry
  <2>2. <<t, a>> \in Keys /\ h[<<t, a>>] \in Ages /\ g[<<t, a>>] = Older(h[<<t, a>>])
    BY DEF Keys
  <2>3. table[t][a].age \in Ages
    <3>1. CASE S = Row
      BY <2>1, <3>1 DEF Row
    <3>2. CASE S = CacheEntry
      BY <2>1, <3>2 DEF CacheEntry
    <3>. QED
      BY <3>1, <3>2
  <2>4. Older(table[t][a].age) \in Ages
    BY <2>3, OlderAge
  <2>5. f(t, a) \in S /\ f(t, a).age = Older(table[t][a].age)
    <3>1. CASE S = Row
      BY <2>1, <2>4, <3>1 DEF Row
    <3>2. CASE S = CacheEntry
      BY <2>1, <2>4, <3>2 DEF CacheEntry
    <3>. QED
      BY <3>1, <3>2
  <2>. QED
    BY <2>1, <2>2, <2>3, <2>5, OlderAge
<1>. DEFINE new == OlderTable(table)
<1>2. \A t \in Tasks, a \in Addrs : new[t][a] = f(t, a)
  BY DEF OlderTable
<1>3. new = [t \in Tasks |-> [a \in Addrs |-> new[t][a]]]
  BY DEF OlderTable
<1>. HIDE DEF f, new, g
<1>4. new \in Copies(S, g)
  BY <1>1, <1>2, <1>3, CopiesByEntry
<1>. QED
  BY <1>4 DEF new, g

\* An earlier history asks less of every copy.
LEMMA CopiesEarlier ==
    ASSUME NEW S \in {Row, CacheEntry}, NEW h \in [Keys -> Ages],
           NEW g \in [Keys -> Ages], \A k \in Keys : g[k] <= h[k],
           NEW table \in Copies(S, h)
    PROVE  table \in Copies(S, g)
<1>1. ASSUME NEW t \in Tasks, NEW a \in Addrs, table[t][a] # None
      PROVE  table[t][a].age >= g[<<t, a>>]
  <2>1. table[t][a] \in S /\ table[t][a].age >= h[<<t, a>>]
    BY <1>1, CopyEntry
  <2>2. table[t][a].age \in Ages
    <3>1. CASE S = Row
      BY <2>1, <3>1 DEF Row
    <3>2. CASE S = CacheEntry
      BY <2>1, <3>2 DEF CacheEntry
    <3>. QED
      BY <3>1, <3>2
  <2>3. <<t, a>> \in Keys
    BY DEF Keys
  <2>. QED
    BY <2>1, <2>2, <2>3 DEF Ages
<1>. QED
  BY <1>1 DEF Copies

LEMMA RegsEarlier ==
    ASSUME NEW h \in [Keys -> Ages], NEW g \in [Keys -> Ages],
           \A k \in Keys : g[k] <= h[k], NEW x \in Regs(h)
    PROVE  x \in Regs(g)
BY DEF Regs, Ages

LEMMA AsksEarlier ==
    ASSUME NEW h \in [Keys -> Ages], NEW g \in [Keys -> Ages],
           \A k \in Keys : g[k] <= h[k], NEW x \in Asks(h)
    PROVE  x \in Asks(g)
<1>1. x.rows \in Copies(CacheEntry, h)
  BY DEF Asks
<1>2. x.rows \in Copies(CacheEntry, g)
  BY <1>1, CopiesEarlier
<1>. QED
  BY <1>2 DEF Asks

LEMMA WarmingsEarlier ==
    ASSUME NEW h \in [Keys -> Ages], NEW g \in [Keys -> Ages],
           \A k \in Keys : g[k] <= h[k], NEW x \in Warmings(h)
    PROVE  x \in Warmings(g)
<1>1. x.rows \in Copies(CacheEntry, h) /\ x.listing \in Copies(CacheEntry, h)
  BY DEF Warmings
<1>2. x.rows \in Copies(CacheEntry, g) /\ x.listing \in Copies(CacheEntry, g)
  BY <1>1, CopiesEarlier
<1>. QED
  BY <1>2 DEF Warmings

\* The records of goroutines at rest.
LEMMA IdleRecords ==
    ASSUME NEW h
    PROVE  /\ IdleReg \in Regs(h)
           /\ IdleAsk \in Asks(h)
           /\ IdleWarm \in Warmings(h)
<1>1. IdleReg \in Regs(h)
  BY StoreBoundsAssumption DEF IdleReg, Regs, Ages
<1>2. IdleAsk \in Asks(h)
  BY EmptyCopies DEF IdleAsk, Asks
<1>3. IdleWarm \in Warmings(h)
  BY EmptyCopies DEF IdleWarm, Warmings
<1>. QED
  BY <1>1, <1>2, <1>3

-----------------------------------------------------------------------------
\* The initial state has no copies.
LEMMA HonestInit == Init => HonestCopies
<1>. SUFFICES ASSUME Init PROVE HonestCopies
  OBVIOUS
<1>1. heard \in [Keys -> Ages]
  BY StoreBoundsAssumption DEF Init, Ages
<1>2. memCache \in Caches
  BY StoreBoundsAssumption DEF Init
<1>3. db \in Copies(Row, heard) /\ cache \in [Caches -> Copies(CacheEntry, heard)]
  BY EmptyCopies DEF Init
<1>4. /\ reg \in [Registrars -> Regs(heard)]
      /\ ask \in [Askers -> Asks(heard)]
      /\ warm \in [Warmers -> Warmings(heard)]
  BY IdleRecords DEF Init
<1>. QED
  BY <1>1, <1>2, <1>3, <1>4 DEF HonestCopies

\* RegisterInCache makes the newest heartbeat, in the current cache.
LEMMA HonestRegisterInCache ==
    ASSUME HonestCopies, NEW r \in Registrars, NEW k \in Keys, RegisterInCache(r, k)
    PROVE  HonestCopies'
<1>. DEFINE h == heard'
<1>1. h \in [Keys -> Ages] /\ h[k] = 0 /\ \A j \in Keys : h[j] <= heard[j]
  BY StoreBoundsAssumption DEF HonestCopies, RegisterInCache, Ages
<1>. HIDE DEF h
<1>2. db \in Copies(Row, h) /\ cache \in [Caches -> Copies(CacheEntry, h)]
  <2>1. heard \in [Keys -> Ages] /\ db \in Copies(Row, heard)
        /\ cache \in [Caches -> Copies(CacheEntry, heard)]
    BY DEF HonestCopies
  <2>2. db \in Copies(Row, h)
    BY <2>1, <1>1, CopiesEarlier
  <2>3. \A c \in Caches : cache[c] \in Copies(CacheEntry, h)
    BY <2>1, <1>1, CopiesEarlier
  <2>. QED
    BY <2>1, <2>2, <2>3
<1>3. k[1] \in Tasks /\ k[2] \in Addrs /\ k = <<k[1], k[2]>>
  BY DEF Keys
<1>4. cache' \in [Caches -> Copies(CacheEntry, h)]
  <2>. DEFINE table == cache[memCache]
              e == [age |-> 0, count |-> IF table[k[1]][k[2]] = None THEN 0
                                         ELSE table[k[1]][k[2]].count]
  <2>1. memCache \in Caches /\ table \in Copies(CacheEntry, h)
    BY <1>2 DEF HonestCopies
  <2>2. table[k[1]][k[2]] # None => table[k[1]][k[2]] \in CacheEntry
    BY <2>1, <1>3, CopyEntry
  <2>3. e \in CacheEntry /\ e.age >= h[<<k[1], k[2]>>]
    BY <2>2, <1>1, <1>3, StoreBoundsAssumption DEF CacheEntry, Ages
  <2>4. cache' = [cache EXCEPT ![memCache] = [table EXCEPT ![k[1]][k[2]] = e]]
    BY DEF RegisterInCache
  <2>. HIDE DEF table, e
  <2>5. [table EXCEPT ![k[1]][k[2]] = e] \in Copies(CacheEntry, h)
    BY <2>1, <2>3, <1>3, CopiesPut
  <2>. QED
    BY <2>4, <2>5, <1>2, ZenonT(40)
<1>5. reg' \in [Registrars -> Regs(h)]
  <2>1. [pc |-> "cached", key |-> k, age |-> 0] \in Regs(h)
    BY <1>1, StoreBoundsAssumption DEF Regs, Ages
  <2>2. \A q \in Registrars : reg[q] \in Regs(h)
    BY <1>1, RegsEarlier DEF HonestCopies
  <2>. QED
    BY <2>1, <2>2 DEF HonestCopies, RegisterInCache
<1>6. ask' \in [Askers -> Asks(h)]
  <2>1. \A q \in Askers : ask[q] \in Asks(h)
    BY <1>1, AsksEarlier DEF HonestCopies
  <2>. QED
    BY <2>1 DEF HonestCopies, RegisterInCache
<1>7. warm' \in [Warmers -> Warmings(h)]
  <2>1. \A w \in Warmers : warm[w] \in Warmings(h)
    BY <1>1, WarmingsEarlier DEF HonestCopies
  <2>. QED
    BY <2>1 DEF HonestCopies, RegisterInCache
<1>8. db' = db /\ memCache' = memCache
  BY DEF RegisterInCache
<1>. QED
  BY <1>1, <1>2, <1>4, <1>5, <1>6, <1>7, <1>8 DEF HonestCopies, h

\* An upsert writes an honest age to the row.
LEMMA StoreRegisterCopies ==
    ASSUME HonestCopies, NEW k \in Keys, NEW age \in Ages, NEW count \in Nat,
           age >= heard[k], StoreRegister(k, age, count)
    PROVE  db' \in Copies(Row, heard)
<1>. DEFINE row == db[k[1]][k[2]]
            e == Upsert(row, age, count)
<1>1. k[1] \in Tasks /\ k[2] \in Addrs /\ k = <<k[1], k[2]>>
  BY DEF Keys
<1>2. db \in Copies(Row, heard)
  BY DEF HonestCopies
<1>3. row # None => row \in Row
  BY <1>1, <1>2, CopyEntry
<1>. HIDE DEF row
<1>4. e \in Row /\ e.age = age
  BY <1>3 DEF Upsert, Row
<1>5. db' = [db EXCEPT ![k[1]][k[2]] = e]
  BY DEF StoreRegister, row
<1>. HIDE DEF e
<1>6. [db EXCEPT ![k[1]][k[2]] = e] \in Copies(Row, heard)
  BY <1>1, <1>2, <1>4, CopiesPut
<1>. QED
  BY <1>5, <1>6

\* The later steps of a registration.
LEMMA HonestRegisterStep ==
    ASSUME HonestCopies, NEW r \in Registrars, RegisterStep(r)
    PROVE  HonestCopies'
<1>1. reg[r] \in Regs(heard)
  BY DEF HonestCopies
<1>2. CASE RegisterInStore(r)
  <2>1. /\ reg[r].key \in Keys /\ reg[r].age \in Ages
        /\ reg[r].age >= heard[reg[r].key]
    BY <1>1, <1>2 DEF RegisterInStore, Regs
  <2>2. db' \in Copies(Row, heard)
    BY <2>1, <1>2, StoreRegisterCopies DEF RegisterInStore
  <2>3. [reg[r] EXCEPT !.pc = "stored"] \in Regs(heard)
    BY <1>1 DEF Regs
  <2>4. reg' \in [Registrars -> Regs(heard)]
    BY <2>3, <1>2 DEF HonestCopies, RegisterInStore
  <2>. QED
    BY <2>2, <2>4, <1>2 DEF HonestCopies, RegisterInStore
<1>3. CASE RegisterStoreFails(r)
  <2>1. [reg[r] EXCEPT !.pc = "failed"] \in Regs(heard)
    BY <1>1 DEF Regs
  <2>2. reg' \in [Registrars -> Regs(heard)]
    BY <2>1, <1>3 DEF HonestCopies, RegisterStoreFails
  <2>. QED
    BY <2>2, <1>3 DEF HonestCopies, RegisterStoreFails
<1>4. CASE RegisterReturns(r)
  <2>1. reg' \in [Registrars -> Regs(heard)]
    BY <1>4, IdleRecords DEF HonestCopies, RegisterReturns
  <2>. QED
    BY <2>1, <1>4 DEF HonestCopies, RegisterReturns
<1>. QED
  BY <1>2, <1>3, <1>4 DEF RegisterStep

-----------------------------------------------------------------------------
\* A query that has returned.
LEMMA DoneAsk ==
    ASSUME NEW h
    PROVE  /\ [IdleAsk EXCEPT !.pc = "done"] \in Asks(h)
           /\ \A a \in Addrs :
                [IdleAsk EXCEPT !.pc = "done", !.answer = a] \in Asks(h)
BY EmptyCopies, Zenon DEF IdleAsk, Asks

\* A query counts itself on the entry it takes, which keeps its heartbeat.
LEMMA HitCopies ==
    ASSUME HonestCopies, NEW q \in Askers, NEW c \in Caches, NEW t \in Tasks,
           NEW a \in Addrs, Hit(q, c, t, a)
    PROVE  /\ cache' \in [Caches -> Copies(CacheEntry, heard)]
           /\ ask' \in [Askers -> Asks(heard)]
<1>. DEFINE table == cache[c]
            e == [table[t][a] EXCEPT !.count = @ + 1]
<1>1. table \in Copies(CacheEntry, heard) /\ table[t][a] # None
  BY DEF HonestCopies, Hit, AddrsOf
<1>2. table[t][a] \in CacheEntry /\ table[t][a].age >= heard[<<t, a>>]
  BY <1>1, CopyEntry
<1>3. e \in CacheEntry /\ e.age >= heard[<<t, a>>]
  BY <1>2 DEF CacheEntry
<1>4. cache' = [cache EXCEPT ![c] = [table EXCEPT ![t][a] = e]]
  BY DEF Hit
<1>. HIDE DEF table, e
<1>5. [table EXCEPT ![t][a] = e] \in Copies(CacheEntry, heard)
  BY <1>1, <1>3, CopiesPut
<1>6. cache' \in [Caches -> Copies(CacheEntry, heard)]
  BY <1>4, <1>5 DEF HonestCopies
<1>7. ask' \in [Askers -> Asks(heard)]
  BY DoneAsk, Zenon DEF HonestCopies, Hit
<1>. QED
  BY <1>6, <1>7

LEMMA HonestAskCache ==
    ASSUME HonestCopies, NEW q \in Askers, NEW t \in Tasks, AskCache(q, t)
    PROVE  HonestCopies'
<1>1. memCache \in Caches
  BY DEF HonestCopies
<1>2. /\ cache' \in [Caches -> Copies(CacheEntry, heard)]
      /\ ask' \in [Askers -> Asks(heard)]
  <2>1. CASE \E a \in Addrs : Hit(q, memCache, t, a)
    BY <1>1, <2>1, HitCopies
  <2>2. CASE /\ ask' = [ask EXCEPT ![q] = [IdleAsk EXCEPT
                           !.pc = "missed", !.task = t, !.cache = memCache]]
             /\ UNCHANGED cache
    <3>1. [IdleAsk EXCEPT !.pc = "missed", !.task = t, !.cache = memCache]
             \in Asks(heard)
      BY <1>1, EmptyCopies, ZenonT(40) DEF IdleAsk, Asks
    <3>. QED
      BY <2>2, <3>1 DEF HonestCopies
  <2>. QED
    BY <2>1, <2>2 DEF AskCache
<1>. QED
  BY <1>2 DEF HonestCopies, AskCache

\* Entries admitted to a cache are copies of rows.
LEMMA HonestAdmitTask ==
    ASSUME HonestCopies, NEW q \in Askers, AdmitTask(q)
    PROVE  HonestCopies'
<1>. DEFINE t == ask[q].task
            c == ask[q].cache
            rows == ask[q].rows
            new == [cache[c] EXCEPT ![t] =
                       [a \in Addrs |-> Populate(cache[c][t][a], rows[t][a])]]
<1>1. /\ ask[q] \in Asks(heard) /\ t \in Tasks /\ c \in Caches
      /\ rows \in Copies(CacheEntry, heard)
  BY DEF HonestCopies, AdmitTask, Asks
<1>2. cache[c] \in Copies(CacheEntry, heard)
  BY <1>1 DEF HonestCopies
<1>3. cache' = [cache EXCEPT ![c] = new]
  BY DEF AdmitTask
<1>. HIDE DEF t, c, rows
<1>4. new = [u \in Tasks |-> [a \in Addrs |-> new[u][a]]]
  BY <1>1, <1>2 DEF Copies, Tables
<1>5. ASSUME NEW u \in Tasks, NEW a \in Addrs
      PROVE  new[u][a] = None
             \/ (new[u][a] \in CacheEntry /\ new[u][a].age >= heard[<<u, a>>])
  <2>1. new[u][a] \in {cache[c][u][a], rows[u][a]}
    BY <1>1, <1>2 DEF Copies, Tables, Populate
  <2>2. cache[c][u][a] # None =>
           cache[c][u][a] \in CacheEntry /\ cache[c][u][a].age >= heard[<<u, a>>]
    BY <1>2, CopyEntry
  <2>3. rows[u][a] # None =>
           rows[u][a] \in CacheEntry /\ rows[u][a].age >= heard[<<u, a>>]
    BY <1>1, CopyEntry
  <2>. QED
    BY <2>1, <2>2, <2>3
<1>. HIDE DEF new
<1>6. new \in Copies(CacheEntry, heard)
  BY <1>4, <1>5, CopiesByEntry
<1>7. cache' \in [Caches -> Copies(CacheEntry, heard)]
  BY <1>3, <1>6, ZenonT(40) DEF HonestCopies
<1>8. [ask[q] EXCEPT !.pc = "admitted"] \in Asks(heard)
  BY <1>1 DEF Asks, t, c
<1>9. ask' \in [Askers -> Asks(heard)]
  BY <1>8 DEF HonestCopies, AdmitTask
<1>. QED
  BY <1>7, <1>9, ZenonT(40) DEF HonestCopies, AdmitTask

\* The fall back counts the query on the row, which keeps its heartbeat.
LEMMA HonestAskFallback ==
    ASSUME HonestCopies, NEW q \in Askers, AskFallback(q)
    PROVE  HonestCopies'
<1>. DEFINE t == ask[q].task
<1>1. ask[q] \in Asks(heard) /\ t \in Tasks
  BY Zenon DEF HonestCopies, AskFallback, Asks
<1>2. /\ db' \in Copies(Row, heard)
      /\ ask' \in [Askers -> Asks(heard)]
  <2>1. CASE AskFails(q) /\ UNCHANGED db
    BY <2>1, DoneAsk, Zenon DEF HonestCopies, AskFails
  <2>2. ASSUME NEW a \in AddrsOf(ActiveRows(db, {t}), t),
               db' = [db EXCEPT ![t][a].count = @ + 1],
               ask' = [ask EXCEPT ![q] = [IdleAsk EXCEPT !.pc = "done", !.answer = a]]
        PROVE  /\ db' \in Copies(Row, heard)
               /\ ask' \in [Askers -> Asks(heard)]
    <3>. DEFINE e == [db[t][a] EXCEPT !.count = @ + 1]
    <3>. HIDE DEF t
    <3>1. a \in Addrs /\ db \in Copies(Row, heard)
      BY DEF AddrsOf, HonestCopies
    <3>2. db[t][a] # None
      BY <1>1, <3>1 DEF AddrsOf, ActiveRows
    <3>3. db[t][a] \in Row /\ db[t][a].age >= heard[<<t, a>>]
      BY <1>1, <3>1, <3>2, CopyEntry
    <3>4. e \in Row /\ e.age >= heard[<<t, a>>]
      BY <3>3 DEF Row
    <3>5. db' = [db EXCEPT ![t][a] = e]
      BY <2>2
    <3>. HIDE DEF e
    <3>6. db' \in Copies(Row, heard)
      BY <1>1, <3>1, <3>4, <3>5, CopiesPut, Zenon
    <3>7. ask' \in [Askers -> Asks(heard)]
      BY <2>2, <3>1, DoneAsk, Zenon DEF HonestCopies
    <3>. QED
      BY <3>6, <3>7
  <2>. QED
    BY <2>1, <2>2, Zenon DEF AskFallback
<1>. QED
  BY <1>2, Zenon DEF HonestCopies, AskFallback

\* The steps of a query after the first lookup.
LEMMA HonestAskStep ==
    ASSUME HonestCopies, NEW q \in Askers, AskStep(q)
    PROVE  HonestCopies'
<1>1. ask[q] \in Asks(heard)
  BY DEF HonestCopies
<1>2. CASE AskStoreFails(q)
  <2>1. ask' \in [Askers -> Asks(heard)]
    BY <1>2, DoneAsk, Zenon DEF HonestCopies, AskStoreFails, AskFails
  <2>. QED
    BY <2>1, <1>2 DEF HonestCopies, AskStoreFails
<1>3. CASE AskStore(q)
  <2>. DEFINE rows == ActiveRows(db, {ask[q].task})
  <2>1. rows \in Copies(CacheEntry, heard)
    BY ActiveCopies DEF HonestCopies
  <2>2. PICK pc \in {"admit", "fallback"} :
           ask' = [ask EXCEPT ![q].rows = rows, ![q].pc = pc]
    BY <1>3, ZenonT(40) DEF AskStore
  <2>. HIDE DEF rows
  <2>3. ask[q].task \in Tasks /\ ask[q].cache \in Caches
    BY <1>1, <1>3 DEF AskStore, Asks
  <2>4. [ask[q] EXCEPT !.rows = rows, !.pc = pc] \in Asks(heard)
    BY <1>1, <2>1, <2>3, ZenonT(40) DEF Asks
  <2>5. ask' = [ask EXCEPT ![q] = [ask[q] EXCEPT !.rows = rows, !.pc = pc]]
    BY <2>2, ZenonT(40) DEF HonestCopies
  <2>6. ask' \in [Askers -> Asks(heard)]
    BY <2>4, <2>5 DEF HonestCopies
  <2>. QED
    BY <2>6, <1>3 DEF HonestCopies, AskStore
<1>4. CASE AdmitTask(q)
  BY <1>4, HonestAdmitTask
<1>5. CASE AskAgain(q)
  <2>1. ask[q].task \in Tasks /\ ask[q].cache \in Caches
    BY <1>1, <1>5 DEF AskAgain, Asks
  <2>2. /\ cache' \in [Caches -> Copies(CacheEntry, heard)]
        /\ ask' \in [Askers -> Asks(heard)]
    <3>1. CASE \E a \in Addrs : Hit(q, ask[q].cache, ask[q].task, a)
      BY <2>1, <3>1, HitCopies
    <3>2. CASE AskFails(q) /\ UNCHANGED cache
      BY <3>2, DoneAsk, Zenon DEF HonestCopies, AskFails
    <3>. QED
      BY <1>5, <3>1, <3>2 DEF AskAgain
  <2>. QED
    BY <2>2, <1>5 DEF HonestCopies, AskAgain
<1>6. CASE AskFallback(q)
  BY <1>6, HonestAskFallback
<1>. QED
  BY <1>2, <1>3, <1>4, <1>5, <1>6 DEF AskStep

-----------------------------------------------------------------------------
\* The cleanup loop removes entries and flags rows.
LEMMA HonestCleanup ==
    ASSUME HonestCopies, CleanupCache \/ CleanupStore
    PROVE  HonestCopies'
<1>1. CASE CleanupCache
  <2>. DEFINE table == cache[memCache]
              new == [t \in Tasks |-> [a \in Addrs |->
                        IF table[t][a] # None /\ table[t][a].age >= Timeout
                        THEN None ELSE table[t][a]]]
  <2>1. memCache \in Caches /\ table \in Copies(CacheEntry, heard)
    BY DEF HonestCopies
  <2>2. cache' = [cache EXCEPT ![memCache] = new]
    BY <1>1 DEF CleanupCache
  <2>. HIDE DEF table
  <2>3. new = [t \in Tasks |-> [a \in Addrs |-> new[t][a]]]
    OBVIOUS
  <2>4. \A t \in Tasks, a \in Addrs : new[t][a] \in {None, table[t][a]}
    OBVIOUS
  <2>. HIDE DEF new
  <2>5. ASSUME NEW t \in Tasks, NEW a \in Addrs, new[t][a] # None
        PROVE  new[t][a] \in CacheEntry /\ new[t][a].age >= heard[<<t, a>>]
    <3>1. new[t][a] = table[t][a] /\ table[t][a] # None
      BY <2>4, <2>5
    <3>2. table[t][a] \in CacheEntry /\ table[t][a].age >= heard[<<t, a>>]
      BY <2>1, <3>1, CopyEntry
    <3>. QED
      BY <3>1, <3>2
  <2>6. new \in Copies(CacheEntry, heard)
    BY <2>3, <2>5, CopiesByEntry
  <2>7. cache' \in [Caches -> Copies(CacheEntry, heard)]
    BY <2>2, <2>6 DEF HonestCopies
  <2>. QED
    BY <2>7, <1>1 DEF HonestCopies, CleanupCache
<1>2. CASE CleanupStore
  <2>1. db' \in Copies(Row, heard)
    BY <1>2, FlaggedCopies DEF HonestCopies, CleanupStore, StoreCleanup
  <2>. QED
    BY <2>1, <1>2 DEF HonestCopies, CleanupStore
<1>. QED
  BY <1>1, <1>2

\* What a warm-up lists is a copy of the current cache.
LEMMA HonestListing ==
    ASSUME HonestCopies, NEW w \in Warmers, StartWarm(w) \/ ListPending(w)
    PROVE  HonestCopies'
<1>. DEFINE table == cache[memCache]
<1>1. memCache \in Caches /\ table \in Copies(CacheEntry, heard)
  BY DEF HonestCopies
<1>2. PICK x : warm' = [warm EXCEPT ![w] = x] /\ x \in Warmings(heard)
  <2>1. CASE StartWarm(w)
    <3>. DEFINE queried == Queried(table)
                x == [IdleWarm EXCEPT !.pc = "counts", !.listing = queried]
    <3>1. warm' = [warm EXCEPT ![w] = x]
      BY <2>1 DEF StartWarm, Warms
    <3>2. queried \in Copies(CacheEntry, heard)
      <4>1. /\ queried = [t \in Tasks |-> [a \in Addrs |-> queried[t][a]]]
            /\ \A t \in Tasks, a \in Addrs : queried[t][a] \in {None, table[t][a]}
        BY DEF Queried
      <4>. HIDE DEF queried, table
      <4>. QED
        BY <1>1, <4>1, PartCopies
    <3>. HIDE DEF queried, table
    <3>3. x \in Warmings(heard)
      BY <3>2, EmptyCopies, ZenonT(40) DEF IdleWarm, Warmings
    <3>. QED
      BY <3>1, <3>3, ZenonT(40)
  <2>2. CASE ListPending(w)
    <3>. DEFINE x == [IdleWarm EXCEPT !.pc = "pendings", !.old = memCache,
                                      !.listing = table]
    <3>1. warm' = [warm EXCEPT ![w] = x]
      BY <2>2 DEF ListPending, Warms
    <3>. HIDE DEF table
    <3>2. x \in Warmings(heard)
      BY <1>1, EmptyCopies, ZenonT(40) DEF IdleWarm, Warmings
    <3>. QED
      BY <3>1, <3>2, Zenon
  <2>. QED
    BY <2>1, <2>2
<1>3. warm' \in [Warmers -> Warmings(heard)]
  BY <1>2 DEF HonestCopies
<1>. QED
  BY <1>3 DEF HonestCopies, StartWarm, ListPending

\* A warm-up writes the ages it has listed.
LEMMA HonestSyncEntry ==
    ASSUME HonestCopies, NEW w \in Warmers, NEW k \in Keys, SyncEntry(w, k)
    PROVE  HonestCopies'
<1>. DEFINE e == warm[w].listing[k[1]][k[2]]
<1>1. warm[w] \in Warmings(heard)
  BY DEF HonestCopies
<1>2. k[1] \in Tasks /\ k[2] \in Addrs /\ k = <<k[1], k[2]>>
  BY DEF Keys
<1>3. e \in CacheEntry /\ e.age >= heard[k]
  <2>1. warm[w].listing \in Copies(CacheEntry, heard) /\ e # None
    BY <1>1, Zenon DEF SyncEntry, Warmings, Held
  <2>. QED
    BY <2>1, <1>2, CopyEntry
<1>4. db' \in Copies(Row, heard)
  <2>1. CASE StoreRegister(k, e.age, e.count)
    <3>1. e.age \in Ages /\ e.count \in Nat
      BY <1>3 DEF CacheEntry
    <3>. QED
      BY <2>1, <3>1, <1>3, StoreRegisterCopies, Zenon
  <2>2. CASE UNCHANGED db
    BY <2>2 DEF HonestCopies
  <2>. QED
    BY <2>1, <2>2, Zenon DEF SyncEntry
<1>5. warm' \in [Warmers -> Warmings(heard)]
  <2>. DEFINE left == [warm[w].listing EXCEPT ![k[1]][k[2]] = None]
              x == [warm[w] EXCEPT !.listing = left]
              y == [x EXCEPT !.item = k]
  <2>1. x \in Warmings(heard)
    <3>1. warm[w].listing \in Copies(CacheEntry, heard)
      BY <1>1 DEF Warmings
    <3>2. left \in Copies(CacheEntry, heard)
      BY <3>1, <1>2, Zenon DEF Copies, Tables
    <3>. HIDE DEF left
    <3>. QED
      BY <1>1, <3>2 DEF Warmings
  <2>2. warm' \in {[warm EXCEPT ![w] = x], [warm EXCEPT ![w] = y]}
    BY DEF SyncEntry, HonestCopies
  <2>. HIDE DEF x
  <2>3. y \in Warmings(heard)
    BY <2>1 DEF Warmings
  <2>. QED
    BY <2>1, <2>2, <2>3 DEF HonestCopies
<1>. QED
  BY <1>4, <1>5 DEF HonestCopies, SyncEntry

\* The new cache is built from rows and from entries of the old one.
LEMMA HonestBuildCache ==
    ASSUME HonestCopies, NEW w \in Warmers, BuildCache(w)
    PROVE  HonestCopies'
<1>. DEFINE old == cache[warm[w].old]
            rows == warm[w].rows
            kept == PendingOf(old)
            c == CHOOSE d \in Caches : Unused(d)
            new == [t \in Tasks |-> [a \in Addrs |->
                      Populate(Populate(None, rows[t][a]), kept[t][a])]]
            x == [IdleWarm EXCEPT !.pc = "built", !.new = c]
<1>1. cache' = [cache EXCEPT ![c] = new] /\ warm' = [warm EXCEPT ![w] = x]
  BY DEF BuildCache, Warms
<1>2. c \in Caches
  BY DEF BuildCache
<1>3. rows \in Copies(CacheEntry, heard) /\ old \in Copies(CacheEntry, heard)
  <2>1. warm[w] \in Warmings(heard) /\ warm[w].pc = "loaded"
    BY DEF HonestCopies, BuildCache
  <2>2. warm[w].old \in Caches /\ rows \in Copies(CacheEntry, heard)
    BY <2>1 DEF Warmings
  <2>. QED
    BY <2>2 DEF HonestCopies
<1>. HIDE DEF old, rows, c
<1>4. new = [t \in Tasks |-> [a \in Addrs |-> new[t][a]]]
  OBVIOUS
<1>5. \A t \in Tasks, a \in Addrs : new[t][a] \in {None, rows[t][a], old[t][a]}
  BY DEF Populate, PendingOf
<1>. HIDE DEF new
<1>6. ASSUME NEW t \in Tasks, NEW a \in Addrs, new[t][a] # None
      PROVE  new[t][a] \in CacheEntry /\ new[t][a].age >= heard[<<t, a>>]
  <2>1. \/ new[t][a] = rows[t][a] /\ rows[t][a] # None
        \/ new[t][a] = old[t][a] /\ old[t][a] # None
    BY <1>5, <1>6
  <2>2. rows[t][a] # None =>
           rows[t][a] \in CacheEntry /\ rows[t][a].age >= heard[<<t, a>>]
    BY <1>3, CopyEntry
  <2>3. old[t][a] # None =>
           old[t][a] \in CacheEntry /\ old[t][a].age >= heard[<<t, a>>]
    BY <1>3, CopyEntry
  <2>. QED
    BY <2>1, <2>2, <2>3
<1>7. new \in Copies(CacheEntry, heard)
  BY <1>4, <1>6, CopiesByEntry
<1>8. cache' \in [Caches -> Copies(CacheEntry, heard)]
  BY <1>1, <1>7, ZenonT(40) DEF HonestCopies
<1>9. x \in Warmings(heard)
  BY <1>2, EmptyCopies, ZenonT(40) DEF IdleWarm, Warmings
<1>10. warm' \in [Warmers -> Warmings(heard)]
  BY <1>1, <1>9 DEF HonestCopies
<1>. QED
  BY <1>8, <1>10 DEF HonestCopies, BuildCache

\* The steps of a warm-up that read the store.
LEMMA HonestLoad ==
    ASSUME HonestCopies, NEW w \in Warmers,
           LoadAll(w) \/ LoadTop(w) \/ LoadTopServices(w)
    PROVE  HonestCopies'
<1>1. warm[w] \in Warmings(heard) /\ db \in Copies(Row, heard)
  BY DEF HonestCopies
<1>2. PICK x : warm' = [warm EXCEPT ![w] = x] /\ x \in Warmings(heard)
  <2>1. CASE LoadAll(w)
    <3>. DEFINE rows == ActiveRows(db, Tasks)
                y == [warm[w] EXCEPT !.pc = "loaded"]
                x == [y EXCEPT !.rows = rows]
    <3>1. warm[w].pc = "pendings" /\ warm' = [warm EXCEPT ![w] = x]
      BY <2>1 DEF LoadAll, Warms
    <3>2. rows \in Copies(CacheEntry, heard)
      BY <1>1, ActiveCopies
    <3>3. y \in Warmings(heard)
      BY <1>1, <3>1, EmptyCopies DEF Warmings
    <3>. HIDE DEF rows, y
    <3>4. x \in Warmings(heard)
      BY <3>2, <3>3 DEF Warmings
    <3>. QED
      BY <3>1, <3>4, ZenonT(40)
  <2>2. CASE LoadTop(w)
    <3>1. PICK S \in TopTasks(db) : Warms(w, "pendings", [warm[w] EXCEPT
                 !.pc = "top", !.top = S])
      BY <2>2, Zenon DEF LoadTop
    <3>2. S \subseteq Tasks
      BY DEF TopTasks
    <3>. DEFINE y == [warm[w] EXCEPT !.pc = "top"]
                x == [y EXCEPT !.top = S]
    <3>3. warm[w].pc = "pendings" /\ warm' = [warm EXCEPT ![w] = x]
      BY <3>1 DEF Warms
    <3>4. y \in Warmings(heard)
      BY <1>1, <3>3, EmptyCopies DEF Warmings
    <3>. HIDE DEF y
    <3>5. x \in Warmings(heard)
      BY <3>2, <3>4 DEF Warmings
    <3>. QED
      BY <3>3, <3>5, ZenonT(40)
  <2>3. CASE LoadTopServices(w)
    <3>. DEFINE rows == ActiveRows(db, warm[w].top)
                y == [warm[w] EXCEPT !.pc = "loaded", !.top = {}]
                x == [y EXCEPT !.rows = rows]
    <3>1. warm[w].pc = "top" /\ warm' = [warm EXCEPT ![w] = x]
      BY <2>3 DEF LoadTopServices, Warms
    <3>2. rows \in Copies(CacheEntry, heard)
      BY <1>1, ActiveCopies
    <3>3. y \in Warmings(heard)
      BY <1>1, <3>1, ZenonT(40) DEF Warmings
    <3>. HIDE DEF rows, y
    <3>4. x \in Warmings(heard)
      BY <3>2, <3>3 DEF Warmings
    <3>. QED
      BY <3>1, <3>4, ZenonT(40)
  <2>. QED
    BY <2>1, <2>2, <2>3
<1>3. warm' \in [Warmers -> Warmings(heard)]
  BY <1>2 DEF HonestCopies
<1>. QED
  BY <1>3, Zenon DEF HonestCopies, LoadAll, LoadTop, LoadTopServices

\* The steps of a warm-up after the first listing.
LEMMA HonestWarmStep ==
    ASSUME HonestCopies, NEW w \in Warmers, WarmStep(w)
    PROVE  HonestCopies'
<1>1. warm[w] \in Warmings(heard)
  BY DEF HonestCopies
<1>2. CASE ClearSynced(w)
  <2>1. [warm[w] EXCEPT !.item = None] \in Warmings(heard)
    BY <1>1 DEF Warmings
  <2>2. warm' \in [Warmers -> Warmings(heard)]
    BY <2>1, <1>2 DEF HonestCopies, ClearSynced
  <2>. QED
    BY <2>2, <1>2 DEF HonestCopies, ClearSynced
<1>3. CASE WarmFails(w)
  <2>1. warm' \in [Warmers -> Warmings(heard)]
    BY <1>3, IdleRecords DEF HonestCopies, WarmFails, Warms
  <2>. QED
    BY <2>1, <1>3 DEF HonestCopies, WarmFails
<1>4. CASE SwapCache(w)
  <2>1. warm' \in [Warmers -> Warmings(heard)]
    BY <1>4, IdleRecords DEF HonestCopies, SwapCache, Warms
  <2>2. memCache' \in Caches
    BY <1>1, <1>4 DEF SwapCache, Warms, Warmings
  <2>3. cache' \in [Caches -> Copies(CacheEntry, heard)]
    <3>1. PICK table \in {cache[memCache], Empty} :
             cache' = [cache EXCEPT ![memCache] = table]
      BY <1>4, Zenon DEF SwapCache
    <3>2. table \in Copies(CacheEntry, heard)
      BY EmptyCopies DEF HonestCopies
    <3>. QED
      BY <3>1, <3>2 DEF HonestCopies
  <2>. QED
    BY <2>1, <2>2, <2>3, <1>4 DEF HonestCopies, SwapCache
<1>. QED
  BY <1>2, <1>3, <1>4, HonestListing, HonestSyncEntry, HonestLoad,
     HonestBuildCache DEF WarmStep

-----------------------------------------------------------------------------
\* After a restart the history is what the rows say.
LEMMA HonestRestart ==
    ASSUME HonestCopies, Restart
    PROVE  HonestCopies'
<1>. DEFINE h == heard'
<1>1. db \in Copies(Row, heard) /\ memCache \in Caches
  BY DEF HonestCopies
<1>2. h = [k \in Keys |-> IF db[k[1]][k[2]] = None THEN Timeout + 1
                          ELSE db[k[1]][k[2]].age]
  BY DEF Restart
<1>. HIDE DEF h
<1>3. h \in [Keys -> Ages]
  <2>1. ASSUME NEW k \in Keys PROVE h[k] \in Ages
    <3>1. k[1] \in Tasks /\ k[2] \in Addrs
      BY DEF Keys
    <3>2. db[k[1]][k[2]] # None => db[k[1]][k[2]] \in Row
      BY <1>1, <3>1, CopyEntry, ZenonT(40)
    <3>3. db[k[1]][k[2]] # None => db[k[1]][k[2]].age \in Ages
      BY <3>2 DEF Row
    <3>4. Timeout + 1 \in Ages
      BY StoreBoundsAssumption DEF Ages
    <3>. QED
      BY <1>2, <3>3, <3>4
  <2>. QED
    BY <2>1, <1>2
<1>4. db \in Copies(Row, h)
  <2>1. ASSUME NEW t \in Tasks, NEW a \in Addrs, db[t][a] # None
        PROVE  db[t][a].age >= h[<<t, a>>]
    <3>1. h[<<t, a>>] = db[t][a].age
      BY <1>2, <2>1 DEF Keys
    <3>2. db[t][a] \in Row
      BY <1>1, <2>1, CopyEntry, Zenon
    <3>. QED
      BY <3>1, <3>2, StoreBoundsAssumption DEF Row, Ages
  <2>. QED
    BY <1>1, <2>1 DEF Copies
<1>5. db' \in Copies(Row, h)
  BY <1>4, FlaggedCopies DEF Restart
<1>6. cache' \in [Caches -> Copies(CacheEntry, h)]
  <2>1. PICK tasks : \E rows \in {ActiveRows(db', tasks), Empty} :
           cache' = [c \in Caches |-> IF c = memCache THEN rows ELSE Empty]
    BY DEF Restart
  <2>2. \A rows \in {ActiveRows(db', tasks), Empty} : rows \in Copies(CacheEntry, h)
    BY <1>5, ActiveCopies, EmptyCopies
  <2>. QED
    BY <2>1, <2>2, EmptyCopies
<1>7. reg' \in [Registrars -> Regs(h)] /\ warm' \in [Warmers -> Warmings(h)]
  BY IdleRecords DEF Restart
<1>8. ask' \in [Askers -> Asks(h)]
  <2>1. ASSUME NEW q \in Askers, ask[q].pc \in {"idle", "done"}
        PROVE  ask[q] \in Asks(h)
    <3>1. ask[q] \in Asks(heard)
      BY DEF HonestCopies
    <3>2. ask[q].rows = Empty
      BY <2>1, <3>1 DEF Asks
    <3>. QED
      BY <2>1, <3>1, <3>2, EmptyCopies DEF Asks
  <2>. QED
    BY <2>1, DoneAsk, Zenon DEF Restart
<1>. QED
  BY <1>1, <1>3, <1>5, <1>6, <1>7, <1>8, Zenon DEF HonestCopies, Restart, h

\* A tick ages every copy with the history.
LEMMA HonestTick ==
    ASSUME HonestCopies, Tick
    PROVE  HonestCopies'
<1>. DEFINE h == [k \in Keys |-> Older(heard[k])]
<1>1. heard \in [Keys -> Ages]
  BY DEF HonestCopies
<1>2. h \in [Keys -> Ages] /\ heard' = h /\ \A k \in Keys : h[k] = Older(heard[k])
  BY <1>1, OlderAge, Zenon DEF Tick
<1>3. \A table \in Copies(Row, heard) : OlderTable(table) \in Copies(Row, h)
  BY <1>1, OlderCopies
<1>4. \A table \in Copies(CacheEntry, heard) : OlderTable(table) \in Copies(CacheEntry, h)
  BY <1>1, OlderCopies
<1>. HIDE DEF h
<1>5. db' \in Copies(Row, h) /\ cache' \in [Caches -> Copies(CacheEntry, h)]
  BY <1>3, <1>4, Zenon DEF HonestCopies, Tick
<1>6. reg' \in [Registrars -> Regs(h)]
  <2>. SUFFICES ASSUME NEW r \in Registrars PROVE reg'[r] \in Regs(h)
    BY Zenon DEF Tick
  <2>1. reg[r] \in Regs(heard)
    BY DEF HonestCopies
  <2>2. reg[r].age \in Ages /\ Older(reg[r].age) \in Ages
    BY <2>1, OlderAge DEF Regs
  <2>3. CASE reg[r].pc = "idle"
    <3>1. reg'[r] = reg[r]
      BY <2>3, Zenon DEF Tick
    <3>. QED
      BY <2>1, <2>3, <3>1 DEF Regs
  <2>4. CASE reg[r].pc # "idle"
    <3>1. reg'[r] = [reg[r] EXCEPT !.age = Older(reg[r].age)]
      BY <2>4, Zenon DEF Tick
    <3>2. reg[r].pc = "cached" =>
             reg[r].key \in Keys /\ Older(reg[r].age) >= h[reg[r].key]
      BY <2>1, <2>2, <1>1, <1>2, OlderAge DEF Regs
    <3>. QED
      BY <2>1, <2>2, <3>1, <3>2 DEF Regs
  <2>. QED
    BY <2>3, <2>4
<1>7. ask' \in [Askers -> Asks(h)]
  <2>. SUFFICES ASSUME NEW q \in Askers PROVE ask'[q] \in Asks(h)
    BY Zenon DEF Tick
  <2>1. ask[q] \in Asks(heard)
    BY DEF HonestCopies
  <2>2. ask'[q] = [ask[q] EXCEPT !.rows = OlderTable(ask[q].rows)]
    BY Zenon DEF Tick
  <2>3. OlderTable(ask[q].rows) \in Copies(CacheEntry, h)
    BY <2>1, <1>4 DEF Asks
  <2>4. OlderTable(Empty) = Empty
    BY DEF OlderTable, Empty
  <2>. QED
    BY <2>1, <2>2, <2>3, <2>4 DEF Asks
<1>8. warm' \in [Warmers -> Warmings(h)]
  <2>. SUFFICES ASSUME NEW w \in Warmers PROVE warm'[w] \in Warmings(h)
    BY Zenon DEF Tick
  <2>. DEFINE listing == OlderTable(warm[w].listing)
              rows == OlderTable(warm[w].rows)
  <2>1. warm[w] \in Warmings(heard)
    BY DEF HonestCopies
  <2>2. warm'[w] = [warm[w] EXCEPT !.listing = listing, !.rows = rows]
    BY Zenon DEF Tick
  <2>3. listing \in Copies(CacheEntry, h) /\ rows \in Copies(CacheEntry, h)
    BY <2>1, <1>4 DEF Warmings
  <2>. HIDE DEF listing, rows
  <2>. QED
    BY <2>1, <2>2, <2>3, ZenonT(40) DEF Warmings
<1>9. memCache' \in Caches
  BY Zenon DEF HonestCopies, Tick
<1>. QED
  BY <1>2, <1>5, <1>6, <1>7, <1>8, <1>9 DEF HonestCopies

-----------------------------------------------------------------------------
\* Every step preserves the invariant.
LEMMA HonestStep ==
    ASSUME HonestCopies, [Next /\ UNCHANGED setup]_vars
    PROVE  HonestCopies'
<1>1. CASE Next
  BY <1>1, HonestRegisterInCache, HonestRegisterStep, HonestAskCache,
     HonestAskStep, HonestCleanup, HonestListing, HonestWarmStep,
     HonestRestart, HonestTick DEF Next
<1>2. CASE UNCHANGED vars
  BY <1>2 DEF HonestCopies, vars, system
<1>. QED
  BY <1>1, <1>2

\* Whatever queries, warm-ups and restarts copy between rows, caches and
\* listings (populateCacheEntry, syncQueryCountsToDB, syncPendingRegistrations,
\* preservePendingEntries), no copy is younger than the last registration of
\* its key.
THEOREM CopiesHonest == Spec => []HeartbeatsHonest
<1>2. HonestCopies => HeartbeatsHonest
  <2>. SUFFICES ASSUME HonestCopies, NEW k \in Keys,
                       NEW table \in {db} \cup {cache[c] : c \in Caches}
                          \cup {warm[w].listing : w \in Warmers}
                          \cup {warm[w].rows : w \in Warmers}
                          \cup {ask[q].rows : q \in Askers},
                       table[k[1]][k[2]] # None
                PROVE  table[k[1]][k[2]].age >= heard[k]
    BY DEF HeartbeatsHonest
  <2>1. k[1] \in Tasks /\ k[2] \in Addrs /\ k = <<k[1], k[2]>>
    BY DEF Keys
  <2>2. \A w \in Warmers : /\ warm[w].listing \in Copies(CacheEntry, heard)
                           /\ warm[w].rows \in Copies(CacheEntry, heard)
    BY DEF HonestCopies, Warmings
  <2>3. \A q \in Askers : ask[q].rows \in Copies(CacheEntry, heard)
    BY DEF HonestCopies, Asks
  <2>4. table \in Copies(Row, heard) \/ table \in Copies(CacheEntry, heard)
    BY <2>2, <2>3 DEF HonestCopies
  <2>. QED
    BY <2>1, <2>4, CopyEntry
<1>. QED
  BY <1>2, HonestInit, HonestStep, PTL DEF Spec

-----------------------------------------------------------------------------
(***************************************************************************)
(* The server without a user interface never warms its cache.  Then, as    *)
(* long as a client waits for the answer to one registration before it     *)
(* sends the next, what the store took is found and what it did not take   *)
(* is flagged.                                                             *)
(***************************************************************************)

\* No two registrations of a key are in progress.
OneAtATime ==
    \A r, s \in Registrars :
        (reg[r].pc # "idle" /\ reg[s].pc # "idle" /\ reg[r].key = reg[s].key) => r = s

RowOf(k) == db[k[1]][k[2]]

\* A row is flagged only beyond the timeout, it is no older than the last
\* registration the store took, and it has the last heartbeat unless that is
\* pending or on its way.
RowKept(k) ==
    /\ RowOf(k) # None /\ ~RowOf(k).active => RowOf(k).age > Timeout
    /\ acked[k] < Timeout => RowOf(k) # None /\ RowOf(k).age <= acked[k]
    /\ \/ heard[k] > Timeout \/ k \in pending
       \/ \E r \in Registrars : reg[r].pc # "idle" /\ reg[r].key = k
       \/ RowOf(k) # None /\ RowOf(k).age = heard[k]

\* A registration in progress is the last one of its key.
RegKept(r) ==
    reg[r].pc # "idle" =>
        /\ reg[r].key \in Keys /\ reg[r].age = heard[reg[r].key]
        /\ acked[reg[r].key] < Timeout => reg[r].age <= acked[reg[r].key]
        /\ reg[r].pc = "stored" => /\ RowOf(reg[r].key) # None
                                   /\ RowOf(reg[r].key).age = reg[r].age

\* The inductive invariant of the headless server.
StoreKept ==
    /\ HonestCopies
    /\ acked \in [Keys -> 0..Timeout]
    /\ \A k \in Keys : RowKept(k)
    /\ \A r \in Registrars : RegKept(r)

\* The rows of new are those of table with other counts, and only rows beyond
\* the timeout are flagged.
SameRows(table, new) ==
    \A k \in Keys :
        /\ new[k[1]][k[2]] = None <=> table[k[1]][k[2]] = None
        /\ table[k[1]][k[2]] # None =>
              /\ new[k[1]][k[2]].age = table[k[1]][k[2]].age
              /\ table[k[1]][k[2]].active /\ table[k[1]][k[2]].age <= Timeout
                    => new[k[1]][k[2]].active

\* PostgresStore.Cleanup flags rows beyond the timeout.
LEMMA FlaggedRows ==
    ASSUME NEW h, NEW table \in Copies(Row, h)
    PROVE  SameRows(table, Flagged(table))
<1>. SUFFICES ASSUME NEW k \in Keys,
                     NEW e, e = table[k[1]][k[2]], NEW f, f = Flagged(table)[k[1]][k[2]]
              PROVE  /\ f = None <=> e = None
                     /\ e # None => /\ f.age = e.age
                                    /\ e.active /\ e.age <= Timeout => f.active
  BY DEF SameRows
<1>1. k[1] \in Tasks /\ k[2] \in Addrs
  BY DEF Keys
<1>2. f = IF e # None /\ e.age > Timeout THEN [e EXCEPT !.active = FALSE] ELSE e
  BY <1>1, ZenonT(40) DEF Flagged
<1>3. e # None => e \in Row
  BY <1>1, CopyEntry, ZenonT(40)
<1>4. CASE e # None /\ e.age > Timeout
  <2>1. f = [e EXCEPT !.active = FALSE] /\ e \in Row
    BY <1>2, <1>3, <1>4
  <2>2. f \in Row /\ f.age = e.age
    BY <2>1, Zenon DEF Row
  <2>3. f # None
    BY <2>2, NoneAssumption
  <2>4. e.age \in Nat
    BY <2>1, StoreBoundsAssumption DEF Row, Ages
  <2>5. ~(e.age <= Timeout)
    BY <1>4, <2>4, StoreBoundsAssumption
  <2>. QED
    BY <1>4, <2>2, <2>3, <2>5, Zenon
<1>5. CASE ~(e # None /\ e.age > Timeout)
  BY <1>2, <1>5
<1>. QED
  BY <1>4, <1>5, Zenon

\* IncrementQueryCount changes a count.
LEMMA FallbackRows ==
    ASSUME HonestCopies, NEW q \in Askers, AskFallback(q)
    PROVE  SameRows(db, db')
<1>1. CASE UNCHANGED db
  BY <1>1 DEF SameRows
<1>2. CASE ~UNCHANGED db
  <2>. DEFINE t == ask[q].task
  <2>1. PICK a \in AddrsOf(ask[q].rows, t) \cap Reach[q] \cap AddrsOf(ActiveRows(db, {t}), t) :
           db' = [db EXCEPT ![t][a].count = @ + 1]
    BY <1>2, Zenon DEF AskFallback
  <2>2. t \in Tasks /\ a \in Addrs
    BY <2>1, Zenon DEF HonestCopies, AskFallback, Asks, AddrsOf
  <2>3. db \in Copies(Row, heard) /\ db \in Tables(Row)
    BY DEF HonestCopies, Copies
  <2>4. db[t][a] # None /\ db[t][a] \in Row
    <3>1. db[t][a] # None
      BY <2>1, <2>2 DEF AddrsOf, ActiveRows
    <3>. QED
      BY <2>2, <2>3, <3>1, CopyEntry, ZenonT(40)
  <2>. DEFINE e == [db[t][a] EXCEPT !.count = @ + 1]
  <2>5. /\ e \in Row /\ e.age = db[t][a].age
        /\ db[t][a].active => e.active
    BY <2>4 DEF Row
  <2>6. e # None
    BY <2>5, NoneAssumption
  <2>7. db' = [db EXCEPT ![t][a] = e]
    BY <2>1, <2>2, <2>3 DEF Tables
  <2>. HIDE DEF e, t
  <2>8. \A u \in Tasks, b \in Addrs :
           db'[u][b] = IF u = t /\ b = a THEN e ELSE db[u][b]
    BY <2>2, <2>3, <2>7 DEF Tables
  <2>9. \A k \in Keys : k[1] \in Tasks /\ k[2] \in Addrs
    BY DEF Keys
  <2>10. ASSUME NEW k \in Keys
         PROVE  \/ db'[k[1]][k[2]] = db[k[1]][k[2]]
                \/ db'[k[1]][k[2]] = e /\ db[k[1]][k[2]] = db[t][a]
    BY <2>8, <2>9, Zenon
  <2>. QED
    BY <2>4, <2>5, <2>6, <2>10, ZenonT(40) DEF SameRows
<1>. QED
  BY <1>1, <1>2

\* The types of a row and of the history of its key.
LEMMA RowTyped ==
    ASSUME HonestCopies, NEW k \in Keys
    PROVE  /\ k[1] \in Tasks /\ k[2] \in Addrs /\ k = <<k[1], k[2]>>
           /\ heard[k] \in Ages /\ heard[k] \in Nat
           /\ RowOf(k) # None => /\ RowOf(k) \in Row
                                 /\ RowOf(k).age \in Ages /\ RowOf(k).age \in Nat
<1>1. k[1] \in Tasks /\ k[2] \in Addrs /\ k = <<k[1], k[2]>>
  BY DEF Keys
<1>2. heard[k] \in Ages /\ db \in Copies(Row, heard)
  BY DEF HonestCopies
<1>3. RowOf(k) # None => RowOf(k) \in Row
  BY <1>1, <1>2, CopyEntry DEF RowOf
<1>4. RowOf(k) # None => RowOf(k).age \in Ages
  BY <1>3 DEF Row
<1>. QED
  BY <1>1, <1>2, <1>3, <1>4, StoreBoundsAssumption DEF Ages

\* A row that gets flagged late, and keeps its heartbeat, is late.
LEMMA StillLate ==
    ASSUME NEW row, NEW new,
           new = None <=> row = None,
           row # None => /\ new.age = row.age
                         /\ row.active /\ row.age <= Timeout => new.active,
           row # None => row.age \in Nat,
           row # None /\ ~row.active => row.age > Timeout
    PROVE  new # None /\ ~new.active => new.age > Timeout
<1>. SUFFICES ASSUME row # None, ~new.active PROVE row.age > Timeout
  OBVIOUS
<1>1. ~(row.active /\ row.age <= Timeout)
  BY Zenon
<1>2. ~(row.age <= Timeout) \/ row.age > Timeout
  BY <1>1, Zenon
<1>. QED
  BY <1>2, StoreBoundsAssumption

\* Steps that leave the heartbeats in the rows alone.
LEMMA KeptSameRows ==
    ASSUME StoreKept, SameRows(db, db'), UNCHANGED <<reg, pending, heard, acked>>
    PROVE  /\ \A k \in Keys : RowKept(k)'
           /\ \A r \in Registrars : RegKept(r)'
<1>1. ASSUME NEW k \in Keys PROVE RowKept(k)'
  <2>1. /\ RowOf(k)' = None <=> RowOf(k) = None
        /\ RowOf(k) # None =>
              /\ RowOf(k)'.age = RowOf(k).age
              /\ RowOf(k).active /\ RowOf(k).age <= Timeout => RowOf(k)'.active
    BY Zenon DEF SameRows, RowOf
  <2>2. RowKept(k)
    BY DEF StoreKept
  <2>3. RowOf(k) # None => RowOf(k).age \in Nat
    BY RowTyped DEF StoreKept
  <2>4. RowOf(k)' # None /\ ~RowOf(k)'.active => RowOf(k)'.age > Timeout
    <3>1. RowOf(k) # None /\ ~RowOf(k).active => RowOf(k).age > Timeout
      BY <2>2 DEF RowKept
    <3>. QED
      BY <2>1, <2>3, <3>1, StillLate
  <2>. QED
    BY <2>1, <2>2, <2>4 DEF RowKept
<1>2. ASSUME NEW r \in Registrars PROVE RegKept(r)'
  <2>1. RegKept(r)
    BY DEF StoreKept
  <2>2. \A k \in Keys : RowOf(k) # None => RowOf(k)' # None /\ RowOf(k)'.age = RowOf(k).age
    BY DEF SameRows, RowOf
  <2>3. reg[r].pc = "stored" /\ reg[r].key \in Keys =>
           RowOf(reg[r].key)' = db'[reg[r].key[1]][reg[r].key[2]]
    BY DEF RowOf
  <2>. QED
    BY <2>1, <2>2, <2>3, Zenon DEF RegKept, RowOf
<1>. QED
  BY <1>1, <1>2

\* A registration begins: it is the only one of its key.
LEMMA KeptRegisterInCache ==
    ASSUME StoreKept, OneAtATime', NEW r \in Registrars, NEW k \in Keys,
           RegisterInCache(r, k)
    PROVE  /\ acked' \in [Keys -> 0..Timeout]
           /\ \A j \in Keys : RowKept(j)'
           /\ \A s \in Registrars : RegKept(s)'
<1>. DEFINE new == [pc |-> "cached", key |-> k, age |-> 0]
<1>1. /\ reg[r].pc = "idle" /\ reg' = [reg EXCEPT ![r] = new]
      /\ heard' = [heard EXCEPT ![k] = 0] /\ UNCHANGED <<db, pending, acked>>
  BY DEF RegisterInCache
<1>2. /\ heard'[k] = 0 /\ \A j \in Keys : j # k => heard'[j] = heard[j]
      /\ reg'[r] = new /\ \A s \in Registrars : s # r => reg'[s] = reg[s]
  BY <1>1 DEF StoreKept, HonestCopies
<1>3. new.pc = "cached" /\ new.key = k /\ new.age = 0
  OBVIOUS
<1>. HIDE DEF new
<1>4. acked \in [Keys -> 0..Timeout]
  BY DEF StoreKept
<1>5. ASSUME NEW j \in Keys PROVE RowKept(j)'
  <2>1. RowKept(j) /\ RowOf(j)' = RowOf(j)
    BY <1>1 DEF StoreKept, RowOf
  <2>2. CASE j = k
    BY <1>1, <1>2, <1>3, <2>1, <2>2 DEF RowKept
  <2>3. CASE j # k
    <3>1. ASSUME NEW s \in Registrars, reg[s].pc # "idle", reg[s].key = j
          PROVE  reg'[s].pc # "idle" /\ reg'[s].key = j
      BY <1>1, <1>2, <3>1
    <3>. QED
      BY <1>1, <1>2, <2>1, <2>3, <3>1, ZenonT(40) DEF RowKept
  <2>. QED
    BY <2>2, <2>3
<1>6. ASSUME NEW s \in Registrars PROVE RegKept(s)'
  <2>1. CASE s = r
    BY <1>1, <1>2, <1>3, <1>4, <2>1, StoreBoundsAssumption DEF RegKept
  <2>2. CASE s # r /\ reg[s].pc # "idle"
    <3>1. RegKept(s) /\ reg'[s] = reg[s]
      BY <1>2, <2>2 DEF StoreKept
    <3>2. reg[s].key # k
      BY <1>2, <1>3, <2>2 DEF OneAtATime
    <3>3. reg[s].key \in Keys /\ heard'[reg[s].key] = heard[reg[s].key]
      BY <1>2, <2>2, <3>1, <3>2 DEF RegKept
    <3>. QED
      BY <1>1, <3>1, <3>3, Zenon DEF RegKept, RowOf
  <2>3. CASE s # r /\ reg[s].pc = "idle"
    BY <1>2, <2>3 DEF RegKept
  <2>. QED
    BY <2>1, <2>2, <2>3
<1>. QED
  BY <1>1, <1>4, <1>5, <1>6

\* The store takes a registration, or does not.
LEMMA KeptRegisterInStore ==
    ASSUME StoreKept, OneAtATime, NEW r \in Registrars,
           RegisterInStore(r) \/ RegisterStoreFails(r)
    PROVE  /\ acked' \in [Keys -> 0..Timeout]
           /\ \A j \in Keys : RowKept(j)'
           /\ \A s \in Registrars : RegKept(s)'
<1>1. reg[r] \in Regs(heard) /\ reg[r].pc = "cached" /\ RegKept(r)
  BY DEF StoreKept, HonestCopies, RegisterInStore, RegisterStoreFails
<1>2. PICK k \in Keys, age \in Ages :
         /\ k = reg[r].key /\ age = reg[r].age /\ age = heard[k]
         /\ acked[k] < Timeout => age <= acked[k]
  BY <1>1 DEF RegKept, Regs
<1>3. PICK to \in {"stored", "failed"} :
         /\ reg' = [reg EXCEPT ![r].pc = to]
         /\ to = "stored" => StoreRegister(k, age, 0)
         /\ to = "failed" => UNCHANGED db
         /\ UNCHANGED <<pending, heard, acked>>
  BY <1>2 DEF RegisterInStore, RegisterStoreFails
<1>4. /\ reg'[r].pc = to /\ reg'[r].key = k /\ reg'[r].age = age
      /\ \A s \in Registrars : s # r => reg'[s] = reg[s]
  <2>1. reg \in [Registrars -> Regs(heard)]
    BY DEF StoreKept, HonestCopies
  <2>2. reg'[r] = [reg[r] EXCEPT !.pc = to]
    BY <1>3, <2>1
  <2>3. reg'[r].pc = to /\ reg'[r].key = k /\ reg'[r].age = age
    BY <1>1, <1>2, <2>2, ZenonT(40) DEF Regs
  <2>. QED
    BY <1>3, <2>1, <2>3
<1>5. \A j \in Keys : j # k => RowOf(j)' = RowOf(j)
  <2>. SUFFICES ASSUME NEW j \in Keys, j # k PROVE RowOf(j)' = RowOf(j)
    OBVIOUS
  <2>1. CASE to = "stored"
    <3>1. db' = [db EXCEPT ![k[1]][k[2]] = Upsert(@, age, 0)]
      BY <1>3, <2>1 DEF StoreRegister
    <3>2. /\ k[1] \in Tasks /\ k[2] \in Addrs /\ j[1] \in Tasks /\ j[2] \in Addrs
          /\ (j[1] # k[1] \/ j[2] # k[2])
      BY <1>2 DEF Keys
    <3>3. db \in Tables(Row)
      BY DEF StoreKept, HonestCopies, Copies
    <3>. QED
      BY <3>1, <3>2, <3>3 DEF RowOf, Tables
  <2>2. CASE to = "failed"
    BY <1>3, <2>2 DEF RowOf
  <2>. QED
    BY <2>1, <2>2
<1>6. to = "stored" => RowOf(k)' # None /\ RowOf(k)'.age = age /\ RowOf(k)'.active
  <2>. SUFFICES ASSUME to = "stored"
                PROVE  RowOf(k)' # None /\ RowOf(k)'.age = age /\ RowOf(k)'.active
    OBVIOUS
  <2>1. db' = [db EXCEPT ![k[1]][k[2]] = Upsert(@, age, 0)]
    BY <1>3 DEF StoreRegister
  <2>2. k[1] \in Tasks /\ k[2] \in Addrs /\ db \in Tables(Row)
    BY <1>2 DEF Keys, StoreKept, HonestCopies, Copies
  <2>3. db'[k[1]][k[2]] = Upsert(db[k[1]][k[2]], age, 0)
    BY <2>1, <2>2 DEF Tables
  <2>4. db'[k[1]][k[2]].age = age /\ db'[k[1]][k[2]].active
    BY <2>3 DEF Upsert
  <2>5. db'[k[1]][k[2]] # None
    <3>1. HonestCopies'
      BY HonestRegisterStep DEF StoreKept, RegisterStep
    <3>2. db'[k[1]][k[2]] = Upsert(RowOf(k), age, 0) /\ (RowOf(k) # None => RowOf(k) \in Row)
      BY <1>2, <2>3, RowTyped, Zenon DEF RowOf, StoreKept
    <3>3. Upsert(RowOf(k), age, 0) \in Row
      BY <1>2, <3>2 DEF Upsert, Row
    <3>. QED
      BY <3>2, <3>3, NoneAssumption
  <2>. QED
    BY <2>4, <2>5 DEF RowOf
<1>7. to = "failed" => RowOf(k)' = RowOf(k)
  BY <1>3 DEF RowOf
<1>8. ASSUME NEW j \in Keys PROVE RowKept(j)'
  <2>1. RowKept(j)
    BY DEF StoreKept
  <2>2. CASE j = k
    BY <1>2, <1>3, <1>4, <1>6, <1>7, <2>1, <2>2 DEF RowKept
  <2>3. CASE j # k
    <3>1. ASSUME NEW s \in Registrars, reg[s].pc # "idle", reg[s].key = j
          PROVE  reg'[s].pc # "idle" /\ reg'[s].key = j
      BY <1>2, <1>4, <2>3, <3>1
    <3>. QED
      BY <1>3, <1>5, <2>1, <2>3, <3>1 DEF RowKept
  <2>. QED
    BY <2>2, <2>3
<1>9. ASSUME NEW s \in Registrars PROVE RegKept(s)'
  <2>1. CASE s = r
    BY <1>2, <1>3, <1>4, <1>6, <2>1, ZenonT(40) DEF RegKept, RowOf
  <2>2. CASE s # r /\ reg[s].pc # "idle"
    <3>1. RegKept(s) /\ reg'[s] = reg[s]
      BY <1>4, <2>2 DEF StoreKept
    <3>2. reg[s].key # k /\ reg[s].key \in Keys
      BY <1>1, <1>2, <2>2, <3>1, Zenon DEF OneAtATime, RegKept
    <3>. QED
      BY <1>3, <1>5, <3>1, <3>2, ZenonT(40) DEF RegKept, RowOf
  <2>3. CASE s # r /\ reg[s].pc = "idle"
    BY <1>4, <2>3 DEF RegKept
  <2>. QED
    BY <2>1, <2>2, <2>3
<1>. QED
  BY <1>3, <1>8, <1>9 DEF StoreKept

\* A registration is over: its key is flagged, or the row has its heartbeat.
LEMMA KeptRegisterReturns ==
    ASSUME StoreKept, OneAtATime, NEW r \in Registrars, RegisterReturns(r)
    PROVE  /\ acked' \in [Keys -> 0..Timeout]
           /\ \A j \in Keys : RowKept(j)'
           /\ \A s \in Registrars : RegKept(s)'
<1>1. /\ reg[r] \in Regs(heard) /\ reg[r].pc \in {"stored", "failed"} /\ RegKept(r)
      /\ acked \in [Keys -> 0..Timeout]
  BY DEF StoreKept, HonestCopies, RegisterReturns
<1>2. PICK k \in Keys, age \in Ages :
         /\ k = reg[r].key /\ age = reg[r].age /\ age = heard[k]
         /\ acked[k] < Timeout => age <= acked[k]
         /\ reg[r].pc = "stored" => RowOf(k) # None /\ RowOf(k).age = age
  BY <1>1 DEF RegKept, Regs
<1>3. /\ reg'[r].pc = "idle" /\ \A s \in Registrars : s # r => reg'[s] = reg[s]
      /\ UNCHANGED <<db, heard>>
  BY DEF RegisterReturns, IdleReg, StoreKept, HonestCopies
<1>4. /\ pending' \cup {k} = pending \cup {k}
      /\ reg[r].pc = "failed" => k \in pending'
  BY <1>2, Zenon DEF RegisterReturns, PendingAfter
<1>5. /\ acked' \in [Keys -> 0..Timeout] /\ \A j \in Keys : j # k => acked'[j] = acked[j]
      /\ reg[r].pc = "failed" => acked'[k] = acked[k]
      /\ reg[r].pc = "stored" => acked'[k] = age \/ (acked'[k] = acked[k] /\ acked[k] <= age)
  <2>1. CASE reg[r].pc = "failed"
    BY <1>1, <2>1 DEF RegisterReturns
  <2>2. CASE reg[r].pc = "stored"
    <3>. DEFINE m == Min({acked[k], age})
    <3>1. acked' = [acked EXCEPT ![k] = m]
      BY <1>2, <2>2 DEF RegisterReturns
    <3>2. m \in {acked[k], age} /\ m <= acked[k] /\ m <= age
      <4>1. acked[k] \in Nat /\ age \in Nat
        BY <1>1, StoreBoundsAssumption DEF Ages
      <4>2. \E x \in {acked[k], age} : \A y \in {acked[k], age} : x <= y
        BY <4>1
      <4>. QED
        BY <4>2 DEF Min
    <3>. HIDE DEF m
    <3>3. m \in 0..Timeout
      BY <1>1, <3>2, StoreBoundsAssumption DEF Ages
    <3>. QED
      BY <1>1, <2>2, <3>1, <3>2, <3>3
  <2>. QED
    BY <1>1, <2>1, <2>2
<1>6. ASSUME NEW j \in Keys PROVE RowKept(j)'
  <2>1. RowKept(j) /\ RowOf(j)' = RowOf(j)
    BY <1>3 DEF StoreKept, RowOf
  <2>2. CASE j = k
    <3>1. CASE reg[r].pc = "failed"
      BY <1>3, <1>4, <1>5, <2>1, <2>2, <3>1 DEF RowKept
    <3>2. CASE reg[r].pc = "stored"
      <4>1. acked'[k] < Timeout => age <= acked'[k]
        <5>1. age \in Nat
          BY StoreBoundsAssumption DEF Ages
        <5>2. acked'[k] = age \/ acked'[k] = acked[k]
          BY <1>5, <3>2
        <5>. QED
          BY <1>2, <5>1, <5>2, age <= age, Zenon
      <4>2. RowOf(k) # None /\ RowOf(k).age = age
        BY <1>2, <3>2
      <4>. QED
        BY <1>2, <1>3, <2>1, <2>2, <4>1, <4>2 DEF RowKept
    <3>. QED
      BY <1>1, <3>1, <3>2
  <2>3. CASE j # k
    <3>1. ASSUME NEW s \in Registrars, reg[s].pc # "idle", reg[s].key = j
          PROVE  reg'[s].pc # "idle" /\ reg'[s].key = j
      BY <1>2, <1>3, <2>3, <3>1, ZenonT(40)
    <3>2. j \in pending' <=> j \in pending
      BY <1>4, <2>3
    <3>. QED
      BY <1>3, <1>5, <2>1, <2>3, <3>1, <3>2, Zenon DEF RowKept
  <2>. QED
    BY <2>2, <2>3
<1>7. ASSUME NEW s \in Registrars PROVE RegKept(s)'
  <2>1. CASE s = r
    BY <1>3, <2>1 DEF RegKept
  <2>2. CASE s # r /\ reg[s].pc # "idle"
    <3>1. RegKept(s) /\ reg'[s] = reg[s]
      BY <1>3, <2>2 DEF StoreKept
    <3>2. reg[s].key # k /\ reg[s].key \in Keys
      BY <1>1, <1>2, <2>2, <3>1, Zenon DEF OneAtATime, RegKept
    <3>. QED
      BY <1>3, <1>5, <3>1, <3>2, Zenon DEF RegKept, RowOf
  <2>3. CASE s # r /\ reg[s].pc = "idle"
    BY <1>3, <2>3 DEF RegKept
  <2>. QED
    BY <2>1, <2>2, <2>3
<1>. QED
  BY <1>5, <1>6, <1>7, Zenon

\* A restart makes the history as old as the row, and rows within the timeout
\* are active.
LEMMA KeptRestart ==
    ASSUME StoreKept, Restart
    PROVE  /\ acked' \in [Keys -> 0..Timeout]
           /\ \A j \in Keys : RowKept(j)'
           /\ \A s \in Registrars : RegKept(s)'
<1>1. SameRows(db, db')
  <2>1. db' = Flagged(db) \/ db' = db
    BY DEF Restart
  <2>2. db \in Copies(Row, heard)
    BY DEF StoreKept, HonestCopies
  <2>3. SameRows(db, db)
    BY DEF SameRows
  <2>. QED
    BY <2>1, <2>2, <2>3, FlaggedRows
<1>2. /\ UNCHANGED acked /\ \A s \in Registrars : reg'[s].pc = "idle"
      /\ \A j \in Keys : heard'[j] = IF RowOf(j) = None THEN Timeout + 1 ELSE RowOf(j).age
  BY DEF Restart, IdleReg, RowOf
<1>3. ASSUME NEW k \in Keys PROVE RowKept(k)'
  <2>1. /\ RowOf(k)' = None <=> RowOf(k) = None
        /\ RowOf(k) # None =>
              /\ RowOf(k)'.age = RowOf(k).age
              /\ RowOf(k).active /\ RowOf(k).age <= Timeout => RowOf(k)'.active
    BY <1>1 DEF SameRows, RowOf
  <2>2. RowKept(k)
    BY DEF StoreKept
  <2>3. RowOf(k) # None => RowOf(k).age \in Nat
    BY RowTyped DEF StoreKept
  <2>4. RowOf(k)' # None /\ ~RowOf(k)'.active => RowOf(k)'.age > Timeout
    <3>1. RowOf(k) # None /\ ~RowOf(k).active => RowOf(k).age > Timeout
      BY <2>2 DEF RowKept
    <3>. QED
      BY <2>1, <2>3, <3>1, StillLate
  <2>5. heard'[k] > Timeout \/ (RowOf(k)' # None /\ RowOf(k)'.age = heard'[k])
    BY <1>2, <2>1, StoreBoundsAssumption
  <2>. QED
    BY <1>2, <2>1, <2>2, <2>4, <2>5 DEF RowKept
<1>4. \A s \in Registrars : RegKept(s)'
  BY <1>2 DEF RegKept
<1>. QED
  BY <1>2, <1>3, <1>4, Zenon DEF StoreKept

\* Rows, registrations and the history pass a tick together.
LEMMA KeptTick ==
    ASSUME StoreKept, Tick
    PROVE  /\ acked' \in [Keys -> 0..Timeout]
           /\ \A j \in Keys : RowKept(j)'
           /\ \A s \in Registrars : RegKept(s)'
<1>1. /\ acked' = [k \in Keys |-> Min({acked[k] + 1, Timeout})]
      /\ \A k \in Keys : heard'[k] = Older(heard[k])
      /\ UNCHANGED pending
  BY Zenon DEF Tick
<1>2. \A k \in Keys : /\ acked[k] \in Nat
                      /\ acked'[k] = IF acked[k] < Timeout THEN acked[k] + 1 ELSE Timeout
  <2>. SUFFICES ASSUME NEW k \in Keys
                PROVE  /\ acked[k] \in Nat
                       /\ acked'[k] = IF acked[k] < Timeout THEN acked[k] + 1 ELSE Timeout
    OBVIOUS
  <2>1. acked[k] \in 0..Timeout
    BY DEF StoreKept
  <2>. DEFINE S == {acked[k] + 1, Timeout}
              m == IF acked[k] < Timeout THEN acked[k] + 1 ELSE Timeout
  <2>2. m \in S /\ \A y \in S : m <= y
    BY <2>1, StoreBoundsAssumption
  <2>3. Min(S) \in S /\ \A y \in S : Min(S) <= y
    BY <2>2 DEF Min
  <2>4. acked'[k] = Min(S)
    BY <1>1
  <2>. QED
    BY <2>1, <2>2, <2>3, <2>4, StoreBoundsAssumption
<1>3. acked' \in [Keys -> 0..Timeout]
  BY <1>1, <1>2, StoreBoundsAssumption
<1>4. \A k \in Keys :
         /\ RowOf(k)' = None <=> RowOf(k) = None
         /\ RowOf(k) # None => /\ RowOf(k)'.age = Older(RowOf(k).age)
                               /\ RowOf(k).active => RowOf(k)'.active
  <2>. SUFFICES ASSUME NEW k \in Keys, NEW e, e = RowOf(k), NEW f, f = RowOf(k)'
                PROVE  /\ f = None <=> e = None
                       /\ e # None => f.age = Older(e.age) /\ (e.active => f.active)
    OBVIOUS
  <2>1. f = IF e = None THEN None ELSE [e EXCEPT !.age = Older(e.age)]
    BY RowTyped, Zenon DEF Tick, OlderTable, RowOf, StoreKept
  <2>2. CASE e = None
    BY <2>1, <2>2
  <2>3. CASE e # None
    <3>1. e \in Row /\ e.age \in Ages
      BY <2>3, RowTyped DEF StoreKept
    <3>2. Older(e.age) \in Ages
      BY <3>1, OlderAge
    <3>3. f \in Row /\ f.age = Older(e.age) /\ (e.active => f.active)
      BY <2>1, <2>3, <3>1, <3>2 DEF Row
    <3>. QED
      BY <2>3, <3>3, NoneAssumption
  <2>. QED
    BY <2>2, <2>3
<1>5. \A s \in Registrars :
         /\ reg'[s].pc = reg[s].pc /\ reg'[s].key = reg[s].key
         /\ reg[s].pc # "idle" => reg'[s].age = Older(reg[s].age) /\ reg[s].age \in Ages
  <2>. SUFFICES ASSUME NEW s \in Registrars
                PROVE  /\ reg'[s].pc = reg[s].pc /\ reg'[s].key = reg[s].key
                       /\ reg[s].pc # "idle" =>
                             reg'[s].age = Older(reg[s].age) /\ reg[s].age \in Ages
    OBVIOUS
  <2>1. reg'[s] = IF reg[s].pc = "idle" THEN reg[s] ELSE [reg[s] EXCEPT !.age = Older(reg[s].age)]
    BY Zenon DEF Tick
  <2>2. reg[s] \in Regs(heard)
    BY DEF StoreKept, HonestCopies
  <2>. QED
    BY <2>1, <2>2 DEF Regs
<1>6. ASSUME NEW k \in Keys PROVE RowKept(k)'
  <2>1. RowKept(k)
    BY DEF StoreKept
  <2>2. /\ heard[k] \in Ages
        /\ RowOf(k) # None => RowOf(k).age \in Ages
    BY RowTyped DEF StoreKept
  <2>3. RowOf(k)' # None /\ ~RowOf(k)'.active => RowOf(k)'.age > Timeout
    <3>1. ASSUME RowOf(k) # None, RowOf(k).age > Timeout PROVE RowOf(k)'.age > Timeout
      BY <1>4, <2>2, <3>1, OlderAge, StoreBoundsAssumption DEF Ages
    <3>. QED
      BY <1>4, <2>1, <3>1 DEF RowKept
  <2>4. acked'[k] < Timeout => RowOf(k)' # None /\ RowOf(k)'.age <= acked'[k]
    <3>. SUFFICES ASSUME acked'[k] < Timeout
                  PROVE  RowOf(k)' # None /\ RowOf(k)'.age <= acked'[k]
      OBVIOUS
    <3>1. acked[k] < Timeout /\ acked'[k] = acked[k] + 1
      BY <1>2, StoreBoundsAssumption
    <3>2. RowOf(k) # None /\ RowOf(k).age <= acked[k]
      BY <2>1, <3>1 DEF RowKept
    <3>3. RowOf(k)' # None /\ RowOf(k)'.age = Older(RowOf(k).age)
      BY <1>4, <3>2
    <3>4. RowOf(k).age \in Ages /\ acked[k] \in 0..Timeout
      BY <2>2, <3>2 DEF StoreKept
    <3>5. Older(RowOf(k).age) <= RowOf(k).age + 1
      BY <3>4, OlderAge, StoreBoundsAssumption DEF Ages
    <3>6. Older(RowOf(k).age) \in Nat /\ RowOf(k).age \in Nat
      BY <3>4, OlderAge, StoreBoundsAssumption DEF Ages
    <3>. QED
      BY <3>1, <3>2, <3>3, <3>4, <3>5, <3>6, StoreBoundsAssumption
  <2>5. heard[k] > Timeout => heard'[k] > Timeout
    BY <1>1, <2>2, OlderAge, StoreBoundsAssumption DEF Ages
  <2>6. ASSUME NEW s \in Registrars, reg[s].pc # "idle", reg[s].key = k
        PROVE  reg'[s].pc # "idle" /\ reg'[s].key = k
    BY <1>5, <2>6
  <2>7. RowOf(k) # None /\ RowOf(k).age = heard[k] =>
           RowOf(k)' # None /\ RowOf(k)'.age = heard'[k]
    BY <1>1, <1>4
  <2>. QED
    BY <1>1, <2>1, <2>3, <2>4, <2>5, <2>6, <2>7 DEF RowKept
<1>7. ASSUME NEW s \in Registrars PROVE RegKept(s)'
  <2>1. RegKept(s)
    BY DEF StoreKept
  <2>2. CASE reg[s].pc = "idle"
    BY <1>5, <2>2 DEF RegKept
  <2>3. CASE reg[s].pc # "idle"
    <3>1. PICK k \in Keys : k = reg[s].key /\ reg[s].age = heard[k]
      BY <2>1, <2>3 DEF RegKept
    <3>2. reg'[s].key = k /\ reg'[s].age = heard'[k]
      BY <1>1, <1>5, <2>3, <3>1
    <3>3. acked'[k] < Timeout => reg'[s].age <= acked'[k]
      <4>. SUFFICES ASSUME acked'[k] < Timeout PROVE reg'[s].age <= acked'[k]
        OBVIOUS
      <4>1. acked[k] < Timeout /\ acked'[k] = acked[k] + 1
        BY <1>2, StoreBoundsAssumption
      <4>2. reg[s].age <= acked[k] /\ reg[s].age \in Ages /\ reg'[s].age = Older(reg[s].age)
        BY <1>5, <2>1, <2>3, <3>1, <4>1 DEF RegKept
      <4>. QED
        BY <1>2, <4>1, <4>2, OlderAge, StoreBoundsAssumption DEF Ages
    <3>4. reg'[s].pc = "stored" => RowOf(k)' # None /\ RowOf(k)'.age = reg'[s].age
      BY <1>4, <1>5, <2>1, <2>3, <3>1, Zenon DEF RegKept
    <3>. QED
      BY <3>2, <3>3, <3>4 DEF RegKept, RowOf
  <2>. QED
    BY <2>2, <2>3
<1>. QED
  BY <1>3, <1>6, <1>7

\* Every step of the headless server preserves the invariant.
LEMMA StoreKeptStep ==
    ASSUME Warmers = {}, StoreKept, OneAtATime, OneAtATime',
           [Next /\ UNCHANGED setup]_vars
    PROVE  StoreKept'
<1>1. HonestCopies'
  BY HonestStep DEF StoreKept
<1>. DEFINE Rest == /\ acked' \in [Keys -> 0..Timeout]
                    /\ \A j \in Keys : RowKept(j)'
                    /\ \A s \in Registrars : RegKept(s)'
<1>. SUFFICES Rest
  BY <1>1 DEF StoreKept
<1>2. ASSUME NEW r \in Registrars, NEW k \in Keys, RegisterInCache(r, k) PROVE Rest
  BY <1>2, KeptRegisterInCache
<1>3. ASSUME NEW r \in Registrars, RegisterStep(r) PROVE Rest
  BY <1>3, KeptRegisterInStore, KeptRegisterReturns DEF RegisterStep
<1>4. ASSUME SameRows(db, db'), UNCHANGED <<reg, pending, heard, acked>> PROVE Rest
  BY <1>4, KeptSameRows DEF StoreKept
<1>5. SameRows(db, db)
  BY DEF SameRows
<1>6. ASSUME NEW q \in Askers, NEW t \in Tasks, AskCache(q, t) PROVE Rest
  BY <1>4, <1>5, <1>6 DEF AskCache
<1>7. ASSUME NEW q \in Askers, AskStep(q) PROVE Rest
  <2>1. SameRows(db, db')
    BY <1>5, <1>7, FallbackRows, Zenon DEF AskStep, AskStoreFails, AskStore, AdmitTask, AskAgain,
                                    StoreKept
  <2>2. UNCHANGED <<reg, pending, heard, acked>>
    BY <1>7, Zenon DEF AskStep, AskStoreFails, AskStore, AdmitTask, AskAgain, AskFallback
  <2>. QED
    BY <1>4, <2>1, <2>2
<1>8. CASE CleanupCache
  BY <1>4, <1>5, <1>8 DEF CleanupCache
<1>9. CASE CleanupStore
  <2>1. db \in Copies(Row, heard)
    BY DEF StoreKept, HonestCopies
  <2>2. SameRows(db, db')
    BY <1>5, <1>9, <2>1, FlaggedRows DEF CleanupStore, StoreCleanup
  <2>. QED
    BY <1>4, <1>9, <2>2 DEF CleanupStore
<1>10. CASE Restart
  BY <1>10, KeptRestart
<1>11. CASE Tick
  BY <1>11, KeptTick
<1>12. CASE UNCHANGED vars
  BY <1>4, <1>5, <1>12 DEF vars, system
<1>. QED
  BY <1>2, <1>3, <1>6, <1>7, <1>8, <1>9, <1>10, <1>11, <1>12 DEF Next

\* What the headless server maintains.
LEMMA StoreKeptAlways ==
    ASSUME Warmers = {}
    PROVE  Spec /\ []OneAtATime => []StoreKept
<1>1. Init => StoreKept
  <2>. SUFFICES ASSUME Init PROVE StoreKept
    OBVIOUS
  <2>1. acked = [k \in Keys |-> Timeout] /\ heard = [k \in Keys |-> Timeout + 1]
    BY DEF Init
  <2>2. ASSUME NEW k \in Keys PROVE RowKept(k)
    <3>1. RowOf(k) = None
      BY DEF Init, RowOf, Empty, Keys
    <3>. QED
      BY <2>1, <3>1, StoreBoundsAssumption DEF RowKept
  <2>3. ASSUME NEW r \in Registrars PROVE RegKept(r)
    BY DEF Init, IdleReg, RegKept
  <2>. QED
    BY HonestInit, <2>1, <2>2, <2>3, StoreBoundsAssumption DEF StoreKept
<1>2. StoreKept /\ OneAtATime /\ OneAtATime' /\ [Next /\ UNCHANGED setup]_vars => StoreKept'
  BY StoreKeptStep
<1>. QED
  BY <1>1, <1>2, PTL DEF Spec

\* Without warming, a service whose registration the store took less than
\* Timeout ago is found, across failures of the store and restarts.
THEOREM FreshIsFound ==
    ASSUME Warmers = {}
    PROVE  Spec /\ []OneAtATime => []FreshFindable
<1>1. StoreKept => FreshFindable
  <2>. SUFFICES ASSUME StoreKept, NEW k \in Keys, acked[k] < Timeout PROVE Active(k)
    BY DEF FreshFindable
  <2>1. RowKept(k) /\ acked[k] \in 0..Timeout
    BY DEF StoreKept
  <2>2. RowOf(k) # None /\ RowOf(k).age <= acked[k] /\ RowOf(k).age \in Nat
    BY <2>1, RowTyped DEF RowKept, StoreKept
  <2>3. ~(RowOf(k).age > Timeout)
    BY <2>1, <2>2, StoreBoundsAssumption
  <2>. QED
    BY <2>1, <2>2, <2>3 DEF RowKept, RowOf, Active
<1>. QED
  BY <1>1, StoreKeptAlways, PTL

\* Without warming, a registration the store did not take is flagged for the
\* next sync: when none is in progress, the row has the last heartbeat or the
\* key is pending.
THEOREM NoFailureForgotten ==
    ASSUME Warmers = {}
    PROVE  Spec /\ []OneAtATime => []UnsyncedIsPending
<1>1. StoreKept => UnsyncedIsPending
  <2>. SUFFICES ASSUME StoreKept, NEW k \in Keys, heard[k] <= Timeout,
                       \A r \in Registrars : reg[r].key # k, k \notin pending
                PROVE  Active(k) /\ RowOf(k).age = heard[k]
    BY DEF UnsyncedIsPending, RowOf
  <2>1. RowKept(k) /\ heard[k] \in Nat
    BY RowTyped DEF StoreKept
  <2>2. RowOf(k) # None /\ RowOf(k).age = heard[k]
    BY <2>1, StoreBoundsAssumption DEF RowKept
  <2>3. ~(RowOf(k).age > Timeout)
    BY <2>1, <2>2, StoreBoundsAssumption
  <2>. QED
    BY <2>1, <2>2, <2>3 DEF RowKept, RowOf, Active
<1>. QED
  BY <1>1, StoreKeptAlways, PTL
=============================================================================
