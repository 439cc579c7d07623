-------------------------------- MODULE Tickets --------------------------------
(***************************************************************************)
(* Tickets of the transit simulation: CS lists the tickets of the trains   *)
(* that leave soon in manifests, the ticket distributor polls CS for them  *)
(* and writes a file per station, station computers poll the distributor   *)
(* for the latest.                                                         *)
(*                                                                         *)
(* Times are readings of one clock; several things may happen between two  *)
(* ticks.  The rounds of CS start at least a tick apart, and a tick is at  *)
(* least a second, which is what the ids of manifests count.  0 is the     *)
(* zero time.                                                              *)
(***************************************************************************)
EXTENDS Integers, FiniteSets, FiniteSetsExt

CONSTANTS
    Stations,
    Window,       \* manifests hold the trains of the next 15 minutes
    MaxClock,     \* bound: the last tick
    MaxTickets,   \* bound: tickets that are sold
    MaxRestarts   \* bound: restarts of CS and of the distributor

ASSUME TicketAssumption == Window \in Nat

\* tickets: the table.  lastManifestTime, generator: the manifest loop.
\* manifests: the table.  last, held, latest: the distributor, with the stations
\* it has files for.  received: the manifest each station computer got last.
\* History: ahead, tickets of a train outside the window of a round; restarts.
VARIABLES clock, tickets, lastManifestTime, generator, manifests,
          last, held, latest, received, ahead, restarts

csVars == <<tickets, lastManifestTime, generator, manifests, ahead>>
distributorVars == <<last, held, latest>>

ticketVars == <<clock, csVars, distributorVars, received, restarts>>

Resting == [at |-> "resting", began |-> 0, list |-> {}]

\* SeedTickets: active tickets for trains within the window, or none.
Seeded(now) ==
    {{}} \cup {{[station |-> s, train |-> now + 1, created |-> now, active |-> TRUE] :
                   s \in Stations}}

TicketInit ==
    /\ clock = 1
    /\ tickets \in Seeded(1)
    /\ lastManifestTime = 0 /\ generator = Resting
    /\ manifests = {}
    /\ last = 0 /\ held = {} /\ latest = 0
    /\ received = [s \in Stations |-> 0]
    /\ ahead = {} /\ restarts = 0

TickClock ==
    /\ clock < MaxClock
    /\ clock' = clock + 1
    /\ UNCHANGED <<csVars, distributorVars, received, restarts>>

-----------------------------------------------------------------------------
\* CS.

\* /ticket with InsertTicket.  The handler leaves Active false, so that the
\* ticket makes a round look for tickets and is in no manifest itself.
PostTicket(s, train) ==
    /\ Cardinality(tickets) < MaxTickets
    /\ tickets' = tickets \cup
           {[station |-> s, train |-> train, created |-> clock, active |-> FALSE]}
    /\ UNCHANGED <<clock, lastManifestTime, generator, manifests, ahead,
                   distributorVars, received, restarts>>

\* A round ends without effect when GetTicketsCreatedSince finds nothing, or
\* fails ...
FindNew ==
    /\ generator.at = "resting" /\ generator.began < clock
    /\ \E failed \in BOOLEAN :
          generator' = [generator EXCEPT !.began = clock, !.at =
              IF failed \/ \A t \in tickets : t.created <= lastManifestTime
              THEN "resting" ELSE "found"]
    /\ UNCHANGED <<clock, tickets, lastManifestTime, manifests, ahead,
                   distributorVars, received, restarts>>

\* GetActiveTicketsWithin; both conditions are its WHERE.
InWindow(t) == clock <= t.train /\ t.train <= clock + Window

\* ... or GetActiveTicketsWithin fails.
ListActive ==
    /\ generator.at = "found"
    /\ \/ /\ generator' = [generator EXCEPT !.at = "listed",
                 !.list = {t \in tickets : t.active /\ InWindow(t)}]
          /\ ahead' = ahead \cup {t \in tickets : ~InWindow(t)}
       \/ /\ generator' = [generator EXCEPT !.at = "resting"]
          /\ UNCHANGED ahead
    /\ UNCHANGED <<clock, tickets, lastManifestTime, manifests,
                   distributorVars, received, restarts>>

\* InsertManifest; without tickets there is nothing to send, and a manifest
\* with the id of another is silently not inserted.
StoreManifest ==
    /\ generator.at = "listed"
    /\ manifests' = IF generator.list = {} \/ (\E m \in manifests : m.generated = clock)
           THEN manifests
           ELSE manifests \cup {[generated |-> clock, list |-> generator.list]}
    /\ generator' = [generator EXCEPT !.at = "stored"]
    /\ UNCHANGED <<clock, tickets, lastManifestTime, ahead,
                   distributorVars, received, restarts>>

AdvanceAnyway ==
    /\ generator.at = "listed" /\ generator.list # {}
    /\ lastManifestTime' = clock
    /\ generator' = [Resting EXCEPT !.began = generator.began]
    /\ UNCHANGED <<clock, tickets, manifests, ahead,
                   distributorVars, received, restarts>>

\* InsertManifest fails: the next round tries again.
StoreFailed ==
    /\ generator.at = "listed" /\ generator.list # {}
    /\ generator' = [Resting EXCEPT !.began = generator.began]
    /\ UNCHANGED <<clock, tickets, lastManifestTime, manifests, ahead,
                   distributorVars, received, restarts>>

\* lastManifestTime is read from the clock when the manifest is stored.
Advance ==
    /\ generator.at = "stored"
    /\ lastManifestTime' = clock
    /\ generator' = [Resting EXCEPT !.began = generator.began]
    /\ UNCHANGED <<clock, tickets, manifests, ahead,
                   distributorVars, received, restarts>>

\* CS starts again, with or without -seed-tickets.
RestartCS ==
    /\ restarts < MaxRestarts
    /\ restarts' = restarts + 1
    /\ \E seed \in Seeded(clock) : tickets' = tickets \cup seed
    /\ lastManifestTime' = 0
    /\ generator' = [Resting EXCEPT !.began = clock]
    /\ ahead' = {}
    /\ UNCHANGED <<clock, manifests, distributorVars, received>>

-----------------------------------------------------------------------------
\* The distributor and the station computers.

\* /manifests with since.
GetManifestsSince(since) == {m \in manifests : m.generated > since}

StationsIn(m) == {t.station : t \in m.list}

\* A file is written for every station of a manifest, unless that fails.
Write(new, failing) ==
    held' = held \cup {[generated |-> m.generated, files |-> StationsIn(m) \ failing] :
                          m \in new}

PollAndReadClock(failing) ==
    LET new == GetManifestsSince(last)
    IN  /\ new # {}
        /\ Write(new, failing)
        /\ last' = clock
        /\ latest' = Max({m.generated : m \in new})
        /\ UNCHANGED <<clock, csVars, received, restarts>>

PollKeepsFirst(failing) ==
    LET new == GetManifestsSince(last)
    IN  /\ new # {}
        /\ Write(new, failing)
        /\ last' = Max({m.generated : m \in new})
        /\ latest' = Min({m.generated : m \in new})
        /\ UNCHANGED <<clock, csVars, received, restarts>>

\* A poll that gets an answer with manifests; the others change nothing.
PollManifests(failing) ==
    LET new == GetManifestsSince(last)
    IN  /\ new # {}
        /\ Write(new, failing)
        /\ last' = Max({m.generated : m \in new})
        /\ latest' = Max({latest} \cup {m.generated : m \in new})
        /\ UNCHANGED <<clock, csVars, received, restarts>>

RestartDistributor ==
    /\ restarts < MaxRestarts
    /\ restarts' = restarts + 1
    /\ last' = 0 /\ held' = {} /\ latest' = 0
    /\ UNCHANGED <<clock, csVars, received>>

\* /latest: the station's file of the latest manifest, or not found.
PollLatest(s) ==
    /\ \E m \in held : m.generated = latest /\ s \in m.files
    /\ received' = [received EXCEPT ![s] = latest]
    /\ UNCHANGED <<clock, csVars, distributorVars, restarts>>

TicketNext ==
    \/ TickClock \/ FindNew \/ ListActive \/ StoreManifest \/ StoreFailed \/ Advance
    \/ RestartCS \/ RestartDistributor
    \/ \E s \in Stations :
          \/ PollLatest(s)
          \/ \E wait \in 1..(Window + 1) : PostTicket(s, clock + wait)
    \/ \E failing \in SUBSET Stations : PollManifests(failing)

TicketSpec == TicketInit /\ [][TicketNext]_ticketVars

-----------------------------------------------------------------------------
Listed(t) == \E m \in manifests : t \in m.list

\* Every active ticket that is not newer than lastManifestTime, so that no
\* later round looks for it, is in a manifest, although rounds fail and CS
\* restarts, unless its train was outside the window of a round.
SettledIsListed ==
    \A t \in tickets :
        t.active /\ t.created <= lastManifestTime => Listed(t) \/ t \in ahead

\* The distributor passes no manifest by: what is not newer than last, and so
\* is never asked for again, it holds, whatever polls fail and whoever restarts.
NonePassedBy ==
    \A m \in manifests : m.generated <= last => \E h \in held : h.generated = m.generated

\* A station computer never gets an older manifest than it got before, also
\* when the distributor restarts and polls everything anew.
StationsGoForward ==
    [][\A s \in Stations : received'[s] >= received[s]]_ticketVars
=============================================================================
