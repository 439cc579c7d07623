--------------------------- MODULE ServiceDirectory ---------------------------
(***************************************************************************)
(* What the registry promises its clients, without lists, weights, cursors *)
(* or counters: a set of live addresses per task, and lookups that are     *)
(* answered from the set as it was at one moment of the lookup.            *)
(***************************************************************************)
CONSTANTS
    Tasks,     \* task names
    Addrs,     \* service addresses
    Queries    \* lookups

VARIABLES
    live,      \* per task, the addresses that offer it
    offer,     \* per lookup, the addresses it may be answered with
    outcome    \* per lookup, the address or the failure, or "none"

dirVars == <<live, offer, outcome>>

DirInit ==
    /\ live = [t \in Tasks |-> {}]
    /\ offer = [q \in Queries |-> {}]
    /\ outcome = [q \in Queries |-> "none"]

Announce(t, a) ==
    /\ live' = [live EXCEPT ![t] = @ \cup {a}]
    /\ UNCHANGED <<offer, outcome>>

\* Any number of addresses of any tasks disappear at once.
Withdraw ==
    /\ live' \in [Tasks -> SUBSET Addrs]
    /\ \A t \in Tasks : live'[t] \subseteq live[t]
    /\ UNCHANGED <<offer, outcome>>

\* A lookup that names no task, or a task nobody offers, fails at once.
Reject(q) ==
    /\ outcome[q] = "none" /\ offer[q] = {}
    /\ outcome' = [outcome EXCEPT ![q] = "ErrInvalidTaskName"]
    /\ UNCHANGED <<live, offer>>

Miss(q, t) ==
    /\ outcome[q] = "none" /\ offer[q] = {}
    /\ live[t] = {}
    /\ outcome' = [outcome EXCEPT ![q] = "ErrNotFound"]
    /\ UNCHANGED <<live, offer>>

Look(q, t) ==
    /\ outcome[q] = "none" /\ offer[q] = {}
    /\ live[t] # {}
    /\ offer' = [offer EXCEPT ![q] = live[t]]
    /\ UNCHANGED <<live, outcome>>

\* The answer is one of the addresses seen, or a failure: the firewall
\* refuses all of them, or their weights do not add up.
Answer(q) ==
    /\ outcome[q] = "none" /\ offer[q] # {}
    /\ \E x \in offer[q] \cup {"ErrNoAllowedService", "ErrNotFound"} :
           outcome' = [outcome EXCEPT ![q] = x]
    /\ UNCHANGED <<live, offer>>

DirNext ==
    \/ \E t \in Tasks, a \in Addrs : Announce(t, a)
    \/ Withdraw
    \/ \E q \in Queries : Reject(q) \/ Answer(q)
    \/ \E q \in Queries, t \in Tasks : Miss(q, t) \/ Look(q, t)

DirSpec == DirInit /\ [][DirNext]_dirVars
=============================================================================
