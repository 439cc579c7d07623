------------------------------ MODULE MCTransit ------------------------------
(***************************************************************************)
(* The transit simulation: taps, what PCTR journeys cost, and tickets.     *)
(* The three share no state; a behaviour is one of them.                   *)
(***************************************************************************)
EXTENDS TapFlow, DebtReports, Tickets, TLC

CONSTANTS c1, d1, d2, e1, e2, s1, s2

\* Four taps of a PCTR card without a stop of the station, three of an OY card
\* with one.
Bounds == {[taps |-> 4, stops |-> 0], [taps |-> 3, stops |-> 1]}

TokenOf == d1 :> 1 @@ d2 :> 2

ExportNames == Permutations(Exports)

VARIABLE part

MCInit ==
    /\ TapInit /\ DebtInit /\ TicketInit
    /\ part \in {"taps", "debts", "tickets"}
    /\ (cardType = "PCTR") = (bound.taps = 4)
    /\ part # "taps" => cardType = "PCTR"
    /\ part # "tickets" => tickets = {}

MCNext ==
    \/ part = "taps" /\ TapNext /\ UNCHANGED <<part, debtVars, ticketVars>>
    \/ part = "debts" /\ DebtNext /\ UNCHANGED <<part, tapVars, ticketVars>>
    \/ part = "tickets" /\ TicketNext /\ UNCHANGED <<part, tapVars, debtVars>>

MCSpec == MCInit /\ [][MCNext]_<<part, tapVars, debtVars, ticketVars>>
=============================================================================
