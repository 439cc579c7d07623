------------------------------- MODULE TapFlow -------------------------------
(***************************************************************************)
(* A tap in the transit simulation: the gate has the card validated and    *)
(* sends a transaction to the station computer; the station collects       *)
(* transactions into batches and forwards them to the back office of the   *)
(* card type (CS for OY cards, PCTRBO for PCTR cards); the back office     *)
(* inserts them and pairs them into journeys that are charged.             *)
(*                                                                         *)
(* Every call may fail before or after it took effect.  Taps are numbered  *)
(* in the order of their tap times.  The outcome of resolving an address   *)
(* is a choice here; RequestPath has the details.                          *)
(***************************************************************************)
EXTENDS Integers, Sequences, FiniteSets, Functions

CONSTANTS
    MaxTaps,       \* bound: the largest number of taps
    TapBounds,     \* bounds: how many taps, and how many stops of the station
    Cards,         \* cards of one type
    Unpriced,      \* taps at a station without a station_costs row
    BatchSize,     \* -batch-size
    Funds,         \* balance of every card at the start, in journeys
    MinFunds       \* what PA asks of a card (minFundsCents), in journeys

ASSUME TapAssumption ==
    /\ MaxTaps \in Nat /\ BatchSize \in Nat \ {0}
    /\ TapBounds \subseteq [taps : 0..MaxTaps, stops : Nat]

TapIds == 1..MaxTaps
CardTypes == {"OY", "PCTR"}

\* cardType: of all cards.  card: who tapped.  gate: where handleTap is, per
\* tap.  byType: the station's buffer.  batches: batches being forwarded, with
\* the number of rows inserted.  row: the transaction in the back office.
\* charges: how many journeys a tap was charged for.  balance: journeys left.
\* stopped: history, taps lost at a stop.
VARIABLES cardType, card, gate, byType, batches, row, charges, balance,
          stopped, bound

tapVars == <<cardType, card, gate, byType, batches, row, charges, balance,
             stopped, bound>>

TapInit ==
    /\ cardType \in CardTypes
    /\ card = <<>>
    /\ gate = [k \in TapIds |-> "away"]
    /\ byType = <<>> /\ batches = {}
    /\ row = [k \in TapIds |-> "none"]
    /\ charges = [k \in TapIds |-> 0]
    /\ balance = [c \in Cards |-> Funds]
    /\ stopped = {} /\ bound \in TapBounds

-----------------------------------------------------------------------------
\* The gate: handleTap.

GateMoves(k, from, to) ==
    /\ gate[k] = from
    /\ gate' = [gate EXCEPT ![k] = to]

Tap(c) ==
    /\ Len(card) < bound.taps
    /\ card' = Append(card, c)
    /\ GateMoves(Len(card) + 1, "away", "validating")
    /\ UNCHANGED <<cardType, byType, batches, row, charges, balance, stopped, bound>>

\* Every card has a row; blocked and inactive ones are denied like those
\* without funds.
Validate(c) == balance[c] > 0

CardHasMinFunds(c) == balance[c] >= MinFunds

\* CS validates OY cards; PA gives the others a token, which is the card here.
Validated(k) ==
    /\ GateMoves(k, "validating", "sending")
    /\ IF cardType = "OY" THEN Validate(card[k]) ELSE CardHasMinFunds(card[k])
    /\ UNCHANGED <<cardType, card, byType, batches, row, charges, balance,
                   stopped, bound>>

\* Not valid, no address, no answer, or the transaction never arrived.
Denied(k) ==
    /\ \E from \in {"validating", "sending"} : GateMoves(k, from, "denied")
    /\ UNCHANGED <<cardType, card, byType, batches, row, charges, balance,
                   stopped, bound>>

\* PerTypeBatcher.Add.
Add(k) ==
    LET cur == Append(byType, k)
    IN  IF Len(cur) < BatchSize
        THEN byType' = cur /\ UNCHANGED batches
        ELSE /\ byType' = SubSeq(cur, BatchSize + 1, Len(cur))
             /\ batches' = batches \cup
                    {[taps |-> SubSeq(cur, 1, BatchSize), inserted |-> 0]}

\* The station accepts the transaction; the gate opens when it hears so.
Accept(k) ==
    /\ GateMoves(k, "sending", "accepted")
    /\ Add(k)
    /\ UNCHANGED <<cardType, card, row, charges, balance, stopped, bound>>

\* "station send failed": the answer is lost and the gate stays shut.
Heard(k) ==
    /\ \E to \in {"open", "unheard"} : GateMoves(k, "accepted", to)
    /\ UNCHANGED <<cardType, card, byType, batches, row, charges, balance,
                   stopped, bound>>

-----------------------------------------------------------------------------
\* A batch on its way to the back office.

InsertAgain(b) ==
    /\ row' = [row EXCEPT ![b.taps[b.inserted + 1]] = "new"]
    /\ batches' = (batches \ {b}) \cup {[b EXCEPT !.inserted = @ + 1]}

\* /batch inserts row by row, without a transaction around them; ON CONFLICT
\* DO NOTHING.
Insert(b) ==
    LET k == b.taps[b.inserted + 1]
    IN  /\ row' = IF row[k] = "none" THEN [row EXCEPT ![k] = "new"] ELSE row
        /\ batches' = (batches \ {b}) \cup {[b EXCEPT !.inserted = @ + 1]}

InsertRow(b) ==
    /\ b.inserted < BatchSize
    /\ Insert(b)
    /\ UNCHANGED <<cardType, card, gate, byType, charges, balance, stopped, bound>>

Forwarded(b) ==
    /\ b.inserted = BatchSize
    /\ batches' = batches \ {b}
    /\ UNCHANGED <<cardType, card, gate, byType, row, charges, balance, stopped, bound>>

DropBatch(b) == UNCHANGED byType

\* The batch goes back to the front of the buffer.
PutBack(b) == byType' = b.taps \o byType

\* No back office is resolved, it fails after some of the rows, or its answer
\* is lost after any of them.
ForwardFails(b) ==
    /\ PutBack(b)
    /\ batches' = batches \ {b}
    /\ UNCHANGED <<cardType, card, gate, row, charges, balance, stopped, bound>>

\* The station computer stops and starts: the buffer is only in memory.
StationRestarts ==
    /\ bound.stops > 0
    /\ bound' = [bound EXCEPT !.stops = @ - 1]
    /\ stopped' = stopped \cup Range(byType) \cup UNION {Range(b.taps) : b \in batches}
    /\ byType' = <<>> /\ batches' = {}
    /\ UNCHANGED <<cardType, card, gate, row, charges, balance>>

-----------------------------------------------------------------------------
\* RunJourneyConstruction and RunPCTRJourneyConstruction, for one card: one
\* database transaction.

Unprocessed(c) == {k \in TapIds : row[k] = "new" /\ card[k] = c}

\* Taps are paired in the order of their tap times: the journey of tap k.
JourneyOf(k, taps) == (Cardinality({j \in taps : j <= k}) + 1) \div 2

\* The last tap of an odd number stays.
Paired(taps) == {k \in taps : JourneyOf(k, taps) <= Cardinality(taps) \div 2}

\* Those of the journeys with a known price, which are charged for.
Priced(taps) ==
    {k \in Paired(taps) :
        \A j \in taps \cap Unpriced : JourneyOf(j, taps) # JourneyOf(k, taps)}

Journeys(c) ==
    LET taps == Unprocessed(c)
    IN  /\ Cardinality(taps) >= 2
        /\ row' = [k \in TapIds |-> IF k \in Paired(taps) THEN "done" ELSE row[k]]
        /\ charges' = [k \in TapIds |->
               IF k \in Priced(taps) THEN charges[k] + 1 ELSE charges[k]]
        /\ balance' = IF cardType = "PCTR" THEN balance ELSE
               [balance EXCEPT ![c] = @ - (Cardinality(Priced(taps)) \div 2)]
        /\ UNCHANGED <<cardType, card, gate, byType, batches, stopped,
                       bound>>

TapNext ==
    \/ \E c \in Cards : Tap(c) \/ Journeys(c)
    \/ \E k \in TapIds : Validated(k) \/ Denied(k) \/ Accept(k) \/ Heard(k)
    \/ \E b \in batches : InsertRow(b) \/ Forwarded(b) \/ ForwardFails(b)
    \/ StationRestarts

TapSpec == TapInit /\ [][TapNext]_tapVars

-----------------------------------------------------------------------------
\* A tap that opened the gate is in the station's buffer, in a batch on its
\* way or in the back office, whatever calls failed; only a stop of the
\* station computer, whose buffer is in memory, loses it.
OpenedNotLost ==
    \A k \in TapIds :
        gate[k] \in {"open", "unheard"} =>
            \/ row[k] # "none" \/ k \in stopped \/ k \in Range(byType)
            \/ \E b \in batches : k \in Range(b.taps)

\* No tap is charged twice, although a batch whose answer was lost is sent
\* again and journeys are constructed in between.
ChargedOnce == \A k \in TapIds : charges[k] <= 1

=============================================================================
