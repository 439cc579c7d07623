---------------------------- MODULE TransitProofs ----------------------------
(***************************************************************************)
(* Taps, tickets and debts of the transit simulation, for any number of    *)
(* taps, cards, stations, tickets, debts and exports: no tap is lost or    *)
(* charged twice, no manifest is passed by, and a debt is reported as      *)
(* often as it should be.                                                  *)
(***************************************************************************)
EXTENDS TapFlow, DebtReports, Tickets, ListsProofs

\* Debts.

Round == [pc : {"waiting", "owed"}, owed : SUBSET Debts,
          left : SUBSET TokensOf(Debts)]

Export == [pc : {"idle", "summed", "writing", "marking"}, rows : SUBSET Nat,
           ids : SUBSET Nat]

\* The types, and the two facts MarkDebtsReported relies on: a debt is either
\* reported or not, and a round sums up exactly the unreported ones.
DebtsTyped ==
    /\ unreported \in SUBSET Debts /\ reported \in SUBSET Debts
    /\ unreported \cap reported = {}
    /\ round \in Round
    /\ paDebts \in Seq(SUBSET Debts)
    /\ failures \in Nat
    /\ round.pc = "owed" => round.owed = unreported

\* How often PA has a debt, by where the round is with it.
CountOf(d) ==
    /\ d \in reported => Reports(d) >= 1
    /\ d \notin unreported \cup reported => Reports(d) = 0
    /\ Reports(d) <= 1 + failures
    /\ d \in unreported /\ (round.pc = "waiting" \/ Token[d] \in round.left)
           => Reports(d) <= failures
    /\ d \in unreported /\ round.pc = "owed" /\ Token[d] \notin round.left
           => Reports(d) >= 1

Counted == \A d \in Debts : CountOf(d)

\* What an export may count on at each of its steps.
ExportPhase(e) ==
    /\ export[e].pc = "summed" =>
           DOMAIN paDebts \subseteq export[e].rows \cup exported \cup atRisk
    /\ export[e].pc = "writing" => export[e].ids \subseteq export[e].rows \cup atRisk
    /\ export[e].pc = "marking" => export[e].ids \subseteq newest \cup filed \cup atRisk

Filing ==
    /\ export \in [Exports -> Export]
    /\ \A e \in Exports : ExportPhase(e)
    /\ ExportedIsFiled

-----------------------------------------------------------------------------
\* The number of rows a debt is in is a number.
LEMMA ReportsType ==
    ASSUME paDebts \in Seq(SUBSET Debts), NEW d
    PROVE  /\ IsFiniteSet({r \in DOMAIN paDebts : d \in paDebts[r]})
           /\ Reports(d) \in Nat
<1>1. IsFiniteSet(1..Len(paDebts))
  BY FS_Interval
<1>2. {r \in DOMAIN paDebts : d \in paDebts[r]} \subseteq 1..Len(paDebts)
  OBVIOUS
<1>3. IsFiniteSet({r \in DOMAIN paDebts : d \in paDebts[r]})
  BY <1>1, <1>2, FS_Subset
<1>4. QED
  BY <1>3, FS_CardinalityType DEF Reports

\* A row PA inserts counts once for the debts in it.
LEMMA ReportsAppend ==
    ASSUME paDebts \in Seq(SUBSET Debts), NEW S \in SUBSET Debts, NEW d,
           paDebts' = Append(paDebts, S)
    PROVE  Reports(d)' = IF d \in S THEN Reports(d) + 1 ELSE Reports(d)
<1> DEFINE old == {r \in DOMAIN paDebts : d \in paDebts[r]}
           new == {r \in DOMAIN paDebts' : d \in paDebts'[r]}
<1>1. /\ DOMAIN paDebts' = DOMAIN paDebts \cup {Len(paDebts) + 1}
      /\ Len(paDebts) + 1 \notin DOMAIN paDebts
      /\ \A r \in DOMAIN paDebts : paDebts'[r] = paDebts[r]
      /\ paDebts'[Len(paDebts) + 1] = S
  OBVIOUS
<1>2. CASE d \in S
  <2>1. new = old \cup {Len(paDebts) + 1} /\ Len(paDebts) + 1 \notin old
    BY <1>1, <1>2
  <2>2. IsFiniteSet(old)
    BY ReportsType, Zenon
  <2>3. Cardinality(new) = Cardinality(old) + 1
    <3> HIDE DEF old, new
    <3>1. QED
      BY <2>1, <2>2, FS_AddElement, Zenon
  <2>4. QED
    BY <1>2, <2>3, Zenon DEF Reports
<1>3. CASE d \notin S
  <2>1. new = old
    BY <1>1, <1>3
  <2>2. QED
    BY <1>3, <2>1, Zenon DEF Reports
<1>4. QED
  BY <1>2, <1>3

-----------------------------------------------------------------------------
LEMMA DebtsTypedInit == DebtInit => DebtsTyped
BY DEF DebtInit, DebtsTyped, Round, Waiting

LEMMA DebtsTypedStep == DebtsTyped /\ [DebtNext]_debtVars => DebtsTyped'
<1> SUFFICES ASSUME DebtsTyped, [DebtNext]_debtVars
             PROVE  DebtsTyped'
  OBVIOUS
<1>1. ASSUME NEW new \in SUBSET Debts, StartRound(new)
      PROVE  DebtsTyped'
  <2>1. /\ unreported' = unreported \cup new /\ new \cap reported = {}
        /\ UNCHANGED <<reported, paDebts, failures>>
    BY <1>1 DEF StartRound
  <2>2. unreported' \in SUBSET Debts /\ TokensOf(unreported') \in SUBSET TokensOf(Debts)
    BY <2>1 DEF DebtsTyped, TokensOf
  <2>3. CASE round' = round
    <3>1. round.pc # "owed"
      BY <1>1 DEF StartRound
    <3>. QED
      BY <2>1, <2>2, <2>3, <3>1 DEF DebtsTyped
  <2>4. CASE round' = [pc |-> "owed", owed |-> unreported', left |-> TokensOf(unreported')]
    <3>1. round' \in Round /\ round'.owed = unreported'
      BY <2>2, <2>4 DEF Round
    <3>. QED
      BY <2>1, <2>2, <3>1 DEF DebtsTyped
  <2>. QED
    BY <1>1, <2>3, <2>4 DEF StartRound
<1>2. ASSUME NEW t \in TokensOf(Debts), InsertDebt(t)
      PROVE  DebtsTyped'
  <2>1. {d \in round.owed : Token[d] = t} \in SUBSET Debts
    BY DEF DebtsTyped, Round
  <2>2. paDebts' \in Seq(SUBSET Debts)
    BY <1>2, <2>1 DEF InsertDebt, DebtsTyped
  <2>3. UNCHANGED <<unreported, reported, failures>> /\ round' = [round EXCEPT !.left = @ \ {t}]
    BY <1>2 DEF InsertDebt
  <2>4. round' \in Round /\ round'.pc = round.pc /\ round'.owed = round.owed
    BY <2>3 DEF DebtsTyped, Round
  <2>5. QED
    BY <2>2, <2>3, <2>4 DEF DebtsTyped
<1>. DEFINE Waits == round' \in Round /\ round'.pc # "owed"
<1>3. CASE ReportFails
  <2>1. /\ round' = Waiting /\ failures' = failures + 1
        /\ UNCHANGED <<unreported, reported, paDebts>>
    BY <1>3 DEF ReportFails
  <2>2. Waits
    BY <2>1 DEF Round, Waiting
  <2>. QED
    BY <2>1, <2>2 DEF DebtsTyped
<1>4. CASE Report
  <2>1. round' = Waiting /\ paDebts' = paDebts
    BY <1>4 DEF Report
  <2>2. Waits
    BY <2>1 DEF Round, Waiting
  <2>3. /\ unreported' \in SUBSET Debts /\ reported' \in SUBSET Debts
        /\ unreported' \cap reported' = {} /\ failures' \in Nat
    BY <1>4 DEF Report, DebtsTyped
  <2>. QED
    BY <2>1, <2>2, <2>3 DEF DebtsTyped
<1>5. ASSUME NEW e \in Exports,
             SumRows(e) \/ ReadIds(e) \/ WriteFile(e) \/ MarkExported(e)
      PROVE  DebtsTyped'
  BY <1>5 DEF SumRows, ReadIds, WriteFile, MarkExported, DebtsTyped
<1>6. CASE UNCHANGED debtVars
  BY <1>6 DEF debtVars, DebtsTyped
<1>7. QED
  BY <1>1, <1>2, <1>3, <1>4, <1>5, <1>6 DEF DebtNext

-----------------------------------------------------------------------------
LEMMA CountedInit == DebtInit => Counted
<1> SUFFICES ASSUME DebtInit, NEW d \in Debts
             PROVE  CountOf(d)
  BY DEF Counted
<1>1. {r \in DOMAIN paDebts : d \in paDebts[r]} = {}
  BY DEF DebtInit
<1>2. Reports(d) = 0
  BY <1>1, FS_EmptySet DEF Reports
<1>3. QED
  BY <1>2 DEF DebtInit, CountOf, Waiting

LEMMA CountedStep ==
    DebtsTyped /\ Counted /\ [DebtNext]_debtVars => Counted'
<1> SUFFICES ASSUME DebtsTyped, Counted, [DebtNext]_debtVars, NEW d \in Debts
             PROVE  CountOf(d)'
  BY DEF Counted
<1>1. CountOf(d) /\ Reports(d) \in Nat /\ failures \in Nat
  BY ReportsType, Zenon DEF Counted, DebtsTyped
<1>2. ASSUME NEW new \in SUBSET Debts, StartRound(new)
      PROVE  CountOf(d)'
  <2>1. Reports(d)' = Reports(d)
    BY <1>2 DEF StartRound, Reports
  <2>2. d \in unreported' => Token[d] \in TokensOf(unreported')
    BY DEF TokensOf
  <2>3. QED
    BY <1>1, <1>2, <2>1, <2>2 DEF StartRound, CountOf, DebtsTyped, Round
<1>3. ASSUME NEW t \in TokensOf(Debts), InsertDebt(t)
      PROVE  CountOf(d)'
  <2> DEFINE S == {x \in round.owed : Token[x] = t}
  <2>1. S \in SUBSET Debts /\ round.owed = unreported
    BY <1>3 DEF InsertDebt, DebtsTyped, Round
  <2>2. Reports(d)' = IF d \in S THEN Reports(d) + 1 ELSE Reports(d)
    BY <1>3, <2>1, ReportsAppend DEF InsertDebt, DebtsTyped
  <2>3. d \in S <=> d \in unreported /\ Token[d] = t
    BY <2>1
  <2>4. /\ round'.pc = "owed" /\ round.pc = "owed" /\ t \in round.left
        /\ round'.left = round.left \ {t}
        /\ UNCHANGED <<unreported, reported, failures>>
    BY <1>3 DEF InsertDebt, DebtsTyped, Round
  <2>5. CASE d \in S
    <3>1. /\ Reports(d)' = Reports(d) + 1 /\ Reports(d) <= failures
          /\ d \in unreported' /\ Token[d] \notin round'.left
      BY <1>1, <2>2, <2>3, <2>4, <2>5 DEF CountOf
    <3>. QED
      BY <1>1, <2>4, <3>1 DEF CountOf
  <2>6. CASE d \notin S
    <3>1. /\ Reports(d)' = Reports(d)
          /\ d \in unreported => (Token[d] \in round'.left <=> Token[d] \in round.left)
      BY <2>2, <2>3, <2>4, <2>6
    <3>. QED
      BY <1>1, <2>4, <3>1 DEF CountOf
  <2>7. QED
    BY <2>5, <2>6
<1>4. CASE ReportFails
  <2>1. /\ round.pc = "owed" /\ failures' = failures + 1 /\ round'.pc = "waiting"
        /\ UNCHANGED <<unreported, reported, paDebts>>
    BY <1>4 DEF ReportFails, Waiting
  <2>2. Reports(d)' = Reports(d)
    BY <2>1, Zenon DEF Reports
  <2>3. Reports(d)' <= failures'
    BY <1>1, <2>1, <2>2 DEF CountOf
  <2>4. QED
    BY <1>1, <2>1, <2>2, <2>3 DEF CountOf
<1>5. CASE Report
  <2>1. Reports(d)' = Reports(d)
    <3>1. paDebts' = paDebts
      BY <1>5 DEF Report
    <3>. QED
      BY <3>1, Zenon DEF Reports
  <2>2. round.pc = "owed" /\ round.left = {} /\ round'.pc = "waiting"
    BY <1>5 DEF Report, Waiting
  <2>3. CASE reported' = reported \cup unreported /\ unreported' = {} /\ failures' = failures
    BY <1>1, <2>1, <2>2, <2>3 DEF CountOf
  <2>4. CASE failures' = failures + 1 /\ UNCHANGED <<reported, unreported>>
    BY <1>1, <2>1, <2>2, <2>4 DEF CountOf
  <2>5. QED
    BY <1>5, <2>3, <2>4 DEF Report
<1>6. ASSUME NEW e \in Exports,
             SumRows(e) \/ ReadIds(e) \/ WriteFile(e) \/ MarkExported(e)
      PROVE  CountOf(d)'
  <2>1. UNCHANGED <<unreported, reported, round, paDebts, failures>>
    BY <1>6 DEF SumRows, ReadIds, WriteFile, MarkExported
  <2>2. Reports(d)' = Reports(d)
    BY <2>1 DEF Reports
  <2>3. QED
    BY <1>1, <2>1, <2>2 DEF CountOf
<1>7. CASE UNCHANGED debtVars
  BY <1>1, <1>7 DEF debtVars, CountOf, Reports
<1>8. QED
  BY <1>2, <1>3, <1>4, <1>5, <1>6, <1>7, Zenon DEF DebtNext

-----------------------------------------------------------------------------
LEMMA FilingInit == DebtInit => Filing
<1> SUFFICES ASSUME DebtInit PROVE Filing
  OBVIOUS
<1>1. NoExport \in Export /\ NoExport.pc = "idle"
  BY DEF Export, NoExport
<1>2. export \in [Exports -> Export] /\ \A e \in Exports : export[e].pc = "idle"
  BY <1>1 DEF DebtInit
<1>3. ExportedIsFiled
  BY DEF DebtInit, ExportedIsFiled
<1>4. QED
  BY <1>2, <1>3 DEF Filing, ExportPhase

LEMMA FilingStep ==
    DebtsTyped /\ Filing /\ [DebtNext]_debtVars => Filing'
<1> SUFFICES ASSUME DebtsTyped, Filing, [DebtNext]_debtVars
             PROVE  Filing'
  OBVIOUS
<1>0. DOMAIN paDebts \subseteq Nat /\ Outstanding \subseteq Nat
  BY DEF DebtsTyped, Outstanding
<1>1. ASSUME NEW new \in SUBSET Debts, StartRound(new)
      PROVE  Filing'
  BY <1>1 DEF StartRound, Filing, ExportPhase, ExportedIsFiled, fileVars
<1>2. ASSUME NEW t \in TokensOf(Debts), InsertDebt(t)
      PROVE  Filing'
  <2>1. DOMAIN paDebts' = DOMAIN paDebts \cup {Len(paDebts) + 1}
    BY <1>2 DEF InsertDebt, DebtsTyped
  <2>2. ASSUME NEW e \in Exports PROVE ExportPhase(e)'
    BY <1>2, <2>1 DEF InsertDebt, Filing, ExportPhase, fileVars
  <2>3. QED
    BY <1>2, <2>2 DEF InsertDebt, Filing, ExportedIsFiled, fileVars
<1>3. CASE ReportFails \/ Report
  BY <1>3 DEF ReportFails, Report, Filing, ExportPhase, ExportedIsFiled, fileVars
<1>4. ASSUME NEW e \in Exports, SumRows(e)
      PROVE  Filing'
  BY <1>0, <1>4 DEF SumRows, ExportMoves, Outstanding, Filing, ExportPhase,
                    ExportedIsFiled, Export, fileVars
<1>5. ASSUME NEW e \in Exports, ReadIds(e)
      PROVE  Filing'
  <2> DEFINE read == [export[e] EXCEPT !.pc = "writing", !.ids = Outstanding]
  <2>1. /\ export[e].pc = "summed"
        /\ \/ export' = [export EXCEPT ![e] = NoExport]
           \/ export' = [export EXCEPT ![e] = read]
        /\ UNCHANGED <<paDebts, exported, newest, filed, atRisk>>
    BY <1>5, Zenon DEF ReadIds, ExportMoves, fileVars
  <2>2. NoExport \in Export /\ NoExport.pc = "idle"
    BY DEF NoExport, Export
  <2>3. /\ read \in Export /\ read.pc = "writing"
        /\ read.ids = Outstanding /\ read.rows = export[e].rows
    BY <1>0, Zenon DEF Filing, Export
  <2>4. Outstanding \subseteq export[e].rows \cup atRisk
    BY <2>1 DEF Outstanding, Filing, ExportPhase
  <2>5. export' \in [Exports -> Export]
    BY <2>1, <2>2, <2>3 DEF Filing
  <2>6. ASSUME NEW x \in Exports PROVE ExportPhase(x)'
    <3> HIDE DEF read
    <3>1. CASE x = e
      BY <2>1, <2>2, <2>3, <2>4, <3>1 DEF Filing, ExportPhase
    <3>2. CASE x # e
      BY <2>1, <3>2 DEF Filing, ExportPhase
    <3>3. QED
      BY <3>1, <3>2
  <2>7. QED
    BY <2>1, <2>5, <2>6 DEF Filing, ExportedIsFiled
<1>6. ASSUME NEW e \in Exports, WriteFile(e)
      PROVE  Filing'
  BY <1>6 DEF WriteFile, ExportMoves, Filing, ExportPhase, ExportedIsFiled, Export
<1>7. ASSUME NEW e \in Exports, MarkExported(e)
      PROVE  Filing'
  BY <1>7 DEF MarkExported, ExportMoves, Filing, ExportPhase, ExportedIsFiled,
              Export, NoExport, fileVars
<1>8. CASE UNCHANGED debtVars
  BY <1>8 DEF debtVars, fileVars, Filing, ExportPhase, ExportedIsFiled
<1>9. QED
  BY <1>1, <1>2, <1>3, <1>4, <1>5, <1>6, <1>7, <1>8 DEF DebtNext

-----------------------------------------------------------------------------
LEMMA DebtsInvariant == DebtSpec => [](DebtsTyped /\ Counted /\ Filing)
<1>1. DebtInit => DebtsTyped /\ Counted /\ Filing
  BY DebtsTypedInit, CountedInit, FilingInit
<1>2. DebtsTyped /\ Counted /\ Filing /\ [DebtNext]_debtVars
          => (DebtsTyped /\ Counted /\ Filing)'
  BY DebtsTypedStep, CountedStep, FilingStep
<1>3. QED
  BY <1>1, <1>2, PTL DEF DebtSpec

\* A debt marked by MarkDebtsReported has reached PA, whatever reports failed
\* before and although the statement ignores the ids it is given.
THEOREM MarkedHasReachedPA == DebtSpec => []ReportedHasReachedPA
<1>1. DebtsTyped /\ Counted => ReportedHasReachedPA
  BY DEF DebtsTyped, Counted, CountOf, ReportedHasReachedPA
<1>2. QED
  BY <1>1, DebtsInvariant, PTL

\* PA counts a debt at most once more than reports failed (/debts has no
\* transaction around its rows, and the loop reports again).
THEOREM AtMostOncePerFailure == DebtSpec => []ReportedOncePerFailure
<1>1. Counted => ReportedOncePerFailure
  BY DEF Counted, CountOf, ReportedOncePerFailure
<1>2. QED
  BY <1>1, DebtsInvariant, PTL

\* A row marked by MarkDebtsExported is in a restitution file or was lost in
\* one of the two named ways, for any number of exports at a time.
THEOREM MarkedIsFiled == DebtSpec => []ExportedIsFiled
<1>1. Filing => ExportedIsFiled
  BY DEF Filing
<1>2. QED
  BY <1>1, DebtsInvariant, PTL

-----------------------------------------------------------------------------
\* Taps.

\* Where a tap that was accepted is.
Known(k) ==
    \/ row[k] # "none" \/ k \in stopped \/ k \in Range(byType)
    \/ \E b \in batches : k \in Range(b.taps)

\* The inductive invariant of TapFlow: a tap that is not yet processed was not
\* charged, and the rows a batch counts as inserted are in the table, so that
\* a batch that is forwarded leaves nothing behind.
TapsKept ==
    /\ row \in [TapIds -> {"none", "new", "done"}]
    /\ charges \in [TapIds -> 0..1]
    /\ \A k \in TapIds : row[k] # "done" => charges[k] = 0
    /\ gate \in [TapIds -> {"away", "validating", "denied", "sending",
                            "accepted", "open", "unheard"}]
    /\ byType \in Seq(TapIds)
    /\ batches \subseteq [taps : Seq(TapIds), inserted : 0..BatchSize]
    /\ \A b \in batches :
          /\ Len(b.taps) = BatchSize
          /\ \A i \in 1..b.inserted : row[b.taps[i]] # "none"
    /\ \A k \in TapIds : gate[k] \in {"accepted", "open", "unheard"} => Known(k)

\* The elements of the sequences the batcher builds.
LEMMA RangeOps ==
    ASSUME NEW S, NEW s \in Seq(S)
    PROVE  /\ \A e : Range(Append(s, e)) = Range(s) \cup {e}
           /\ \A u \in Seq(S) : Range(s \o u) = Range(s) \cup Range(u)
           /\ \A n \in 0..Len(s) :
                 Range(s) \subseteq Range(SubSeq(s, 1, n)) \cup Range(SubSeq(s, n + 1, Len(s)))
<1>1. ASSUME NEW e PROVE Range(Append(s, e)) = Range(s) \cup {e}
  <2>1. /\ DOMAIN Append(s, e) = 1..(Len(s) + 1) /\ DOMAIN s = 1..Len(s) /\ Len(s) \in Nat
        /\ Append(s, e)[Len(s) + 1] = e
        /\ \A i \in 1..Len(s) : Append(s, e)[i] = s[i]
    OBVIOUS
  <2>. QED
    BY <2>1 DEF Range
<1>2. ASSUME NEW u \in Seq(S) PROVE Range(s \o u) = Range(s) \cup Range(u)
  <2>1. /\ DOMAIN (s \o u) = 1..(Len(s) + Len(u)) /\ DOMAIN s = 1..Len(s)
        /\ DOMAIN u = 1..Len(u) /\ Len(s) \in Nat /\ Len(u) \in Nat
        /\ \A i \in 1..Len(s) : (s \o u)[i] = s[i]
        /\ \A i \in 1..Len(u) : (s \o u)[Len(s) + i] = u[i]
    OBVIOUS
  <2>2. \A i \in 1..(Len(s) + Len(u)) : i \in 1..Len(s) \/ i - Len(s) \in 1..Len(u)
    BY <2>1
  <2>3. \A i \in 1..Len(u) : Len(s) + i \in 1..(Len(s) + Len(u))
    BY <2>1
  <2>4. \A i \in 1..(Len(s) + Len(u)) : i = Len(s) + (i - Len(s))
    BY <2>1
  <2>5. Range(s \o u) \subseteq Range(s) \cup Range(u)
    BY <2>1, <2>2, <2>4 DEF Range
  <2>6. Range(s) \subseteq Range(s \o u)
    <3>1. 1..Len(s) \subseteq 1..(Len(s) + Len(u))
      BY <2>1
    <3>. QED
      BY <2>1, <3>1 DEF Range
  <2>7. Range(u) \subseteq Range(s \o u)
    BY <2>1, <2>3, Zenon DEF Range
  <2>. QED
    BY <2>5, <2>6, <2>7
<1>3. ASSUME NEW n \in 0..Len(s), NEW i \in DOMAIN s
      PROVE  s[i] \in Range(SubSeq(s, 1, n)) \cup Range(SubSeq(s, n + 1, Len(s)))
  <2>1. Len(s) \in Nat /\ i \in 1..Len(s)
    OBVIOUS
  <2>2. CASE i <= n
    <3>1. DOMAIN SubSeq(s, 1, n) = 1..n /\ SubSeq(s, 1, n)[i] = s[i]
      BY <2>1, <2>2
    <3>. QED
      BY <2>1, <2>2, <3>1 DEF Range
  <2>3. CASE i > n
    <3>. DEFINE rest == SubSeq(s, n + 1, Len(s))
    <3>1. /\ DOMAIN rest = 1..(Len(s) - n) /\ i - n \in 1..(Len(s) - n)
          /\ rest[i - n] = s[i]
      BY <2>1, <2>3
    <3>. QED
      BY <3>1 DEF Range
  <2>. QED
    BY <2>1, <2>2, <2>3
<1>4. ASSUME NEW n \in 0..Len(s)
      PROVE  Range(s) \subseteq Range(SubSeq(s, 1, n)) \cup Range(SubSeq(s, n + 1, Len(s)))
  BY <1>3 DEF Range
<1>. QED
  BY <1>1, <1>2, <1>4

\* Nobody has tapped at the start.
LEMMA TapsInitial == TapInit => TapsKept
  BY DEF TapInit, TapsKept

\* A gate that moves, except to "accepted", disturbs nothing.
LEMMA TapsGate ==
    ASSUME TapsKept, NEW k, NEW from, NEW to, GateMoves(k, from, to),
           to \in {"validating", "denied", "sending", "open", "unheard"},
           to \in {"open", "unheard"} => from = "accepted",
           UNCHANGED <<byType, batches, row, charges, stopped>>
    PROVE  TapsKept'
<1>1. gate[k] = from /\ gate' = [gate EXCEPT ![k] = to]
  BY DEF GateMoves
<1>2. gate' \in [TapIds -> {"away", "validating", "denied", "sending",
                            "accepted", "open", "unheard"}]
  BY <1>1, Zenon DEF TapsKept
<1>3. \A j \in TapIds : gate'[j] \in {"accepted", "open", "unheard"} =>
                            gate[j] \in {"accepted", "open", "unheard"}
  BY <1>1 DEF TapsKept
<1>4. \A j : Known(j) => Known(j)'
  BY DEF Known
<1>. QED
  BY <1>2, <1>3, <1>4 DEF TapsKept

\* An accepted tap is in the buffer or in the new batch.
LEMMA TapsAccept ==
    ASSUME TapsKept, NEW k \in TapIds, Accept(k)
    PROVE  TapsKept'
<1>. DEFINE cur == Append(byType, k)
<1>1. /\ gate' = [gate EXCEPT ![k] = "accepted"]
      /\ UNCHANGED <<row, charges, stopped>>
  BY DEF Accept, GateMoves
<1>2. gate' \in [TapIds -> {"away", "validating", "denied", "sending",
                            "accepted", "open", "unheard"}]
  BY <1>1 DEF TapsKept
<1>3. \A j \in TapIds : gate'[j] \in {"accepted", "open", "unheard"} =>
                            j = k \/ gate[j] \in {"accepted", "open", "unheard"}
  BY <1>1 DEF TapsKept
<1>4. /\ cur \in Seq(TapIds) /\ Len(cur) \in Nat
      /\ k \in Range(cur) /\ Range(byType) \subseteq Range(cur)
  BY RangeOps DEF TapsKept
<1>. HIDE DEF cur
<1>5. CASE Len(cur) < BatchSize
  <2>1. byType' = cur /\ batches' = batches
    BY <1>5 DEF Accept, Add, cur
  <2>2. \A j : j = k \/ Known(j) => Known(j)'
    BY <1>1, <1>4, <2>1 DEF Known
  <2>. QED
    BY <1>1, <1>2, <1>3, <1>4, <2>1, <2>2 DEF TapsKept
<1>6. CASE ~(Len(cur) < BatchSize)
  <2>. DEFINE first == SubSeq(cur, 1, BatchSize)
              rest == SubSeq(cur, BatchSize + 1, Len(cur))
              new == [taps |-> first, inserted |-> 0]
  <2>1. byType' = rest /\ batches' = batches \cup {new}
    BY <1>6, Zenon DEF Accept, Add, cur
  <2>2. BatchSize \in Nat /\ BatchSize \in 0..Len(cur)
    BY <1>4, <1>6, TapAssumption
  <2>3. first \in Seq(TapIds) /\ Len(first) = BatchSize /\ rest \in Seq(TapIds)
    BY <1>4, <2>2
  <2>4. Range(cur) \subseteq Range(first) \cup Range(rest)
    BY <1>4, <2>2, RangeOps
  <2>. HIDE DEF first, rest
  <2>5. /\ new \in [taps : Seq(TapIds), inserted : 0..BatchSize]
        /\ new.taps = first /\ new.inserted = 0
    BY <2>2, <2>3
  <2>. HIDE DEF new
  <2>6. \A j : j \in Range(cur) => Known(j)'
    BY <2>1, <2>4, <2>5 DEF Known
  <2>7. \A j : j = k \/ Known(j) => Known(j)'
    BY <1>1, <1>4, <2>1, <2>6 DEF Known
  <2>8. batches' \subseteq [taps : Seq(TapIds), inserted : 0..BatchSize]
    BY <2>1, <2>5 DEF TapsKept
  <2>9. \A b \in batches' : /\ Len(b.taps) = BatchSize
                            /\ \A i \in 1..b.inserted : row'[b.taps[i]] # "none"
    <3>1. row' = row /\ 1..0 = {}
      BY <1>1
    <3>2. \A b \in batches : /\ Len(b.taps) = BatchSize
                             /\ \A i \in 1..b.inserted : row[b.taps[i]] # "none"
      BY DEF TapsKept
    <3>3. Len(new.taps) = BatchSize /\ \A i \in 1..new.inserted : row[new.taps[i]] # "none"
      BY <2>3, <2>5, <3>1, Zenon
    <3>. QED
      BY <2>1, <3>1, <3>2, <3>3, Zenon
  <2>. QED
    BY <1>1, <1>2, <1>3, <2>1, <2>3, <2>7, <2>8, <2>9 DEF TapsKept
<1>. QED
  BY <1>5, <1>6

\* A row is inserted once, and never changes back.
LEMMA TapsInsert ==
    ASSUME TapsKept, NEW b \in batches, InsertRow(b)
    PROVE  TapsKept'
<1>. DEFINE k == b.taps[b.inserted + 1]
            b2 == [b EXCEPT !.inserted = b.inserted + 1]
<1>1. /\ b.inserted < BatchSize /\ UNCHANGED <<gate, byType, charges, stopped>>
      /\ row' = IF row[k] = "none" THEN [row EXCEPT ![k] = "new"] ELSE row
      /\ batches' = (batches \ {b}) \cup {b2}
  BY DEF InsertRow, Insert
<1>2. b \in [taps : Seq(TapIds), inserted : 0..BatchSize] /\ Len(b.taps) = BatchSize
  BY DEF TapsKept
<1>3. b.inserted + 1 \in 1..BatchSize
  BY <1>1, <1>2, TapAssumption
<1>4. k \in TapIds
  BY <1>2, <1>3
<1>5. /\ b2 \in [taps : Seq(TapIds), inserted : 0..BatchSize]
      /\ b2.taps = b.taps /\ b2.inserted = b.inserted + 1
  BY <1>2, <1>3
<1>6. /\ row' \in [TapIds -> {"none", "new", "done"}] /\ row'[k] # "none"
      /\ \A j \in TapIds : row[j] # "none" => row'[j] = row[j]
      /\ \A j \in TapIds : row'[j] # "done" => row[j] # "done"
  BY <1>1, <1>4 DEF TapsKept
<1>. HIDE DEF b2
<1>7. \A i \in 1..b2.inserted : row'[b2.taps[i]] # "none"
  <2>1. SUFFICES ASSUME NEW i \in 1..(b.inserted + 1) PROVE row'[b.taps[i]] # "none"
    BY <1>5
  <2>2. CASE i = b.inserted + 1
    BY <1>6, <2>2
  <2>3. CASE i # b.inserted + 1
    <3>1. i \in 1..b.inserted /\ i \in 1..BatchSize
      BY <1>2, <1>3, <2>3
    <3>2. b.taps[i] \in TapIds /\ row[b.taps[i]] # "none"
      BY <1>2, <3>1 DEF TapsKept
    <3>. QED
      BY <1>6, <3>2
  <2>. QED
    BY <2>2, <2>3
<1>8. \A o \in batches : \A i \in 1..o.inserted : row'[o.taps[i]] # "none"
  <2>1. SUFFICES ASSUME NEW o \in batches, NEW i \in 1..o.inserted
                 PROVE  row'[o.taps[i]] # "none"
    OBVIOUS
  <2>2. /\ o.taps \in Seq(TapIds) /\ Len(o.taps) = BatchSize
        /\ o.inserted \in 0..BatchSize /\ row[o.taps[i]] # "none"
    BY DEF TapsKept
  <2>3. o.taps[i] \in TapIds
    BY <2>2, TapAssumption
  <2>. QED
    BY <1>6, <2>2, <2>3
<1>9. \A j \in TapIds : Known(j) => Known(j)'
  <2>1. \A o \in batches : \E o2 \in batches' : o2.taps = o.taps
    BY <1>1, <1>5
  <2>. QED
    BY <1>1, <1>6, <2>1 DEF Known
<1>. HIDE DEF k
<1>10. batches' \subseteq [taps : Seq(TapIds), inserted : 0..BatchSize]
  BY <1>1, <1>5 DEF TapsKept
<1>11. \A o \in batches' : /\ Len(o.taps) = BatchSize
                           /\ \A i \in 1..o.inserted : row'[o.taps[i]] # "none"
  BY <1>1, <1>2, <1>5, <1>7, <1>8 DEF TapsKept
<1>. QED
  BY <1>1, <1>6, <1>9, <1>10, <1>11 DEF TapsKept

\* A batch leaves when its rows are in the table, goes back to the buffer, or is
\* lost with the station computer.
LEMMA TapsForward ==
    ASSUME TapsKept,
           \/ \E b \in batches : Forwarded(b) \/ ForwardFails(b)
           \/ StationRestarts
    PROVE  TapsKept'
<1>1. UNCHANGED <<gate, row, charges>>
  BY DEF Forwarded, ForwardFails, StationRestarts
<1>2. ASSUME NEW b \in batches, Forwarded(b)
      PROVE  TapsKept'
  <2>1. /\ b.inserted = BatchSize /\ batches' = batches \ {b}
        /\ UNCHANGED <<byType, stopped>>
    BY <1>2 DEF Forwarded
  <2>2. \A j \in Range(b.taps) : row[j] # "none"
    BY <2>1 DEF Range, TapsKept
  <2>3. \A j : Known(j) => Known(j)'
    BY <1>1, <2>1, <2>2 DEF Known
  <2>. QED
    BY <1>1, <2>1, <2>3 DEF TapsKept
<1>3. ASSUME NEW b \in batches, ForwardFails(b)
      PROVE  TapsKept'
  <2>1. /\ byType' = b.taps \o byType /\ batches' = batches \ {b}
        /\ UNCHANGED stopped
    BY <1>3 DEF ForwardFails, PutBack
  <2>2. byType' \in Seq(TapIds) /\ Range(byType') = Range(b.taps) \cup Range(byType)
    BY <2>1, RangeOps DEF TapsKept
  <2>3. \A j : Known(j) => Known(j)'
    BY <1>1, <2>1, <2>2 DEF Known
  <2>. QED
    BY <1>1, <2>1, <2>2, <2>3 DEF TapsKept
<1>4. CASE StationRestarts
  <2>1. /\ byType' = <<>> /\ batches' = {}
        /\ stopped' = stopped \cup Range(byType) \cup UNION {Range(b.taps) : b \in batches}
    BY <1>4 DEF StationRestarts
  <2>2. \A j : Known(j) => Known(j)'
    BY <1>1, <2>1 DEF Known
  <2>. QED
    BY <1>1, <2>1, <2>2 DEF TapsKept
<1>. QED
  BY <1>2, <1>3, <1>4

\* Journeys are made of unprocessed taps, which were not charged.
LEMMA TapsJourneys ==
    ASSUME TapsKept, NEW c \in Cards, Journeys(c)
    PROVE  TapsKept'
<1>. DEFINE taps == Unprocessed(c)
<1>1. /\ row' = [k \in TapIds |-> IF k \in Paired(taps) THEN "done" ELSE row[k]]
      /\ charges' = [k \in TapIds |->
             IF k \in Priced(taps) THEN charges[k] + 1 ELSE charges[k]]
      /\ UNCHANGED <<gate, byType, batches, stopped>>
  BY DEF Journeys
<1>2. Priced(taps) \subseteq Paired(taps) /\ Paired(taps) \subseteq taps
  BY DEF Priced, Paired
<1>3. \A k \in taps : k \in TapIds /\ row[k] = "new"
  BY DEF Unprocessed
<1>. HIDE DEF taps
<1>4. \A k \in TapIds : row[k] # "none" => row'[k] # "none"
  BY <1>1
<1>5. row' \in [TapIds -> {"none", "new", "done"}]
  BY <1>1 DEF TapsKept
<1>6. charges' \in [TapIds -> 0..1]
  BY <1>1, <1>2, <1>3 DEF TapsKept
<1>7. \A k \in TapIds : row'[k] # "done" => charges'[k] = 0
  BY <1>1, <1>2, <1>3 DEF TapsKept
<1>8. \A k \in TapIds : Known(k) => Known(k)'
  BY <1>1, <1>4 DEF Known
<1>9. \A b \in batches : \A i \in 1..b.inserted : row'[b.taps[i]] # "none"
  <2>1. SUFFICES ASSUME NEW b \in batches, NEW i \in 1..b.inserted
                 PROVE  row'[b.taps[i]] # "none"
    OBVIOUS
  <2>2. /\ b.taps \in Seq(TapIds) /\ Len(b.taps) = BatchSize
        /\ b.inserted \in 0..BatchSize /\ row[b.taps[i]] # "none"
    BY DEF TapsKept
  <2>3. b.taps[i] \in TapIds
    BY <2>2, TapAssumption
  <2>. QED
    BY <1>4, <2>2, <2>3
<1>. QED
  BY <1>1, <1>5, <1>6, <1>7, <1>8, <1>9 DEF TapsKept

\* Every step keeps the taps.
LEMMA TapsStep ==
    ASSUME TapsKept, [TapNext]_tapVars
    PROVE  TapsKept'
<1>1. ASSUME NEW c \in Cards, Tap(c) PROVE TapsKept'
  BY <1>1, TapsGate DEF Tap
<1>2. ASSUME NEW c \in Cards, Journeys(c) PROVE TapsKept'
  BY <1>2, TapsJourneys
<1>3. ASSUME NEW k \in TapIds, Validated(k) \/ Denied(k) \/ Heard(k) PROVE TapsKept'
  BY <1>3, TapsGate DEF Validated, Denied, Heard
<1>4. ASSUME NEW k \in TapIds, Accept(k) PROVE TapsKept'
  BY <1>4, TapsAccept
<1>5. ASSUME NEW b \in batches, InsertRow(b) PROVE TapsKept'
  BY <1>5, TapsInsert
<1>6. CASE (\E b \in batches : Forwarded(b) \/ ForwardFails(b)) \/ StationRestarts
  BY <1>6, TapsForward
<1>7. CASE UNCHANGED tapVars
  BY <1>7 DEF tapVars, TapsKept, Known
<1>. QED
  BY <1>1, <1>2, <1>3, <1>4, <1>5, <1>6, <1>7 DEF TapNext

\* What becomes of the taps, in every reachable state.
LEMMA TapsInvariant == TapSpec => []TapsKept
  BY TapsInitial, TapsStep, PTL DEF TapSpec

\* A tap that opened the gate is in the buffer, in a batch or in the back
\* office, whatever calls failed, unless the station computer stopped.
THEOREM NoTapLost == TapSpec => []OpenedNotLost
<1>1. TapsKept => OpenedNotLost
  BY DEF TapsKept, OpenedNotLost, Known
<1>. QED
  BY <1>1, TapsInvariant, PTL

\* No tap is charged twice, however often its batch is sent.
THEOREM NoTapChargedTwice == TapSpec => []ChargedOnce
<1>1. TapsKept => ChargedOnce
  BY DEF TapsKept, ChargedOnce
<1>. QED
  BY <1>1, TapsInvariant, PTL

-----------------------------------------------------------------------------
Ticket == [station : Stations, train : Int, created : Nat \ {0}, active : BOOLEAN]

\* Every active ticket is in a manifest or was outside the window of a round.
Covered == \A t \in tickets : t.active => Listed(t) \/ t \in ahead

\* The inductive invariant of the manifest loop.  A round that stores nothing
\* because a manifest of this second exists is the delicate one: then that
\* manifest is not older than the round, which is possible only when every
\* active ticket is covered already.
Rounds ==
    /\ clock \in Nat \ {0} /\ lastManifestTime \in Nat
    /\ tickets \subseteq Ticket
    /\ generator \in [at : {"resting", "found", "listed", "stored"},
                      began : 0..clock, list : SUBSET Ticket]
    /\ manifests \subseteq [generated : 1..clock, list : SUBSET Ticket]
    /\ lastManifestTime # 0 \/ generator.at = "stored" => Covered
    /\ generator.at = "listed" =>
          \A t \in tickets : t.active => t \in generator.list \/ t \in ahead
    /\ \/ Covered
       \/ \A m \in manifests :
             /\ m.generated <= generator.began
             /\ generator.at \in {"found", "listed"} => m.generated < generator.began

\* The inductive invariant of the distributor and the stations: last, latest
\* and what the stations got are times of manifests, and a distributor that
\* holds something holds nothing older than what a station has.
Polls ==
    /\ last \in Nat /\ latest \in Nat /\ received \in [Stations -> Nat]
    /\ held = {} => last = 0
    /\ last = 0 \/ \E m \in manifests : m.generated = last
    /\ latest = 0 \/ \E m \in manifests : m.generated = latest
    /\ \A s \in Stations :
          /\ received[s] = 0 \/ \E m \in manifests : m.generated = received[s]
          /\ held # {} => received[s] <= latest
    /\ NonePassedBy

\* SeedTickets makes tickets.
LEMMA SeededTickets ==
    ASSUME NEW now \in Nat \ {0}, NEW seed \in Seeded(now)
    PROVE  seed \subseteq Ticket
<1>1. \A s \in Stations :
         [station |-> s, train |-> now + 1, created |-> now, active |-> TRUE] \in Ticket
  BY DEF Ticket
<1>2. CASE seed = {}
  BY <1>2
<1>3. CASE seed = {[station |-> s, train |-> now + 1, created |-> now, active |-> TRUE] :
                      s \in Stations}
  BY <1>1, <1>3
<1>. QED
  BY <1>2, <1>3 DEF Seeded

\* Nothing is stored or held at the start.
LEMMA TicketsInitial == TicketInit => Rounds /\ Polls
<1>. SUFFICES ASSUME TicketInit PROVE Rounds /\ Polls
  OBVIOUS
<1>1. tickets \subseteq Ticket
  BY SeededTickets DEF TicketInit
<1>2. Rounds
  BY <1>1 DEF TicketInit, Rounds, Resting, Ticket
<1>3. Polls
  BY DEF TicketInit, Polls, NonePassedBy
<1>. QED
  BY <1>2, <1>3

\* A clock tick.
LEMMA RoundsTick == Rounds /\ TickClock => Rounds'
<1>. SUFFICES ASSUME Rounds, TickClock PROVE Rounds'
  OBVIOUS
<1>1. clock \in Nat \ {0} /\ clock' = clock + 1
  BY DEF Rounds, TickClock
<1>2. /\ UNCHANGED <<tickets, lastManifestTime, generator, manifests, ahead>>
      /\ Covered' = Covered
  BY DEF TickClock, csVars, Covered, Listed
<1>. QED
  BY <1>1, <1>2 DEF Rounds

\* Sold tickets are inactive.
LEMMA RoundsPost ==
    ASSUME Rounds, NEW s \in Stations, NEW wait \in 1..(Window + 1),
           PostTicket(s, clock + wait)
    PROVE  Rounds'
<1>. DEFINE t == [station |-> s, train |-> clock + wait, created |-> clock, active |-> FALSE]
<1>1. t \in Ticket
  BY TicketAssumption DEF Rounds, Ticket
<1>2. /\ tickets' = tickets \cup {t}
      /\ UNCHANGED <<clock, lastManifestTime, generator, manifests, ahead>>
  BY DEF PostTicket
<1>3. ~t.active
  OBVIOUS
<1>. HIDE DEF t
<1>4. Covered' <=> Covered
  BY <1>2, <1>3 DEF Covered, Listed
<1>. QED
  BY <1>1, <1>2, <1>3, <1>4 DEF Rounds

\* The manifest loop.
LEMMA RoundsLoop ==
    ASSUME Rounds, FindNew \/ ListActive \/ StoreManifest \/ StoreFailed \/ Advance
    PROVE  Rounds'
<1>1. CASE FindNew
  <2>1. /\ generator.began < clock
        /\ UNCHANGED <<clock, tickets, lastManifestTime, manifests, ahead>>
    BY <1>1, ZenonT(40) DEF FindNew
  <2>2. PICK to \in {"resting", "found"} :
            generator' = [generator EXCEPT !.began = clock, !.at = to]
    BY <1>1, Zenon DEF FindNew
  <2>3. Covered' = Covered
    BY <2>1 DEF Covered, Listed
  <2>. DEFINE turn == [generator EXCEPT !.began = clock]
  <2>7. /\ turn.at = generator.at /\ turn.began = clock
        /\ turn \in [at : {"resting", "found", "listed", "stored"},
                     began : 0..clock, list : SUBSET Ticket]
        /\ generator' = [turn EXCEPT !.at = to]
    BY <2>2 DEF Rounds
  <2>. HIDE DEF turn
  <2>4. /\ generator'.at = to /\ generator'.began = clock
        /\ generator' \in [at : {"resting", "found", "listed", "stored"},
                           began : 0..clock, list : SUBSET Ticket]
    BY <2>7
  <2>5. \A m \in manifests : m.generated <= clock
    BY DEF Rounds
  <2>6. Covered \/ \A m \in manifests : m.generated < clock
    BY <2>1 DEF Rounds
  <2>. QED
    BY <2>1, <2>3, <2>4, <2>5, <2>6 DEF Rounds
<1>2. CASE ListActive
  <2>1. UNCHANGED <<clock, tickets, lastManifestTime, manifests>>
    BY <1>2 DEF ListActive
  <2>2. CASE /\ generator' = [generator EXCEPT !.at = "listed",
                    !.list = {t \in tickets : t.active /\ InWindow(t)}]
             /\ ahead' = ahead \cup {t \in tickets : ~InWindow(t)}
    <3>. DEFINE list == {t \in tickets : t.active /\ InWindow(t)}
    <3>1. list \in SUBSET Ticket
      BY DEF Rounds
    <3>2. \A t \in tickets : t.active => t \in list \/ t \in ahead'
      BY <2>2
    <3>3. generator' = [generator EXCEPT !.at = "listed", !.list = list]
      BY <2>2
    <3>4. Covered => Covered'
      BY <2>1, <2>2 DEF Covered, Listed
    <3>. HIDE DEF list
    <3>5. /\ generator'.at = "listed" /\ generator'.began = generator.began
          /\ generator'.list = list
          /\ generator' \in [at : {"resting", "found", "listed", "stored"},
                             began : 0..clock, list : SUBSET Ticket]
      BY <3>1, <3>3, Zenon DEF Rounds
    <3>6. generator.at = "found"
      BY <1>2 DEF ListActive
    <3>. QED
      BY <2>1, <3>2, <3>4, <3>5, <3>6 DEF Rounds
  <2>3. CASE generator' = [generator EXCEPT !.at = "resting"] /\ UNCHANGED ahead
    <3>1. Covered' = Covered
      BY <2>1, <2>3 DEF Covered, Listed
    <3>2. /\ generator'.at = "resting" /\ generator'.began = generator.began
          /\ generator' \in [at : {"resting", "found", "listed", "stored"},
                             began : 0..clock, list : SUBSET Ticket]
      BY <2>3 DEF Rounds
    <3>. QED
      BY <2>1, <3>1, <3>2 DEF Rounds
  <2>. QED
    BY <1>2, <2>2, <2>3 DEF ListActive
<1>3. CASE StoreManifest
  <2>1. /\ generator.at = "listed"
        /\ UNCHANGED <<clock, tickets, lastManifestTime, ahead>>
        /\ generator' = [generator EXCEPT !.at = "stored"]
    BY <1>3 DEF StoreManifest
  <2>2. /\ generator'.at = "stored" /\ generator'.began = generator.began
        /\ generator' \in [at : {"resting", "found", "listed", "stored"},
                           began : 0..clock, list : SUBSET Ticket]
    BY <2>1 DEF Rounds
  <2>3. CASE generator.list = {} \/ \E m \in manifests : m.generated = clock
    <3>1. manifests' = manifests
      BY <1>3, <2>3 DEF StoreManifest
    <3>2. Covered' = Covered
      BY <2>1, <3>1 DEF Covered, Listed
    <3>3. CASE generator.list = {}
      <4>1. Covered
        BY <2>1, <3>3 DEF Rounds, Covered
      <4>. QED
        BY <2>1, <2>2, <3>1, <3>2, <4>1 DEF Rounds
    <3>4. CASE \E m \in manifests : m.generated = clock
      <4>1. generator.began <= clock /\ generator.began \in Nat /\ clock \in Nat
        BY DEF Rounds
      <4>2. Covered
        BY <2>1, <3>4, <4>1 DEF Rounds
      <4>. QED
        BY <2>1, <2>2, <3>1, <3>2, <4>2 DEF Rounds
    <3>. QED
      BY <2>3, <3>3, <3>4
  <2>4. CASE ~(generator.list = {} \/ \E m \in manifests : m.generated = clock)
    <3>. DEFINE new == [generated |-> clock, list |-> generator.list]
    <3>1. manifests' = manifests \cup {new}
      BY <1>3, <2>4 DEF StoreManifest
    <3>2. new \in [generated : 1..clock, list : SUBSET Ticket] /\ new.list = generator.list
      BY DEF Rounds
    <3>. HIDE DEF new
    <3>3. Covered'
      BY <2>1, <3>1, <3>2 DEF Covered, Listed, Rounds
    <3>. QED
      BY <2>1, <2>2, <3>1, <3>2, <3>3 DEF Rounds
  <2>. QED
    BY <2>3, <2>4
<1>4. CASE StoreFailed
  <2>1. /\ UNCHANGED <<clock, tickets, lastManifestTime, manifests, ahead>>
        /\ generator' = [Resting EXCEPT !.began = generator.began]
    BY <1>4 DEF StoreFailed
  <2>2. /\ generator'.at = "resting" /\ generator'.began = generator.began
        /\ generator' \in [at : {"resting", "found", "listed", "stored"},
                           began : 0..clock, list : SUBSET Ticket]
    BY <2>1 DEF Rounds, Resting
  <2>3. Covered' = Covered
    BY <2>1 DEF Covered, Listed
  <2>. QED
    BY <2>1, <2>2, <2>3 DEF Rounds
<1>5. CASE Advance
  <2>1. /\ generator.at = "stored" /\ lastManifestTime' = clock
        /\ UNCHANGED <<clock, tickets, manifests, ahead>>
        /\ generator' = [Resting EXCEPT !.began = generator.began]
    BY <1>5 DEF Advance
  <2>2. /\ generator'.at = "resting" /\ generator'.began = generator.began
        /\ generator' \in [at : {"resting", "found", "listed", "stored"},
                           began : 0..clock, list : SUBSET Ticket]
    BY <2>1 DEF Rounds, Resting
  <2>3. Covered' = Covered
    BY <2>1 DEF Covered, Listed
  <2>. QED
    BY <2>1, <2>2, <2>3 DEF Rounds
<1>. QED
  BY <1>1, <1>2, <1>3, <1>4, <1>5

\* A restart of CS, which may add seeded tickets.
LEMMA RoundsRestart == Rounds /\ RestartCS => Rounds'
<1>. SUFFICES ASSUME Rounds, RestartCS PROVE Rounds'
  OBVIOUS
<1>1. PICK seed \in Seeded(clock) : tickets' = tickets \cup seed
  BY DEF RestartCS
<1>2. seed \subseteq Ticket
  BY SeededTickets DEF Rounds
<1>3. /\ lastManifestTime' = 0 /\ UNCHANGED <<clock, manifests>>
      /\ generator' = [Resting EXCEPT !.began = clock]
  BY DEF RestartCS
<1>4. /\ generator'.at = "resting" /\ generator'.began = clock
      /\ generator' \in [at : {"resting", "found", "listed", "stored"},
                         began : 0..clock, list : SUBSET Ticket]
  BY <1>3 DEF Rounds, Resting
<1>5. \A m \in manifests : m.generated <= clock
  BY DEF Rounds
<1>. QED
  BY <1>1, <1>2, <1>3, <1>4, <1>5 DEF Rounds

\* CS only adds manifests, of its own clock and unless it has one of that
\* time, so nothing that was passed by or received loses its manifest.
LEMMA PollsOfCS ==
    ASSUME Rounds, Polls, UNCHANGED <<distributorVars, received>>,
           \/ UNCHANGED manifests
           \/ \E list : /\ manifests' = manifests \cup {[generated |-> clock, list |-> list]}
                        /\ \A m \in manifests : m.generated # clock
    PROVE  Polls'
<1>1. UNCHANGED <<last, held, latest, received>>
  BY DEF distributorVars
<1>2. \A m \in manifests : m \in manifests'
  OBVIOUS
<1>3. \A m \in manifests' : m.generated <= last => m \in manifests
  <2>1. SUFFICES ASSUME NEW m \in manifests', m.generated <= last, m \notin manifests
                 PROVE  FALSE
    OBVIOUS
  <2>2. m.generated = clock /\ \A o \in manifests : o.generated # clock
    BY <2>1
  <2>3. \A o \in manifests : o.generated \in 1..clock
    BY DEF Rounds
  <2>4. /\ last \in Nat /\ clock \in Nat \ {0}
        /\ last = 0 \/ \E o \in manifests : o.generated = last
    BY DEF Polls, Rounds
  <2>5. CASE last = 0
    BY <2>1, <2>2, <2>4, <2>5
  <2>6. CASE \E o \in manifests : o.generated = last
    <3>1. last \in 1..clock /\ last # clock
      BY <2>2, <2>3, <2>6, Zenon
    <3>. QED
      BY <2>1, <2>2, <2>4, <3>1
  <2>. QED
    BY <2>4, <2>5, <2>6, Zenon
<1>4. NonePassedBy'
  BY <1>1, <1>3 DEF Polls, NonePassedBy
<1>. QED
  BY <1>1, <1>2, <1>4 DEF Polls

\* A poll takes the newest of the manifests it gets.
LEMMA PollsPoll ==
    ASSUME Rounds, Polls, NEW failing \in SUBSET Stations, PollManifests(failing)
    PROVE  Polls' /\ UNCHANGED received
<1>. DEFINE new == GetManifestsSince(last)
            times == {m.generated : m \in new}
            files(m) == [generated |-> m.generated, files |-> StationsIn(m) \ failing]
<1>1. /\ new # {} /\ UNCHANGED <<manifests, received>>
      /\ last' = Max(times) /\ latest' = Max({latest} \cup times)
      /\ held' = held \cup {files(m) : m \in new}
  BY DEF PollManifests, csVars, Write
<1>2. \A m : m \in new <=> m \in manifests /\ m.generated > last
  BY DEF GetManifestsSince
<1>3. \A m \in new : files(m) \in held' /\ files(m).generated = m.generated
  BY <1>1, Zenon
<1>. HIDE DEF files
<1>4. times \subseteq 0..clock /\ times # {} /\ clock \in Nat
  <2>1. /\ clock \in Nat /\ \A m \in manifests : m.generated \in 0..clock
    BY DEF Rounds
  <2>. QED
    BY <1>1, <1>2, <2>1
<1>5. latest \in 0..clock
  BY DEF Rounds, Polls
<1>6. last' \in times /\ \A n \in times : last' >= n
  <2>1. \E x \in times : \A n \in times : x >= n
    BY <1>4, HasGreatest, Zenon
  <2>. QED
    BY <1>1, <2>1, Zenon DEF Max
<1>7. latest' \in {latest} \cup times /\ \A n \in {latest} \cup times : latest' >= n
  <2>1. \E x \in {latest} \cup times : \A n \in {latest} \cup times : x >= n
    BY <1>4, <1>5, HasGreatest, Zenon
  <2>. QED
    BY <1>1, <2>1 DEF Max
<1>8. held' # {}
  BY <1>1, <1>3
<1>9. \A n \in times : \E m \in manifests : m.generated = n
  BY <1>2
<1>10. /\ last' \in Nat /\ \E m \in manifests : m.generated = last'
       /\ latest' \in Nat
       /\ latest' = 0 \/ \E m \in manifests : m.generated = latest'
  <2>1. last' \in Nat /\ latest' \in Nat
    BY <1>4, <1>5, <1>6, <1>7
  <2>2. \E m \in manifests : m.generated = last'
    BY <1>6, <1>9, Zenon
  <2>3. latest = 0 \/ \E m \in manifests : m.generated = latest
    BY DEF Polls
  <2>4. CASE latest' = latest
    BY <2>1, <2>2, <2>3, <2>4, Zenon
  <2>5. CASE latest' \in times
    BY <1>9, <2>1, <2>2, <2>5, Zenon
  <2>. QED
    BY <1>7, <2>4, <2>5, Zenon
<1>11. NonePassedBy'
  <2>1. SUFFICES ASSUME NEW m \in manifests, m.generated <= last'
                 PROVE  \E h \in held' : h.generated = m.generated
    BY <1>1 DEF NonePassedBy
  <2>2. CASE m \in new
    BY <1>3, <2>2
  <2>3. CASE m \notin new
    <3>1. m.generated <= last
      BY <1>2, <2>3 DEF Polls, Rounds
    <3>. QED
      BY <1>1, <3>1 DEF Polls, NonePassedBy
  <2>. QED
    BY <2>2, <2>3
<1>12. \A s \in Stations : received[s] <= latest'
  <2>1. SUFFICES ASSUME NEW s \in Stations PROVE received[s] <= latest'
    OBVIOUS
  <2>2. CASE held # {}
    <3>1. received[s] <= latest /\ latest <= latest' /\ received[s] \in Nat
      BY <1>7, <2>2 DEF Polls
    <3>. QED
      BY <1>5, <1>10, <3>1
  <2>3. CASE held = {}
    <3>1. last = 0
      BY <2>3 DEF Polls
    <3>2. received[s] = 0 \/ \E m \in manifests : m.generated = received[s]
      BY DEF Polls
    <3>3. \A m \in manifests : m.generated > last
      BY <3>1 DEF Rounds
    <3>4. received[s] = 0 \/ received[s] \in times
      BY <1>2, <3>2, <3>3, Zenon
    <3>. QED
      BY <1>4, <1>7, <1>10, <3>4
  <2>. QED
    BY <2>2, <2>3
<1>. HIDE DEF new, times
<1>. QED
  BY <1>1, <1>8, <1>10, <1>11, <1>12, Zenon DEF Polls

\* A restarted distributor holds nothing and asks for everything.
LEMMA PollsRestart == Rounds /\ Polls /\ RestartDistributor => Polls' /\ UNCHANGED received
<1> SUFFICES ASSUME Rounds, Polls, RestartDistributor
             PROVE  Polls' /\ UNCHANGED received
  OBVIOUS
<1>1. /\ last' = 0 /\ latest' = 0 /\ held' = {}
      /\ UNCHANGED <<manifests, received>>
  BY DEF RestartDistributor, csVars
<1>2. \A m \in manifests : ~(m.generated <= 0)
  BY DEF Rounds
<1>3. NonePassedBy'
  BY <1>1, <1>2, Zenon DEF NonePassedBy
<1>4. /\ received' \in [Stations -> Nat]
      /\ \A s \in Stations :
            received'[s] = 0 \/ \E m \in manifests' : m.generated = received'[s]
  BY <1>1 DEF Polls
<1>. QED
  BY <1>1, <1>3, <1>4 DEF Polls

\* A station gets the latest manifest of a distributor that holds something.
LEMMA PollsLatest ==
    ASSUME Polls, NEW s \in Stations, PollLatest(s)
    PROVE  Polls' /\ \A o \in Stations : received'[o] >= received[o]
<1>1. /\ held # {} /\ received' = [received EXCEPT ![s] = latest]
      /\ UNCHANGED <<manifests, last, held, latest>>
  BY DEF PollLatest, csVars, distributorVars
<1>2. \A o \in Stations : received'[o] = IF o = s THEN latest ELSE received[o]
  BY <1>1 DEF Polls
<1>3. received' \in [Stations -> Nat]
  BY <1>1 DEF Polls
<1>4. \A o \in Stations : received'[o] >= received[o]
  BY <1>1, <1>2 DEF Polls
<1>5. NonePassedBy'
  BY <1>1 DEF Polls, NonePassedBy
<1>. QED
  BY <1>1, <1>2, <1>3, <1>4, <1>5 DEF Polls

\* Every step preserves the invariant, and no station goes back.
LEMMA TicketsStep ==
    ASSUME Rounds, Polls, [TicketNext]_ticketVars
    PROVE  Rounds' /\ Polls' /\ \A s \in Stations : received'[s] >= received[s]
<1>. DEFINE Forward == \A s \in Stations : received'[s] >= received[s]
<1>0. UNCHANGED received => Forward
  BY DEF Polls
<1>1. CASE TickClock
  BY <1>0, <1>1, RoundsTick, PollsOfCS DEF TickClock, csVars
<1>2. CASE FindNew \/ ListActive \/ StoreFailed \/ Advance
  BY <1>0, <1>2, RoundsLoop, PollsOfCS, Zenon DEF FindNew, ListActive, StoreFailed, Advance
<1>3. CASE StoreManifest
  BY <1>0, <1>3, RoundsLoop, PollsOfCS, ZenonT(40) DEF StoreManifest
<1>4. CASE RestartCS
  BY <1>0, <1>4, RoundsRestart, PollsOfCS DEF RestartCS
<1>5. CASE RestartDistributor
  <2>1. Rounds'
    BY <1>5 DEF RestartDistributor, csVars, Rounds, Covered, Listed
  <2>. QED
    BY <1>0, <1>5, <2>1, PollsRestart
<1>6. ASSUME NEW s \in Stations, PollLatest(s) PROVE Rounds' /\ Polls' /\ Forward
  <2>1. Rounds'
    BY <1>6 DEF PollLatest, csVars, Rounds, Covered, Listed
  <2>. QED
    BY <1>6, <2>1, PollsLatest
<1>7. ASSUME NEW s \in Stations, NEW wait \in 1..(Window + 1), PostTicket(s, clock + wait)
      PROVE  Rounds' /\ Polls' /\ Forward
  BY <1>0, <1>7, RoundsPost, PollsOfCS DEF PostTicket
<1>8. ASSUME NEW failing \in SUBSET Stations, PollManifests(failing)
      PROVE  Rounds' /\ Polls' /\ Forward
  <2>1. Rounds'
    BY <1>8 DEF PollManifests, csVars, Rounds, Covered, Listed
  <2>. QED
    BY <1>0, <1>8, <2>1, PollsPoll
<1>9. CASE UNCHANGED ticketVars
  <2>1. Rounds'
    BY <1>9 DEF ticketVars, csVars, Rounds, Covered, Listed
  <2>. QED
    BY <1>0, <1>9, <2>1, PollsOfCS DEF ticketVars, csVars
<1>. QED
  BY <1>1, <1>2, <1>3, <1>4, <1>5, <1>6, <1>7, <1>8, <1>9 DEF TicketNext

\* What the loops of CS and the distributor maintain.
LEMMA TicketsInvariant == TicketSpec => [](Rounds /\ Polls)
  BY TicketsInitial, TicketsStep, PTL DEF TicketSpec

\* A ticket no later round of CS looks for is in a manifest, unless its train
\* was outside the window of a round.
THEOREM NoTicketForgotten == TicketSpec => []SettledIsListed
<1>1. Rounds => SettledIsListed
  <2>. SUFFICES ASSUME Rounds, NEW t \in tickets, t.active, t.created <= lastManifestTime
                PROVE  Listed(t) \/ t \in ahead
    BY DEF SettledIsListed
  <2>1. t.created \in Nat \ {0} /\ lastManifestTime \in Nat
    BY DEF Rounds, Ticket
  <2>2. Covered
    BY <2>1 DEF Rounds
  <2>. QED
    BY <2>2 DEF Covered
<1>. QED
  BY <1>1, TicketsInvariant, PTL

\* The distributor passes no manifest by, whatever polls fail and whoever
\* restarts.
THEOREM NoManifestPassedBy == TicketSpec => []NonePassedBy
<1>1. Polls => NonePassedBy
  BY DEF Polls
<1>. QED
  BY <1>1, TicketsInvariant, PTL

\* A station computer never gets an older manifest than it got before.
THEOREM ManifestsGoForward == TicketSpec => StationsGoForward
<1>1. Rounds /\ Polls /\ [TicketNext]_ticketVars =>
         [\A s \in Stations : received'[s] >= received[s]]_ticketVars
  BY TicketsStep
<1>. QED
  BY <1>1, TicketsInvariant, PTL DEF TicketSpec, StationsGoForward
=============================================================================
