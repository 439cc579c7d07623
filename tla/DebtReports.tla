----------------------------- MODULE DebtReports -----------------------------
(***************************************************************************)
(* What PCTR journeys cost: the back office (PCTRBO) keeps a debt per      *)
(* journey and reports what each token owes to the payment authority (PA), *)
(* which keeps the reports and writes them to restitution files.           *)
(*                                                                         *)
(* A debt is known by name and costs the same; a sum is the set of debts   *)
(* in it.  (Journeys that cost nothing owe nothing: InsertDebts skips      *)
(* them.)  PCTRBO runs as one process, PA serves requests concurrently.    *)
(***************************************************************************)
EXTENDS Integers, FiniteSets, Sequences

CONSTANTS
    Debts,        \* debts that journeys create
    Token,        \* the token of each debt
    Exports,      \* POST /restitution requests
    MaxFailures,  \* bound: reports that fail
    MaxReports    \* bound: rows of pa_debts

\* unreported, reported: rows of pctr_debts.  round: the reporting loop: what
\* it sums, and the tokens PA has still to insert.  paDebts: rows of pa_debts,
\* each the debts of one token in one report.  exported: those with
\* exported_at.  export: the requests.  newest, filed: rows in the newest
\* restitution file, and in the others.
\* History: failures, reports that failed; atRisk, rows inserted between the
\* two queries of an export, or in a file that was written again.
VARIABLES unreported, reported, round, paDebts, exported, export, newest, filed,
          failures, atRisk

fileVars == <<newest, filed>>

debtVars == <<unreported, reported, round, paDebts, exported, export, fileVars,
              failures, atRisk>>

Waiting == [pc |-> "waiting", owed |-> {}, left |-> {}]
NoExport == [pc |-> "idle", rows |-> {}, ids |-> {}]

TokensOf(debts) == {Token[d] : d \in debts}

DebtInit ==
    /\ unreported = {} /\ reported = {}
    /\ round = Waiting
    /\ paDebts = <<>> /\ exported = {}
    /\ export = [e \in Exports |-> NoExport]
    /\ newest = {} /\ filed = {} /\ failures = 0 /\ atRisk = {}

-----------------------------------------------------------------------------
\* The reporting loop of PCTRBO.

\* A round starts: RunPCTRJourneyConstruction creates debts, and
\* GetUnreportedDebts sums them.  Nothing is reported when nothing is owed or
\* one of the two fails, which may be after some journeys.
StartRound(new) ==
    /\ round.pc = "waiting"
    /\ new \cap (unreported \cup reported) = {}
    /\ unreported' = unreported \cup new
    /\ \/ UNCHANGED round
       \/ /\ unreported' # {}
          /\ round' = [pc |-> "owed", owed |-> unreported',
                       left |-> TokensOf(unreported')]
    /\ UNCHANGED <<reported, paDebts, exported, export, fileVars, failures, atRisk>>

InsertAndKeep(t) ==
    /\ round.pc = "owed" /\ t \in round.left
    /\ Len(paDebts) < MaxReports
    /\ paDebts' = Append(paDebts, {d \in round.owed : Token[d] = t})
    /\ UNCHANGED <<unreported, reported, round, exported, export, fileVars, failures,
                   atRisk>>

\* /debts inserts a row per token, without a transaction around them.
InsertDebt(t) ==
    /\ round.pc = "owed" /\ t \in round.left
    /\ Len(paDebts) < MaxReports
    /\ paDebts' = Append(paDebts, {d \in round.owed : Token[d] = t})
    /\ round' = [round EXCEPT !.left = @ \ {t}]
    /\ atRisk' = IF \E e \in Exports : export[e].pc = "summed"
                  THEN atRisk \cup {Len(paDebts) + 1} ELSE atRisk
    /\ UNCHANGED <<unreported, reported, exported, export, fileVars, failures>>

FailAndMark ==
    /\ round.pc = "owed" /\ failures < MaxFailures
    /\ failures' = failures + 1
    /\ reported' = reported \cup unreported
    /\ unreported' = {}
    /\ round' = Waiting
    /\ UNCHANGED <<paDebts, exported, export, fileVars, atRisk>>

\* PA is not resolved, fails after some rows, or its answer is lost: the debts
\* stay unreported.
ReportFails ==
    /\ round.pc = "owed" /\ failures < MaxFailures
    /\ failures' = failures + 1
    /\ round' = Waiting
    /\ UNCHANGED <<unreported, reported, paDebts, exported, export, fileVars, atRisk>>

\* MarkDebtsReported marks every unreported debt, or fails unnoticed.
Report ==
    /\ round.pc = "owed" /\ round.left = {}
    /\ round' = Waiting
    /\ \/ /\ reported' = reported \cup unreported
          /\ unreported' = {}
          /\ UNCHANGED failures
       \/ /\ failures < MaxFailures
          /\ failures' = failures + 1
          /\ UNCHANGED <<reported, unreported>>
    /\ UNCHANGED <<paDebts, exported, export, fileVars, atRisk>>

-----------------------------------------------------------------------------
\* Restitution at PA.

Outstanding == {r \in DOMAIN paDebts : r \notin exported}

ExportMoves(e, from, value) ==
    /\ export[e].pc = from
    /\ export' = [export EXCEPT ![e] = value]

\* BuildRestitution reads the sums and then, in a second query, the ids.
SumRows(e) ==
    /\ ExportMoves(e, "idle", [pc |-> "summed", rows |-> Outstanding, ids |-> {}])
    /\ UNCHANGED <<unreported, reported, round, paDebts, exported, fileVars, failures, atRisk>>

ReadIds(e) ==
    /\ \E failed \in BOOLEAN :
          ExportMoves(e, "summed", IF failed \/ export[e].rows = {} THEN NoExport
              ELSE [export[e] EXCEPT !.pc = "writing", !.ids = Outstanding])
    /\ UNCHANGED <<unreported, reported, round, paDebts, exported, fileVars, failures, atRisk>>

\* The file holds the sums.  Its name has the time in seconds, so that two
\* exports in one second write the same file.
WriteFile(e) ==
    /\ ExportMoves(e, "writing", [export[e] EXCEPT !.pc = "marking"])
    /\ newest' = export[e].rows
    /\ \/ filed' = filed \cup newest /\ UNCHANGED atRisk
       \/ atRisk' = atRisk \cup newest /\ UNCHANGED filed
    /\ UNCHANGED <<unreported, reported, round, paDebts, exported, failures>>

MarkAllExported(e) ==
    /\ ExportMoves(e, "marking", NoExport)
    /\ exported' = DOMAIN paDebts
    /\ UNCHANGED <<unreported, reported, round, paDebts, fileVars, failures, atRisk>>

\* MarkDebtsExported marks the ids, or fails unnoticed.
MarkExported(e) ==
    /\ ExportMoves(e, "marking", NoExport)
    /\ exported' \in {exported, exported \cup export[e].ids}
    /\ UNCHANGED <<unreported, reported, round, paDebts, fileVars, failures, atRisk>>

DebtNext ==
    \/ \E new \in SUBSET Debts : StartRound(new)
    \/ \E t \in TokensOf(Debts) : InsertDebt(t)
    \/ ReportFails \/ Report
    \/ \E e \in Exports : SumRows(e) \/ ReadIds(e) \/ WriteFile(e) \/ MarkExported(e)

DebtSpec == DebtInit /\ [][DebtNext]_debtVars

-----------------------------------------------------------------------------
\* Rows of pa_debts a debt is in.
Reports(d) == Cardinality({r \in DOMAIN paDebts : d \in paDebts[r]})

\* A debt that PCTRBO marks as reported has reached PA: MarkDebtsReported
\* ignores the ids it is given and marks all unreported debts, which is the
\* same only because journeys are constructed in the loop that reports them.
ReportedHasReachedPA ==
    \A d \in Debts : d \in reported => d \notin unreported /\ Reports(d) >= 1

\* PA counts a debt at most once more than reports of it failed: what a lost
\* answer, a failed row or a failed mark repeats, nothing else does.
ReportedOncePerFailure == \A d \in Debts : Reports(d) <= 1 + failures

\* A row that is marked as exported is in a restitution file, with two exports
\* at a time too, except for the two ways the code has to lose it: it was
\* inserted between the two queries of an export, or its file was written
\* again within the second.
ExportedIsFiled == exported \subseteq newest \cup filed \cup atRisk
=============================================================================
