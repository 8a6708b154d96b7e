----------------------------- MODULE Retention -----------------------------
(***************************************************************************)
(* Rolling raw report rows up into daily_rollup and deleting them:         *)
(* rua/retention.py, run nightly by the scheduler and on demand by         *)
(* `rua retention`, against the ingestion that keeps storing reports and   *)
(* the dashboard that adds raw rows and rollups (queries.domain_splits).   *)
(*                                                                         *)
(* A run is one READ COMMITTED transaction of several statements: each     *)
(* statement sees what is committed when it starts, its own effects are    *)
(* published at the commit, and two runs that touch one row wait for each  *)
(* other.  All rows of one report have one date, so a report stands for    *)
(* its rows; a rollup is the number of times each report was added to it.  *)
(***************************************************************************)
EXTENDS Integers, FiniteSets

CONSTANTS
    Reports,        \* aggregate and TLS reports
    Tls,            \* the TLS-RPT ones, which have no rollup
    BeginDay,       \* date_begin of each report, the date of its rows
    EndDay,         \* the day of its date_end
    Workers,        \* runs that may be in flight: the nightly job, the command
    RawDays,        \* RETENTION_RAW_DAYS
    RollupDays,     \* RETENTION_ROLLUP_DAYS
    WindowDays,     \* the dashboard's window
    Overlap,        \* whether runs may overlap each other and an ingestion commit
    MaxDay,         \* bound: the last day
    MaxAborts       \* bound: runs that end in an exception or a crash

Days == 0 .. MaxDay

ASSUME ReportAssumption ==
    /\ Tls \subseteq Reports
    /\ BeginDay \in [Reports -> Days]
    /\ EndDay \in [Reports -> Days]

ASSUME WindowAssumption ==
    /\ RawDays \in Nat \ {0}
    /\ RollupDays \in Nat /\ RollupDays >= RawDays
    /\ WindowDays \in Nat \ {0}
    /\ MaxDay \in Nat
    /\ MaxAborts \in Nat
    /\ Overlap \in BOOLEAN

VARIABLES
    today,      \* the current date, UTC
    raw,        \* reports whose rows are in report_row or tls_result_row
    headers,    \* reports whose row is in report or tls_report
    rolled,     \* times a report's volume was added to daily_rollup
    runs,       \* days with an ingest_run row
    ingested,   \* history: reports ever stored
    stage,      \* the statement each run is at
    asOf,       \* the date the run took for today
    picked,     \* reports its rollup query returned
    erased,     \* reports whose rows it has deleted, uncommitted
    dropped,    \* headers it has deleted, uncommitted
    aborts,     \* runs aborted, bounded by MaxAborts
    reading,    \* whether a dashboard query is between its two statements
    readDay,    \* the day its window ends
    seen,       \* reports its first statement returned
    known       \* history: reports stored when it started

tables == <<raw, headers, rolled, runs, ingested>>
runVars == <<stage, asOf, picked, erased, dropped>>
readVars == <<reading, readDay, seen, known>>
vars == <<today, tables, runVars, aborts, readVars>>

Aggregate == Reports \ Tls

Stages == {"idle", "upsert", "rows", "headers", "tlsRows", "tlsHeaders", "commit"}

\* The stages at which a run holds the locks of its upsert.
Locking == {"rows", "headers", "tlsRows", "tlsHeaders", "commit"}

Init ==
    /\ today = 0
    /\ raw = {} /\ headers = {} /\ runs = {} /\ ingested = {}
    /\ rolled = [r \in Reports |-> 0]
    /\ stage = [w \in Workers |-> "idle"]
    /\ asOf = [w \in Workers |-> 0]
    /\ picked = [w \in Workers |-> {}]
    /\ erased = [w \in Workers |-> {}]
    /\ dropped = [w \in Workers |-> {}]
    /\ aborts = 0
    /\ reading = FALSE /\ readDay = 0 /\ seen = {} /\ known = {}

-----------------------------------------------------------------------------
AllIdle == \A w \in Workers : stage[w] = "idle"

\* A page is rendered within a day, or straddles one midnight.
NewDay ==
    /\ today < MaxDay
    /\ reading => readDay = today
    /\ today' = today + 1
    /\ UNCHANGED <<tables, runVars, aborts, readVars>>

\* An ingestion run commits a report it had not stored (a report id whose header
\* is present is skipped).  A report may be late by any number of days.
StoreReport(r) ==
    /\ r \notin ingested
    /\ BeginDay[r] <= today
    /\ Overlap \/ AllIdle
    /\ raw' = raw \cup {r}
    /\ headers' = headers \cup {r}
    /\ ingested' = ingested \cup {r}
    /\ runs' = runs \cup {today}
    /\ UNCHANGED <<today, rolled, runVars, aborts, readVars>>

-----------------------------------------------------------------------------
(* run_retention, statement by statement. *)

BugRawCutoff(w) == asOf[w] - RollupDays

RawCutoff(w) == asOf[w] - RawDays
RollupCutoff(w) == asOf[w] - RollupDays

Before(cutoff, rs) == {r \in rs : BeginDay[r] < cutoff}
EndedBefore(cutoff, rs) == {r \in rs : EndDay[r] < cutoff}

BugSelectsAnyRow(w) ==
    /\ stage[w] = "idle"
    /\ Overlap \/ AllIdle
    /\ asOf' = [asOf EXCEPT ![w] = today]
    /\ picked' = [picked EXCEPT ![w] = Before(today - RawDays, raw)]
    /\ stage' = [stage EXCEPT ![w] = "upsert"]
    /\ UNCHANGED <<today, tables, erased, dropped, aborts, readVars>>

\* _roll_up: SELECT ... WHERE date < cutoff GROUP BY domain, date, ip.
SelectRows(w) ==
    /\ stage[w] = "idle"
    /\ Overlap \/ AllIdle
    /\ asOf' = [asOf EXCEPT ![w] = today]
    /\ picked' = [picked EXCEPT ![w] = Before(today - RawDays, raw \ Tls)]
    /\ stage' = [stage EXCEPT ![w] = "upsert"]
    /\ UNCHANGED <<today, tables, erased, dropped, aborts, readVars>>

\* INSERT ... ON CONFLICT DO UPDATE: waits while another run holds the row of one
\* of its days.
DaysOf(rs) == {BeginDay[r] : r \in rs}

Upsert(w) ==
    /\ stage[w] = "upsert"
    /\ \A u \in Workers \ {w} :
         stage[u] \in Locking => DaysOf(picked[u]) \cap DaysOf(picked[w]) = {}
    /\ stage' = [stage EXCEPT ![w] = "rows"]
    /\ UNCHANGED <<today, tables, asOf, picked, erased, dropped, aborts, readVars>>

\* DELETE of the rows in rs: waits for rows another run has deleted.
DeleteRows(w, at, rs, next) ==
    /\ stage[w] = at
    /\ \A u \in Workers \ {w} : rs \cap erased[u] = {}
    /\ erased' = [erased EXCEPT ![w] = @ \cup rs]
    /\ stage' = [stage EXCEPT ![w] = next]
    /\ UNCHANGED <<today, tables, asOf, picked, dropped, aborts, readVars>>

\* DELETE of the headers in hs, cascading to the rows that are left.
DeleteHeaders(w, at, hs, next) ==
    /\ stage[w] = at
    /\ \A u \in Workers \ {w} : hs \cap (dropped[u] \cup erased[u]) = {}
    /\ dropped' = [dropped EXCEPT ![w] = @ \cup hs]
    /\ erased' = [erased EXCEPT ![w] = @ \cup (hs \cap raw)]
    /\ stage' = [stage EXCEPT ![w] = next]
    /\ UNCHANGED <<today, tables, asOf, picked, aborts, readVars>>

DeleteAggregateRows(w) == DeleteRows(w, "rows", Before(RawCutoff(w), raw \ Tls), "headers")

DeleteAggregateHeaders(w) ==
    DeleteHeaders(w, "headers", EndedBefore(RawCutoff(w), headers \ Tls), "tlsRows")

DeleteTlsRows(w) == DeleteRows(w, "tlsRows", Before(RawCutoff(w), raw \cap Tls), "tlsHeaders")

DeleteTlsHeaders(w) ==
    DeleteHeaders(w, "tlsHeaders", EndedBefore(RawCutoff(w), headers \cap Tls), "commit")

\* The run is over, whichever way.
Release(w) ==
    /\ stage' = [stage EXCEPT ![w] = "idle"]
    /\ asOf' = [asOf EXCEPT ![w] = 0]
    /\ picked' = [picked EXCEPT ![w] = {}]
    /\ erased' = [erased EXCEPT ![w] = {}]
    /\ dropped' = [dropped EXCEPT ![w] = {}]

\* What daily_rollup holds of a report once w has added to it and
\* _delete_old_rollups has removed the days past the longer window.
BugReplaces(w, r) ==
    IF BeginDay[r] < RollupCutoff(w) THEN 0
    ELSE IF \E q \in picked[w] : BeginDay[q] = BeginDay[r]
      THEN (IF r \in picked[w] THEN 1 ELSE 0)
      ELSE rolled[r]

RolledAfter(w, r) ==
    IF BeginDay[r] < RollupCutoff(w) THEN 0
    ELSE IF r \in picked[w] THEN rolled[r] + 1 ELSE rolled[r]

\* _delete_old_rollups, and the commit of session_scope.
ExpireAndCommit(w) ==
    /\ stage[w] = "commit"
    /\ raw' = raw \ erased[w]
    /\ headers' = headers \ dropped[w]
    /\ rolled' = [r \in Reports |-> RolledAfter(w, r)]
    /\ runs' = {d \in runs : d >= RollupCutoff(w)}
    /\ Release(w)
    /\ UNCHANGED <<today, ingested, aborts, readVars>>

\* An exception, a deadlock's victim, or the end of the process.
Abort(w) ==
    /\ stage[w] # "idle"
    /\ aborts < MaxAborts
    /\ aborts' = aborts + 1
    /\ Release(w)
    /\ UNCHANGED <<today, tables, readVars>>

-----------------------------------------------------------------------------
(* domain_splits and daily_splits: raw rows first, then rollups. *)

BugWindow(day) == {r \in Aggregate : BeginDay[r] >= day - WindowDays /\ BeginDay[r] <= day}

Window(day) == {r \in Aggregate : BeginDay[r] >= day - WindowDays + 1 /\ BeginDay[r] <= day}

ReadRaw ==
    /\ ~reading
    /\ reading' = TRUE
    /\ readDay' = today
    /\ seen' = raw \cap Window(today)
    /\ known' = ingested
    /\ UNCHANGED <<today, tables, runVars, aborts>>

ReadRollups ==
    /\ reading
    /\ reading' = FALSE
    /\ readDay' = 0 /\ seen' = {} /\ known' = {}
    /\ UNCHANGED <<today, tables, runVars, aborts>>

\* How often the page counts a report if its second statement runs now.
Shown(r) == rolled[r] + (IF r \in seen THEN 1 ELSE 0)

-----------------------------------------------------------------------------
Run(w) ==
    \/ SelectRows(w)
    \/ Upsert(w)
    \/ DeleteAggregateRows(w)
    \/ DeleteAggregateHeaders(w)
    \/ DeleteTlsRows(w)
    \/ DeleteTlsHeaders(w)
    \/ ExpireAndCommit(w)

Next ==
    \/ NewDay
    \/ \E r \in Reports : StoreReport(r)
    \/ \E w \in Workers : Run(w) \/ Abort(w)
    \/ ReadRaw
    \/ ReadRollups

Spec == Init /\ [][Next]_vars

\* A statement that started finishes, and the nightly job keeps being scheduled;
\* a run of the command may take its place.
FairSpec == Spec /\ WF_vars(\E w \in Workers : Run(w))

-----------------------------------------------------------------------------
(* Properties. *)

\* Tables and the effects of a run in flight are of their kinds; a TLS report is
\* never rolled up.
TypeOK ==
    /\ today \in Days
    /\ raw \subseteq Reports
    /\ headers \subseteq Reports
    /\ rolled \in [Reports -> Nat]
    /\ runs \subseteq Days
    /\ ingested \subseteq Reports
    /\ stage \in [Workers -> Stages]
    /\ asOf \in [Workers -> Days]
    /\ picked \in [Workers -> SUBSET Aggregate]
    /\ erased \in [Workers -> SUBSET Reports]
    /\ dropped \in [Workers -> SUBSET Reports]
    /\ aborts \in 0 .. MaxAborts
    /\ reading \in BOOLEAN
    /\ readDay \in Days
    /\ seen \subseteq Aggregate
    /\ known \subseteq Reports

\* How often a report is in the data the readiness score is computed from.
Copies(r) == rolled[r] + (IF r \in raw THEN 1 ELSE 0)

\* Reports no rollup window has expired.
Due == {r \in ingested \ Tls : BeginDay[r] >= today - RollupDays}

\* "nothing is double counted and nothing is dropped" (retention.py): while its
\* day is within the rollup window, a stored report is counted exactly once.
CountedOnce == \A r \in Due : Copies(r) = 1

\* Its first half, when runs overlap each other.
NothingDoubleCounted == \A r \in Due : Copies(r) <= 1

\* domain_splits adds two statements' results: a report stored before the first
\* is counted once whatever retention does in between, as long as the dashboard's
\* window is not longer than the raw one (a page may straddle midnight).
PageCountsOnce == reading => \A r \in known \cap Window(readDay) : Shown(r) = 1

\* "Raw report_row records ... are kept this long": rows past the window are
\* eventually gone, of aggregate and of TLS reports.
OldRowsGo == \A r \in Reports : (r \in raw /\ BeginDay[r] < today - RawDays) ~> r \notin raw

-----------------------------------------------------------------------------
(* What makes CountedOnce inductive when runs do not overlap. *)

\* At most one run is in flight.
Alone == \A w, u \in Workers : w # u /\ stage[w] # "idle" => stage[u] = "idle"

\* What a run holds at each stage.
Holds(w) ==
    /\ asOf[w] <= today
    /\ stage[w] = "idle" => picked[w] = {}
    /\ stage[w] # "idle" => picked[w] = Before(RawCutoff(w), raw \ Tls)
    /\ stage[w] \in {"idle", "upsert", "rows"} => erased[w] \cap Aggregate = {}
    /\ stage[w] \notin {"idle", "upsert", "rows"} => erased[w] \cap Aggregate = picked[w]

\* Raw rows are not in the rollup yet; what was never stored is nowhere.
Separate ==
    /\ raw \subseteq ingested
    /\ \A r \in Aggregate : r \in raw \/ r \notin ingested => rolled[r] = 0

ExclusiveInv ==
    /\ Alone
    /\ \A w \in Workers : Holds(w)
    /\ Separate
    /\ CountedOnce
=============================================================================
