------------------------------- MODULE Ingest -------------------------------
(***************************************************************************)
(* The mailbox poll: rua/ingest.py driven by cli._ingest_job, reading      *)
(* graph.list_messages and graph.get_attachments.                          *)
(*                                                                         *)
(* One poll is one database transaction.  The record db is what is         *)
(* committed, tx is what the running poll would commit; session_scope      *)
(* either publishes tx whole (Commit) or drops it whole (a crash, or an    *)
(* exception that leaves run_ingestion).  Messages keep arriving while a   *)
(* poll runs, and every call to Graph may fail.                            *)
(*                                                                         *)
(* A message is its set of documents.  An attachment that cannot be        *)
(* extracted is a document of kind "unextractable"; a document that does   *)
(* not parse is "malformed".  Whether the report is DMARC or TLS-RPT makes *)
(* no difference here: both are keyed by a unique report id.               *)
(***************************************************************************)
EXTENDS Naturals, FiniteSets

CONSTANTS
    Messages,       \* messages that may reach the report mailbox
    Docs,           \* attachments and the documents inside them
    Reports,        \* report ids
    DocsOf,         \* the documents a message carries
    KindOf,         \* what each document turns out to be
    ReportOf,       \* the report id a document carries
    PageCap,        \* messages one listing returns at most: MAX_MESSAGE_PAGES pages
    NoMessage,      \* the poll is between messages
    Alerting,       \* whether ALERT_WEBHOOK_URL is set
    MaxSecond,      \* bound: the clock stops here
    MaxFaults,      \* bound: failed Graph calls and failed inserts
    MaxCrashes,     \* bound: process crashes
    DistinctSeconds \* whether no two messages are received in one second

Kinds == {"forensic", "unextractable", "malformed", "crashing", "report"}

ASSUME ContentAssumption ==
    /\ DocsOf \in [Messages -> SUBSET Docs]
    /\ KindOf \in [Docs -> Kinds]
    /\ ReportOf \in [Docs -> Reports]
    /\ \A m, n \in Messages : m # n => DocsOf[m] \cap DocsOf[n] = {}
    /\ NoMessage \notin Messages
    /\ IsFiniteSet(Messages) /\ IsFiniteSet(Reports)

ASSUME BoundAssumption ==
    /\ PageCap \in Nat \ {0}
    /\ MaxSecond \in Nat \ {0}
    /\ MaxFaults \in Nat
    /\ MaxCrashes \in Nat

ASSUME SwitchAssumption ==
    /\ Alerting \in BOOLEAN
    /\ DistinctSeconds \in BOOLEAN

\* No ingest_run row yet; the three IngestOutcome values.
NoRun == "none"
Outcomes == {"success", "partial", "failure"}

VARIABLES
    clock,       \* the current second
    inbox,       \* messages that reached the mailbox
    received,    \* receivedDateTime of each, in whole seconds
    configured,  \* whether the four ingestion settings are present
    db,          \* committed rows
    tx,          \* rows as the running poll's transaction sees them
    phase,       \* where the poll is
    pending,     \* listed messages the poll has not looked at
    current,     \* message being read
    todo,        \* its documents still to be processed
    parsed,      \* reports_parsed of this poll
    failed,      \* reports_failed of this poll
    previous,    \* outcome of the run before this one
    outcome,     \* outcome this poll will record
    alerts,      \* alerts raised since a run last did not fail
    faults,      \* faults so far, bounded by MaxFaults
    crashes      \* crashes so far, bounded by MaxCrashes

envVars == <<clock, inbox, received, configured>>
runVars == <<pending, current, todo, parsed, failed, previous, outcome>>
budgets == <<faults, crashes>>
vars == <<envVars, db, tx, phase, runVars, alerts, budgets>>

Phases == {"idle", "listing", "reading", "message", "committing"}

\* What the transaction reads and writes.  checkpoint is INGEST_CHECKPOINT, 0 when
\* unset.  total is the sum of reports_parsed over the ingest_run rows, lastOutcome
\* the outcome of the newest.  fate and rejected are history, kept for the
\* properties only: what a committed run did with each message, and the
\* well-formed documents whose insert failed.
Tables == [checkpoint : 0 .. MaxSecond,
           reports : SUBSET Reports,
           total : Nat,
           lastOutcome : Outcomes \cup {NoRun},
           fate : [Messages -> {"unseen", "read", "missed"}],
           rejected : SUBSET Docs]

EmptyTables == [checkpoint |-> 0, reports |-> {}, total |-> 0, lastOutcome |-> NoRun,
                fate |-> [m \in Messages |-> "unseen"], rejected |-> {}]

Init ==
    /\ clock = 1
    /\ inbox = {}
    /\ received = [m \in Messages |-> 0]
    /\ configured = FALSE
    /\ db = EmptyTables
    /\ tx = EmptyTables
    /\ phase = "idle"
    /\ pending = {}
    /\ current = NoMessage
    /\ todo = {}
    /\ parsed = 0
    /\ failed = 0
    /\ previous = NoRun
    /\ outcome = "failure"
    /\ alerts = 0
    /\ faults = 0
    /\ crashes = 0

-----------------------------------------------------------------------------
(* The world around a poll. *)

Tick ==
    /\ clock < MaxSecond
    /\ clock' = clock + 1
    /\ UNCHANGED <<inbox, received, configured, db, tx, phase, runVars, alerts, budgets>>

\* A message reaches the mailbox and is stamped with the current second.
Deliver(m) ==
    /\ m \notin inbox
    /\ DistinctSeconds => \A n \in inbox : received[n] # clock
    /\ inbox' = inbox \cup {m}
    /\ received' = [received EXCEPT ![m] = clock]
    /\ UNCHANGED <<clock, configured, db, tx, phase, runVars, alerts, budgets>>

\* The wizard stores the last of the four settings, or reset-setup deletes them.
ChangeConfiguration ==
    /\ configured' = ~configured
    /\ UNCHANGED <<clock, inbox, received, db, tx, phase, runVars, alerts, budgets>>

-----------------------------------------------------------------------------
(* run_ingestion and _execute. *)

BugNewerByTwo(since) == {m \in inbox : received[m] > since + 1}

\* graph.list_messages: everything strictly newer than the checkpoint ...
Newer(since) == {m \in inbox : received[m] > since}

BugNewestFirst(batch, since) ==
    /\ batch \subseteq Newer(since)
    /\ \A m \in batch, n \in Newer(since) \ batch : received[m] >= received[n]
    /\ Cardinality(batch) = IF Cardinality(Newer(since)) <= PageCap
                              THEN Cardinality(Newer(since)) ELSE PageCap

\* ... oldest first, so a listing that stops at the cap is a prefix.
IsListing(batch, since) ==
    /\ batch \subseteq Newer(since)
    /\ \A m \in batch, n \in Newer(since) \ batch : received[m] <= received[n]
    /\ IF Cardinality(Newer(since)) <= PageCap
         THEN batch = Newer(since)
         ELSE Cardinality(batch) = PageCap

\* newest_seen after a message received at r.
Advance(newest, r) == IF r > newest THEN r ELSE newest

\* The locals of run_ingestion are gone once it has returned or been abandoned.
EndRun ==
    /\ phase' = "idle"
    /\ pending' = {}
    /\ current' = NoMessage
    /\ todo' = {}
    /\ parsed' = 0
    /\ failed' = 0
    /\ previous' = NoRun
    /\ outcome' = "failure"

BugNoOutcome(p, f) == IF f > 0 THEN "partial" ELSE NoRun

\* The outcome of a run that reached the end of the batch.
OutcomeOf(p, f) ==
    CASE f > 0 /\ p > 0 -> "partial"
      [] f > 0 /\ p = 0 -> "failure"
      [] OTHER -> "success"

BugRaisesEveryTime(result) == result = "failure" /\ Alerting

BugRaisesAfterSuccessOnly(result) == result = "failure" /\ previous = "success" /\ Alerting

\* "One alert per outage": raised when the outcome is a failure and the run
\* before was not one, and posted before the transaction commits.
RaisesAlert(result) == result = "failure" /\ previous # "failure" /\ Alerting

\* _execute has returned result: run_ingestion fills in the row and alerts.
Finish(result) ==
    /\ outcome' = result
    /\ alerts' = IF RaisesAlert(result) THEN alerts + 1 ELSE alerts
    /\ phase' = "committing"

\* The poll starts: it reads the previous outcome and the settings.  Whether setup
\* is complete is not asked.
BeginRun ==
    /\ phase = "idle"
    /\ tx' = db
    /\ previous' = db.lastOutcome
    /\ phase' = "listing"
    /\ UNCHANGED <<envVars, db, pending, current, todo, parsed, failed, outcome, alerts, budgets>>

NotConfigured ==
    /\ phase = "listing"
    /\ ~configured
    /\ Finish("failure")
    /\ UNCHANGED <<envVars, db, tx, pending, current, todo, parsed, failed, previous, budgets>>

ListFails ==
    /\ phase = "listing"
    /\ configured
    /\ faults < MaxFaults
    /\ faults' = faults + 1
    /\ Finish("failure")
    /\ UNCHANGED <<envVars, db, tx, pending, current, todo, parsed, failed, previous, crashes>>

ListMessages ==
    /\ phase = "listing"
    /\ configured
    /\ \E batch \in SUBSET inbox :
         /\ IsListing(batch, tx.checkpoint)
         /\ pending' = batch
    /\ phase' = "reading"
    /\ UNCHANGED <<envVars, db, tx, current, todo, parsed, failed, previous, outcome, alerts, budgets>>

\* The next message of the loop.
IsOldestPending(m) ==
    /\ phase = "reading"
    /\ m \in pending
    /\ \A n \in pending : received[m] <= received[n]

\* get_attachments raised GraphError: counted, and newest_seen stays.
FetchFails(m) ==
    /\ IsOldestPending(m)
    /\ faults < MaxFaults
    /\ faults' = faults + 1
    /\ pending' = pending \ {m}
    /\ failed' = failed + 1
    /\ tx' = [tx EXCEPT !.fate[m] = "missed"]
    /\ UNCHANGED <<envVars, db, phase, current, todo, parsed, previous, outcome, alerts, crashes>>

FetchAttachments(m) ==
    /\ IsOldestPending(m)
    /\ pending' = pending \ {m}
    /\ current' = m
    /\ todo' = DocsOf[m]
    /\ phase' = "message"
    /\ UNCHANGED <<envVars, db, tx, parsed, failed, previous, outcome, alerts, budgets>>

-----------------------------------------------------------------------------
(* _ingest_attachment: one savepoint per document. *)

Takes(d) ==
    /\ phase = "message"
    /\ d \in todo
    /\ todo' = todo \ {d}

DiscardForensic(d) ==
    /\ Takes(d)
    /\ KindOf[d] = "forensic"
    /\ UNCHANGED <<envVars, db, tx, phase, pending, current, parsed, failed, previous, outcome, alerts, budgets>>

\* ExtractionError, or a parse error that rolls the savepoint back.
RejectDocument(d) ==
    /\ Takes(d)
    /\ KindOf[d] \in {"unextractable", "malformed"}
    /\ failed' = failed + 1
    /\ UNCHANGED <<envVars, db, tx, phase, pending, current, parsed, previous, outcome, alerts, budgets>>

\* SQLAlchemyError on the insert: the savepoint is rolled back, the loop goes on.
PersistFails(d) ==
    /\ Takes(d)
    /\ KindOf[d] = "report"
    /\ faults < MaxFaults
    /\ faults' = faults + 1
    /\ failed' = failed + 1
    /\ tx' = [tx EXCEPT !.rejected = @ \cup {d}]
    /\ UNCHANGED <<envVars, db, phase, pending, current, parsed, previous, outcome, alerts, crashes>>

BugPersistAutocommits(d) ==
    /\ Takes(d)
    /\ KindOf[d] = "report"
    /\ ReportOf[d] \notin tx.reports
    /\ tx' = [tx EXCEPT !.reports = @ \cup {ReportOf[d]}]
    /\ db' = [db EXCEPT !.reports = @ \cup {ReportOf[d]}]
    /\ parsed' = parsed + 1
    /\ UNCHANGED <<envVars, phase, pending, current, failed, previous, outcome, alerts, budgets>>

PersistReport(d) ==
    /\ Takes(d)
    /\ KindOf[d] = "report"
    /\ ReportOf[d] \notin tx.reports
    /\ tx' = [tx EXCEPT !.reports = @ \cup {ReportOf[d]}]
    /\ parsed' = parsed + 1
    /\ UNCHANGED <<envVars, db, phase, pending, current, failed, previous, outcome, alerts, budgets>>

BugDuplicateCounted(d) ==
    /\ Takes(d)
    /\ KindOf[d] = "report"
    /\ ReportOf[d] \in tx.reports
    /\ parsed' = parsed + 1
    /\ UNCHANGED <<envVars, db, tx, phase, pending, current, failed, previous, outcome, alerts, budgets>>

SkipDuplicate(d) ==
    /\ Takes(d)
    /\ KindOf[d] = "report"
    /\ ReportOf[d] \in tx.reports
    /\ UNCHANGED <<envVars, db, tx, phase, pending, current, parsed, failed, previous, outcome, alerts, budgets>>

\* An exception none of the handlers names leaves run_ingestion: zipfile raises
\* RuntimeError for an encrypted member and BadZipFile for a bad checksum while
\* the member is read.  session_scope rolls back, _ingest_job swallows it.
EscapeException(d) ==
    /\ phase = "message"
    /\ d \in todo
    /\ KindOf[d] = "crashing"
    /\ tx' = db
    /\ EndRun
    /\ UNCHANGED <<envVars, db, alerts, budgets>>

FinishMessage ==
    /\ phase = "message"
    /\ todo = {}
    /\ tx' = [tx EXCEPT !.fate[current] = "read",
                        !.checkpoint = Advance(@, received[current])]
    /\ current' = NoMessage
    /\ phase' = "reading"
    /\ UNCHANGED <<envVars, db, pending, todo, parsed, failed, previous, outcome, alerts, budgets>>

-----------------------------------------------------------------------------
(* The end of a run. *)

FinishBatch ==
    /\ phase = "reading"
    /\ pending = {}
    /\ Finish(OutcomeOf(parsed, failed))
    /\ UNCHANGED <<envVars, db, tx, pending, current, todo, parsed, failed, previous, budgets>>

BugPublishOnlySuccess(t) ==
    [t EXCEPT !.lastOutcome = outcome, !.total = @ + parsed,
              !.reports = IF outcome = "success" THEN @ ELSE db.reports]

\* session_scope commits: rows, checkpoint and ingest_run become visible together.
Publish(t) == [t EXCEPT !.lastOutcome = outcome, !.total = @ + parsed]

Commit ==
    /\ phase = "committing"
    /\ db' = Publish(tx)
    /\ tx' = db'
    /\ alerts' = IF outcome = "failure" THEN alerts ELSE 0
    /\ EndRun
    /\ UNCHANGED <<envVars, budgets>>

\* The process dies, or the connection to the database does.
Rollback ==
    /\ phase # "idle"
    /\ crashes < MaxCrashes
    /\ crashes' = crashes + 1
    /\ tx' = db
    /\ EndRun
    /\ UNCHANGED <<envVars, db, alerts, faults>>

-----------------------------------------------------------------------------
Document(d) ==
    \/ DiscardForensic(d)
    \/ RejectDocument(d)
    \/ PersistFails(d)
    \/ PersistReport(d)
    \/ SkipDuplicate(d)
    \/ EscapeException(d)

Poll ==
    \/ BeginRun
    \/ NotConfigured
    \/ ListFails
    \/ ListMessages
    \/ \E m \in Messages : FetchFails(m) \/ FetchAttachments(m)
    \/ \E d \in Docs : Document(d)
    \/ FinishMessage
    \/ FinishBatch
    \/ Commit

World ==
    \/ Tick
    \/ ChangeConfiguration
    \/ \E m \in Messages : Deliver(m)
    \/ Rollback

Next == Poll \/ World

Spec == Init /\ [][Next]_vars

\* The scheduler's thread keeps running and its interval trigger keeps firing.
FairSpec == Spec /\ WF_vars(Poll)

-----------------------------------------------------------------------------
(* Properties. *)

\* Settings, tables and the locals of a poll are of the kinds the code gives them,
\* and the poll has a current message exactly while it reads one.
TypeOK ==
    /\ clock \in 1 .. MaxSecond
    /\ inbox \subseteq Messages
    /\ received \in [Messages -> 0 .. MaxSecond]
    /\ configured \in BOOLEAN
    /\ db \in Tables
    /\ tx \in Tables
    /\ phase \in Phases
    /\ pending \subseteq inbox
    /\ current \in inbox \cup {NoMessage}
    /\ (phase = "message") <=> (current # NoMessage)
    /\ todo \subseteq Docs
    /\ parsed \in Nat
    /\ failed \in Nat
    /\ previous \in Outcomes \cup {NoRun}
    /\ outcome \in Outcomes
    /\ alerts \in Nat
    /\ faults \in 0 .. MaxFaults
    /\ crashes \in 0 .. MaxCrashes

\* A message the poll will never list again: receivedDateTime is not beyond the
\* committed checkpoint.
Passed(m) == m \in inbox /\ received[m] <= db.checkpoint

SharesSecond(m) == \E n \in inbox : n # m /\ db.fate[n] = "read" /\ received[n] = received[m]

\* The comment on list_messages says the checkpoint "does not skip the messages it
\* never reached".  Whatever crashes, escapes, capped listings and late arrivals
\* did, a passed message was read, or its attachments could not be fetched by a
\* run that committed, or it shares its second with a message that was read.
SkipsAreExplained ==
    \A m \in Messages :
      Passed(m) => db.fate[m] \in {"read", "missed"} \/ SharesSecond(m)

\* The sentence as the comment has it: every passed message was read.
NothingSkipped == \A m \in Messages : Passed(m) => db.fate[m] = "read"

\* A message recorded as read left every well-formed report of it in the
\* database, except those whose insert failed: the checkpoint and the reports
\* are committed together or not at all.
ReadMeansStored ==
    \A m \in Messages : db.fate[m] = "read" =>
      \A d \in DocsOf[m] : KindOf[d] = "report" =>
        ReportOf[d] \in db.reports \/ d \in db.rejected

\* The ingest_run rows account for the report table: reports_parsed summed over
\* all recorded runs is the number of stored reports, across re-deliveries,
\* savepoint rollbacks and runs that were abandoned.
LogAccountsForReports == db.total = Cardinality(db.reports)

\* No silent outage: once a failed run is the newest in the log, an alert has been
\* raised for that outage.
NoSilentOutage == Alerting /\ db.lastOutcome = "failure" => alerts >= 1

\* "One alert per outage" (run_ingestion).  The alert is posted before the commit,
\* so a crash in between may repeat it, and nothing else does.
OneAlertPerOutage == alerts <= 1 + crashes

\* An exception nothing names escapes while m is read (see EscapeException).
Crashing(m) == \E d \in DocsOf[m] : KindOf[d] = "crashing"

\* While ingestion stays configured and no such message arrives, every delivered message
\* is eventually behind the checkpoint: failing Graph calls, crashes of the process and
\* a capped backlog only delay it.
EveryMessagePassed ==
    <>[](configured /\ \A m \in inbox : ~Crashing(m)) =>
      \A m \in Messages : m \in inbox ~> Passed(m)

\* "One bad report cannot take down a batch" (ingest.py): the same for the messages
\* that carry no document an unnamed exception escapes from.
GoodMessagesPassed ==
    <>[]configured =>
      \A m \in {n \in Messages : ~Crashing(n)} : m \in inbox ~> Passed(m)

-----------------------------------------------------------------------------
(* What makes SkipsAreExplained and ReadMeansStored inductive.  Each part is     *)
(* said of the committed tables and of the transaction's view of them.           *)

\* Every message at or below the checkpoint is accounted for.
Covered(t) ==
    \A m \in inbox : received[m] <= t.checkpoint =>
      \/ t.fate[m] \in {"read", "missed"}
      \/ \E n \in inbox : n # m /\ t.fate[n] = "read" /\ received[n] = received[m]

\* The checkpoint is the received time of a message that was read.
Grounded(t) ==
    t.checkpoint = 0 \/ \E n \in inbox : t.fate[n] = "read" /\ received[n] = t.checkpoint

ReadIsPassed(t) ==
    \A m \in Messages : t.fate[m] = "read" => m \in inbox /\ received[m] <= t.checkpoint

\* The messages the running poll has still to account for.
Ahead == pending \cup ({current} \cap inbox)

InTime == \A m \in inbox : received[m] \in 1 .. clock

\* The poll works through its listing in order, and nothing it did not list is older.
InOrder ==
    /\ \A p \in Ahead : tx.fate[p] # "read"
    /\ current \notin pending
    /\ current \in inbox => \A p \in pending : received[current] <= received[p]
    /\ \A p \in Ahead, m \in inbox \ Ahead :
         tx.fate[m] = "unseen" /\ received[m] > tx.checkpoint => received[p] <= received[m]

\* Before the listing the transaction has written nothing, and nothing is left over.
Fresh == phase \in {"idle", "listing"} => tx = db /\ pending = {}

CheckpointInv ==
    /\ \A t \in {db, tx} : Covered(t) /\ Grounded(t) /\ ReadIsPassed(t)
    /\ InTime
    /\ InOrder
    /\ Fresh

\* Every well-formed report of a read message is in the tables or was refused.
StoredIn(t, d) == KindOf[d] = "report" => ReportOf[d] \in t.reports \/ d \in t.rejected
AllStored(t) == \A m \in Messages : t.fate[m] = "read" => \A d \in DocsOf[m] : StoredIn(t, d)

StorageInv ==
    /\ AllStored(db)
    /\ AllStored(tx)
    /\ phase = "message" => \A d \in DocsOf[current] \ todo : StoredIn(tx, d)

\* reports_parsed, already logged or still to be logged, counts the stored reports.
CountInv ==
    /\ db.total = Cardinality(db.reports)
    /\ tx.total + parsed = Cardinality(tx.reports)
    /\ phase \in {"idle", "listing"} => parsed = 0 /\ tx = db

-----------------------------------------------------------------------------
\* Readers of the database see a sequence of whole polls: see IngestPromise.
Promise == INSTANCE IngestPromise WITH store <- db
KeepsPromise == Promise!Spec
=============================================================================
