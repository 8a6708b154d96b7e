# Rua, modelled and checked

TLA+ models of Rua, a self-hosted DMARC and TLS-RPT report reader, with the
TLC runs that check them and TLAPS proofs about seven of them. Paths are relative
to the repository. `PROJECT.json` maps every definition to the lines it models.

## The system

Rua is two processes and a PostgreSQL database. The *API process* serves the
setup wizard and the dashboard. The *scheduler process* runs three jobs: a
mailbox poll every few minutes, a domain sync once a day, and retention an hour
later. Commands (`rua retention`, `rua sync-domains`, `rua reset-setup`) are
processes of their own beside them. Nothing is shared but the database, so every
interaction is between transactions at READ COMMITTED.

| component | state it keeps | operations | what makes it correct |
|---|---|---|---|
| ingestion (`ingest.py`) | `report`, `report_row`, `tls_report`, `tls_result_row`, `ingest_run`, the checkpoint setting | one poll: list, fetch, extract, store, checkpoint, outcome, alert | no message silently skipped, a report stored once, log and alerts true |
| Graph client (`graph.py`) | a cached token | list messages, get attachments, list domains, the two tests | oldest first, no hole, bounded; a denial is never an empty mailbox; no call with a token that expires under it |
| extraction and parsing (`reports/`) | none | bytes to documents to reports | bounded work, every refusal named |
| retention (`retention.py`) | `daily_rollup`, and deletes from the tables above | one run of seven statements | nothing dropped, nothing double counted, old rows go |
| queries (`queries.py`), readiness (`readiness.py`), pages, API | none | reads | a page adds raw rows and rollups without overlap; the score is of the known volume |
| wizard (`wizard.py`, `routes/setup.py`) | settings, `admin_user`, verdicts stamped with generations | a POST per step, two tests, completion, reset | a verdict counts only for the inputs it was made for; no completion without both |
| gate (`middleware.py`) | a latch | let through or redirect | the wizard unavoidable before completion and closed after; redirects end |
| settings store (`settings_store.py`) | `setting` | get, set, delete, bump | counters incremented in the database |
| domain sync (`domain_sync.py`) | `domain` | one run over the tenant's domains | stored values come from lookups, each new gap alerted, the table catches up |
| posture (`posture.py`) | none | records to verdicts | a failed lookup is not a missing record |
| alerts (`alerts.py`) | none | two messages | one per outage, one per new gap |
| scheduler, commands (`cli.py`) | job store in memory | start jobs, swallow what escapes | one instance of each job |
| sessions (`db.py`) | none | commit or roll back | all or nothing |
| login, secrets (`routes/auth.py`, `security.py`, `crypto.py`) | a signed cookie, a key | sign in, encrypt | a session is earned; what step 1 stores opens the account; a secret another key cannot read is absent |

The hard behaviours are all of one kind: a transaction that spans calls to
somebody else (Graph, DNS, a webhook) while other transactions commit. The
hazards, each at its line with the properties that watch it, are in
`PROJECT.json`.

## The modules

| module | models | size of the state |
|---|---|---|
| `Ingest` | a poll (`ingest.py`, `cli._ingest_job`) and the mailbox it reads | tables committed and as the transaction sees them, the locals of the loop |
| `IngestPromise` | what readers of the database see: whole polls | inbox and committed tables |
| `Retention` | `run_retention` statement by statement, ingestion commits, the dashboard's two-statement read | tables, a statement counter and uncommitted effects per run |
| `SetupWizard` | `setup_submit` and `wizard.py` statement by statement, `setup_step`, the gate's latch, `reset_setup`, restarts | settings committed and written per request |
| `DomainSync` | `run_domain_sync`, `check_domain`, DNS zones and tenant | the table, and the rows, findings and gaps each run carries |
| `Reports` | from a document to the numbers on a page: the parsers (`reports/aggregate.py`, `reports/tlsrpt.py`), what is stored of them, `queries.py`, the verdict (`readiness.py`), the callout and the severity markers (`api.py`, `presentation.py`) | the report and row tables, the signals of each domain, the day |
| `Access` | the gate, the sign-in, the account of step 1, the sample-data detour, restarts and a rotated `SECRET_KEY` (`middleware.py`, `routes/auth.py`, `security.py`, `crypto.py`, `db.get_session`) | settings, a cookie and a pending commit per browser, the latch, the key |
| `GraphClient` | every operation of `graph.py` as a series of calls, with Entra, Exchange and the mailbox | a clock, the token, the call under way, the position in a listing |
| `MailboxView` | what a listing promises ingestion: one look at the mailbox | the mailbox and a listing |
| `MCIngest`, `MCRetention`, `MCSetupWizard`, `MCReports`, `MCAccess` | contents, documents and symmetry for TLC | |
| `IngestProofs`, `RetentionProofs`, `ReportsProofs`, `AccessProofs`, `GraphClientProofs`, `DomainSyncProofs`, `SetupWizardProofs` | theorems | |
| `SumTheorems` | facts about finite sums, for `ReportsProofs` | |

`GraphClient` stands below `Ingest`: it shows that the listing `Ingest` takes in one
step (`ListMessages`, up to a cap) is what paging delivers while messages arrive.
`Access` stands beside `SetupWizard`: it takes the two checks as passed or not, and
has the accounts, sessions and redirects that `SetupWizard` leaves out.

### Ingest

`db` is what is committed and `tx` what the running poll would commit.
`BeginRun` opens the transaction; `NotConfigured`, `ListFails` and
`ListMessages` are the ways `_execute` begins; `FetchFails` and
`FetchAttachments` are one turn of the loop; the `Document` actions are the
outcomes of one document in its savepoint; `FinishMessage` moves the checkpoint
(`newest_seen`); `FinishBatch` computes the outcome and alerts; `Commit`
publishes; `Rollback` is the end of the process or of the connection;
`EscapeException` is an exception `_ingest_attachment` does not name.
`NoMessage`, `fate` and `rejected` are bookkeeping for the properties.

A message is its documents, a document is how it turns out. DMARC and TLS-RPT
reports follow the same path and are not told apart. Times are whole seconds,
which is what Graph stamps and what the filter sends.

The parameter `DistinctSeconds` exists for `IngestSkip`: the weaker form of the
checkpoint rule, `SkipsAreExplained`, has to except messages that share a
second, and the run for `NothingSkipped` shows that the skip it finds is not of
that kind.

### Retention

All rows of a report carry one date (`date_begin`), so a report stands for its
rows, and `rolled[r]` counts how often they were added to `daily_rollup`. The
statements are `SelectRows`, `Upsert`, the four `Delete...` actions and
`ExpireAndCommit` (the deletion of old rollups, and the commit). Each sees what
is committed when it starts. A statement that would touch a row another run has
touched waits: `Upsert` for the days, the deletions for the rows. `Abort` ends a
run at any statement. `ReadRaw` and `ReadRollups` are the two statements of
`domain_splits` and `daily_splits`, in a READ COMMITTED transaction of their own.

`Overlap` says whether runs overlap each other and ingestion commits.
`FALSE` is the ordinary night; `TRUE` is what nothing in the code prevents.

### SetupWizard

`Open` is the top of `setup_submit`; `SaveAccount`, `SaveScoping`, `Compare`,
`WriteInputs` and `Bump` persist a step's inputs; `Stay`, `Back`, `Advance`,
`CheckAll` and `Finish` are the buttons; `ReadGeneration`, `ReadInputs`,
`Recheck`, `RecordPass` and `RecordFail` are a check with a slow answer.
`Commit` comes after the handler (`get_session`), `Fail` instead of it. `Put`
waits for the row locks of other requests; a write that changes nothing takes
none, as the ORM sends no UPDATE for it. `Revisit` is `GET /setup/{n}`,
`ResetSetup` the command, `Restart` a new API process, `Visit` any request that
lets the gate see a completed setup.

`Windows` says whether another transaction may commit in the instants between a
comparison and the write that relies on it (`Compare` to `Bump`, `CheckAll` to
the commit). The runs keep them closed: what they are about is the wait for
Graph, which lasts seconds. With `Windows` open those instants are real races
between two hand-submitted forms, listed among the hazards and not yet a run.

### DomainSync

`BeginRun` is Graph's list and the one SELECT; `CheckDomain` is a turn of the
loop, with any set of its lookups failing and possibly the fetch of the MTA-STS
policy; `SkipDomain` is a check that raises; `Flush` is the flush, which fails on
a duplicate name or on the constraint that pairs `dmarc` with `rua_matches`;
`Alert` precedes `Commit`; `Fail` ends a run anywhere. A run writes only columns
that differ from what it loaded, over what is committed by then (`Merged`).
`EditZone` and `EditTenant` are the owners.

A posture is `set` or `missing`; the softer values change wording only. Two
signals stand for five: `dmarc`, which is paired with `rua_matches`, and
`mtasts`, the one with a fetch behind its lookup; `spf`, `dkim` and `tlsrpt`
follow the path they share.

### Reports

`ReceiveAggregate` and `ReceiveTls` parse a document and store it, or find its
key stored; `Resync` is a domain sync writing the signals; `NextDay` moves every
window. All the rest are operators: `AggregateRows` and `TlsRows` are the
parsers, `DomainSplits`, `DailySplits`, `SourceRows` and the three `Tls...`
views the queries, `Verdict`, `Callouts`, `PostureBucket` and `SeverityTone` what
is decided from them. They are pure, so the properties check them against what
they ought to mean: `ReadyIsEarned` recomputes the verdict from the documents.

Percentages are compared by cross multiplication, so floating-point rounding is
not modelled. A network is the set of its addresses, so the longest prefix is
the smallest set; two networks are nested or disjoint, as CIDR blocks are. Rows
are the raw ones (`Retention` has the rollups). Dispositions and TLS policy modes
are left out, as no number depends on them.

### Access

A place is a path, with the page to go to once signed in. `Answer` is the gate and
the handler behind it: the page shown, or the next redirect. `Ask` is a request whose
answer is still under way, and `Receive` its arrival, which can put back the cookie
the request carried (the session middleware writes the cookie into every answer that
had one). `Login` and `Logout` are `routes/auth.py`; `Expire` is a cookie that grew
too old. `SubmitAccount` is step 1, with the address and the password saved or
refused together; `Move`, `EditInputs` and `RunChecks` are what the rest of the wizard
does to the step and to the verdicts. `Finish` and `Sample` answer, and `Commit` or
`Lose` comes afterwards, because `get_session` commits when the answer is out.
`Rotate` is a restart with another `SECRET_KEY`: cookies and the stored secret are no
longer read. An address is a name and two marks, capitals and surrounding blanks,
which is all that `strip` and `lower` tell apart. `entered`, `earned`, `resetSince`
and `madeUnder` are bookkeeping for the properties.

### GraphClient

`Start` begins an operation with a client of its own, `Send` sends its next call,
asking for a token first when the cached one is stale or a fresh one is forced. The
`Take...` actions are what each answer does, the `Fail...` actions what a refusal or
a timeout does. While a call is under way the clock runs (`Tick`), messages arrive
and permissions change. A token carries the roles granted when Entra issued it;
Exchange decides at every call. The client reckons the expiry from the moment it
asked (`Believed`). Messages are numbered as they arrive, so a `nextLink` and a
checkpoint are numbers: what Graph's filter and order do with equal times is
`Ingest`'s subject. `Use` is the caller taking the result. `seen` and `there` are
bookkeeping.

## The runs

| run | result | shows |
|---|---|---|
| `IngestSafety` | holds | `SkipsAreExplained`, `ReadMeansStored`, `LogAccountsForReports`, `NoSilentOutage`, `OneAlertPerOutage`; `KeepsPromise`: `Ingest` implements `IngestPromise`; `EveryMessagePassed`, under `FairSpec` |
| `IngestSkip` | violated | a message whose attachments could not be fetched is skipped (`graph.py:380`) |
| `IngestBlocked` | violated | one zip with an encrypted or damaged member stops ingestion for good (`ingest.py:11`) |
| `RetentionExclusive` | holds | `CountedOnce`, `PageCountsOnce`, `OldRowsGo` when runs do not overlap |
| `RetentionDouble` | violated | two runs at once count twice (`retention.py:22`) |
| `SetupChecked` | holds | `VerdictsAreEarned`, `CompletionIsVerified`, `MovingKeepsVerdicts` |
| `SyncChecked` | holds | `NoSilentGap`, `OnlyFindingsAreStored`, `CatchesUp` with two runs at once |
| `SyncFalseGap` | violated | a failed fetch raises a gap alert (`alerts.py:92`) |
| `ReportsChecked` | holds | `EachReportStoredOnce`, `ViewsAgree`, `ReadyIsEarned`, `CalloutIsSafe`, `TlsAddsUp`, `MarkersAgree`, `SpoofingIsNeutral` |
| `AccessChecked` | holds | `SignedInIsEarned`, `LatchIsExplained`, `NavigationEnds`, `WizardUnavoidable`, `LowercaseAccountOpens`, `CompletionCanPoll` |
| `LoginLocksOut` | violated | an address typed with a capital letter in step 1 never signs in (`routes/setup.py:240`) |
| `GraphChecked` | holds | `NoCallOutlivesItsToken`, `VerdictIsEarned`; `ReadsAtOnce`: `GraphClient` implements `MailboxView`; `OperationEnds`, under `FairSpec` |

Every run that holds also checks the module's type invariant.

### Bounds

- *Ingest*: three messages, seven documents between them, two report ids, two
  seconds (three in `IngestSkip`), a page cap of two, one fault and one crash. One
  document is an archive whose extraction escapes; `EveryMessagePassed` is about the
  behaviours in which none such arrives. That is the least with a backlog
  beyond the cap, two messages in one second, a redelivered report, and a failure
  followed by a retry; every kind of document occurs.
- *Retention*: four reports (two of one day, one over two days, one TLS report),
  four days, windows of one and two days, one abort. A day is enough for a report
  to be late, rolled up and joined by another of its day.
- *SetupWizard*: two requests, one app, two secrets, one mailbox, two credential
  edits, three mailbox generations, one reset. Two generations are enough for a
  verdict to be superseded and produced again. The two requests and the two
  secrets are interchangeable, and no property names one, so they are symmetric.
- *DomainSync*: two domains, two signals, two runs, three edits, one fault. Two
  runs overlap in every order; an edit before, between and after them.
- *Reports*: two domains, two reporters, three addresses, two named senders, one
  of them unclassified with a network carved out of the known one's, 8 aggregate and 4 TLS documents
  chosen to take every branch of the parsers, three
  stored reports, two days, windows of one and two days, three zones. The
  thresholds are scaled to counts of a few messages. The system goes on
  for ever and the model stops at these bounds, hence `CHECK_DEADLOCK FALSE`.
- *Access*: two browsers (interchangeable), one name in all its spellings, two
  passwords of which one is too short, two keys, one reset. Each browser has a page
  under way besides what it does next, so an answer can cross a sign-in, a sign-out,
  a completion or a restart of the other; two keys are one rotation.
- *GraphClient*: pages of one message, at most two pages after the first, a margin
  and a call time of two ticks, tokens of five, a clock of seven, four messages, one
  change of a permission. A token is renewed within an operation, a listing meets
  its cap, and a message arrives between any two pages.

The clock, fault, crash, abort, edit and generation counters are bounded in the
guards only; every bound is a constant.

### Fairness

- `Ingest!FairSpec`: weak fairness of the poll's own steps. The interval trigger
  fires forever, no job outlives its exceptions (`cli._ingest_job`), and a poll
  has no step that waits. Arrivals, faults, crashes and configuration are not
  fair; `EveryMessagePassed` assumes that configuration stays in place.
- `Retention!FairSpec`: weak fairness of runs, the nightly trigger.
- `DomainSync!FairSpec`: weak fairness of each run's steps. `CatchesUp` rests on
  the bound of faults: it says what happens once lookups succeed.

- `GraphClient!FairSpec`: weak fairness of `Client`, the client's own steps and the
  end of each call. Every `httpx` call carries a timeout (`graph.py:56`), so an answer
  or a failure comes.

`SetupWizard` and `Access` have no fairness: operators and browsers owe nothing.
Neither has `Reports`, where nothing is promised to arrive.

## What is proved

For every value of the constants that satisfies the ASSUMEs of the modules:

- `IngestProofs!TypeCorrect` and `RetentionProofs!TypeCorrect`.
- `IngestProofs!CheckpointSkipsNothingUnexplained`. `SkipsAreExplained` speaks of
  committed tables and is not inductive. `CheckpointInv` says of `db` and `tx`
  alike that every message at or below the checkpoint is accounted for
  (`Covered`), that the checkpoint is the time of a message that was read
  (`Grounded`) and that what was read is not beyond it (`ReadIsPassed`); of the
  loop, that nothing unseen is older than what is still ahead (`InOrder`); and of
  the clock, that arrivals are not older than what is there (`InTime`). A message
  that arrives at the checkpoint's second is covered because of `Grounded`.
- `IngestProofs!ReadIsStored`: `StorageInv` adds that of the message being read,
  the documents already handled are stored or refused.
- `IngestProofs!LogMatchesReports`: `CountInv` adds `parsed` of the running poll.
- `IngestProofs!OutagesAreAlerted` and `AlertsAreNotRepeated`, both from `AlertInv`:
  during a poll `previous` is the logged outcome; an outage that is logged, or about
  to be, was alerted; and an alert no outage explains was posted by a poll that
  crashed before its commit.
- `IngestProofs!PromiseKept`: `Ingest` implements `IngestPromise`. A step of a poll
  stutters in the promise until the commit, which has to name what the poll did:
  `PollInv` says that there are sets of messages read and missed, and of documents
  refused, of which the uncommitted tables are the result. The messages are a prefix
  of what lies beyond the checkpoint (`Prefix`), the transaction marked and filed just
  these (`Marked`, `Filed`), and something failed exactly if one of them says so
  (`Tallied`), which is why the outcome that is logged is the true one.
- `RetentionProofs!NothingLostAlone`: without overlap, and if no report ends
  before it begins, `CountedOnce`. `ExclusiveInv` adds that one run at most is in
  flight, that it holds exactly what its query returned (`Holds`), and that raw
  rows are not in the rollup yet (`Separate`). The hypothesis on dates is needed:
  headers go by `date_end`, and their rows with them.
- `RetentionProofs!PagesCountOnce`: `PageCountsOnce`, under the same hypotheses and
  `WindowDays <= RawDays`. `PageInv` adds that the window of an open page ends today or
  yesterday; no report in it is then old enough for a run to roll up or to expire
  (`WindowIsRaw`), not even for one that began today.
- `ReportsProofs!Markers`: `MarkersAgree` for every content of the domain table.
  The two modules decide on different things, one on values alone and one on
  pairs of signal and value; `TonesMatchValues` shows the tables equal on the
  enums of the domain table, `CountIsPositive` and `BucketMatchesTone` carry that
  to the five signals at once. All the invariant has to say is that the signals
  are in the enums.
- `ReportsProofs!TypeCorrect` and `StoredOnce` (`EachReportStoredOnce`), from `Tables`,
  the invariant the rest of `Reports` is proved from too. It says of each kind of
  report that no key is stored twice, that every entry was made of a document that
  came and holds just the rows the parser makes of it, and that the key of every
  document that came is stored. `TypeOK` is not inductive without that: a duplicate
  changes nothing only because its key was stored before. For `StoredOnce` the
  classes of documents with one key are counted against the primary keys.
- `ReportsProofs!OneVolume` (`ViewsAgree`): each view is a sum of sums over the
  groups its query forms, which `SumGroups` makes the sum over the rows. Every row
  belongs to one domain, one day, one sender: the sender because `Classify` is a
  function of the address, however networks overlap.
- `ReportsProofs!TlsTotalsAgree` (`TlsAddsUp`): `PerCause` and `PerReporter` are
  groupings again; `NothingUnderstated` follows one policy from what it states to its
  rows, `Remainder` making up for what the causes leave open.
- `ReportsProofs!SpoofingChangesNothing` (`SpoofingIsNeutral`): the rows a step adds are
  split apart from the ones there were, address by address; the new ones add to
  `unclassified` and to nothing else. `UnknownsNeverHelp` is the arithmetic: more
  failures from unclassified senders never turn `not_ready` into `ready`, for all volumes
  and thresholds.
- `ReportsProofs!SuggestsOnlyReady` (`CalloutIsSafe`): `RanksBefore` is a strict order
  on any finite set of candidates, so it has a first one, and a ready domain is never
  behind another. Scores are fractions compared by cross multiplication;
  that this is transitive is `FractionsChain`.
- `ReportsProofs!ReadyIsJustified` (`ReadyIsEarned`), under the hypothesis
  `KeysTellApart`, that documents with the same key are one document. The rows of a
  domain are renamed to the records they were read from (`RowsAreRecords`), sums
  do not change under a renaming (`SumRename`), and the longest prefix is the
  innermost network (`LongestPrefixIsInnermost`), which has one owner because sources
  share no network and networks nest. Without the hypothesis the statement is not
  meaningful: of two documents with one key, only the first is in the tables.
- `SumTheorems`: `SumFunction` of the community modules is a fold defined through an
  unspecified choice of elements. The module shows that the order is immaterial
  (`ChosenIter`, `SumFirst`) by induction over finite sets: a set that fails has a
  smallest subset that fails (`SmallestSubset`, `SetInduction`; the failing sets are a
  set here, not an operator). What `ReportsProofs` cites follows:
  sums over unions, groups, renamings and parts of tables, and their bounds.

  `Reports` assumes finitely many domains and addresses, a ready threshold between 1
  and 100 (`READY_THRESHOLD` is 98) and a positive minimum volume.

- `AccessProofs`: `TypeCorrect`; `SessionsAreEarned` from `SessionInv`, which adds
  that no cookie, held or on its way back, is of a key to come, and that one of the
  key in use belongs to a browser that earned it (`CookiesArePast`);
  `LatchCorrect`; `CompletionPolls` from `SecretInv`, which adds that a completion
  whose commit is still pending was made with its secret (`PendingCanPoll`);
  `AccountsOpen` from `AccountAsEntered`: the stored account is what step 1 last
  accepted, without the blanks. `RedirectsEnd` and `WizardFirst` are no inductions: the
  gate knows one of five situations, `Answers` says where each of the four places leads
  in each, and `Landings` follows them for four requests.
- `GraphClientProofs!TypeCorrect`, and `VerdictsEarned` from `EarnedInv`: which operation
  is at which stage (`Stages`), that whatever a token was granted was in force since
  the operation began (`Noted`), and what the probes so far have shown (`Gathered`).
- `GraphClientProofs!TokensLast`: `TimeInv` says that a call is younger than
  `CallTime`, that the client believes in a token no longer than it lasts, and that a
  GET went out with a call's time to spare (`Timing`). It rests on `TimeAssumption`:
  a call ends within the margin, and Entra's tokens outlast two calls.
- `GraphClientProofs!ListingIsALook`: `GraphClient` implements `MailboxView` for every
  page size, cap and number of messages. The last page of a listing maps to `Look`:
  what was read up to there is what is in the mailbox at that instant, up to the cap,
  because the mailbox only grows at its end.
- `DomainSyncProofs`: `TypeCorrect`, `StoredIsLookedUp` and `GapsAreAlerted`, all from
  `SyncInv`: a run's results are its lookups over the rows it loaded
  (`ResultsAreDerived`); the gaps they open are on its list, and posted once it is
  past its alert (`GapsAreListed`); at most one run is past its flush (`OneAtATime`),
  as the flush waits for the rows of another; and rows that were loaded are still
  there (`RowsStay`, `InsertsAreNew`).
- `SetupWizardProofs`: `TypeCorrect`, `VerdictsStand` and `CompletionVerified`, for any
  number of overlapping requests, under the hypothesis `Windows = FALSE`. The
  invariant `VerdictInv` says of the committed settings, and of what each request
  would commit, that no verdict is stamped with a generation to come (`Stamped`) and
  that a current one matches the inputs (`Earned`). That survives the commit of
  another request because a transaction that changes an input also holds the counter,
  one above the committed one (`EditsBump`), and two never hold the same row
  (`LocksApart`): seen by anybody else, a counter never falls, and while it does not
  move the inputs stay (`CommitSeen`). A late answer is harmless because the
  generation was read before the inputs (`SampleMatches`), and a completion because
  its check still holds when it commits (`CompletionIsReady`), which is where the
  hypothesis is needed. `MovesKeepVerdicts` adds `MoveInv`: a transaction that holds a
  counter holds an input too, and one that holds a verdict belongs to a test.

What stays with TLC. Liveness (`EveryMessagePassed`, `OldRowsGo`, `CatchesUp`,
`OperationEnds`): the prover has no rule for fairness here. Every other property of a
run that holds is the subject of a theorem. Some theorems carry a hypothesis that is
not an ASSUME: `NothingLostAlone` and `PagesCountOnce` (no overlap, dates in order),
the three of `SetupWizardProofs` about verdicts (`Windows` closed), and
`ReadyIsJustified` (`KeysTellApart`). The runs that check these properties satisfy them.

## Not modelled

Page layout and wording; sample data; configuration; templates and migrations.
Inside the modelled parts: attachment decoding, XML and JSON syntax, DNS grammars,
the wording and delivery of alerts, the tokens of the forms. The limits of
extraction on sizes, ratios and members decide only whether a document is refused,
which `Ingest` takes as given; what they bound is work, not state.

Met on the way, and not the subject of a run:

- A report committed between retention's rollup query and its DELETE is deleted
  without having been rolled up (`retention.py:155`); `Overlap` lets it happen, and
  `CountedOnce` is checked and proved without.
- Two TLS reports without an id, of one reporter and day but about different domains,
  get the same synthetic id and are taken for one (`tlsrpt.py:126`).
- `rua reset-setup` is only seen by an API process that restarts, as its gate
  remembers the completed setup; `LatchIsExplained` excepts just that. The documents
  that describe the command mention no restart (`docs/deploy.md:77`,
  `docs/troubleshooting.md:57`, `docs/entra-registration.md:105`).
- `docs/deploy.md:44` says that the wizard's last step triggers a sync;
  `complete_setup` does not.
- The redirect after the last step, or after choosing sample data, can be followed
  before the commit: the browser is sent back into the wizard once (`db.py:71`).
- The comment on the page cap speaks of 10,000 messages (`graph.py:69`); the cap is
  tested after a page was taken, so a listing holds up to 201 pages.
- `test_mailbox` counts the messages of the inbox and takes the oldest and newest of
  the whole mailbox. `verified_domains` and `get_attachments` follow no `nextLink`.
- The read timeout of `httpx` is per read, so an answer that drips may take longer
  than `CallTime`.
- Two answers that cross can leave a browser with the older cookie; a sign-out can be
  undone that way until the cookie expires. It was earned all the same.
- Entering sample data again after retention rolled its reports up counts them twice.
- A change of the scoping mode is no input of the Graph test, so its verdict
  stays (`wizard.py:243`).
- After a reset of a completed setup, polls need only the credentials and resume
  before the two checks have passed again (`wizard.py:361`).
- A report whose rows were all skipped is stored, and `has_report_data` is still
  false.
- A `report_id` is taken to be unique across reporters: the second reporter's
  report with the same id is a duplicate.
- A TLS breakdown whose causes exceed its summary is shown as it is: the failures
  then exceed the summary. `TlsAddsUp` asks for no less than the summary.

## Plan

Built so far: `Ingest` with its promise, `Retention`, `SetupWizard`, `DomainSync`,
`Reports`, `Access`, `GraphClient` with `MailboxView`. Next:

1. The wizard with `Windows` open, and gap alerts counted.
2. The bounded reads of extraction: nested archives against the limits of size,
   ratio and number.
3. The scheduler with its three jobs over one database: retention beside polls,
   composed from `Ingest` and `Retention`.
