------------------------------ MODULE Reports ------------------------------
(***************************************************************************)
(* From a report document to the numbers a person acts on: the parsers     *)
(* (rua/reports/aggregate.py, rua/reports/tlsrpt.py), what ingestion       *)
(* stores of them (ingest._persist_aggregate, ingest._persist_tls), the    *)
(* dashboard's queries (rua/queries.py), the readiness verdict             *)
(* (rua/readiness.py) and the views of rua/api.py and rua/presentation.py. *)
(*                                                                         *)
(* Rows are the raw ones: module Retention has the rollups.  Percentages   *)
(* are compared by cross multiplication, never divided.  A network is the  *)
(* set of addresses in it, so the longer prefix is the smaller set.        *)
(***************************************************************************)
EXTENDS Integers, Sequences, FiniteSets, Functions

CONSTANTS
    Domains,            \* domains of the tenant, in header_from or as a policy domain
    Orgs,               \* reporters
    Addresses,          \* source IPs
    Sources,            \* org_name of the rows of the source table
    Classification,     \* their classification, "known" or "unclassified"
    Ranges,             \* their networks
    AggregateDocs,      \* DMARC reports that may arrive
    TlsDocs,            \* TLS-RPT reports that may arrive
    Zones,              \* what a domain sync may write: one value per signal
    Windows,            \* lengths the range picker offers, in days
    Absent,             \* an element or a field that is missing or unusable
    ReadyThreshold,     \* READY_THRESHOLD, percent
    MaxUnclassified,    \* MAX_UNCLASSIFIED_SHARE, percent
    MinVolume,          \* MIN_VOLUME
    MaxStored,          \* bound: reports that are stored
    MaxDay              \* bound: the last day

Days == 0 .. MaxDay

Signals == {"dmarc", "spf", "dkim", "mtasts", "tlsrpt"}

\* The enums of the domain table.
Values(signal) ==
    CASE signal = "dmarc"  -> {"reject", "quarantine", "none", "missing", "na"}
      [] signal = "spf"    -> {"pass", "softfail", "missing", "na"}
      [] signal = "dkim"   -> {"pass", "partial", "missing", "na"}
      [] signal = "mtasts" -> {"enforce", "testing", "missing", "na"}
      [] signal = "tlsrpt" -> {"present", "missing", "na"}

AllValues == UNION {Values(s) : s \in Signals}

AllZones == {z \in [Signals -> AllValues] : \A s \in Signals : z[s] \in Values(s)}

\* A document of either kind.  The parsers raise for one without usable dates,
\* and Ingest has that outcome: here every document has a date range.
AggregateRecord ==
    [row: BOOLEAN, ip: Addresses \cup {Absent}, count: Int \cup {Absent},
     spf: STRING, dkim: STRING, from: Domains \cup {Absent}]

AggregateDoc ==
    [org: Orgs, id: STRING \cup {Absent}, domain: Domains \cup {Absent},
     begin: Days, end: Days, records: Seq(AggregateRecord)]

TlsDetail == [type: STRING \cup {Absent}, failed: Int \cup {Absent}]

TlsPolicy ==
    [domain: Domains \cup {Absent}, ok: Int \cup {Absent}, failed: Int \cup {Absent},
     details: Seq(TlsDetail)]

TlsDoc ==
    [org: Orgs, id: STRING \cup {Absent}, begin: Days, end: Days, policies: Seq(TlsPolicy)]

Networks == UNION {Ranges[s] : s \in Sources}

ASSUME SourceAssumption ==
    /\ IsFiniteSet(Addresses)
    /\ Classification \in [Sources -> {"known", "unclassified"}]
    /\ Ranges \in [Sources -> SUBSET ((SUBSET Addresses) \ {{}})]
    /\ \A n, m \in Networks : n \subseteq m \/ m \subseteq n \/ n \cap m = {}
    /\ \A s, t \in Sources : s # t => Ranges[s] \cap Ranges[t] = {}

ASSUME DocumentAssumption ==
    /\ IsFiniteSet(Domains)
    /\ AggregateDocs \subseteq AggregateDoc
    /\ TlsDocs \subseteq TlsDoc
    /\ Absent \notin Domains \cup Addresses \cup Sources

ASSUME ScoreAssumption ==
    /\ Zones \subseteq AllZones
    /\ Windows \subseteq Nat \ {0}
    /\ ReadyThreshold \in 1 .. 100
    /\ MaxUnclassified \in 0 .. 100
    /\ MinVolume \in Nat \ {0}
    /\ MaxStored \in Nat
    /\ MaxDay \in Nat

VARIABLES
    today,      \* the current date, UTC
    signals,    \* the five posture columns of each domain
    reports,    \* the report table; the position is the primary key
    rows,       \* the report_row table
    tlsReports, \* the tls_report table
    tlsRows,    \* the tls_result_row table
    received    \* history: documents that were parsed

vars == <<today, signals, reports, rows, tlsReports, tlsRows, received>>

Init ==
    /\ today = 0
    /\ signals \in [Domains -> Zones]
    /\ reports = <<>>
    /\ rows = {}
    /\ tlsReports = <<>>
    /\ tlsRows = {}
    /\ received = {}

-----------------------------------------------------------------------------
(* Parsing an aggregate report *)

\* A key made of the dates alone would take one reporter's report for another's.
BugAggregateKey(doc) ==
    IF doc.id # Absent THEN <<doc.id>> ELSE <<doc.domain, doc.begin, doc.end>>

\* report_id, or one synthesised from the conventional file name.
AggregateKey(doc) ==
    IF doc.id # Absent THEN <<doc.id>> ELSE <<doc.org, doc.domain, doc.begin, doc.end>>

\* header_from, falling back to the published policy's domain.
HeaderFrom(doc, record) == IF record.from # Absent THEN record.from ELSE doc.domain

\* A count below zero stored as it came.
BugUsable(doc, record) ==
    /\ record.row
    /\ record.ip # Absent
    /\ record.count # Absent
    /\ HeaderFrom(doc, record) # Absent

\* What is not skipped: a row with an address, a count and a domain.
Usable(doc, record) ==
    /\ record.row
    /\ record.ip # Absent
    /\ record.count # Absent
    /\ record.count >= 0
    /\ HeaderFrom(doc, record) # Absent

Aligned(verdict) == verdict = "pass"

AggregateRows(doc, pk) ==
    {[report |-> pk, n |-> i, day |-> doc.begin,
      domain |-> HeaderFrom(doc, doc.records[i]), ip |-> doc.records[i].ip,
      count |-> doc.records[i].count,
      spf |-> Aligned(doc.records[i].spf), dkim |-> Aligned(doc.records[i].dkim)]
        : i \in {j \in DOMAIN doc.records : Usable(doc, doc.records[j])}}

-----------------------------------------------------------------------------
(* Parsing a TLS-RPT report *)

\* report_id, or one synthesised from the reporter and the dates.
TlsKey(doc) == IF doc.id # Absent THEN <<doc.id>> ELSE <<doc.org, doc.begin, doc.end>>

Count(n) == IF n = Absent \/ n < 0 THEN 0 ELSE n

Typed(policy) == {j \in DOMAIN policy.details : policy.details[j].type # Absent}

\* Failures the breakdown accounts for.
Explained(policy) ==
    SumFunction([j \in Typed(policy) |-> Count(policy.details[j].failed)])

\* The breakdown counted with the details the parser passes over.
BugRemainder(policy) ==
    Count(policy.failed)
      - SumFunction([j \in DOMAIN policy.details |-> Count(policy.details[j].failed)])

Remainder(policy) == Count(policy.failed) - Explained(policy)

SuccessRow(policy) ==
    [n |-> 0, type |-> "successful-session", ok |-> Count(policy.ok), failed |-> 0]

CauseRow(policy, j) ==
    [n |-> j, type |-> policy.details[j].type, ok |-> 0,
     failed |-> Count(policy.details[j].failed)]

LeftoverRow(policy) ==
    [n |-> Len(policy.details) + 1, type |-> "unspecified-failure", ok |-> 0,
     failed |-> Remainder(policy)]

\* One row for the successes, one per cause, one for what the causes leave over.
PolicyResults(policy) ==
    {r \in {SuccessRow(policy)} : r.ok > 0}
    \cup {CauseRow(policy, j) : j \in Typed(policy)}
    \cup {r \in {LeftoverRow(policy)} : r.failed > 0}

TlsRows(doc, pk) ==
    UNION {{[report |-> pk, policy |-> i, n |-> r.n, day |-> doc.begin,
             domain |-> doc.policies[i].domain, type |-> r.type, ok |-> r.ok, failed |-> r.failed]
                : r \in PolicyResults(doc.policies[i])}
            : i \in {j \in DOMAIN doc.policies : doc.policies[j].domain # Absent}}

-----------------------------------------------------------------------------
(* Queries: every view of a window is computed from the same rows *)

InWindow(day, length) == today - length < day /\ day <= today

Recent(length) == {r \in rows : InWindow(r.day, length)}

RecentTls(length) == {r \in tlsRows : InWindow(r.day, length)}

\* The sources with a network the address is in, as <<source, network>>.
Covering(ip) ==
    UNION {{<<s, network>> : network \in {n \in Ranges[s] : ip \in n}} : s \in Sources}

\* The carve-out sorted behind the network around it.
BugClassify ==
    [ip \in Addresses |->
        IF Covering(ip) = {} THEN Absent
        ELSE (CHOOSE c \in Covering(ip) :
                \A other \in Covering(ip) : Cardinality(c[2]) >= Cardinality(other[2]))[1]]

\* The sender of each address: longest prefix first.
Classify ==
    [ip \in Addresses |->
        IF Covering(ip) = {} THEN Absent
        ELSE (CHOOSE c \in Covering(ip) :
                \A other \in Covering(ip) : Cardinality(c[2]) <= Cardinality(other[2]))[1]]

Known(ip) == Classify[ip] # Absent /\ Classification[Classify[ip]] = "known"

Volume(some) == SumFunction([r \in some |-> r.count])

Passing(some) == {r \in some : r.spf \/ r.dkim}

\* ip_stats, which groups in SQL, and _split, which classifies each group.
StatOf(some, ip) ==
    [count |-> Volume({r \in some : r.ip = ip}), pass |-> Volume(Passing({r \in some : r.ip = ip}))]

\* Every named source taken for a known one.
BugSplitOf(stat, ip) ==
    IF Classify[ip] # Absent
    THEN [pass |-> stat.pass, known |-> stat.count - stat.pass, unclassified |-> 0]
    ELSE [pass |-> stat.pass, known |-> 0, unclassified |-> stat.count - stat.pass]

SplitOf(stat, ip) ==
    IF Known(ip) THEN [pass |-> stat.pass, known |-> stat.count - stat.pass, unclassified |-> 0]
    ELSE [pass |-> stat.pass, known |-> 0, unclassified |-> stat.count - stat.pass]

Total(split) == split.pass + split.known + split.unclassified

Legitimate(split) == split.pass + split.known

SumSplits(splits) ==
    [pass |-> SumFunction([x \in DOMAIN splits |-> splits[x].pass]),
     known |-> SumFunction([x \in DOMAIN splits |-> splits[x].known]),
     unclassified |-> SumFunction([x \in DOMAIN splits |-> splits[x].unclassified])]

SplitOver(some) == SumSplits([ip \in {r.ip : r \in some} |-> SplitOf(StatOf(some, ip), ip)])

DomainSplits(length) ==
    [d \in Domains |-> SplitOver({r \in Recent(length) : r.domain = d})]

DailySplits(length) ==
    [day \in Days |-> SplitOver({r \in Recent(length) : r.day = day})]

\* The Sources screen: a named sender is one row, any other sender is its address.
SenderKey(ip) == IF Classify[ip] = Absent THEN ip ELSE Classify[ip]

\* A join with the source table, where overlapping networks repeat a row.
BugSourceRows(length) ==
    {[sender |-> s,
      volume |-> Volume({r \in Recent(length) : \E c \in Covering(r.ip) : c[1] = s}),
      pass |-> Volume(Passing({r \in Recent(length) : \E c \in Covering(r.ip) : c[1] = s}))]
        : s \in Sources}
    \cup {[sender |-> ip,
           volume |-> Volume({r \in Recent(length) : r.ip = ip}),
           pass |-> Volume(Passing({r \in Recent(length) : r.ip = ip}))]
             : ip \in {r.ip : r \in {x \in Recent(length) : Covering(x.ip) = {}}}}

SourceRows(length) ==
    {[sender |-> k,
      volume |-> Volume({r \in Recent(length) : SenderKey(r.ip) = k}),
      pass |-> Volume(Passing({r \in Recent(length) : SenderKey(r.ip) = k}))]
        : k \in {SenderKey(r.ip) : r \in Recent(length)}}

TlsTotals(length) ==
    [ok |-> SumFunction([r \in RecentTls(length) |-> r.ok]),
     failed |-> SumFunction([r \in RecentTls(length) |-> r.failed])]

TlsFailing(length) == {r \in RecentTls(length) : r.failed > 0}

TlsFailures(length) ==
    {[type |-> t,
      count |-> SumFunction([r \in {x \in TlsFailing(length) : x.type = t} |-> r.failed])]
        : t \in {r.type : r \in TlsFailing(length)}}

TlsFrom(length, org) == {r \in RecentTls(length) : tlsReports[r.report].org = org}

TlsReporters(length) ==
    {[org |-> o,
      ok |-> SumFunction([r \in TlsFrom(length, o) |-> r.ok]),
      failed |-> SumFunction([r \in TlsFrom(length, o) |-> r.failed])]
        : o \in {tlsReports[r.report].org : r \in RecentTls(length)}}

-----------------------------------------------------------------------------
(* The verdict and the Overview's suggestion *)

\* The score is null without legitimate volume.
ScoreAtLeast(split, percent) ==
    Legitimate(split) > 0 /\ 100 * split.pass >= percent * Legitimate(split)

UnclassifiedAtMost(split, percent) == 100 * split.unclassified <= percent * Total(split)

Verdict(split, dmarc) ==
    IF dmarc = "na" THEN "not_applicable"
    ELSE IF dmarc = "reject" THEN "at_reject"
    ELSE IF Total(split) < MinVolume THEN "insufficient_data"
    ELSE IF /\ ScoreAtLeast(split, ReadyThreshold)
            /\ UnclassifiedAtMost(split, MaxUnclassified) THEN "ready"
    ELSE "not_ready"

Verdicts(splits) == [d \in Domains |-> Verdict(splits[d], signals[d]["dmarc"])]

Candidates(splits) ==
    {d \in Domains : signals[d]["dmarc"] \in {"none", "quarantine"} /\ Total(splits[d]) > 0}

\* Higher readiness, a null below every score; then more volume.
Outranks(s, t) ==
    \/ Legitimate(s) > 0 /\ Legitimate(t) = 0
    \/ s.pass * Legitimate(t) > t.pass * Legitimate(s)
    \/ /\ (Legitimate(s) > 0) = (Legitimate(t) > 0)
       /\ s.pass * Legitimate(t) = t.pass * Legitimate(s)
       /\ Total(s) > Total(t)

\* The score alone ranks.
BugRanksBefore(d, e, splits) == Outranks(splits[d], splits[e])

\* "ready" verdicts rank first.
RanksBefore(d, e, splits) ==
    LET ready(x) == Verdicts(splits)[x] = "ready"
    IN  \/ ready(d) /\ ~ready(e)
        \/ ready(d) = ready(e) /\ Outranks(splits[d], splits[e])

\* The domains nothing ranks before; the first by name is suggested.
Callouts(splits) ==
    {d \in Candidates(splits) : \A e \in Candidates(splits) : ~RanksBefore(e, d, splits)}

-----------------------------------------------------------------------------
(* The severity of a domain, decided in two places *)

\* p=none taken for a policy.
BugWarnValues == {"quarantine", "softfail", "partial", "testing"}

WarnValues == {"quarantine", "none", "softfail", "partial", "testing"}

\* The numbers an API record carries, which sort the Domains table.
GapCount(zone) == Cardinality({s \in Signals : zone[s] = "missing"})

WarnCount(zone) == Cardinality({s \in Signals : zone[s] \in WarnValues})

\* The four buckets of the Overview.
PostureBucket(zone) ==
    IF \A s \in Signals : zone[s] = "na" THEN "na"
    ELSE IF \E s \in Signals : zone[s] = "missing" THEN "gaps"
    ELSE IF \E s \in Signals : zone[s] \in WarnValues THEN "partial"
    ELSE "protected"

\* TONES, signal by signal.
Tone(signal, value) ==
    CASE value = "na" -> "na"
      [] value = "missing" -> "gap"
      [] <<signal, value>> \in {<<"dmarc", "reject">>, <<"spf", "pass">>, <<"dkim", "pass">>,
                               <<"mtasts", "enforce">>, <<"tlsrpt", "present">>} -> "ok"
      [] <<signal, value>> \in {<<"dmarc", "quarantine">>, <<"dmarc", "none">>, <<"spf", "softfail">>,
                               <<"dkim", "partial">>, <<"mtasts", "testing">>} -> "warn"

\* The marker of a row of the Domains table.
SeverityTone(zone) ==
    LET tones == {Tone(s, zone[s]) : s \in Signals}
    IN  IF tones = {"na"} THEN "na"
        ELSE IF "gap" \in tones THEN "gap"
        ELSE IF "warn" \in tones THEN "warn" ELSE "ok"

-----------------------------------------------------------------------------
(* Actions *)

\* A document whose key is stored already is a duplicate and changes nothing.
ReceiveAggregate(doc) ==
    /\ Len(reports) + Len(tlsReports) < MaxStored
    /\ received' = received \cup {doc}
    /\ IF \E pk \in DOMAIN reports : reports[pk].key = AggregateKey(doc)
       THEN UNCHANGED <<reports, rows>>
       ELSE /\ reports' = Append(reports, [key |-> AggregateKey(doc), org |-> doc.org])
            /\ rows' = rows \cup AggregateRows(doc, Len(reports) + 1)
    /\ UNCHANGED <<today, signals, tlsReports, tlsRows>>

ReceiveTls(doc) ==
    /\ Len(reports) + Len(tlsReports) < MaxStored
    /\ received' = received \cup {doc}
    /\ IF \E pk \in DOMAIN tlsReports : tlsReports[pk].key = TlsKey(doc)
       THEN UNCHANGED <<tlsReports, tlsRows>>
       ELSE /\ tlsReports' = Append(tlsReports, [key |-> TlsKey(doc), org |-> doc.org])
            /\ tlsRows' = tlsRows \cup TlsRows(doc, Len(tlsReports) + 1)
    /\ UNCHANGED <<today, signals, reports, rows>>

\* A domain sync writes the signals; module DomainSync has how it finds them.
Resync(domain, zone) ==
    /\ zone # signals[domain]
    /\ signals' = [signals EXCEPT ![domain] = zone]
    /\ UNCHANGED <<today, reports, rows, tlsReports, tlsRows, received>>

\* Midnight moves every window.
NextDay ==
    /\ today < MaxDay
    /\ today' = today + 1
    /\ UNCHANGED <<signals, reports, rows, tlsReports, tlsRows, received>>

Next ==
    \/ \E doc \in AggregateDocs : ReceiveAggregate(doc)
    \/ \E doc \in TlsDocs : ReceiveTls(doc)
    \/ \E domain \in Domains, zone \in Zones : Resync(domain, zone)
    \/ NextDay

Spec == Init /\ [][Next]_vars
-----------------------------------------------------------------------------
(* Properties *)

\* The tables hold rows of the reports they name, with counts that are not
\* negative (the CHECK constraints of models.py), and no key twice.
TypeOK ==
    /\ today \in Days
    /\ signals \in [Domains -> Zones]
    /\ received \subseteq AggregateDocs \cup TlsDocs
    /\ \A pk, other \in DOMAIN reports : reports[pk].key = reports[other].key => pk = other
    /\ \A pk, other \in DOMAIN tlsReports : tlsReports[pk].key = tlsReports[other].key => pk = other
    /\ \A r \in rows :
        /\ r.report \in DOMAIN reports
        /\ r.domain \in Domains /\ r.ip \in Addresses /\ r.day \in Days
        /\ r.count >= 0
    /\ \A r \in tlsRows :
        /\ r.report \in DOMAIN tlsReports
        /\ r.domain \in Domains /\ r.day \in Days
        /\ r.ok >= 0 /\ r.failed >= 0

\* Storing aggregate reports in any order, with redeliveries, keeps each of them
\* once: documents are one report only if they state one id or, stating none,
\* have one reporter, domain and date range (aggregate.py, report_id).
EachReportStoredOnce ==
    LET sameReport(d, e) ==
            IF d.id # Absent \/ e.id # Absent THEN d.id = e.id
            ELSE d.org = e.org /\ d.domain = e.domain /\ d.begin = e.begin /\ d.end = e.end
        docs == received \cap AggregateDocs
    IN  Len(reports) = Cardinality({{e \in docs : sameReport(d, e)} : d \in docs})

\* The Domains table, the trend chart and the Sources screen show one volume and
\* one number of passes for any window, though each groups the rows its own way
\* and classifies the groups itself; overlapping networks count once
\* (queries.py, domain_splits, daily_splits, source_rows).
ViewsAgree ==
    \A w \in Windows :
        LET perDomain == SumSplits(DomainSplits(w))
        IN  /\ perDomain = SumSplits(DailySplits(w))
            /\ Total(perDomain) = SumFunction([r \in SourceRows(w) |-> r.volume])
            /\ perDomain.pass = SumFunction([r \in SourceRows(w) |-> r.pass])

\* The records of a domain that the window's documents hold and the tables kept,
\* as <<document, position>>, and what the document itself says of each.
RecordsOf(d, length) ==
    UNION {{<<doc, i>> : i \in {j \in DOMAIN doc.records :
                /\ HeaderFrom(doc, doc.records[j]) = d
                /\ \E r \in rows : r.n = j /\ reports[r.report].key = AggregateKey(doc)}}
            : doc \in {x \in received \cap AggregateDocs : InWindow(x.begin, length)}}

RecordAt(c) == c[1].records[c[2]]

Stated(some) == SumFunction([c \in some |-> RecordAt(c).count])

Delivered(some) == {c \in some : RecordAt(c).spf = "pass" \/ RecordAt(c).dkim = "pass"}

InnermostIsKnown(ip) ==
    \E s \in Sources : \E n \in Ranges[s] :
        /\ ip \in n
        /\ Classification[s] = "known"
        /\ \A m \in Networks : ip \in m => n \subseteq m

Ours(some) == {c \in some \ Delivered(some) : InnermostIsKnown(RecordAt(c).ip)}

Unknown(some) == some \ (Delivered(some) \cup Ours(some))

\* A domain is called ready only if its reports, read row by row and each failure
\* attributed to the innermost network around its address, show that p=reject
\* would lose no more of the known mail than the threshold allows, with a small
\* enough unknown remainder and enough volume (readiness.py, verdict).  Documents
\* that differ have different keys here.
ReadyIsEarned ==
    \A w \in Windows : \A d \in Domains :
        Verdicts(DomainSplits(w))[d] = "ready" =>
            LET records == RecordsOf(d, w)
            IN  /\ Stated(records) >= MinVolume
                /\ (100 - ReadyThreshold) * Stated(Delivered(records))
                       >= ReadyThreshold * Stated(Ours(records))
                /\ 100 * Stated(Unknown(records)) <= MaxUnclassified * Stated(records)
                /\ Stated(Delivered(records)) > 0

\* If any domain is safe to tighten, the Overview does not suggest one that is
\* not, and a domain at p=reject is never suggested (api.py, _callout).
CalloutIsSafe ==
    \A w \in Windows :
        LET splits == DomainSplits(w)
            ready == {d \in Candidates(splits) : Verdicts(splits)[d] = "ready"}
        IN  ready # {} => Callouts(splits) # {} /\ Callouts(splits) \subseteq ready

\* The policies of the window's documents, as <<document, position>>; documents
\* that share a key are left aside, as the second of them is passed over.
TlsDeclared(length) ==
    UNION {{<<doc, i>> : i \in {j \in DOMAIN doc.policies : doc.policies[j].domain # Absent}}
            : doc \in {x \in received \cap TlsDocs :
                /\ InWindow(x.begin, length)
                /\ \A e \in received \cap TlsDocs : TlsKey(e) = TlsKey(x) => e = x}}

\* Successes and failures shown for a window are the same in total, by cause and
\* by reporter, and no summary of a stored report is understated: what its
\* breakdown leaves over is shown too (tlsrpt.py, _policy_results).
TlsAddsUp ==
    \A w \in Windows :
        /\ TlsTotals(w).failed = SumFunction([f \in TlsFailures(w) |-> f.count])
        /\ TlsTotals(w).failed = SumFunction([r \in TlsReporters(w) |-> r.failed])
        /\ TlsTotals(w).ok = SumFunction([r \in TlsReporters(w) |-> r.ok])
        /\ TlsTotals(w).failed
               >= SumFunction([c \in TlsDeclared(w) |-> Count(c[1].policies[c[2]].failed)])

\* The Overview's bucket, the row marker and the counts of a domain never differ:
\* "a domain shown amber in one place and green in another is worse than either"
\* (queries.py:5, posture_bucket, gap_count, warn_count; presentation.severity_tone).
Agree(zone) ==
    /\ <<PostureBucket(zone), SeverityTone(zone)>> \in
           {<<"na", "na">>, <<"gaps", "gap">>, <<"partial", "warn">>, <<"protected", "ok">>}
    /\ SeverityTone(zone) = "gap" <=> GapCount(zone) > 0
    /\ SeverityTone(zone) = "warn" <=> GapCount(zone) = 0 /\ WarnCount(zone) > 0

MarkersAgree == \A d \in Domains : Agree(signals[d])

\* A report of nothing but failures from senders nobody has named, a spoofing
\* campaign, cannot change the score of any domain, and cannot make one that has
\* enough volume ready (readiness.py, "either assumption lies").
SpoofingIsNeutral ==
    [][(/\ UNCHANGED <<today, signals>>
        /\ rows' # rows
        /\ \A r \in rows' \ rows : ~r.spf /\ ~r.dkim /\ ~Known(r.ip)) =>
            \A w \in Windows :
                LET before == DomainSplits(w)
                    after == DomainSplits(w)'
                IN  \A d \in Domains :
                    /\ Legitimate(before[d]) = Legitimate(after[d])
                    /\ before[d].pass = after[d].pass
                    /\ Verdicts(before)[d] = "not_ready" => Verdicts(after)[d] # "ready"]_vars
=============================================================================
