--------------------------- MODULE ReportsProofs ---------------------------
(* What holds of the verdict and of the severity of a domain for any domains, *)
(* documents and thresholds.                                                  *)
EXTENDS Reports, SumTheorems, SequenceTheorems

\* A value of a signal has the tone its bucket calls for: the table TONES of
\* presentation.py against MISSING and WARN_VALUES of queries.py.
LEMMA TonesMatchValues ==
    ASSUME NEW s \in Signals, NEW v \in Values(s)
    PROVE  /\ Tone(s, v) \in {"na", "gap", "ok", "warn"}
           /\ Tone(s, v) = "na" <=> v = "na"
           /\ Tone(s, v) = "gap" <=> v = "missing"
           /\ Tone(s, v) = "warn" <=> v \in WarnValues
<1>1. CASE s = "dmarc"
  BY <1>1 DEF Values, Tone, WarnValues
<1>2. CASE s = "spf"
  BY <1>2 DEF Values, Tone, WarnValues
<1>3. CASE s = "dkim"
  BY <1>3 DEF Values, Tone, WarnValues
<1>4. CASE s = "mtasts"
  BY <1>4 DEF Values, Tone, WarnValues
<1>5. CASE s = "tlsrpt"
  BY <1>5 DEF Values, Tone, WarnValues
<1> QED
  BY <1>1, <1>2, <1>3, <1>4, <1>5 DEF Signals

\* A count of signals is positive when there is such a signal.
LEMMA CountIsPositive ==
    ASSUME NEW S \in SUBSET Signals
    PROVE  /\ Cardinality(S) > 0 <=> S # {}
           /\ Cardinality(S) = 0 <=> S = {}
<1>1. IsFiniteSet(Signals)
  <2>1. IsFiniteSet({"dmarc"}) /\ IsFiniteSet({"dmarc", "spf"})
    BY FS_EmptySet, FS_AddElement, {} \cup {"dmarc"} = {"dmarc"}, {"dmarc"} \cup {"spf"} = {"dmarc", "spf"}
  <2>2. IsFiniteSet({"dmarc", "spf"} \cup {"dkim"})
    BY <2>1, FS_AddElement
  <2>3. IsFiniteSet(({"dmarc", "spf"} \cup {"dkim"}) \cup {"mtasts"})
    BY <2>2, FS_AddElement
  <2>4. IsFiniteSet((({"dmarc", "spf"} \cup {"dkim"}) \cup {"mtasts"}) \cup {"tlsrpt"})
    BY <2>3, FS_AddElement
  <2>5. Signals = (({"dmarc", "spf"} \cup {"dkim"}) \cup {"mtasts"}) \cup {"tlsrpt"}
    BY DEF Signals
  <2> QED
    BY <2>4, <2>5
<1>2. IsFiniteSet(S)
  BY <1>1, FS_Subset
<1>3. Cardinality(S) \in Nat /\ (Cardinality(S) = 0 <=> S = {})
  BY <1>2, FS_CardinalityType, FS_EmptySet
<1> QED
  BY <1>3

\* The bucket, the marker and the counts of any row of the domain table agree.
LEMMA BucketMatchesTone ==
    ASSUME NEW zone \in AllZones
    PROVE  Agree(zone)
<1> DEFINE tones == {Tone(s, zone[s]) : s \in Signals}
<1>1. \A s \in Signals : zone[s] \in Values(s)
  BY DEF AllZones
<1>2. \A s \in Signals :
        /\ Tone(s, zone[s]) = "na" <=> zone[s] = "na"
        /\ Tone(s, zone[s]) = "gap" <=> zone[s] = "missing"
        /\ Tone(s, zone[s]) = "warn" <=> zone[s] \in WarnValues
  BY <1>1, TonesMatchValues
<1>3. tones = {"na"} <=> \A s \in Signals : zone[s] = "na"
  BY <1>2 DEF Signals
<1>4. "gap" \in tones <=> \E s \in Signals : zone[s] = "missing"
  BY <1>2
<1>5. "warn" \in tones <=> \E s \in Signals : zone[s] \in WarnValues
  BY <1>2
<1>6. SeverityTone(zone) =
        IF tones = {"na"} THEN "na"
        ELSE IF "gap" \in tones THEN "gap" ELSE IF "warn" \in tones THEN "warn" ELSE "ok"
  BY DEF SeverityTone
<1>7. /\ GapCount(zone) > 0 <=> \E s \in Signals : zone[s] = "missing"
      /\ GapCount(zone) = 0 <=> ~\E s \in Signals : zone[s] = "missing"
  BY CountIsPositive DEF GapCount
<1>8. WarnCount(zone) > 0 <=> \E s \in Signals : zone[s] \in WarnValues
  BY CountIsPositive DEF WarnCount
<1> HIDE DEF tones
<1>9. CASE \A s \in Signals : zone[s] = "na"
  <2>1. PostureBucket(zone) = "na"
    BY <1>9 DEF PostureBucket
  <2>2. SeverityTone(zone) = "na"
    BY <1>9, <1>3, <1>6
  <2>3. \A s \in Signals : zone[s] # "missing" /\ zone[s] \notin WarnValues
    BY <1>9 DEF WarnValues
  <2> QED
    BY <2>1, <2>2, <2>3, <1>7, <1>8 DEF Agree
<1>10. CASE \E s \in Signals : zone[s] = "missing"
  <2>1. ~\A s \in Signals : zone[s] = "na"
    BY <1>10
  <2>2. PostureBucket(zone) = "gaps"
    BY <1>10, <2>1 DEF PostureBucket
  <2>3. SeverityTone(zone) = "gap"
    BY <1>10, <2>1, <1>3, <1>4, <1>6
  <2> QED
    BY <2>2, <2>3, <1>10, <1>7 DEF Agree
<1>11. CASE /\ \A s \in Signals : zone[s] # "missing"
            /\ \E s \in Signals : zone[s] \in WarnValues
  <2>1. ~\A s \in Signals : zone[s] = "na"
    BY <1>11 DEF WarnValues
  <2>2. PostureBucket(zone) = "partial"
    BY <1>11, <2>1 DEF PostureBucket
  <2>3. SeverityTone(zone) = "warn"
    BY <2>1, <1>11, <1>3, <1>4, <1>5, <1>6
  <2> QED
    BY <2>2, <2>3, <1>11, <1>7, <1>8 DEF Agree
<1>12. CASE /\ ~\A s \in Signals : zone[s] = "na"
            /\ \A s \in Signals : zone[s] # "missing"
            /\ \A s \in Signals : zone[s] \notin WarnValues
  <2>1. PostureBucket(zone) = "protected"
    BY <1>12 DEF PostureBucket
  <2>2. SeverityTone(zone) = "ok"
    BY <1>12, <1>3, <1>4, <1>5, <1>6
  <2> QED
    BY <2>1, <2>2, <1>12, <1>7, <1>8 DEF Agree
<1> QED
  BY <1>9, <1>10, <1>11, <1>12

\* No sync, in any order with anything else, leaves a domain amber in one place
\* and green in another.
THEOREM Markers == Spec => []MarkersAgree
<1> DEFINE Inv == signals \in [Domains -> Zones]
<1>1. Init => Inv
  BY DEF Init
<1>2. Inv /\ [Next]_vars => Inv'
  BY DEF Next, vars, ReceiveAggregate, ReceiveTls, Resync, NextDay
<1>3. Inv => MarkersAgree
  BY BucketMatchesTone, ScoreAssumption DEF MarkersAgree
<1> QED
  BY <1>1, <1>2, <1>3, PTL DEF Spec

Splits == [pass: Nat, known: Nat, unclassified: Nat]

\* The arithmetic of the share: more of a part is a larger percentage of the whole.
LEMMA ShareGrows ==
    ASSUME NEW m \in 0 .. 100, NEW rest \in Nat, NEW part \in Nat, NEW more \in Nat,
           100 * (part + more) <= m * (rest + part + more)
    PROVE  100 * part <= m * (rest + part)
<1>1. m * more <= 100 * more
  <2>1. (100 - m) * more >= 0
    BY Z3
  <2>2. (100 - m) * more = 100 * more - m * more
    BY Z3
  <2> QED
    BY <2>1, <2>2, Z3
<1>2. m * (rest + part + more) = m * (rest + part) + m * more
  BY Z3
<1>3. 100 * (part + more) = 100 * part + 100 * more
  BY Z3
<1> DEFINE a == m * (rest + part)  b == m * more
<1>4. a \in Int /\ b \in Int
  BY Z3
<1>5. 100 * part + 100 * more <= a + b
  BY <1>2, <1>3
<1>6. b <= 100 * more
  BY <1>1
<1> HIDE DEF a, b
<1>7. 100 * part <= a
  BY <1>4, <1>5, <1>6
<1> QED
  BY <1>7 DEF a

\* Failures from senders nobody has named never make a domain with enough volume
\* ready, whatever the thresholds are.
THEOREM UnknownsNeverHelp ==
    ASSUME NEW s \in Splits, NEW t \in Splits, NEW dmarc,
           t.pass = s.pass, t.known = s.known, t.unclassified >= s.unclassified,
           Verdict(t, dmarc) = "ready",
           Total(s) >= MinVolume
    PROVE  Verdict(s, dmarc) = "ready"
<1> DEFINE k == t.unclassified - s.unclassified
           l == Legitimate(s)
<1>1. /\ k \in Nat /\ l \in Nat /\ s.unclassified \in Nat
      /\ t.unclassified = s.unclassified + k
      /\ Legitimate(t) = l
      /\ Total(s) = l + s.unclassified
      /\ Total(t) = l + s.unclassified + k
  BY DEF Splits, Legitimate, Total
<1>2. dmarc # "na" /\ dmarc # "reject"
  BY DEF Verdict
<1>3. ScoreAtLeast(t, ReadyThreshold) /\ UnclassifiedAtMost(t, MaxUnclassified)
  BY DEF Verdict
<1>4. ScoreAtLeast(s, ReadyThreshold)
  BY <1>1, <1>3 DEF ScoreAtLeast
<1>5. UnclassifiedAtMost(s, MaxUnclassified)
  <2>1. 100 * (s.unclassified + k) <= MaxUnclassified * (l + s.unclassified + k)
    BY <1>1, <1>3 DEF UnclassifiedAtMost
  <2> HIDE DEF k, l
  <2>2. 100 * s.unclassified <= MaxUnclassified * (l + s.unclassified)
    BY <2>1, <1>1, ShareGrows, ScoreAssumption
  <2> QED
    BY <2>2, <1>1 DEF UnclassifiedAtMost
<1>6. ~(Total(s) < MinVolume)
  BY <1>1, ScoreAssumption
<1> QED
  BY <1>2, <1>4, <1>5, <1>6 DEF Verdict

-----------------------------------------------------------------------------
(* What the tables hold *)

Row ==
    [report: Nat, n: Nat, day: Days, domain: Domains, ip: Addresses, count: Nat,
     spf: BOOLEAN, dkim: BOOLEAN]

ResultTypes == STRING \cup {"successful-session", "unspecified-failure"}

TlsRow ==
    [report: Nat, policy: Nat, n: Nat, day: Days, domain: Domains, type: ResultTypes,
     ok: Nat, failed: Nat]

AggregateKeys == {AggregateKey(d) : d \in AggregateDocs}

TlsKeys == {TlsKey(d) : d \in TlsDocs}

Typing ==
    /\ today \in Days
    /\ signals \in [Domains -> Zones]
    /\ received \subseteq AggregateDocs \cup TlsDocs
    /\ IsFiniteSet(received)

\* The tables of aggregate reports: one entry per key, filled from a document.
AggregateTables ==
    /\ reports \in Seq([key: AggregateKeys, org: Orgs])
    /\ rows \subseteq Row
    /\ IsFiniteSet(rows)
    /\ \A r \in rows : r.report \in DOMAIN reports
    /\ \A pk, other \in DOMAIN reports : reports[pk].key = reports[other].key => pk = other
    /\ \A pk \in DOMAIN reports : \E doc \in received \cap AggregateDocs :
        /\ reports[pk] = [key |-> AggregateKey(doc), org |-> doc.org]
        /\ {r \in rows : r.report = pk} = AggregateRows(doc, pk)
    /\ \A doc \in received \cap AggregateDocs :
        \E pk \in DOMAIN reports : reports[pk].key = AggregateKey(doc)

\* The tables of TLS-RPT reports, likewise.
TlsTables ==
    /\ tlsReports \in Seq([key: TlsKeys, org: Orgs])
    /\ tlsRows \subseteq TlsRow
    /\ IsFiniteSet(tlsRows)
    /\ \A r \in tlsRows : r.report \in DOMAIN tlsReports
    /\ \A pk, other \in DOMAIN tlsReports : tlsReports[pk].key = tlsReports[other].key => pk = other
    /\ \A pk \in DOMAIN tlsReports : \E doc \in received \cap TlsDocs :
        /\ tlsReports[pk] = [key |-> TlsKey(doc), org |-> doc.org]
        /\ {r \in tlsRows : r.report = pk} = TlsRows(doc, pk)
    /\ \A doc \in received \cap TlsDocs :
        \E pk \in DOMAIN tlsReports : tlsReports[pk].key = TlsKey(doc)

Tables == Typing /\ AggregateTables /\ TlsTables

\* The two kinds of document have different fields.
LEMMA KindsDiffer == AggregateDocs \cap TlsDocs = {}
<1> SUFFICES ASSUME NEW d \in AggregateDoc, d \in TlsDoc PROVE FALSE
  BY DocumentAssumption
<1>1. "records" \in DOMAIN d
  BY DEF AggregateDoc
<1>2. "records" \notin DOMAIN d
  BY DEF TlsDoc
<1> QED
  BY <1>1, <1>2

LEMMA PositionsAreFinite ==
    ASSUME NEW T, NEW s \in Seq(T), NEW S \in SUBSET (DOMAIN s)
    PROVE  IsFiniteSet(S) /\ S \subseteq Nat \ {0}
<1>1. DOMAIN s = 1 .. Len(s) /\ Len(s) \in Nat
  OBVIOUS
<1>2. IsFiniteSet(1 .. Len(s))
  BY <1>1, FS_Interval
<1> QED
  BY <1>1, <1>2, FS_Subset

\* What ingestion stores of an aggregate report.
LEMMA AggregateRowsFit ==
    ASSUME NEW doc \in AggregateDocs, NEW pk \in Nat
    PROVE  /\ AggregateRows(doc, pk) \subseteq Row
           /\ IsFiniteSet(AggregateRows(doc, pk))
           /\ \A r \in AggregateRows(doc, pk) : r.report = pk
<1> DEFINE used == {j \in DOMAIN doc.records : Usable(doc, doc.records[j])}
           made(i) == [report |-> pk, n |-> i, day |-> doc.begin,
                       domain |-> HeaderFrom(doc, doc.records[i]), ip |-> doc.records[i].ip,
                       count |-> doc.records[i].count,
                       spf |-> Aligned(doc.records[i].spf), dkim |-> Aligned(doc.records[i].dkim)]
<1>1. /\ doc \in AggregateDoc /\ doc.begin \in Days /\ doc.domain \in Domains \cup {Absent}
      /\ doc.records \in Seq(AggregateRecord)
  BY DocumentAssumption DEF AggregateDoc
<1>2. used \in SUBSET (DOMAIN doc.records)
  OBVIOUS
<1>3. IsFiniteSet(used) /\ used \subseteq Nat
  <2> HIDE DEF used
  <2> QED
    BY <1>1, <1>2, PositionsAreFinite
<1>4. AggregateRows(doc, pk) = {made(i) : i \in used}
  BY DEF AggregateRows
<1>5. ASSUME NEW i \in used
      PROVE  made(i) \in Row /\ made(i).report = pk
  <2>1. /\ doc.records[i] \in AggregateRecord /\ i \in Nat
        /\ Usable(doc, doc.records[i])
    BY <1>1, <1>3
  <2>2. doc.records[i].ip \in Addresses /\ doc.records[i].count \in Nat
    BY <2>1 DEF Usable, AggregateRecord
  <2>3. HeaderFrom(doc, doc.records[i]) \in Domains
    BY <2>1, <1>1 DEF Usable, AggregateRecord, HeaderFrom
  <2>4. Aligned(doc.records[i].spf) \in BOOLEAN /\ Aligned(doc.records[i].dkim) \in BOOLEAN
    BY DEF Aligned
  <2> QED
    BY <2>1, <2>2, <2>3, <2>4, <1>1 DEF Row
<1> DEFINE f == [i \in used |-> made(i)]
<1>6. \A r \in AggregateRows(doc, pk) : \E i \in used : r = f[i]
  <2> HIDE DEF used, made
  <2> QED
    BY <1>4
<1> HIDE DEF used, made, f
<1>7. IsFiniteSet(AggregateRows(doc, pk))
  BY <1>3, <1>6, ImageIsFinite
<1> QED
  BY <1>4, <1>5, <1>7

LEMMA CountType == \A n \in Int \cup {Absent} : Count(n) \in Nat
BY DEF Count

LEMMA ExplainedType ==
    ASSUME NEW policy \in TlsPolicy
    PROVE  /\ IsFiniteSet(Typed(policy)) /\ Typed(policy) \subseteq Nat \ {0}
           /\ Typed(policy) \subseteq 1 .. Len(policy.details)
           /\ \A j \in Typed(policy) :
                /\ policy.details[j].type \in STRING
                /\ Count(policy.details[j].failed) \in Nat
           /\ Explained(policy) \in Nat
<1>1. policy.details \in Seq(TlsDetail)
  BY DEF TlsPolicy
<1>2. Typed(policy) \in SUBSET (DOMAIN policy.details)
  BY DEF Typed
<1>3. IsFiniteSet(Typed(policy)) /\ Typed(policy) \subseteq Nat \ {0}
  BY <1>1, <1>2, PositionsAreFinite
<1>4. ASSUME NEW j \in Typed(policy)
      PROVE  policy.details[j].type \in STRING /\ Count(policy.details[j].failed) \in Nat
  <2>1. policy.details[j] \in TlsDetail /\ policy.details[j].type # Absent
    BY <1>1 DEF Typed
  <2> QED
    BY <2>1, CountType DEF TlsDetail
<1>5. Explained(policy) \in Nat
  <2> DEFINE f == [j \in Typed(policy) |-> Count(policy.details[j].failed)]
  <2>1. \A j \in Typed(policy) : f[j] \in Nat
    BY <1>4
  <2>2. Explained(policy) = SumFunctionOnSet(f, Typed(policy))
    BY DEF Explained, SumFunction
  <2> HIDE DEF f
  <2> QED
    BY <1>3, <2>1, <2>2, SumNat
<1>6. DOMAIN policy.details = 1 .. Len(policy.details)
  BY <1>1
<1> QED
  BY <1>2, <1>3, <1>4, <1>5, <1>6

PolicyResult == [n: Nat, type: ResultTypes, ok: Nat, failed: Nat]

\* The rows of one policy, in their three kinds.
Successes(policy) == {r \in {SuccessRow(policy)} : r.ok > 0}

Causes(policy) == {CauseRow(policy, j) : j \in Typed(policy)}

Leftover(policy) == {r \in {LeftoverRow(policy)} : r.failed > 0}

LEMMA PolicyResultsFit ==
    ASSUME NEW policy \in TlsPolicy
    PROVE  /\ PolicyResults(policy) \subseteq PolicyResult
           /\ PolicyResults(policy) = Successes(policy) \cup Causes(policy) \cup Leftover(policy)
           /\ IsFiniteSet(Successes(policy))
           /\ IsFiniteSet(Causes(policy))
           /\ IsFiniteSet(Leftover(policy))
           /\ IsFiniteSet(PolicyResults(policy))
<1>1. PolicyResults(policy) = Successes(policy) \cup Causes(policy) \cup Leftover(policy)
  BY DEF PolicyResults, Successes, Causes, Leftover
<1>2. Count(policy.ok) \in Nat /\ Count(policy.failed) \in Nat /\ Len(policy.details) \in Nat
  <2>1. /\ policy.ok \in Int \cup {Absent} /\ policy.failed \in Int \cup {Absent}
        /\ policy.details \in Seq(TlsDetail)
    BY DEF TlsPolicy
  <2>2. Count(policy.ok) \in Nat /\ Count(policy.failed) \in Nat
    BY <2>1, CountType, Zenon
  <2>3. Len(policy.details) \in Nat
    BY <2>1
  <2> QED
    BY <2>2, <2>3
<1>3. SuccessRow(policy) \in PolicyResult
  BY <1>2 DEF SuccessRow, PolicyResult, ResultTypes
<1>4. Causes(policy) \subseteq PolicyResult
  BY ExplainedType DEF Causes, CauseRow, PolicyResult, ResultTypes
<1>5. LeftoverRow(policy).failed > 0 => LeftoverRow(policy) \in PolicyResult
  <2>1. Remainder(policy) \in Int
    BY <1>2, ExplainedType DEF Remainder
  <2> QED
    BY <1>2, <2>1 DEF LeftoverRow, PolicyResult, ResultTypes
<1>6. /\ Successes(policy) \subseteq PolicyResult /\ Successes(policy) \subseteq {SuccessRow(policy)}
      /\ Leftover(policy) \subseteq PolicyResult /\ Leftover(policy) \subseteq {LeftoverRow(policy)}
  BY <1>3, <1>5 DEF Successes, Leftover
<1>7. IsFiniteSet(Successes(policy)) /\ IsFiniteSet(Leftover(policy))
  BY <1>6, FS_Singleton, FS_Subset
<1>8. IsFiniteSet(Causes(policy))
  <2> DEFINE f == [j \in Typed(policy) |-> CauseRow(policy, j)]
  <2>1. \A r \in Causes(policy) : \E j \in Typed(policy) : r = f[j]
    BY DEF Causes
  <2> HIDE DEF f
  <2> QED
    BY <2>1, ExplainedType, ImageIsFinite
<1>9. IsFiniteSet(Successes(policy) \cup Causes(policy))
  BY <1>7, <1>8, FS_Union
<1>10. IsFiniteSet(PolicyResults(policy))
  BY <1>1, <1>7, <1>9, FS_Union
<1> QED
  BY <1>1, <1>4, <1>6, <1>7, <1>8, <1>10

\* What ingestion stores of a TLS-RPT report.
LEMMA TlsRowsFit ==
    ASSUME NEW doc \in TlsDocs, NEW pk \in Nat
    PROVE  /\ TlsRows(doc, pk) \subseteq TlsRow
           /\ IsFiniteSet(TlsRows(doc, pk))
           /\ \A r \in TlsRows(doc, pk) : r.report = pk
<1> DEFINE used == {j \in DOMAIN doc.policies : doc.policies[j].domain # Absent}
           made(i, r) == [report |-> pk, policy |-> i, n |-> r.n, day |-> doc.begin,
                          domain |-> doc.policies[i].domain, type |-> r.type, ok |-> r.ok,
                          failed |-> r.failed]
           part(i) == {made(i, r) : r \in PolicyResults(doc.policies[i])}
<1>1. /\ doc \in TlsDoc /\ doc.begin \in Days /\ doc.policies \in Seq(TlsPolicy)
  BY DocumentAssumption DEF TlsDoc
<1>2. used \in SUBSET (DOMAIN doc.policies)
  OBVIOUS
<1>3. IsFiniteSet(used) /\ used \subseteq Nat
  <2> HIDE DEF used
  <2> QED
    BY <1>1, <1>2, PositionsAreFinite
<1>4. TlsRows(doc, pk) = UNION {part(i) : i \in used}
  BY DEF TlsRows
<1>5. ASSUME NEW i \in used
      PROVE  part(i) \subseteq TlsRow /\ IsFiniteSet(part(i)) /\ \A r \in part(i) : r.report = pk
  <2>1. doc.policies[i] \in TlsPolicy /\ i \in Nat /\ doc.policies[i].domain # Absent
    BY <1>1, <1>3
  <2>2. doc.policies[i].domain \in Domains
    BY <2>1 DEF TlsPolicy
  <2> DEFINE results == PolicyResults(doc.policies[i])
             f == [r \in results |-> made(i, r)]
  <2>3. results \subseteq PolicyResult /\ IsFiniteSet(results)
    BY <2>1, PolicyResultsFit
  <2>4. \A t \in part(i) : \E r \in results : t = f[r]
    <3> HIDE DEF made, results
    <3> QED
      BY DEF results
  <2>5. IsFiniteSet(part(i))
    <3> HIDE DEF part, f, results
    <3> QED
      BY <2>3, <2>4, ImageIsFinite
  <2>6. \A r \in results : made(i, r) \in TlsRow /\ made(i, r).report = pk
    <3> HIDE DEF results
    <3> QED
      BY <2>1, <2>2, <2>3, <1>1 DEF TlsRow, PolicyResult
  <2> HIDE DEF made
  <2> QED
    BY <2>5, <2>6
<1>6. IsFiniteSet({part(i) : i \in used})
  <2> DEFINE f == [i \in used |-> part(i)]
             I == {part(i) : i \in used}
  <2> HIDE DEF used, part
  <2>1. \A t \in I : \E i \in used : t = f[i]
    OBVIOUS
  <2> HIDE DEF f, I
  <2>2. IsFiniteSet(I)
    BY <1>3, <2>1, ImageIsFinite
  <2> QED
    BY <2>2 DEF I
<1> DEFINE parts == {part(i) : i \in used}
<1>7. \A P \in parts : IsFiniteSet(P) /\ P \subseteq TlsRow /\ \A r \in P : r.report = pk
  <2> HIDE DEF used, part
  <2> QED
    BY <1>5
<1>8. IsFiniteSet(parts) /\ TlsRows(doc, pk) = UNION parts
  BY <1>4, <1>6
<1> HIDE DEF parts
<1> QED
  BY <1>7, <1>8, FS_UNION

LEMMA AppendAdds ==
    ASSUME NEW T, NEW s \in Seq(T), NEW e \in T
    PROVE  /\ Append(s, e) \in Seq(T)
           /\ Len(s) + 1 \in Nat
           /\ Len(s) + 1 \notin DOMAIN s
           /\ DOMAIN Append(s, e) = DOMAIN s \cup {Len(s) + 1}
           /\ \A i \in DOMAIN s : Append(s, e)[i] = s[i]
           /\ Append(s, e)[Len(s) + 1] = e
OBVIOUS

LEMMA AggregateStep ==
    ASSUME Tables, NEW doc \in AggregateDocs, ReceiveAggregate(doc)
    PROVE  Tables'
<1>1. Typing'
  BY FS_AddElement DEF Tables, Typing, ReceiveAggregate
<1>2. received' \cap TlsDocs = received \cap TlsDocs /\ UNCHANGED <<tlsReports, tlsRows>>
  BY KindsDiffer DEF ReceiveAggregate
<1>3. TlsTables'
  BY <1>2 DEF Tables, TlsTables
<1>4. received' \cap AggregateDocs = (received \cap AggregateDocs) \cup {doc}
  BY DEF ReceiveAggregate
<1>5. AggregateTables'
  <2>1. CASE \E pk \in DOMAIN reports : reports[pk].key = AggregateKey(doc)
    <3>1. UNCHANGED <<reports, rows>>
      BY <2>1 DEF ReceiveAggregate
    <3> QED
      BY <3>1, <2>1, <1>4 DEF Tables, AggregateTables
  <2>2. CASE ~\E pk \in DOMAIN reports : reports[pk].key = AggregateKey(doc)
    <3> DEFINE e == [key |-> AggregateKey(doc), org |-> doc.org]
               new == Len(reports) + 1
               added == AggregateRows(doc, new)
    <3>1. reports' = Append(reports, e) /\ rows' = rows \cup added
      BY <2>2 DEF ReceiveAggregate
    <3>2. e \in [key: AggregateKeys, org: Orgs] /\ e.key = AggregateKey(doc)
      BY DocumentAssumption DEF AggregateKeys, AggregateDoc
    <3>3. /\ reports' \in Seq([key: AggregateKeys, org: Orgs])
          /\ new \in Nat /\ new \notin DOMAIN reports
          /\ DOMAIN reports' = DOMAIN reports \cup {new}
          /\ \A i \in DOMAIN reports : reports'[i] = reports[i]
          /\ reports'[new] = e
      <4> HIDE DEF e
      <4> QED
        BY <3>1, <3>2, AppendAdds DEF Tables, AggregateTables
    <3>4. added \subseteq Row /\ IsFiniteSet(added) /\ \A r \in added : r.report = new
      BY <3>3, AggregateRowsFit
    <3> HIDE DEF e, new, added
    <3>5. rows' \subseteq Row /\ IsFiniteSet(rows') /\ \A r \in rows' : r.report \in DOMAIN reports'
      BY <3>1, <3>3, <3>4, FS_Union DEF Tables, AggregateTables
    <3>6. \A pk, other \in DOMAIN reports' : reports'[pk].key = reports'[other].key => pk = other
      BY <2>2, <3>2, <3>3 DEF Tables, AggregateTables
    <3>7. \A pk \in DOMAIN reports : {r \in rows' : r.report = pk} = {r \in rows : r.report = pk}
      BY <3>1, <3>3, <3>4
    <3>8. {r \in rows' : r.report = new} = AggregateRows(doc, new)
      BY <3>1, <3>3, <3>4 DEF Tables, AggregateTables, added
    <3>9. ASSUME NEW pk \in DOMAIN reports'
          PROVE  \E d \in received' \cap AggregateDocs :
                   /\ reports'[pk] = [key |-> AggregateKey(d), org |-> d.org]
                   /\ {r \in rows' : r.report = pk} = AggregateRows(d, pk)
      <4>1. CASE pk = new
        BY <4>1, <1>4, <3>3, <3>8 DEF e
      <4>2. CASE pk \in DOMAIN reports
        BY <4>2, <1>4, <3>3, <3>7 DEF Tables, AggregateTables
      <4> QED
        BY <4>1, <4>2, <3>3
    <3>10. \A d \in received' \cap AggregateDocs :
             \E pk \in DOMAIN reports' : reports'[pk].key = AggregateKey(d)
      BY <1>4, <3>2, <3>3 DEF Tables, AggregateTables
    <3> QED
      BY <3>3, <3>5, <3>6, <3>9, <3>10 DEF AggregateTables
  <2> QED
    BY <2>1, <2>2
<1> QED
  BY <1>1, <1>3, <1>5 DEF Tables

LEMMA TlsStep ==
    ASSUME Tables, NEW doc \in TlsDocs, ReceiveTls(doc)
    PROVE  Tables'
<1>1. Typing'
  BY FS_AddElement DEF Tables, Typing, ReceiveTls
<1>2. received' \cap AggregateDocs = received \cap AggregateDocs /\ UNCHANGED <<reports, rows>>
  BY KindsDiffer DEF ReceiveTls
<1>3. AggregateTables'
  BY <1>2 DEF Tables, AggregateTables
<1>4. received' \cap TlsDocs = (received \cap TlsDocs) \cup {doc}
  BY DEF ReceiveTls
<1>5. TlsTables'
  <2>1. CASE \E pk \in DOMAIN tlsReports : tlsReports[pk].key = TlsKey(doc)
    <3>1. UNCHANGED <<tlsReports, tlsRows>>
      BY <2>1 DEF ReceiveTls
    <3> QED
      BY <3>1, <2>1, <1>4 DEF Tables, TlsTables
  <2>2. CASE ~\E pk \in DOMAIN tlsReports : tlsReports[pk].key = TlsKey(doc)
    <3> DEFINE e == [key |-> TlsKey(doc), org |-> doc.org]
               new == Len(tlsReports) + 1
               added == TlsRows(doc, new)
    <3>1. tlsReports' = Append(tlsReports, e) /\ tlsRows' = tlsRows \cup added
      BY <2>2 DEF ReceiveTls
    <3>2. e \in [key: TlsKeys, org: Orgs] /\ e.key = TlsKey(doc)
      BY DocumentAssumption DEF TlsKeys, TlsDoc
    <3>3. /\ tlsReports' \in Seq([key: TlsKeys, org: Orgs])
          /\ new \in Nat /\ new \notin DOMAIN tlsReports
          /\ DOMAIN tlsReports' = DOMAIN tlsReports \cup {new}
          /\ \A i \in DOMAIN tlsReports : tlsReports'[i] = tlsReports[i]
          /\ tlsReports'[new] = e
      <4> HIDE DEF e
      <4> QED
        BY <3>1, <3>2, AppendAdds DEF Tables, TlsTables
    <3>4. added \subseteq TlsRow /\ IsFiniteSet(added) /\ \A r \in added : r.report = new
      BY <3>3, TlsRowsFit
    <3> HIDE DEF e, new, added
    <3>5. /\ tlsRows' \subseteq TlsRow /\ IsFiniteSet(tlsRows')
          /\ \A r \in tlsRows' : r.report \in DOMAIN tlsReports'
      BY <3>1, <3>3, <3>4, FS_Union DEF Tables, TlsTables
    <3>6. \A pk, other \in DOMAIN tlsReports' :
            tlsReports'[pk].key = tlsReports'[other].key => pk = other
      BY <2>2, <3>2, <3>3 DEF Tables, TlsTables
    <3>7. \A pk \in DOMAIN tlsReports :
            {r \in tlsRows' : r.report = pk} = {r \in tlsRows : r.report = pk}
      BY <3>1, <3>3, <3>4
    <3>8. {r \in tlsRows' : r.report = new} = TlsRows(doc, new)
      BY <3>1, <3>3, <3>4 DEF Tables, TlsTables, added
    <3>9. ASSUME NEW pk \in DOMAIN tlsReports'
          PROVE  \E d \in received' \cap TlsDocs :
                   /\ tlsReports'[pk] = [key |-> TlsKey(d), org |-> d.org]
                   /\ {r \in tlsRows' : r.report = pk} = TlsRows(d, pk)
      <4>1. CASE pk = new
        BY <4>1, <1>4, <3>3, <3>8 DEF e
      <4>2. CASE pk \in DOMAIN tlsReports
        BY <4>2, <1>4, <3>3, <3>7 DEF Tables, TlsTables
      <4> QED
        BY <4>1, <4>2, <3>3
    <3>10. \A d \in received' \cap TlsDocs :
             \E pk \in DOMAIN tlsReports' : tlsReports'[pk].key = TlsKey(d)
      BY <1>4, <3>2, <3>3 DEF Tables, TlsTables
    <3> QED
      BY <3>3, <3>5, <3>6, <3>9, <3>10 DEF TlsTables
  <2> QED
    BY <2>1, <2>2
<1> QED
  BY <1>1, <1>3, <1>5 DEF Tables

LEMMA TablesKept == Tables /\ [Next]_vars => Tables'
<1> SUFFICES ASSUME Tables, [Next]_vars PROVE Tables'
  OBVIOUS
<1>1. ASSUME NEW doc \in AggregateDocs, ReceiveAggregate(doc) PROVE Tables'
  BY <1>1, AggregateStep
<1>2. ASSUME NEW doc \in TlsDocs, ReceiveTls(doc) PROVE Tables'
  BY <1>2, TlsStep
<1>3. ASSUME NEW domain \in Domains, NEW zone \in Zones, Resync(domain, zone) PROVE Tables'
  <2>1. Typing'
    BY <1>3 DEF Resync, Tables, Typing
  <2> QED
    BY <1>3, <2>1 DEF Resync, Tables, AggregateTables, TlsTables
<1>4. ASSUME NextDay PROVE Tables'
  <2>1. Typing'
    BY <1>4, ScoreAssumption DEF NextDay, Tables, Typing, Days
  <2> QED
    BY <1>4, <2>1 DEF NextDay, Tables, AggregateTables, TlsTables
<1>5. ASSUME UNCHANGED vars PROVE Tables'
  BY <1>5 DEF vars, Tables, Typing, AggregateTables, TlsTables
<1> QED
  BY <1>1, <1>2, <1>3, <1>4, <1>5 DEF Next

LEMMA TablesInvariant == Spec => []Tables
<1>1. Init => Tables
  <2> SUFFICES ASSUME Init PROVE Tables
    OBVIOUS
  <2>1. Typing
    BY ScoreAssumption, FS_EmptySet DEF Init, Typing, Days
  <2>2. AggregateTables
    BY FS_EmptySet DEF Init, AggregateTables
  <2>3. TlsTables
    BY FS_EmptySet DEF Init, TlsTables
  <2> QED
    BY <2>1, <2>2, <2>3 DEF Tables
<1> QED
  BY <1>1, TablesKept, PTL DEF Spec

\* The tables always hold rows of the reports they name, with counts that are not
\* negative, and no key twice, whatever documents arrive in whatever order.
THEOREM TypeCorrect == Spec => []TypeOK
<1>1. Tables => TypeOK
  BY DEF Tables, Typing, AggregateTables, TlsTables, Row, TlsRow, TypeOK
<1> QED
  BY <1>1, TablesInvariant, PTL

-----------------------------------------------------------------------------
(* Each report is stored once *)

\* Documents are one report: they state one id or, stating none, agree on the rest.
SameReport(d, e) ==
    IF d.id # Absent \/ e.id # Absent THEN d.id = e.id
    ELSE d.org = e.org /\ d.domain = e.domain /\ d.begin = e.begin /\ d.end = e.end

LEMMA KeyTellsReport ==
    ASSUME NEW d, NEW e
    PROVE  SameReport(d, e) <=> AggregateKey(d) = AggregateKey(e)
<1>1. \A v, w, x, y, z : <<v>> # <<w, x, y, z>>
  OBVIOUS
<1>2. \A v, w : <<v>> = <<w>> <=> v = w
  OBVIOUS
<1>3. \A v, w, x, y, v2, w2, x2, y2 :
        <<v, w, x, y>> = <<v2, w2, x2, y2>> <=> v = v2 /\ w = w2 /\ x = x2 /\ y = y2
  OBVIOUS
<1>4. CASE d.id # Absent /\ e.id # Absent
  BY <1>4, <1>2 DEF SameReport, AggregateKey
<1>5. CASE d.id = Absent /\ e.id = Absent
  BY <1>5, <1>3 DEF SameReport, AggregateKey
<1>6. CASE d.id # Absent /\ e.id = Absent
  BY <1>6, <1>1 DEF SameReport, AggregateKey
<1>7. CASE d.id = Absent /\ e.id # Absent
  BY <1>7, <1>1 DEF SameReport, AggregateKey
<1> QED
  BY <1>4, <1>5, <1>6, <1>7

\* Redeliveries in any order leave one entry for each report that came.
THEOREM StoredOnce == Spec => []EachReportStoredOnce
<1> SUFFICES ASSUME Tables PROVE EachReportStoredOnce
  BY TablesInvariant, PTL
<1> DEFINE docs == received \cap AggregateDocs
           class(d) == {e \in docs : SameReport(d, e)}
           classes == {class(d) : d \in docs}
           pks == DOMAIN reports
           of == [pk \in pks |-> {e \in docs : AggregateKey(e) = reports[pk].key}]
<1>1. pks = 1 .. Len(reports) /\ Len(reports) \in Nat
  BY DEF Tables, AggregateTables
<1>2. IsFiniteSet(pks) /\ Cardinality(pks) = Len(reports)
  <2> HIDE DEF pks
  <2> QED
    BY <1>1, FS_Interval
<1>3. \A d \in docs : class(d) = {e \in docs : AggregateKey(e) = AggregateKey(d)}
  BY KeyTellsReport
<1>4. ASSUME NEW pk \in pks
      PROVE  \E d \in docs : reports[pk].key = AggregateKey(d) /\ of[pk] = class(d) /\ d \in of[pk]
  <2>1. PICK d \in docs : reports[pk].key = AggregateKey(d)
    BY DEF Tables, AggregateTables
  <2> QED
    BY <2>1, <1>3
<1>5. of \in Bijection(pks, classes)
  <2>1. of \in [pks -> classes]
    BY <1>4
  <2>2. \A p, q \in pks : of[p] = of[q] => p = q
    <3> SUFFICES ASSUME NEW p \in pks, NEW q \in pks, of[p] = of[q] PROVE p = q
      OBVIOUS
    <3>1. PICK d \in docs : reports[p].key = AggregateKey(d) /\ d \in of[p]
      BY <1>4
    <3>2. reports[q].key = AggregateKey(d)
      BY <3>1
    <3> QED
      BY <3>1, <3>2 DEF Tables, AggregateTables
  <2>3. \A c \in classes : \E pk \in pks : of[pk] = c
    <3> SUFFICES ASSUME NEW d \in docs PROVE \E pk \in pks : of[pk] = class(d)
      OBVIOUS
    <3>1. PICK pk \in pks : reports[pk].key = AggregateKey(d)
      BY DEF Tables, AggregateTables
    <3> QED
      BY <3>1, <1>3
  <2> HIDE DEF of, pks, classes
  <2> QED
    BY <2>1, <2>2, <2>3 DEF Bijection, Injection, Surjection, IsInjective
<1>6. Cardinality(classes) = Len(reports)
  <2> HIDE DEF of, pks, classes
  <2> QED
    BY <1>2, <1>5, FS_Bijection DEF ExistsBijection
<1> QED
  BY <1>6 DEF EachReportStoredOnce, SameReport

-----------------------------------------------------------------------------
(* Volumes of sets of rows *)

LEMMA VolumeType ==
    ASSUME NEW S \in SUBSET Row, IsFiniteSet(S)
    PROVE  Volume(S) \in Nat
<1> DEFINE f == [r \in S |-> r.count]
<1>1. \A r \in S : f[r] \in Nat
  BY DEF Row
<1>2. Volume(S) = SumFunctionOnSet(f, S)
  BY DEF Volume, SumFunction
<1> HIDE DEF f
<1> QED
  BY <1>1, <1>2, SumNat

\* Rows of a larger set are counted alike.
LEMMA VolumeOfPart ==
    ASSUME NEW S \in SUBSET Row, IsFiniteSet(S), NEW T \in SUBSET S
    PROVE  Volume(T) = SumFunctionOnSet([r \in S |-> r.count], T)
<1> DEFINE f == [r \in S |-> r.count]
           g == [r \in T |-> r.count]
<1>1. \A r \in T : g[r] \in Int /\ g[r] = f[r]
  BY DEF Row
<1>2. Volume(T) = SumFunctionOnSet(g, T)
  BY DEF Volume, SumFunction
<1>3. IsFiniteSet(T)
  BY FS_Subset
<1> HIDE DEF f, g
<1>4. SumFunctionOnSet(g, T) = SumFunctionOnSet(f, T)
  BY <1>1, <1>3, SumSame
<1> QED
  BY <1>2, <1>4 DEF f

LEMMA VolumeOfUnion ==
    ASSUME NEW S \in SUBSET Row, IsFiniteSet(S), NEW T \in SUBSET Row, IsFiniteSet(T), S \cap T = {}
    PROVE  Volume(S \cup T) = Volume(S) + Volume(T)
<1> DEFINE U == S \cup T
           f == [r \in U |-> r.count]
<1>1. U \in SUBSET Row /\ IsFiniteSet(U) /\ S \in SUBSET U /\ T \in SUBSET U /\ U \in SUBSET U
  BY FS_Union
<1>2. \A r \in S \cup T : f[r] \in Int
  BY DEF Row
<1> HIDE DEF U
<1>3. /\ Volume(U) = SumFunctionOnSet(f, U)
      /\ Volume(S) = SumFunctionOnSet(f, S) /\ Volume(T) = SumFunctionOnSet(f, T)
  BY <1>1, VolumeOfPart
<1> HIDE DEF f
<1>4. SumFunctionOnSet(f, S \cup T) = SumFunctionOnSet(f, S) + SumFunctionOnSet(f, T)
  BY <1>2, SumUnion
<1> QED
  BY <1>3, <1>4 DEF U

\* Rows grouped by anything add up to the same volume.
LEMMA VolumeOfGroups ==
    ASSUME NEW S \in SUBSET Row, IsFiniteSet(S),
           NEW K, IsFiniteSet(K), NEW key, \A r \in S : key[r] \in K,
           NEW group, \A k \in K : group[k] = {r \in S : key[r] = k},
           NEW g, \A k \in K : g[k] = Volume(group[k])
    PROVE  Volume(S) = SumFunctionOnSet(g, K)
<1> DEFINE f == [r \in S |-> r.count]
<1>1. \A r \in S : f[r] \in Int
  BY DEF Row
<1>2. \A k \in K : g[k] = SumFunctionOnSet(f, group[k])
  <2> SUFFICES ASSUME NEW k \in K PROVE g[k] = SumFunctionOnSet(f, group[k])
    OBVIOUS
  <2>1. group[k] \in SUBSET S
    OBVIOUS
  <2>2. Volume(group[k]) = SumFunctionOnSet([r \in S |-> r.count], group[k])
    BY <2>1, VolumeOfPart
  <2> QED
    BY <2>2
<1>3. Volume(S) = SumFunctionOnSet(f, S)
  BY S \in SUBSET S, VolumeOfPart
<1> HIDE DEF f
<1>4. SumFunctionOnSet(f, S) = SumFunctionOnSet(g, K)
  BY <1>1, <1>2, SumGroups
<1> QED
  BY <1>3, <1>4

-----------------------------------------------------------------------------
(* The three-way split *)

\* What passes, what a known sender failed, and what nobody has named failed.
Lost(some) == {r \in some : ~(r.spf \/ r.dkim) /\ Known(r.ip)}

Strange(some) == {r \in some : ~(r.spf \/ r.dkim) /\ ~Known(r.ip)}

ThreeWay(some) ==
    [pass |-> Volume(Passing(some)), known |-> Volume(Lost(some)),
     unclassified |-> Volume(Strange(some))]

LEMMA PartsOfRows ==
    ASSUME NEW S \in SUBSET Row, IsFiniteSet(S)
    PROVE  /\ Passing(S) \in SUBSET Row /\ IsFiniteSet(Passing(S))
           /\ Lost(S) \in SUBSET Row /\ IsFiniteSet(Lost(S))
           /\ Strange(S) \in SUBSET Row /\ IsFiniteSet(Strange(S))
           /\ ThreeWay(S) \in Splits
           /\ Volume(S) = Total(ThreeWay(S))
<1>1. Passing(S) \in SUBSET S /\ Lost(S) \in SUBSET S /\ Strange(S) \in SUBSET S
  BY DEF Passing, Lost, Strange
<1>2. IsFiniteSet(Passing(S)) /\ IsFiniteSet(Lost(S)) /\ IsFiniteSet(Strange(S))
  BY <1>1, FS_Subset
<1>3. Volume(Passing(S)) \in Nat /\ Volume(Lost(S)) \in Nat /\ Volume(Strange(S)) \in Nat
  BY <1>1, <1>2, VolumeType
<1> DEFINE A == Passing(S) \cup Lost(S)
<1>4. A \in SUBSET Row /\ IsFiniteSet(A)
  BY <1>1, <1>2, FS_Union
<1>5. Passing(S) \cap Lost(S) = {} /\ A \cap Strange(S) = {} /\ A \cup Strange(S) = S
  BY DEF Passing, Lost, Strange
<1>6. Volume(A) = Volume(Passing(S)) + Volume(Lost(S))
  BY <1>1, <1>2, <1>5, VolumeOfUnion
<1> HIDE DEF A
<1>7. Volume(A \cup Strange(S)) = Volume(A) + Volume(Strange(S))
  BY <1>1, <1>2, <1>4, <1>5, VolumeOfUnion
<1>8. Volume(S) = Total(ThreeWay(S))
  BY <1>3, <1>5, <1>6, <1>7 DEF Total, ThreeWay
<1> QED
  BY <1>1, <1>2, <1>3, <1>8 DEF ThreeWay, Splits

\* Splits of groups add up to the split of all rows, however they are grouped.
LEMMA SplitsAddUp ==
    ASSUME NEW S \in SUBSET Row, IsFiniteSet(S),
           NEW K, IsFiniteSet(K), NEW key, \A r \in S : key[r] \in K,
           NEW group, \A k \in K : group[k] = {r \in S : key[r] = k},
           NEW splits, DOMAIN splits = K, \A k \in K : splits[k] = ThreeWay(group[k])
    PROVE  SumSplits(splits) = ThreeWay(S)
<1>0. SumSplits(splits) =
        [pass |-> SumFunctionOnSet([k \in K |-> splits[k].pass], K),
         known |-> SumFunctionOnSet([k \in K |-> splits[k].known], K),
         unclassified |-> SumFunctionOnSet([k \in K |-> splits[k].unclassified], K)]
  BY DEF SumSplits, SumFunction
<1>1. Volume(Passing(S)) = SumFunctionOnSet([k \in K |-> splits[k].pass], K)
  <2> DEFINE g == [k \in K |-> splits[k].pass]
             part == [k \in K |-> Passing(group[k])]
             T == Passing(S)
  <2>1. \A k \in K : g[k] = Volume(part[k])
    BY DEF ThreeWay
  <2>2. \A k \in K : part[k] = {r \in T : key[r] = k}
    BY DEF Passing
  <2>3. T \in SUBSET Row /\ IsFiniteSet(T) /\ \A r \in T : key[r] \in K
    BY PartsOfRows DEF Passing
  <2> HIDE DEF g, part, T
  <2>4. Volume(T) = SumFunctionOnSet(g, K)
    BY <2>1, <2>2, <2>3, VolumeOfGroups
  <2> QED
    BY <2>4 DEF g, T
<1>2. Volume(Lost(S)) = SumFunctionOnSet([k \in K |-> splits[k].known], K)
  <2> DEFINE g == [k \in K |-> splits[k].known]
             part == [k \in K |-> Lost(group[k])]
             T == Lost(S)
  <2>1. \A k \in K : g[k] = Volume(part[k])
    BY DEF ThreeWay
  <2>2. \A k \in K : part[k] = {r \in T : key[r] = k}
    BY DEF Lost
  <2>3. T \in SUBSET Row /\ IsFiniteSet(T) /\ \A r \in T : key[r] \in K
    BY PartsOfRows DEF Lost
  <2> HIDE DEF g, part, T
  <2>4. Volume(T) = SumFunctionOnSet(g, K)
    BY <2>1, <2>2, <2>3, VolumeOfGroups
  <2> QED
    BY <2>4 DEF g, T
<1>3. Volume(Strange(S)) = SumFunctionOnSet([k \in K |-> splits[k].unclassified], K)
  <2> DEFINE g == [k \in K |-> splits[k].unclassified]
             part == [k \in K |-> Strange(group[k])]
             T == Strange(S)
  <2>1. \A k \in K : g[k] = Volume(part[k])
    BY DEF ThreeWay
  <2>2. \A k \in K : part[k] = {r \in T : key[r] = k}
    BY DEF Strange
  <2>3. T \in SUBSET Row /\ IsFiniteSet(T) /\ \A r \in T : key[r] \in K
    BY PartsOfRows DEF Strange
  <2> HIDE DEF g, part, T
  <2>4. Volume(T) = SumFunctionOnSet(g, K)
    BY <2>1, <2>2, <2>3, VolumeOfGroups
  <2> QED
    BY <2>4 DEF g, T
<1> QED
  BY <1>0, <1>1, <1>2, <1>3 DEF ThreeWay

\* Grouping by address and classifying each address, as the code does, is the
\* same as classifying each row.
LEMMA SplitOverIsThreeWay ==
    ASSUME NEW S \in SUBSET Row, IsFiniteSet(S)
    PROVE  SplitOver(S) = ThreeWay(S)
<1> DEFINE K == {r.ip : r \in S}
           key == [r \in S |-> r.ip]
           group == [ip \in K |-> {r \in S : r.ip = ip}]
           splits == [ip \in K |-> SplitOf(StatOf(S, ip), ip)]
<1>1. IsFiniteSet(K)
  <2>1. \A ip \in K : \E r \in S : ip = key[r]
    OBVIOUS
  <2> HIDE DEF K, key
  <2> QED
    BY <2>1, ImageIsFinite
<1>2. ASSUME NEW ip \in K
      PROVE  splits[ip] = ThreeWay(group[ip])
  <2> DEFINE at == {r \in S : r.ip = ip}
  <2>1. at \in SUBSET Row /\ IsFiniteSet(at) /\ group[ip] = at
    BY FS_Subset
  <2>2. StatOf(S, ip) = [count |-> Volume(at), pass |-> Volume(Passing(at))]
    BY DEF StatOf
  <2>3. /\ Known(ip) => Strange(at) = {}
        /\ ~Known(ip) => Lost(at) = {}
    BY DEF Strange, Lost
  <2>4. Volume({}) = 0
    <3>1. Volume({}) = SumFunctionOnSet([r \in {} |-> r.count], {})
      BY DEF Volume, SumFunction
    <3> QED
      BY <3>1, SumEmpty
  <2>5. splits[ip] = SplitOf(StatOf(S, ip), ip)
    OBVIOUS
  <2> HIDE DEF at, splits, group
  <2>6. /\ Volume(at) = Volume(Passing(at)) + Volume(Lost(at)) + Volume(Strange(at))
        /\ Volume(Passing(at)) \in Nat /\ Volume(Lost(at)) \in Nat /\ Volume(Strange(at)) \in Nat
    BY <2>1, PartsOfRows, VolumeType DEF Total, ThreeWay
  <2>7. CASE Known(ip)
    BY <2>1, <2>2, <2>3, <2>4, <2>5, <2>6, <2>7 DEF SplitOf, ThreeWay
  <2>8. CASE ~Known(ip)
    BY <2>1, <2>2, <2>3, <2>4, <2>5, <2>6, <2>8 DEF SplitOf, ThreeWay
  <2> QED
    BY <2>7, <2>8
<1>3. /\ \A r \in S : key[r] \in K
      /\ \A ip \in K : group[ip] = {r \in S : key[r] = ip}
      /\ DOMAIN splits = K
  OBVIOUS
<1>4. SplitOver(S) = SumSplits(splits)
  BY DEF SplitOver
<1> HIDE DEF K, key, group, splits
<1> QED
  BY <1>1, <1>2, <1>3, <1>4, SplitsAddUp

LEMMA RecentIsRows ==
    ASSUME Tables, NEW w
    PROVE  Recent(w) \in SUBSET Row /\ IsFiniteSet(Recent(w)) /\ Recent(w) \subseteq rows
<1>1. rows \in SUBSET Row /\ IsFiniteSet(rows) /\ Recent(w) \in SUBSET rows
  BY DEF Tables, AggregateTables, Recent
<1> QED
  BY <1>1, FS_Subset

RecentOf(d, w) == {r \in Recent(w) : r.domain = d}

LEMMA DomainSplit ==
    ASSUME Tables, NEW w, NEW d \in Domains
    PROVE  /\ RecentOf(d, w) \in SUBSET Row /\ IsFiniteSet(RecentOf(d, w))
           /\ DomainSplits(w)[d] = ThreeWay(RecentOf(d, w))
           /\ DomainSplits(w)[d] \in Splits
<1>1. RecentOf(d, w) \in SUBSET Recent(w)
  BY DEF RecentOf
<1>2. RecentOf(d, w) \in SUBSET Row /\ IsFiniteSet(RecentOf(d, w))
  BY <1>1, RecentIsRows, FS_Subset
<1>3. DomainSplits(w)[d] = SplitOver(RecentOf(d, w))
  BY DEF DomainSplits, RecentOf
<1> QED
  BY <1>2, <1>3, SplitOverIsThreeWay, PartsOfRows

LEMMA PerDomain ==
    ASSUME Tables, NEW w
    PROVE  SumSplits(DomainSplits(w)) = ThreeWay(Recent(w))
<1> DEFINE S == Recent(w)
           K == Domains
           key == [r \in S |-> r.domain]
           group == [d \in K |-> {r \in S : r.domain = d}]
           splits == DomainSplits(w)
<1>1. \A d \in K : splits[d] = ThreeWay(group[d])
  BY DomainSplit DEF RecentOf
<1>2. S \in SUBSET Row /\ IsFiniteSet(S)
  BY RecentIsRows
<1>3. /\ \A r \in S : key[r] \in K
      /\ \A d \in K : group[d] = {r \in S : key[r] = d}
  BY <1>2 DEF Row
<1>4. DOMAIN splits = K /\ IsFiniteSet(K)
  BY DocumentAssumption DEF DomainSplits
<1> HIDE DEF S, K, key, group, splits
<1>5. SumSplits(splits) = ThreeWay(S)
  BY <1>1, <1>2, <1>3, <1>4, SplitsAddUp
<1> QED
  BY <1>5 DEF S, splits

LEMMA PerDay ==
    ASSUME Tables, NEW w
    PROVE  SumSplits(DailySplits(w)) = ThreeWay(Recent(w))
<1> DEFINE S == Recent(w)
           K == Days
           key == [r \in S |-> r.day]
           group == [d \in K |-> {r \in S : r.day = d}]
           splits == DailySplits(w)
<1>2. S \in SUBSET Row /\ IsFiniteSet(S)
  BY RecentIsRows
<1>1. \A d \in K : splits[d] = ThreeWay(group[d])
  <2> SUFFICES ASSUME NEW d \in K PROVE splits[d] = ThreeWay(group[d])
    OBVIOUS
  <2>1. splits[d] = SplitOver(group[d])
    BY DEF DailySplits
  <2>2. group[d] \in SUBSET S
    OBVIOUS
  <2>3. group[d] \in SUBSET Row /\ IsFiniteSet(group[d])
    <3> HIDE DEF group, S
    <3> QED
      BY <1>2, <2>2, FS_Subset
  <2> HIDE DEF group, splits
  <2> QED
    BY <2>1, <2>3, SplitOverIsThreeWay
<1>3. /\ \A r \in S : key[r] \in K
      /\ \A d \in K : group[d] = {r \in S : key[r] = d}
  BY <1>2 DEF Row
<1>4. DOMAIN splits = K /\ IsFiniteSet(K)
  <2>1. IsFiniteSet(Days)
    BY ScoreAssumption, FS_Interval DEF Days
  <2> QED
    BY <2>1 DEF DailySplits
<1> HIDE DEF S, K, key, group, splits
<1>5. SumSplits(splits) = ThreeWay(S)
  BY <1>1, <1>2, <1>3, <1>4, SplitsAddUp
<1> QED
  BY <1>5 DEF S, splits

\* The rows of the Sources screen add up to any set of rows counted by sender.
LEMMA PerSender ==
    ASSUME Tables, NEW w
    PROVE  /\ SumFunction([r \in SourceRows(w) |-> r.volume]) = Volume(Recent(w))
           /\ SumFunction([r \in SourceRows(w) |-> r.pass]) = Volume(Passing(Recent(w)))
<1> DEFINE S == Recent(w)
           P == Passing(S)
           K == {SenderKey(r.ip) : r \in S}
           key == [r \in S |-> SenderKey(r.ip)]
           group == [k \in K |-> {r \in S : SenderKey(r.ip) = k}]
           passing == [k \in K |-> Passing(group[k])]
           volume == [k \in K |-> Volume(group[k])]
           pass == [k \in K |-> Volume(passing[k])]
           row == [k \in K |-> [sender |-> k, volume |-> volume[k], pass |-> pass[k]]]
           T == SourceRows(w)
<1>1. S \in SUBSET Row /\ IsFiniteSet(S) /\ P \in SUBSET Row /\ IsFiniteSet(P)
  BY RecentIsRows, PartsOfRows
<1>2. /\ \A r \in S : key[r] \in K
      /\ \A k \in K : group[k] = {r \in S : key[r] = k}
      /\ \A r \in P : key[r] \in K
      /\ \A k \in K : passing[k] = {r \in P : key[r] = k}
      /\ \A k \in K : \E r \in S : k = key[r]
  BY DEF Passing
<1>3. T = {row[k] : k \in K}
  BY DEF SourceRows
<1>4. /\ \A k \in K : volume[k] = Volume(group[k])
      /\ \A k \in K : pass[k] = Volume(passing[k])
      /\ \A k \in K : row[k].sender = k /\ row[k].volume = volume[k] /\ row[k].pass = pass[k]
  OBVIOUS
<1> HIDE DEF S, P, K, key, group, passing, volume, pass, row, T
<1>5. IsFiniteSet(K)
  BY <1>1, <1>2, ImageIsFinite
<1>6. Volume(S) = SumFunctionOnSet(volume, K)
  BY <1>1, <1>2, <1>4, <1>5, VolumeOfGroups
<1>7. Volume(P) = SumFunctionOnSet(pass, K)
  BY <1>1, <1>2, <1>4, <1>5, VolumeOfGroups
<1>8. Renames(row, K, T) /\ \A k \in K : row[k] \in T
  <2>1. \A k, l \in K : row[k] = row[l] => k = l
    BY <1>4, Zenon
  <2> QED
    BY <1>3, <2>1 DEF Renames
<1>9. \A k \in K : volume[k] \in Int /\ pass[k] \in Int
  <2> SUFFICES ASSUME NEW k \in K PROVE volume[k] \in Int /\ pass[k] \in Int
    OBVIOUS
  <2>1. group[k] \in SUBSET S /\ passing[k] \in SUBSET P
    BY <1>2
  <2>2. /\ group[k] \in SUBSET Row /\ IsFiniteSet(group[k])
        /\ passing[k] \in SUBSET Row /\ IsFiniteSet(passing[k])
    BY <1>1, <2>1, FS_Subset
  <2>3. Volume(group[k]) \in Nat /\ Volume(passing[k]) \in Nat
    BY <2>2, VolumeType
  <2> QED
    BY <1>4, <2>3
<1>10. SumFunctionOnSet(volume, K) = SumFunctionOnSet([r \in T |-> r.volume], T)
  <2> DEFINE g == [r \in T |-> r.volume]
  <2>1. \A k \in K : g[row[k]] = volume[k]
    BY <1>4, <1>8
  <2> HIDE DEF g
  <2>2. SumFunctionOnSet(volume, K) = SumFunctionOnSet(g, T)
    BY <1>5, <1>8, <1>9, <2>1, SumRename
  <2> QED
    BY <2>2 DEF g
<1>11. SumFunctionOnSet(pass, K) = SumFunctionOnSet([r \in T |-> r.pass], T)
  <2> DEFINE g == [r \in T |-> r.pass]
  <2>1. \A k \in K : g[row[k]] = pass[k]
    BY <1>4, <1>8
  <2> HIDE DEF g
  <2>2. SumFunctionOnSet(pass, K) = SumFunctionOnSet(g, T)
    BY <1>5, <1>8, <1>9, <2>1, SumRename
  <2> QED
    BY <2>2 DEF g
<1>12. /\ SumFunction([r \in T |-> r.volume]) = SumFunctionOnSet([r \in T |-> r.volume], T)
       /\ SumFunction([r \in T |-> r.pass]) = SumFunctionOnSet([r \in T |-> r.pass], T)
  BY DEF SumFunction
<1>13. /\ SumFunction([r \in T |-> r.volume]) = Volume(S)
       /\ SumFunction([r \in T |-> r.pass]) = Volume(P)
  BY <1>6, <1>7, <1>10, <1>11, <1>12
<1> QED
  BY <1>13 DEF S, P, T

\* Three views that group the same rows by domain, by day and by sender show one
\* volume and one number of passes, whatever rows there are and however the
\* networks of the sources overlap.
THEOREM OneVolume == Spec => []ViewsAgree
<1> SUFFICES ASSUME Tables PROVE ViewsAgree
  BY TablesInvariant, PTL
<1> SUFFICES ASSUME NEW w \in Windows
             PROVE  /\ SumSplits(DomainSplits(w)) = SumSplits(DailySplits(w))
                    /\ Total(SumSplits(DomainSplits(w)))
                         = SumFunction([r \in SourceRows(w) |-> r.volume])
                    /\ SumSplits(DomainSplits(w)).pass
                         = SumFunction([r \in SourceRows(w) |-> r.pass])
  BY DEF ViewsAgree
<1>1. Total(ThreeWay(Recent(w))) = Volume(Recent(w))
  BY RecentIsRows, PartsOfRows
<1>2. ThreeWay(Recent(w)).pass = Volume(Passing(Recent(w)))
  BY DEF ThreeWay
<1> QED
  BY <1>1, <1>2, PerDomain, PerDay, PerSender

-----------------------------------------------------------------------------
(* Spoofing *)

\* Rows that fail and that no known sender sent only grow what nobody has named.
LEMMA StrangersOnly ==
    ASSUME NEW S \in SUBSET Row, IsFiniteSet(S), NEW T \in SUBSET Row, IsFiniteSet(T), S \subseteq T,
           \A r \in T \ S : ~r.spf /\ ~r.dkim /\ ~Known(r.ip)
    PROVE  /\ ThreeWay(T).pass = ThreeWay(S).pass
           /\ ThreeWay(T).known = ThreeWay(S).known
           /\ ThreeWay(T).unclassified >= ThreeWay(S).unclassified
<1>1. Passing(T) = Passing(S) /\ Lost(T) = Lost(S)
  BY DEF Passing, Lost
<1> DEFINE A == Strange(S)
           B == Strange(T) \ A
<1>2. A \in SUBSET Row /\ IsFiniteSet(A) /\ Strange(T) \in SUBSET Row /\ IsFiniteSet(Strange(T))
  BY PartsOfRows
<1>3. B \in SUBSET Strange(T)
  OBVIOUS
<1>4. B \in SUBSET Row /\ IsFiniteSet(B) /\ A \cap B = {} /\ A \cup B = Strange(T)
  <2>1. A \subseteq Strange(T)
    BY DEF Strange
  <2>2. IsFiniteSet(B)
    <3> HIDE DEF B
    <3> QED
      BY <1>2, <1>3, FS_Subset
  <2> QED
    BY <1>2, <1>3, <2>1, <2>2
<1> HIDE DEF A, B
<1>5. Volume(A \cup B) = Volume(A) + Volume(B)
  BY <1>2, <1>4, VolumeOfUnion
<1>6. Volume(A) \in Nat /\ Volume(B) \in Nat
  BY <1>2, <1>4, VolumeType
<1>7. Volume(A \cup B) >= Volume(A)
  BY <1>5, <1>6
<1>8. Volume(Strange(T)) >= Volume(A)
  BY <1>4, <1>7
<1> QED
  BY <1>1, <1>8 DEF ThreeWay, A

\* The step of SpoofingIsNeutral.
Spoofing ==
    /\ UNCHANGED <<today, signals>>
    /\ rows' # rows
    /\ \A r \in rows' \ rows : ~r.spf /\ ~r.dkim /\ ~Known(r.ip)

LEMMA SpoofingStep ==
    ASSUME Tables, Tables', [Next]_vars, Spoofing, NEW w \in Windows, NEW d \in Domains
    PROVE  /\ Legitimate(DomainSplits(w)[d]) = Legitimate(DomainSplits(w)'[d])
           /\ DomainSplits(w)[d].pass = DomainSplits(w)'[d].pass
           /\ Verdicts(DomainSplits(w))[d] = "not_ready" => Verdicts(DomainSplits(w)')[d] # "ready"
<1>1. rows \subseteq rows'
  BY DEF Next, vars, ReceiveAggregate, ReceiveTls, Resync, NextDay
<1> DEFINE S == RecentOf(d, w)
           T == RecentOf(d, w)'
           s == DomainSplits(w)[d]
           t == DomainSplits(w)'[d]
<1>2. S \in SUBSET Row /\ IsFiniteSet(S) /\ s = ThreeWay(S) /\ s \in Splits
  BY DomainSplit
<1>3. T \in SUBSET Row /\ IsFiniteSet(T) /\ t = ThreeWay(T) /\ t \in Splits
  <2>1. /\ rows' \in SUBSET Row /\ IsFiniteSet(rows')
        /\ T \in SUBSET rows'
    BY DEF Tables, AggregateTables, RecentOf, Recent
  <2>2. T \in SUBSET Row /\ IsFiniteSet(T)
    <3> HIDE DEF T
    <3> QED
      BY <2>1, FS_Subset
  <2>3. t = SplitOver(T)
    BY DEF DomainSplits, RecentOf
  <2> HIDE DEF T, t
  <2> QED
    BY <2>2, <2>3, SplitOverIsThreeWay, PartsOfRows
<1>4. S \subseteq T /\ \A r \in T \ S : ~r.spf /\ ~r.dkim /\ ~Known(r.ip)
  BY <1>1 DEF Spoofing, RecentOf, Recent, InWindow
<1> HIDE DEF S, T
<1>5. t.pass = s.pass /\ t.known = s.known /\ t.unclassified >= s.unclassified
  BY <1>2, <1>3, <1>4, StrangersOnly
<1> DEFINE dmarc == signals[d]["dmarc"]
<1>6. Verdicts(DomainSplits(w))[d] = Verdict(s, dmarc) /\ Verdicts(DomainSplits(w)')[d] = Verdict(t, dmarc)
  BY DEF Verdicts
<1>7. Verdict(s, dmarc) = "not_ready" => Total(s) >= MinVolume
  <2> HIDE DEF s, t, dmarc
  <2>1. Total(s) \in Nat
    BY <1>2 DEF Splits, Total
  <2> QED
    BY <2>1, ScoreAssumption DEF Verdict
<1> HIDE DEF s, t, dmarc
<1>8. Verdict(s, dmarc) = "not_ready" => Verdict(t, dmarc) # "ready"
  <2> SUFFICES ASSUME Verdict(s, dmarc) = "not_ready", Verdict(t, dmarc) = "ready" PROVE FALSE
    OBVIOUS
  <2>1. Verdict(s, dmarc) = "ready"
    BY <1>2, <1>3, <1>5, <1>7, UnknownsNeverHelp
  <2> QED
    BY <2>1
<1>9. Legitimate(s) = Legitimate(t)
  BY <1>5 DEF Legitimate
<1> QED
  BY <1>5, <1>6, <1>8, <1>9 DEF s, t

\* A step that adds nothing but failures from senders nobody has named leaves the
\* score of every domain alone, and makes no domain with enough volume ready.
THEOREM SpoofingChangesNothing == Spec => SpoofingIsNeutral
<1> DEFINE Kept ==
        Spoofing => \A w \in Windows :
            LET before == DomainSplits(w)
                after == DomainSplits(w)'
            IN  \A d \in Domains :
                /\ Legitimate(before[d]) = Legitimate(after[d])
                /\ before[d].pass = after[d].pass
                /\ Verdicts(before)[d] = "not_ready" => Verdicts(after)[d] # "ready"
<1>1. Tables /\ Tables' /\ [Next]_vars => Kept
  BY SpoofingStep
<1>2. Tables /\ Tables' /\ [Next]_vars => [Kept]_vars
  BY <1>1
<1>3. [][Next]_vars /\ []Tables => [][Kept]_vars
  <2> HIDE DEF Kept
  <2> QED
    BY <1>2, PTL
<1>4. [][Kept]_vars => SpoofingIsNeutral
  BY PTL DEF SpoofingIsNeutral, Spoofing
<1> QED
  BY <1>3, <1>4, TablesInvariant, PTL DEF Spec

-----------------------------------------------------------------------------
(* The Overview's suggestion *)

LEMMA Cancel ==
    ASSUME NEW m \in Nat, m > 0, NEW x \in Nat, NEW y \in Nat
    PROVE  /\ m * x > m * y => x > y
           /\ m * x >= m * y => x >= y
<1>1. x <= y => m * x <= m * y
  <2> SUFFICES ASSUME x <= y PROVE m * x <= m * y
    OBVIOUS
  <2>1. m * (y - x) >= 0
    BY Z3
  <2>2. m * (y - x) = m * y - m * x
    BY Z3
  <2> QED
    BY <2>1, <2>2, Z3
<1>2. x < y => m * x < m * y
  <2> SUFFICES ASSUME x < y PROVE m * x < m * y
    OBVIOUS
  <2>1. m * (y - x) > 0
    BY Z3
  <2>2. m * (y - x) = m * y - m * x
    BY Z3
  <2> QED
    BY <2>1, <2>2, Z3
<1>3. m * x \in Int /\ m * y \in Int
  BY Z3
<1> DEFINE a == m * x  b == m * y
<1> HIDE DEF a, b
<1>4. (x <= y => a <= b) /\ (x < y => a < b) /\ a \in Int /\ b \in Int
  BY <1>1, <1>2, <1>3 DEF a, b
<1>5. (a > b => x > y) /\ (a >= b => x >= y)
  BY <1>4
<1> QED
  BY <1>5 DEF a, b

LEMMA Scale ==
    ASSUME NEW m \in Nat, m > 0, NEW x \in Nat, NEW y \in Nat
    PROVE  /\ x > y => m * x > m * y
           /\ x >= y => m * x >= m * y
<1>1. x >= y => m * (x - y) >= 0
  BY Z3
<1>2. x > y => m * (x - y) > 0
  BY Z3
<1>3. m * (x - y) = m * x - m * y
  BY Z3
<1> QED
  BY <1>1, <1>2, <1>3, Z3

\* Fractions compared by cross multiplication are compared transitively.
LEMMA FractionsChain ==
    ASSUME NEW p1 \in Nat, NEW p2 \in Nat, NEW p3 \in Nat,
           NEW l1 \in Nat \ {0}, NEW l2 \in Nat \ {0}, NEW l3 \in Nat \ {0},
           p1 * l2 >= p2 * l1, p2 * l3 >= p3 * l2
    PROVE  /\ p1 * l3 >= p3 * l1
           /\ p1 * l2 > p2 * l1 \/ p2 * l3 > p3 * l2 => p1 * l3 > p3 * l1
<1> DEFINE a == p1 * l2  b == p2 * l1  c == p2 * l3  d == p3 * l2  x == p1 * l3  y == p3 * l1
<1>1. a \in Nat /\ b \in Nat /\ c \in Nat /\ d \in Nat /\ x \in Nat /\ y \in Nat
  BY Z3
<1>2. l3 * a = l2 * x /\ l3 * b = l1 * c /\ l1 * d = l2 * y
  BY Z3
<1>3. a >= b /\ c >= d
  OBVIOUS
<1>4. p1 * l2 > p2 * l1 \/ p2 * l3 > p3 * l2 => a > b \/ c > d
  OBVIOUS
<1> HIDE DEF a, b, c, d, x, y
<1> DEFINE A == l3 * a  B == l3 * b  C == l1 * d
<1>5. A >= B /\ B >= C /\ (a > b => A > B) /\ (c > d => B > C)
  <2>1. l3 * a >= l3 * b /\ (a > b => l3 * a > l3 * b)
    BY <1>1, <1>3, Scale
  <2>2. l1 * c >= l1 * d /\ (c > d => l1 * c > l1 * d)
    BY <1>1, <1>3, Scale
  <2> HIDE DEF A, B, C
  <2>3. A = l3 * a /\ B = l3 * b /\ B = l1 * c /\ C = l1 * d
    BY <1>2 DEF A, B, C
  <2> QED
    BY <2>1, <2>2, <2>3
<1>6. A \in Int /\ B \in Int /\ C \in Int
  BY <1>1, Z3
<1>7. A = l2 * x /\ C = l2 * y
  BY <1>2
<1> HIDE DEF A, B, C
<1>8. A >= C /\ (a > b \/ c > d => A > C)
  BY <1>5, <1>6
<1>9. x >= y /\ (a > b \/ c > d => x > y)
  BY <1>1, <1>7, <1>8, Cancel
<1>10. x = p1 * l3 /\ y = p3 * l1
  BY DEF x, y
<1> QED
  BY <1>4, <1>9, <1>10

LEMMA SplitNumbers ==
    ASSUME NEW s \in Splits
    PROVE  /\ s.pass \in Nat /\ Legitimate(s) \in Nat /\ Total(s) \in Nat
           /\ s.pass <= Legitimate(s)
BY DEF Splits, Legitimate, Total

\* Without legitimate volume nothing passes, and only a split without any comes after.
LEMMA OutranksByCases ==
    ASSUME NEW s \in Splits, NEW t \in Splits
    PROVE  /\ Legitimate(s) > 0 /\ Legitimate(t) = 0 => Outranks(s, t)
           /\ Legitimate(s) = 0 /\ Legitimate(t) > 0 => ~Outranks(s, t)
           /\ Legitimate(s) = 0 /\ Legitimate(t) = 0 => (Outranks(s, t) <=> Total(s) > Total(t))
           /\ Legitimate(s) > 0 /\ Legitimate(t) > 0 =>
                (Outranks(s, t) <=>
                   \/ s.pass * Legitimate(t) > t.pass * Legitimate(s)
                   \/ /\ s.pass * Legitimate(t) = t.pass * Legitimate(s)
                      /\ Total(s) > Total(t))
<1> DEFINE p == s.pass  l == Legitimate(s)  q == t.pass  m == Legitimate(t)
<1>1. p \in Nat /\ l \in Nat /\ q \in Nat /\ m \in Nat /\ p <= l /\ q <= m
  BY SplitNumbers
<1>2. Outranks(s, t) <=>
        \/ l > 0 /\ m = 0
        \/ p * m > q * l
        \/ (l > 0) = (m > 0) /\ p * m = q * l /\ Total(s) > Total(t)
  BY DEF Outranks
<1> HIDE DEF p, l, q, m
<1>3. l = 0 => p = 0 /\ p * m = 0 /\ q * l = 0
  BY <1>1
<1>5. l > 0 /\ m = 0 => Outranks(s, t)
  BY <1>2
<1>6. l = 0 /\ m > 0 => ~Outranks(s, t)
  BY <1>1, <1>2, <1>3
<1>7. l = 0 /\ m = 0 => (Outranks(s, t) <=> Total(s) > Total(t))
  BY <1>1, <1>2, <1>3
<1>8. l > 0 /\ m > 0 => (Outranks(s, t) <=>
                           \/ p * m > q * l
                           \/ p * m = q * l /\ Total(s) > Total(t))
  BY <1>1, <1>2
<1> QED
  BY <1>5, <1>6, <1>7, <1>8 DEF l, m, p, q

LEMMA OutranksIsStrict == \A s \in Splits : ~Outranks(s, s)
<1> SUFFICES ASSUME NEW s \in Splits PROVE ~Outranks(s, s)
  OBVIOUS
<1> DEFINE x == s.pass * Legitimate(s)
<1>1. x \in Int /\ Total(s) \in Nat
  BY SplitNumbers
<1>2. Outranks(s, s) <=>
        \/ Legitimate(s) > 0 /\ Legitimate(s) = 0
        \/ x > x
        \/ (Legitimate(s) > 0) = (Legitimate(s) > 0) /\ x = x /\ Total(s) > Total(s)
  BY DEF Outranks
<1> HIDE DEF x
<1> QED
  BY <1>1, <1>2

LEMMA OutranksIsTransitive ==
    \A s, t, u \in Splits : Outranks(s, t) /\ Outranks(t, u) => Outranks(s, u)
<1> SUFFICES ASSUME NEW s \in Splits, NEW t \in Splits, NEW u \in Splits,
                    Outranks(s, t), Outranks(t, u)
             PROVE  Outranks(s, u)
  OBVIOUS
<1>1. /\ Legitimate(s) \in Nat /\ Legitimate(t) \in Nat /\ Legitimate(u) \in Nat
      /\ Total(s) \in Nat /\ Total(t) \in Nat /\ Total(u) \in Nat
      /\ s.pass \in Nat /\ t.pass \in Nat /\ u.pass \in Nat
  BY SplitNumbers
<1>2. Legitimate(t) > 0 => Legitimate(s) > 0
  BY <1>1, OutranksByCases
<1>3. Legitimate(u) > 0 => Legitimate(t) > 0
  BY <1>1, OutranksByCases
<1>4. CASE Legitimate(s) = 0
  <2>1. Legitimate(t) = 0 /\ Legitimate(u) = 0
    BY <1>1, <1>2, <1>3, <1>4
  <2>2. Total(s) > Total(t) /\ Total(t) > Total(u)
    BY <1>4, <2>1, OutranksByCases
  <2>3. Total(s) > Total(u)
    BY <2>2, <1>1
  <2> QED
    BY <1>4, <2>1, <2>3, OutranksByCases
<1>5. CASE Legitimate(s) > 0 /\ Legitimate(u) = 0
  BY <1>5, OutranksByCases
<1>6. CASE Legitimate(s) > 0 /\ Legitimate(u) > 0
  <2>0. Legitimate(t) > 0
    BY <1>3, <1>6
  <2> DEFINE p == s.pass  q == t.pass  r == u.pass
             l == Legitimate(s)  m == Legitimate(t)  n == Legitimate(u)
  <2>1. \/ p * m > q * l
        \/ p * m = q * l /\ Total(s) > Total(t)
    BY <1>6, <2>0, OutranksByCases
  <2>2. \/ q * n > r * m
        \/ q * n = r * m /\ Total(t) > Total(u)
    BY <1>6, <2>0, OutranksByCases
  <2>3. /\ p \in Nat /\ q \in Nat /\ r \in Nat
        /\ l \in Nat \ {0} /\ m \in Nat \ {0} /\ n \in Nat \ {0}
    BY <1>1, <1>6, <2>0
  <2>4. Outranks(s, u) <=>
          \/ p * n > r * l
          \/ p * n = r * l /\ Total(s) > Total(u)
    BY <1>6, OutranksByCases
  <2> HIDE DEF p, q, r, l, m, n
  <2>5. p * m \in Int /\ q * l \in Int /\ q * n \in Int /\ r * m \in Int /\ p * n \in Int /\ r * l \in Int
    BY <2>3
  <2>6. p * m >= q * l /\ q * n >= r * m
    BY <2>1, <2>2, <2>5
  <2>7. /\ p * n >= r * l
        /\ p * m > q * l \/ q * n > r * m => p * n > r * l
    BY <2>3, <2>6, FractionsChain
  <2>8. p * n > r * l \/ (p * n = r * l /\ Total(s) > Total(t) /\ Total(t) > Total(u))
    BY <2>1, <2>2, <2>5, <2>7
  <2> QED
    BY <2>4, <2>8, <1>1
<1> QED
  BY <1>1, <1>4, <1>5, <1>6

\* The Overview suggests a domain that is safe to tighten if there is one, for
\* any splits: the ranking is a strict order in which those come first.
THEOREM SuggestsOnlyReady == Spec => []CalloutIsSafe
<1> SUFFICES ASSUME Tables PROVE CalloutIsSafe
  BY TablesInvariant, PTL
<1> SUFFICES ASSUME NEW w \in Windows,
                    NEW S, S = {d \in Candidates(DomainSplits(w)) :
                                  Verdicts(DomainSplits(w))[d] = "ready"},
                    S # {}
             PROVE  Callouts(DomainSplits(w)) # {} /\ Callouts(DomainSplits(w)) \subseteq S
  BY DEF CalloutIsSafe
<1> DEFINE splits == DomainSplits(w)
           R == {p \in Domains \X Domains : Outranks(splits[p[1]], splits[p[2]])}
<1>1. S \subseteq Candidates(splits) /\ Candidates(splits) \subseteq Domains
  BY DEF Candidates
<1>2. \A d \in Domains : splits[d] \in Splits
  BY DomainSplit
<1>3. \A d, e \in Domains : <<d, e>> \in R <=> Outranks(splits[d], splits[e])
  OBVIOUS
<1>4. /\ \A x \in S : <<x, x>> \notin R
      /\ \A x, y, z \in S : <<x, y>> \in R /\ <<y, z>> \in R => <<x, z>> \in R
  <2> HIDE DEF R, splits
  <2> QED
    BY <1>1, <1>2, <1>3, OutranksIsStrict, OutranksIsTransitive
<1>5. IsFiniteSet(S)
  BY <1>1, DocumentAssumption, FS_Subset
<1>6. PICK best \in S : \A y \in S : <<y, best>> \notin R
  <2> HIDE DEF R, splits
  <2> QED
    BY <1>4, <1>5, FiniteSetHasBest
<1>7. \A d, e \in Candidates(splits) :
        RanksBefore(d, e, splits) <=>
          \/ d \in S /\ e \notin S
          \/ (d \in S) = (e \in S) /\ Outranks(splits[d], splits[e])
  BY DEF RanksBefore
<1> HIDE DEF splits, R
<1>8. best \in Callouts(splits)
  BY <1>1, <1>3, <1>6, <1>7 DEF Callouts
<1>9. Callouts(splits) \subseteq S
  BY <1>1, <1>6, <1>7 DEF Callouts
<1> QED
  BY <1>8, <1>9 DEF splits

-----------------------------------------------------------------------------
(* TLS results: totals, causes, reporters and summaries *)

FailedOf(S) == [r \in S |-> r.failed]

OkOf(S) == [r \in S |-> r.ok]

LEMMA RecentTlsIsRows ==
    ASSUME Tables, NEW w
    PROVE  /\ RecentTls(w) \in SUBSET TlsRow /\ IsFiniteSet(RecentTls(w))
           /\ RecentTls(w) \subseteq tlsRows
           /\ \A r \in RecentTls(w) : FailedOf(RecentTls(w))[r] \in Nat /\ OkOf(RecentTls(w))[r] \in Nat
           /\ TlsTotals(w).failed = SumFunctionOnSet(FailedOf(RecentTls(w)), RecentTls(w))
           /\ TlsTotals(w).ok = SumFunctionOnSet(OkOf(RecentTls(w)), RecentTls(w))
<1>1. tlsRows \in SUBSET TlsRow /\ IsFiniteSet(tlsRows) /\ RecentTls(w) \in SUBSET tlsRows
  BY DEF Tables, TlsTables, RecentTls
<1>2. RecentTls(w) \in SUBSET TlsRow /\ IsFiniteSet(RecentTls(w))
  BY <1>1, FS_Subset
<1>3. \A r \in RecentTls(w) : FailedOf(RecentTls(w))[r] \in Nat /\ OkOf(RecentTls(w))[r] \in Nat
  BY <1>2 DEF TlsRow, FailedOf, OkOf
<1>4. /\ TlsTotals(w).failed = SumFunctionOnSet(FailedOf(RecentTls(w)), RecentTls(w))
      /\ TlsTotals(w).ok = SumFunctionOnSet(OkOf(RecentTls(w)), RecentTls(w))
  BY DEF TlsTotals, SumFunction, FailedOf, OkOf
<1> QED
  BY <1>1, <1>2, <1>3, <1>4

LEMMA PerCause ==
    ASSUME Tables, NEW w
    PROVE  TlsTotals(w).failed = SumFunction([f \in TlsFailures(w) |-> f.count])
<1> DEFINE all == RecentTls(w)
           f == FailedOf(all)
           S == TlsFailing(w)
           K == {r.type : r \in S}
           key == [r \in S |-> r.type]
           group == [t \in K |-> {x \in S : x.type = t}]
           part == [t \in K |-> [r \in group[t] |-> r.failed]]
           g == [t \in K |-> SumFunction(part[t])]
           row == [t \in K |-> [type |-> t, count |-> g[t]]]
           T == TlsFailures(w)
           h == [x \in T |-> x.count]
<1>1. all \in SUBSET TlsRow /\ IsFiniteSet(all) /\ \A r \in all : f[r] \in Nat
  BY RecentTlsIsRows
<1>2. S \in SUBSET all /\ \A r \in all \ S : f[r] = 0
  BY <1>1 DEF TlsFailing, FailedOf, TlsRow
<1>3. TlsTotals(w).failed = SumFunctionOnSet(f, all)
  BY RecentTlsIsRows
<1>4. /\ \A r \in S : key[r] \in K
      /\ \A t \in K : \E r \in S : t = key[r]
      /\ \A t \in K : group[t] = {r \in S : key[r] = t}
      /\ \A t \in K : DOMAIN part[t] = group[t] /\ \A r \in group[t] : part[t][r] = r.failed
      /\ \A t \in K : g[t] = SumFunction(part[t])
      /\ \A t \in K : row[t].type = t /\ row[t].count = g[t]
  OBVIOUS
<1>5. T = {row[t] : t \in K}
  BY DEF TlsFailures
<1>6. DOMAIN h = T /\ \A x \in T : h[x] = x.count
  OBVIOUS
<1>7. \A r \in all : f[r] = r.failed
  BY DEF FailedOf
<1> HIDE DEF all, f, S, K, key, group, part, g, row, T, h
<1>8. IsFiniteSet(S) /\ \A r \in S : f[r] \in Int
  BY <1>1, <1>2, FS_Subset
<1>9. SumFunctionOnSet(f, all) = SumFunctionOnSet(f, S)
  BY <1>1, <1>2, SumNonZero
<1>10. IsFiniteSet(K)
  BY <1>4, <1>8, ImageIsFinite
<1>11. \A t \in K : g[t] = SumFunctionOnSet(f, group[t]) /\ g[t] \in Int
  <2> SUFFICES ASSUME NEW t \in K
               PROVE  g[t] = SumFunctionOnSet(f, group[t]) /\ g[t] \in Int
    OBVIOUS
  <2>1. group[t] \in SUBSET S
    BY <1>4
  <2>2. IsFiniteSet(group[t]) /\ \A r \in group[t] : f[r] \in Int /\ part[t][r] = f[r]
    BY <1>2, <1>4, <1>7, <1>8, <2>1, FS_Subset
  <2>3. SumFunction(part[t]) = SumFunctionOnSet(f, DOMAIN part[t])
    BY <1>4, <2>2, SumOfPart
  <2>4. SumFunctionOnSet(f, group[t]) \in Int
    BY <2>2, SumType
  <2> QED
    BY <1>4, <2>3, <2>4
<1>12. SumFunctionOnSet(f, S) = SumFunctionOnSet(g, K)
  BY <1>4, <1>8, <1>10, <1>11, SumGroups
<1>13. Renames(row, K, T) /\ \A t \in K : row[t] \in T
  <2>1. \A t, u \in K : row[t] = row[u] => t = u
    BY <1>4, Zenon
  <2> QED
    BY <1>5, <2>1 DEF Renames
<1>14. \A t \in K : h[row[t]] = g[t]
  BY <1>4, <1>6, <1>13
<1>15. DOMAIN h = T /\ \A t \in K : g[t] \in Int
  BY <1>6, <1>11
<1>16. SumFunction(h) = SumFunctionOnSet(g, K)
  BY <1>10, <1>13, <1>14, <1>15, SumOfTable
<1> QED
  BY <1>3, <1>9, <1>12, <1>16 DEF h, T

LEMMA PerReporter ==
    ASSUME Tables, NEW w
    PROVE  /\ TlsTotals(w).failed = SumFunction([r \in TlsReporters(w) |-> r.failed])
           /\ TlsTotals(w).ok = SumFunction([r \in TlsReporters(w) |-> r.ok])
<1> DEFINE S == RecentTls(w)
           f1 == FailedOf(S)
           f2 == OkOf(S)
           K == {tlsReports[r.report].org : r \in S}
           key == [r \in S |-> tlsReports[r.report].org]
           group == [o \in K |-> TlsFrom(w, o)]
           part1 == [o \in K |-> [r \in group[o] |-> r.failed]]
           part2 == [o \in K |-> [r \in group[o] |-> r.ok]]
           g1 == [o \in K |-> SumFunction(part1[o])]
           g2 == [o \in K |-> SumFunction(part2[o])]
           row == [o \in K |-> [org |-> o, ok |-> g2[o], failed |-> g1[o]]]
           T == TlsReporters(w)
           h1 == [x \in T |-> x.failed]
           h2 == [x \in T |-> x.ok]
<1>1. IsFiniteSet(S) /\ \A r \in S : f1[r] \in Int /\ f2[r] \in Int
  BY RecentTlsIsRows
<1>2. TlsTotals(w).failed = SumFunctionOnSet(f1, S) /\ TlsTotals(w).ok = SumFunctionOnSet(f2, S)
  BY RecentTlsIsRows
<1>3. /\ \A r \in S : key[r] \in K
      /\ \A o \in K : \E r \in S : o = key[r]
      /\ \A o \in K : group[o] = {r \in S : key[r] = o}
  BY DEF TlsFrom
<1>4. /\ \A o \in K : DOMAIN part1[o] = group[o] /\ \A r \in group[o] : part1[o][r] = r.failed
      /\ \A o \in K : DOMAIN part2[o] = group[o] /\ \A r \in group[o] : part2[o][r] = r.ok
      /\ \A o \in K : g1[o] = SumFunction(part1[o])
      /\ \A o \in K : g2[o] = SumFunction(part2[o])
      /\ \A o \in K : row[o].org = o /\ row[o].ok = g2[o] /\ row[o].failed = g1[o]
  OBVIOUS
<1>5. T = {row[o] : o \in K}
  BY DEF TlsReporters
<1>6. /\ DOMAIN h1 = T /\ \A x \in T : h1[x] = x.failed
      /\ DOMAIN h2 = T /\ \A x \in T : h2[x] = x.ok
  OBVIOUS
<1>7. \A r \in S : f1[r] = r.failed /\ f2[r] = r.ok
  BY DEF FailedOf, OkOf
<1> HIDE DEF S, f1, f2, K, key, group, part1, part2, g1, g2, row, T, h1, h2
<1>8. IsFiniteSet(K)
  BY <1>1, <1>3, ImageIsFinite
<1>9. \A o \in K : /\ g1[o] = SumFunctionOnSet(f1, group[o]) /\ g1[o] \in Int
                   /\ g2[o] = SumFunctionOnSet(f2, group[o]) /\ g2[o] \in Int
  <2> SUFFICES ASSUME NEW o \in K
               PROVE  /\ g1[o] = SumFunctionOnSet(f1, group[o]) /\ g1[o] \in Int
                      /\ g2[o] = SumFunctionOnSet(f2, group[o]) /\ g2[o] \in Int
    OBVIOUS
  <2>1. group[o] \in SUBSET S
    BY <1>3
  <2>2. /\ IsFiniteSet(group[o])
        /\ \A r \in group[o] : f1[r] \in Int /\ part1[o][r] = f1[r] /\ f2[r] \in Int /\ part2[o][r] = f2[r]
    BY <1>1, <1>4, <1>7, <2>1, FS_Subset
  <2>3. SumFunction(part1[o]) = SumFunctionOnSet(f1, DOMAIN part1[o])
    BY <1>4, <2>2, SumOfPart
  <2>4. SumFunction(part2[o]) = SumFunctionOnSet(f2, DOMAIN part2[o])
    BY <1>4, <2>2, SumOfPart
  <2>5. SumFunctionOnSet(f1, group[o]) \in Int /\ SumFunctionOnSet(f2, group[o]) \in Int
    BY <2>2, SumType
  <2> QED
    BY <1>4, <2>3, <2>4, <2>5
<1>10. SumFunctionOnSet(f1, S) = SumFunctionOnSet(g1, K)
  BY <1>1, <1>3, <1>8, <1>9, SumGroups
<1>11. SumFunctionOnSet(f2, S) = SumFunctionOnSet(g2, K)
  BY <1>1, <1>3, <1>8, <1>9, SumGroups
<1>12. Renames(row, K, T) /\ \A o \in K : row[o] \in T
  <2>1. \A o, p \in K : row[o] = row[p] => o = p
    BY <1>4, Zenon
  <2> QED
    BY <1>5, <2>1 DEF Renames
<1>13. \A o \in K : h1[row[o]] = g1[o] /\ h2[row[o]] = g2[o]
  BY <1>4, <1>6, <1>12
<1>14. DOMAIN h1 = T /\ \A o \in K : g1[o] \in Int
  BY <1>6, <1>9
<1>15. DOMAIN h2 = T /\ \A o \in K : g2[o] \in Int
  BY <1>6, <1>9
<1>16. SumFunction(h1) = SumFunctionOnSet(g1, K)
  BY <1>8, <1>12, <1>13, <1>14, SumOfTable
<1>17. SumFunction(h2) = SumFunctionOnSet(g2, K)
  BY <1>8, <1>12, <1>13, <1>15, SumOfTable
<1> QED
  BY <1>2, <1>10, <1>11, <1>16, <1>17 DEF h1, h2, T

\* What one policy becomes accounts for every failure its summary states: the
\* breakdown and, if it falls short, the remainder.
LEMMA PolicyFailures ==
    ASSUME NEW policy \in TlsPolicy
    PROVE  SumFunctionOnSet(FailedOf(PolicyResults(policy)), PolicyResults(policy))
             >= Count(policy.failed)
<1> DEFINE P == PolicyResults(policy)
           f == FailedOf(P)
           C == Causes(policy)
           L == Leftover(policy)
           U == C \cup L
           J == Typed(policy)
           e == [j \in J |-> Count(policy.details[j].failed)]
           b == [j \in J |-> CauseRow(policy, j)]
<1>1. IsFiniteSet(P) /\ C \in SUBSET P /\ L \in SUBSET P /\ IsFiniteSet(C) /\ IsFiniteSet(L) /\ U \in SUBSET P
  BY PolicyResultsFit
<1>2. \A r \in P : f[r] \in Nat /\ f[r] = r.failed
  BY PolicyResultsFit DEF FailedOf, PolicyResult
<1>3. IsFiniteSet(J) /\ \A j \in J : e[j] \in Int
  BY ExplainedType
<1>4. Explained(policy) = SumFunctionOnSet(e, J)
  BY DEF Explained, SumFunction
<1>5. Renames(b, J, C) /\ \A j \in J : f[b[j]] = e[j]
  <2>1. \A j \in J : b[j].n = j /\ b[j].failed = e[j]
    BY DEF CauseRow
  <2>2. \A j, k \in J : b[j] = b[k] => j = k
    <3> HIDE DEF b, J
    <3> QED
      BY <2>1, Zenon
  <2>3. \A j \in J : b[j] \in C
    BY DEF Causes
  <2>4. \A c \in C : \E j \in J : b[j] = c
    BY DEF Causes
  <2> HIDE DEF b, e, J, C, P, f
  <2> QED
    BY <1>1, <1>2, <2>1, <2>2, <2>3, <2>4 DEF Renames
<1>6. C \cap L = {}
  <2>1. \A c \in C : c.n \in 1 .. Len(policy.details)
    BY ExplainedType DEF Causes, CauseRow
  <2>2. \A l \in L : l.n = Len(policy.details) + 1
    BY DEF Leftover, LeftoverRow
  <2>3. policy.details \in Seq(TlsDetail)
    BY DEF TlsPolicy
  <2>4. Len(policy.details) \in Nat
    BY <2>3
  <2> QED
    BY <2>1, <2>2, <2>4
<1>7. Remainder(policy) = Count(policy.failed) - Explained(policy) /\ Explained(policy) \in Nat
  BY ExplainedType DEF Remainder
<1>8. Count(policy.failed) \in Nat
  <2>1. policy.failed \in Int \cup {Absent}
    BY DEF TlsPolicy
  <2> QED
    BY <2>1, CountType, Zenon
<1>9. \/ Remainder(policy) > 0 /\ L = {LeftoverRow(policy)} /\ LeftoverRow(policy).failed = Remainder(policy)
      \/ Remainder(policy) <= 0
  <2>1. LeftoverRow(policy).failed = Remainder(policy)
    BY DEF LeftoverRow
  <2>2. Remainder(policy) > 0 => L = {LeftoverRow(policy)}
    BY <2>1 DEF Leftover
  <2>3. Remainder(policy) \in Int
    BY <1>7, <1>8
  <2> QED
    BY <2>1, <2>2, <2>3
<1> HIDE DEF P, f, C, L, J, e, b, U
<1>10. SumFunctionOnSet(e, J) = SumFunctionOnSet(f, C)
  BY <1>3, <1>5, SumRename
<1>11. \A r \in C \cup L : f[r] \in Int /\ f[r] \in Nat
  BY <1>1, <1>2
<1>12. SumFunctionOnSet(f, C \cup L) = SumFunctionOnSet(f, C) + SumFunctionOnSet(f, L)
  BY <1>1, <1>6, <1>11, SumUnion
<1>13. SumFunctionOnSet(f, U) <= SumFunctionOnSet(f, P)
  BY <1>1, <1>2, SumGrows
<1>14. SumFunctionOnSet(f, L) \in Nat /\ SumFunctionOnSet(f, P) \in Nat /\ SumFunctionOnSet(f, C) \in Nat
  BY <1>1, <1>2, <1>11, SumNat
<1>15. Remainder(policy) > 0 => SumFunctionOnSet(f, L) = Remainder(policy)
  <2> SUFFICES ASSUME Remainder(policy) > 0 PROVE SumFunctionOnSet(f, L) = Remainder(policy)
    OBVIOUS
  <2> DEFINE l == LeftoverRow(policy)
  <2>1. L = {l} /\ l.failed = Remainder(policy)
    BY <1>7, <1>8, <1>9
  <2>2. l \in P
    BY <1>1, <2>1
  <2> HIDE DEF l
  <2>3. f[l] \in Int /\ f[l] = Remainder(policy)
    BY <1>2, <2>1, <2>2
  <2>4. SumFunctionOnSet(f, {l}) = f[l]
    BY <2>3, SumSingle
  <2> QED
    BY <2>1, <2>3, <2>4
<1>16. SumFunctionOnSet(f, U) = Explained(policy) + SumFunctionOnSet(f, L)
  BY <1>4, <1>10, <1>12 DEF U
<1>17. SumFunctionOnSet(f, P) >= Count(policy.failed)
  BY <1>7, <1>8, <1>13, <1>14, <1>15, <1>16
<1> QED
  BY <1>17 DEF f, P

LEMMA DeclaredIs ==
    ASSUME NEW w, NEW c \in TlsDeclared(w)
    PROVE  \E doc \in received \cap TlsDocs : \E i \in DOMAIN doc.policies :
             /\ c = <<doc, i>> /\ c[1] = doc /\ c[2] = i
             /\ doc.policies[i].domain # Absent
             /\ InWindow(doc.begin, w)
             /\ \A e \in received \cap TlsDocs : TlsKey(e) = TlsKey(doc) => e = doc
BY DEF TlsDeclared

LEMMA DeclaredIsFinite ==
    ASSUME Tables, NEW w
    PROVE  IsFiniteSet(TlsDeclared(w))
<1> DEFINE docs == {x \in received \cap TlsDocs :
                      /\ InWindow(x.begin, w)
                      /\ \A e \in received \cap TlsDocs : TlsKey(e) = TlsKey(x) => e = x}
           used(doc) == {j \in DOMAIN doc.policies : doc.policies[j].domain # Absent}
           part(doc) == {<<doc, i>> : i \in used(doc)}
           parts == {part(doc) : doc \in docs}
<1>1. docs \in SUBSET received /\ docs \subseteq TlsDocs /\ IsFiniteSet(received)
  BY DEF Tables, Typing
<1>2. IsFiniteSet(docs)
  <2> HIDE DEF docs
  <2> QED
    BY <1>1, FS_Subset
<1>3. ASSUME NEW doc \in docs PROVE IsFiniteSet(part(doc))
  <2>1. doc \in TlsDocs /\ doc \in TlsDoc
    BY <1>1, DocumentAssumption
  <2>2. doc.policies \in Seq(TlsPolicy)
    BY <2>1 DEF TlsDoc
  <2>3. used(doc) \in SUBSET (DOMAIN doc.policies)
    OBVIOUS
  <2> DEFINE f == [i \in used(doc) |-> <<doc, i>>]
  <2>4. \A p \in part(doc) : \E i \in used(doc) : p = f[i]
    OBVIOUS
  <2> HIDE DEF used, part, f
  <2>5. IsFiniteSet(used(doc))
    BY <2>2, <2>3, PositionsAreFinite
  <2> QED
    BY <2>4, <2>5, ImageIsFinite
<1>4. TlsDeclared(w) = UNION parts
  BY DEF TlsDeclared
<1>5. IsFiniteSet(parts)
  <2> DEFINE f == [doc \in docs |-> part(doc)]
  <2>1. \A p \in parts : \E doc \in docs : p = f[doc]
    <3> HIDE DEF docs, part
    <3> QED
      OBVIOUS
  <2> HIDE DEF docs, parts, f
  <2> QED
    BY <1>2, <2>1, ImageIsFinite
<1>6. \A P \in parts : IsFiniteSet(P)
  <2> HIDE DEF docs, part
  <2> QED
    BY <1>3
<1> HIDE DEF parts
<1> QED
  BY <1>4, <1>5, <1>6, FS_UNION

\* The rows of the window that a declared policy became.
RowsFor(c, w) ==
    {r \in RecentTls(w) : tlsReports[r.report].key = TlsKey(c[1]) /\ r.policy = c[2]}

LEMMA DeclaredIsShown ==
    ASSUME Tables, NEW w, NEW c \in TlsDeclared(w)
    PROVE  SumFunctionOnSet(FailedOf(RecentTls(w)), RowsFor(c, w))
             >= Count(c[1].policies[c[2]].failed)
<1>1. PICK doc \in received \cap TlsDocs : \E i \in DOMAIN doc.policies :
             /\ c = <<doc, i>> /\ c[1] = doc /\ c[2] = i
             /\ doc.policies[i].domain # Absent
             /\ InWindow(doc.begin, w)
             /\ \A e \in received \cap TlsDocs : TlsKey(e) = TlsKey(doc) => e = doc
  BY DeclaredIs
<1>2. PICK i \in DOMAIN doc.policies :
             /\ c = <<doc, i>> /\ c[1] = doc /\ c[2] = i
             /\ doc.policies[i].domain # Absent
             /\ InWindow(doc.begin, w)
             /\ \A e \in received \cap TlsDocs : TlsKey(e) = TlsKey(doc) => e = doc
  BY <1>1
<1>3. PICK pk \in DOMAIN tlsReports : tlsReports[pk].key = TlsKey(doc)
  BY DEF Tables, TlsTables
<1>4. {r \in tlsRows : r.report = pk} = TlsRows(doc, pk)
  <2>1. PICK d \in received \cap TlsDocs :
           /\ tlsReports[pk] = [key |-> TlsKey(d), org |-> d.org]
           /\ {r \in tlsRows : r.report = pk} = TlsRows(d, pk)
    BY DEF Tables, TlsTables
  <2>2. TlsKey(d) = TlsKey(doc)
    BY <1>3, <2>1
  <2>3. d = doc
    BY <1>2, <2>2
  <2> QED
    BY <2>1, <2>3
<1> DEFINE policy == doc.policies[i]
           P == PolicyResults(policy)
           made == [r \in P |-> [report |-> pk, policy |-> i, n |-> r.n, day |-> doc.begin,
                                 domain |-> policy.domain, type |-> r.type, ok |-> r.ok,
                                 failed |-> r.failed]]
           M == {made[r] : r \in P}
           all == RecentTls(w)
           f == FailedOf(all)
           e == FailedOf(P)
           R == RowsFor(c, w)
<1>5. policy \in TlsPolicy
  <2>1. doc.policies \in Seq(TlsPolicy)
    BY DocumentAssumption DEF TlsDoc
  <2> QED
    BY <2>1
<1>6. P \subseteq PolicyResult /\ IsFiniteSet(P)
  BY <1>5, PolicyResultsFit
<1>7. M \subseteq TlsRows(doc, pk)
  BY <1>2 DEF TlsRows
<1>8. \A m \in M : m.report = pk /\ m.policy = i /\ m.day = doc.begin
  OBVIOUS
<1>9. M \subseteq tlsRows
  BY <1>4, <1>7
<1>10. M \subseteq all
  BY <1>2, <1>8, <1>9 DEF RecentTls
<1>11. M \in SUBSET R
  BY <1>2, <1>3, <1>8, <1>10 DEF RowsFor
<1>12. IsFiniteSet(all) /\ R \in SUBSET all /\ \A r \in all : f[r] \in Nat /\ f[r] = r.failed
  BY RecentTlsIsRows DEF RowsFor, FailedOf
<1>13. IsFiniteSet(R) /\ \A r \in R : f[r] \in Nat
  <2> HIDE DEF R, all, f
  <2> QED
    BY <1>12, FS_Subset
<1>14. \A r \in P : e[r] \in Int /\ e[r] = r.failed
  BY <1>6 DEF FailedOf, PolicyResult
<1>15. \A r \in P : made[r] \in M /\ made[r].failed = r.failed
  OBVIOUS
<1>16. \A r, s \in P : made[r] = made[s] => r = s
  <2> SUFFICES ASSUME NEW r \in P, NEW s \in P, made[r] = made[s] PROVE r = s
    OBVIOUS
  <2>1. /\ made[r].n = r.n /\ made[r].type = r.type /\ made[r].ok = r.ok /\ made[r].failed = r.failed
        /\ made[s].n = s.n /\ made[s].type = s.type /\ made[s].ok = s.ok /\ made[s].failed = s.failed
    OBVIOUS
  <2> HIDE DEF made, P
  <2>2. r.n = s.n /\ r.type = s.type /\ r.ok = s.ok /\ r.failed = s.failed
    BY <2>1
  <2>3. r \in PolicyResult /\ s \in PolicyResult
    BY <1>6
  <2> QED
    BY <2>2, <2>3 DEF PolicyResult
<1>17. \A m \in M : \E r \in P : made[r] = m
  OBVIOUS
<1> HIDE DEF P, made, M, all, f, e, R
<1>18. \A r \in P : f[made[r]] = e[r]
  BY <1>10, <1>12, <1>14, <1>15
<1>19. SumFunctionOnSet(e, P) = SumFunctionOnSet(f, M)
  <2>1. Renames(made, P, M)
    BY <1>15, <1>16, <1>17 DEF Renames
  <2>2. IsFiniteSet(P) /\ \A r \in P : e[r] \in Int
    BY <1>6, <1>14
  <2> QED
    BY <2>1, <2>2, <1>18, SumRename
<1>20. SumFunctionOnSet(f, M) <= SumFunctionOnSet(f, R)
  BY <1>11, <1>13, SumGrows
<1>21. SumFunctionOnSet(e, P) >= Count(policy.failed)
  BY <1>5, PolicyFailures DEF e, P
<1>22. SumFunctionOnSet(f, M) \in Int /\ SumFunctionOnSet(f, R) \in Int
  <2>1. IsFiniteSet(M) /\ \A r \in M : f[r] \in Int
    BY <1>11, <1>13, FS_Subset
  <2> QED
    BY <1>13, <2>1, SumType
<1>23. Count(policy.failed) \in Int
  <2>1. policy.failed \in Int \cup {Absent}
    BY <1>5 DEF TlsPolicy
  <2>2. Count(policy.failed) \in Nat
    BY <2>1, CountType, Zenon
  <2> QED
    BY <2>2
<1>24. SumFunctionOnSet(f, R) >= Count(policy.failed)
  BY <1>19, <1>20, <1>21, <1>22, <1>23
<1> QED
  BY <1>2, <1>24 DEF f, R, all

LEMMA NothingUnderstated ==
    ASSUME Tables, NEW w
    PROVE  TlsTotals(w).failed
             >= SumFunction([c \in TlsDeclared(w) |-> Count(c[1].policies[c[2]].failed)])
<1> DEFINE S == RecentTls(w)
           f == FailedOf(S)
           D == TlsDeclared(w)
           U == {r \in S : \E c \in D : r \in RowsFor(c, w)}
           key == [r \in U |-> CHOOSE c \in D : r \in RowsFor(c, w)]
           group == [c \in D |-> RowsFor(c, w)]
           g == [c \in D |-> SumFunctionOnSet(f, group[c])]
           h == [c \in D |-> Count(c[1].policies[c[2]].failed)]
<1>1. IsFiniteSet(S) /\ (\A r \in S : f[r] \in Nat) /\ TlsTotals(w).failed = SumFunctionOnSet(f, S)
  BY RecentTlsIsRows
<1>2. U \in SUBSET S /\ \A c \in D : group[c] \in SUBSET U
  BY DEF RowsFor
<1>3. \A c, d \in D : \A r : r \in RowsFor(c, w) /\ r \in RowsFor(d, w) => c = d
  <2> SUFFICES ASSUME NEW c \in D, NEW d \in D, NEW r, r \in RowsFor(c, w), r \in RowsFor(d, w)
               PROVE  c = d
    OBVIOUS
  <2>1. TlsKey(c[1]) = TlsKey(d[1]) /\ c[2] = d[2]
    BY DEF RowsFor
  <2>2. PICK x \in received \cap TlsDocs : \E i \in DOMAIN x.policies :
             /\ c = <<x, i>> /\ c[1] = x /\ c[2] = i
             /\ \A e \in received \cap TlsDocs : TlsKey(e) = TlsKey(x) => e = x
    BY DeclaredIs
  <2>3. PICK y \in received \cap TlsDocs : \E i \in DOMAIN y.policies :
             d = <<y, i>> /\ d[1] = y /\ d[2] = i
    BY DeclaredIs
  <2>4. c[1] = d[1]
    BY <2>1, <2>2, <2>3
  <2> QED
    BY <2>1, <2>2, <2>3, <2>4
<1>4. \A r \in U : key[r] \in D /\ r \in RowsFor(key[r], w)
  OBVIOUS
<1>5. \A c \in D : group[c] = {r \in U : key[r] = c}
  <2> SUFFICES ASSUME NEW c \in D PROVE group[c] = {r \in U : key[r] = c}
    OBVIOUS
  <2>1. group[c] = RowsFor(c, w)
    OBVIOUS
  <2> HIDE DEF key, group, U
  <2> QED
    BY <1>2, <1>3, <1>4, <2>1
<1>6. \A c \in D : g[c] = SumFunctionOnSet(f, group[c])
  OBVIOUS
<1>7. \A c \in D : h[c] \in Int /\ g[c] \in Int /\ h[c] <= g[c]
  <2> SUFFICES ASSUME NEW c \in D PROVE h[c] \in Int /\ g[c] \in Int /\ h[c] <= g[c]
    OBVIOUS
  <2>1. g[c] >= h[c]
    BY DeclaredIsShown
  <2>2. h[c] \in Int
    <3>1. PICK doc \in received \cap TlsDocs : \E i \in DOMAIN doc.policies :
             c[1] = doc /\ c[2] = i
      BY DeclaredIs
    <3>2. doc.policies \in Seq(TlsPolicy)
      BY DocumentAssumption DEF TlsDoc
    <3>3. c[1].policies[c[2]] \in TlsPolicy
      BY <3>1, <3>2
    <3>4. c[1].policies[c[2]].failed \in Int \cup {Absent}
      BY <3>3 DEF TlsPolicy
    <3>5. Count(c[1].policies[c[2]].failed) \in Nat
      BY <3>4, CountType, Zenon
    <3> QED
      BY <3>5
  <2>3. IsFiniteSet(group[c]) /\ \A r \in group[c] : f[r] \in Int
    <3>1. group[c] \in SUBSET S
      BY <1>2
    <3> HIDE DEF group, S, f
    <3> QED
      BY <1>1, <3>1, FS_Subset
  <2>4. g[c] \in Int
    <3>1. g[c] = SumFunctionOnSet(f, group[c])
      OBVIOUS
    <3> HIDE DEF g, group, f
    <3> QED
      BY <2>3, <3>1, SumType
  <2> HIDE DEF g, h
  <2> QED
    BY <2>1, <2>2, <2>4
<1>8. IsFiniteSet(D)
  BY DeclaredIsFinite
<1>9. SumFunction(h) = SumFunctionOnSet(h, D)
  BY DEF SumFunction
<1> HIDE DEF S, f, D, U, key, group, g, h
<1>10. IsFiniteSet(U) /\ \A r \in U : f[r] \in Int /\ key[r] \in D
  BY <1>1, <1>2, <1>4, FS_Subset
<1>11. SumFunctionOnSet(f, U) = SumFunctionOnSet(g, D)
  BY <1>5, <1>6, <1>8, <1>10, SumGroups
<1>12. SumFunctionOnSet(h, D) <= SumFunctionOnSet(g, D)
  BY <1>7, <1>8, SumAtMost
<1>13. SumFunctionOnSet(f, U) <= SumFunctionOnSet(f, S)
  BY <1>1, <1>2, SumGrows
<1>14. /\ SumFunctionOnSet(f, U) \in Int /\ SumFunctionOnSet(h, D) \in Int
  BY <1>7, <1>8, <1>10, SumType
<1>15. SumFunctionOnSet(f, S) \in Int
  <2>1. \A r \in S : f[r] \in Int
    BY <1>1
  <2> QED
    BY <1>1, <2>1, SumType
<1>16. TlsTotals(w).failed >= SumFunction(h)
  BY <1>1, <1>9, <1>11, <1>12, <1>13, <1>14, <1>15
<1> QED
  BY <1>16 DEF h, D

\* Totals, causes and reporters agree on the TLS results of any window, and no
\* summary of a stored report is shown smaller than it was stated.
THEOREM TlsTotalsAgree == Spec => []TlsAddsUp
<1> SUFFICES ASSUME Tables PROVE TlsAddsUp
  BY TablesInvariant, PTL
<1> QED
  BY PerCause, PerReporter, NothingUnderstated DEF TlsAddsUp

-----------------------------------------------------------------------------
(* Ready is earned *)

\* No two documents that may arrive share a key.
KeysTellApart == \A d, e \in AggregateDocs : AggregateKey(d) = AggregateKey(e) => d = e

\* The longest prefix is the innermost network, and it has one owner.
LEMMA LongestPrefixIsInnermost ==
    ASSUME NEW ip \in Addresses
    PROVE  Known(ip) <=> InnermostIsKnown(ip)
<1> DEFINE N == {n \in Networks : ip \in n}
           C == Covering(ip)
           least(c) == \A other \in C : Cardinality(c[2]) <= Cardinality(other[2])
<1>1. /\ \A s \in Sources : \A n \in Ranges[s] : n \in Networks
      /\ \A n \in Networks : \E s \in Sources : n \in Ranges[s]
      /\ \A n \in Networks : n \in SUBSET Addresses
  BY SourceAssumption DEF Networks
<1>2. /\ \A c \in C : c[1] \in Sources /\ c[2] \in Ranges[c[1]] /\ c[2] \in N
      /\ \A s \in Sources : \A n \in Ranges[s] : ip \in n => <<s, n>> \in C
  BY <1>1 DEF Covering
<1>3. Classify[ip] = IF C = {} THEN Absent ELSE (CHOOSE c \in C : least(c))[1]
  BY DEF Classify
<1>4. CASE N = {}
  <2>1. C = {}
    BY <1>2, <1>4
  <2>2. ~InnermostIsKnown(ip)
    BY <1>1, <1>4 DEF InnermostIsKnown
  <2> QED
    BY <1>3, <2>1, <2>2 DEF Known
<1>5. CASE N # {}
  <2>1. PICK T \in N : \A U \in SUBSET T : U # T => U \notin N
    <3>1. N \in SUBSET (SUBSET Addresses) /\ IsFiniteSet(Addresses)
      BY <1>1, SourceAssumption
    <3> HIDE DEF N
    <3> QED
      BY <1>5, <3>1, SmallestSubset
  <2>2. \A m \in N : T \subseteq m
    <3> SUFFICES ASSUME NEW m \in N PROVE T \subseteq m
      OBVIOUS
    <3>1. T \subseteq m \/ m \subseteq T
      BY SourceAssumption
    <3> QED
      BY <2>1, <3>1
  <2>3. PICK s \in Sources : T \in Ranges[s]
    BY <1>1
  <2>4. \A m \in N : IsFiniteSet(m) /\ Cardinality(m) \in Nat
    <3> SUFFICES ASSUME NEW m \in N PROVE IsFiniteSet(m) /\ Cardinality(m) \in Nat
      OBVIOUS
    <3>1. m \in SUBSET Addresses
      BY <1>1
    <3>2. IsFiniteSet(m)
      BY <3>1, SourceAssumption, FS_Subset
    <3> QED
      BY <3>2, FS_CardinalityType
  <2>5. \A m \in N : Cardinality(T) <= Cardinality(m) /\ (Cardinality(m) = Cardinality(T) => m = T)
    <3> SUFFICES ASSUME NEW m \in N
                 PROVE  Cardinality(T) <= Cardinality(m) /\ (Cardinality(m) = Cardinality(T) => m = T)
      OBVIOUS
    <3>1. T \in SUBSET m /\ IsFiniteSet(m)
      BY <2>2, <2>4
    <3> QED
      BY <3>1, FS_Subset
  <2>6. <<s, T>> \in C
    BY <1>2, <2>3
  <2>7. least(<<s, T>>)
    BY <1>2, <2>5
  <2> DEFINE best == CHOOSE c \in C : least(c)
  <2>8. best \in C /\ least(best)
    <3> HIDE DEF C, least
    <3> QED
      BY <2>6, <2>7
  <2>9. best[2] \in N /\ best[2] \in Ranges[best[1]] /\ best[1] \in Sources
    BY <1>2, <2>8
  <2>10. Cardinality(best[2]) <= Cardinality(T)
    BY <2>6, <2>8
  <2> HIDE DEF best
  <2>11. best[2] = T
    BY <2>4, <2>5, <2>9, <2>10
  <2>12. best[1] = s
    BY <2>3, <2>9, <2>11, SourceAssumption
  <2>13. Classify[ip] = s
    BY <1>3, <2>6, <2>12 DEF best
  <2>14. Known(ip) <=> Classification[s] = "known"
    BY <2>13, DocumentAssumption DEF Known
  <2>15. Classification[s] = "known" => InnermostIsKnown(ip)
    BY <2>2, <2>3 DEF InnermostIsKnown
  <2>16. InnermostIsKnown(ip) => Classification[s] = "known"
    <3> SUFFICES ASSUME NEW q \in Sources, NEW n \in Ranges[q], ip \in n,
                        Classification[q] = "known",
                        \A m \in Networks : ip \in m => n \subseteq m
                 PROVE  Classification[s] = "known"
      BY DEF InnermostIsKnown
    <3>1. n \in N
      BY <1>1
    <3>2. n = T
      BY <2>2, <3>1
    <3> QED
      BY <2>3, <3>2, SourceAssumption
  <2> QED
    BY <2>14, <2>15, <2>16
<1> QED
  BY <1>4, <1>5

\* A row is what its document says at its position.
LEMMA RowsComeFromDocuments ==
    ASSUME Tables, KeysTellApart, NEW r \in rows,
           NEW doc \in received \cap AggregateDocs, reports[r.report].key = AggregateKey(doc)
    PROVE  /\ r \in AggregateRows(doc, r.report)
           /\ r.n \in DOMAIN doc.records /\ r.day = doc.begin
           /\ r.domain = HeaderFrom(doc, doc.records[r.n])
           /\ r.ip = doc.records[r.n].ip /\ r.count = doc.records[r.n].count
           /\ r.spf <=> doc.records[r.n].spf = "pass"
           /\ r.dkim <=> doc.records[r.n].dkim = "pass"
<1>1. r.report \in DOMAIN reports
  BY DEF Tables, AggregateTables
<1>2. PICK d \in received \cap AggregateDocs :
         /\ reports[r.report] = [key |-> AggregateKey(d), org |-> d.org]
         /\ {x \in rows : x.report = r.report} = AggregateRows(d, r.report)
  BY <1>1 DEF Tables, AggregateTables
<1>3. AggregateKey(d) = AggregateKey(doc)
  BY <1>2
<1>4. d = doc
  BY <1>3 DEF KeysTellApart
<1>5. r \in AggregateRows(doc, r.report)
  BY <1>2, <1>4
<1>6. PICK i \in {j \in DOMAIN doc.records : Usable(doc, doc.records[j])} :
        r = [report |-> r.report, n |-> i, day |-> doc.begin,
             domain |-> HeaderFrom(doc, doc.records[i]), ip |-> doc.records[i].ip,
             count |-> doc.records[i].count,
             spf |-> Aligned(doc.records[i].spf), dkim |-> Aligned(doc.records[i].dkim)]
  BY <1>5, Zenon DEF AggregateRows
<1>7. /\ r.n = i /\ r.day = doc.begin /\ r.domain = HeaderFrom(doc, doc.records[i])
      /\ r.ip = doc.records[i].ip /\ r.count = doc.records[i].count
      /\ r.spf = Aligned(doc.records[i].spf) /\ r.dkim = Aligned(doc.records[i].dkim)
  <2> DEFINE pass == Aligned(doc.records[i].spf)
             sign == Aligned(doc.records[i].dkim)
             from == HeaderFrom(doc, doc.records[i])
  <2>1. r = [report |-> r.report, n |-> i, day |-> doc.begin, domain |-> from,
             ip |-> doc.records[i].ip, count |-> doc.records[i].count,
             spf |-> pass, dkim |-> sign]
    BY <1>6, Zenon
  <2> HIDE DEF pass, sign, from
  <2>2. /\ r.n = i /\ r.day = doc.begin /\ r.domain = from
        /\ r.ip = doc.records[i].ip /\ r.count = doc.records[i].count
    BY <2>1
  <2>3. r.spf = pass /\ r.dkim = sign
    BY <2>1
  <2> QED
    BY <2>2, <2>3, Zenon DEF pass, sign, from
<1> QED
  BY <1>5, <1>7, Zenon DEF Aligned

DocOf(r) == CHOOSE doc \in received \cap AggregateDocs : AggregateKey(doc) = reports[r.report].key

LEMMA DocOfRow ==
    ASSUME Tables, NEW r \in rows
    PROVE  DocOf(r) \in received \cap AggregateDocs /\ reports[r.report].key = AggregateKey(DocOf(r))
<1>1. r.report \in DOMAIN reports
  BY DEF Tables, AggregateTables
<1>2. \E doc \in received \cap AggregateDocs : AggregateKey(doc) = reports[r.report].key
  BY <1>1 DEF Tables, AggregateTables
<1> QED
  BY <1>2 DEF DocOf

\* Rows of a domain are named by the records they were read from.
RecordName(d, w) == [r \in RecentOf(d, w) |-> <<DocOf(r), r.n>>]

LEMMA RowsAreRecords ==
    ASSUME Tables, KeysTellApart, NEW w, NEW d \in Domains
    PROVE  /\ Renames(RecordName(d, w), RecentOf(d, w), RecordsOf(d, w))
           /\ \A r \in RecentOf(d, w) :
                LET c == RecordName(d, w)[r]
                IN  /\ RecordAt(c).count = r.count
                    /\ RecordAt(c).ip = r.ip
                    /\ r.spf <=> RecordAt(c).spf = "pass"
                    /\ r.dkim <=> RecordAt(c).dkim = "pass"
<1> DEFINE S == RecentOf(d, w)
           C == RecordsOf(d, w)
           b == RecordName(d, w)
<1>1. \A r \in S : r \in rows /\ r.domain = d /\ InWindow(r.day, w)
  BY DEF RecentOf, Recent
<1>2. \A r \in S : b[r] = <<DocOf(r), r.n>> /\ b[r][1] = DocOf(r) /\ b[r][2] = r.n
  BY DEF RecordName
<1>3. ASSUME NEW r \in S
      PROVE  b[r] \in C
  <2> DEFINE doc == DocOf(r)
  <2>1. doc \in received \cap AggregateDocs /\ reports[r.report].key = AggregateKey(doc)
    BY <1>1, DocOfRow
  <2> HIDE DEF doc
  <2>2. r.n \in DOMAIN doc.records /\ r.day = doc.begin /\ r.domain = HeaderFrom(doc, doc.records[r.n])
    BY <1>1, <2>1, RowsComeFromDocuments
  <2>3. <<doc, r.n>> \in C
    BY <1>1, <2>1, <2>2 DEF RecordsOf
  <2> QED
    BY <1>2, <2>3 DEF doc
<1>4. ASSUME NEW r \in S, NEW q \in S, b[r] = b[q]
      PROVE  r = q
  <2> DEFINE doc == DocOf(r)
  <2>1. DocOf(q) = doc /\ q.n = r.n
    BY <1>2, <1>4
  <2>2. /\ doc \in received \cap AggregateDocs
        /\ reports[r.report].key = AggregateKey(doc) /\ reports[q.report].key = AggregateKey(doc)
    BY <1>1, <2>1, DocOfRow
  <2> HIDE DEF doc
  <2>3. q.report = r.report
    BY <1>1, <2>2 DEF Tables, AggregateTables
  <2>4. r \in AggregateRows(doc, r.report)
    BY <1>1, <2>2, RowsComeFromDocuments
  <2>5. q \in AggregateRows(doc, r.report)
    BY <1>1, <2>2, <2>3, RowsComeFromDocuments
  <2> QED
    BY <2>1, <2>4, <2>5 DEF AggregateRows
<1>5. ASSUME NEW c \in C
      PROVE  \E r \in S : b[r] = c
  <2>1. PICK doc \in received \cap AggregateDocs : \E j \in DOMAIN doc.records :
          /\ InWindow(doc.begin, w) /\ c = <<doc, j>> /\ HeaderFrom(doc, doc.records[j]) = d
          /\ \E r \in rows : r.n = j /\ reports[r.report].key = AggregateKey(doc)
    BY DEF RecordsOf
  <2>2. PICK r \in rows :
          /\ InWindow(doc.begin, w) /\ c = <<doc, r.n>> /\ HeaderFrom(doc, doc.records[r.n]) = d
          /\ reports[r.report].key = AggregateKey(doc)
    BY <2>1
  <2>3. r.day = doc.begin /\ r.domain = d
    BY <2>2, RowsComeFromDocuments
  <2>4. r \in S
    BY <2>2, <2>3 DEF RecentOf, Recent
  <2>5. DocOf(r) = doc
    <3>1. DocOf(r) \in AggregateDocs /\ AggregateKey(DocOf(r)) = AggregateKey(doc)
      BY <2>2, DocOfRow
    <3> QED
      BY <3>1 DEF KeysTellApart
  <2> QED
    BY <1>2, <2>2, <2>4, <2>5
<1>6. ASSUME NEW r \in S
      PROVE  /\ RecordAt(b[r]).count = r.count
             /\ RecordAt(b[r]).ip = r.ip
             /\ r.spf <=> RecordAt(b[r]).spf = "pass"
             /\ r.dkim <=> RecordAt(b[r]).dkim = "pass"
  <2> DEFINE doc == DocOf(r)
  <2>1. doc \in received \cap AggregateDocs /\ reports[r.report].key = AggregateKey(doc)
    BY <1>1, DocOfRow
  <2>2. RecordAt(b[r]) = doc.records[r.n]
    BY <1>2 DEF RecordAt
  <2> HIDE DEF doc, b
  <2> QED
    BY <1>1, <2>1, <2>2, RowsComeFromDocuments
<1> QED
  BY <1>3, <1>4, <1>5, <1>6 DEF Renames

\* Rows and the records they were read from state one volume.
LEMMA StatedIsVolume ==
    ASSUME NEW S \in SUBSET Row, IsFiniteSet(S), NEW C, NEW b, Renames(b, S, C),
           \A r \in S : RecordAt(b[r]).count = r.count,
           NEW T \in SUBSET S, NEW D \in SUBSET C, \A r \in S : r \in T <=> b[r] \in D
    PROVE  Volume(T) = Stated(D)
<1> DEFINE g == [r \in T |-> r.count]
           h == [c \in D |-> RecordAt(c).count]
<1>1. Renames(b, T, D)
  BY DEF Renames
<1>2. \A r \in T : g[r] \in Int
  BY DEF Row
<1>3. IsFiniteSet(T)
  BY FS_Subset
<1>4. DOMAIN h = D /\ \A r \in T : h[b[r]] = g[r]
  BY <1>1 DEF Renames
<1>5. Volume(T) = SumFunctionOnSet(g, T) /\ Stated(D) = SumFunction(h)
  BY DEF Volume, Stated, SumFunction
<1> HIDE DEF g, h
<1>6. SumFunction(h) = SumFunctionOnSet(g, T)
  BY <1>1, <1>2, <1>3, <1>4, SumOfTable
<1> QED
  BY <1>5, <1>6

LEMMA SplitOfRecords ==
    ASSUME Tables, KeysTellApart, NEW w, NEW d \in Domains
    PROVE  LET records == RecordsOf(d, w)
               split == DomainSplits(w)[d]
           IN  /\ split.pass = Stated(Delivered(records))
               /\ split.known = Stated(Ours(records))
               /\ split.unclassified = Stated(Unknown(records))
               /\ Total(split) = Stated(records)
<1> DEFINE S == RecentOf(d, w)
           C == RecordsOf(d, w)
           b == RecordName(d, w)
           split == DomainSplits(w)[d]
<1>1. S \in SUBSET Row /\ IsFiniteSet(S) /\ split = ThreeWay(S)
  BY DomainSplit
<1>2. /\ Renames(b, S, C)
      /\ \A r \in S : RecordAt(b[r]).count = r.count
      /\ \A r \in S : RecordAt(b[r]).ip = r.ip
      /\ \A r \in S : r.spf <=> RecordAt(b[r]).spf = "pass"
      /\ \A r \in S : r.dkim <=> RecordAt(b[r]).dkim = "pass"
  BY RowsAreRecords
<1> HIDE DEF S, C, b, split
<1>3. \A r \in S : b[r] \in C /\ r.ip \in Addresses
  BY <1>1, <1>2 DEF Renames, Row
<1>4. \A r \in S : Known(r.ip) <=> InnermostIsKnown(RecordAt(b[r]).ip)
  BY <1>2, <1>3, LongestPrefixIsInnermost
<1>5. \A r \in S : r \in Passing(S) <=> b[r] \in Delivered(C)
  BY <1>2, <1>3 DEF Passing, Delivered
<1>6. \A r \in S : r \in Lost(S) <=> b[r] \in Ours(C)
  BY <1>2, <1>3, <1>4, <1>5 DEF Passing, Lost, Ours
<1>7. \A r \in S : r \in Strange(S) <=> b[r] \in Unknown(C)
  BY <1>3, <1>5, <1>6 DEF Passing, Lost, Strange, Unknown
<1>8. /\ Passing(S) \in SUBSET S /\ Lost(S) \in SUBSET S /\ Strange(S) \in SUBSET S
      /\ Delivered(C) \in SUBSET C /\ Ours(C) \in SUBSET C /\ Unknown(C) \in SUBSET C
  BY DEF Passing, Lost, Strange, Delivered, Ours, Unknown
<1>9. Volume(Passing(S)) = Stated(Delivered(C))
  BY <1>1, <1>2, <1>5, <1>8, StatedIsVolume
<1>10. Volume(Lost(S)) = Stated(Ours(C))
  BY <1>1, <1>2, <1>6, <1>8, StatedIsVolume
<1>11. Volume(Strange(S)) = Stated(Unknown(C))
  BY <1>1, <1>2, <1>7, <1>8, StatedIsVolume
<1>12. Volume(S) = Stated(C)
  <2>1. S \in SUBSET S /\ C \in SUBSET C /\ \A r \in S : r \in S <=> b[r] \in C
    BY <1>3
  <2> QED
    BY <1>1, <1>2, <2>1, StatedIsVolume
<1>13. Total(ThreeWay(S)) = Volume(S)
  BY <1>1, PartsOfRows
<1> QED
  BY <1>1, <1>9, <1>10, <1>11, <1>12, <1>13 DEF ThreeWay, C, split

\* The arithmetic of the verdict.
LEMMA ScoreArithmetic ==
    ASSUME NEW m \in 1 .. 100, NEW p \in Nat, NEW k \in Nat, p + k > 0, 100 * p >= m * (p + k)
    PROVE  (100 - m) * p >= m * k /\ p > 0
<1>1. m * (p + k) = m * p + m * k /\ (100 - m) * p = 100 * p - m * p
  BY Z3
<1>2. m * p \in Int /\ m * k \in Int
  BY Z3
<1>3. p = 0 => m * k > 0
  BY Z3
<1> DEFINE x == m * p  y == m * k  z == (100 - m) * p  v == m * (p + k)
<1>4. x \in Int /\ y \in Int /\ v = x + y /\ z = 100 * p - x /\ 100 * p >= v
  BY <1>1, <1>2
<1>5. p = 0 => y > 0 /\ x = 0
  BY <1>3
<1> HIDE DEF x, y, z, v
<1>6. z >= y /\ p > 0
  BY <1>4, <1>5
<1> QED
  BY <1>6 DEF y, z

\* A domain is called ready only if what its documents say, record by record and
\* address by address, bears it out; for all documents that have keys of their own.
THEOREM ReadyIsJustified == KeysTellApart => (Spec => []ReadyIsEarned)
<1> SUFFICES ASSUME KeysTellApart PROVE Spec => []ReadyIsEarned
  OBVIOUS
<1>1. Tables => ReadyIsEarned
  <2> SUFFICES ASSUME Tables, NEW w \in Windows, NEW d \in Domains,
                      Verdicts(DomainSplits(w))[d] = "ready",
                      NEW records, records = RecordsOf(d, w)
               PROVE  /\ Stated(records) >= MinVolume
                      /\ (100 - ReadyThreshold) * Stated(Delivered(records))
                             >= ReadyThreshold * Stated(Ours(records))
                      /\ 100 * Stated(Unknown(records)) <= MaxUnclassified * Stated(records)
                      /\ Stated(Delivered(records)) > 0
    BY DEF ReadyIsEarned
  <2> DEFINE split == DomainSplits(w)[d]
  <2>1. split \in Splits
    BY DomainSplit
  <2>2. /\ split.pass = Stated(Delivered(records))
        /\ split.known = Stated(Ours(records))
        /\ split.unclassified = Stated(Unknown(records))
        /\ Total(split) = Stated(records)
    BY SplitOfRecords
  <2>3. Verdict(split, signals[d]["dmarc"]) = "ready"
    BY DEF Verdicts
  <2> HIDE DEF split
  <2>4. /\ ~(Total(split) < MinVolume)
        /\ ScoreAtLeast(split, ReadyThreshold) /\ UnclassifiedAtMost(split, MaxUnclassified)
    BY <2>3 DEF Verdict
  <2>5. Total(split) >= MinVolume
    BY <2>1, <2>4, SplitNumbers, ScoreAssumption
  <2>6. /\ split.pass \in Nat /\ split.known \in Nat
        /\ split.pass + split.known > 0
        /\ 100 * split.pass >= ReadyThreshold * (split.pass + split.known)
    BY <2>1, <2>4 DEF ScoreAtLeast, Legitimate, Splits
  <2>7. (100 - ReadyThreshold) * split.pass >= ReadyThreshold * split.known /\ split.pass > 0
    BY <2>6, ScoreArithmetic, ScoreAssumption
  <2>8. 100 * split.unclassified <= MaxUnclassified * Total(split)
    BY <2>4 DEF UnclassifiedAtMost
  <2> QED
    BY <2>2, <2>5, <2>7, <2>8
<1> QED
  BY <1>1, TablesInvariant, PTL

=============================================================================
