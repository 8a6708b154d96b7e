----------------------------- MODULE MCReports -----------------------------
(* Two domains, two reporters and three addresses; a known sender whose        *)
(* network has a carve-out that nobody has classified.  The documents are the *)
(* ones the parsers' branches tell apart; the thresholds are scaled down.     *)
EXTENDS Reports

MCClassification == [s \in Sources |-> IF s = "mailer" THEN "known" ELSE "unclassified"]

MCRanges == [s \in Sources |-> IF s = "mailer" THEN {{"ip1", "ip2"}} ELSE {{"ip2"}}]

Record(ip, count, spf, dkim, from) ==
    [ip |-> ip, count |-> count, spf |-> spf, dkim |-> dkim, from |-> from, row |-> TRUE]

Aggregate(org, id, domain, begin, records) ==
    [org |-> org, id |-> id, domain |-> domain, begin |-> begin, records |-> records, end |-> begin]

NoRow ==
    [ip |-> Absent, count |-> Absent, spf |-> "", dkim |-> "", from |-> "a", row |-> FALSE]

MCAggregateDocs ==
    {Aggregate("o1", "r1", "a", 0, <<Record("ip1", 2, "pass", "fail", "a"),
                                     Record("ip2", 1, "fail", "fail", "a")>>),
     Aggregate("o1", Absent, "a", 0, <<Record("ip1", 1, "fail", "fail", "b"),
                                       Record("ip1", 3, "fail", "pass", Absent)>>),
     Aggregate("o2", Absent, "a", 0, <<Record("ip3", 1, "neutral", "none", "a"), NoRow>>),
     Aggregate("o2", "r2", "b", 1, <<Record("ip1", 2, "pass", "pass", "b"),
                                     Record(Absent, 1, "pass", "pass", "b")>>),
     Aggregate("o2", "r3", Absent, 1, <<Record("ip2", 2, "fail", "fail", "b"),
                                        Record("ip1", 1, "pass", "fail", Absent)>>),
     Aggregate("o1", "r4", "a", 1, <<Record("ip2", 4, "pass", "none", "a"),
                                     Record("ip1", 0 - 1, "pass", "pass", "a")>>),
     Aggregate("o1", "r5", "b", 0, <<Record("ip1", Absent, "pass", "pass", "b"),
                                     Record("ip1", 1, "fail", "none", "a")>>),
     Aggregate("o1", "r6", "b", 0, <<>>)}

Policy(domain, ok, failed, details) ==
    [domain |-> domain, ok |-> ok, failed |-> failed, details |-> details]

Tls(org, id, begin, policies) ==
    [org |-> org, id |-> id, begin |-> begin, end |-> begin, policies |-> policies]

Detail(failed, type) == [failed |-> failed, type |-> type]

\* Breakdowns short of the summary, over it, and partly without a type.
MCTlsDocs ==
    {Tls("o1", "t1", 0, <<Policy("a", 2, 3, <<Detail(1, "expired"), Detail(1, Absent)>>),
                          Policy(Absent, 1, 1, <<>>)>>),
     Tls("o1", Absent, 0, <<Policy("b", 1, 1, <<Detail(1, "expired")>>)>>),
     Tls("o2", Absent, 0, <<Policy("a", 1, Absent, <<Detail(2, "mismatch")>>)>>),
     Tls("o2", "t2", 1, <<Policy("b", 0, 2, <<>>), Policy("a", 0 - 1, 1, <<Detail(3, "expired")>>)>>)}

Zone(dmarc, spf, dkim, mtasts, tlsrpt) ==
    [s \in Signals |-> CASE s = "dmarc" -> dmarc [] s = "spf" -> spf [] s = "dkim" -> dkim
                         [] s = "mtasts" -> mtasts [] s = "tlsrpt" -> tlsrpt]

MCZones ==
    {Zone("reject", "pass", "pass", "enforce", "present"),
     Zone("none", "pass", "pass", "enforce", "present"),
     Zone("quarantine", "softfail", "partial", "testing", "missing")}
=============================================================================
