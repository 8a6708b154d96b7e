-------------------------- MODULE RetentionProofs --------------------------
(***************************************************************************)
(* Proofs about Retention: type correctness, that nothing is dropped or    *)
(* double counted as long as a run is alone, for all windows and dates,    *)
(* and that a page counts nothing twice that retention moves meanwhile.    *)
(***************************************************************************)
EXTENDS Retention, TLAPS

USE DEF vars, tables, runVars, readVars

\* The empty database is well typed.
LEMMA InitTypeOK == Init => TypeOK
<1> SUFFICES ASSUME Init PROVE TypeOK
  OBVIOUS
<1>1. 0 \in Days /\ 0 \in 0 .. MaxAborts /\ "idle" \in Stages
  BY WindowAssumption DEF Days, Stages
<1>2. /\ rolled \in [Reports -> Nat] /\ stage \in [Workers -> Stages]
      /\ asOf \in [Workers -> Days] /\ picked \in [Workers -> SUBSET Aggregate]
      /\ erased \in [Workers -> SUBSET Reports] /\ dropped \in [Workers -> SUBSET Reports]
  BY <1>1 DEF Init
<1> QED
  BY <1>1, <1>2 DEF Init, TypeOK

\* Every statement of a run, and every step around it, keeps the types.
LEMMA NextTypeOK == TypeOK /\ [Next]_vars => TypeOK'
<1> SUFFICES ASSUME TypeOK, [Next]_vars PROVE TypeOK'
  OBVIOUS
<1> USE ReportAssumption, WindowAssumption
<1>1. CASE NewDay
  BY <1>1 DEF NewDay, TypeOK, Days
<1>2. ASSUME NEW r \in Reports, StoreReport(r) PROVE TypeOK'
  BY <1>2 DEF StoreReport, TypeOK, Days
<1>3. ASSUME NEW w \in Workers, SelectRows(w) PROVE TypeOK'
  BY <1>3 DEF SelectRows, TypeOK, Days, Stages, Aggregate, Before
<1>4. ASSUME NEW w \in Workers, Upsert(w) PROVE TypeOK'
  BY <1>4 DEF Upsert, TypeOK, Stages
<1>5. ASSUME NEW w \in Workers, NEW at, NEW rs \in SUBSET Reports, NEW next \in Stages,
             DeleteRows(w, at, rs, next)
      PROVE  TypeOK'
  BY <1>5 DEF DeleteRows, TypeOK
<1>6. ASSUME NEW w \in Workers, NEW at, NEW hs \in SUBSET Reports, NEW next \in Stages,
             DeleteHeaders(w, at, hs, next)
      PROVE  TypeOK'
  BY <1>6 DEF DeleteHeaders, TypeOK
<1>7. ASSUME NEW w \in Workers,
             \/ DeleteAggregateRows(w) \/ DeleteAggregateHeaders(w)
             \/ DeleteTlsRows(w) \/ DeleteTlsHeaders(w)
      PROVE  TypeOK'
  <2>1. /\ Before(RawCutoff(w), raw \ Tls) \subseteq Reports
        /\ Before(RawCutoff(w), raw \cap Tls) \subseteq Reports
        /\ EndedBefore(RawCutoff(w), headers \ Tls) \subseteq Reports
        /\ EndedBefore(RawCutoff(w), headers \cap Tls) \subseteq Reports
        /\ {"headers", "tlsRows", "tlsHeaders", "commit"} \subseteq Stages
    BY DEF Before, EndedBefore, TypeOK, Stages
  <2> QED
    BY <1>5, <1>6, <1>7, <2>1
       DEF DeleteAggregateRows, DeleteAggregateHeaders, DeleteTlsRows, DeleteTlsHeaders
<1>8. ASSUME NEW w \in Workers, ExpireAndCommit(w) PROVE TypeOK'
  <2>1. rolled' \in [Reports -> Nat]
    BY <1>8 DEF ExpireAndCommit, RolledAfter, TypeOK
  <2>2. /\ stage' \in [Workers -> Stages] /\ asOf' \in [Workers -> Days]
        /\ picked' \in [Workers -> SUBSET Aggregate]
        /\ erased' \in [Workers -> SUBSET Reports] /\ dropped' \in [Workers -> SUBSET Reports]
    BY <1>8 DEF ExpireAndCommit, Release, TypeOK, Stages, Days
  <2> QED
    BY <1>8, <2>1, <2>2 DEF ExpireAndCommit, TypeOK
<1>9. ASSUME NEW w \in Workers, Abort(w) PROVE TypeOK'
  <2>1. /\ stage' \in [Workers -> Stages] /\ asOf' \in [Workers -> Days]
        /\ picked' \in [Workers -> SUBSET Aggregate]
        /\ erased' \in [Workers -> SUBSET Reports] /\ dropped' \in [Workers -> SUBSET Reports]
    BY <1>9 DEF Abort, Release, TypeOK, Stages, Days
  <2> QED
    BY <1>9, <2>1 DEF Abort, TypeOK
<1>10. CASE ReadRaw
  <2>1. reading' \in BOOLEAN /\ readDay' \in Days /\ seen' \subseteq Aggregate /\ known' \subseteq Reports
    BY <1>10 DEF ReadRaw, TypeOK, Window
  <2> QED
    BY <1>10, <2>1 DEF ReadRaw, TypeOK
<1>11. CASE ReadRollups
  <2>1. reading' \in BOOLEAN /\ readDay' \in Days /\ seen' \subseteq Aggregate /\ known' \subseteq Reports
    <3>1. 0 \in Days
      BY DEF Days
    <3> QED
      BY <1>11, <3>1 DEF ReadRollups
  <2> QED
    BY <1>11, <2>1 DEF ReadRollups, TypeOK
<1>12. CASE UNCHANGED vars
  BY <1>12 DEF TypeOK
<1> QED
  BY <1>1, <1>2, <1>3, <1>4, <1>7, <1>8, <1>9, <1>10, <1>11, <1>12 DEF Next, Run

\* Every variable keeps its type.
THEOREM TypeCorrect == Spec => []TypeOK
BY InitTypeOK, NextTypeOK, PTL DEF Spec

-----------------------------------------------------------------------------
(* A run that is alone moves each report's volume from raw to rollup.         *)

\* A report does not end before it begins.
DatesInOrder == \A r \in Reports : BeginDay[r] <= EndDay[r]

\* ExclusiveInv holds of the empty database.
LEMMA InitExclusive == Init => ExclusiveInv
BY DEF Init, ExclusiveInv, Alone, Holds, Separate, CountedOnce, Due, Aggregate

\* No step of a run that is alone loses a report or counts one twice.
LEMMA NextExclusive ==
    ASSUME ~Overlap, DatesInOrder, TypeOK, ExclusiveInv, [Next]_vars
    PROVE  ExclusiveInv'
<1> USE ReportAssumption, WindowAssumption
<1>1. CASE NewDay
  <2>1. today \in Int /\ today' = today + 1 /\ UNCHANGED <<tables, runVars>>
    BY <1>1 DEF NewDay, TypeOK, Days
  <2>2. \A w \in Workers : Holds(w)'
    BY <2>1 DEF ExclusiveInv, Holds, RawCutoff, Before, TypeOK, Days
  <2>3. CountedOnce'
    BY <2>1 DEF ExclusiveInv, CountedOnce, Due, Copies, TypeOK, Days
  <2> QED
    BY <2>1, <2>2, <2>3 DEF ExclusiveInv, Alone, Separate
<1>2. ASSUME NEW r \in Reports, StoreReport(r) PROVE ExclusiveInv'
  <2>1. /\ AllIdle /\ r \notin ingested /\ raw' = raw \cup {r} /\ ingested' = ingested \cup {r}
        /\ UNCHANGED <<today, rolled, runVars>>
    BY <1>2 DEF StoreReport
  <2>2. \A w \in Workers : Holds(w)'
    BY <2>1 DEF ExclusiveInv, Holds, AllIdle
  <2>3. Separate'
    BY <2>1 DEF ExclusiveInv, Separate
  <2>4. CountedOnce'
    BY <2>1, <2>3 DEF ExclusiveInv, CountedOnce, Due, Copies, Separate, Aggregate, TypeOK
  <2> QED
    BY <2>1, <2>2, <2>3, <2>4 DEF ExclusiveInv, Alone
<1>3. ASSUME NEW w \in Workers, SelectRows(w) PROVE ExclusiveInv'
  <2>1. /\ AllIdle /\ UNCHANGED <<today, tables, erased>>
        /\ asOf' = [asOf EXCEPT ![w] = today]
        /\ picked' = [picked EXCEPT ![w] = Before(today - RawDays, raw \ Tls)]
        /\ stage' = [stage EXCEPT ![w] = "upsert"]
    BY <1>3 DEF SelectRows
  <2>2. Alone'
    BY <2>1 DEF AllIdle, Alone, TypeOK
  <2>3. \A u \in Workers : Holds(u)'
    BY <2>1 DEF ExclusiveInv, Holds, AllIdle, TypeOK, RawCutoff, Before, Days
  <2> QED
    BY <2>1, <2>2, <2>3 DEF ExclusiveInv, Separate, CountedOnce, Due, Copies
<1>4. ASSUME NEW w \in Workers, Upsert(w) PROVE ExclusiveInv'
  <2>1. /\ UNCHANGED <<today, tables, asOf, picked, erased>> /\ stage[w] = "upsert"
        /\ stage' = [stage EXCEPT ![w] = "rows"]
    BY <1>4 DEF Upsert
  <2>2. Alone'
    BY <2>1 DEF ExclusiveInv, Alone, TypeOK
  <2>3. \A u \in Workers : Holds(u)'
    BY <2>1 DEF ExclusiveInv, Holds, TypeOK, RawCutoff, Before
  <2> QED
    BY <2>1, <2>2, <2>3 DEF ExclusiveInv, Separate, CountedOnce, Due, Copies
<1>5. ASSUME NEW w \in Workers, NEW rs, NEW at \in Stages \ {"idle"}, NEW next \in Stages,
             stage[w] = at, next \notin {"idle", "upsert", "rows"},
             erased' = [erased EXCEPT ![w] = @ \cup rs],
             stage' = [stage EXCEPT ![w] = next],
             (erased[w] \cup rs) \cap Aggregate = picked[w],
             UNCHANGED <<today, tables, asOf, picked>>
      PROVE  ExclusiveInv'
  <2>1. Alone'
    BY <1>5 DEF ExclusiveInv, Alone, TypeOK
  <2>2. \A u \in Workers : Holds(u)'
    BY <1>5 DEF ExclusiveInv, Holds, TypeOK, RawCutoff, Before
  <2> QED
    BY <1>5, <2>1, <2>2 DEF ExclusiveInv, Separate, CountedOnce, Due, Copies
<1>6. ASSUME NEW w \in Workers, DeleteAggregateRows(w) PROVE ExclusiveInv'
  <2>1. stage[w] = "rows"
    BY <1>6 DEF DeleteAggregateRows, DeleteRows
  <2>2. (erased[w] \cup Before(RawCutoff(w), raw \ Tls)) \cap Aggregate = picked[w]
    BY <2>1 DEF ExclusiveInv, Holds, Before, Aggregate, TypeOK
  <2> QED
    BY <1>5, <1>6, <2>1, <2>2 DEF DeleteAggregateRows, DeleteRows, Stages
<1>7. ASSUME NEW w \in Workers, DeleteAggregateHeaders(w) PROVE ExclusiveInv'
  <2> DEFINE hs == EndedBefore(RawCutoff(w), headers \ Tls)
  <2>1. stage[w] = "headers"
    BY <1>7 DEF DeleteAggregateHeaders, DeleteHeaders
  <2>2. hs \cap raw \subseteq Before(RawCutoff(w), raw \ Tls)
    BY DEF EndedBefore, Before, DatesInOrder, RawCutoff, TypeOK, Days
  <2>3. (erased[w] \cup (hs \cap raw)) \cap Aggregate = picked[w]
    <3>1. /\ picked[w] = Before(RawCutoff(w), raw \ Tls)
          /\ erased[w] \cap Aggregate = picked[w]
      BY <2>1 DEF ExclusiveInv, Holds
    <3> HIDE DEF hs
    <3> QED
      BY <2>2, <3>1
  <2> QED
    BY <1>5, <1>7, <2>1, <2>3 DEF DeleteAggregateHeaders, DeleteHeaders, Stages
<1>8. ASSUME NEW w \in Workers, DeleteTlsRows(w) PROVE ExclusiveInv'
  <2>1. stage[w] = "tlsRows"
    BY <1>8 DEF DeleteTlsRows, DeleteRows
  <2>2. (erased[w] \cup Before(RawCutoff(w), raw \cap Tls)) \cap Aggregate = picked[w]
    BY <2>1 DEF ExclusiveInv, Holds, Before, Aggregate
  <2> QED
    BY <1>5, <1>8, <2>1, <2>2 DEF DeleteTlsRows, DeleteRows, Stages
<1>9. ASSUME NEW w \in Workers, DeleteTlsHeaders(w) PROVE ExclusiveInv'
  <2> DEFINE hs == EndedBefore(RawCutoff(w), headers \cap Tls)
  <2>1. stage[w] = "tlsHeaders"
    BY <1>9 DEF DeleteTlsHeaders, DeleteHeaders
  <2>2. (erased[w] \cup (hs \cap raw)) \cap Aggregate = picked[w]
    BY <2>1 DEF ExclusiveInv, Holds, EndedBefore, Aggregate
  <2> QED
    BY <1>5, <1>9, <2>1, <2>2 DEF DeleteTlsHeaders, DeleteHeaders, Stages
<1>10. ASSUME NEW w \in Workers, ExpireAndCommit(w) PROVE ExclusiveInv'
  <2>1. /\ stage[w] = "commit" /\ raw' = raw \ erased[w] /\ UNCHANGED <<today, ingested>>
        /\ \A r \in Reports : rolled'[r] = RolledAfter(w, r)
        /\ stage' = [stage EXCEPT ![w] = "idle"] /\ asOf' = [asOf EXCEPT ![w] = 0]
        /\ picked' = [picked EXCEPT ![w] = {}] /\ erased' = [erased EXCEPT ![w] = {}]
    BY <1>10 DEF ExpireAndCommit, Release
  <2>2. /\ erased[w] \cap Aggregate = picked[w] /\ asOf[w] <= today
        /\ picked[w] = Before(RawCutoff(w), raw \ Tls)
    BY <2>1 DEF ExclusiveInv, Holds
  <2>3. \A u \in Workers \ {w} : stage[u] = "idle"
    BY <2>1 DEF ExclusiveInv, Alone
  <2>4. Alone'
    BY <2>1, <2>3 DEF Alone, TypeOK
  <2>5. \A u \in Workers : Holds(u)'
    BY <2>1, <2>3 DEF ExclusiveInv, Holds, TypeOK, Days
  <2>6. \A r \in Aggregate : /\ r \in picked[w] <=> r \in erased[w]
                             /\ r \in picked[w] => r \in raw
    BY <2>2 DEF Before, Aggregate, TypeOK
  <2>7. Separate'
    BY <2>1, <2>6 DEF ExclusiveInv, Separate, RolledAfter, Aggregate
  <2>8. ASSUME NEW r \in Due' PROVE Copies(r)' = 1
    <3>1. r \in Due /\ r \in Aggregate /\ r \in Reports
      BY <2>1 DEF Due, Aggregate, TypeOK
    <3>2. ~(BeginDay[r] < RollupCutoff(w))
      BY <2>1, <2>2, <3>1 DEF Due, RollupCutoff, TypeOK, Days
    <3>3. CASE r \in picked[w]
      <4>1. rolled[r] = 0 /\ r \notin raw'
        BY <2>1, <2>6, <3>1, <3>3 DEF ExclusiveInv, Separate
      <4>2. rolled'[r] = 1
        BY <2>1, <3>1, <3>2, <3>3, <4>1 DEF RolledAfter
      <4> QED
        BY <4>1, <4>2 DEF Copies
    <3>4. CASE r \notin picked[w]
      <4>1. rolled'[r] = rolled[r] /\ (r \in raw' <=> r \in raw)
        BY <2>1, <2>6, <3>1, <3>2, <3>4 DEF RolledAfter
      <4> QED
        BY <3>1, <4>1 DEF Copies, ExclusiveInv, CountedOnce
    <3> QED
      BY <3>3, <3>4
  <2> QED
    BY <2>4, <2>5, <2>7, <2>8 DEF ExclusiveInv, CountedOnce
<1>11. ASSUME NEW w \in Workers, Abort(w) PROVE ExclusiveInv'
  <2>1. /\ UNCHANGED <<today, tables>>
        /\ stage' = [stage EXCEPT ![w] = "idle"] /\ asOf' = [asOf EXCEPT ![w] = 0]
        /\ picked' = [picked EXCEPT ![w] = {}] /\ erased' = [erased EXCEPT ![w] = {}]
    BY <1>11 DEF Abort, Release
  <2>2. Alone'
    BY <2>1 DEF ExclusiveInv, Alone, TypeOK
  <2>3. \A u \in Workers : Holds(u)'
    BY <2>1 DEF ExclusiveInv, Holds, TypeOK, Days, RawCutoff, Before
  <2> QED
    BY <2>1, <2>2, <2>3 DEF ExclusiveInv, Separate, CountedOnce, Due, Copies
<1>12. CASE ReadRaw \/ ReadRollups \/ UNCHANGED vars
  <2>1. UNCHANGED <<today, tables, runVars>>
    BY <1>12 DEF ReadRaw, ReadRollups
  <2> QED
    BY <2>1 DEF ExclusiveInv, Alone, Holds, RawCutoff, Before, Separate, CountedOnce, Due, Copies
<1> QED
  BY <1>1, <1>2, <1>3, <1>4, <1>6, <1>7, <1>8, <1>9, <1>10, <1>11, <1>12 DEF Next, Run

\* "nothing is double counted and nothing is dropped" (retention.py), when a run
\* does not overlap another run or an ingestion commit and no report ends before
\* it begins: for all windows, dates, late reports and aborted runs.
THEOREM NothingLostAlone ==
    ASSUME ~Overlap, DatesInOrder
    PROVE  Spec => []CountedOnce
<1>1. Init => TypeOK /\ ExclusiveInv
  BY InitTypeOK, InitExclusive
<1>2. TypeOK /\ ExclusiveInv /\ [Next]_vars => (TypeOK /\ ExclusiveInv)'
  BY NextTypeOK, NextExclusive
<1>3. ExclusiveInv => CountedOnce
  BY DEF ExclusiveInv
<1> QED
  BY <1>1, <1>2, <1>3, PTL DEF Spec

-----------------------------------------------------------------------------
(* A page adds raw rows of one instant and rollups of a later one.            *)

\* While a page is between its two statements, its window ends today or ended
\* yesterday, and what was stored before it is counted once.
PageInv ==
    reading => /\ readDay <= today /\ today <= readDay + 1
               /\ \A r \in known \cap Window(readDay) : Shown(r) = 1

\* A window no longer than the raw one reaches no report that a run rolls up or
\* expires while the page is between its statements.
LEMMA WindowIsRaw ==
    ASSUME WindowDays <= RawDays, TypeOK, ExclusiveInv,
           reading, readDay <= today, today <= readDay + 1,
           NEW r \in Window(readDay), NEW w \in Workers, stage[w] = "commit"
    PROVE  RolledAfter(w, r) = rolled[r]
<1> USE ReportAssumption, WindowAssumption
<1>1. /\ asOf[w] <= today /\ picked[w] = Before(RawCutoff(w), raw \ Tls)
      /\ asOf[w] \in Int /\ today \in Int /\ readDay \in Int
  <2>1. asOf[w] <= today /\ picked[w] = Before(RawCutoff(w), raw \ Tls)
    BY DEF ExclusiveInv, Holds
  <2>2. asOf[w] \in Days /\ today \in Days /\ readDay \in Days
    BY DEF TypeOK
  <2> QED
    BY <2>1, <2>2 DEF Days
<1>2. BeginDay[r] \in Int /\ BeginDay[r] >= readDay - WindowDays + 1
  BY DEF Window, Aggregate, Days
<1>3. BeginDay[r] >= asOf[w] - RawDays
  BY <1>1, <1>2
<1>4. r \notin picked[w]
  BY <1>1, <1>2, <1>3 DEF Before, RawCutoff
<1>5. ~(BeginDay[r] < RollupCutoff(w))
  BY <1>1, <1>2, <1>3 DEF RollupCutoff
<1> QED
  BY <1>4, <1>5 DEF RolledAfter

\* No page is open at first.
LEMMA InitPage == Init => PageInv
BY DEF Init, PageInv

\* A commit between a page's statements moves nothing the page looks at.
LEMMA NextPage ==
    ASSUME WindowDays <= RawDays, TypeOK, ExclusiveInv, PageInv, [Next]_vars
    PROVE  PageInv'
<1> USE ReportAssumption, WindowAssumption
<1>1. CASE NewDay
  <2>1. /\ today' = today + 1 /\ (reading => readDay = today)
        /\ UNCHANGED <<rolled, reading, readDay, seen, known>>
    BY <1>1 DEF NewDay
  <2> QED
    BY <2>1 DEF PageInv, Window, Shown, TypeOK, Days
<1>2. CASE UNCHANGED <<today, rolled, readVars>>
  BY <1>2 DEF PageInv, Window, Shown
<1>3. ASSUME NEW w \in Workers, ExpireAndCommit(w) PROVE PageInv'
  <2>1. /\ stage[w] = "commit" /\ UNCHANGED <<today, readVars>>
        /\ rolled' = [r \in Reports |-> RolledAfter(w, r)]
    BY <1>3 DEF ExpireAndCommit
  <2>2. ASSUME reading, NEW r \in known \cap Window(readDay)
        PROVE  rolled'[r] = rolled[r]
    <3>1. r \in Reports
      BY DEF Window, Aggregate
    <3>2. RolledAfter(w, r) = rolled[r]
      BY <2>1, <2>2, WindowIsRaw DEF PageInv
    <3> QED
      BY <2>1, <3>1, <3>2
  <2> QED
    BY <2>1, <2>2 DEF PageInv, Window, Shown
<1>4. CASE ReadRaw
  <2>1. /\ reading' = TRUE /\ readDay' = today /\ UNCHANGED <<today, rolled>>
        /\ seen' = raw \cap Window(today) /\ known' = ingested
    BY <1>4 DEF ReadRaw
  <2>2. ASSUME NEW r \in ingested \cap Window(today) PROVE Shown(r)' = 1
    <3>1. r \in Due
      BY DEF Due, Window, Aggregate, TypeOK, Days
    <3>2. r \in seen' <=> r \in raw
      BY <2>1
    <3> QED
      BY <2>1, <3>1, <3>2 DEF ExclusiveInv, CountedOnce, Copies, Shown
  <2>3. today <= today /\ today <= today + 1
    BY DEF TypeOK, Days
  <2> QED
    BY <2>1, <2>2, <2>3 DEF PageInv, Window
<1>5. CASE ReadRollups
  BY <1>5 DEF ReadRollups, PageInv
<1>6. ASSUME NEW w \in Workers, Run(w) \/ Abort(w), ~ExpireAndCommit(w)
      PROVE  UNCHANGED <<today, rolled, readVars>>
  BY <1>6 DEF Run, Abort, SelectRows, Upsert, DeleteAggregateRows, DeleteRows,
              DeleteAggregateHeaders, DeleteHeaders, DeleteTlsRows, DeleteTlsHeaders
<1>7. ASSUME NEW r \in Reports, StoreReport(r)
      PROVE  UNCHANGED <<today, rolled, readVars>>
  BY <1>7 DEF StoreReport
<1> QED
  BY <1>1, <1>2, <1>3, <1>4, <1>5, <1>6, <1>7 DEF Next

\* domain_splits counts a report stored before its first statement exactly once,
\* whatever an ingestion or a run commits before the second and even if midnight
\* passes in between, as long as the dashboard's window is not longer than the raw
\* one and runs do not overlap.
THEOREM PagesCountOnce ==
    ASSUME ~Overlap, DatesInOrder, WindowDays <= RawDays
    PROVE  Spec => []PageCountsOnce
<1>1. Init => TypeOK /\ ExclusiveInv /\ PageInv
  BY InitTypeOK, InitExclusive, InitPage
<1>2. TypeOK /\ ExclusiveInv /\ PageInv /\ [Next]_vars
        => (TypeOK /\ ExclusiveInv /\ PageInv)'
  BY NextTypeOK, NextExclusive, NextPage
<1>3. PageInv => PageCountsOnce
  BY DEF PageInv, PageCountsOnce
<1> QED
  BY <1>1, <1>2, <1>3, PTL DEF Spec
=============================================================================
