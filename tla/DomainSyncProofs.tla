---------------------------- MODULE DomainSyncProofs ----------------------------
(***************************************************************************)
(* Theorems about DomainSync, for any domains, signals and number of       *)
(* overlapping runs.                                                       *)
(***************************************************************************)
EXTENDS DomainSync, TLAPS

\* What the lookups of one domain come to.
Looks == {f \in Findings : /\ \A s \in Signals : f[s] \in Values \cup {"unresolved"}
                           /\ f["rua"] \in {"none", "here", "elsewhere"}}

PastFlush(w) == pc[w] \in {"flushed", "alerted"}

\* One run at most is past its flush.
OneAtATime == \A w, u \in Runs : PastFlush(w) /\ PastFlush(u) => w = u

\* A row that was loaded is still there; a row to be inserted still is not.
RowsStay == \A w \in Runs, d \in Domains : loaded[w][d] # NoRow => row[d] # NoRow
InsertsAreNew ==
    \A w \in Runs : PastFlush(w) => \A d \in Checked(w) : loaded[w][d] = NoRow => row[d] = NoRow

\* What a run will write is its lookups over the rows it loaded.
ResultsAreDerived ==
    \A w \in Runs :
      /\ pc[w] = "idle" => Checked(w) = {}
      /\ \A d \in Checked(w) :
           /\ looked[w][d] \in Looks
           /\ result[w][d] = Applied(loaded[w][d], looked[w][d])

\* The gaps it will write are on its list, and after its alert they have been posted.
Listed(d, s, list) == \E a \in list : a.domain = d /\ a.signal = s
GapsAreListed ==
    \A w \in Runs :
      /\ \A d \in Checked(w), s \in Signals :
           IsGap(loaded[w][d], looked[w][d], s) => Listed(d, s, gaps[w])
      /\ pc[w] = "alerted" => gaps[w] \subseteq alerted

SyncInv ==
    /\ TypeOK /\ OneAtATime /\ RowsStay /\ InsertsAreNew /\ ResultsAreDerived /\ GapsAreListed

-----------------------------------------------------------------------------
(* Rows and findings. *)

LEMMA ColumnFacts ==
    /\ "rua" \notin Signals
    /\ {"dmarc", "mtasts"} \subseteq Signals
    /\ NoRow \notin Rows
    /\ \A c \in Columns : NoRow[c] = "absent"
    /\ \A r \in Rows, c \in Columns : r[c] # "absent"
  <1>1. "rua" \notin Signals /\ {"dmarc", "mtasts"} \subseteq Signals
    BY SignalAssumption
  <1>2. \A c \in Columns : NoRow[c] = "absent"
    BY DEF NoRow
  <1>3. \A r \in Rows, c \in Columns : r[c] # "absent"
    BY DEF Rows, Columns, Values
  <1>4. NoRow \notin Rows
    BY <1>2, <1>3 DEF Columns
  <1> QED BY <1>1, <1>2, <1>3, <1>4

\* check_domain answers with a finding, whichever lookups fail.
LEMMA FoundIsLook ==
    ASSUME TypeOK, NEW d \in Domains, NEW unresolved \in SUBSET Signals, NEW misfetched \in BOOLEAN
    PROVE  Found(d, unresolved, misfetched) \in Looks
  <1> DEFINE f == Found(d, unresolved, misfetched)
  <1>1. zone[d] \in Zones
    BY DEF TypeOK
  <1>2. zone[d]["dmarc"] \in DmarcRecords
    BY <1>1, ColumnFacts DEF Zones, Published
  <1>3. RuaOf(d) \in {"none", "here", "elsewhere"}
    BY <1>2 DEF RuaOf, DmarcRecords
  <1>4. f["rua"] \in {"none", "here", "elsewhere"}
    BY <1>3 DEF Found, Columns
  <1>5. \A s \in Signals : f[s] \in Values \cup {"unresolved"}
    BY ColumnFacts DEF Found, Columns, PostureOf, Values
  <1>6. f \in Findings
    <2>1. f = [c \in Columns |-> f[c]]
      BY DEF Found
    <2>2. \A c \in Columns : f[c] \in Values \cup {"none", "here", "elsewhere", "unresolved"}
      BY <1>4, <1>5 DEF Columns
    <2> HIDE DEF f
    <2> QED BY <2>1, <2>2 DEF Findings
  <1> QED BY <1>4, <1>5, <1>6 DEF Looks

LEMMA RowsAre ==
    ASSUME NEW r, r = [c \in Columns |-> r[c]],
           \A s \in Signals : r[s] \in Values,
           r["rua"] \in {"none", "here", "elsewhere"}
    PROVE  r \in Rows
  <1>1. \A c \in Columns : r[c] \in Values \cup {"none", "here", "elsewhere"}
    BY DEF Columns
  <1>2. r \in [Columns -> Values \cup {"none", "here", "elsewhere"}]
    BY <1>1
  <1> QED BY <1>2 DEF Rows

\* _apply leaves a whole row, of new rows too.
LEMMA AppliedIsRow ==
    ASSUME NEW old \in Rows \cup {NoRow}, NEW f \in Looks
    PROVE  Applied(old, f) \in Rows
  <1> DEFINE new == Applied(old, f)
  <1>1. \A s \in Signals : SignalAfter(old, f, s) \in Values
    BY DEF SignalAfter, Looks, Rows, Values
  <1>2. RuaAfter(old, f) \in {"none", "here", "elsewhere"}
    <2>1. "dmarc" \in Signals
      BY ColumnFacts
    <2> QED BY <2>1 DEF RuaAfter, SignalAfter, Looks, Rows, Values
  <1>3. new["rua"] = RuaAfter(old, f) /\ \A s \in Signals : new[s] = SignalAfter(old, f, s)
    BY ColumnFacts DEF Applied, Columns
  <1>4. new = [c \in Columns |-> new[c]]
    BY DEF Applied
  <1>5. new \in Rows
    <2> HIDE DEF new
    <2> QED BY <1>1, <1>2, <1>3, <1>4, RowsAre
  <1> QED BY <1>5

\* A column written over a committed row leaves a row, as only new rows write all.
LEMMA MergedIsRow ==
    ASSUME TypeOK, RowsStay, NEW w \in Runs, NEW d \in Checked(w)
    PROVE  Merged(w, d) \in Rows
  <1> DEFINE m == Merged(w, d)
  <1>1. d \in Domains /\ result[w][d] \in Rows /\ loaded[w][d] \in Rows \cup {NoRow}
        /\ row[d] \in Rows \cup {NoRow}
    BY DEF Checked, TypeOK
  <1>2. CASE loaded[w][d] = NoRow
    <2>1. m = [c \in Columns |-> result[w][d][c]]
      BY <1>1, <1>2, ColumnFacts DEF Merged
    <2>2. [c \in Columns |-> result[w][d][c]] = result[w][d]
      BY <1>1 DEF Rows
    <2> QED BY <1>1, <2>1, <2>2
  <1>3. CASE loaded[w][d] # NoRow
    <2>1. row[d] \in Rows
      BY <1>1, <1>3 DEF RowsStay
    <2>2. \A c \in Columns : m[c] = result[w][d][c] \/ m[c] = row[d][c]
      BY DEF Merged
    <2>3. m = [c \in Columns |-> m[c]]
      BY DEF Merged
    <2>4. /\ \A s \in Signals : m[s] \in Values
          /\ m["rua"] \in {"none", "here", "elsewhere"}
      BY <1>1, <2>1, <2>2 DEF Rows, Columns
    <2>5. m \in Rows
      BY <2>3, <2>4, RowsAre
    <2> QED BY <2>5
  <1> QED BY <1>2, <1>3

-----------------------------------------------------------------------------
(* The invariant. *)

\* What the end of a run leaves of it, and of the others.
LEMMA EndRunFacts ==
    ASSUME TypeOK, NEW w \in Runs, EndRun(w)
    PROVE  /\ pc' \in [Runs -> {"idle", "checking", "flushed", "alerted"}]
           /\ loaded' \in [Runs -> [Domains -> Rows \cup {NoRow}]]
           /\ todo' \in [Runs -> SUBSET Domains]
           /\ result' \in [Runs -> [Domains -> Rows \cup {NoRow}]]
           /\ looked' \in [Runs -> [Domains -> Findings \cup {NotLooked}]]
           /\ gaps' \in [Runs -> SUBSET Gaps]
           /\ pc'[w] = "idle" /\ Checked(w)' = {}
           /\ \A d \in Domains : loaded'[w][d] = NoRow
           /\ \A u \in Runs \ {w} :
                /\ pc'[u] = pc[u] /\ loaded'[u] = loaded[u] /\ result'[u] = result[u]
                /\ looked'[u] = looked[u] /\ gaps'[u] = gaps[u]
                /\ Checked(u)' = Checked(u)
  <1>1. Blank \in [Domains -> Rows \cup {NoRow}]
    BY DEF Blank
  <1>2. /\ pc' \in [Runs -> {"idle", "checking", "flushed", "alerted"}]
        /\ loaded' \in [Runs -> [Domains -> Rows \cup {NoRow}]]
        /\ todo' \in [Runs -> SUBSET Domains]
        /\ result' \in [Runs -> [Domains -> Rows \cup {NoRow}]]
    BY <1>1 DEF TypeOK, EndRun
  <1>3. looked' \in [Runs -> [Domains -> Findings \cup {NotLooked}]]
    BY DEF TypeOK, EndRun
  <1>4. gaps' \in [Runs -> SUBSET Gaps]
    BY DEF TypeOK, EndRun
  <1>5. pc'[w] = "idle" /\ Checked(w)' = {} /\ \A d \in Domains : loaded'[w][d] = NoRow
    BY DEF TypeOK, EndRun, Checked, Blank
  <1>6. \A u \in Runs \ {w} :
          /\ pc'[u] = pc[u] /\ loaded'[u] = loaded[u] /\ result'[u] = result[u]
          /\ looked'[u] = looked[u] /\ gaps'[u] = gaps[u]
    BY DEF TypeOK, EndRun
  <1> QED BY <1>2, <1>3, <1>4, <1>5, <1>6 DEF Checked

LEMMA SyncInit == Init => SyncInv
  <1> SUFFICES ASSUME Init PROVE SyncInv
    OBVIOUS
  <1> USE DEF Init
  <1>1. Gone \in Zones /\ Blank \in [Domains -> Rows \cup {NoRow}]
    BY DEF Gone, Zones, Published, DmarcRecords, Blank
  <1>2. \A w \in Runs : Checked(w) = {}
    BY DEF Checked, Blank
  <1>3. TypeOK
    BY <1>1, BoundAssumption DEF TypeOK
  <1> QED BY <1>2, <1>3 DEF SyncInv, OneAtATime, PastFlush, RowsStay, InsertsAreNew,
                             ResultsAreDerived, GapsAreListed, Blank

\* Owners' edits and steps that leave the runs alone.
LEMMA WorldKeeps ==
    ASSUME SyncInv, UNCHANGED <<row, runVars, histories>>, TypeOK'
    PROVE  SyncInv'
  <1>1. \A w \in Runs : Checked(w)' = Checked(w) /\ (PastFlush(w)' <=> PastFlush(w))
    BY DEF Checked, PastFlush, runVars
  <1> QED BY <1>1 DEF SyncInv, OneAtATime, RowsStay, InsertsAreNew, ResultsAreDerived,
                       GapsAreListed, runVars, histories, Listed

LEMMA EditKeeps ==
    ASSUME SyncInv, NEW d \in Domains, EditTenant(d) \/ \E s \in Signals : EditZone(d, s)
    PROVE  SyncInv'
  <1>1. CASE EditTenant(d)
    <2>1. TypeOK'
      BY <1>1, BoundAssumption DEF EditTenant, SyncInv, TypeOK, runVars, histories
    <2> QED BY <1>1, <2>1, WorldKeeps DEF EditTenant
  <1>2. ASSUME NEW s \in Signals, EditZone(d, s) PROVE SyncInv'
    <2>1. PICK v \in Published(s) : zone' = [zone EXCEPT ![d][s] = v]
      BY <1>2 DEF EditZone
    <2>2. zone[d] \in Zones
      BY DEF SyncInv, TypeOK
    <2>3. [zone[d] EXCEPT ![s] = v] \in Zones
      BY <2>1, <2>2 DEF Zones, Published, DmarcRecords
    <2>4. zone' \in [Domains -> Zones]
      BY <2>1, <2>3 DEF SyncInv, TypeOK
    <2>5. TypeOK'
      BY <1>2, <2>4, BoundAssumption DEF EditZone, SyncInv, TypeOK, runVars, histories
    <2> QED BY <1>2, <2>5, WorldKeeps DEF EditZone
  <1> QED BY <1>1, <1>2

LEMMA BeginRunKeeps ==
    ASSUME SyncInv, NEW w \in Runs, BeginRun(w)
    PROVE  SyncInv'
  <1> USE DEF SyncInv
  <1>1. TypeOK'
    <2>1. loaded' \in [Runs -> [Domains -> Rows \cup {NoRow}]]
      BY DEF BeginRun, TypeOK
    <2> QED BY <2>1 DEF BeginRun, TypeOK, world, histories
  <1>2. \A u \in Runs : /\ Checked(u)' = Checked(u)
                        /\ PastFlush(u)' <=> PastFlush(u)
                        /\ u # w => loaded'[u] = loaded[u]
    BY DEF BeginRun, Checked, PastFlush, TypeOK
  <1>3. \A d \in Domains : loaded'[w][d] \in {row[d], NoRow}
    BY DEF BeginRun, TypeOK
  <1>4. pc[w] = "idle" /\ pc'[w] = "checking" /\ \A u \in Runs \ {w} : pc'[u] = pc[u]
    BY DEF BeginRun, TypeOK
  <1>5. UNCHANGED <<row, result, looked, gaps, alerted>>
    BY DEF BeginRun, histories
  <1>6. Checked(w) = {}
    BY <1>4 DEF ResultsAreDerived
  <1>7. OneAtATime' /\ RowsStay'
    BY <1>2, <1>3, <1>5 DEF OneAtATime, RowsStay
  <1>8. InsertsAreNew'
    BY <1>2, <1>4, <1>5, <1>6 DEF InsertsAreNew
  <1>9. ResultsAreDerived'
    BY <1>2, <1>4, <1>5, <1>6 DEF ResultsAreDerived
  <1>10. GapsAreListed'
    BY <1>2, <1>4, <1>5, <1>6 DEF GapsAreListed
  <1> QED BY <1>1, <1>7, <1>8, <1>9, <1>10

LEMMA CheckDomainKeeps ==
    ASSUME SyncInv, NEW w \in Runs, NEW d \in Domains, CheckDomain(w, d)
    PROVE  SyncInv'
  <1> USE DEF SyncInv
  <1>1. PICK unresolved \in SUBSET Signals, misfetched \in BOOLEAN :
          LET f == Found(d, unresolved, misfetched)
              fault == misfetched \/ unresolved # {}
          IN  /\ fault => faults < MaxFaults
              /\ faults' = IF fault THEN faults + 1 ELSE faults
              /\ looked' = [looked EXCEPT ![w][d] = f]
              /\ result' = [result EXCEPT ![w][d] = Applied(loaded[w][d], f)]
              /\ gaps' = [gaps EXCEPT ![w] = @ \cup Transitions(d, loaded[w][d], f)]
    BY DEF CheckDomain
  <1> DEFINE f == Found(d, unresolved, misfetched)
  <1>2. f \in Looks
    BY FoundIsLook
  <1>3. loaded[w][d] \in Rows \cup {NoRow} /\ Applied(loaded[w][d], f) \in Rows
    BY <1>2, AppliedIsRow DEF TypeOK
  <1> HIDE DEF f
  <1>4. /\ looked' = [looked EXCEPT ![w][d] = f]
        /\ result' = [result EXCEPT ![w][d] = Applied(loaded[w][d], f)]
        /\ gaps' = [gaps EXCEPT ![w] = @ \cup Transitions(d, loaded[w][d], f)]
    BY <1>1 DEF f
  <1>5. UNCHANGED <<world, row, pc, loaded, histories>> /\ pc[w] = "checking"
    BY DEF CheckDomain
  <1>6. Transitions(d, loaded[w][d], f) \subseteq Gaps
    <2>1. \A s \in Signals, really \in BOOLEAN : Gap(d, s, really) \in Gaps
      BY DEF Gap, Gaps
    <2>2. \A s \in Signals : (PostureOf(d, s) = "missing") \in BOOLEAN
      OBVIOUS
    <2> QED BY <2>1, <2>2 DEF Transitions
  <1>7. TypeOK'
    <2>1. result' \in [Runs -> [Domains -> Rows \cup {NoRow}]]
      BY <1>3, <1>4 DEF TypeOK
    <2>2. gaps' \in [Runs -> SUBSET Gaps]
      BY <1>4, <1>6 DEF TypeOK
    <2>3. todo' \in [Runs -> SUBSET Domains] /\ faults' \in 0 .. MaxFaults
      BY <1>1, BoundAssumption DEF CheckDomain, TypeOK
    <2>4. looked' \in [Runs -> [Domains -> Findings \cup {NotLooked}]]
      BY <1>2, <1>4 DEF TypeOK, Looks
    <2> QED BY <1>5, <2>1, <2>2, <2>3, <2>4 DEF TypeOK, world, histories
  <1>8. \A u \in Runs : u # w => Checked(u)' = Checked(u)
    BY <1>4 DEF Checked, TypeOK
  <1>9. /\ \A u \in Runs : u # w => gaps'[u] = gaps[u] /\ looked'[u] = looked[u] /\ result'[u] = result[u]
        /\ gaps[w] \subseteq gaps'[w]
        /\ Transitions(d, loaded[w][d], f) \subseteq gaps'[w]
    BY <1>4 DEF TypeOK
  <1>10. result'[w][d] = Applied(loaded[w][d], f)
    BY <1>4 DEF TypeOK
  <1>11. \A e \in Checked(w)' : e # d => e \in Checked(w) /\ result'[w][e] = result[w][e]
    BY <1>4 DEF Checked, TypeOK
  <1>12. OneAtATime' /\ RowsStay'
    BY <1>5 DEF OneAtATime, RowsStay, PastFlush
  <1>13. InsertsAreNew'
    BY <1>5, <1>8 DEF InsertsAreNew, PastFlush
  <1>14. /\ looked'[w][d] = f
         /\ \A e \in Domains : e # d => looked'[w][e] = looked[w][e]
    BY <1>4 DEF TypeOK
  <1>15. \A e \in Checked(w)' : e \in Domains
    BY DEF Checked
  <1>16. ResultsAreDerived'
    <2>1. ASSUME NEW u \in Runs, NEW e \in Checked(u)'
          PROVE  /\ looked'[u][e] \in Looks
                 /\ result'[u][e] = Applied(loaded'[u][e], looked'[u][e])
      <3>1. CASE u # w
        BY <1>5, <1>8, <1>9, <2>1, <3>1 DEF ResultsAreDerived
      <3>2. CASE u = w /\ e = d
        BY <1>2, <1>5, <1>10, <1>14, <3>2
      <3>3. CASE u = w /\ e # d
        BY <1>5, <1>11, <1>14, <1>15, <2>1, <3>3 DEF ResultsAreDerived
      <3> QED BY <3>1, <3>2, <3>3
    <2>2. \A u \in Runs : pc'[u] = "idle" => Checked(u)' = {}
      BY <1>5, <1>8 DEF ResultsAreDerived
    <2> QED BY <2>1, <2>2 DEF ResultsAreDerived
  <1>17. GapsAreListed'
    <2>1. ASSUME NEW u \in Runs, NEW e \in Checked(u)', NEW s \in Signals,
                 IsGap(loaded'[u][e], looked'[u][e], s)
          PROVE  Listed(e, s, gaps'[u])
      <3>1. CASE u # w
        BY <1>5, <1>8, <1>9, <2>1, <3>1 DEF GapsAreListed
      <3>2. CASE u = w /\ e = d
        <4>1. Gap(d, s, PostureOf(d, s) = "missing") \in Transitions(d, loaded[w][d], f)
          BY <1>5, <1>14, <2>1, <3>2 DEF Transitions
        <4> QED BY <1>9, <3>2, <4>1 DEF Listed, Gap
      <3>3. CASE u = w /\ e # d
        <4>1. e \in Checked(w) /\ IsGap(loaded[w][e], looked[w][e], s)
          BY <1>5, <1>11, <1>14, <1>15, <2>1, <3>3
        <4>2. Listed(e, s, gaps[w])
          BY <4>1 DEF GapsAreListed
        <4> QED BY <1>9, <3>3, <4>2 DEF Listed
      <3> QED BY <3>1, <3>2, <3>3
    <2>2. \A u \in Runs : pc'[u] = "alerted" => gaps'[u] \subseteq alerted'
      BY <1>5, <1>9 DEF GapsAreListed, histories
    <2> QED BY <2>1, <2>2 DEF GapsAreListed
  <1> QED BY <1>7, <1>12, <1>13, <1>16, <1>17

LEMMA SkipDomainKeeps ==
    ASSUME SyncInv, NEW w \in Runs, NEW d \in Domains, SkipDomain(w, d)
    PROVE  SyncInv'
  <1>1. TypeOK'
    BY BoundAssumption DEF SkipDomain, SyncInv, TypeOK, world, histories
  <1>2. UNCHANGED <<row, pc, loaded, result, looked, gaps, alerted>>
    BY DEF SkipDomain, histories
  <1>3. \A u \in Runs : Checked(u)' = Checked(u) /\ (PastFlush(u)' <=> PastFlush(u))
    BY <1>2 DEF Checked, PastFlush
  <1> QED BY <1>1, <1>2, <1>3 DEF SyncInv, OneAtATime, RowsStay, InsertsAreNew,
                                   ResultsAreDerived, GapsAreListed, Listed

\* The other runs carry on what they carried.
LEMMA EndRunCarries ==
    ASSUME SyncInv, NEW w \in Runs, EndRun(w),
           \A u \in Runs : pc[u] = "alerted" => u = w \/ gaps[u] \subseteq alerted'
    PROVE  ResultsAreDerived' /\ GapsAreListed'
  <1> USE DEF SyncInv
  <1>1. pc'[w] = "idle" /\ Checked(w)' = {}
    BY EndRunFacts
  <1>2. \A u \in Runs \ {w} :
          /\ pc'[u] = pc[u] /\ loaded'[u] = loaded[u] /\ result'[u] = result[u]
          /\ looked'[u] = looked[u] /\ gaps'[u] = gaps[u]
          /\ Checked(u)' = Checked(u)
    BY EndRunFacts
  <1>3. ResultsAreDerived'
    <2> SUFFICES ASSUME NEW u \in Runs
                 PROVE  /\ pc'[u] = "idle" => Checked(u)' = {}
                        /\ \A d \in Checked(u)' :
                             /\ looked'[u][d] \in Looks
                             /\ result'[u][d] = Applied(loaded'[u][d], looked'[u][d])
      BY DEF ResultsAreDerived
    <2>1. CASE u = w
      BY <1>1, <2>1
    <2>2. CASE u # w
      BY <1>2, <2>2 DEF ResultsAreDerived
    <2> QED BY <2>1, <2>2
  <1>4. GapsAreListed'
    <2> SUFFICES ASSUME NEW u \in Runs
                 PROVE  /\ \A d \in Checked(u)', s \in Signals :
                             IsGap(loaded'[u][d], looked'[u][d], s) => Listed(d, s, gaps'[u])
                        /\ pc'[u] = "alerted" => gaps'[u] \subseteq alerted'
      BY DEF GapsAreListed
    <2>1. CASE u = w
      BY <1>1, <2>1
    <2>2. CASE u # w
      BY <1>2, <2>2 DEF GapsAreListed
    <2> QED BY <2>1, <2>2
  <1> QED BY <1>3, <1>4

\* A run that ends and has written nothing, whatever ended it.
LEMMA EndRunKeeps ==
    ASSUME SyncInv, NEW w \in Runs, EndRun(w), UNCHANGED <<world, row, histories>>,
           faults' \in 0 .. MaxFaults
    PROVE  SyncInv'
  <1> USE DEF SyncInv
  <1>1. TypeOK'
    BY EndRunFacts DEF TypeOK, world, histories
  <1>2. \A u \in Runs : PastFlush(u)' => PastFlush(u) /\ u # w
    BY EndRunFacts DEF PastFlush
  <1>3. \A u \in Runs \ {w} : loaded'[u] = loaded[u] /\ Checked(u)' = Checked(u)
    BY EndRunFacts
  <1>4. \A d \in Domains : loaded'[w][d] = NoRow
    BY EndRunFacts
  <1>7. OneAtATime'
    BY <1>2 DEF OneAtATime
  <1>8. RowsStay'
    BY <1>3, <1>4 DEF RowsStay
  <1>9. InsertsAreNew'
    <2> SUFFICES ASSUME NEW u \in Runs, PastFlush(u)', NEW d \in Checked(u)',
                        loaded'[u][d] = NoRow
                 PROVE  row'[d] = NoRow
      BY DEF InsertsAreNew
    <2>1. PastFlush(u) /\ u # w
      BY <1>2
    <2>2. d \in Checked(u) /\ loaded[u][d] = NoRow
      BY <1>3, <2>1
    <2> QED BY <2>1, <2>2 DEF InsertsAreNew
  <1>5. ResultsAreDerived' /\ GapsAreListed'
    BY EndRunCarries DEF GapsAreListed, histories
  <1> QED BY <1>1, <1>5, <1>7, <1>8, <1>9

LEMMA FlushKeeps ==
    ASSUME SyncInv, NEW w \in Runs, Flush(w)
    PROVE  SyncInv'
  <1>1. CASE EndRun(w)
    BY <1>1, EndRunKeeps DEF Flush, SyncInv, TypeOK
  <1>2. CASE ~EndRun(w)
    <2> USE DEF SyncInv
    <2>1. /\ ~Collides(w)
          /\ pc' = [pc EXCEPT ![w] = "flushed"]
          /\ UNCHANGED <<loaded, todo, result, looked, gaps, world, row, histories, faults>>
          /\ \A u \in Runs \ {w} : pc[u] \in {"idle", "checking"}
      BY <1>2 DEF Flush
    <2>2. \A u \in Runs : Checked(u)' = Checked(u)
      BY <2>1 DEF Checked
    <2>3. TypeOK'
      BY <2>1 DEF TypeOK, world, histories
    <2>4. \A u \in Runs : PastFlush(u)' => u = w
      <3>1. \A u \in Runs : u # w => pc'[u] \in {"idle", "checking"}
        BY <2>1 DEF TypeOK
      <3> QED BY <3>1 DEF PastFlush
    <2>5. OneAtATime' /\ RowsStay'
      BY <2>1, <2>4 DEF OneAtATime, RowsStay
    <2>6. InsertsAreNew'
      BY <2>1, <2>2, <2>4 DEF InsertsAreNew, Collides
    <2>7. \A u \in Runs : pc'[u] \in {"idle", "alerted"} => pc'[u] = pc[u]
      BY <2>1 DEF TypeOK
    <2>8. ResultsAreDerived'
      BY <2>1, <2>2, <2>7 DEF ResultsAreDerived
    <2>9. GapsAreListed'
      BY <2>1, <2>2, <2>7 DEF GapsAreListed, Listed, histories
    <2> QED BY <2>3, <2>5, <2>6, <2>8, <2>9
  <1> QED BY <1>1, <1>2

LEMMA AlertKeeps ==
    ASSUME SyncInv, NEW w \in Runs, Alert(w)
    PROVE  SyncInv'
  <1> USE DEF SyncInv
  <1>1. /\ pc[w] = "flushed" /\ pc' = [pc EXCEPT ![w] = "alerted"]
        /\ alerted' = alerted \cup gaps[w]
        /\ UNCHANGED <<world, row, loaded, todo, result, looked, gaps, opened, faults>>
    BY DEF Alert
  <1>2. \A u \in Runs : /\ Checked(u)' = Checked(u)
                        /\ PastFlush(u)' <=> PastFlush(u)
                        /\ u # w => pc'[u] = pc[u]
    BY <1>1 DEF Checked, PastFlush, TypeOK
  <1>3. TypeOK'
    BY <1>1 DEF TypeOK, world
  <1>4. OneAtATime' /\ RowsStay' /\ InsertsAreNew'
    BY <1>1, <1>2 DEF OneAtATime, RowsStay, InsertsAreNew
  <1>5. ResultsAreDerived'
    BY <1>1, <1>2 DEF ResultsAreDerived, TypeOK
  <1>6. GapsAreListed'
    BY <1>1, <1>2 DEF GapsAreListed, Listed
  <1> QED BY <1>3, <1>4, <1>5, <1>6

\* What a commit does to a row: checked ones get what the run found to have changed.
LEMMA CommitFacts ==
    ASSUME SyncInv, NEW w \in Runs, Commit(w)
    PROVE  /\ row' \in [Domains -> Rows \cup {NoRow}]
           /\ \A d \in Domains : row[d] # NoRow => row'[d] # NoRow
           /\ \A d \in Domains, s \in Signals :
                \/ row'[d][s] = row[d][s]
                \/ /\ d \in Checked(w)
                   /\ row'[d][s] = result[w][d][s]
                   /\ result[w][d][s] # loaded[w][d][s]
  <1> USE DEF SyncInv
  <1>1. row' = [d \in Domains |-> IF d \in Checked(w) THEN Merged(w, d) ELSE row[d]]
    BY DEF Commit
  <1>2. \A d \in Checked(w) : Merged(w, d) \in Rows
    BY MergedIsRow
  <1>3. row' \in [Domains -> Rows \cup {NoRow}]
    BY <1>1, <1>2 DEF TypeOK
  <1>4. \A d \in Domains : row[d] # NoRow => row'[d] # NoRow
    BY <1>1, <1>2, ColumnFacts
  <1>5. ASSUME NEW d \in Domains, NEW s \in Signals, row'[d][s] # row[d][s]
        PROVE  /\ d \in Checked(w)
               /\ row'[d][s] = result[w][d][s]
               /\ result[w][d][s] # loaded[w][d][s]
    <2>1. d \in Checked(w) /\ row'[d] = Merged(w, d)
      BY <1>1, <1>5
    <2> QED BY <1>5, <2>1 DEF Merged, Columns
  <1> QED BY <1>3, <1>4, <1>5

LEMMA CommitKeeps ==
    ASSUME SyncInv, NEW w \in Runs, Commit(w)
    PROVE  SyncInv'
  <1> USE DEF SyncInv
  <1>1. /\ pc[w] = "alerted" /\ EndRun(w) /\ UNCHANGED <<world, faults>>
        /\ opened' \subseteq Domains \X Signals /\ alerted' \subseteq alerted
    BY DEF Commit
  <1>2. TypeOK'
    BY <1>1, CommitFacts, EndRunFacts DEF TypeOK, world
  <1>3. pc'[w] = "idle" /\ \A u \in Runs \ {w} : pc'[u] = pc[u]
    BY <1>1, EndRunFacts
  <1>4. \A u \in Runs : ~PastFlush(u)' /\ pc'[u] # "alerted"
    <2>1. PastFlush(w)
      BY <1>1 DEF PastFlush
    <2> QED BY <1>3, <2>1 DEF OneAtATime, PastFlush
  <1>5. OneAtATime' /\ InsertsAreNew'
    BY <1>4 DEF OneAtATime, InsertsAreNew
  <1>6. /\ \A u \in Runs \ {w} : loaded'[u] = loaded[u]
        /\ \A d \in Domains : loaded'[w][d] = NoRow
    BY <1>1, EndRunFacts
  <1>7. \A d \in Domains : row[d] # NoRow => row'[d] # NoRow
    BY CommitFacts
  <1>8. RowsStay'
    BY <1>6, <1>7 DEF RowsStay
  <1>9. \A u \in Runs : pc[u] = "alerted" => u = w
    BY <1>1 DEF OneAtATime, PastFlush
  <1>10. ResultsAreDerived' /\ GapsAreListed'
    BY <1>1, <1>9, EndRunCarries
  <1> QED BY <1>2, <1>5, <1>8, <1>10

LEMMA SyncNext == SyncInv /\ [Next]_vars => SyncInv'
  <1> SUFFICES ASSUME SyncInv, [Next]_vars PROVE SyncInv'
    OBVIOUS
  <1>1. CASE \E d \in Domains : EditTenant(d) \/ \E s \in Signals : EditZone(d, s)
    BY <1>1, EditKeeps
  <1>2. ASSUME NEW w \in Runs, Step(w) PROVE SyncInv'
    BY <1>2, BeginRunKeeps, CheckDomainKeeps, FlushKeeps, AlertKeeps, CommitKeeps DEF Step
  <1>3. ASSUME NEW w \in Runs, Fail(w) PROVE SyncInv'
    <2>1. faults' \in 0 .. MaxFaults
      BY <1>3, BoundAssumption DEF Fail, SyncInv, TypeOK
    <2> QED BY <1>3, <2>1, EndRunKeeps DEF Fail
  <1>4. ASSUME NEW w \in Runs, NEW d \in Domains, SkipDomain(w, d) PROVE SyncInv'
    BY <1>4, SkipDomainKeeps
  <1>5. CASE UNCHANGED vars
    <2>1. TypeOK'
      BY <1>5 DEF SyncInv, TypeOK, vars, world, runVars, histories
    <2> QED BY <1>5, <2>1, WorldKeeps DEF vars
  <1> QED BY <1>1, <1>2, <1>3, <1>4, <1>5 DEF Next

LEMMA SyncAlways == Spec => []SyncInv
  <1> QED BY SyncInit, SyncNext, PTL DEF Spec

\* Type correctness of the domain sync: rows are whole, whichever runs wrote them.
THEOREM TypeCorrect == Spec => []TypeOK
  <1>1. SyncInv => TypeOK
    BY DEF SyncInv
  <1> QED BY <1>1, SyncAlways, PTL

-----------------------------------------------------------------------------
\* A value that changes in the table is what a lookup found, of the run that commits.
LEMMA StoredIsFound ==
    ASSUME SyncInv, NEW w \in Runs, Commit(w), NEW d \in Domains, NEW s \in Signals,
           row[d] # NoRow, row'[d][s] # row[d][s]
    PROVE  /\ d \in Checked(w) /\ loaded[w][d] \in Rows
           /\ looked[w][d][s] = row'[d][s] /\ row'[d][s] # loaded[w][d][s]
  <1> USE DEF SyncInv
  <1>1. /\ d \in Checked(w) /\ row'[d][s] = result[w][d][s]
        /\ result[w][d][s] # loaded[w][d][s]
    BY CommitFacts
  <1>2. PastFlush(w) /\ loaded[w][d] # NoRow
    BY <1>1 DEF InsertsAreNew, Commit, PastFlush
  <1>3. loaded[w][d] \in Rows
    BY <1>2 DEF TypeOK
  <1>4. result[w][d][s] = SignalAfter(loaded[w][d], looked[w][d], s)
    <2>1. result[w][d] = Applied(loaded[w][d], looked[w][d])
      BY <1>1 DEF ResultsAreDerived
    <2>2. s \in Columns /\ s # "rua"
      BY ColumnFacts DEF Columns
    <2> QED BY <2>1, <2>2 DEF Applied
  <1> QED BY <1>1, <1>2, <1>3, <1>4 DEF SignalAfter

\* Whatever two overlapping runs do, a stored signal changes only to what a lookup of the
\* run that commits has found (rua/domain_sync.py, _apply).
THEOREM StoredIsLookedUp == Spec => OnlyFindingsAreStored
  <1>1. ASSUME SyncInv, [Next]_vars, NEW d \in Domains, NEW s \in Signals,
               row[d] # NoRow, row'[d][s] # row[d][s]
        PROVE  \E w \in Runs : pc[w] = "alerted" /\ pc'[w] = "idle" /\ looked[w][d][s] = row'[d][s]
    <2>1. PICK w \in Runs : Commit(w)
      BY <1>1 DEF Next, Step, EditTenant, EditZone, BeginRun, CheckDomain, SkipDomain, Flush,
                  Alert, Fail, vars
    <2>2. looked[w][d][s] = row'[d][s]
      BY <1>1, <2>1, StoredIsFound
    <2>3. pc[w] = "alerted" /\ pc'[w] = "idle"
      BY <1>1, <2>1, EndRunFacts DEF Commit, SyncInv
    <2> QED BY <2>2, <2>3
  <1>2. SyncInv /\ [Next]_vars =>
          \A d \in Domains : \A s \in Signals :
            row[d] # NoRow /\ row'[d][s] # row[d][s]
            => \E w \in Runs : pc[w] = "alerted" /\ pc'[w] = "idle" /\ looked[w][d][s] = row'[d][s]
    BY <1>1
  <1> QED BY <1>2, SyncAlways, PTL DEF Spec, OnlyFindingsAreStored

-----------------------------------------------------------------------------
LEMMA GapsNext == SyncInv /\ NoSilentGap /\ [Next]_vars => NoSilentGap'
  <1> SUFFICES ASSUME SyncInv, NoSilentGap, [Next]_vars PROVE NoSilentGap'
    OBVIOUS
  <1>1. ASSUME NEW w \in Runs, Commit(w) PROVE NoSilentGap'
    <2> SUFFICES ASSUME NEW g \in opened' PROVE Listed(g[1], g[2], alerted')
      BY DEF NoSilentGap, Listed
    <2>1. /\ g \in Domains \X Signals
          /\ row'[g[1]][g[2]] = "missing"
          /\ g \in opened \/ row[g[1]][g[2]] = "set"
      BY <1>1 DEF Commit
    <2>2. g[1] \in Domains /\ g[2] \in Signals
      BY <2>1
    <2>3. \A a \in alerted : a.domain = g[1] /\ a.signal = g[2] => a \in alerted'
      BY <1>1, <2>1 DEF Commit
    <2>4. SUFFICES Listed(g[1], g[2], alerted)
      BY <2>3 DEF Listed
    <2>5. CASE g \in opened
      BY <2>5 DEF NoSilentGap, Listed
    <2>6. CASE row[g[1]][g[2]] = "set"
      <3>1. row[g[1]] # NoRow /\ row'[g[1]][g[2]] # row[g[1]][g[2]]
        BY <2>1, <2>2, <2>6, ColumnFacts DEF Columns
      <3>2. /\ g[1] \in Checked(w) /\ loaded[w][g[1]] \in Rows
            /\ looked[w][g[1]][g[2]] = "missing" /\ loaded[w][g[1]][g[2]] # "missing"
        BY <1>1, <2>1, <2>2, <3>1, StoredIsFound
      <3>3. IsGap(loaded[w][g[1]], looked[w][g[1]], g[2])
        BY <2>2, <3>2, ColumnFacts DEF IsGap, Rows, Values
      <3>4. Listed(g[1], g[2], gaps[w]) /\ gaps[w] \subseteq alerted
        BY <1>1, <2>2, <3>2, <3>3 DEF SyncInv, GapsAreListed, Commit
      <3> QED BY <3>4 DEF Listed
    <2> QED BY <2>1, <2>5, <2>6
  <1>2. CASE ~\E w \in Runs : Commit(w)
    <2>1. opened' = opened /\ alerted \subseteq alerted'
      BY <1>2 DEF Next, Step, EditTenant, EditZone, BeginRun, CheckDomain, SkipDomain, Flush,
                  Alert, Fail, vars, histories
    <2> QED BY <2>1 DEF NoSilentGap
  <1> QED BY <1>1, <1>2

\* Every gap that opens in the table has been alerted, whatever overlaps or fails
\* (rua/domain_sync.py, _gap_transitions; rua/alerts.py).
THEOREM GapsAreAlerted == Spec => []NoSilentGap
  <1>1. Init => NoSilentGap
    BY DEF Init, NoSilentGap
  <1> QED BY <1>1, GapsNext, SyncAlways, PTL DEF Spec
=============================================================================
