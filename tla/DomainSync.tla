----------------------------- MODULE DomainSync -----------------------------
(***************************************************************************)
(* The domain sync: rua/domain_sync.py, which asks Graph for the verified  *)
(* domains, derives each one's posture from DNS with rua/posture.py, keeps *)
(* it in the domain table, and alerts on new gaps with rua/alerts.py.  It  *)
(* runs daily in the scheduler and on demand as `rua sync-domains`, so two *)
(* runs may overlap, and domain owners edit their zones meanwhile.         *)
(*                                                                         *)
(* A run is one transaction: it loads the rows of the named domains once,  *)
(* checks the domains one by one, and flushes at the end, when SQLAlchemy  *)
(* writes the columns that differ from what was loaded.                    *)
(*                                                                         *)
(* A posture is "set" or "missing": the values of its vocabulary that are  *)
(* not missing differ in wording only.                                     *)
(***************************************************************************)
EXTENDS Naturals

CONSTANTS
    Domains,        \* domains the tenant may hold, .onmicrosoft.com names excluded
    Signals,        \* "dmarc", "mtasts" and any of "spf", "dkim", "tlsrpt"
    Runs,           \* runs that may be in flight: the daily job, the command
    MaxEdits,       \* bound: edits of zones and of the tenant's domain list
    MaxFaults       \* bound: failed lookups, failed fetches, failed runs

ASSUME SignalAssumption ==
    /\ {"dmarc", "mtasts"} \subseteq Signals
    /\ Signals \subseteq {"dmarc", "spf", "dkim", "mtasts", "tlsrpt"}

ASSUME BoundAssumption == MaxEdits \in Nat /\ MaxFaults \in Nat

VARIABLES
    tenant,     \* domains Graph lists as verified
    zone,       \* what each domain publishes for each signal
    row,        \* the domain table
    pc,         \* where each run is
    loaded,     \* the rows a run has loaded
    todo,       \* domains it has still to check
    result,     \* what it will write, for the domains it has checked
    looked,     \* what its lookups found, "unresolved" included
    gaps,       \* its GapTransitions
    alerted,    \* history: gaps an alert was posted for
    opened,     \* history: gaps the table shows that it did not show before
    edits,      \* edits so far, bounded by MaxEdits
    faults      \* faults so far, bounded by MaxFaults

world == <<tenant, zone, edits>>
runVars == <<pc, loaded, todo, result, looked, gaps>>
histories == <<alerted, opened>>
vars == <<world, row, runVars, histories, faults>>

\* What a zone may hold: a DMARC record names the report mailbox in rua= or not,
\* and may have no valid p=, which posture.py treats as missing.
DmarcRecords == {"here", "elsewhere", "noPolicy", "missing"}
Published(s) == IF s = "dmarc" THEN DmarcRecords ELSE {"set", "missing"}
Zones == {z \in [Signals -> DmarcRecords \cup {"set"}] : \A s \in Signals : z[s] \in Published(s)}

\* A row: a value per signal, and rua_matches: "none", "here" or "elsewhere".
Values == {"set", "missing"}
Columns == Signals \cup {"rua"}
Rows == {r \in [Columns -> Values \cup {"none", "here", "elsewhere"}] :
           /\ \A s \in Signals : r[s] \in Values
           /\ r["rua"] \in {"none", "here", "elsewhere"}}
NoRow == [c \in Columns |-> "absent"]
NotLooked == [c \in Columns |-> "absent"]

Gone == [s \in Signals |-> "missing"]
Blank == [d \in Domains |-> NoRow]

Init ==
    /\ tenant = {}
    /\ zone = [d \in Domains |-> Gone]
    /\ row = Blank
    /\ pc = [w \in Runs |-> "idle"]
    /\ loaded = [w \in Runs |-> Blank]
    /\ todo = [w \in Runs |-> {}]
    /\ result = [w \in Runs |-> Blank]
    /\ looked = [w \in Runs |-> [d \in Domains |-> NotLooked]]
    /\ gaps = [w \in Runs |-> {}]
    /\ alerted = {} /\ opened = {}
    /\ edits = 0 /\ faults = 0

-----------------------------------------------------------------------------
(* The tenant and its DNS. *)

EditZone(d, s) ==
    /\ edits < MaxEdits
    /\ \E v \in Published(s) \ {zone[d][s]} : zone' = [zone EXCEPT ![d][s] = v]
    /\ edits' = edits + 1
    /\ UNCHANGED <<tenant, row, runVars, histories, faults>>

\* A domain is verified or removed; its row, if it has one, stays.
EditTenant(d) ==
    /\ edits < MaxEdits
    /\ tenant' = IF d \in tenant THEN tenant \ {d} ELSE tenant \cup {d}
    /\ edits' = edits + 1
    /\ UNCHANGED <<zone, row, runVars, histories, faults>>

-----------------------------------------------------------------------------
(* posture.check_domain. *)

\* dmarc_posture, mtasts_posture and the rest, of what is published.
PostureOf(d, s) ==
    IF zone[d][s] \in {"set", "here", "elsewhere"} THEN "set" ELSE "missing"

\* rua_verdict, which a record without a valid p= still gets.
RuaOf(d) ==
    CASE zone[d]["dmarc"] = "missing" -> "none"
      [] zone[d]["dmarc"] = "noPolicy" -> "here"
      [] OTHER -> zone[d]["dmarc"]

\* What check_domain returns when the TXT lookups of the signals in unresolved fail,
\* and, if misfetched, so does the fetch of the MTA-STS policy: https_text returns
\* None for that, which is taken for a domain without a policy.
Found(d, unresolved, misfetched) ==
    [c \in Columns |->
       IF c = "rua" THEN (IF "dmarc" \in unresolved THEN "none" ELSE RuaOf(d))
       ELSE IF c \in unresolved THEN "unresolved"
       ELSE IF c = "mtasts" /\ misfetched THEN "missing"
       ELSE PostureOf(d, c)]

-----------------------------------------------------------------------------
(* domain_sync.check_domains. *)

BugPlaceholdersStored(old, f, s) == IF f[s] = "unresolved" THEN "missing" ELSE f[s]

BugNoPlaceholder(old, f, s) == IF f[s] # "unresolved" \/ old = NoRow THEN f[s] ELSE old[s]

\* _apply: an unresolved signal keeps its value, or is "missing" on a new row.
SignalAfter(old, f, s) ==
    IF f[s] # "unresolved" THEN f[s] ELSE IF old = NoRow THEN "missing" ELSE old[s]

BugRuaNotCleared(old, f) ==
    IF f["dmarc"] # "unresolved" THEN f["rua"] ELSE IF old = NoRow THEN "none" ELSE old["rua"]

\* A domain without a DMARC policy has no rua verdict.
RuaAfter(old, f) ==
    IF SignalAfter(old, f, "dmarc") = "missing" THEN "none"
    ELSE IF f["dmarc"] # "unresolved" THEN f["rua"] ELSE old["rua"]

Applied(old, f) ==
    [c \in Columns |-> IF c = "rua" THEN RuaAfter(old, f) ELSE SignalAfter(old, f, c)]

BugGapsAfterApply(old, f, s) == old # NoRow /\ SignalAfter(old, f, s) = "set" /\ f[s] = "missing"

\* _gap_transitions: configured on the stored row, missing in the new check.
IsGap(old, f, s) == old # NoRow /\ old[s] = "set" /\ f[s] = "missing"

\* The GapTransitions of a check, and whether the record was really gone.
Gap(d, s, really) == [domain |-> d, signal |-> s, really |-> really]
Transitions(d, old, f) ==
    {Gap(d, s, PostureOf(d, s) = "missing") : s \in {t \in Signals : IsGap(old, f, t)}}

\* Graph's list, and one SELECT of the rows it names.
BeginRun(w) ==
    /\ pc[w] = "idle"
    /\ pc' = [pc EXCEPT ![w] = "checking"]
    /\ todo' = [todo EXCEPT ![w] = tenant]
    /\ loaded' = [loaded EXCEPT ![w] = [d \in Domains |-> IF d \in tenant THEN row[d] ELSE NoRow]]
    /\ UNCHANGED <<world, row, result, looked, gaps, histories, faults>>

CheckDomain(w, d) ==
    /\ pc[w] = "checking" /\ d \in todo[w]
    /\ todo' = [todo EXCEPT ![w] = @ \ {d}]
    /\ \E unresolved \in SUBSET Signals, misfetched \in BOOLEAN :
         LET f == Found(d, unresolved, misfetched)
             fault == misfetched \/ unresolved # {}
         IN  /\ misfetched => "mtasts" \notin unresolved /\ zone[d]["mtasts"] = "set"
             /\ fault => faults < MaxFaults
             /\ faults' = IF fault THEN faults + 1 ELSE faults
             /\ looked' = [looked EXCEPT ![w][d] = f]
             /\ result' = [result EXCEPT ![w][d] = Applied(loaded[w][d], f)]
             /\ gaps' = [gaps EXCEPT ![w] = @ \cup Transitions(d, loaded[w][d], f)]
    /\ UNCHANGED <<world, row, pc, loaded, histories>>

\* check_domain raised: the domain is skipped, the run goes on.
SkipDomain(w, d) ==
    /\ pc[w] = "checking" /\ d \in todo[w]
    /\ faults < MaxFaults
    /\ faults' = faults + 1
    /\ todo' = [todo EXCEPT ![w] = @ \ {d}]
    /\ UNCHANGED <<world, row, pc, loaded, result, looked, gaps, histories>>

EndRun(w) ==
    /\ pc' = [pc EXCEPT ![w] = "idle"]
    /\ loaded' = [loaded EXCEPT ![w] = Blank]
    /\ todo' = [todo EXCEPT ![w] = {}]
    /\ result' = [result EXCEPT ![w] = Blank]
    /\ looked' = [looked EXCEPT ![w] = [d \in Domains |-> NotLooked]]
    /\ gaps' = [gaps EXCEPT ![w] = {}]

-----------------------------------------------------------------------------
(* The flush, the alert and the commit. *)

Checked(w) == {d \in Domains : result[w][d] # NoRow}

\* An inserted name is unique.
Collides(w) == \E d \in Checked(w) : loaded[w][d] = NoRow /\ row[d] # NoRow

\* The columns that differ from what was loaded, over what is committed now.
Merged(w, d) ==
    [c \in Columns |-> IF result[w][d][c] # loaded[w][d][c] THEN result[w][d][c] ELSE row[d][c]]

\* ck_domain_rua_matches_requires_dmarc.
Paired(r) == (r["dmarc"] = "missing") <=> (r["rua"] = "none")

\* domains.last_sync_at is written after the flush and locked until the commit, so
\* one run at a time gets past it.
Flush(w) ==
    /\ pc[w] = "checking" /\ todo[w] = {}
    /\ \A u \in Runs \ {w} : pc[u] \in {"idle", "checking"}
    /\ IF Collides(w) \/ \E d \in Checked(w) : ~Paired(Merged(w, d))
         THEN EndRun(w)
         ELSE /\ pc' = [pc EXCEPT ![w] = "flushed"]
              /\ UNCHANGED <<loaded, todo, result, looked, gaps>>
    /\ UNCHANGED <<world, row, histories, faults>>

\* alert_new_gaps, before the commit.  A failed POST is logged and not repeated.
Alert(w) ==
    /\ pc[w] = "flushed"
    /\ alerted' = alerted \cup gaps[w]
    /\ pc' = [pc EXCEPT ![w] = "alerted"]
    /\ UNCHANGED <<world, row, loaded, todo, result, looked, gaps, opened, faults>>

\* What the table shows no more is a new gap, and a new alert, when it comes back.
Commit(w) ==
    /\ pc[w] = "alerted"
    /\ row' = [d \in Domains |-> IF d \in Checked(w) THEN Merged(w, d) ELSE row[d]]
    /\ opened' = {g \in Domains \X Signals :
         /\ row'[g[1]][g[2]] = "missing"
         /\ g \in opened \/ row[g[1]][g[2]] = "set"}
    /\ alerted' = {a \in alerted : row'[a.domain][a.signal] = "missing"}
    /\ EndRun(w)
    /\ UNCHANGED <<world, faults>>

\* A database error, or the end of the process.
Fail(w) ==
    /\ pc[w] # "idle"
    /\ faults < MaxFaults
    /\ faults' = faults + 1
    /\ EndRun(w)
    /\ UNCHANGED <<world, row, histories>>

-----------------------------------------------------------------------------
Step(w) ==
    \/ BeginRun(w)
    \/ \E d \in Domains : CheckDomain(w, d)
    \/ Flush(w)
    \/ Alert(w)
    \/ Commit(w)

Next ==
    \/ \E d \in Domains : EditTenant(d) \/ \E s \in Signals : EditZone(d, s)
    \/ \E w \in Runs : Step(w) \/ Fail(w) \/ \E d \in Domains : SkipDomain(w, d)

Spec == Init /\ [][Next]_vars

\* The daily trigger keeps firing and a run that was started finishes.
FairSpec == Spec /\ \A w \in Runs : WF_vars(Step(w))

-----------------------------------------------------------------------------
(* Properties. *)

Gaps == [domain : Domains, signal : Signals, really : BOOLEAN]
Findings == [Columns -> Values \cup {"none", "here", "elsewhere", "unresolved"}]

\* Rows hold values of the five vocabularies, and what runs carry is of its kind.
TypeOK ==
    /\ tenant \subseteq Domains
    /\ zone \in [Domains -> Zones]
    /\ row \in [Domains -> Rows \cup {NoRow}]
    /\ pc \in [Runs -> {"idle", "checking", "flushed", "alerted"}]
    /\ loaded \in [Runs -> [Domains -> Rows \cup {NoRow}]]
    /\ todo \in [Runs -> SUBSET Domains]
    /\ result \in [Runs -> [Domains -> Rows \cup {NoRow}]]
    /\ looked \in [Runs -> [Domains -> Findings \cup {NotLooked}]]
    /\ gaps \in [Runs -> SUBSET Gaps]
    /\ alerted \subseteq Gaps
    /\ opened \subseteq Domains \X Signals
    /\ edits \in 0 .. MaxEdits
    /\ faults \in 0 .. MaxFaults

\* "A signal whose lookup failed outright keeps its previous value": whatever two
\* overlapping runs do, a stored signal changes only to what a lookup of the run
\* that commits has found.
OnlyFindingsAreStored ==
    [][\A d \in Domains : \A s \in Signals :
         row[d] # NoRow /\ row'[d][s] # row[d][s]
         => \E w \in Runs : pc[w] = "alerted" /\ pc'[w] = "idle" /\ looked[w][d][s] = row'[d][s]]_vars

\* Every gap that opens in the table has been alerted, overlapping and failing
\* runs included: no run moves a signal to missing behind another's back.
NoSilentGap == \A g \in opened : \E a \in alerted : a.domain = g[1] /\ a.signal = g[2]

\* "the record is really gone" (alert_new_gaps): an alerted gap was one in DNS.
AlertsAreReal == \A a \in alerted : a.really

\* "the next successful run corrects it": once the owners stop editing and lookups
\* stop failing, the row of every verified domain comes to show what it publishes.
Shows(d) ==
    [c \in Columns |-> IF c # "rua" THEN PostureOf(d, c)
                       ELSE IF PostureOf(d, "dmarc") = "missing" THEN "none" ELSE RuaOf(d)]
CatchesUp == \A d \in Domains : <>[](d \in tenant => row[d] = Shows(d))
=============================================================================
