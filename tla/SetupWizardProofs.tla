--------------------------- MODULE SetupWizardProofs ---------------------------
(***************************************************************************)
(* Theorems about SetupWizard, for any number of overlapping requests, any *)
(* inputs and any number of edits and resets.                              *)
(***************************************************************************)
EXTENDS SetupWizard, TLAPS

\* A verdict, the counter it is stamped with and the inputs it was produced against.
Checks == {"graphOk", "mailboxOk"}
GenOf(o) == IF o = "graphOk" THEN "graphGen" ELSE "mailboxGen"
InputsFor(o) == IF o = "graphOk" THEN {"app", "secret"} ELSE {"app", "secret", "mailbox"}

Matches(o, verdict, state) == \A k \in InputsFor(o) : verdict.of[k] = state[k]

Earned(o, state) ==
    HasCredentials(state) /\ state[o].gen = state[GenOf(o)] => Matches(o, state[o], state)

Stamped(o, state) == state[o].gen <= state[GenOf(o)]

\* What is committed: no verdict is stamped with a generation to come, and each is earned.
StoreInv == \A o \in Checks : Stamped(o, db) /\ Earned(o, db)

\* A row is written by one transaction at a time.
LocksApart == \A q, r \in Requests : q # r => DOMAIN tx[q] \cap DOMAIN tx[r] = {}

\* A transaction that changes an input increments the counter, from the committed one.
EditsBump(r) ==
    \A o \in Checks :
      /\ DOMAIN tx[r] \cap InputsFor(o) # {} => pc[r] = "bump" \/ GenOf(o) \in DOMAIN tx[r]
      /\ GenOf(o) \in DOMAIN tx[r] => tx[r][GenOf(o)] = db[GenOf(o)] + 1

\* Where a POST is in saving its inputs, and that a comparison still holds at the write.
Saving(r) ==
    /\ pc[r] \in {"idle", "save", "write"} => DOMAIN tx[r] = {}
    /\ pc[r] \in {"write", "bump"} => form[r].step \in {3, 4}
    /\ pc[r] = "write" => changed[r] = Edits(form[r].step, fields[r], View(r))
    /\ pc[r] = "bump" =>
         DOMAIN tx[r] \subseteq IF form[r].step = 3 THEN {"app", "secret"} ELSE {"mailbox"}

\* A running check read its generation before its inputs: if that is still current, so
\* are they.
SampleMatches(r) ==
    LET o == OkKey(form[r]) IN
    /\ pc[r] \in {"read", "recheck", "pass"} => sample[r].gen <= View(r)[GenOf(o)]
    /\ pc[r] \in {"recheck", "pass"} =>
         (HasCredentials(View(r)) /\ sample[r].gen = View(r)[GenOf(o)]
          => Matches(o, sample[r], View(r)))

\* What a transaction would commit is earned, but between a write and its bump.
ViewIsEarned(r) ==
    \A o \in Checks : Stamped(o, View(r)) /\ (pc[r] # "bump" => Earned(o, View(r)))

\* A completion under way was checked, and nothing has been committed since.
CompletionIsReady(r) ==
    /\ pc[r] = "finish" => Ready(View(r))
    /\ "complete" \in DOMAIN tx[r] => Ready(View(r)) /\ pc[r] = "commit"

RequestInv(r) ==
    EditsBump(r) /\ Saving(r) /\ SampleMatches(r) /\ ViewIsEarned(r) /\ CompletionIsReady(r)

VerdictInv ==
    /\ TypeOK
    /\ LocksApart
    /\ StoreInv
    /\ \A r \in Requests : RequestInv(r)

-----------------------------------------------------------------------------
(* Settings and their values. *)

LEMMA KeysAre ==
    Keys = {"step", "admin", "complete", "mode", "app", "secret", "mailbox",
            "graphGen", "mailboxGen", "graphOk", "mailboxOk"}
  BY DEF Keys, Empty

LEMMA CheckFacts ==
    \A o \in Checks :
      /\ o \in Keys /\ GenOf(o) \in Keys /\ InputsFor(o) \subseteq Keys
      /\ {"app", "secret"} \subseteq InputsFor(o)
      /\ o \notin InputsFor(o) /\ GenOf(o) \notin InputsFor(o) /\ GenOf(o) \notin Checks
      /\ InputsFor(o) \cap Checks = {}
  BY KeysAre DEF Checks, GenOf, InputsFor

LEMMA ValueFacts ==
    /\ ValuesOf("step") = Steps
    /\ ValuesOf("admin") = BOOLEAN /\ ValuesOf("complete") = BOOLEAN
    /\ ValuesOf("mode") = Modes
    /\ ValuesOf("app") = Apps \cup {Nothing}
    /\ ValuesOf("secret") = Secrets \cup {Nothing}
    /\ ValuesOf("mailbox") = Mailboxes \cup {Nothing}
    /\ ValuesOf("graphGen") = 0 .. MaxGraphGen
    /\ ValuesOf("mailboxGen") = 0 .. MaxMailboxGen
    /\ ValuesOf("graphOk") = Verdicts(MaxGraphGen)
    /\ ValuesOf("mailboxOk") = Verdicts(MaxMailboxGen)
  BY DEF ValuesOf, MaxOf

LEMMA NumberFacts ==
    \A o \in Checks :
      /\ \A n \in ValuesOf(GenOf(o)) : n \in Nat
      /\ \A v \in ValuesOf(o) : v.gen \in Int /\ v.of \in Inputs
  <1>1. /\ \A n \in 0 .. MaxGraphGen : n \in Nat
        /\ \A v \in Verdicts(MaxGraphGen) : v.gen \in Int /\ v.of \in Inputs
    BY BoundAssumption DEF Verdicts
  <1>2. /\ \A n \in 0 .. MaxMailboxGen : n \in Nat
        /\ \A v \in Verdicts(MaxMailboxGen) : v.gen \in Int /\ v.of \in Inputs
    BY BoundAssumption DEF Verdicts
  <1> QED BY <1>1, <1>2, ValueFacts DEF Checks, GenOf

LEMMA NoVerdictFacts ==
    /\ NoInputs \in Inputs
    /\ NoVerdict.gen = -1
    /\ \A n \in Nat : NoVerdict \in Verdicts(n)
  <1>1. NoInputs \in Inputs
    BY BoundAssumption DEF NoInputs, Inputs
  <1>2. \A n \in Nat : -1 \in -1 .. n
    OBVIOUS
  <1> QED BY <1>1, <1>2 DEF NoVerdict, Verdicts

\* Every statement sees settings of the right kind.
LEMMA ViewType ==
    ASSUME TypeOK, NEW r \in Requests
    PROVE  /\ DOMAIN View(r) = Keys
           /\ \A k \in Keys : View(r)[k] \in ValuesOf(k)
  BY DEF TypeOK, View

LEMMA ViewNumbers ==
    ASSUME TypeOK, NEW r \in Requests, NEW o \in Checks
    PROVE  /\ View(r)[GenOf(o)] \in Nat /\ db[GenOf(o)] \in Nat
           /\ View(r)[o].gen \in Int /\ db[o].gen \in Int
  <1>1. o \in Keys /\ GenOf(o) \in Keys
    BY CheckFacts
  <1>2. /\ View(r)[GenOf(o)] \in ValuesOf(GenOf(o)) /\ db[GenOf(o)] \in ValuesOf(GenOf(o))
        /\ View(r)[o] \in ValuesOf(o) /\ db[o] \in ValuesOf(o)
    BY <1>1, ViewType DEF TypeOK
  <1> QED BY <1>2, NumberFacts

\* A write of settings of the right kind: what r sees then, and what nobody else does.
LEMMA PutFacts ==
    ASSUME TypeOK, LocksApart, NEW r \in Requests, NEW writes,
           DOMAIN writes \subseteq Keys,
           \A k \in DOMAIN writes : writes[k] \in ValuesOf(k),
           Put(r, writes), UNCHANGED db
    PROVE  /\ DOMAIN tx' = Requests
           /\ \A q \in Requests :
                /\ DOMAIN tx'[q] \subseteq Keys
                /\ \A k \in DOMAIN tx'[q] : tx'[q][k] \in ValuesOf(k)
                /\ q # r => tx'[q] = tx[q]
           /\ LocksApart'
           /\ \A k \in Keys : View(r)'[k] = IF k \in DOMAIN writes THEN writes[k] ELSE View(r)[k]
           /\ DOMAIN tx'[r] = DOMAIN tx[r] \cup Touches(View(r), writes)
           /\ \A k \in DOMAIN tx[r] \ DOMAIN writes : tx'[r][k] = tx[r][k]
           /\ \A k \in Touches(View(r), writes) : tx'[r][k] = writes[k]
  <1> DEFINE touched == Touches(View(r), writes)
  <1>1. touched \subseteq DOMAIN writes
    BY DEF Touches
  <1>2. tx' = [tx EXCEPT ![r] =
          [k \in DOMAIN tx[r] \cup touched |-> IF k \in touched THEN writes[k] ELSE tx[r][k]]]
    BY DEF Put
  <1>3. DOMAIN tx = Requests
    BY DEF TypeOK
  <1>4. tx'[r] = [k \in DOMAIN tx[r] \cup touched |-> IF k \in touched THEN writes[k] ELSE tx[r][k]]
    BY <1>2, <1>3
  <1>5. DOMAIN tx' = Requests /\ \A q \in Requests : q # r => tx'[q] = tx[q]
    BY <1>2, <1>3
  <1>6. DOMAIN tx'[r] = DOMAIN tx[r] \cup touched
    BY <1>4
  <1>7. \A k \in DOMAIN tx'[r] : tx'[r][k] = IF k \in touched THEN writes[k] ELSE tx[r][k]
    BY <1>4
  <1>8. Unlocked(touched, Requests \ {r})
    BY DEF Put
  <1> HIDE DEF touched
  <1>9. \A q \in Requests : /\ DOMAIN tx'[q] \subseteq Keys
                            /\ \A k \in DOMAIN tx'[q] : tx'[q][k] \in ValuesOf(k)
    BY <1>1, <1>5, <1>6, <1>7 DEF TypeOK
  <1>10. LocksApart'
    BY <1>5, <1>6, <1>8 DEF LocksApart, Unlocked
  <1>11. \A k \in Keys : View(r)'[k] = IF k \in DOMAIN writes THEN writes[k] ELSE View(r)[k]
    <2> SUFFICES ASSUME NEW k \in Keys
                 PROVE  View(r)'[k] = IF k \in DOMAIN writes THEN writes[k] ELSE View(r)[k]
      OBVIOUS
    <2>1. View(r)'[k] = IF k \in DOMAIN tx'[r] THEN tx'[r][k] ELSE db[k]
      BY DEF View
    <2>2. View(r)[k] = IF k \in DOMAIN tx[r] THEN tx[r][k] ELSE db[k]
      BY DEF View
    <2>3. k \in DOMAIN writes /\ k \notin touched => writes[k] = View(r)[k]
      BY DEF touched, Touches
    <2> QED BY <1>1, <1>6, <1>7, <2>1, <2>2, <2>3
  <1>12. \A k \in DOMAIN tx[r] \ DOMAIN writes : tx'[r][k] = tx[r][k]
    BY <1>1, <1>6, <1>7
  <1>13. \A k \in touched : tx'[r][k] = writes[k]
    BY <1>6, <1>7
  <1> QED BY <1>5, <1>6, <1>9, <1>10, <1>11, <1>12, <1>13 DEF touched

-----------------------------------------------------------------------------
(* A step of one request. *)

Same(q) ==
    /\ tx'[q] = tx[q] /\ pc'[q] = pc[q] /\ form'[q] = form[q]
    /\ fields'[q] = fields[q] /\ changed'[q] = changed[q] /\ sample'[q] = sample[q]

LEMMA SameKeeps ==
    ASSUME NEW q \in Requests, RequestInv(q), Same(q), UNCHANGED db
    PROVE  RequestInv(q)'
  <1>1. View(q)' = View(q)
    BY DEF View, Same
  <1>2. EditsBump(q)' /\ Saving(q)' /\ CompletionIsReady(q)'
    BY <1>1 DEF Same, RequestInv, EditsBump, Saving, CompletionIsReady
  <1>3. SampleMatches(q)'
    BY <1>1 DEF Same, RequestInv, SampleMatches
  <1>4. ViewIsEarned(q)'
    BY <1>1 DEF Same, RequestInv, ViewIsEarned
  <1> QED BY <1>2, <1>3, <1>4 DEF RequestInv

\* It is enough to look at that request.
LEMMA StepKeeps ==
    ASSUME VerdictInv, NEW r \in Requests, UNCHANGED db, TypeOK', LocksApart',
           \A q \in Requests \ {r} : Same(q), RequestInv(r)'
    PROVE  VerdictInv'
  <1>1. StoreInv'
    BY DEF VerdictInv, StoreInv, Stamped, Earned, Matches, HasCredentials
  <1>2. \A q \in Requests : RequestInv(q)'
    BY SameKeeps DEF VerdictInv
  <1> QED BY <1>1, <1>2 DEF VerdictInv

\* Steps that write nothing.
LEMMA LocalKeeps ==
    ASSUME VerdictInv, NEW r \in Requests, UNCHANGED <<db, tx>>, TypeOK',
           \A q \in Requests \ {r} : Same(q),
           pc[r] # "bump", pc'[r] # "bump",
           Saving(r)', SampleMatches(r)', CompletionIsReady(r)'
    PROVE  VerdictInv'
  <1>1. View(r)' = View(r)
    BY DEF View
  <1>2. EditsBump(r)'
    BY DEF VerdictInv, RequestInv, EditsBump
  <1>3. ViewIsEarned(r)'
    BY <1>1 DEF VerdictInv, RequestInv, ViewIsEarned
  <1>4. LocksApart'
    BY DEF VerdictInv, LocksApart
  <1> QED BY <1>2, <1>3, <1>4, StepKeeps DEF RequestInv

LEMMA FormFacts ==
    \A f \in Forms :
      /\ f.step \in 1 .. 5
      /\ f.action \in {"test_graph"} => f.step = 3
      /\ f.action \in {"test_mailbox"} => f.step = 4
      /\ \A input \in Fields(f) : input \in Inputs
  <1>1. ASSUME NEW f \in Forms
        PROVE  /\ f.step \in 1 .. 5
               /\ f.action \in {"test_graph"} => f.step = 3
               /\ f.action \in {"test_mailbox"} => f.step = 4
    BY DEF Forms
  <1>2. ASSUME NEW f \in Forms, NEW input \in Fields(f) PROVE input \in Inputs
    <2>1. NoInputs \in Inputs
      BY NoVerdictFacts
    <2>2. CASE f.step = 2
      BY <1>2, <2>1, <2>2 DEF Fields, Inputs
    <2>3. CASE f.step = 3
      BY <1>2, <2>1, <2>3, BoundAssumption DEF Fields, Inputs, NoInputs
    <2>4. CASE f.step = 4
      BY <1>2, <2>1, <2>4 DEF Fields, Inputs
    <2>5. CASE f.step \notin {2, 3, 4}
      <3>1. Fields(f) = {NoInputs}
        BY <2>5 DEF Fields
      <3> QED BY <1>2, <2>1, <3>1
    <2> QED BY <2>2, <2>3, <2>4, <2>5
  <1> QED BY <1>1, <1>2

LEMMA OpenKeeps ==
    ASSUME VerdictInv, NEW r \in Requests, Open(r)
    PROVE  VerdictInv'
  <1> USE DEF VerdictInv
  <1>0. PICK f \in Forms :
          /\ form' = [form EXCEPT ![r] = f]
          /\ \E input \in Fields(f) : fields' = [fields EXCEPT ![r] = input]
          /\ pc' = [pc EXCEPT ![r] = IF f.step = 5 THEN "act" ELSE "save"]
    BY DEF Open, Goto
  <1>1. PICK input \in Fields(f) : fields' = [fields EXCEPT ![r] = input]
    BY <1>0
  <1>2. pc[r] = "idle" /\ UNCHANGED <<db, tx, changed, sample, latched, resets>>
    BY DEF Open
  <1>3. pc'[r] \in {"act", "save"} /\ \A q \in Requests \ {r} : Same(q)
    BY <1>0, <1>1, <1>2 DEF TypeOK, Same
  <1>4. TypeOK'
    <2>1. input \in Inputs
      BY FormFacts
    <2> QED BY <1>0, <1>1, <1>2, <2>1 DEF TypeOK, PCs
  <1>5. Saving(r)' /\ SampleMatches(r)' /\ CompletionIsReady(r)'
    BY <1>2, <1>3 DEF RequestInv, Saving, SampleMatches, CompletionIsReady
  <1> QED BY <1>2, <1>3, <1>4, <1>5, LocalKeeps

LEMMA CompareKeeps ==
    ASSUME VerdictInv, NEW r \in Requests, Compare(r)
    PROVE  VerdictInv'
  <1> USE DEF VerdictInv
  <1>1. /\ pc[r] = "save" /\ form[r].step \in {3, 4}
        /\ changed' = [changed EXCEPT ![r] = Edits(form[r].step, fields[r], View(r))]
        /\ pc' = [pc EXCEPT ![r] = "write"]
        /\ UNCHANGED <<db, tx, form, fields, sample, latched, resets>>
    BY DEF Compare, Goto
  <1>2. /\ pc'[r] = "write" /\ changed'[r] = Edits(form[r].step, fields[r], View(r))
        /\ \A q \in Requests \ {r} : Same(q)
    BY <1>1 DEF TypeOK, Same
  <1>3. View(r)' = View(r)
    BY <1>1 DEF View
  <1>4. TypeOK'
    <2>1. Edits(form[r].step, fields[r], View(r)) \in BOOLEAN
      BY DEF Edits
    <2>2. changed' \in [Requests -> BOOLEAN]
      BY <1>1, <2>1 DEF TypeOK
    <2>3. pc' \in [Requests -> PCs]
      BY <1>1 DEF TypeOK, PCs
    <2> QED BY <1>1, <2>2, <2>3 DEF TypeOK
  <1>5. Saving(r)' /\ SampleMatches(r)' /\ CompletionIsReady(r)'
    BY <1>1, <1>2, <1>3 DEF RequestInv, Saving, SampleMatches, CompletionIsReady
  <1> QED BY <1>1, <1>2, <1>4, <1>5, LocalKeeps

\* A POST that only goes on to another statement.
LEMMA GoKeeps ==
    ASSUME VerdictInv, NEW r \in Requests, NEW next,
           pc[r] = "act", next \in {"finish", "commit"}, next = "finish" => Ready(View(r)),
           Goto(r, next), UNCHANGED <<db, tx, form, fields, changed, sample, latched, resets>>
    PROVE  VerdictInv'
  <1> USE DEF VerdictInv
  <1>1. pc' = [pc EXCEPT ![r] = next]
    BY DEF Goto
  <1>2. pc'[r] = next /\ \A q \in Requests \ {r} : Same(q)
    BY <1>1 DEF TypeOK, Same
  <1>3. View(r)' = View(r)
    BY DEF View
  <1>4. TypeOK'
    BY <1>1 DEF TypeOK, PCs
  <1>5. Saving(r)' /\ SampleMatches(r)' /\ CompletionIsReady(r)'
    BY <1>2, <1>3 DEF RequestInv, Saving, SampleMatches, CompletionIsReady
  <1> QED BY <1>2, <1>4, <1>5, LocalKeeps

LEMMA StayKeeps ==
    ASSUME VerdictInv, NEW r \in Requests, Stay(r) \/ CheckAll(r)
    PROVE  VerdictInv'
  <1>1. CASE Stay(r)
    BY <1>1, GoKeeps DEF Stay, Acting
  <1>2. CASE CheckAll(r)
    BY <1>2, GoKeeps DEF CheckAll, Acting
  <1> QED BY <1>1, <1>2

LEMMA OkFacts ==
    \A f : OkKey(f) \in Checks /\ GenKey(f) = GenOf(OkKey(f))
  BY DEF OkKey, GenKey, Checks, GenOf

\* What a check reads is a verdict to be.
LEMMA SampleType ==
    ASSUME TypeOK, NEW r \in Requests, NEW f
    PROVE  /\ \A inputs \in Inputs :
                [gen |-> View(r)[GenKey(f)], of |-> inputs] \in ValuesOf(OkKey(f))
           /\ ValuesOf(OkKey(f)) \subseteq Verdicts(MaxGraphGen) \cup Verdicts(MaxMailboxGen)
           /\ InputsOf(f, View(r)) \in Inputs
  <1>1. \A k \in {"graphGen", "mailboxGen", "app", "secret", "mode", "mailbox"} :
          View(r)[k] \in ValuesOf(k)
    BY KeysAre, ViewType
  <1>2. View(r)["graphGen"] \in -1 .. MaxGraphGen /\ View(r)["mailboxGen"] \in -1 .. MaxMailboxGen
    BY <1>1, ValueFacts, BoundAssumption
  <1>3. InputsOf(f, View(r)) \in Inputs
    BY <1>1, ValueFacts, BoundAssumption DEF InputsOf, NoInputs, Inputs
  <1>4. CASE f.action = "test_graph"
    <2>1. OkKey(f) = "graphOk" /\ GenKey(f) = "graphGen"
      BY <1>4 DEF OkKey, GenKey
    <2>2. ValuesOf(OkKey(f)) = Verdicts(MaxGraphGen)
      BY <2>1, ValueFacts
    <2>3. \A inputs \in Inputs : [gen |-> View(r)["graphGen"], of |-> inputs] \in Verdicts(MaxGraphGen)
      BY <1>2 DEF Verdicts
    <2> QED BY <1>3, <2>1, <2>2, <2>3
  <1>5. CASE f.action # "test_graph"
    <2>1. OkKey(f) = "mailboxOk" /\ GenKey(f) = "mailboxGen"
      BY <1>5 DEF OkKey, GenKey
    <2>2. ValuesOf(OkKey(f)) = Verdicts(MaxMailboxGen)
      BY <2>1, ValueFacts
    <2>3. \A inputs \in Inputs : [gen |-> View(r)["mailboxGen"], of |-> inputs] \in Verdicts(MaxMailboxGen)
      BY <1>2 DEF Verdicts
    <2> QED BY <1>3, <2>1, <2>2, <2>3
  <1> QED BY <1>4, <1>5

LEMMA ReadGenerationKeeps ==
    ASSUME VerdictInv, NEW r \in Requests, ReadGeneration(r)
    PROVE  VerdictInv'
  <1> USE DEF VerdictInv
  <1> DEFINE read == [gen |-> View(r)[GenKey(form[r])], of |-> NoInputs]
  <1>1. /\ pc[r] = "act"
        /\ sample' = [sample EXCEPT ![r] = read]
        /\ pc' = [pc EXCEPT ![r] = "read"]
        /\ UNCHANGED <<db, tx, form, fields, changed, latched, resets>>
    BY DEF ReadGeneration, Acting, Goto
  <1>2. pc'[r] = "read" /\ sample'[r] = read /\ \A q \in Requests \ {r} : Same(q)
    BY <1>1 DEF TypeOK, Same
  <1>3. View(r)' = View(r)
    BY <1>1 DEF View
  <1>4. TypeOK'
    <2>1. read \in Verdicts(MaxGraphGen) \cup Verdicts(MaxMailboxGen)
      BY SampleType, NoVerdictFacts
    <2>2. sample' \in [Requests -> Verdicts(MaxGraphGen) \cup Verdicts(MaxMailboxGen)]
      BY <1>1, <2>1 DEF TypeOK
    <2>3. pc' \in [Requests -> PCs]
      BY <1>1 DEF TypeOK, PCs
    <2> QED BY <1>1, <2>2, <2>3 DEF TypeOK
  <1>5. SampleMatches(r)'
    <2>1. sample'[r].gen = View(r)'[GenOf(OkKey(form'[r]))]
      BY <1>1, <1>2, <1>3, OkFacts
    <2>2. View(r)[GenOf(OkKey(form[r]))] \in Nat
      BY OkFacts, ViewNumbers
    <2> QED BY <1>1, <1>2, <1>3, <2>1, <2>2 DEF SampleMatches
  <1>6. Saving(r)' /\ CompletionIsReady(r)'
    BY <1>1, <1>2, <1>3 DEF RequestInv, Saving, CompletionIsReady
  <1> QED BY <1>1, <1>2, <1>4, <1>5, <1>6, LocalKeeps

LEMMA ForgetKeeps ==
    ASSUME VerdictInv, NEW r \in Requests, NEW next,
           pc[r] \in {"read", "recheck"}, next \in {"fail", "commit"},
           Goto(r, next), Forget(r), UNCHANGED <<db, tx, form, fields, changed, latched, resets>>
    PROVE  VerdictInv'
  <1> USE DEF VerdictInv
  <1>1. pc' = [pc EXCEPT ![r] = next] /\ sample' = [sample EXCEPT ![r] = NoVerdict]
    BY DEF Goto, Forget
  <1>2. pc'[r] = next /\ \A q \in Requests \ {r} : Same(q)
    BY <1>1 DEF TypeOK, Same
  <1>3. View(r)' = View(r)
    BY DEF View
  <1>4. TypeOK'
    <2>1. NoVerdict \in Verdicts(MaxGraphGen)
      BY NoVerdictFacts, BoundAssumption
    <2>2. sample' \in [Requests -> Verdicts(MaxGraphGen) \cup Verdicts(MaxMailboxGen)]
      BY <1>1, <2>1 DEF TypeOK
    <2>3. pc' \in [Requests -> PCs]
      BY <1>1 DEF TypeOK, PCs
    <2> QED BY <2>2, <2>3 DEF TypeOK
  <1>5. Saving(r)' /\ SampleMatches(r)' /\ CompletionIsReady(r)'
    BY <1>2, <1>3 DEF RequestInv, Saving, SampleMatches, CompletionIsReady
  <1> QED BY <1>2, <1>4, <1>5, LocalKeeps

LEMMA ReadInputsKeeps ==
    ASSUME VerdictInv, NEW r \in Requests, ReadInputs(r)
    PROVE  VerdictInv'
  <1> USE DEF VerdictInv
  <1> DEFINE inputs == InputsOf(form[r], View(r))
  <1>1. pc[r] = "read" /\ UNCHANGED <<db, tx, form, fields, changed, latched, resets>>
    BY DEF ReadInputs
  <1>2. View(r)' = View(r)
    BY <1>1 DEF View
  <1>3. CASE /\ sample' = [sample EXCEPT ![r].of = inputs]
             /\ pc' = [pc EXCEPT ![r] = "recheck"]
    <2>1. sample[r] \in Verdicts(MaxGraphGen) \cup Verdicts(MaxMailboxGen)
      BY DEF TypeOK
    <2>2. /\ sample'[r] = [sample[r] EXCEPT !.of = inputs] /\ pc'[r] = "recheck"
          /\ \A q \in Requests \ {r} : Same(q)
      BY <1>1, <1>3 DEF TypeOK, Same
    <2>3. /\ sample'[r].of = inputs /\ sample'[r].gen = sample[r].gen
          /\ sample'[r] \in Verdicts(MaxGraphGen) \cup Verdicts(MaxMailboxGen)
      BY <2>1, <2>2, SampleType DEF Verdicts
    <2>4. TypeOK'
      <3>1. sample' \in [Requests -> Verdicts(MaxGraphGen) \cup Verdicts(MaxMailboxGen)]
        BY <1>3, <2>3 DEF TypeOK
      <3>2. pc' \in [Requests -> PCs]
        BY <1>3 DEF TypeOK, PCs
      <3> QED BY <1>1, <3>1, <3>2 DEF TypeOK
    <2>5. Matches(OkKey(form[r]), sample'[r], View(r))
      BY <2>3 DEF Matches, InputsFor, OkKey, InputsOf, NoInputs
    <2>6. SampleMatches(r)'
      BY <1>1, <1>2, <2>2, <2>3, <2>5 DEF RequestInv, SampleMatches, Matches
    <2>7. Saving(r)' /\ CompletionIsReady(r)'
      BY <1>1, <1>2, <2>2 DEF RequestInv, Saving, CompletionIsReady
    <2> QED BY <1>1, <2>2, <2>4, <2>6, <2>7, LocalKeeps
  <1>4. CASE Goto(r, "commit") /\ Forget(r)
    BY <1>1, <1>4, ForgetKeeps
  <1> QED BY <1>3, <1>4 DEF ReadInputs, Goto

LEMMA RecheckKeeps ==
    ASSUME VerdictInv, NEW r \in Requests, Recheck(r)
    PROVE  VerdictInv'
  <1> USE DEF VerdictInv
  <1>1. pc[r] = "recheck" /\ UNCHANGED <<db, tx, form, fields, changed, latched, resets>>
    BY DEF Recheck
  <1>2. CASE pc' = [pc EXCEPT ![r] = "pass"] /\ UNCHANGED sample
    <2>1. pc'[r] = "pass" /\ \A q \in Requests \ {r} : Same(q)
      BY <1>1, <1>2 DEF TypeOK, Same
    <2>2. View(r)' = View(r)
      BY <1>1 DEF View
    <2>3. TypeOK'
      BY <1>1, <1>2 DEF TypeOK, PCs
    <2>4. Saving(r)' /\ CompletionIsReady(r)'
      BY <1>1, <2>1, <2>2 DEF RequestInv, Saving, CompletionIsReady
    <2>5. SampleMatches(r)'
      BY <1>1, <1>2, <2>1, <2>2 DEF RequestInv, SampleMatches
    <2> QED BY <1>1, <2>1, <2>3, <2>4, <2>5, LocalKeeps
  <1>3. CASE Goto(r, "fail") /\ Forget(r)
    BY <1>1, <1>3, ForgetKeeps
  <1>4. CASE Goto(r, "commit") /\ Forget(r)
    BY <1>1, <1>4, ForgetKeeps
  <1> QED BY <1>2, <1>3, <1>4 DEF Recheck, Goto

-----------------------------------------------------------------------------
(* Writes. *)

PutOf(r, writes, next) ==
    /\ DOMAIN writes \subseteq Keys /\ \A k \in DOMAIN writes : writes[k] \in ValuesOf(k)
    /\ Put(r, writes) /\ Goto(r, next) /\ next \in {"act", "commit", "bump"}
    /\ UNCHANGED <<db, form, latched, resets>>
    /\ fields' \in [Requests -> Inputs] /\ changed' \in [Requests -> BOOLEAN]
    /\ sample' \in [Requests -> Verdicts(MaxGraphGen) \cup Verdicts(MaxMailboxGen)]
    /\ \A q \in Requests \ {r} :
         fields'[q] = fields[q] /\ changed'[q] = changed[q] /\ sample'[q] = sample[q]

LEMMA PutKeeps ==
    ASSUME VerdictInv, NEW r \in Requests, NEW writes, NEW next, PutOf(r, writes, next),
           EditsBump(r)', ViewIsEarned(r)', CompletionIsReady(r)', next = "bump" => Saving(r)'
    PROVE  VerdictInv'
  <1> USE DEF PutOf
  <1>1. /\ DOMAIN tx' = Requests /\ LocksApart'
        /\ \A q \in Requests :
             /\ DOMAIN tx'[q] \subseteq Keys
             /\ \A k \in DOMAIN tx'[q] : tx'[q][k] \in ValuesOf(k)
             /\ q # r => tx'[q] = tx[q]
    BY PutFacts DEF VerdictInv
  <1>2. pc' = [pc EXCEPT ![r] = next] /\ pc \in [Requests -> PCs]
    BY DEF Goto, VerdictInv, TypeOK
  <1>3. pc'[r] = next /\ \A q \in Requests \ {r} : Same(q)
    BY <1>1, <1>2 DEF Same
  <1>4. TypeOK'
    <2>1. pc' \in [Requests -> PCs]
      BY <1>2 DEF PCs
    <2> QED BY <1>1, <2>1 DEF VerdictInv, TypeOK
  <1>5. Saving(r)' /\ SampleMatches(r)'
    BY <1>3 DEF Saving, SampleMatches
  <1> QED BY <1>1, <1>3, <1>4, <1>5, StepKeeps DEF RequestInv

\* The settings that no verdict depends on.
Quiet == {"admin", "mode", "step", "complete"}

LEMMA QuietKeeps ==
    ASSUME VerdictInv, NEW r \in Requests, NEW writes, NEW next, PutOf(r, writes, next),
           DOMAIN writes \subseteq Quiet, next # "bump", pc[r] \in {"save", "act", "finish"},
           "complete" \in DOMAIN writes =>
             pc[r] = "finish" /\ next = "commit" /\ "admin" \notin DOMAIN writes
    PROVE  VerdictInv'
  <1>1. /\ \A k \in Keys : View(r)'[k] = IF k \in DOMAIN writes THEN writes[k] ELSE View(r)[k]
        /\ DOMAIN tx'[r] = DOMAIN tx[r] \cup Touches(View(r), writes)
        /\ \A k \in DOMAIN tx[r] \ DOMAIN writes : tx'[r][k] = tx[r][k]
    BY PutFacts DEF PutOf, VerdictInv
  <1>2. pc'[r] = next /\ UNCHANGED db
    BY DEF PutOf, Goto, VerdictInv, TypeOK
  <1>3. Touches(View(r), writes) \subseteq DOMAIN writes
    BY DEF Touches
  <1>4. \A k \in Keys \ Quiet : View(r)'[k] = View(r)[k]
    BY <1>1
  <1>5. \A k \in Keys \ Quiet :
          k \in DOMAIN tx'[r] <=> k \in DOMAIN tx[r]
    BY <1>1, <1>3
  <1>6. \A o \in Checks : /\ o \in Keys \ Quiet /\ GenOf(o) \in Keys \ Quiet
                          /\ InputsFor(o) \subseteq Keys \ Quiet
    BY KeysAre DEF Checks, GenOf, InputsFor, Quiet
  <1>7. {"app", "secret", "graphGen", "mailboxGen", "graphOk", "mailboxOk"} \subseteq Keys \ Quiet
    BY KeysAre DEF Quiet
  <1>8. EditsBump(r)'
    <2>1. EditsBump(r) /\ pc[r] # "bump"
      BY DEF VerdictInv, RequestInv
    <2> QED BY <1>1, <1>2, <1>5, <1>6, <2>1 DEF EditsBump
  <1>9. HasCredentials(View(r))' <=> HasCredentials(View(r))
    BY <1>4, <1>7 DEF HasCredentials
  <1>10. ViewIsEarned(r)'
    <2>1. ViewIsEarned(r) /\ pc[r] # "bump"
      BY DEF VerdictInv, RequestInv
    <2> QED BY <1>4, <1>6, <1>9, <2>1 DEF ViewIsEarned, Stamped, Earned, Matches
  <1>11. CompletionIsReady(r)'
    <2>1. CompletionIsReady(r)
      BY DEF VerdictInv, RequestInv
    <2>2. CASE "complete" \in DOMAIN writes
      <3>1. View(r)'["admin"] = View(r)["admin"]
        BY <1>1, <2>2, KeysAre
      <3>2. GraphPassed(View(r))' <=> GraphPassed(View(r))
        BY <1>4, <1>7 DEF GraphPassed
      <3>3. MailboxPassed(View(r))' <=> MailboxPassed(View(r))
        BY <1>4, <1>7 DEF MailboxPassed
      <3> QED BY <1>2, <1>9, <2>1, <2>2, <3>1, <3>2, <3>3 DEF CompletionIsReady, Ready
    <2>3. CASE "complete" \notin DOMAIN writes
      <3>1. next # "finish"
        BY DEF PutOf
      <3>2. "complete" \notin DOMAIN tx[r]
        BY <2>1 DEF CompletionIsReady
      <3>3. "complete" \notin DOMAIN tx'[r]
        BY <1>1, <1>3, <2>3, <3>2
      <3> QED BY <1>2, <3>1, <3>3 DEF CompletionIsReady
    <2> QED BY <2>2, <2>3
  <1> QED BY <1>8, <1>10, <1>11, PutKeeps

LEMMA FormStep ==
    ASSUME TypeOK, NEW r \in Requests
    PROVE  form[r].step \in 0 .. 5
  <1>1. \A f \in Forms \cup {NoForm} : f.step \in 0 .. 5
    BY FormFacts DEF NoForm
  <1> QED BY <1>1 DEF TypeOK

LEMMA SaveKeeps ==
    ASSUME VerdictInv, NEW r \in Requests, SaveAccount(r) \/ SaveScoping(r)
    PROVE  VerdictInv'
  <1>1. CASE SaveAccount(r)
    <2> DEFINE writes == [admin |-> TRUE]
    <2>1. pc[r] = "save" /\ Put(r, writes) /\ DOMAIN writes = {"admin"} /\ writes["admin"] = TRUE
      BY <1>1 DEF SaveAccount
    <2> HIDE DEF writes
    <2>2. PutOf(r, writes, "act")
      BY <1>1, <2>1, KeysAre, ValueFacts DEF SaveAccount, PutOf, VerdictInv, TypeOK
    <2> QED BY <2>1, <2>2, QuietKeeps DEF Quiet
  <1>2. CASE SaveScoping(r)
    <2> DEFINE writes == [mode |-> fields[r].mode]
    <2>1. pc[r] = "save" /\ DOMAIN writes = {"mode"} /\ writes["mode"] = fields[r].mode
      BY <1>2 DEF SaveScoping
    <2>2. fields[r].mode \in Modes
      BY DEF VerdictInv, TypeOK, Inputs
    <2>3. fields' \in [Requests -> Inputs] /\ \A q \in Requests \ {r} : fields'[q] = fields[q]
      BY <1>2, NoVerdictFacts DEF SaveScoping, VerdictInv, TypeOK
    <2>4. Put(r, writes)
      BY <1>2 DEF SaveScoping
    <2> HIDE DEF writes
    <2>5. PutOf(r, writes, "act")
      BY <1>2, <2>1, <2>2, <2>3, <2>4, KeysAre, ValueFacts DEF SaveScoping, PutOf, VerdictInv, TypeOK
    <2> QED BY <2>1, <2>5, QuietKeeps DEF Quiet
  <1> QED BY <1>1, <1>2

LEMMA MoveKeeps ==
    ASSUME VerdictInv, NEW r \in Requests, Back(r) \/ Advance(r)
    PROVE  VerdictInv'
  <1>0. form[r].step \in 0 .. 5 /\ form[r] \in Forms \cup {NoForm}
    BY FormStep DEF VerdictInv, TypeOK
  <1>1. ASSUME NEW n \in Steps, Put(r, [step |-> n]), Goto(r, "commit"), pc[r] = "act",
               UNCHANGED <<db, form, fields, changed, sample, latched, resets>>
        PROVE  VerdictInv'
    <2>1. PutOf(r, [step |-> n], "commit")
      BY <1>1, KeysAre, ValueFacts DEF PutOf, VerdictInv, TypeOK
    <2>2. DOMAIN [step |-> n] = {"step"}
      OBVIOUS
    <2> QED BY <1>1, <2>1, <2>2, QuietKeeps DEF Quiet
  <1>2. CASE Back(r)
    <2>1. form[r].step - 1 \in Steps
      BY <1>0, <1>2 DEF Back, Acting, Forms, NoForm, Steps
    <2> QED BY <1>1, <1>2, <2>1 DEF Back, Acting
  <1>3. CASE Advance(r)
    <2>1. form[r].step + 1 \in Steps
      BY <1>0, <1>3 DEF Advance, Steps
    <2>2. CASE CanAdvance(form[r].step, View(r))
      BY <1>1, <1>3, <2>1, <2>2 DEF Advance, Acting
    <2>3. CASE ~CanAdvance(form[r].step, View(r))
      BY <1>3, <2>3, GoKeeps DEF Advance, Acting
    <2> QED BY <2>2, <2>3
  <1> QED BY <1>2, <1>3

LEMMA FinishKeeps ==
    ASSUME VerdictInv, NEW r \in Requests, Finish(r)
    PROVE  VerdictInv'
  <1> DEFINE writes == [complete |-> TRUE, step |-> 5]
  <1>1. /\ pc[r] = "finish" /\ Put(r, writes) /\ Goto(r, "commit")
        /\ UNCHANGED <<db, form, fields, changed, sample, latched, resets>>
    BY DEF Finish
  <1>2. DOMAIN writes = {"complete", "step"} /\ writes["complete"] \in BOOLEAN
        /\ writes["step"] \in Steps
    BY DEF Steps
  <1> HIDE DEF writes
  <1>3. PutOf(r, writes, "commit")
    BY <1>1, <1>2, KeysAre, ValueFacts DEF PutOf, VerdictInv, TypeOK
  <1> QED BY <1>1, <1>2, <1>3, QuietKeeps DEF Quiet

LEMMA RecordKeeps ==
    ASSUME VerdictInv, NEW r \in Requests, NEW o \in Checks, NEW verdict \in ValuesOf(o),
           NEW writes, DOMAIN writes = {o}, writes[o] = verdict, PutOf(r, writes, "commit"),
           pc[r] \in {"pass", "fail"}, verdict.gen <= View(r)[GenOf(o)],
           HasCredentials(View(r)) /\ verdict.gen = View(r)[GenOf(o)]
             => Matches(o, verdict, View(r))
    PROVE  VerdictInv'
  <1>1. /\ \A k \in Keys : View(r)'[k] = IF k = o THEN verdict ELSE View(r)[k]
        /\ DOMAIN tx'[r] = DOMAIN tx[r] \cup Touches(View(r), writes)
        /\ \A k \in DOMAIN tx[r] \ {o} : tx'[r][k] = tx[r][k]
    BY PutFacts DEF PutOf, VerdictInv
  <1>2. pc'[r] = "commit" /\ UNCHANGED db
    BY DEF PutOf, Goto, VerdictInv, TypeOK
  <1>3. Touches(View(r), writes) \subseteq {o}
    BY DEF Touches
  <1>4. \A c \in Checks : /\ c \in Keys /\ GenOf(c) \in Keys \ {o}
                          /\ InputsFor(c) \subseteq Keys \ {o}
                          /\ {"app", "secret"} \subseteq InputsFor(c)
    BY KeysAre DEF Checks, GenOf, InputsFor
  <1>5. EditsBump(r)'
    <2>1. EditsBump(r) /\ pc[r] # "bump"
      BY DEF VerdictInv, RequestInv
    <2> QED BY <1>1, <1>2, <1>3, <1>4, <2>1 DEF EditsBump
  <1>6. HasCredentials(View(r))' <=> HasCredentials(View(r))
    BY <1>1, <1>4 DEF HasCredentials
  <1>7. ViewIsEarned(r)'
    <2> SUFFICES ASSUME NEW c \in Checks
                 PROVE  Stamped(c, View(r))' /\ Earned(c, View(r))'
      BY DEF ViewIsEarned
    <2>1. View(r)'[GenOf(c)] = View(r)[GenOf(c)] /\ \A k \in InputsFor(c) : View(r)'[k] = View(r)[k]
      BY <1>1, <1>4
    <2>2. CASE c = o
      <3>1. View(r)'[c] = verdict
        BY <1>1, <1>4, <2>2
      <3> QED BY <1>6, <2>1, <2>2, <3>1 DEF Stamped, Earned, Matches
    <2>3. CASE c # o
      <3>1. View(r)'[c] = View(r)[c]
        BY <1>1, <1>4, <2>3
      <3>2. Stamped(c, View(r)) /\ Earned(c, View(r))
        BY DEF VerdictInv, RequestInv, ViewIsEarned
      <3> QED BY <1>6, <2>1, <3>1, <3>2 DEF Stamped, Earned, Matches
    <2> QED BY <2>2, <2>3
  <1>8. CompletionIsReady(r)'
    <2>1. "complete" \notin DOMAIN tx[r] /\ o # "complete"
      BY DEF VerdictInv, RequestInv, CompletionIsReady, Checks
    <2> QED BY <1>1, <1>2, <1>3, <2>1 DEF CompletionIsReady
  <1> QED BY <1>5, <1>7, <1>8, PutKeeps

LEMMA RecordPassKeeps ==
    ASSUME VerdictInv, NEW r \in Requests, RecordPass(r)
    PROVE  VerdictInv'
  <1> DEFINE o == OkKey(form[r])
             writes == Only({o}, sample[r])
  <1>1. /\ pc[r] = "pass" /\ Put(r, writes) /\ Goto(r, "commit") /\ Forget(r)
        /\ UNCHANGED <<db, form, fields, changed, latched, resets>>
    BY DEF RecordPass, Stamp
  <1>2. DOMAIN writes = {o} /\ writes[o] = sample[r]
    BY DEF Only
  <1> HIDE DEF writes
  <1>3. o \in Checks
    BY OkFacts
  <1>4. /\ sample[r].gen <= View(r)[GenOf(o)]
        /\ HasCredentials(View(r)) /\ sample[r].gen = View(r)[GenOf(o)]
             => Matches(o, sample[r], View(r))
    BY <1>1 DEF VerdictInv, RequestInv, SampleMatches
  <1>5. sample[r] \in ValuesOf(o)
    <2>1. View(r)[GenOf(o)] \in ValuesOf(GenOf(o))
      BY <1>3, CheckFacts, ViewType DEF VerdictInv
    <2>2. sample[r] \in Verdicts(MaxGraphGen) \cup Verdicts(MaxMailboxGen)
      BY DEF VerdictInv, TypeOK
    <2> HIDE DEF o
    <2>3. CASE o = "graphOk"
      <3>1. View(r)["graphGen"] \in 0 .. MaxGraphGen /\ sample[r].gen <= View(r)["graphGen"]
        BY <1>4, <2>1, <2>3, ValueFacts DEF GenOf
      <3>2. sample[r] \in Verdicts(MaxGraphGen)
        BY <2>2, <3>1, BoundAssumption DEF Verdicts
      <3> QED BY <2>3, <3>2, ValueFacts
    <2>4. CASE o = "mailboxOk"
      <3>1. View(r)["mailboxGen"] \in 0 .. MaxMailboxGen /\ sample[r].gen <= View(r)["mailboxGen"]
        BY <1>4, <2>1, <2>4, ValueFacts DEF GenOf
      <3>2. sample[r] \in Verdicts(MaxMailboxGen)
        BY <2>2, <3>1, BoundAssumption DEF Verdicts
      <3> QED BY <2>4, <3>2, ValueFacts
    <2> QED BY <1>3, <2>3, <2>4 DEF Checks
  <1>6. PutOf(r, writes, "commit")
    <2>1. NoVerdict \in Verdicts(MaxGraphGen)
      BY NoVerdictFacts, BoundAssumption
    <2>2. /\ sample' \in [Requests -> Verdicts(MaxGraphGen) \cup Verdicts(MaxMailboxGen)]
          /\ \A q \in Requests \ {r} : sample'[q] = sample[q]
      BY <1>1, <2>1 DEF Forget, VerdictInv, TypeOK
    <2> HIDE DEF o
    <2> QED BY <1>1, <1>2, <1>3, <1>5, <2>2, CheckFacts DEF PutOf, VerdictInv, TypeOK
  <1> HIDE DEF o
  <1> QED BY <1>1, <1>2, <1>3, <1>4, <1>5, <1>6, RecordKeeps

LEMMA RecordFailKeeps ==
    ASSUME VerdictInv, NEW r \in Requests, RecordFail(r)
    PROVE  VerdictInv'
  <1> DEFINE o == OkKey(form[r])
             writes == Only({o}, NoVerdict)
  <1>1. /\ pc[r] = "fail" /\ Put(r, writes) /\ Goto(r, "commit")
        /\ UNCHANGED <<db, form, fields, changed, sample, latched, resets>>
    BY DEF RecordFail
  <1>2. DOMAIN writes = {o} /\ writes[o] = NoVerdict
    BY DEF Only
  <1>3. o \in Checks
    BY OkFacts
  <1> HIDE DEF writes, o
  <1>4. NoVerdict \in ValuesOf(o) /\ NoVerdict.gen = -1
    BY <1>3, NoVerdictFacts, ValueFacts, BoundAssumption DEF Checks
  <1>5. NoVerdict.gen < View(r)[GenOf(o)]
    BY <1>3, <1>4, ViewNumbers DEF VerdictInv
  <1>6. PutOf(r, writes, "commit")
    BY <1>1, <1>2, <1>3, <1>4, CheckFacts DEF PutOf, VerdictInv, TypeOK
  <1>7. View(r)[GenOf(o)] \in Nat
    BY <1>3, ViewNumbers DEF VerdictInv
  <1>8. NoVerdict.gen <= View(r)[GenOf(o)] /\ NoVerdict.gen # View(r)[GenOf(o)]
    BY <1>4, <1>7
  <1> QED BY <1>1, <1>2, <1>3, <1>4, <1>6, <1>8, RecordKeeps

LEMMA WrittenFacts ==
    ASSUME NEW input \in Inputs, NEW step \in {3, 4}
    PROVE  /\ DOMAIN Written(step, input) \subseteq IF step = 3 THEN {"app", "secret"} ELSE {"mailbox"}
           /\ \A k \in DOMAIN Written(step, input) : Written(step, input)[k] = input[k]
           /\ "secret" \in DOMAIN Written(step, input) => input.secret # Nothing
  <1>1. CASE step = 4
    BY <1>1 DEF Written
  <1>2. CASE step = 3 /\ input.secret = Nothing
    BY <1>2 DEF Written
  <1>3. CASE step = 3 /\ input.secret # Nothing
    BY <1>3 DEF Written
  <1> QED BY <1>1, <1>2, <1>3

\* What changes an input is an edit; what is no edit writes nothing.
LEMMA WriteInputsKeeps ==
    ASSUME VerdictInv, NEW r \in Requests, WriteInputs(r)
    PROVE  VerdictInv'
  <1> DEFINE step == form[r].step
             writes == Written(step, fields[r])
             next == IF changed[r] THEN "bump" ELSE "act"
  <1>1. /\ pc[r] = "write" /\ Put(r, writes) /\ Goto(r, next)
        /\ fields' = [fields EXCEPT ![r] = NoInputs] /\ changed' = [changed EXCEPT ![r] = FALSE]
        /\ UNCHANGED <<db, form, sample, latched, resets>>
    BY DEF WriteInputs
  <1>2. /\ step \in {3, 4} /\ DOMAIN tx[r] = {}
        /\ changed[r] = Edits(step, fields[r], View(r))
    BY <1>1 DEF VerdictInv, RequestInv, Saving
  <1>3. fields[r] \in Inputs /\ changed[r] \in BOOLEAN
    BY DEF VerdictInv, TypeOK
  <1>4. /\ DOMAIN writes \subseteq IF step = 3 THEN {"app", "secret"} ELSE {"mailbox"}
        /\ \A k \in DOMAIN writes : writes[k] = fields[r][k]
        /\ "secret" \in DOMAIN writes => fields[r].secret # Nothing
    BY <1>2, <1>3, WrittenFacts
  <1> HIDE DEF writes
  <1>5. DOMAIN writes \subseteq Keys /\ \A k \in DOMAIN writes : writes[k] \in ValuesOf(k)
    <2>1. /\ fields[r]["app"] \in Apps \cup {Nothing} /\ fields[r]["secret"] \in Secrets \cup {Nothing}
          /\ fields[r]["mailbox"] \in Mailboxes \cup {Nothing}
      BY <1>3 DEF Inputs
    <2> QED BY <1>2, <1>4, <2>1, KeysAre, ValueFacts
  <1>6. PutOf(r, writes, next)
    <2>1. fields' \in [Requests -> Inputs] /\ \A q \in Requests \ {r} : fields'[q] = fields[q]
      BY <1>1, NoVerdictFacts DEF VerdictInv, TypeOK
    <2>2. changed' \in [Requests -> BOOLEAN] /\ \A q \in Requests \ {r} : changed'[q] = changed[q]
      BY <1>1 DEF VerdictInv, TypeOK
    <2> QED BY <1>1, <1>5, <2>1, <2>2 DEF PutOf, VerdictInv, TypeOK
  <1>7. /\ \A k \in Keys : View(r)'[k] = IF k \in DOMAIN writes THEN writes[k] ELSE View(r)[k]
        /\ DOMAIN tx'[r] = Touches(View(r), writes)
    <2>1. TypeOK /\ LocksApart
      BY DEF VerdictInv
    <2>2. /\ \A k \in Keys : View(r)'[k] = IF k \in DOMAIN writes THEN writes[k] ELSE View(r)[k]
          /\ DOMAIN tx'[r] = DOMAIN tx[r] \cup Touches(View(r), writes)
      BY <1>1, <1>5, <2>1, PutFacts
    <2> QED BY <1>2, <2>2
  <1>8. pc'[r] = next /\ UNCHANGED <<db, form>>
    BY <1>1 DEF Goto, VerdictInv, TypeOK
  <1>9. Touches(View(r), writes) \subseteq DOMAIN writes
    BY DEF Touches
  <1>10. CompletionIsReady(r)'
    BY <1>2, <1>4, <1>7, <1>8, <1>9 DEF CompletionIsReady
  <1>11. \A o \in Checks : /\ o \in Keys \ DOMAIN writes /\ GenOf(o) \in Keys \ DOMAIN writes
                           /\ InputsFor(o) \subseteq Keys
                           /\ {"app", "secret"} \subseteq InputsFor(o)
    BY <1>2, <1>4, KeysAre DEF Checks, GenOf, InputsFor
  <1>12. ViewIsEarned(r) /\ pc[r] # "bump"
    BY <1>1 DEF VerdictInv, RequestInv
  <1>13. CASE changed[r]
    <2>1. EditsBump(r)'
      BY <1>7, <1>8, <1>9, <1>11, <1>13 DEF EditsBump
    <2>2. ViewIsEarned(r)'
      BY <1>7, <1>8, <1>11, <1>12, <1>13 DEF ViewIsEarned, Stamped
    <2>3. Saving(r)'
      BY <1>2, <1>4, <1>7, <1>8, <1>9, <1>13 DEF Saving
    <2> QED BY <1>6, <1>10, <2>1, <2>2, <2>3, PutKeeps
  <1>14. CASE ~changed[r]
    <2>1. \A k \in DOMAIN writes : writes[k] = View(r)[k] /\ k # "secret"
      BY <1>2, <1>3, <1>4, <1>14 DEF Edits
    <2>2. DOMAIN tx'[r] = {}
      BY <1>2, <1>4, <1>7, <2>1 DEF Touches
    <2>3. \A k \in Keys : View(r)'[k] = View(r)[k]
      BY <1>7, <2>1
    <2>4. EditsBump(r)'
      BY <2>2 DEF EditsBump
    <2>5. HasCredentials(View(r))' <=> HasCredentials(View(r))
      BY <2>3, KeysAre DEF HasCredentials
    <2>6. ViewIsEarned(r)'
      BY <1>11, <1>12, <2>3, <2>5 DEF ViewIsEarned, Stamped, Earned, Matches
    <2> QED BY <1>6, <1>10, <1>14, <2>4, <2>6, PutKeeps
  <1> QED BY <1>3, <1>13, <1>14

\* A verdict recorded so far is stamped below the new generation.
LEMMA BumpKeeps ==
    ASSUME VerdictInv, NEW r \in Requests, Bump(r)
    PROVE  VerdictInv'
  <1> DEFINE keys == Bumped(form[r])
             writes == [k \in keys |-> db[k] + 1]
  <1>1. /\ pc[r] = "bump" /\ Put(r, writes) /\ Goto(r, "act")
        /\ \A k \in keys : db[k] < MaxOf(k)
        /\ UNCHANGED <<db, form, fields, changed, sample, latched, resets>>
    BY DEF Bump
  <1>2. /\ form[r].step \in {3, 4}
        /\ DOMAIN tx[r] \subseteq IF form[r].step = 3 THEN {"app", "secret"} ELSE {"mailbox"}
    BY <1>1 DEF VerdictInv, RequestInv, Saving
  <1>3. keys = IF form[r].step = 3 THEN {"graphGen", "mailboxGen"} ELSE {"mailboxGen"}
    BY DEF Bumped
  <1>4. DOMAIN writes = keys /\ \A k \in keys : writes[k] = db[k] + 1
    OBVIOUS
  <1> HIDE DEF writes, keys
  <1>5. \A k \in keys : db[k] \in Nat /\ db[k] + 1 \in ValuesOf(k) /\ k \in Keys /\ View(r)[k] = db[k]
    <2>1. ASSUME NEW k \in keys
          PROVE  db[k] \in Nat /\ db[k] + 1 \in ValuesOf(k) /\ k \in Keys
      <3>1. k \in {"graphGen", "mailboxGen"} /\ k \in Keys
        BY <1>3, KeysAre
      <3>2. db[k] \in 0 .. MaxOf(k) /\ ValuesOf(k) = 0 .. MaxOf(k) /\ MaxOf(k) \in Nat
        BY <3>1, ValueFacts, BoundAssumption DEF VerdictInv, TypeOK, MaxOf
      <3> QED BY <1>1, <3>1, <3>2
    <2>2. \A k \in keys : k \notin DOMAIN tx[r]
      BY <1>2, <1>3
    <2> QED BY <2>1, <2>2 DEF View
  <1>6. PutOf(r, writes, "act")
    BY <1>1, <1>4, <1>5 DEF PutOf, VerdictInv, TypeOK
  <1>7. /\ \A k \in Keys : View(r)'[k] = IF k \in keys THEN db[k] + 1 ELSE View(r)[k]
        /\ DOMAIN tx'[r] = DOMAIN tx[r] \cup Touches(View(r), writes)
        /\ \A k \in Touches(View(r), writes) : tx'[r][k] = writes[k]
    BY <1>4, <1>6, PutFacts DEF PutOf, VerdictInv
  <1>8. Touches(View(r), writes) = keys
    BY <1>4, <1>5 DEF Touches
  <1>9. pc'[r] = "act" /\ UNCHANGED db
    BY <1>1 DEF Goto, VerdictInv, TypeOK
  <1>10. CompletionIsReady(r)'
    BY <1>2, <1>3, <1>7, <1>8, <1>9 DEF CompletionIsReady
  <1>11. EditsBump(r)'
    BY <1>2, <1>3, <1>4, <1>7, <1>8, <1>9 DEF EditsBump, Checks, GenOf, InputsFor
  <1>12. ViewIsEarned(r)'
    <2> SUFFICES ASSUME NEW o \in Checks
                 PROVE  Stamped(o, View(r))' /\ Earned(o, View(r))'
      BY DEF ViewIsEarned
    <2>1. o \in Keys /\ o \notin keys /\ o \notin DOMAIN tx[r]
      BY <1>2, <1>3, KeysAre DEF Checks
    <2>2. View(r)'[o] = db[o]
      BY <1>7, <2>1 DEF View
    <2>3. Stamped(o, db) /\ Earned(o, db)
      BY DEF VerdictInv, StoreInv
    <2>4. CASE GenOf(o) \in keys
      <3>1. View(r)'[GenOf(o)] = db[GenOf(o)] + 1 /\ db[GenOf(o)] \in Nat
        BY <1>5, <1>7, <2>4
      <3>2. db[o].gen \in Int /\ db[o].gen <= db[GenOf(o)]
        BY <2>3, ViewNumbers DEF VerdictInv, Stamped
      <3> QED BY <2>2, <3>1, <3>2 DEF Stamped, Earned
    <2>5. CASE GenOf(o) \notin keys
      <3>1. o = "graphOk" /\ form[r].step = 4
        BY <1>2, <1>3, <2>5 DEF Checks, GenOf
      <3>2. {"app", "secret", "graphGen"} \subseteq Keys \ keys
        BY <1>3, <3>1, KeysAre
      <3>3. \A k \in {"app", "secret", "graphGen"} : View(r)'[k] = db[k]
        BY <1>2, <1>7, <3>1, <3>2 DEF View
      <3>4. HasCredentials(View(r))' <=> HasCredentials(db)
        BY <3>3 DEF HasCredentials
      <3> QED BY <2>2, <2>3, <3>1, <3>3, <3>4 DEF Stamped, Earned, Matches, InputsFor, GenOf
    <2> QED BY <2>4, <2>5
  <1> QED BY <1>6, <1>10, <1>11, <1>12, PutKeeps

-----------------------------------------------------------------------------
(* Commits and the ends of requests. *)

\* A request that ended sees what is committed.
LEMMA EndedInv ==
    ASSUME TypeOK', StoreInv', NEW r \in Requests, tx'[r] = <<>>, pc'[r] = "idle"
    PROVE  RequestInv(r)'
  <1>1. DOMAIN tx'[r] = {}
    OBVIOUS
  <1>2. \A k \in Keys : View(r)'[k] = db'[k]
    BY <1>1 DEF View
  <1>3. EditsBump(r)' /\ Saving(r)' /\ SampleMatches(r)' /\ CompletionIsReady(r)'
    BY <1>1 DEF EditsBump, Saving, SampleMatches, CompletionIsReady
  <1>4. HasCredentials(View(r))' <=> HasCredentials(db)'
    BY <1>2, KeysAre DEF HasCredentials
  <1>5. ViewIsEarned(r)'
    <2> SUFFICES ASSUME NEW o \in Checks
                 PROVE  Stamped(o, View(r))' /\ Earned(o, View(r))'
      BY DEF ViewIsEarned
    <2>1. o \in Keys /\ GenOf(o) \in Keys /\ InputsFor(o) \subseteq Keys
      BY CheckFacts
    <2>2. Stamped(o, db)' /\ Earned(o, db)'
      BY DEF StoreInv
    <2> QED BY <1>2, <1>4, <2>1, <2>2 DEF Stamped, Earned, Matches
  <1> QED BY <1>3, <1>5 DEF RequestInv

LEMMA EndFacts ==
    ASSUME VerdictInv, NEW r \in Requests, End(r), UNCHANGED <<latched, resets>>,
           DOMAIN db' = Keys, \A k \in Keys : db'[k] \in ValuesOf(k)
    PROVE  /\ TypeOK' /\ LocksApart'
           /\ tx'[r] = <<>> /\ pc'[r] = "idle"
           /\ \A q \in Requests \ {r} : Same(q)
  <1>1. /\ tx' = [tx EXCEPT ![r] = <<>>] /\ pc' = [pc EXCEPT ![r] = "idle"]
        /\ form' = [form EXCEPT ![r] = NoForm] /\ fields' = [fields EXCEPT ![r] = NoInputs]
        /\ changed' = [changed EXCEPT ![r] = FALSE] /\ sample' = [sample EXCEPT ![r] = NoVerdict]
    BY DEF End
  <1>2. TypeOK /\ LocksApart
    BY DEF VerdictInv
  <1>3. /\ DOMAIN tx' = Requests /\ tx'[r] = <<>> /\ pc'[r] = "idle"
        /\ \A q \in Requests \ {r} : Same(q)
    BY <1>1, <1>2 DEF TypeOK, Same
  <1>4. DOMAIN tx'[r] = {}
    BY <1>3
  <1>5. \A q \in Requests : /\ DOMAIN tx'[q] \subseteq Keys
                            /\ \A k \in DOMAIN tx'[q] : tx'[q][k] \in ValuesOf(k)
    BY <1>2, <1>3, <1>4 DEF Same, TypeOK
  <1>6. LocksApart'
    BY <1>2, <1>3, <1>4 DEF LocksApart, Same
  <1>7. /\ pc' \in [Requests -> PCs] /\ form' \in [Requests -> Forms \cup {NoForm}]
        /\ changed' \in [Requests -> BOOLEAN]
    BY <1>1, <1>2 DEF TypeOK, PCs
  <1>8. fields' \in [Requests -> Inputs]
    BY <1>1, <1>2, NoVerdictFacts DEF TypeOK
  <1>9. sample' \in [Requests -> Verdicts(MaxGraphGen) \cup Verdicts(MaxMailboxGen)]
    <2>1. NoVerdict \in Verdicts(MaxGraphGen)
      BY NoVerdictFacts, BoundAssumption
    <2> QED BY <1>1, <1>2, <2>1 DEF TypeOK
  <1>10. TypeOK'
    BY <1>2, <1>3, <1>5, <1>7, <1>8, <1>9 DEF TypeOK
  <1> QED BY <1>3, <1>6, <1>10

LEMMA FailKeeps ==
    ASSUME VerdictInv, NEW r \in Requests, Fail(r)
    PROVE  VerdictInv'
  <1>1. End(r) /\ UNCHANGED <<db, latched, resets>>
    BY DEF Fail
  <1>2. /\ TypeOK' /\ LocksApart' /\ tx'[r] = <<>> /\ pc'[r] = "idle"
        /\ \A q \in Requests \ {r} : Same(q)
    BY <1>1, EndFacts DEF VerdictInv, TypeOK
  <1>3. StoreInv'
    BY <1>1 DEF VerdictInv, StoreInv, Stamped, Earned, Matches, HasCredentials
  <1>4. RequestInv(r)'
    BY <1>2, <1>3, EndedInv
  <1> QED BY <1>1, <1>2, <1>4, StepKeeps

LEMMA RestartKeeps ==
    ASSUME VerdictInv, Restart
    PROVE  VerdictInv'
  <1>1. /\ latched' = FALSE /\ UNCHANGED <<db, resets>>
        /\ tx' = [r \in Requests |-> <<>>] /\ pc' = [r \in Requests |-> "idle"]
        /\ form' = [r \in Requests |-> NoForm] /\ fields' = [r \in Requests |-> NoInputs]
        /\ changed' = [r \in Requests |-> FALSE] /\ sample' = [r \in Requests |-> NoVerdict]
    BY DEF Restart
  <1>2. \A r \in Requests : tx'[r] = <<>> /\ pc'[r] = "idle" /\ DOMAIN tx'[r] = {}
    BY <1>1
  <1>3. TypeOK'
    <2>1. NoVerdict \in Verdicts(MaxGraphGen) /\ NoInputs \in Inputs
      BY NoVerdictFacts, BoundAssumption
    <2>2. sample' \in [Requests -> Verdicts(MaxGraphGen) \cup Verdicts(MaxMailboxGen)]
      BY <1>1, <2>1
    <2> QED BY <1>1, <1>2, <2>1, <2>2 DEF VerdictInv, TypeOK, PCs
  <1>4. StoreInv'
    BY <1>1 DEF VerdictInv, StoreInv, Stamped, Earned, Matches, HasCredentials
  <1>5. LocksApart'
    BY <1>2 DEF LocksApart
  <1> QED BY <1>2, <1>3, <1>4, <1>5, EndedInv DEF VerdictInv

\* What another request sees of a commit: a counter never falls, and while it does not
\* move the inputs stay.
LEMMA CommitSeen ==
    ASSUME VerdictInv, NEW q \in Requests, NEW r \in Requests, q # r, pc[q] = "commit",
           db' = View(q), tx'[r] = tx[r], NEW o \in Checks
    PROVE  /\ View(r)[GenOf(o)] <= View(r)'[GenOf(o)] /\ View(r)'[GenOf(o)] \in Nat
           /\ View(r)'[GenOf(o)] = View(r)[GenOf(o)]
                => \A k \in InputsFor(o) : View(r)'[k] = View(r)[k]
  <1> DEFINE g == GenOf(o)
  <1>1. \A k \in Keys : View(r)'[k] = IF k \in DOMAIN tx[r] THEN tx[r][k] ELSE View(q)[k]
    BY DEF View
  <1>2. \A k \in Keys : View(q)[k] = IF k \in DOMAIN tx[q] THEN tx[q][k] ELSE db[k]
    BY DEF View
  <1>3. \A k \in Keys : View(r)[k] = IF k \in DOMAIN tx[r] THEN tx[r][k] ELSE db[k]
    BY DEF View
  <1>4. g \in Keys /\ InputsFor(o) \subseteq Keys
    BY CheckFacts
  <1>5. View(r)[g] \in Nat /\ View(q)[g] \in Nat /\ db[g] \in Nat
    BY ViewNumbers DEF VerdictInv
  <1>6. /\ DOMAIN tx[q] \cap InputsFor(o) # {} => g \in DOMAIN tx[q]
        /\ g \in DOMAIN tx[q] => tx[q][g] = db[g] + 1
    BY DEF VerdictInv, RequestInv, EditsBump
  <1>7. DOMAIN tx[q] \cap DOMAIN tx[r] = {}
    BY DEF VerdictInv, LocksApart
  <1> HIDE DEF g
  <1>8. View(r)[g] <= View(r)'[g] /\ View(r)'[g] \in Nat
    BY <1>1, <1>2, <1>3, <1>4, <1>5, <1>6
  <1>9. ASSUME View(r)'[g] = View(r)[g], NEW k \in InputsFor(o)
        PROVE  View(r)'[k] = View(r)[k]
    <2>1. g \notin DOMAIN tx[q]
      BY <1>1, <1>2, <1>3, <1>4, <1>5, <1>6, <1>7, <1>9
    <2>2. k \notin DOMAIN tx[q]
      BY <1>6, <2>1
    <2> QED BY <1>1, <1>2, <1>3, <1>4, <2>2
  <1> QED BY <1>8, <1>9 DEF g

LEMMA CommitKeepsOther ==
    ASSUME VerdictInv, NEW q \in Requests, NEW r \in Requests, q # r, pc[q] = "commit",
           db' = View(q), Same(r), ~InWindow(r)
    PROVE  RequestInv(r)'
  <1>1. RequestInv(r) /\ RequestInv(q) /\ DOMAIN tx[q] \cap DOMAIN tx[r] = {}
    BY DEF VerdictInv, LocksApart
  <1>2. tx'[r] = tx[r] /\ pc'[r] = pc[r] /\ form'[r] = form[r] /\ sample'[r] = sample[r]
    BY DEF Same
  <1>3. pc[r] \notin {"write", "finish"} /\ "complete" \notin DOMAIN tx[r]
    BY DEF InWindow
  <1>4. \A k \in Keys : View(r)'[k] = IF k \in DOMAIN tx[r] THEN tx[r][k] ELSE View(q)[k]
    BY <1>2 DEF View
  <1>5. \A k \in Keys : View(q)[k] = IF k \in DOMAIN tx[q] THEN tx[q][k] ELSE db[k]
    BY DEF View
  <1>6. \A k \in Keys : View(r)[k] = IF k \in DOMAIN tx[r] THEN tx[r][k] ELSE db[k]
    BY DEF View
  <1>7. Saving(r)' /\ CompletionIsReady(r)'
    BY <1>1, <1>2, <1>3 DEF RequestInv, Saving, CompletionIsReady
  <1>8. EditsBump(r)'
    <2>1. ASSUME NEW o \in Checks, GenOf(o) \in DOMAIN tx[r]
          PROVE  db'[GenOf(o)] = db[GenOf(o)]
      BY <1>1, <1>5, <2>1, CheckFacts
    <2> QED BY <1>1, <1>2, <2>1 DEF RequestInv, EditsBump
  <1>9. \A o \in Checks :
          /\ View(r)[GenOf(o)] <= View(r)'[GenOf(o)] /\ View(r)'[GenOf(o)] \in Nat
          /\ View(r)'[GenOf(o)] = View(r)[GenOf(o)]
               => \A k \in InputsFor(o) : View(r)'[k] = View(r)[k]
    BY <1>2, CommitSeen
  <1>10. \A o \in Checks : {"app", "secret"} \subseteq InputsFor(o)
    BY CheckFacts
  <1>11. SampleMatches(r)'
    <2> DEFINE o == OkKey(form[r])
    <2>1. o \in Checks
      BY OkFacts
    <2>2. View(r)[GenOf(o)] \in Nat /\ sample[r].gen \in Int
      <3>1. sample[r] \in Verdicts(MaxGraphGen) \cup Verdicts(MaxMailboxGen)
        BY DEF VerdictInv, TypeOK
      <3>2. sample[r].gen \in Int
        BY <3>1, BoundAssumption DEF Verdicts
      <3> QED BY <2>1, <3>2, ViewNumbers DEF VerdictInv
    <2>3. /\ pc[r] \in {"read", "recheck", "pass"} => sample[r].gen <= View(r)[GenOf(o)]
          /\ pc[r] \in {"recheck", "pass"} =>
               (HasCredentials(View(r)) /\ sample[r].gen = View(r)[GenOf(o)]
                => Matches(o, sample[r], View(r)))
      BY <1>1 DEF RequestInv, SampleMatches
    <2> HIDE DEF o
    <2>4. pc[r] \in {"read", "recheck", "pass"} => sample[r].gen <= View(r)'[GenOf(o)]
      BY <1>9, <2>1, <2>2, <2>3
    <2>5. ASSUME pc[r] \in {"recheck", "pass"}, HasCredentials(View(r))',
                 sample[r].gen = View(r)'[GenOf(o)]
          PROVE  \A k \in InputsFor(o) : sample[r].of[k] = View(r)'[k]
      <3>1. View(r)'[GenOf(o)] = View(r)[GenOf(o)]
        BY <1>9, <2>1, <2>2, <2>3, <2>5
      <3>2. \A k \in InputsFor(o) : View(r)'[k] = View(r)[k]
        BY <1>9, <2>1, <3>1
      <3>3. HasCredentials(View(r))
        BY <1>10, <2>1, <2>5, <3>2 DEF HasCredentials
      <3> QED BY <2>3, <2>5, <3>1, <3>2, <3>3 DEF Matches
    <2> QED BY <1>2, <2>4, <2>5 DEF SampleMatches, Matches, o
  <1>12. ViewIsEarned(r)'
    <2> SUFFICES ASSUME NEW o \in Checks
                 PROVE  Stamped(o, View(r))' /\ (pc[r] # "bump" => Earned(o, View(r))')
      BY <1>2 DEF ViewIsEarned
    <2>1. o \in Keys /\ GenOf(o) \in Keys /\ InputsFor(o) \subseteq Keys
      BY CheckFacts
    <2>2. /\ Stamped(o, View(r)) /\ (pc[r] # "bump" => Earned(o, View(r)))
          /\ Stamped(o, View(q)) /\ Earned(o, View(q))
      BY <1>1 DEF RequestInv, ViewIsEarned
    <2>3. /\ View(r)[GenOf(o)] \in Nat /\ View(r)[o].gen \in Int
          /\ View(q)[GenOf(o)] \in Nat /\ View(q)[o].gen \in Int
      BY ViewNumbers DEF VerdictInv
    <2>4. CASE View(r)'[o] = View(r)[o]
      <3>1. Stamped(o, View(r))'
        BY <1>9, <2>2, <2>3, <2>4 DEF Stamped
      <3>2. ASSUME pc[r] # "bump", HasCredentials(View(r))',
                   View(r)'[o].gen = View(r)'[GenOf(o)]
            PROVE  \A k \in InputsFor(o) : View(r)'[o].of[k] = View(r)'[k]
        <4>1. View(r)'[GenOf(o)] = View(r)[GenOf(o)]
          BY <1>9, <2>2, <2>3, <2>4, <3>2 DEF Stamped
        <4>2. \A k \in InputsFor(o) : View(r)'[k] = View(r)[k]
          BY <1>9, <4>1
        <4>3. HasCredentials(View(r))
          BY <1>10, <3>2, <4>2 DEF HasCredentials
        <4> QED BY <2>2, <2>4, <3>2, <4>1, <4>2, <4>3 DEF Earned, Matches
      <3> QED BY <3>1, <3>2 DEF Earned, Matches
    <2>5. CASE View(r)'[o] # View(r)[o]
      <3>1. o \in DOMAIN tx[q] /\ o \notin DOMAIN tx[r] /\ View(r)'[o] = View(q)[o]
        BY <1>4, <1>5, <1>6, <2>1, <2>5
      <3>2. CASE GenOf(o) \in DOMAIN tx[r]
        <4>1. View(r)'[GenOf(o)] = db[GenOf(o)] + 1
          BY <1>1, <1>4, <2>1, <3>2 DEF RequestInv, EditsBump
        <4>2. View(q)[GenOf(o)] = db[GenOf(o)]
          BY <1>1, <1>5, <2>1, <3>2
        <4> QED BY <2>2, <2>3, <3>1, <4>1, <4>2 DEF Stamped, Earned
      <3>3. CASE GenOf(o) \notin DOMAIN tx[r]
        <4>1. View(r)'[GenOf(o)] = View(q)[GenOf(o)]
          BY <1>4, <2>1, <3>3
        <4>2. Stamped(o, View(r))'
          BY <2>2, <3>1, <4>1 DEF Stamped
        <4>3. ASSUME pc[r] # "bump"
              PROVE  Earned(o, View(r))'
          <5>1. DOMAIN tx[r] \cap InputsFor(o) = {}
            BY <1>1, <3>3, <4>3 DEF RequestInv, EditsBump
          <5>2. \A k \in InputsFor(o) : View(r)'[k] = View(q)[k]
            BY <1>4, <2>1, <5>1
          <5>3. HasCredentials(View(r))' <=> HasCredentials(View(q))
            BY <1>10, <5>2 DEF HasCredentials
          <5> QED BY <2>2, <3>1, <4>1, <5>2, <5>3 DEF Earned, Matches
        <4> QED BY <4>2, <4>3
      <3> QED BY <3>2, <3>3
    <2> QED BY <2>4, <2>5
  <1> QED BY <1>7, <1>8, <1>11, <1>12 DEF RequestInv

LEMMA CommitKeeps ==
    ASSUME VerdictInv, Windows = FALSE, NEW q \in Requests, Commit(q)
    PROVE  VerdictInv'
  <1>1. /\ pc[q] = "commit" /\ db' = View(q) /\ End(q) /\ UNCHANGED <<latched, resets>>
        /\ \A r \in Requests \ {q} : ~InWindow(r)
    BY DEF Commit, MayCommit
  <1>2. DOMAIN db' = Keys /\ \A k \in Keys : db'[k] \in ValuesOf(k)
    BY <1>1, ViewType DEF VerdictInv
  <1>3. /\ TypeOK' /\ LocksApart' /\ tx'[q] = <<>> /\ pc'[q] = "idle"
        /\ \A r \in Requests \ {q} : Same(r)
    BY <1>1, <1>2, EndFacts
  <1>4. StoreInv'
    BY <1>1 DEF VerdictInv, RequestInv, ViewIsEarned, StoreInv, Stamped, Earned, Matches, HasCredentials
  <1>5. RequestInv(q)'
    BY <1>3, <1>4, EndedInv
  <1>6. \A r \in Requests \ {q} : RequestInv(r)'
    BY <1>1, <1>3, CommitKeepsOther
  <1> QED BY <1>3, <1>4, <1>5, <1>6 DEF VerdictInv

\* The step shown is no input of anything.
LEMMA RevisitKeeps ==
    ASSUME VerdictInv, Windows = FALSE, Revisit
    PROVE  VerdictInv'
  <1>1. PICK n \in 1 .. db.step : db' = [db EXCEPT !.step = n]
    BY DEF Revisit
  <1>2. /\ \A r \in Requests : ~InWindow(r)
        /\ UNCHANGED <<tx, pc, form, fields, changed, sample, latched, resets>>
    BY DEF Revisit, MayCommit, requestVars
  <1>3. TypeOK /\ db["step"] \in Steps /\ "step" \in Keys
    BY KeysAre, ValueFacts DEF VerdictInv, TypeOK
  <1>4. n \in Steps
    BY <1>3 DEF Steps
  <1>5. DOMAIN db' = Keys /\ db'["step"] = n /\ \A k \in Keys \ {"step"} : db'[k] = db[k]
    BY <1>1, <1>3 DEF TypeOK
  <1>6. TypeOK'
    BY <1>2, <1>3, <1>4, <1>5, ValueFacts DEF TypeOK
  <1>7. \A o \in Checks : /\ o \in Keys \ {"step"} /\ GenOf(o) \in Keys \ {"step"}
                          /\ InputsFor(o) \subseteq Keys \ {"step"}
                          /\ {"app", "secret"} \subseteq InputsFor(o)
    BY KeysAre DEF Checks, GenOf, InputsFor
  <1>8. StoreInv'
    <2> SUFFICES ASSUME NEW o \in Checks PROVE (Stamped(o, db) /\ Earned(o, db))'
      BY DEF StoreInv
    <2>1. Stamped(o, db) /\ Earned(o, db)
      BY DEF VerdictInv, StoreInv
    <2>2. HasCredentials(db)' <=> HasCredentials(db)
      BY <1>5, <1>7 DEF HasCredentials
    <2> QED BY <1>5, <1>7, <2>1, <2>2 DEF Stamped, Earned, Matches
  <1>9. ASSUME NEW r \in Requests PROVE RequestInv(r)'
    <2>1. RequestInv(r) /\ ~InWindow(r)
      BY <1>2 DEF VerdictInv
    <2>2. \A k \in Keys \ {"step"} : View(r)'[k] = View(r)[k]
      BY <1>2, <1>5 DEF View
    <2>3. Saving(r)' /\ CompletionIsReady(r)'
      BY <1>2, <2>1 DEF RequestInv, Saving, CompletionIsReady, InWindow
    <2>4. EditsBump(r)'
      BY <1>2, <1>5, <1>7, <2>1 DEF RequestInv, EditsBump
    <2>5. HasCredentials(View(r))' <=> HasCredentials(View(r))
      BY <2>2, KeysAre DEF HasCredentials
    <2>6. ViewIsEarned(r)'
      BY <1>2, <1>7, <2>1, <2>2, <2>5 DEF RequestInv, ViewIsEarned, Stamped, Earned, Matches
    <2>7. SampleMatches(r)'
      <3> DEFINE o == OkKey(form[r])
      <3>1. o \in Checks
        BY OkFacts
      <3>2. /\ pc[r] \in {"read", "recheck", "pass"} => sample[r].gen <= View(r)[GenOf(o)]
            /\ pc[r] \in {"recheck", "pass"} =>
                 (HasCredentials(View(r)) /\ sample[r].gen = View(r)[GenOf(o)]
                  => Matches(o, sample[r], View(r)))
        BY <2>1 DEF RequestInv, SampleMatches
      <3> HIDE DEF o
      <3>3. /\ View(r)'[GenOf(o)] = View(r)[GenOf(o)]
            /\ \A k \in InputsFor(o) : View(r)'[k] = View(r)[k]
        BY <1>7, <2>2, <3>1
      <3> QED BY <1>2, <2>5, <3>2, <3>3 DEF SampleMatches, Matches, o
    <2> QED BY <2>3, <2>4, <2>6, <2>7 DEF RequestInv
  <1>10. LocksApart'
    BY <1>2 DEF VerdictInv, LocksApart
  <1> QED BY <1>6, <1>8, <1>9, <1>10 DEF VerdictInv

\* Without credentials no verdict counts.
LEMMA ResetKeeps ==
    ASSUME VerdictInv, Windows = FALSE, ResetSetup
    PROVE  VerdictInv'
  <1> DEFINE reset == {"app", "secret", "graphOk", "mailboxOk", "complete", "step"}
  <1>1. /\ Unlocked(Touches(db, ResetWrites), Requests)
        /\ \A r \in Requests : ~InWindow(r)
        /\ db' = [k \in Keys |-> IF k \in DOMAIN ResetWrites THEN ResetWrites[k] ELSE db[k]]
        /\ resets < MaxResets /\ resets' = resets + 1
        /\ UNCHANGED <<tx, pc, form, fields, changed, sample, latched>>
    BY DEF ResetSetup, MayCommit, requestVars
  <1>2. DOMAIN ResetWrites = reset
    BY DEF ResetWrites
  <1>3. /\ ResetWrites["app"] = Nothing /\ ResetWrites["secret"] = Nothing
        /\ ResetWrites["graphOk"] = NoVerdict /\ ResetWrites["mailboxOk"] = NoVerdict
        /\ ResetWrites["complete"] = FALSE /\ ResetWrites["step"] = 3
    BY DEF ResetWrites
  <1>4. reset \subseteq Keys
    BY KeysAre
  <1>5. /\ \A k \in reset : db'[k] = ResetWrites[k]
        /\ \A k \in Keys \ reset : db'[k] = db[k]
        /\ DOMAIN db' = Keys
    BY <1>1, <1>2, <1>4
  <1>6. \A o \in Checks : /\ o \in reset /\ db'[o] = NoVerdict
                          /\ GenOf(o) \in Keys \ reset
    BY <1>3, <1>5, KeysAre DEF Checks, GenOf
  <1>7. {"secret", "graphOk", "mailboxOk"} \subseteq Touches(db, ResetWrites)
    BY <1>2 DEF Touches
  <1>8. \A r \in Requests : {"secret", "graphOk", "mailboxOk"} \cap DOMAIN tx[r] = {}
    BY <1>1, <1>7 DEF Unlocked
  <1>9. NoVerdict.gen = -1 /\ \A n \in Nat : NoVerdict.gen <= n /\ NoVerdict \in Verdicts(n)
    BY NoVerdictFacts
  <1>10. TypeOK'
    <2>1. \A k \in reset : ResetWrites[k] \in ValuesOf(k)
      <3>1. ValuesOf("step") = Steps /\ 3 \in Steps
        BY ValueFacts DEF Steps
      <3>2. NoVerdict \in ValuesOf("graphOk") /\ NoVerdict \in ValuesOf("mailboxOk")
        BY <1>9, ValueFacts, BoundAssumption
      <3>3. /\ Nothing \in ValuesOf("app") /\ Nothing \in ValuesOf("secret")
            /\ FALSE \in ValuesOf("complete")
        BY ValueFacts
      <3> QED BY <1>3, <3>1, <3>2, <3>3
    <2>2. \A k \in Keys : db'[k] \in ValuesOf(k)
      BY <1>5, <2>1 DEF VerdictInv, TypeOK
    <2>3. resets' \in 0 .. MaxResets
      BY <1>1, BoundAssumption DEF VerdictInv, TypeOK
    <2> QED BY <1>1, <1>5, <2>2, <2>3 DEF VerdictInv, TypeOK
  <1>11. StoreInv'
    <2> SUFFICES ASSUME NEW o \in Checks PROVE (Stamped(o, db) /\ Earned(o, db))'
      BY DEF StoreInv
    <2>1. db'[GenOf(o)] \in Nat
      BY <1>5, <1>6, NumberFacts DEF VerdictInv, TypeOK
    <2>2. ~HasCredentials(db)'
      BY <1>3, <1>5 DEF HasCredentials
    <2> QED BY <1>6, <1>9, <2>1, <2>2 DEF Stamped, Earned
  <1>12. ASSUME NEW r \in Requests PROVE RequestInv(r)'
    <2>1. RequestInv(r) /\ ~InWindow(r)
      BY <1>1 DEF VerdictInv
    <2>2. \A k \in {"secret", "graphOk", "mailboxOk"} : View(r)'[k] = ResetWrites[k]
      BY <1>1, <1>4, <1>5, <1>8 DEF View
    <2>3. \A k \in Keys \ reset : View(r)'[k] = View(r)[k]
      BY <1>1, <1>5 DEF View
    <2>4. ~HasCredentials(View(r))'
      BY <1>3, <2>2 DEF HasCredentials
    <2>5. Saving(r)' /\ CompletionIsReady(r)'
      BY <1>1, <2>1 DEF RequestInv, Saving, CompletionIsReady, InWindow
    <2>6. EditsBump(r)'
      BY <1>1, <1>5, <1>6, <2>1 DEF RequestInv, EditsBump
    <2>7. ViewIsEarned(r)'
      <3>1. ASSUME NEW o \in Checks PROVE View(r)'[o] = NoVerdict /\ View(r)'[GenOf(o)] \in Nat
        BY <1>3, <1>6, <2>2, <2>3, ViewNumbers DEF Checks, VerdictInv
      <3> QED BY <1>9, <2>4, <3>1 DEF ViewIsEarned, Stamped, Earned
    <2>8. SampleMatches(r)'
      BY <1>1, <1>6, <2>1, <2>3, <2>4, OkFacts DEF RequestInv, SampleMatches
    <2> QED BY <2>5, <2>6, <2>7, <2>8 DEF RequestInv
  <1>13. LocksApart'
    BY <1>1 DEF VerdictInv, LocksApart
  <1> QED BY <1>10, <1>11, <1>12, <1>13 DEF VerdictInv

LEMMA VisitKeeps ==
    ASSUME VerdictInv, latched' \in BOOLEAN, UNCHANGED <<db, requestVars, resets>>
    PROVE  VerdictInv'
  <1>1. UNCHANGED <<db, tx, pc, form, fields, changed, sample, resets>>
    BY DEF requestVars
  <1>2. TypeOK' /\ LocksApart'
    BY <1>1 DEF VerdictInv, TypeOK, LocksApart
  <1>3. StoreInv'
    BY <1>1 DEF VerdictInv, StoreInv, Stamped, Earned, Matches, HasCredentials
  <1>4. \A r \in Requests : RequestInv(r)'
    BY <1>1, SameKeeps DEF VerdictInv, Same
  <1> QED BY <1>2, <1>3, <1>4 DEF VerdictInv

-----------------------------------------------------------------------------
(* The theorems. *)

LEMMA InitHolds == Init => VerdictInv
  <1> SUFFICES ASSUME Init PROVE VerdictInv
    OBVIOUS
  <1>1. /\ db = Empty /\ tx = [r \in Requests |-> <<>>] /\ pc = [r \in Requests |-> "idle"]
        /\ form = [r \in Requests |-> NoForm] /\ fields = [r \in Requests |-> NoInputs]
        /\ changed = [r \in Requests |-> FALSE] /\ sample = [r \in Requests |-> NoVerdict]
        /\ latched = FALSE /\ resets = 0
    BY DEF Init
  <1>2. \A r \in Requests : tx[r] = <<>> /\ pc[r] = "idle" /\ DOMAIN tx[r] = {}
    <2>1. DOMAIN <<>> = {}
      OBVIOUS
    <2> QED BY <1>1, <2>1
  <1>3. /\ db["step"] = 1 /\ db["admin"] = FALSE /\ db["complete"] = FALSE /\ db["mode"] = "rbac"
        /\ db["app"] = Nothing /\ db["secret"] = Nothing /\ db["mailbox"] = Nothing
        /\ db["graphGen"] = 0 /\ db["mailboxGen"] = 0
        /\ db["graphOk"] = NoVerdict /\ db["mailboxOk"] = NoVerdict
    BY <1>1 DEF Empty
  <1>4. /\ NoVerdict \in Verdicts(MaxGraphGen) /\ NoVerdict \in Verdicts(MaxMailboxGen)
        /\ NoInputs \in Inputs /\ NoVerdict.gen = -1
    BY NoVerdictFacts, BoundAssumption
  <1>5. TypeOK
    <2>1. \A k \in Keys : db[k] \in ValuesOf(k)
      <3>1. 1 \in ValuesOf("step") /\ "rbac" \in ValuesOf("mode")
        BY ValueFacts, BoundAssumption DEF Steps
      <3>2. 0 \in ValuesOf("graphGen") /\ 0 \in ValuesOf("mailboxGen")
        BY ValueFacts, BoundAssumption
      <3>3. NoVerdict \in ValuesOf("graphOk") /\ NoVerdict \in ValuesOf("mailboxOk")
        BY <1>4, ValueFacts
      <3>4. /\ Nothing \in ValuesOf("app") /\ Nothing \in ValuesOf("secret")
            /\ Nothing \in ValuesOf("mailbox")
            /\ FALSE \in ValuesOf("complete") /\ FALSE \in ValuesOf("admin")
        BY ValueFacts
      <3> QED BY <1>3, <3>1, <3>2, <3>3, <3>4, KeysAre
    <2>2. sample \in [Requests -> Verdicts(MaxGraphGen) \cup Verdicts(MaxMailboxGen)]
      BY <1>1, <1>4
    <2>3. DOMAIN db = Keys
      BY <1>1 DEF Keys
    <2>4. DOMAIN tx = Requests
      BY <1>1
    <2>5. /\ pc \in [Requests -> PCs] /\ form \in [Requests -> Forms \cup {NoForm}]
          /\ fields \in [Requests -> Inputs] /\ changed \in [Requests -> BOOLEAN]
      BY <1>1, <1>4 DEF PCs
    <2>6. latched \in BOOLEAN /\ resets \in 0 .. MaxResets
      <3>1. resets = 0 /\ MaxResets \in Nat
        BY <1>1, BoundAssumption
      <3>2. resets \in 0 .. MaxResets
        BY <3>1
      <3> QED BY <1>1, <3>2
    <2> QED BY <1>2, <2>1, <2>2, <2>3, <2>4, <2>5, <2>6 DEF TypeOK
  <1>6. StoreInv
    <2>1. ~HasCredentials(db)
      BY <1>3 DEF HasCredentials
    <2>2. \A o \in Checks : Stamped(o, db)
      BY <1>3, <1>4 DEF Checks, GenOf, Stamped
    <2> QED BY <2>1, <2>2 DEF StoreInv, Earned
  <1>7. LocksApart
    BY <1>2 DEF LocksApart
  <1>8. ASSUME NEW r \in Requests PROVE RequestInv(r)
    <2>1. \A k \in Keys : View(r)[k] = db[k]
      BY <1>2 DEF View
    <2>2. EditsBump(r) /\ Saving(r) /\ SampleMatches(r) /\ CompletionIsReady(r)
      BY <1>2 DEF EditsBump, Saving, SampleMatches, CompletionIsReady
    <2>3. HasCredentials(View(r)) <=> HasCredentials(db)
      BY <2>1, KeysAre DEF HasCredentials
    <2>4. ~HasCredentials(db)
      BY <1>3 DEF HasCredentials
    <2>5. ViewIsEarned(r)
      BY <1>6, <2>1, <2>3, <2>4, CheckFacts DEF StoreInv, ViewIsEarned, Stamped, Earned
    <2> QED BY <2>2, <2>5 DEF RequestInv
  <1> QED BY <1>5, <1>6, <1>7, <1>8 DEF VerdictInv

LEMMA NextKeeps ==
    ASSUME VerdictInv, Windows = FALSE, [Next]_vars
    PROVE  VerdictInv'
  <1>1. ASSUME NEW r \in Requests, Save(r)
        PROVE  VerdictInv'
    BY <1>1, SaveKeeps, CompareKeeps, WriteInputsKeeps, BumpKeeps DEF Save
  <1>2. ASSUME NEW r \in Requests, Act(r)
        PROVE  VerdictInv'
    BY <1>2, StayKeeps, MoveKeeps, FinishKeeps DEF Act
  <1>3. ASSUME NEW r \in Requests, Test(r)
        PROVE  VerdictInv'
    BY <1>3, ReadGenerationKeeps, ReadInputsKeeps, RecheckKeeps, RecordPassKeeps, RecordFailKeeps
       DEF Test
  <1>4. ASSUME NEW r \in Requests, Open(r) \/ Commit(r) \/ Fail(r)
        PROVE  VerdictInv'
    BY <1>4, OpenKeeps, CommitKeeps, FailKeeps
  <1>5. CASE Visit
    <2>1. latched' \in BOOLEAN
      BY <1>5, KeysAre, ValueFacts DEF Visit, VerdictInv, TypeOK
    <2> QED BY <1>5, <2>1, VisitKeeps DEF Visit
  <1>6. CASE UNCHANGED vars
    <2>1. latched' \in BOOLEAN /\ UNCHANGED <<db, requestVars, resets>>
      BY <1>6 DEF vars, VerdictInv, TypeOK
    <2> QED BY <2>1, VisitKeeps
  <1> QED BY <1>1, <1>2, <1>3, <1>4, <1>5, <1>6, RevisitKeeps, ResetKeeps, RestartKeeps DEF Next

\* The inductive invariant holds of every behaviour in which no other transaction commits
\* between a check (save_credentials, save_mailbox, complete_setup) and the write it allows.
THEOREM InvariantHolds == (Windows = FALSE) /\ Spec => []VerdictInv
  <1>1. CASE Windows = FALSE
    <2>1. VerdictInv /\ [Next]_vars => VerdictInv'
      BY <1>1, NextKeeps
    <2> QED BY InitHolds, <2>1, PTL DEF Spec
  <1>2. CASE Windows # FALSE
    BY <1>2
  <1> QED BY <1>1, <1>2

\* Settings, uncommitted writes and requests have their types (set_value, the forms).
THEOREM TypeCorrect == (Windows = FALSE) /\ Spec => []TypeOK
  <1>1. VerdictInv => TypeOK
    BY DEF VerdictInv
  <1> QED BY InvariantHolds, <1>1, PTL

\* "A verdict counts only if it was produced against the inputs still in place"
\* (load_state, _record): however slow a test was, and whatever was submitted, reset or
\* restarted meanwhile.
THEOREM VerdictsStand == (Windows = FALSE) /\ Spec => []VerdictsAreEarned
  <1>1. VerdictInv => VerdictsAreEarned
    BY DEF VerdictInv, StoreInv, Earned, Matches, Checks, GenOf, InputsFor, VerdictsAreEarned,
           GraphPassed, MailboxPassed
  <1> QED BY InvariantHolds, <1>1, PTL

\* The step that completes setup leaves credentials and a mailbox that both passed.
CompletesVerified ==
    ~db.complete /\ db'.complete =>
      /\ db'.admin /\ HasCredentials(db')
      /\ GraphPassed(db') /\ MailboxPassed(db')
      /\ db'.graphOk.of.app = db'.app /\ db'.graphOk.of.secret = db'.secret
      /\ db'.mailboxOk.of.app = db'.app /\ db'.mailboxOk.of.secret = db'.secret
      /\ db'.mailboxOk.of.mailbox = db'.mailbox

LEMMA OnlyFinishCompletes ==
    ASSUME VerdictInv, [Next]_vars, ~db.complete, db'.complete
    PROVE  \E r \in Requests : Ready(View(r)) /\ pc[r] = "commit" /\ db' = View(r)
  <1>1. DOMAIN db = Keys /\ "complete" \in Keys
    BY KeysAre DEF VerdictInv, TypeOK
  <1>2. ~UNCHANGED db
    OBVIOUS
  <1>3. PICK r \in Requests : Commit(r)
    <2>1. ~Revisit
      BY <1>1 DEF Revisit
    <2>2. ~ResetSetup
      <3>1. ASSUME ResetSetup PROVE db'.complete = FALSE
        BY <1>1, <3>1 DEF ResetSetup, ResetWrites
      <3> QED BY <3>1
    <2> QED BY <1>2, <2>1, <2>2
        DEF Next, Open, Save, SaveAccount, SaveScoping, Compare, WriteInputs, Bump,
            Act, Stay, Back, Advance, CheckAll, Finish,
            Test, ReadGeneration, ReadInputs, Recheck, RecordPass, RecordFail, Fail,
            Visit, Restart, vars
  <1>4. pc[r] = "commit" /\ db' = View(r)
    BY <1>3 DEF Commit
  <1>5. "complete" \in DOMAIN tx[r]
    BY <1>1, <1>4 DEF View
  <1> QED BY <1>4, <1>5 DEF VerdictInv, RequestInv, CompletionIsReady

\* "The wizard cannot complete without both verifications passing" (complete_setup).
THEOREM CompletionVerified == (Windows = FALSE) /\ Spec => CompletionIsVerified
  <1>1. VerdictInv /\ [Next]_vars => [CompletesVerified]_vars
    <2> SUFFICES ASSUME VerdictInv, [Next]_vars, ~db.complete, db'.complete
                 PROVE  CompletesVerified
      BY DEF CompletesVerified
    <2>1. PICK r \in Requests : Ready(View(r)) /\ pc[r] = "commit" /\ db' = View(r)
      BY OnlyFinishCompletes
    <2>2. Earned("graphOk", View(r)) /\ Earned("mailboxOk", View(r))
      BY <2>1 DEF VerdictInv, RequestInv, ViewIsEarned, Checks
    <2> QED BY <2>1, <2>2 DEF CompletesVerified, Ready, Earned, Matches, GenOf, InputsFor,
                              GraphPassed, MailboxPassed, HasCredentials
  <1>2. [][CompletesVerified]_vars => CompletionIsVerified
    BY PTL DEF CompletesVerified, CompletionIsVerified
  <1> QED BY InvariantHolds, <1>1, <1>2, PTL DEF Spec

-----------------------------------------------------------------------------
(* Moving through the wizard. *)

Counters == {"graphGen", "mailboxGen"}
Edited == {"app", "secret", "mailbox"}
Tests == {"test_graph", "test_mailbox"}

\* A counter goes up only beside an input, and only a test leaves or deletes a verdict.
MoveInv(r) ==
    /\ pc[r] = "bump" \/ DOMAIN tx[r] \cap Counters # {} => DOMAIN tx[r] \cap Edited # {}
    /\ pc[r] \in {"read", "recheck", "pass", "fail"} \/ DOMAIN tx[r] \cap Checks # {}
         => form[r].action \in Tests

\* A statement that writes no setting.
LEMMA GoMoves ==
    ASSUME TypeOK, NEW r \in Requests, \A q \in Requests : MoveInv(q), NEW next,
           Goto(r, next), UNCHANGED <<tx, form>>, next # "bump",
           next \in {"read", "recheck", "pass", "fail"} => form[r].action \in Tests
    PROVE  \A q \in Requests : MoveInv(q)'
  BY DEF Goto, TypeOK, MoveInv

\* A statement that writes some.
LEMMA PutMoves ==
    ASSUME TypeOK, NEW r \in Requests, \A q \in Requests : MoveInv(q), NEW writes, NEW next,
           Put(r, writes), Goto(r, next), UNCHANGED form,
           next \notin {"read", "recheck", "pass", "fail"},
           DOMAIN writes \cap Checks # {} => form[r].action \in Tests,
           next = "bump" \/ DOMAIN writes \cap Counters # {}
             => (DOMAIN tx[r] \cup Touches(View(r), writes)) \cap Edited # {}
    PROVE  \A q \in Requests : MoveInv(q)'
  <1> DEFINE touched == Touches(View(r), writes)
  <1>1. touched \subseteq DOMAIN writes
    BY DEF Touches
  <1>2. tx' = [tx EXCEPT ![r] =
          [k \in DOMAIN tx[r] \cup touched |-> IF k \in touched THEN writes[k] ELSE tx[r][k]]]
    BY DEF Put
  <1>3. DOMAIN tx = Requests /\ pc' = [pc EXCEPT ![r] = next] /\ pc \in [Requests -> PCs]
    BY DEF TypeOK, Goto
  <1>4. tx'[r] = [k \in DOMAIN tx[r] \cup touched |-> IF k \in touched THEN writes[k] ELSE tx[r][k]]
    BY <1>2, <1>3
  <1>5. DOMAIN tx'[r] = DOMAIN tx[r] \cup touched /\ pc'[r] = next
    BY <1>3, <1>4
  <1>6. \A q \in Requests \ {r} : tx'[q] = tx[q] /\ pc'[q] = pc[q]
    BY <1>2, <1>3
  <1> HIDE DEF touched
  <1>7. ASSUME NEW q \in Requests \ {r} PROVE MoveInv(q)'
    BY <1>6 DEF MoveInv
  <1>8. next = "bump" \/ DOMAIN tx'[r] \cap Counters # {} => DOMAIN tx'[r] \cap Edited # {}
    <2>1. CASE DOMAIN tx[r] \cap Counters # {}
      BY <1>5, <2>1 DEF MoveInv
    <2>2. CASE next = "bump" \/ touched \cap Counters # {}
      BY <1>1, <1>5, <2>2 DEF touched
    <2> QED BY <1>5, <2>1, <2>2
  <1>9. DOMAIN tx'[r] \cap Checks # {} => form[r].action \in Tests
    BY <1>1, <1>5 DEF MoveInv
  <1>10. MoveInv(r)'
    BY <1>5, <1>8, <1>9 DEF MoveInv
  <1> QED BY <1>7, <1>10

\* save_credentials, save_mailbox: what counts as an edit writes an input.
LEMMA WriteInputsMoves ==
    ASSUME VerdictInv, NEW r \in Requests, \A q \in Requests : MoveInv(q), WriteInputs(r)
    PROVE  \A q \in Requests : MoveInv(q)'
  <1> DEFINE step == form[r].step
             writes == Written(step, fields[r])
             next == IF changed[r] THEN "bump" ELSE "act"
  <1>1. pc[r] = "write" /\ Put(r, writes) /\ Goto(r, next) /\ UNCHANGED form
    BY DEF WriteInputs
  <1>2. step \in {3, 4} /\ changed[r] = Edits(step, fields[r], View(r))
    BY <1>1 DEF VerdictInv, RequestInv, Saving
  <1>3. DOMAIN writes \cap (Checks \cup Counters) = {}
    BY DEF Written, Checks, Counters
  <1>4. ASSUME changed[r] PROVE Touches(View(r), writes) \cap Edited # {}
    <2>1. CASE step = 3 /\ fields[r].secret # Nothing
      <3>1. "secret" \in DOMAIN writes
        BY <2>1 DEF Written
      <3> QED BY <3>1 DEF Touches, Edited
    <2>2. CASE step = 3 /\ fields[r].secret = Nothing
      <3>1. fields[r].app # View(r).app
        BY <1>2, <1>4, <2>2 DEF Edits
      <3>2. "app" \in DOMAIN writes /\ writes["app"] = fields[r].app
        BY <2>2 DEF Written
      <3> HIDE DEF writes
      <3> QED BY <3>1, <3>2 DEF Touches, Edited
    <2>3. CASE step = 4
      <3>1. fields[r].mailbox # View(r).mailbox
        <4>1. form[r].step # 3
          BY <2>3
        <4> QED BY <1>2, <1>4, <4>1 DEF Edits
      <3>2. "mailbox" \in DOMAIN writes /\ writes["mailbox"] = fields[r].mailbox
        BY <2>3 DEF Written
      <3> HIDE DEF writes
      <3> QED BY <3>1, <3>2 DEF Touches, Edited
    <2> QED BY <1>2, <2>1, <2>2, <2>3
  <1>5. next = "bump" => changed[r]
    OBVIOUS
  <1>6. next \notin {"read", "recheck", "pass", "fail"}
    OBVIOUS
  <1> HIDE DEF writes, next
  <1>7. TypeOK
    BY DEF VerdictInv
  <1> QED BY <1>1, <1>3, <1>4, <1>5, <1>6, <1>7, PutMoves

\* The start and the end of a request.
LEMMA EndMoves ==
    ASSUME TypeOK, NEW r \in Requests, \A q \in Requests : MoveInv(q), End(r)
    PROVE  \A q \in Requests : MoveInv(q)'
  <1>1. tx'[r] = <<>> /\ pc'[r] = "idle"
    BY DEF End, TypeOK
  <1>2. DOMAIN tx'[r] = {}
    BY <1>1
  <1>3. \A q \in Requests \ {r} : tx'[q] = tx[q] /\ pc'[q] = pc[q] /\ form'[q] = form[q]
    BY DEF End, TypeOK
  <1> QED BY <1>1, <1>2, <1>3 DEF MoveInv

LEMMA OpenMoves ==
    ASSUME VerdictInv, NEW r \in Requests, \A q \in Requests : MoveInv(q), Open(r)
    PROVE  \A q \in Requests : MoveInv(q)'
  <1>1. /\ pc[r] = "idle" /\ UNCHANGED tx
        /\ \E f \in Forms : /\ form' = [form EXCEPT ![r] = f]
                            /\ Goto(r, IF f.step = 5 THEN "act" ELSE "save")
    BY DEF Open
  <1>2. DOMAIN tx[r] = {}
    BY <1>1 DEF VerdictInv, RequestInv, Saving
  <1>3. pc'[r] \in {"act", "save"}
    BY <1>1 DEF Goto, VerdictInv, TypeOK
  <1>4. \A q \in Requests \ {r} : pc'[q] = pc[q] /\ form'[q] = form[q]
    BY <1>1 DEF Goto, VerdictInv, TypeOK
  <1> QED BY <1>1, <1>2, <1>3, <1>4 DEF MoveInv

\* Every step keeps the three statements apart.
LEMMA NextMoves ==
    ASSUME VerdictInv, \A q \in Requests : MoveInv(q), [Next]_vars
    PROVE  \A q \in Requests : MoveInv(q)'
  <1>0. TypeOK
    BY DEF VerdictInv
  <1>1. ASSUME NEW r \in Requests, Save(r) PROVE \A q \in Requests : MoveInv(q)'
    <2>1. CASE SaveAccount(r)
      <3> DEFINE writes == [admin |-> TRUE]
      <3>1. Put(r, writes) /\ Goto(r, "act") /\ UNCHANGED form
        BY <2>1 DEF SaveAccount
      <3>2. DOMAIN writes \cap (Checks \cup Counters) = {}
        BY DEF Checks, Counters
      <3> HIDE DEF writes
      <3> QED BY <1>0, <3>1, <3>2, PutMoves
    <2>2. CASE SaveScoping(r)
      <3> DEFINE writes == [mode |-> fields[r].mode]
      <3>1. Put(r, writes) /\ Goto(r, "act") /\ UNCHANGED form
        BY <2>2 DEF SaveScoping
      <3>2. DOMAIN writes \cap (Checks \cup Counters) = {}
        BY DEF Checks, Counters
      <3> HIDE DEF writes
      <3> QED BY <1>0, <3>1, <3>2, PutMoves
    <2>3. CASE Compare(r)
      BY <1>0, <2>3, GoMoves DEF Compare
    <2>4. CASE Bump(r)
      <3> DEFINE writes == [k \in Bumped(form[r]) |-> db[k] + 1]
      <3>1. /\ pc[r] = "bump" /\ Put(r, writes) /\ Goto(r, "act") /\ UNCHANGED form
        BY <2>4 DEF Bump
      <3>2. DOMAIN writes \cap Checks = {}
        BY DEF Bumped, Checks
      <3>3. DOMAIN tx[r] \cap Edited # {}
        BY <3>1 DEF MoveInv
      <3> HIDE DEF writes
      <3> QED BY <1>0, <3>1, <3>2, <3>3, PutMoves
    <2> QED BY <1>1, <2>1, <2>2, <2>3, <2>4, WriteInputsMoves DEF Save
  <1>2. ASSUME NEW r \in Requests, Act(r) PROVE \A q \in Requests : MoveInv(q)'
    <2>1. CASE Stay(r) \/ CheckAll(r)
      BY <1>0, <2>1, GoMoves DEF Stay, CheckAll
    <2>2. ASSUME NEW n, Put(r, [step |-> n]), Goto(r, "commit"), UNCHANGED form
          PROVE  \A q \in Requests : MoveInv(q)'
      <3> DEFINE writes == [step |-> n]
      <3>1. DOMAIN writes \cap (Checks \cup Counters) = {}
        BY DEF Checks, Counters
      <3>2. Put(r, writes)
        BY <2>2
      <3> HIDE DEF writes
      <3> QED BY <1>0, <2>2, <3>1, <3>2, PutMoves
    <2>3. CASE Back(r)
      BY <2>2, <2>3 DEF Back
    <2>4. CASE Advance(r)
      <3>1. CASE UNCHANGED tx
        BY <1>0, <2>4, <3>1, GoMoves DEF Advance
      <3>2. CASE Put(r, [step |-> form[r].step + 1])
        BY <2>2, <2>4, <3>2 DEF Advance
      <3> QED BY <2>4, <3>1, <3>2 DEF Advance
    <2>5. CASE Finish(r)
      <3> DEFINE writes == [complete |-> TRUE, step |-> 5]
      <3>1. Put(r, writes) /\ Goto(r, "commit") /\ UNCHANGED form
        BY <2>5 DEF Finish
      <3>2. DOMAIN writes \cap (Checks \cup Counters) = {}
        BY DEF Checks, Counters
      <3> HIDE DEF writes
      <3> QED BY <1>0, <3>1, <3>2, PutMoves
    <2> QED BY <1>2, <2>1, <2>3, <2>4, <2>5 DEF Act
  <1>3. ASSUME NEW r \in Requests, Test(r) PROVE \A q \in Requests : MoveInv(q)'
    <2>1. CASE ReadGeneration(r)
      BY <1>0, <2>1, GoMoves DEF ReadGeneration, Acting, Tests
    <2>2. CASE ReadInputs(r) \/ Recheck(r)
      <3>1. form[r].action \in Tests
        BY <2>2 DEF ReadInputs, Recheck, MoveInv
      <3> QED BY <1>0, <2>2, <3>1, GoMoves DEF ReadInputs, Recheck
    <2>3. ASSUME NEW verdict, pc[r] \in {"pass", "fail"}, UNCHANGED form,
                 Put(r, Only({OkKey(form[r])}, verdict)), Goto(r, "commit")
          PROVE  \A q \in Requests : MoveInv(q)'
      <3> DEFINE writes == Only({OkKey(form[r])}, verdict)
      <3>1. form[r].action \in Tests
        BY <2>3 DEF MoveInv
      <3>2. DOMAIN writes \cap Counters = {}
        BY DEF Only, OkKey, Counters
      <3>3. Put(r, writes)
        BY <2>3
      <3> HIDE DEF writes
      <3> QED BY <1>0, <2>3, <3>1, <3>2, <3>3, PutMoves
    <2>4. CASE RecordPass(r)
      BY <2>3, <2>4 DEF RecordPass
    <2>5. CASE RecordFail(r)
      BY <2>3, <2>5 DEF RecordFail
    <2> QED BY <1>3, <2>1, <2>2, <2>4, <2>5 DEF Test
  <1>4. ASSUME NEW r \in Requests, Open(r) \/ Commit(r) \/ Fail(r)
        PROVE  \A q \in Requests : MoveInv(q)'
    BY <1>0, <1>4, OpenMoves, EndMoves DEF Commit, Fail
  <1>5. CASE Restart
    <2>1. \A q \in Requests : tx'[q] = <<>> /\ pc'[q] = "idle"
      BY <1>5 DEF Restart
    <2>2. \A q \in Requests : DOMAIN tx'[q] = {}
      BY <2>1
    <2> QED BY <2>1, <2>2 DEF MoveInv
  <1>6. CASE Revisit \/ Visit \/ ResetSetup \/ UNCHANGED vars
    <2>1. UNCHANGED <<tx, pc, form>>
      BY <1>6 DEF Revisit, Visit, ResetSetup, vars, requestVars
    <2> QED BY <2>1 DEF MoveInv
  <1> QED BY <1>1, <1>2, <1>3, <1>4, <1>5, <1>6 DEF Next

\* A request that ends well commits, or loses what it wrote.
LEMMA EndsBy ==
    ASSUME TypeOK, [Next]_vars, NEW r \in Requests, pc[r] = "commit", pc'[r] = "idle"
    PROVE  db' = db \/ db' = View(r)
  <1>1. CASE Revisit \/ Visit \/ ResetSetup \/ UNCHANGED vars
    BY <1>1 DEF Revisit, Visit, ResetSetup, vars, requestVars
  <1>2. ASSUME NEW q \in Requests, Commit(q) PROVE db' = View(r)
    <2>1. q = r
      BY <1>2 DEF Commit, End, TypeOK
    <2> QED BY <1>2, <2>1 DEF Commit
  <1>3. ASSUME NEW q \in Requests, Open(q) \/ Save(q) \/ Act(q) \/ Test(q) \/ Fail(q)
        PROVE  db' = db
    BY <1>3 DEF Open, Save, SaveAccount, SaveScoping, Compare, WriteInputs, Bump,
                Act, Stay, Back, Advance, CheckAll, Finish,
                Test, ReadGeneration, ReadInputs, Recheck, RecordPass, RecordFail, Fail
  <1> QED BY <1>1, <1>2, <1>3 DEF Next, Restart

\* A request that moves only leaves counters and verdicts as they are.
MovesKeep ==
    \A r \in Requests :
      pc[r] = "commit" /\ pc'[r] = "idle" /\ MovesOnly(r)
      => /\ GraphPassed(db) => GraphPassed(db')
         /\ MailboxPassed(db) => MailboxPassed(db')

\* save_credentials, save_mailbox, previous_step and advance_step: a POST that moves
\* through the wizard and writes no input invalidates nothing that passed, whatever
\* commits, resets or restarts it overlaps with.
THEOREM MovesKeepVerdicts == (Windows = FALSE) /\ Spec => MovingKeepsVerdicts
  <1> DEFINE Moves == \A r \in Requests : MoveInv(r)
  <1>1. Init => Moves
    <2>1. ASSUME Init, NEW r \in Requests PROVE MoveInv(r)
      <3>1. tx[r] = <<>> /\ pc[r] = "idle"
        BY <2>1 DEF Init
      <3>2. DOMAIN tx[r] = {}
        BY <3>1
      <3> QED BY <3>1, <3>2 DEF MoveInv
    <2> QED BY <2>1
  <1>2. VerdictInv /\ Moves /\ [Next]_vars => Moves'
    BY NextMoves
  <1>3. VerdictInv /\ Moves /\ [Next]_vars => [MovesKeep]_vars
    <2> SUFFICES ASSUME VerdictInv, Moves, [Next]_vars, NEW r \in Requests,
                        pc[r] = "commit", pc'[r] = "idle", MovesOnly(r)
                 PROVE  /\ GraphPassed(db) => GraphPassed(db')
                        /\ MailboxPassed(db) => MailboxPassed(db')
      BY DEF MovesKeep
    <2>1. DOMAIN tx[r] \cap (Counters \cup Checks) = {}
      BY DEF MovesOnly, MoveInv, Edited, Tests
    <2>2. db' = db \/ db' = View(r)
      BY EndsBy DEF VerdictInv
    <2>3. \A k \in Counters \cup Checks : View(r)[k] = db[k]
      BY <2>1, KeysAre DEF View, Counters, Checks
    <2> QED BY <2>2, <2>3 DEF GraphPassed, MailboxPassed, Counters, Checks
  <1>4. [][MovesKeep]_vars => MovingKeepsVerdicts
    BY PTL DEF MovesKeep, MovingKeepsVerdicts
  <1> QED BY InvariantHolds, <1>1, <1>2, <1>3, <1>4, PTL DEF Spec
===============================================================================
