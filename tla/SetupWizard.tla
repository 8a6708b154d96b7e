----------------------------- MODULE SetupWizard -----------------------------
(***************************************************************************)
(* First-run setup: the state and rules of rua/wizard.py, driven by the    *)
(* POSTs of rua/routes/setup.py, behind the gate of rua/middleware.py, and *)
(* reopened by `rua reset-setup`.                                          *)
(*                                                                         *)
(* Everything is kept in the setting table (db), one row per key.  A POST  *)
(* is one READ COMMITTED transaction, committed after the handler returns: *)
(* every statement of it sees what is committed by then, and its own       *)
(* writes (tx); a row it has written stays locked until it ends.  Two      *)
(* POSTs overlap whenever one of them waits for Microsoft Graph.  No row    *)
(* object outlives the call that read it, so every read is a query.        *)
(*                                                                         *)
(* The tenant and client ids are one value, the app.  A verdict also holds *)
(* the inputs it was produced against; the code keeps the generation only. *)
(***************************************************************************)
EXTENDS Integers

CONSTANTS
    Requests,       \* POSTs that may be in flight together
    Apps,           \* tenant and client ids
    Secrets,        \* client secrets
    Mailboxes,      \* report mailboxes
    Modes,          \* scoping modes: "rbac", "policy"
    Nothing,        \* an absent setting, a blank field
    Windows,        \* whether another transaction may commit between a check and the write it allows
    MaxGraphGen,    \* bound: edits of the credentials
    MaxMailboxGen,  \* bound: edits of the credentials and of the mailbox
    MaxResets       \* bound: runs of `rua reset-setup`

ASSUME InputAssumption == Nothing \notin Apps \cup Secrets \cup Mailboxes

ASSUME BoundAssumption ==
    /\ "rbac" \in Modes
    /\ Windows \in BOOLEAN
    /\ MaxGraphGen \in Nat
    /\ MaxMailboxGen \in Nat
    /\ MaxResets \in Nat

VARIABLES
    db,         \* the committed settings, and whether the admin_user row exists
    tx,         \* the settings each POST has written and not committed
    pc,         \* the statement each POST is at
    form,       \* the step and the button of each
    fields,     \* what was submitted, until it is saved
    changed,    \* what save_credentials or save_mailbox found, until it is saved
    sample,     \* the generation and inputs a running check has read
    latched,    \* SetupGateMiddleware._complete
    resets      \* runs of reset-setup, bounded by MaxResets

requestVars == <<tx, pc, form, fields, changed, sample>>
vars == <<db, requestVars, latched, resets>>

Steps == 1 .. 5

NoInputs == [app |-> Nothing, secret |-> Nothing, mode |-> "rbac", mailbox |-> Nothing]
NoVerdict == [gen |-> -1, of |-> NoInputs]

Empty ==
    [step |-> 1, admin |-> FALSE, complete |-> FALSE, mode |-> "rbac",
     app |-> Nothing, secret |-> Nothing, mailbox |-> Nothing,
     graphGen |-> 0, mailboxGen |-> 0, graphOk |-> NoVerdict, mailboxOk |-> NoVerdict]

Keys == DOMAIN Empty

\* The buttons of each step, and what its fields can hold.  (A field emptied before
\* Back is one more edit, and left out.)
NoForm == [step |-> 0, action |-> "none"]
Forms ==
    [step : {1}, action : {"next"}]
    \cup [step : {2}, action : {"next", "back", "scoping"}]
    \cup [step : {3}, action : {"next", "back", "test_graph"}]
    \cup [step : {4}, action : {"next", "back", "test_mailbox"}]
    \cup [step : {5}, action : {"next", "back"}]

Fields(f) ==
    CASE f.step = 2 -> {[NoInputs EXCEPT !.mode = m] : m \in Modes}
      [] f.step = 3 -> [app : Apps, secret : Secrets \cup {Nothing}, mode : {"rbac"},
                        mailbox : {Nothing}]
      [] f.step = 4 -> {[NoInputs EXCEPT !.mailbox = m] : m \in Mailboxes}
      [] OTHER -> {NoInputs}

Init ==
    /\ db = Empty
    /\ tx = [r \in Requests |-> <<>>]
    /\ pc = [r \in Requests |-> "idle"]
    /\ form = [r \in Requests |-> NoForm]
    /\ fields = [r \in Requests |-> NoInputs]
    /\ changed = [r \in Requests |-> FALSE]
    /\ sample = [r \in Requests |-> NoVerdict]
    /\ latched = FALSE
    /\ resets = 0

-----------------------------------------------------------------------------
(* The transaction of a POST. *)

\* The settings as a statement of r sees them.
View(r) == [k \in Keys |-> IF k \in DOMAIN tx[r] THEN tx[r][k] ELSE db[k]]

\* A new ciphertext or timestamp is written even when the value is the same; any
\* other write of the value that is there emits no UPDATE.
Touches(state, writes) ==
    {k \in DOMAIN writes : writes[k] # state[k] \/ k \in {"secret", "graphOk", "mailboxOk"}}

Unlocked(keys, others) == \A q \in others : DOMAIN tx[q] \cap keys = {}

\* set_value of each key in writes: waits for rows another transaction has written.
Put(r, writes) ==
    LET touched == Touches(View(r), writes) IN
    /\ Unlocked(touched, Requests \ {r})
    /\ tx' = [tx EXCEPT ![r] =
         [k \in DOMAIN tx[r] \cup touched |-> IF k \in touched THEN writes[k] ELSE tx[r][k]]]

Goto(r, next) == pc' = [pc EXCEPT ![r] = next]

Only(keys, value) == [k \in keys |-> value]

\* r wrote on the strength of what it read, and has not committed.
InWindow(r) == pc[r] \in {"write", "finish"} \/ "complete" \in DOMAIN tx[r]
MayCommit(others) == Windows \/ \A q \in others : ~InWindow(q)

End(r) ==
    /\ tx' = [tx EXCEPT ![r] = <<>>]
    /\ pc' = [pc EXCEPT ![r] = "idle"]
    /\ form' = [form EXCEPT ![r] = NoForm]
    /\ fields' = [fields EXCEPT ![r] = NoInputs]
    /\ changed' = [changed EXCEPT ![r] = FALSE]
    /\ sample' = [sample EXCEPT ![r] = NoVerdict]

Commit(r) ==
    /\ pc[r] = "commit"
    /\ MayCommit(Requests \ {r})
    /\ db' = View(r)
    /\ End(r)
    /\ UNCHANGED <<latched, resets>>

\* An exception: a failed statement, two first inserts of one key, a lost client.
Fail(r) ==
    /\ pc[r] # "idle"
    /\ End(r)
    /\ UNCHANGED <<db, latched, resets>>

-----------------------------------------------------------------------------
(* setup_submit: what is saved before the action. *)

\* The gate lets the POST in and the form's step is the persisted one.
Open(r) ==
    /\ pc[r] = "idle"
    /\ ~latched /\ ~db.complete
    /\ \E f \in Forms :
         /\ f.step = db.step
         /\ form' = [form EXCEPT ![r] = f]
         /\ \E input \in Fields(f) : fields' = [fields EXCEPT ![r] = input]
         /\ Goto(r, IF f.step = 5 THEN "act" ELSE "save")
    /\ UNCHANGED <<db, tx, changed, sample, latched, resets>>

\* create_admin, update_admin_profile: one row, id 1.
SaveAccount(r) ==
    /\ pc[r] = "save" /\ form[r].step = 1
    /\ Put(r, [admin |-> TRUE])
    /\ Goto(r, "act")
    /\ UNCHANGED <<db, form, fields, changed, sample, latched, resets>>

SaveScoping(r) ==
    /\ pc[r] = "save" /\ form[r].step = 2
    /\ Put(r, [mode |-> fields[r].mode])
    /\ fields' = [fields EXCEPT ![r] = NoInputs]
    /\ Goto(r, "act")
    /\ UNCHANGED <<db, form, changed, sample, latched, resets>>

BugBlankIsEdit(step, input, state) ==
    IF step = 3 THEN input.app # state.app \/ input.secret # state.secret
    ELSE input.mailbox # state.mailbox

\* A blank secret means "unchanged".
Edits(step, input, state) ==
    IF step = 3 THEN input.app # state.app \/ input.secret # Nothing
    ELSE input.mailbox # state.mailbox

Compare(r) ==
    /\ pc[r] = "save" /\ form[r].step \in {3, 4}
    /\ changed' = [changed EXCEPT ![r] = Edits(form[r].step, fields[r], View(r))]
    /\ Goto(r, "write")
    /\ UNCHANGED <<db, tx, form, fields, sample, latched, resets>>

Written(step, input) ==
    IF step = 4 THEN [mailbox |-> input.mailbox]
    ELSE IF input.secret = Nothing THEN [app |-> input.app]
    ELSE [app |-> input.app, secret |-> input.secret]

WriteInputs(r) ==
    /\ pc[r] = "write"
    /\ Put(r, Written(form[r].step, fields[r]))
    /\ Goto(r, IF changed[r] THEN "bump" ELSE "act")
    /\ fields' = [fields EXCEPT ![r] = NoInputs]
    /\ changed' = [changed EXCEPT ![r] = FALSE]
    /\ UNCHANGED <<db, form, sample, latched, resets>>

\* bump_credentials_generation, bump_mailbox_generation: incremented in the
\* database, once the row's lock is had.
BugBumpsOwn(f) == IF f.step = 3 THEN {"graphGen"} ELSE {"mailboxGen"}

Bumped(f) == IF f.step = 3 THEN {"graphGen", "mailboxGen"} ELSE {"mailboxGen"}

MaxOf(k) == IF k = "graphGen" THEN MaxGraphGen ELSE MaxMailboxGen

Bump(r) ==
    /\ pc[r] = "bump"
    /\ \A k \in Bumped(form[r]) : db[k] < MaxOf(k)
    /\ Put(r, [k \in Bumped(form[r]) |-> db[k] + 1])
    /\ Goto(r, "act")
    /\ UNCHANGED <<db, form, fields, changed, sample, latched, resets>>

-----------------------------------------------------------------------------
(* setup_submit: the action. *)

GraphPassed(state) == state.graphOk.gen = state.graphGen
MailboxPassed(state) == state.mailboxOk.gen = state.mailboxGen
HasCredentials(state) == state.app # Nothing /\ state.secret # Nothing

Acting(r, actions) == pc[r] = "act" /\ form[r].action \in actions

\* Changing the radio button of step 2 only saves it.
Stay(r) ==
    /\ Acting(r, {"scoping"})
    /\ Goto(r, "commit")
    /\ UNCHANGED <<db, tx, form, fields, changed, sample, latched, resets>>

Back(r) ==
    /\ Acting(r, {"back"})
    /\ Put(r, [step |-> form[r].step - 1])
    /\ Goto(r, "commit")
    /\ UNCHANGED <<db, form, fields, changed, sample, latched, resets>>

CanAdvance(step, state) ==
    /\ step = 3 => GraphPassed(state)
    /\ step = 4 => MailboxPassed(state)

BugAdvancePastLast(r) ==
    /\ Acting(r, {"next"})
    /\ IF CanAdvance(form[r].step, View(r))
         THEN Put(r, [step |-> form[r].step + 1])
         ELSE UNCHANGED tx
    /\ Goto(r, "commit")
    /\ UNCHANGED <<db, form, fields, changed, sample, latched, resets>>

Advance(r) ==
    /\ Acting(r, {"next"}) /\ form[r].step < 5
    /\ IF CanAdvance(form[r].step, View(r))
         THEN Put(r, [step |-> form[r].step + 1])
         ELSE UNCHANGED tx
    /\ Goto(r, "commit")
    /\ UNCHANGED <<db, form, fields, changed, sample, latched, resets>>

\* complete_setup, which checks everything again ...
BugTrustsStep(state) == state.admin /\ HasCredentials(state)

Ready(state) ==
    /\ state.admin
    /\ HasCredentials(state)
    /\ GraphPassed(state)
    /\ MailboxPassed(state)

CheckAll(r) ==
    /\ Acting(r, {"next"}) /\ form[r].step = 5
    /\ Goto(r, IF Ready(View(r)) THEN "finish" ELSE "commit")
    /\ UNCHANGED <<db, tx, form, fields, changed, sample, latched, resets>>

\* ... and then writes.
Finish(r) ==
    /\ pc[r] = "finish"
    /\ Put(r, [complete |-> TRUE, step |-> 5])
    /\ Goto(r, "commit")
    /\ UNCHANGED <<db, form, fields, changed, sample, latched, resets>>

-----------------------------------------------------------------------------
(* run_graph_test and run_mailbox_test. *)

GenKey(f) == IF f.action = "test_graph" THEN "graphGen" ELSE "mailboxGen"
OkKey(f) == IF f.action = "test_graph" THEN "graphOk" ELSE "mailboxOk"

\* The inputs the call depends on.
InputsOf(f, state) ==
    LET graph == f.action = "test_graph" IN
    [app |-> state.app, secret |-> state.secret,
     mode |-> IF graph THEN state.mode ELSE "rbac",
     mailbox |-> IF graph THEN Nothing ELSE state.mailbox]

\* The check is over for r.
Forget(r) == sample' = [sample EXCEPT ![r] = NoVerdict]

\* The generation is read first.
ReadGeneration(r) ==
    /\ Acting(r, {"test_graph", "test_mailbox"})
    /\ sample' = [sample EXCEPT ![r] = [gen |-> View(r)[GenKey(form[r])], of |-> NoInputs]]
    /\ Goto(r, "read")
    /\ UNCHANGED <<db, tx, form, fields, changed, latched, resets>>

Testable(f, state) ==
    HasCredentials(state) /\ (f.action = "test_mailbox" => state.mailbox # Nothing)

\* Then the inputs.  The call to Graph follows.
ReadInputs(r) ==
    /\ pc[r] = "read"
    /\ IF Testable(form[r], View(r))
         THEN /\ sample' = [sample EXCEPT ![r].of = InputsOf(form[r], View(r))]
              /\ Goto(r, "recheck")
         ELSE Goto(r, "commit") /\ Forget(r)
    /\ UNCHANGED <<db, tx, form, fields, changed, latched, resets>>

\* _record: a superseded result is discarded.  Graph's answer is either way.
Recheck(r) ==
    /\ pc[r] = "recheck"
    /\ IF View(r)[GenKey(form[r])] = sample[r].gen
         THEN \/ Goto(r, "pass") /\ UNCHANGED sample
              \/ Goto(r, "fail") /\ Forget(r)
         ELSE Goto(r, "commit") /\ Forget(r)
    /\ UNCHANGED <<db, tx, form, fields, changed, latched, resets>>

\* A pass is stamped with the generation read before the call ...
Stamp(r) == sample[r]

RecordPass(r) ==
    /\ pc[r] = "pass"
    /\ Put(r, Only({OkKey(form[r])}, Stamp(r)))
    /\ Goto(r, "commit")
    /\ Forget(r)
    /\ UNCHANGED <<db, form, fields, changed, latched, resets>>

\* ... and a failure deletes the verdict.
RecordFail(r) ==
    /\ pc[r] = "fail"
    /\ Put(r, Only({OkKey(form[r])}, NoVerdict))
    /\ Goto(r, "commit")
    /\ UNCHANGED <<db, form, fields, changed, sample, latched, resets>>

-----------------------------------------------------------------------------
(* The rest of the system. *)

\* GET /setup/{n}: a step already reached is shown again, and becomes the current one.
Revisit ==
    /\ ~latched /\ ~db.complete
    /\ Unlocked({"step"}, Requests)
    /\ MayCommit(Requests)
    /\ \E n \in 1 .. db.step : db' = [db EXCEPT !.step = n]
    /\ UNCHANGED <<requestVars, latched, resets>>

\* Any request passes the gate, which remembers a completed setup.
Visit ==
    /\ latched' = (latched \/ db.complete)
    /\ UNCHANGED <<db, requestVars, resets>>

\* reset_setup, in a process of its own.
ResetWrites ==
    [app |-> Nothing, secret |-> Nothing, graphOk |-> NoVerdict, mailboxOk |-> NoVerdict,
     complete |-> FALSE, step |-> 3]

ResetSetup ==
    /\ resets < MaxResets
    /\ Unlocked(Touches(db, ResetWrites), Requests)
    /\ MayCommit(Requests)
    /\ db' = [k \in Keys |-> IF k \in DOMAIN ResetWrites THEN ResetWrites[k] ELSE db[k]]
    /\ resets' = resets + 1
    /\ UNCHANGED <<requestVars, latched>>

\* The API process restarts.
Restart ==
    /\ latched' = FALSE
    /\ tx' = [r \in Requests |-> <<>>]
    /\ pc' = [r \in Requests |-> "idle"]
    /\ form' = [r \in Requests |-> NoForm]
    /\ fields' = [r \in Requests |-> NoInputs]
    /\ changed' = [r \in Requests |-> FALSE]
    /\ sample' = [r \in Requests |-> NoVerdict]
    /\ UNCHANGED <<db, resets>>

-----------------------------------------------------------------------------
Save(r) == SaveAccount(r) \/ SaveScoping(r) \/ Compare(r) \/ WriteInputs(r) \/ Bump(r)

Act(r) == Stay(r) \/ Back(r) \/ Advance(r) \/ CheckAll(r) \/ Finish(r)

Test(r) ==
    \/ ReadGeneration(r)
    \/ ReadInputs(r)
    \/ Recheck(r)
    \/ RecordPass(r)
    \/ RecordFail(r)

Next ==
    \/ \E r \in Requests : Open(r) \/ Save(r) \/ Act(r) \/ Test(r) \/ Commit(r) \/ Fail(r)
    \/ Revisit
    \/ Visit
    \/ ResetSetup
    \/ Restart

Spec == Init /\ [][Next]_vars

-----------------------------------------------------------------------------
(* Properties. *)

Inputs ==
    [app : Apps \cup {Nothing}, secret : Secrets \cup {Nothing}, mode : Modes,
     mailbox : Mailboxes \cup {Nothing}]
Verdicts(maxGen) == [gen : -1 .. maxGen, of : Inputs]
PCs == {"idle", "save", "write", "bump", "act", "finish", "read", "recheck", "pass", "fail", "commit"}

\* The values of each setting.
ValuesOf(k) ==
    CASE k = "step" -> Steps
      [] k \in {"admin", "complete"} -> BOOLEAN
      [] k = "mode" -> Modes
      [] k = "app" -> Apps \cup {Nothing}
      [] k = "secret" -> Secrets \cup {Nothing}
      [] k = "mailbox" -> Mailboxes \cup {Nothing}
      [] k \in {"graphGen", "mailboxGen"} -> 0 .. MaxOf(k)
      [] k = "graphOk" -> Verdicts(MaxGraphGen)
      [] k = "mailboxOk" -> Verdicts(MaxMailboxGen)

\* Settings, uncommitted writes and requests have the values the code gives them.
TypeOK ==
    /\ DOMAIN db = Keys /\ \A k \in Keys : db[k] \in ValuesOf(k)
    /\ DOMAIN tx = Requests
    /\ \A r \in Requests :
         /\ DOMAIN tx[r] \subseteq Keys
         /\ \A k \in DOMAIN tx[r] : tx[r][k] \in ValuesOf(k)
    /\ pc \in [Requests -> PCs]
    /\ form \in [Requests -> Forms \cup {NoForm}]
    /\ fields \in [Requests -> Inputs]
    /\ changed \in [Requests -> BOOLEAN]
    /\ sample \in [Requests -> Verdicts(MaxGraphGen) \cup Verdicts(MaxMailboxGen)]
    /\ latched \in BOOLEAN
    /\ resets \in 0 .. MaxResets

\* "A verdict counts only if it was produced against the inputs still in place"
\* (load_state): a current verdict, of a system that has credentials, is one that
\* these credentials, and this mailbox, were tested for, however slow the test
\* was, whatever was submitted meanwhile.  The scoping mode is no such input to the
\* code: a change of it invalidates nothing.
VerdictsAreEarned ==
    HasCredentials(db) =>
      /\ GraphPassed(db) => /\ db.graphOk.of.app = db.app
                            /\ db.graphOk.of.secret = db.secret
      /\ MailboxPassed(db) => /\ db.mailboxOk.of.app = db.app
                              /\ db.mailboxOk.of.secret = db.secret
                              /\ db.mailboxOk.of.mailbox = db.mailbox

\* "The wizard cannot complete without both verifications passing": when setup
\* becomes complete, the credentials and mailbox it leaves have both passed.
CompletionIsVerified ==
    [][~db.complete /\ db'.complete =>
         /\ db'.admin /\ HasCredentials(db')
         /\ GraphPassed(db') /\ MailboxPassed(db')
         /\ db'.graphOk.of.app = db'.app /\ db'.graphOk.of.secret = db'.secret
         /\ db'.mailboxOk.of.app = db'.app /\ db'.mailboxOk.of.secret = db'.secret
         /\ db'.mailboxOk.of.mailbox = db'.mailbox]_vars

\* A POST that moves through the wizard and writes no input invalidates nothing
\* that passed (save_credentials: a blank secret is not an edit; save_mailbox),
\* whatever it overlaps with.
MovesOnly(r) ==
    /\ form[r].action \in {"next", "back", "scoping"}
    /\ DOMAIN tx[r] \cap {"app", "secret", "mailbox"} = {}

MovingKeepsVerdicts ==
    [][\A r \in Requests :
         pc[r] = "commit" /\ pc'[r] = "idle" /\ MovesOnly(r)
         => /\ GraphPassed(db) => GraphPassed(db')
            /\ MailboxPassed(db) => MailboxPassed(db')]_vars
=============================================================================
