-------------------------------- MODULE Access --------------------------------
(***************************************************************************)
(* Who is shown what: the gate of rua/middleware.py, the sign-in of        *)
(* rua/routes/auth.py and rua/security.py, the administrator account that  *)
(* step 1 of the wizard writes, the sample-data detour, `rua reset-setup`, *)
(* restarts, and a SECRET_KEY that is rotated (rua/crypto.py).             *)
(*                                                                         *)
(* A session is a signed cookie: the server keeps nothing, and what a      *)
(* browser holds is the key its sign-in was signed under, or 0.  A browser *)
(* may have one page under way besides what it does next; the answer can   *)
(* put the cookie back that the request carried.  The transaction of a     *)
(* request is committed after the answer is out (rua/db.py), so a redirect *)
(* can be followed before it.  A POST refused for its form token changes   *)
(* nothing and is left out.  The checks of steps 3 and 4 are SetupWizard's:*)
(* here they have passed or not.                                           *)
(***************************************************************************)
EXTENDS Naturals

CONSTANTS
    Browsers,
    Names,          \* addresses, but for case and surrounding blanks
    Passwords,
    LongEnough,     \* the passwords of at least 12 characters
    Nothing,        \* no account, an empty field, nothing under way
    MaxKey,         \* bound: SECRET_KEY is rotated MaxKey - 1 times
    MaxResets       \* bound: runs of `rua reset-setup`

ASSUME InputAssumption ==
    /\ LongEnough \subseteq Passwords
    /\ Nothing \notin Passwords \cup Nat

ASSUME BoundAssumption == MaxKey \in Nat \ {0} /\ MaxResets \in Nat

VARIABLES
    db,         \* the settings and the admin_user row, as committed
    pending,    \* what each browser's answered request has still to commit
    latched,    \* SetupGateMiddleware._complete
    key,        \* the SECRET_KEY in use
    cookie,     \* the key under which each browser was signed in, or 0
    slow,       \* the cookie carried by the page each browser still waits for
    resets,     \* runs of reset-setup, bounded by MaxResets
    \* bookkeeping for the properties
    entered,    \* the address and password step 1 last accepted, as typed
    earned,     \* who proved to be the administrator, under the key in use
    resetSince, \* reset-setup has run since the process started
    madeUnder   \* the key in use when setup was completed

past == <<entered, earned, resetSince, madeUnder>>
vars == <<db, pending, latched, key, cookie, slow, resets, past>>

Keys == 1 .. MaxKey

Address == [name : Names, upper : BOOLEAN, blanks : BOOLEAN]

\* str.strip and str.lower.
Strip(address) == [address EXCEPT !.blanks = FALSE]
Lower(address) == [address EXCEPT !.upper = FALSE]

Account == [email : Address, password : Passwords]

ASSUME NoAccountAssumption == Nothing \notin Account

Settings ==
    [complete : BOOLEAN, demo : BOOLEAN, step : 1 .. 5, admin : Account \cup {Nothing},
     secret : 0 .. MaxKey,  \* the key the client secret is encrypted under
     verified : BOOLEAN]    \* both verdicts are current

Init ==
    /\ db = [complete |-> FALSE, demo |-> FALSE, step |-> 1, admin |-> Nothing,
             secret |-> 0, verified |-> FALSE]
    /\ pending = [b \in Browsers |-> "none"]
    /\ latched = FALSE
    /\ key = 1
    /\ cookie = [b \in Browsers |-> 0]
    /\ slow = [b \in Browsers |-> Nothing]
    /\ resets = 0
    /\ entered = Nothing
    /\ earned = {}
    /\ resetSince = FALSE
    /\ madeUnder = 0

-----------------------------------------------------------------------------
(* The gate: what one request is answered.  up: the database answers. *)

\* A cookie signed under another key is not read.
IsSignedIn(b) == cookie[b] = key

\* A place is a path, with the page to go to once signed in.
To(path) == [path |-> path, next |-> "/"]
Shows(page) == [path |-> "", next |-> page]
Arrived(place) == place.path = ""

InWizard(path) == path \in {"/setup", "/setup/step"}

\* The handlers behind the gate.
SetupRoot == To("/setup/step")
SetupStep == Shows("wizard")
LoginForm(b, next) == IF IsSignedIn(b) THEN To(next) ELSE Shows("login")
Dashboard(up) == Shows(IF up THEN "dashboard" ELSE "error")

Handle(b, place, up) ==
    CASE place.path = "/setup" -> SetupRoot
      [] place.path = "/setup/step" -> SetupStep
      [] place.path = "/login" -> LoginForm(b, place.next)
      [] OTHER -> Dashboard(up)

\* SetupGateMiddleware._state: a latched answer, the database's, or none.
GateState(up) ==
    IF latched THEN [known |-> TRUE, complete |-> TRUE, demo |-> FALSE]
    ELSE [known |-> up, complete |-> db.complete, demo |-> db.demo]

BugGateGuardsLogin(b, place, up) ==
    LET state == GateState(up)
        login == [path |-> "/login", next |-> place.path] IN
    IF ~state.known THEN Shows("unavailable")
    ELSE IF state.complete
      THEN IF InWizard(place.path) THEN To("/")
           ELSE IF ~IsSignedIn(b) THEN login
           ELSE Handle(b, place, up)
    ELSE IF ~state.demo /\ ~InWizard(place.path) THEN To("/setup")
    ELSE Handle(b, place, up)

BugDemoSkipsSetup(b, place, up) ==
    LET state == GateState(up)
        login == [path |-> "/login", next |-> place.path] IN
    IF ~state.known THEN Shows("unavailable")
    ELSE IF state.complete \/ (state.demo /\ InWizard(place.path))
      THEN IF InWizard(place.path) THEN To("/")
           ELSE IF place.path # "/login" /\ ~IsSignedIn(b) THEN login
           ELSE Handle(b, place, up)
    ELSE IF ~state.demo /\ ~InWizard(place.path) THEN To("/setup")
    ELSE Handle(b, place, up)

\* SetupGateMiddleware.dispatch.
Answer(b, place, up) ==
    LET state == GateState(up)
        login == [path |-> "/login", next |-> place.path] IN
    IF ~state.known THEN Shows("unavailable")
    ELSE IF state.complete
      THEN IF InWizard(place.path) THEN To("/")
           ELSE IF place.path # "/login" /\ ~IsSignedIn(b) THEN login
           ELSE Handle(b, place, up)
    ELSE IF ~state.demo /\ ~InWizard(place.path) THEN To("/setup")
    ELSE Handle(b, place, up)

\* The wizard lets a request of b in.
WizardOpen == ~GateState(TRUE).complete

Idle(b) == pending[b] = "none"

-----------------------------------------------------------------------------
(* Requests. *)

BugLatchDemo == latched \/ db.complete \/ db.demo

\* What a request that reaches the database leaves in the process.
Remembered == latched \/ db.complete

\* A page is asked for ...
Ask(b) ==
    /\ slow[b] = Nothing
    /\ slow' = [slow EXCEPT ![b] = cookie[b]]
    /\ latched' = Remembered
    /\ UNCHANGED <<db, pending, key, cookie, resets, past>>

\* ... and its answer may carry the cookie of the request.
Receive(b) ==
    /\ slow[b] # Nothing
    /\ \/ cookie' = [cookie EXCEPT ![b] = slow[b]]
       \/ UNCHANGED cookie
    /\ slow' = [slow EXCEPT ![b] = Nothing]
    /\ UNCHANGED <<db, pending, latched, key, resets, past>>

BugAddressSuffices(account, email, password) ==
    account # Nothing /\ account.email = Lower(Strip(email))

\* login_submit: the row of that address, and its password.
LoginMatches(account, email, password) ==
    /\ account # Nothing
    /\ account.email = Lower(Strip(email))
    /\ account.password = password

\* Whoever types the account's own address, in whatever case.
IsAdministrator(account, email, password) ==
    /\ account # Nothing
    /\ Lower(account.email) = Lower(Strip(email))
    /\ account.password = password

Login(b) ==
    /\ Idle(b)
    /\ GateState(TRUE).complete \/ GateState(TRUE).demo
    /\ latched' = Remembered
    /\ \E email \in Address, password \in Passwords :
         /\ LoginMatches(db.admin, email, password)
         /\ cookie' = [cookie EXCEPT ![b] = key]
         /\ earned' = IF IsAdministrator(db.admin, email, password)
                        THEN earned \cup {b} ELSE earned
    /\ UNCHANGED <<db, pending, key, slow, resets, entered, resetSince, madeUnder>>

Logout(b) ==
    /\ Idle(b) /\ IsSignedIn(b)
    /\ GateState(TRUE).complete \/ GateState(TRUE).demo
    /\ cookie' = [cookie EXCEPT ![b] = 0]
    /\ latched' = Remembered
    /\ UNCHANGED <<db, pending, key, slow, resets, past>>

\* Twelve hours, or a browser that is closed.
Expire(b) ==
    /\ cookie[b] # 0
    /\ cookie' = [cookie EXCEPT ![b] = 0]
    /\ UNCHANGED <<db, pending, latched, key, slow, resets, past>>

-----------------------------------------------------------------------------
(* The wizard, as far as access depends on it. *)

\* A POST is let in; a completed setup would have been remembered.
InStep(b, steps) == Idle(b) /\ WizardOpen /\ db.step \in steps

BugEmailFirst(account, email, password) ==
    IF password \in LongEnough THEN [email |-> Strip(email), password |-> password]
    ELSE IF account = Nothing THEN Nothing ELSE [account EXCEPT !.email = Strip(email)]

\* create_admin, or update_admin_profile when the password is left empty.  The
\* password is hashed, and refused if too short, before anything is assigned.
SavedAccount(account, email, password) ==
    IF password = Nothing
      THEN IF account = Nothing THEN Nothing ELSE [account EXCEPT !.email = Strip(email)]
    ELSE IF password \in LongEnough THEN [email |-> Strip(email), password |-> password]
    ELSE account

\* Step 1 says whether it took what was typed.
Took(email, password) ==
    IF password = Nothing
      THEN IF entered = Nothing THEN Nothing ELSE [entered EXCEPT !.email = email]
    ELSE IF password \in LongEnough THEN [email |-> email, password |-> password]
    ELSE entered

SubmitAccount(b) ==
    /\ InStep(b, {1})
    /\ \E email \in Address, password \in Passwords \cup {Nothing} :
         /\ db' = [db EXCEPT !.admin = SavedAccount(db.admin, email, password)]
         /\ entered' = Took(email, password)
    /\ UNCHANGED <<pending, latched, key, cookie, slow, resets, earned, resetSince, madeUnder>>

BugUnclamped(b) ==
    /\ InStep(b, 1 .. 5)
    /\ \E n \in 0 .. 6 :
         /\ n <= db.step \/ (n = db.step + 1 /\ (db.step \in {3, 4} => db.verified))
         /\ db' = [db EXCEPT !.step = n]
    /\ UNCHANGED <<pending, latched, key, cookie, slow, resets, past>>

\* Back, Continue, or a step shown again: steps 3 and 4 let pass what is verified.
Move(b) ==
    /\ InStep(b, 1 .. 5)
    /\ \E n \in 1 .. 5 :
         /\ n <= db.step \/ (n = db.step + 1 /\ (db.step \in {3, 4} => db.verified))
         /\ db' = [db EXCEPT !.step = n]
    /\ UNCHANGED <<pending, latched, key, cookie, slow, resets, past>>

\* Steps 3 and 4: an edit makes a verdict void; a new secret is encrypted under the
\* key in use.
EditInputs(b) ==
    /\ InStep(b, {3, 4})
    /\ \E secret \in {db.secret} \cup (IF db.step = 3 THEN {key} ELSE {}) :
         db' = [db EXCEPT !.secret = secret, !.verified = FALSE]
    /\ UNCHANGED <<pending, latched, key, cookie, slow, resets, past>>

\* settings_store.get: what another key encrypted reads as absent.
HasSecret == db.secret = key

\* run_graph_test and run_mailbox_test: no new verdict without the secret.
RunChecks(b) ==
    /\ InStep(b, {3, 4})
    /\ HasSecret
    /\ \E ok \in BOOLEAN : db' = [db EXCEPT !.verified = ok]
    /\ UNCHANGED <<pending, latched, key, cookie, slow, resets, past>>

BugVerdictsSuffice == db.admin # Nothing /\ db.verified

\* complete_setup.
Ready == db.admin # Nothing /\ HasSecret /\ db.verified

\* The answer signs in and leads to "/".
Finish(b) ==
    /\ InStep(b, {5})
    /\ Ready
    /\ pending' = [pending EXCEPT ![b] = "complete"]
    /\ cookie' = [cookie EXCEPT ![b] = key]
    /\ earned' = earned \cup {b}
    /\ UNCHANGED <<db, latched, key, slow, resets, entered, resetSince, madeUnder>>

\* "Explore with sample data", from any step.
Sample(b) ==
    /\ InStep(b, 1 .. 5)
    /\ pending' = [pending EXCEPT ![b] = "demo"]
    /\ UNCHANGED <<db, latched, key, cookie, slow, resets, past>>

\* get_session commits, after the answer ...
Commit(b) ==
    /\ ~Idle(b)
    /\ IF pending[b] = "complete"
         THEN /\ db' = [db EXCEPT !.complete = TRUE, !.step = 5]
              /\ madeUnder' = key
         ELSE /\ db' = [db EXCEPT !.demo = TRUE]
              /\ UNCHANGED madeUnder
    /\ pending' = [pending EXCEPT ![b] = "none"]
    /\ UNCHANGED <<latched, key, cookie, slow, resets, entered, earned, resetSince>>

\* ... or cannot.
Lose(b) ==
    /\ ~Idle(b)
    /\ pending' = [pending EXCEPT ![b] = "none"]
    /\ UNCHANGED <<db, latched, key, cookie, slow, resets, past>>

-----------------------------------------------------------------------------
(* The host. *)

\* reset_setup, in a process of its own.  (Not between a Finish and its commit.)
ResetSetup ==
    /\ resets < MaxResets
    /\ \A b \in Browsers : pending[b] # "complete"
    /\ db' = [db EXCEPT !.complete = FALSE, !.step = 3, !.secret = 0, !.verified = FALSE]
    /\ resets' = resets + 1
    /\ resetSince' = TRUE
    /\ UNCHANGED <<pending, latched, key, cookie, slow, entered, earned, madeUnder>>

\* A new process remembers nothing.
StartProcess ==
    /\ latched' = FALSE
    /\ resetSince' = FALSE
    /\ pending' = [b \in Browsers |-> "none"]
    /\ slow' = [b \in Browsers |-> Nothing]

Restart ==
    /\ StartProcess
    /\ UNCHANGED <<db, key, cookie, resets, entered, earned, madeUnder>>

\* A restart with another SECRET_KEY.
Rotate ==
    /\ key < MaxKey
    /\ key' = key + 1
    /\ earned' = {}
    /\ StartProcess
    /\ UNCHANGED <<db, cookie, resets, entered, madeUnder>>

-----------------------------------------------------------------------------
Browse(b) == Ask(b) \/ Receive(b) \/ Login(b) \/ Logout(b) \/ Expire(b)

Setup(b) ==
    \/ SubmitAccount(b)
    \/ Move(b)
    \/ EditInputs(b)
    \/ RunChecks(b)
    \/ Finish(b)
    \/ Sample(b)
    \/ Commit(b)
    \/ Lose(b)

Next ==
    \/ \E b \in Browsers : Browse(b) \/ Setup(b)
    \/ ResetSetup
    \/ Restart
    \/ Rotate

Spec == Init /\ [][Next]_vars

-----------------------------------------------------------------------------
(* Properties. *)

\* Every setting, cookie and pending write is of its kind.
TypeOK ==
    /\ db \in Settings
    /\ pending \in [Browsers -> {"none", "complete", "demo"}]
    /\ latched \in BOOLEAN
    /\ key \in Keys
    /\ cookie \in [Browsers -> 0 .. MaxKey]
    /\ slow \in [Browsers -> (0 .. MaxKey) \cup {Nothing}]
    /\ resets \in 0 .. MaxResets
    /\ entered \in Account \cup {Nothing}
    /\ earned \in SUBSET Browsers
    /\ resetSince \in BOOLEAN
    /\ madeUnder \in 0 .. MaxKey

\* A browser the gate takes for the administrator gave the address and the password,
\* or finished the setup, under the key in use, whatever answers were under way.
SignedInIsEarned == \A b \in Browsers : IsSignedIn(b) => b \in earned

\* The gate's memory of a completed setup is right, unless reset-setup has run beside
\* the running process.
LatchIsExplained == latched => db.complete \/ resetSince

Doors == {To(path) : path \in {"/", "/setup", "/setup/step", "/login"}}
    \cup {[path |-> "/login", next |-> path] : path \in {"/setup", "/login"}}

Follow(b, place, up) == IF Arrived(place) THEN place ELSE Answer(b, place, up)

Landing(b, door, up) ==
    LET second == Follow(b, Answer(b, door, up), up)
        third == Follow(b, second, up) IN
    Follow(b, third, up)

\* Whatever is asked for, in whatever state of setup, cookie, latch and database, the
\* redirects of the gate, the wizard and the login end at a page within four requests.
NavigationEnds ==
    \A b \in Browsers, door \in Doors, up \in BOOLEAN : Arrived(Landing(b, door, up))

\* "make the first-run wizard unavoidable before setup and unreachable after it": no
\* redirect leads anywhere else before (sample data aside), and none into it after.
WizardUnavoidable ==
    \A b \in Browsers, door \in Doors :
      /\ (~db.complete /\ ~db.demo /\ ~latched) => Landing(b, door, TRUE) = Shows("wizard")
      /\ (~db.complete /\ ~latched) => Landing(b, To("/setup"), TRUE) = Shows("wizard")
      /\ db.complete => Landing(b, door, TRUE) # Shows("wizard")

\* Once setup is complete, what step 1 last accepted opens the account: "Every later visit
\* asks for the administrator email and password from step 1 of the wizard"
\* (docs/deploy.md).
AccountOpens ==
    (entered # Nothing /\ db.complete) => LoginMatches(db.admin, entered.email, entered.password)

\* AccountOpens for an address typed without capitals.
LowercaseAccountOpens ==
    (entered # Nothing /\ ~entered.email.upper) =>
      LoginMatches(db.admin, entered.email, entered.password)

\* A setup completed under the key in use left a secret that a poll can read: verdicts
\* that outlive a rotation do not complete it.
CompletionCanPoll == (db.complete /\ madeUnder = key) => HasSecret
===============================================================================
