------------------------------ MODULE AccessProofs ------------------------------
(***************************************************************************)
(* Theorems about Access, for any browsers, addresses, passwords and any   *)
(* number of key rotations and resets.                                     *)
(***************************************************************************)
EXTENDS Access, TLAPS

\* What the cookies under way can still do: none is of a key to come, and one of the key
\* in use is its browser's own.
CookiesArePast ==
    \A b \in Browsers :
      /\ cookie[b] <= key
      /\ slow[b] # Nothing => slow[b] <= key /\ (slow[b] = key => b \in earned)

\* A setup about to be committed has its secret, and none was made under a key to come.
PendingCanPoll ==
    /\ madeUnder <= key
    /\ \A b \in Browsers : pending[b] = "complete" => HasSecret

\* The account is what step 1 last accepted, without the blanks.
AccountAsEntered ==
    IF entered = Nothing THEN db.admin = Nothing
    ELSE /\ db.admin # Nothing
         /\ db.admin.email = Strip(entered.email)
         /\ db.admin.password = entered.password

SessionInv == SignedInIsEarned /\ CookiesArePast
SecretInv == CompletionCanPoll /\ PendingCanPoll

-----------------------------------------------------------------------------
\* Addresses stay addresses, and case is folded once and for all.
LEMMA AddressFacts ==
    \A a \in Address :
      /\ Strip(a) \in Address /\ Lower(a) \in Address
      /\ Lower(Lower(a)) = Lower(a)
      /\ Strip(a).upper = a.upper
      /\ ~a.upper => Lower(a) = a
  BY DEF Address, Strip, Lower

\* Whoever login_submit lets in is the administrator.
LEMMA MatchIsAdministrator ==
    ASSUME NEW account, NEW email \in Address, NEW password,
           LoginMatches(account, email, password)
    PROVE  IsAdministrator(account, email, password)
  BY AddressFacts DEF LoginMatches, IsAdministrator

\* Step 1 leaves an account or none.
LEMMA SavedAccountType ==
    ASSUME NEW account \in Account \cup {Nothing}, NEW email \in Address,
           NEW password \in Passwords \cup {Nothing}
    PROVE  SavedAccount(account, email, password) \in Account \cup {Nothing}
  <1>1. Strip(email) \in Address
    BY AddressFacts
  <1>2. CASE password = Nothing
    BY <1>1, <1>2 DEF SavedAccount, Account
  <1>3. CASE password # Nothing
    BY <1>1, <1>3 DEF SavedAccount, Account
  <1> QED BY <1>2, <1>3

\* The settings after a commit and after reset-setup.
LEMMA CommittedType ==
    ASSUME NEW s \in Settings
    PROVE  /\ [s EXCEPT !.complete = TRUE, !.step = 5] \in Settings
           /\ [s EXCEPT !.complete = TRUE, !.step = 5].complete
           /\ [s EXCEPT !.demo = TRUE] \in Settings
           /\ [s EXCEPT !.demo = TRUE].complete = s.complete
  <1>1. 5 \in 1 .. 5
    OBVIOUS
  <1>2. \A n \in 1 .. 5 : [s EXCEPT !.complete = TRUE, !.step = n] \in Settings
    BY DEF Settings
  <1> QED BY <1>1, <1>2 DEF Settings

LEMMA ResetType ==
    ASSUME NEW s \in Settings
    PROVE  LET t == [s EXCEPT !.complete = FALSE, !.step = 3, !.secret = 0,
                              !.verified = FALSE]
           IN  t \in Settings /\ ~t.complete
  <1>1. 3 \in 1 .. 5 /\ 0 \in 0 .. MaxKey
    BY BoundAssumption
  <1>2. \A n \in 1 .. 5, k \in 0 .. MaxKey :
          [s EXCEPT !.complete = FALSE, !.step = n, !.secret = k, !.verified = FALSE]
            \in Settings
    BY DEF Settings
  <1> QED BY <1>1, <1>2 DEF Settings

-----------------------------------------------------------------------------
LEMMA TypeInit == Init => TypeOK
  <1> SUFFICES ASSUME Init PROVE TypeOK
    OBVIOUS
  <1> USE BoundAssumption DEF Init
  <1>1. db \in Settings
    BY DEF Settings
  <1>2. key \in Keys /\ madeUnder \in 0 .. MaxKey /\ resets \in 0 .. MaxResets
    BY DEF Keys
  <1>3. /\ cookie \in [Browsers -> 0 .. MaxKey]
        /\ slow \in [Browsers -> (0 .. MaxKey) \cup {Nothing}]
    OBVIOUS
  <1> QED BY <1>1, <1>2, <1>3 DEF TypeOK

LEMMA TypeNext == TypeOK /\ [Next]_vars => TypeOK'
  <1> SUFFICES ASSUME TypeOK, [Next]_vars PROVE TypeOK'
    OBVIOUS
  <1> USE BoundAssumption DEF TypeOK, past
  <1>1. ASSUME NEW b \in Browsers, Browse(b) PROVE TypeOK'
    <2>1. CASE Ask(b)
      BY <2>1 DEF Ask, Remembered, Settings
    <2>2. CASE Receive(b)
      BY <2>2 DEF Receive
    <2>3. CASE Login(b)
      BY <2>3 DEF Login, Remembered, Settings, Keys
    <2>4. CASE Logout(b)
      BY <2>4 DEF Logout, Remembered, Settings
    <2>5. CASE Expire(b)
      BY <2>5 DEF Expire
    <2> QED BY <1>1, <2>1, <2>2, <2>3, <2>4, <2>5 DEF Browse
  <1>2. ASSUME NEW b \in Browsers, Setup(b) PROVE TypeOK'
    <2>1. CASE SubmitAccount(b)
      <3>1. PICK email \in Address, password \in Passwords \cup {Nothing} :
              /\ db' = [db EXCEPT !.admin = SavedAccount(db.admin, email, password)]
              /\ entered' = Took(email, password)
        BY <2>1 DEF SubmitAccount
      <3>2. db' \in Settings
        BY <3>1, SavedAccountType DEF Settings
      <3>3. entered' \in Account \cup {Nothing}
        BY <3>1 DEF Took, Account
      <3> QED BY <2>1, <3>2, <3>3 DEF SubmitAccount
    <2>2. CASE Move(b)
      BY <2>2 DEF Move, Settings
    <2>3. CASE EditInputs(b)
      <3>1. PICK secret \in {db.secret, key} :
              db' = [db EXCEPT !.secret = secret, !.verified = FALSE]
        BY <2>3 DEF EditInputs
      <3>2. secret \in 0 .. MaxKey
        BY DEF Settings, Keys
      <3>3. db' \in Settings
        BY <3>1, <3>2 DEF Settings
      <3> QED BY <2>3, <3>3 DEF EditInputs
    <2>4. CASE RunChecks(b)
      BY <2>4 DEF RunChecks, Settings
    <2>5. CASE Finish(b)
      BY <2>5 DEF Finish, Keys
    <2>6. CASE Sample(b)
      BY <2>6 DEF Sample
    <2>7. CASE Commit(b)
      <3>1. db' \in Settings
        BY <2>7, CommittedType DEF Commit
      <3>2. madeUnder' \in 0 .. MaxKey
        BY <2>7 DEF Commit, Keys
      <3> QED BY <2>7, <3>1, <3>2 DEF Commit
    <2>8. CASE Lose(b)
      BY <2>8 DEF Lose
    <2> QED BY <1>2, <2>1, <2>2, <2>3, <2>4, <2>5, <2>6, <2>7, <2>8 DEF Setup
  <1>3. CASE ResetSetup
    <2>1. db' \in Settings
      BY <1>3, ResetType DEF ResetSetup
    <2> QED BY <1>3, <2>1 DEF ResetSetup
  <1>4. CASE Restart
    BY <1>4 DEF Restart, StartProcess
  <1>5. CASE Rotate
    <2>1. key' \in Keys
      BY <1>5 DEF Rotate, Keys
    <2> QED BY <1>5, <2>1 DEF Rotate, StartProcess
  <1>6. CASE UNCHANGED vars
    BY <1>6 DEF vars
  <1> QED BY <1>1, <1>2, <1>3, <1>4, <1>5, <1>6 DEF Next

\* Every setting, cookie and pending write stays of its kind.
THEOREM TypeCorrect == Spec => []TypeOK
  BY TypeInit, TypeNext, PTL DEF Spec

-----------------------------------------------------------------------------
LEMMA SessionNext == TypeOK /\ SessionInv /\ [Next]_vars => SessionInv'
  <1> SUFFICES ASSUME TypeOK, SessionInv, [Next]_vars PROVE SessionInv'
    OBVIOUS
  <1> USE InputAssumption, BoundAssumption
      DEF TypeOK, SessionInv, SignedInIsEarned, CookiesArePast, IsSignedIn, past, Keys
  <1>1. ASSUME NEW b \in Browsers, Browse(b) PROVE SessionInv'
    <2>1. CASE Ask(b)
      BY <2>1 DEF Ask
    <2>2. CASE Receive(b)
      BY <2>2 DEF Receive
    <2>3. CASE Login(b)
      BY <2>3, MatchIsAdministrator DEF Login
    <2>4. CASE Logout(b)
      BY <2>4 DEF Logout
    <2>5. CASE Expire(b)
      BY <2>5 DEF Expire
    <2> QED BY <1>1, <2>1, <2>2, <2>3, <2>4, <2>5 DEF Browse
  <1>2. ASSUME NEW b \in Browsers, Setup(b) PROVE SessionInv'
    <2>1. CASE Finish(b)
      BY <2>1 DEF Finish
    <2>2. CASE ~Finish(b)
      <3>1. UNCHANGED <<cookie, slow, key, earned>>
        BY <1>2, <2>2
           DEF Setup, SubmitAccount, Move, EditInputs, RunChecks, Sample, Commit, Lose
      <3> QED BY <3>1
    <2> QED BY <2>1, <2>2
  <1>3. CASE ResetSetup
    BY <1>3 DEF ResetSetup
  <1>4. CASE Restart
    BY <1>4 DEF Restart, StartProcess
  <1>5. CASE Rotate
    BY <1>5 DEF Rotate, StartProcess
  <1>6. CASE UNCHANGED vars
    BY <1>6 DEF vars
  <1> QED BY <1>1, <1>2, <1>3, <1>4, <1>5, <1>6 DEF Next

\* A browser taken for the administrator gave the address and the password, or finished
\* the setup, under the key in use: however many answers bring old cookies back.
THEOREM SessionsAreEarned == Spec => []SignedInIsEarned
  <1>1. Init => SessionInv
    BY InputAssumption
       DEF Init, SessionInv, SignedInIsEarned, CookiesArePast, IsSignedIn
  <1>2. SessionInv => SignedInIsEarned
    BY DEF SessionInv
  <1> QED BY <1>1, <1>2, SessionNext, TypeCorrect, PTL DEF Spec

-----------------------------------------------------------------------------
LEMMA LatchNext == TypeOK /\ LatchIsExplained /\ [Next]_vars => LatchIsExplained'
  <1> SUFFICES ASSUME TypeOK, LatchIsExplained, [Next]_vars PROVE LatchIsExplained'
    OBVIOUS
  <1> USE DEF LatchIsExplained, past
  <1>0. db \in Settings
    BY DEF TypeOK
  <1>1. ASSUME NEW b \in Browsers, Browse(b) PROVE LatchIsExplained'
    BY <1>1 DEF Browse, Ask, Receive, Login, Logout, Expire, Remembered
  <1>2. ASSUME NEW b \in Browsers, Setup(b) PROVE LatchIsExplained'
    <2>1. UNCHANGED <<latched, resetSince>>
      BY <1>2 DEF Setup, SubmitAccount, Move, EditInputs, RunChecks, Finish, Sample, Commit,
                  Lose
    <2>2. CASE Commit(b)
      <3>1. \/ db' = [db EXCEPT !.complete = TRUE, !.step = 5]
            \/ db' = [db EXCEPT !.demo = TRUE]
        BY <2>2 DEF Commit
      <3>2. db.complete => db'.complete
        BY <1>0, <3>1, CommittedType
      <3> QED BY <2>1, <3>2
    <2>3. CASE ~Commit(b)
      <3>1. db'.complete = db.complete
        BY <1>0, <1>2, <2>3
           DEF Setup, SubmitAccount, Move, EditInputs, RunChecks, Finish, Sample, Lose,
               Settings
      <3> QED BY <2>1, <3>1
    <2> QED BY <2>2, <2>3
  <1>3. CASE ResetSetup
    BY <1>3 DEF ResetSetup
  <1>4. CASE Restart \/ Rotate
    BY <1>4 DEF Restart, Rotate, StartProcess
  <1>5. CASE UNCHANGED vars
    BY <1>5 DEF vars
  <1> QED BY <1>1, <1>2, <1>3, <1>4, <1>5 DEF Next

\* The gate remembers a completed setup that is one, or that reset-setup has undone since
\* the process started.
THEOREM LatchCorrect == Spec => []LatchIsExplained
  <1>1. Init => LatchIsExplained
    BY DEF Init, LatchIsExplained
  <1> QED BY <1>1, LatchNext, TypeCorrect, PTL DEF Spec
-----------------------------------------------------------------------------
LEMMA SecretNext == TypeOK /\ SecretInv /\ [Next]_vars => SecretInv'
  <1> SUFFICES ASSUME TypeOK, SecretInv, [Next]_vars PROVE SecretInv'
    OBVIOUS
  <1> USE DEF SecretInv, CompletionCanPoll, PendingCanPoll, HasSecret, past
  <1>0. db \in Settings /\ pending \in [Browsers -> {"none", "complete", "demo"}]
        /\ key \in Nat /\ madeUnder \in Nat
    BY BoundAssumption DEF TypeOK, Keys
  <1>1. ASSUME NEW b \in Browsers, Browse(b) PROVE SecretInv'
    BY <1>1 DEF Browse, Ask, Receive, Login, Logout, Expire
  <1>2. ASSUME NEW b \in Browsers, Setup(b) PROVE SecretInv'
    <2>1. UNCHANGED key
      BY <1>2 DEF Setup, SubmitAccount, Move, EditInputs, RunChecks, Finish, Sample, Commit,
                  Lose
    <2>2. CASE SubmitAccount(b) \/ Move(b) \/ RunChecks(b)
      <3>1. UNCHANGED <<pending, madeUnder>>
        BY <2>2 DEF SubmitAccount, Move, RunChecks
      <3>2. db'.complete = db.complete /\ db'.secret = db.secret
        BY <1>0, <2>2 DEF SubmitAccount, Move, RunChecks, Settings
      <3> QED BY <2>1, <3>1, <3>2
    <2>3. CASE EditInputs(b)
      <3>1. UNCHANGED <<pending, madeUnder>>
        BY <2>3 DEF EditInputs
      <3>2. db'.complete = db.complete /\ db'.secret \in {db.secret, key}
        BY <1>0, <2>3 DEF EditInputs, Settings
      <3> QED BY <2>1, <3>1, <3>2
    <2>4. CASE Finish(b)
      BY <1>0, <2>4 DEF Finish, Ready
    <2>5. CASE Sample(b) \/ Lose(b)
      BY <1>0, <2>5 DEF Sample, Lose
    <2>6. CASE Commit(b)
      <3>1. db'.secret = db.secret
        BY <1>0, <2>6 DEF Commit, Settings
      <3>2. pending' = [pending EXCEPT ![b] = "none"]
        BY <2>6 DEF Commit
      <3>3. CASE pending[b] = "complete"
        BY <1>0, <2>1, <2>6, <3>1, <3>2, <3>3 DEF Commit
      <3>4. CASE pending[b] # "complete"
        <4>1. madeUnder' = madeUnder /\ db'.complete = db.complete
          BY <1>0, <2>6, <3>4 DEF Commit, Settings
        <4> QED BY <1>0, <2>1, <3>1, <3>2, <4>1
      <3> QED BY <3>3, <3>4
    <2> QED BY <1>2, <2>2, <2>3, <2>4, <2>5, <2>6 DEF Setup
  <1>3. CASE ResetSetup
    <2>1. ~db'.complete
      BY <1>0, <1>3 DEF ResetSetup, Settings
    <2> QED BY <1>3, <2>1 DEF ResetSetup
  <1>4. CASE Restart
    BY <1>4 DEF Restart, StartProcess
  <1>5. CASE Rotate
    BY <1>0, <1>5 DEF Rotate, StartProcess
  <1>6. CASE UNCHANGED vars
    BY <1>6 DEF vars
  <1> QED BY <1>1, <1>2, <1>3, <1>4, <1>5, <1>6 DEF Next

\* A completed setup has a client secret that the key it was completed under decrypts,
\* whatever was edited, reset or rotated between the verdicts, the Finish and its commit.
THEOREM CompletionPolls == Spec => []CompletionCanPoll
  <1>1. Init => SecretInv
    BY BoundAssumption DEF Init, SecretInv, CompletionCanPoll, PendingCanPoll
  <1>2. SecretInv => CompletionCanPoll
    BY DEF SecretInv
  <1> QED BY <1>1, <1>2, SecretNext, TypeCorrect, PTL DEF Spec

-----------------------------------------------------------------------------
LEMMA AccountNext == TypeOK /\ AccountAsEntered /\ [Next]_vars => AccountAsEntered'
  <1> SUFFICES ASSUME TypeOK, AccountAsEntered, [Next]_vars PROVE AccountAsEntered'
    OBVIOUS
  <1> USE DEF past
  <1>0. db \in Settings /\ entered \in Account \cup {Nothing}
    BY DEF TypeOK
  <1>1. CASE \E b \in Browsers : SubmitAccount(b)
    <2>1. PICK email \in Address, password \in Passwords \cup {Nothing} :
            /\ db' = [db EXCEPT !.admin = SavedAccount(db.admin, email, password)]
            /\ entered' = Took(email, password)
      BY <1>1 DEF SubmitAccount
    <2>2. db'.admin = SavedAccount(db.admin, email, password)
      BY <1>0, <2>1 DEF Settings
    <2>3. db.admin \in Account \cup {Nothing} /\ Strip(email) \in Address
      BY <1>0, AddressFacts DEF Settings
    <2>4. Nothing \notin Account
      BY NoAccountAssumption
    <2> QED BY <1>0, <2>1, <2>2, <2>3, <2>4
            DEF AccountAsEntered, SavedAccount, Took, Account
  <1>2. CASE ~ \E b \in Browsers : SubmitAccount(b)
    <2>1. db'.admin = db.admin /\ entered' = entered
      BY <1>0, <1>2
         DEF Next, vars, Browse, Setup, Ask, Receive, Login, Logout, Expire, Move, EditInputs,
             RunChecks, Finish, Sample, Commit, Lose, ResetSetup, Restart, Rotate,
             StartProcess, Settings
    <2> QED BY <2>1 DEF AccountAsEntered
  <1> QED BY <1>1, <1>2

\* What step 1 last accepted opens the account, if the address was typed without capitals.
THEOREM AccountsOpen == Spec => []LowercaseAccountOpens
  <1>1. Init => AccountAsEntered
    BY DEF Init, AccountAsEntered
  <1>2. TypeOK /\ AccountAsEntered => LowercaseAccountOpens
    <2> SUFFICES ASSUME TypeOK, AccountAsEntered, entered # Nothing, ~entered.email.upper
                 PROVE  LoginMatches(db.admin, entered.email, entered.password)
      BY DEF LowercaseAccountOpens
    <2>1. entered.email \in Address
      BY DEF TypeOK, Account
    <2>2. Lower(Strip(entered.email)) = Strip(entered.email)
      BY <2>1, AddressFacts
    <2> QED BY <2>2 DEF AccountAsEntered, LoginMatches
  <1> QED BY <1>1, <1>2, AccountNext, TypeCorrect, PTL DEF Spec

-----------------------------------------------------------------------------
(* Navigation.  It is no induction: in each of five situations of the gate, *)
(* where every place leads, and where four requests do.                     *)

Known(up) == GateState(up).known
Completed(up) == GateState(up).complete
Sampled(up) == GateState(up).demo

At(path, next) == [path |-> path, next |-> next]

\* The answer to one request, situation by situation.
LEMMA Answers ==
    ASSUME NEW b, NEW path, NEW next, NEW up
    PROVE  LET answer == Answer(b, At(path, next), up) IN
           /\ ~Known(up) => answer = Shows("unavailable")
           /\ Known(up) /\ Completed(up) =>
                /\ path \in {"/setup", "/setup/step"} => answer = To("/")
                /\ path = "/login" => answer = LoginForm(b, next)
                /\ path = "/" => answer = IF IsSignedIn(b) THEN Dashboard(up)
                                          ELSE At("/login", "/")
           /\ Known(up) /\ ~Completed(up) =>
                /\ path = "/setup" => answer = To("/setup/step")
                /\ path = "/setup/step" => answer = Shows("wizard")
                /\ path \in {"/", "/login"} /\ ~Sampled(up) => answer = To("/setup")
                /\ path = "/login" /\ Sampled(up) => answer = LoginForm(b, next)
                /\ path = "/" /\ Sampled(up) => answer = Dashboard(up)
  <1> DEFINE place == At(path, next)
  <1> USE DEF At, Known, Completed, Sampled, Answer, InWizard, Handle, SetupRoot, SetupStep
  <1>1. place.path = path /\ place.next = next
    OBVIOUS
  <1> HIDE DEF place
  <1>2. ~Known(up) => Answer(b, place, up) = Shows("unavailable")
    OBVIOUS
  <1>3. ASSUME Known(up), Completed(up), path \in {"/setup", "/setup/step"}
        PROVE  Answer(b, place, up) = To("/")
    BY <1>1, <1>3
  <1>4. ASSUME Known(up), Completed(up), path = "/login"
        PROVE  Answer(b, place, up) = LoginForm(b, next)
    BY <1>1, <1>4
  <1>5. ASSUME Known(up), Completed(up), path = "/"
        PROVE  Answer(b, place, up) = IF IsSignedIn(b) THEN Dashboard(up)
                                      ELSE At("/login", "/")
    BY <1>1, <1>5
  <1>6. ASSUME Known(up), ~Completed(up)
        PROVE  /\ path = "/setup" => Answer(b, place, up) = To("/setup/step")
               /\ path = "/setup/step" => Answer(b, place, up) = Shows("wizard")
    BY <1>1, <1>6
  <1>7. ASSUME Known(up), ~Completed(up), ~Sampled(up), path \in {"/", "/login"}
        PROVE  Answer(b, place, up) = To("/setup")
    BY <1>1, <1>7
  <1>8. ASSUME Known(up), ~Completed(up), Sampled(up), path = "/login"
        PROVE  Answer(b, place, up) = LoginForm(b, next)
    BY <1>1, <1>8
  <1>9. ASSUME Known(up), ~Completed(up), Sampled(up), path = "/"
        PROVE  Answer(b, place, up) = Dashboard(up)
    BY <1>1, <1>9
  <1> USE DEF place
  <1> HIDE DEF At, Known, Completed, Sampled, Answer
  <1> QED BY <1>2, <1>3, <1>4, <1>5, <1>6, <1>7, <1>8, <1>9

\* A door is a page or the login form with the page to go to afterwards.
LEMMA DoorFacts ==
    ASSUME NEW door \in Doors
    PROVE  \E path \in {"/", "/setup", "/setup/step", "/login"}, next \in {"/", "/setup", "/login"} :
             door = At(path, next)
  BY DEF Doors, To, At

\* A redirect is followed, a page is not.
LEMMA Followed ==
    ASSUME NEW b, NEW up
    PROVE  /\ \A path \in {"/", "/setup", "/setup/step", "/login"} : \A next :
                Follow(b, At(path, next), up) = Answer(b, At(path, next), up)
           /\ \A page : Follow(b, Shows(page), up) = Shows(page)
           /\ Follow(b, Dashboard(up), up) = Dashboard(up)
  BY DEF Follow, Arrived, At, Shows, Dashboard

\* Four requests lead to a page, and to the wizard only as long as it is open.
LEMMA Landings ==
    ASSUME NEW b, NEW door \in Doors, NEW up
    PROVE  LET page == Landing(b, door, up) IN
           /\ Arrived(page)
           /\ Known(up) /\ Completed(up) => page # Shows("wizard")
           /\ Known(up) /\ ~Completed(up) /\ (~Sampled(up) \/ door = To("/setup")) =>
                page = Shows("wizard")
  <1> DEFINE first == Answer(b, door, up)
             second == Follow(b, first, up)
             third == Follow(b, second, up)
             fourth == Follow(b, third, up)
             Ends(place) == place = Shows("login") \/ place = Dashboard(up)
  <1>1. Landing(b, door, up) = fourth
    BY DEF Landing
  <1>2. PICK path \in {"/", "/setup", "/setup/step", "/login"}, next \in {"/", "/setup", "/login"} :
          door = At(path, next)
    BY DoorFacts
  <1>3. \A p : To(p) = At(p, "/")
    BY DEF To, At
  <1>4. /\ \A place : Ends(place) => Arrived(place) /\ place # Shows("wizard")
        /\ \A page : Arrived(Shows(page))
    <2>1. \A page : Arrived(Shows(page)) /\ (page # "wizard" => Shows(page) # Shows("wizard"))
      BY DEF Arrived, Shows
    <2>2. Dashboard(up) = Shows("dashboard") \/ Dashboard(up) = Shows("error")
      BY DEF Dashboard
    <2> QED BY <2>1, <2>2
  <1>5. \A place : Ends(place) => Follow(b, place, up) = place
    BY Followed
  <1> HIDE DEF first, second, third, fourth
  <1>6. CASE ~Known(up)
    <2>1. first = Shows("unavailable")
      BY <1>2, <1>6, Answers DEF first
    <2>2. fourth = Shows("unavailable")
      BY <2>1, Followed DEF second, third, fourth
    <2> QED BY <1>1, <1>4, <1>6, <2>2
  <1>7. CASE Known(up) /\ Completed(up)
    <2>1. Ends(Follow(b, Follow(b, To("/"), up), up))
      <3>1. CASE IsSignedIn(b)
        <4>1. Follow(b, To("/"), up) = Dashboard(up)
          BY <1>3, <1>7, <3>1, Answers, Followed
        <4> QED BY <4>1, Followed
      <3>2. CASE ~IsSignedIn(b)
        <4>1. Follow(b, To("/"), up) = At("/login", "/")
          BY <1>3, <1>7, <3>2, Answers, Followed
        <4>2. Follow(b, At("/login", "/"), up) = Shows("login")
          BY <1>7, <3>2, Answers, Followed DEF LoginForm
        <4> QED BY <4>1, <4>2
      <3> QED BY <3>1, <3>2
    <2>2. Ends(fourth)
      <3>1. CASE path = "/"
        <4>1. first = Answer(b, To("/"), up) \/ first = Follow(b, To("/"), up)
          <5>1. \A n : Answer(b, At("/", n), up) = Answer(b, At("/", "/"), up)
            BY <1>7, Answers
          <5> QED BY <1>2, <1>3, <3>1, <5>1 DEF first
        <4>2. first = Follow(b, To("/"), up)
          BY <1>3, <4>1, Followed
        <4> QED BY <1>5, <2>1, <4>2 DEF second, third, fourth
      <3>2. CASE path \in {"/setup", "/setup/step"}
        <4>1. first = To("/")
          BY <1>2, <1>7, <3>2, Answers DEF first
        <4> QED BY <1>5, <2>1, <4>1 DEF second, third, fourth
      <3>3. CASE path = "/login" /\ ~IsSignedIn(b)
        <4>1. first = Shows("login")
          BY <1>2, <1>7, <3>3, Answers DEF first, LoginForm
        <4> QED BY <1>5, <4>1 DEF second, third, fourth
      <3>4. CASE path = "/login" /\ IsSignedIn(b)
        <4>1. first = At(next, "/")
          BY <1>2, <1>3, <1>7, <3>4, Answers DEF first, LoginForm
        <4>2. CASE next = "/"
          BY <1>3, <1>5, <2>1, <4>1, <4>2 DEF second, third, fourth
        <4>3. CASE next \in {"/setup", "/login"}
          <5>1. second = To("/")
            BY <1>7, <3>4, <4>1, <4>3, Answers, Followed DEF second, LoginForm
          <5> QED BY <2>1, <5>1 DEF third, fourth
        <4> QED BY <4>2, <4>3
      <3> QED BY <3>1, <3>2, <3>3, <3>4
    <2> QED BY <1>1, <1>4, <1>7, <2>2
  <1>8. CASE Known(up) /\ ~Completed(up)
    <2>1. Follow(b, Follow(b, To("/setup"), up), up) = Shows("wizard")
      <3>1. Follow(b, At("/setup", "/"), up) = At("/setup/step", "/")
        BY <1>3, <1>8, Answers, Followed
      <3>2. Follow(b, At("/setup/step", "/"), up) = Shows("wizard")
        BY <1>8, Answers, Followed
      <3> QED BY <1>3, <3>1, <3>2
    <2>2. Follow(b, Shows("wizard"), up) = Shows("wizard")
      BY Followed
    <2>3. CASE path \in {"/", "/login"} /\ ~Sampled(up)
      <3>1. first = To("/setup")
        BY <1>2, <1>8, <2>3, Answers DEF first
      <3>2. fourth = Shows("wizard")
        BY <2>1, <2>2, <3>1 DEF second, third, fourth
      <3> QED BY <1>1, <1>4, <1>8, <3>2
    <2>4. CASE path = "/setup"
      <3>1. first = To("/setup/step")
        BY <1>2, <1>8, <2>4, Answers DEF first
      <3>2. second = Shows("wizard")
        BY <1>3, <1>8, <3>1, Answers, Followed DEF second
      <3>3. fourth = Shows("wizard")
        BY <2>2, <3>2 DEF third, fourth
      <3> QED BY <1>1, <1>4, <1>8, <3>3
    <2>5. CASE path = "/setup/step"
      <3>1. first = Shows("wizard")
        BY <1>2, <1>8, <2>5, Answers DEF first
      <3>2. fourth = Shows("wizard")
        BY <2>2, <3>1 DEF second, third, fourth
      <3> QED BY <1>1, <1>4, <1>8, <3>2
    <2>6. CASE path \in {"/", "/login"} /\ Sampled(up)
      <3>1. door # To("/setup")
        BY <1>2, <1>3, <2>6 DEF At
      <3>2. Arrived(fourth)
        <4>1. CASE path = "/"
          <5>1. Ends(first)
            BY <1>2, <1>8, <2>6, <4>1, Answers DEF first
          <5> QED BY <1>4, <1>5, <5>1 DEF second, third, fourth
        <4>2. CASE path = "/login" /\ ~IsSignedIn(b)
          <5>1. Ends(first)
            BY <1>2, <1>8, <2>6, <4>2, Answers DEF first, LoginForm
          <5> QED BY <1>4, <1>5, <5>1 DEF second, third, fourth
        <4>3. CASE path = "/login" /\ IsSignedIn(b)
          <5>1. first = At(next, "/")
            BY <1>2, <1>3, <1>8, <2>6, <4>3, Answers DEF first, LoginForm
          <5>2. CASE next = "/"
            <6>1. second = Dashboard(up)
              BY <1>8, <2>6, <5>1, <5>2, Answers, Followed DEF second
            <6> QED BY <1>4, <1>5, <6>1 DEF third, fourth
          <5>3. CASE next = "/setup"
            <6>1. third = Shows("wizard")
              BY <1>3, <2>1, <5>1, <5>3 DEF second, third
            <6> QED BY <1>4, <2>2, <6>1 DEF fourth
          <5>4. CASE next = "/login"
            <6>1. second = At("/", "/")
              BY <1>3, <1>8, <2>6, <4>3, <5>1, <5>4, Answers, Followed DEF second, LoginForm
            <6>2. third = Dashboard(up)
              BY <1>8, <2>6, <6>1, Answers, Followed DEF third
            <6> QED BY <1>4, <1>5, <6>2 DEF fourth
          <5> QED BY <5>2, <5>3, <5>4
        <4> QED BY <2>6, <4>1, <4>2, <4>3
      <3> QED BY <1>1, <1>8, <2>6, <3>1, <3>2
    <2> QED BY <2>3, <2>4, <2>5, <2>6
  <1> QED BY <1>6, <1>7, <1>8

\* The redirects of the gate, the wizard and the login end, in every state.
THEOREM RedirectsEnd == Spec => []NavigationEnds
  <1>1. NavigationEnds
    BY Landings DEF NavigationEnds
  <1> QED BY <1>1, PTL

\* The wizard is unavoidable before setup, sample data aside, and unreachable after it.
THEOREM WizardFirst == Spec => []WizardUnavoidable
  <1>1. TypeOK => WizardUnavoidable
    <2> SUFFICES ASSUME TypeOK, NEW b \in Browsers, NEW door \in Doors, NEW up, up = TRUE
                 PROVE  /\ (~db.complete /\ ~db.demo /\ ~latched) => Landing(b, door, up) = Shows("wizard")
                        /\ (~db.complete /\ ~latched) => Landing(b, To("/setup"), up) = Shows("wizard")
                        /\ db.complete => Landing(b, door, up) # Shows("wizard")
      BY DEF WizardUnavoidable
    <2>1. Known(up) /\ (db.complete \/ latched <=> Completed(up))
      BY DEF Known, Completed, GateState, TypeOK
    <2>2. ~latched => (Sampled(up) <=> db.demo)
      BY DEF Sampled, GateState, TypeOK
    <2>3. To("/setup") \in Doors
      BY DEF Doors
    <2>4. /\ Completed(up) => Landing(b, door, up) # Shows("wizard")
          /\ ~Completed(up) /\ ~Sampled(up) => Landing(b, door, up) = Shows("wizard")
      BY <2>1, Landings
    <2>5. ~Completed(up) => Landing(b, To("/setup"), up) = Shows("wizard")
      BY <2>1, <2>3, Landings
    <2> QED BY <2>1, <2>2, <2>4, <2>5
  <1> QED BY <1>1, TypeCorrect, PTL
=================================================================================
