--------------------------- MODULE GraphClientProofs ---------------------------
(***************************************************************************)
(* Theorems about GraphClient, for every margin, call time, lifetime and   *)
(* page size.                                                              *)
(***************************************************************************)
EXTENDS GraphClient, TLAPS

\* Time: a call is younger than CallTime, a token was issued for what the client believes
\* or longer, and a GET was sent either with a token outside the margin or with a token
\* just brought.
Timing ==
    /\ call # "none" => sentAt <= now /\ now <= sentAt + CallTime
    /\ token # None => token.believed <= token.expires
    /\ call = "get" => token # None /\ sentAt + CallTime <= token.expires

Clock == now \in Nat /\ sentAt \in Nat

\* A token, where there is one, has its two times.
TokenTimes == token # None => token.expires \in Nat /\ token.believed \in Nat

TimeInv == Clock /\ TokenTimes /\ Timing

LEMMA TimeInit == Init => TimeInv
  BY NoneAssumption DEF Init, TimeInv, Clock, TokenTimes, Timing

\* What acquire_token keeps of Entra's answer lasts for the call that follows.
LEMMA Granted ==
    ASSUME TimeInv, Granting
    PROVE  /\ token'.expires \in Nat /\ token'.believed \in Nat
           /\ token'.believed <= token'.expires
           /\ now + CallTime <= token'.expires
  <1>1. PICK lifetime \in Lifetimes, issued \in sentAt .. now :
          token' = [roles |-> granted \cap Roles, expires |-> issued + lifetime,
                    believed |-> Believed(lifetime)]
    BY DEF Granting
  <1>2. /\ token'.expires = issued + lifetime
        /\ token'.believed = sentAt + lifetime
    BY <1>1 DEF Believed
  <1>3. /\ lifetime \in Nat /\ lifetime >= 2 * CallTime /\ CallTime \in Nat
        /\ now <= sentAt + CallTime /\ now \in Nat /\ sentAt \in Nat
        /\ issued \in Nat /\ sentAt <= issued
    BY TimeAssumption DEF TimeInv, Clock, Timing, Granting
  <1> QED BY <1>2, <1>3

LEMMA GrantedToken ==
    ASSUME TimeInv, Granting
    PROVE  token' \in Tokens
  <1>1. PICK lifetime \in Lifetimes, issued \in sentAt .. now :
          token' = [roles |-> granted \cap Roles, expires |-> issued + lifetime,
                    believed |-> Believed(lifetime)]
    BY DEF Granting
  <1>2. granted \cap Roles \subseteq Roles
    OBVIOUS
  <1>3. issued + lifetime \in Nat /\ Believed(lifetime) \in Nat
    BY TimeAssumption DEF Believed, TimeInv, Clock
  <1> QED BY <1>1, <1>2, <1>3 DEF Tokens

LEMMA TimeNext == TimeInv /\ [Next]_vars => TimeInv'
  <1> SUFFICES ASSUME TimeInv, [Next]_vars PROVE TimeInv'
    OBVIOUS
  <1> USE TimeAssumption DEF TimeInv, Clock, TokenTimes, Timing, connection, world, progress
  <1>1. CASE Tick
    BY <1>1 DEF Tick
  <1>2. CASE Send
    <2>1. CASE call' = "get"
      <3>1. Usable(token)
        BY <1>2, <2>1 DEF Send
      <3> QED BY <1>2, <3>1 DEF Send, Usable
    <2>2. CASE call' # "get"
      BY <1>2, <2>2 DEF Send
    <2> QED BY <2>1, <2>2
  <1>3. CASE TakeToken
    <2>1. Granting /\ call' = "get" /\ sentAt' = now /\ now' = now
      BY <1>3 DEF TakeToken
    <2>2. token' # None
      BY <2>1, GrantedToken, NoneAssumption
    <2> QED BY <2>1, <2>2, Granted
  <1>4. CASE TakeForced
    BY <1>4, Granted DEF TakeForced
  <1>5. ASSUME NEW ok, NEW finding, End(ok, finding) PROVE TimeInv'
    BY <1>5 DEF End
  <1>6. ASSUME NEW next, Continue(next) PROVE TimeInv'
    BY <1>6 DEF Continue
  <1>7. CASE Arrive \/ (\E p \in Grants : Change(p)) \/ Use
              \/ (\E operation \in Operations : Start(operation)) \/ UNCHANGED vars
    <2>1. UNCHANGED <<now, connection>>
      BY <1>7 DEF Arrive, Change, Use, Start, vars
    <2> QED BY <2>1
  <1>8. CASE TakeDomains \/ TakeNewest \/ FinishPoll \/ FailTenant \/ FailOperation
    BY <1>5, <1>8 DEF TakeDomains, TakeNewest, FinishPoll, FailTenant, FailOperation
  <1>9. CASE TakeFolder \/ TakeOldest \/ TakePage \/ TakeLastPage \/ TakeAttachments
              \/ FailMessage
    BY <1>6, <1>9
       DEF TakeFolder, TakeOldest, TakePage, TakeLastPage, TakeAttachments, FailMessage
  <1> QED BY <1>1, <1>2, <1>3, <1>4, <1>7, <1>8, <1>9 DEF Next, World, Client

\* No call outlives its token, whatever the margin, as long as it covers a call and tokens
\* last for two.
THEOREM TokensLast == Spec => []NoCallOutlivesItsToken
  <1>1. TimeInv => NoCallOutlivesItsToken
    <2> SUFFICES ASSUME TimeInv, call = "get" PROVE now <= token.expires
      BY DEF NoCallOutlivesItsToken
    <2>1. /\ now <= sentAt + CallTime /\ sentAt + CallTime <= token.expires
          /\ now \in Nat /\ sentAt \in Nat /\ CallTime \in Nat /\ token.expires \in Nat
      BY TimeAssumption DEF TimeInv, Clock, Timing, TokenTimes
    <2> QED BY <2>1
  <1> QED BY <1>1, TimeInit, TimeNext, PTL DEF Spec
-----------------------------------------------------------------------------
(* The listing: one look at the mailbox. *)

\* While pages are read: all so far were full, the next starts where they ended, and
\* they are no more than the cap allows.
Paging ==
    /\ arrived \in Nat /\ since \in 0 .. arrived /\ pages \in Nat
    /\ op = "none" => stage = "start"
    /\ stage # "fetch" => listing = None
    /\ stage # "page" => pages = 0
    /\ stage = "page" =>
         /\ pages <= MaxPages
         /\ position \in 0 .. arrived
         /\ position = since + pages * PageSize

LEMMA PagingInit == Init => Paging
  BY DEF Init, Paging

\* Full pages up to the cap hold no more than the cap of messages.
LEMMA PagesFit ==
    ASSUME NEW n \in Nat, n <= MaxPages
    PROVE  /\ n * PageSize \in Nat
           /\ (n + 1) * PageSize = n * PageSize + PageSize
           /\ (n + 1) * PageSize <= (MaxPages + 1) * PageSize
  BY PageAssumption

LEMMA PagingNext == Paging /\ [Next]_vars => Paging'
  <1> SUFFICES ASSUME Paging, [Next]_vars PROVE Paging'
    OBVIOUS
  <1> USE PageAssumption DEF Paging, connection, world, progress
  <1>1. CASE Arrive
    BY <1>1 DEF Arrive
  <1>2. ASSUME NEW operation \in Operations, Start(operation) PROVE Paging'
    <2>1. /\ since' \in 0 .. arrived /\ position' = since' /\ arrived' = arrived
          /\ pages' = 0 /\ listing' = None
      BY <1>2 DEF Start
    <2>2. op' # "none" /\ stage' # "fetch"
      BY <1>2 DEF Start, First, Operations
    <2>3. since' \in Nat /\ 0 * PageSize = 0
      <3>1. since' \in Nat
        BY <2>1
      <3>2. 0 * PageSize = 0
        OBVIOUS
      <3> QED BY <3>1, <3>2
    <2>4. position' = since' + pages' * PageSize
      <3>1. pages' * PageSize = 0
        BY <2>1, <2>3, Zenon
      <3>2. position' = since' /\ since' \in Nat
        BY <2>1, <2>3
      <3> HIDE DEF Paging
      <3> QED BY <3>1, <3>2
    <2>5. pages' <= MaxPages
      BY <2>1
    <2> QED BY <2>1, <2>2, <2>4, <2>5
  <1>3. CASE TakePage
    <2>1. /\ stage = "page" /\ stage' = "page"
          /\ position' = LastOf(position) /\ position' = position + PageSize
          /\ pages' = pages + 1 /\ pages' <= MaxPages
          /\ UNCHANGED <<op, arrived, since, listing>>
      BY <1>3 DEF TakePage, Answered, Continue, MayLink, Capped
    <2>2. position' <= arrived
      BY <2>1 DEF LastOf
    <2>3. position' = since + pages' * PageSize
      BY <2>1, PagesFit
    <2>4. op' # "none" \/ stage = "start"
      BY <2>1
    <2> QED BY <2>1, <2>2, <2>3, <2>4
  <1>4. CASE TakeLastPage
    <2>1. /\ stage = "page" /\ stage' = "fetch" /\ pages' = 0
          /\ UNCHANGED <<op, arrived, since>>
      BY <1>4 DEF TakeLastPage, Answered, Continue
    <2> QED BY <2>1
  <1>5. ASSUME NEW ok, NEW finding, End(ok, finding) PROVE Paging'
    BY <1>5 DEF End
  <1>6. CASE TakeForced
    BY <1>6 DEF TakeForced, Granting
  <1>7. CASE TakeFolder \/ TakeOldest
    BY <1>7 DEF TakeFolder, TakeOldest, Answered, Continue
  <1>8. CASE TakeAttachments \/ FailMessage
    BY <1>8 DEF TakeAttachments, FailMessage, Answered, Continue
  <1>9. CASE TakeDomains \/ TakeNewest \/ FinishPoll \/ FailTenant \/ FailOperation
    BY <1>5, <1>9 DEF TakeDomains, TakeNewest, FinishPoll, FailTenant, FailOperation
  <1>10. CASE Tick \/ (\E p \in Grants : Change(p)) \/ Use \/ Send \/ TakeToken
              \/ UNCHANGED vars
    <2>1. UNCHANGED <<arrived, op, progress>>
      BY <1>10 DEF Tick, Change, Use, Send, TakeToken, vars
    <2> QED BY <2>1
  <1> QED BY <1>1, <1>2, <1>3, <1>4, <1>6, <1>7, <1>8, <1>9, <1>10 DEF Next, World, Client

\* The last page completes the listing one look would have given.
LEMMA LastPageLooks ==
    ASSUME Paging, TakeLastPage
    PROVE  View!Look(since)
  <1>1. /\ stage = "page" /\ arrived' = arrived
        /\ listing' = [since |-> since, upto |-> LastOf(position)]
        /\ LastOf(position) >= arrived \/ pages + 1 > MaxPages
    BY PageAssumption DEF TakeLastPage, Answered, Continue, MustLink, Capped, Paging, world, LastOf
  <1>2. /\ listing = None /\ pages \in Nat /\ pages <= MaxPages
        /\ position = since + pages * PageSize /\ position \in 0 .. arrived
        /\ since \in Nat /\ arrived \in Nat /\ PageSize \in Nat
    BY <1>1, PageAssumption DEF Paging
  <1>3. position + PageSize = since + (pages + 1) * PageSize
    BY <1>2, PagesFit
  <1>4. position + PageSize <= since + (MaxPages + 1) * PageSize
    BY <1>2, <1>3, PagesFit, PageAssumption
  <1>5. LastOf(position) = View!UpTo(since)
    <2>1. CASE LastOf(position) >= arrived
      BY <1>2, <1>4, <2>1, PageAssumption DEF LastOf, View!UpTo
    <2>2. CASE pages + 1 > MaxPages
      <3>1. pages = MaxPages
        BY <1>2, <2>2, PageAssumption
      <3> QED BY <1>2, <1>3, <3>1 DEF LastOf, View!UpTo
    <2> QED BY <1>1, <2>1, <2>2
  <1> QED BY <1>1, <1>2, <1>5 DEF View!Look

LEMMA ViewNext == Paging /\ [Next]_vars => [View!Next]_(View!vars)
  <1> SUFFICES ASSUME Paging, [Next]_vars PROVE [View!Next]_(View!vars)
    OBVIOUS
  <1> USE DEF View!vars, connection, world, progress
  <1>1. CASE Arrive
    BY <1>1 DEF Arrive, View!Next, View!Arrive
  <1>2. CASE TakeLastPage
    BY <1>2, LastPageLooks DEF View!Next, Paging
  <1>3. ASSUME NEW ok, NEW finding, End(ok, finding) PROVE [View!Next]_(View!vars)
    BY <1>3 DEF End, View!Next, View!Forget
  <1>4. CASE TakeDomains \/ TakeNewest \/ FinishPoll \/ FailTenant \/ FailOperation
    BY <1>3, <1>4 DEF TakeDomains, TakeNewest, FinishPoll, FailTenant, FailOperation
  <1>5. CASE Tick \/ (\E p \in Grants : Change(p)) \/ Use \/ Send \/ TakeToken
              \/ (\E operation \in Operations : Start(operation)) \/ TakeForced
              \/ TakeFolder \/ TakeOldest \/ TakePage \/ TakeAttachments \/ FailMessage
              \/ UNCHANGED vars
    <2>1. UNCHANGED <<arrived, listing>>
      BY <1>5 DEF Tick, Change, Use, Send, TakeToken, Start, TakeForced, TakeFolder,
                  TakeOldest, TakePage, TakeAttachments, FailMessage, Continue, vars
    <2> QED BY <2>1
  <1> QED BY <1>1, <1>2, <1>4, <1>5 DEF Next, World, Client

\* list_messages is one look at the mailbox, for every page size and cap: Ingest takes it
\* as one.
THEOREM ListingIsALook == Spec => ReadsAtOnce
  <1>1. Init => View!Init
    BY DEF Init, View!Init
  <1> QED BY <1>1, PagingInit, PagingNext, ViewNext, PTL DEF Spec, ReadsAtOnce, View!Spec
-----------------------------------------------------------------------------
(* Verdicts. *)

\* The end of an operation, and going on to the next call, keep the types.
LEMMA EndType ==
    ASSUME TypeOK, NEW ok \in BOOLEAN, NEW finding \in Findings, End(ok, finding)
    PROVE  TypeOK'
  <1>1. NothingFound \in Findings
    BY DEF NothingFound, Findings
  <1>2. result' \in [op : Operations \cup {"none"}, ok : BOOLEAN, found : Findings]
    BY DEF TypeOK, End
  <1>3. /\ op' = "none" /\ stage' = "start" /\ call' = "none" /\ sentAt' = 0 /\ token' = None
        /\ pages' = 0 /\ position' = 0 /\ since' = 0 /\ listing' = None
        /\ found' = NothingFound /\ UNCHANGED <<now, arrived, granted, changes, seen, there>>
    BY DEF End, world
  <1> QED BY <1>1, <1>2, <1>3, PageAssumption DEF TypeOK

LEMMA ContinueType ==
    ASSUME TypeOK, NEW next \in {"oldest", "newest", "page", "fetch"}, Continue(next),
           pages' \in 0 .. MaxPages, position' \in Nat, found' \in Findings,
           listing' \in Listings \cup {None}, (next = "fetch") = (listing' # None)
    PROVE  TypeOK'
  <1>1. /\ stage' = next /\ call' = "none" /\ sentAt' = 0
        /\ UNCHANGED <<now, arrived, granted, changes, op, token, since, result, seen, there>>
    BY DEF Continue, world
  <1> QED BY <1>1 DEF TypeOK

LEMMA TypeInit == Init => TypeOK
  <1> SUFFICES ASSUME Init PROVE TypeOK
    OBVIOUS
  <1>1. NothingFound \in Findings
    BY DEF NothingFound, Findings
  <1>2. result \in [op : Operations \cup {"none"}, ok : BOOLEAN, found : Findings]
    BY <1>1 DEF Init, NoResult
  <1> QED BY <1>1, <1>2, PageAssumption, BoundAssumption DEF Init, TypeOK

LEMMA TypeNext == TypeOK /\ TimeInv /\ Paging /\ [Next]_vars => TypeOK'
  <1> SUFFICES ASSUME TypeOK, TimeInv, Paging, [Next]_vars PROVE TypeOK'
    OBVIOUS
  <1> USE PageAssumption, BoundAssumption, NoneAssumption
  <1>1. CASE Tick \/ Arrive \/ Send \/ UNCHANGED vars
    <2>1. CASE Tick
      BY <2>1 DEF Tick, connection, progress, TypeOK
    <2>2. CASE Arrive
      BY <2>2 DEF Arrive, connection, progress, TypeOK
    <2>3. CASE Send
      <3>1. call' \in {"get", "token"} /\ (call' = "get" => token # None) /\ sentAt' \in Nat
        BY <2>3 DEF Send, Usable, TypeOK
      <3> QED BY <2>3, <3>1 DEF Send, world, progress, TypeOK
    <2>4. CASE UNCHANGED vars
      BY <2>4 DEF vars, world, connection, progress, TypeOK
    <2> QED BY <1>1, <2>1, <2>2, <2>3, <2>4
  <1>2. ASSUME NEW p \in Grants, Change(p) PROVE TypeOK'
    <2>1. granted' \subseteq Grants /\ seen' \subseteq Grants /\ changes' \in 0 .. MaxChanges
      BY <1>2 DEF Change, TypeOK
    <2> QED BY <1>2, <2>1 DEF Change, connection, progress, TypeOK
  <1>3. ASSUME NEW operation \in Operations, Start(operation) PROVE TypeOK'
    <2>1. since' \in Nat /\ position' \in Nat
      BY <1>3 DEF Start, TypeOK
    <2>2. stage' \in {"force", "folder", "page", "domains"} /\ stage # "fetch"
      <3>1. stage # "fetch"
        BY <1>3 DEF Start, Paging
      <3> QED BY <1>3, <3>1 DEF Start, First, Operations
    <2> QED BY <1>3, <2>1, <2>2 DEF Start, world, connection, TypeOK
  <1>4. CASE Use
    <2>1. result' \in [op : Operations \cup {"none"}, ok : BOOLEAN, found : Findings]
      BY <1>4 DEF Use, NoResult, NothingFound, Findings
    <2> QED BY <1>4, <2>1 DEF Use, world, connection, progress, TypeOK
  <1>5. CASE TakeToken \/ TakeForced
    <2>1. Granting
      BY <1>5 DEF TakeToken, TakeForced
    <2>2. token' \in Tokens /\ token' # None
      BY <2>1, GrantedToken
    <2>3. CASE TakeToken
      BY <2>2, <2>3 DEF TakeToken, world, progress, TypeOK
    <2>4. CASE TakeForced
      <3>1. found' \in Findings
        BY <2>2, <2>4 DEF TakeForced, Findings, Tokens, TypeOK
      <3> QED BY <2>2, <2>4, <3>1 DEF TakeForced, world, TypeOK
    <2> QED BY <1>5, <2>3, <2>4
  <1>6. CASE TakeDomains \/ FailTenant \/ FailOperation \/ FinishPoll
    <2>1. NothingFound \in Findings /\ found \in Findings
      BY DEF NothingFound, Findings, TypeOK
    <2> QED
      BY <1>6, <2>1, EndType DEF TakeDomains, FailTenant, FailOperation, FinishPoll, NoneMissing
  <1>7. CASE TakeNewest
    <2>1. [found EXCEPT !.newest = Edge(arrived)] \in Findings
      BY <1>7 DEF TakeNewest, Edge, Findings, TypeOK
    <2> QED BY <1>7, <2>1, EndType DEF TakeNewest
  <1>8. CASE TakeFolder \/ TakeOldest
    <2>1. found' \in Findings
      BY <1>8 DEF TakeFolder, TakeOldest, Edge, Findings, TypeOK
    <2>2. UNCHANGED <<pages, position, listing>> /\ listing = None
      BY <1>8 DEF TakeFolder, TakeOldest, Answered, TypeOK
    <2>3. pages \in 0 .. MaxPages /\ position \in Nat
      BY DEF TypeOK
    <2> QED BY <1>8, <2>1, <2>2, <2>3, ContinueType DEF TakeFolder, TakeOldest
  <1>9. CASE TakePage
    <2>1. /\ Continue("page") /\ pages' = pages + 1 /\ pages' <= MaxPages
          /\ position' = LastOf(position) /\ UNCHANGED <<listing, found>> /\ stage = "page"
      BY <1>9 DEF TakePage, Capped, Answered
    <2>2. pages' \in 0 .. MaxPages /\ position' \in Nat /\ listing' = None /\ found' \in Findings
      BY <2>1 DEF LastOf, TypeOK
    <2> QED BY <2>1, <2>2, ContinueType
  <1>10. CASE TakeLastPage
    <2>1. /\ Continue("fetch") /\ pages' = 0 /\ position' = since /\ UNCHANGED found
          /\ listing' = [since |-> since, upto |-> LastOf(position)]
      BY <1>10 DEF TakeLastPage
    <2>2. listing' \in Listings /\ listing' # None
      BY <2>1 DEF LastOf, Listings, TypeOK
    <2>3. pages' \in 0 .. MaxPages /\ position' \in Nat /\ found' \in Findings
      BY <2>1 DEF TypeOK
    <2> QED BY <2>1, <2>2, <2>3, ContinueType
  <1>11. CASE TakeAttachments \/ FailMessage
    <2>1. /\ Continue("fetch") /\ position' = position + 1 /\ UNCHANGED <<pages, listing, found>>
          /\ stage = "fetch"
      BY <1>11 DEF TakeAttachments, FailMessage, After, Answered
    <2>2. /\ position' \in Nat /\ pages' \in 0 .. MaxPages /\ found' \in Findings
          /\ listing' \in Listings \cup {None} /\ listing' # None
      BY <2>1 DEF TypeOK
    <2> QED BY <2>1, <2>2, ContinueType
  <1> QED BY <1>1, <1>2, <1>3, <1>4, <1>5, <1>6, <1>7, <1>8, <1>9, <1>10, <1>11
          DEF Next, World, Client

\* Each variable keeps its type, for every page size, lifetime and bound.
THEOREM TypeCorrect == Spec => []TypeOK
  BY TimeInit, TimeNext, PagingInit, PagingNext, TypeInit, TypeNext, PTL DEF Spec

\* Which operation is at which stage, and that one at a time is under way.
Stages ==
    /\ stage = "start" <=> op = "none"
    /\ stage = "force" => op = "test_token"
    /\ stage = "domains" => op \in {"test_token", "domains"}
    /\ stage \in {"folder", "oldest", "newest"} => op = "test_mailbox"
    /\ stage \in {"page", "fetch"} => op = "poll"
    /\ op = "none" => call = "none" /\ token = None
    /\ op # "none" => result = NoResult

\* The permissions of this moment were in force since the operation began, and so were
\* those the token was given.
Noted ==
    op # "none" =>
      /\ granted \subseteq seen /\ there <= arrived
      /\ token # None => token.roles \cup {"secret"} \subseteq seen

\* What a test has shown so far was so.
Gathered ==
    /\ op = "test_token" /\ stage = "domains" => found.roles \cup {"secret"} \subseteq seen
    /\ stage \in {"oldest", "newest"} => {"folder", "secret"} \subseteq seen
    /\ stage = "newest" =>
         /\ "messages" \in seen
         /\ found.oldest \in {None, 1}
         /\ there > 0 => found.oldest # None
         /\ found.oldest # None => arrived >= 1

EarnedInv == Stages /\ Noted /\ Gathered /\ VerdictIsEarned

LEMMA EarnedInit == Init => EarnedInv
  BY DEF Init, NoResult, EarnedInv, Stages, Noted, Gathered, VerdictIsEarned

\* An operation that ends leaves its verdict and nothing else.
LEMMA EndEarned ==
    ASSUME NEW ok \in BOOLEAN, NEW finding \in Findings, End(ok, finding), VerdictIsEarned'
    PROVE  EarnedInv'
  <1>1. op' = "none" /\ stage' = "start" /\ call' = "none" /\ token' = None
    BY DEF End
  <1> QED BY <1>1 DEF EarnedInv, Stages, Noted, Gathered

\* No verdict is out while an operation goes on.
LEMMA Undecided ==
    ASSUME result = NoResult
    PROVE  VerdictIsEarned
  BY DEF NoResult, VerdictIsEarned

LEMMA EarnedNext == TypeOK /\ EarnedInv /\ [Next]_vars => EarnedInv'
  <1> SUFFICES ASSUME TypeOK, EarnedInv, [Next]_vars PROVE EarnedInv'
    OBVIOUS
  <1> USE NoneAssumption
  <1>1. CASE Tick \/ Send \/ UNCHANGED vars
    <2>1. /\ UNCHANGED <<arrived, granted, op, stage, token, found, result, seen, there>>
          /\ op = "none" => call' = call
      BY <1>1 DEF Tick, Send, vars, world, connection, progress
    <2> QED BY <2>1 DEF EarnedInv, Stages, Noted, Gathered, VerdictIsEarned
  <1>2. CASE Arrive
    <2>1. /\ UNCHANGED <<granted, op, stage, call, token, found, result, seen, there>>
          /\ arrived' = arrived + 1 /\ arrived \in Nat /\ there \in Nat
      BY <1>2, BoundAssumption DEF Arrive, connection, progress, TypeOK
    <2>2. there <= arrived => there <= arrived'
      BY <2>1
    <2>3. arrived >= 1 => arrived' >= 1
      BY <2>1
    <2> QED BY <2>1, <2>2, <2>3 DEF EarnedInv, Stages, Noted, Gathered, VerdictIsEarned
  <1>3. ASSUME NEW p \in Grants, Change(p) PROVE EarnedInv'
    <2>1. /\ UNCHANGED <<arrived, op, stage, call, token, found, result, there>>
          /\ op = "none" => seen' = seen
          /\ op # "none" => seen \subseteq seen' /\ granted' \subseteq seen'
      BY <1>3 DEF Change, connection, progress
    <2>2. VerdictIsEarned'
      BY <2>1, Undecided DEF EarnedInv, Stages, VerdictIsEarned, NoResult
    <2> QED BY <2>1, <2>2 DEF EarnedInv, Stages, Noted, Gathered
  <1>4. ASSUME NEW operation \in Operations, Start(operation) PROVE EarnedInv'
    <2>1. /\ op = "none" /\ op' = operation /\ operation # "none" /\ stage' = First(operation)
          /\ seen' = granted /\ there' = arrived /\ UNCHANGED <<arrived, granted, call, token, result, found>>
          /\ result = NoResult
      BY <1>4 DEF Start, world, connection, Operations
    <2>2. token' = None /\ arrived \in Nat
      BY <2>1, BoundAssumption DEF EarnedInv, Stages, TypeOK
    <2>3. Stages' /\ Gathered'
      BY <2>1 DEF Stages, Gathered, First, Operations
    <2>4. VerdictIsEarned'
      BY <2>1 DEF VerdictIsEarned, NoResult
    <2> QED BY <2>1, <2>2, <2>3, <2>4 DEF EarnedInv, Noted
  <1>5. CASE Use
    <2>1. /\ UNCHANGED <<op, stage, call, token>> /\ result # NoResult /\ result' = NoResult
      BY <1>5 DEF Use, world, connection, progress
    <2>2. op = "none" /\ stage = "start"
      BY <2>1 DEF EarnedInv, Stages
    <2>3. VerdictIsEarned'
      BY <2>1 DEF VerdictIsEarned, NoResult
    <2> QED BY <2>1, <2>2, <2>3 DEF EarnedInv, Stages, Noted, Gathered
  <1>6. CASE TakeToken \/ TakeForced
    <2>1. Granting /\ op # "none"
      BY <1>6 DEF TakeToken, TakeForced, Granting, EarnedInv, Stages
    <2>2. token'.roles \cup {"secret"} \subseteq granted /\ "secret" \in granted
      BY <2>1 DEF Granting
    <2>3. /\ UNCHANGED <<arrived, granted, op, result, seen, there>>
          /\ granted \subseteq seen
      BY <1>6, <2>1 DEF TakeToken, TakeForced, world, EarnedInv, Noted
    <2>4. CASE TakeToken
      <3>1. UNCHANGED <<stage, found>>
        BY <2>4 DEF TakeToken, progress
      <3> QED BY <2>1, <2>2, <2>3, <3>1 DEF EarnedInv, Stages, Noted, Gathered, VerdictIsEarned
    <2>5. CASE TakeForced
      <3>1. stage = "force" /\ stage' = "domains" /\ found'.roles = token'.roles
        BY <2>5 DEF TakeForced, TypeOK, Findings
      <3> QED BY <2>1, <2>2, <2>3, <3>1 DEF EarnedInv, Stages, Noted, Gathered, VerdictIsEarned
    <2> QED BY <1>6, <2>4, <2>5
  <1>7. CASE TakeFolder \/ TakeOldest \/ TakePage \/ TakeLastPage \/ TakeAttachments \/ FailMessage
    <2>1. /\ UNCHANGED <<arrived, granted, op, token, result, seen, there>>
          /\ op # "none"
      BY <1>7 DEF TakeFolder, TakeOldest, TakePage, TakeLastPage, TakeAttachments, FailMessage,
                  Continue, world, Answered, EarnedInv, Stages
    <2>2. granted \subseteq seen
      BY <2>1 DEF EarnedInv, Noted
    <2>3. CASE TakeFolder
      <3>1. /\ stage = "folder" /\ stage' = "oldest" /\ UNCHANGED found /\ "folder" \in granted
            /\ "secret" \in seen
        BY <2>1, <2>3 DEF TakeFolder, Answered, Continue, Allowed, TypeOK, EarnedInv, Noted
      <3> QED BY <2>1, <2>2, <3>1 DEF EarnedInv, Stages, Noted, Gathered, VerdictIsEarned
    <2>4. CASE TakeOldest
      <3>1. /\ stage = "oldest" /\ stage' = "newest" /\ "messages" \in granted
            /\ found'.oldest = IF arrived = 0 THEN None ELSE 1
        BY <2>4 DEF TakeOldest, Answered, Continue, Edge, Allowed, TypeOK, Findings
      <3>2. there \in Nat /\ arrived \in Nat /\ there <= arrived
        BY <2>1, BoundAssumption DEF TypeOK, EarnedInv, Noted
      <3>3. Gathered'
        BY <2>1, <2>2, <3>1, <3>2 DEF EarnedInv, Gathered
      <3> QED BY <2>1, <3>1, <3>3 DEF EarnedInv, Stages, Noted, VerdictIsEarned
    <2>5. CASE TakePage \/ TakeLastPage \/ TakeAttachments \/ FailMessage
      <3>1. stage \in {"page", "fetch"} /\ stage' \in {"page", "fetch"} /\ UNCHANGED found
        BY <2>5 DEF TakePage, TakeLastPage, TakeAttachments, FailMessage, Answered, Continue
      <3> QED BY <2>1, <3>1 DEF EarnedInv, Stages, Noted, Gathered, VerdictIsEarned
    <2> QED BY <1>7, <2>3, <2>4, <2>5
  <1>8. CASE TakeDomains
    <2>1. /\ End(op = "test_token" => NoneMissing(found.roles), found) /\ op # "none"
          /\ stage = "domains" /\ "Domain.Read.All" \in token.roles /\ token # None
      BY <1>8 DEF TakeDomains, Answered, Allowed, TypeOK, EarnedInv, Stages
    <2>2. /\ result' = [op |-> op, ok |-> (op = "test_token" => NoneMissing(found.roles)), found |-> found]
          /\ seen' = seen
      BY <2>1 DEF End
    <2>3. /\ op \in {"test_token", "domains"} /\ {"Domain.Read.All", "secret"} \subseteq seen
          /\ op = "test_token" => found.roles \subseteq seen
      BY <2>1 DEF EarnedInv, Stages, Noted, Gathered
    <2>4. VerdictIsEarned'
      <3>1. CASE op = "domains"
        BY <2>2, <2>3, <3>1 DEF VerdictIsEarned
      <3>2. CASE op = "test_token"
        BY <2>2, <2>3, <3>2 DEF VerdictIsEarned, NoneMissing
      <3> QED BY <2>3, <3>1, <3>2
    <2>5. found \in Findings
      BY DEF TypeOK
    <2> QED BY <2>1, <2>4, <2>5, EndEarned
  <1>9. CASE FailTenant
    <2>1. /\ End(NoneMissing(found.roles), found) /\ op = "test_token" /\ stage = "domains"
      BY <1>9 DEF FailTenant
    <2>2. /\ result' = [op |-> "test_token", ok |-> NoneMissing(found.roles), found |-> found]
          /\ seen' = seen /\ found.roles \cup {"secret"} \subseteq seen
      BY <2>1 DEF End, EarnedInv, Gathered
    <2>3. VerdictIsEarned' /\ NoneMissing(found.roles) \in BOOLEAN /\ found \in Findings
      BY <2>2 DEF VerdictIsEarned, NoneMissing, TypeOK
    <2> QED BY <2>1, <2>3, EndEarned
  <1>10. CASE TakeNewest
    <2>1. /\ End(TRUE, [found EXCEPT !.newest = Edge(arrived)]) /\ stage = "newest"
          /\ op = "test_mailbox" /\ UNCHANGED <<seen, there>>
          /\ Edge(arrived) = IF arrived = 0 THEN None ELSE arrived
          /\ arrived \in Nat /\ there \in Nat /\ there <= arrived
      BY <1>10, BoundAssumption
         DEF TakeNewest, Answered, Edge, End, TypeOK, EarnedInv, Stages, Noted
    <2>2. /\ result'.op = "test_mailbox" /\ result'.found.oldest = found.oldest
          /\ result'.found.newest = Edge(arrived)
      BY <2>1 DEF End, TypeOK, Findings
    <2>3. /\ Exchange \cup {"secret"} \subseteq seen
          /\ found.oldest \in {None, 1} /\ (there > 0 => found.oldest # None)
          /\ (found.oldest # None => arrived >= 1)
      BY <2>1 DEF EarnedInv, Gathered, Exchange
    <2>4. VerdictIsEarned'
      BY <2>1, <2>2, <2>3 DEF VerdictIsEarned
    <2>5. [found EXCEPT !.newest = Edge(arrived)] \in Findings
      BY <2>1 DEF TypeOK, Findings
    <2> QED BY <2>1, <2>4, <2>5, EndEarned
  <1>11. CASE FailOperation \/ FinishPoll
    <2>1. \E ok \in BOOLEAN, finding \in Findings :
            End(ok, finding) /\ (ok => op = "poll")
      BY <1>11 DEF FailOperation, FinishPoll, NothingFound, Findings, TypeOK
    <2>2. PICK ok \in BOOLEAN, finding \in Findings : End(ok, finding) /\ (ok => op = "poll")
      BY <2>1
    <2>3. result'.op = op /\ result'.ok = ok
      BY <2>2 DEF End
    <2>4. VerdictIsEarned'
      BY <2>2, <2>3 DEF VerdictIsEarned
    <2> QED BY <2>2, <2>4, EndEarned
  <1> QED BY <1>1, <1>2, <1>3, <1>4, <1>5, <1>6, <1>7, <1>8, <1>9, <1>10, <1>11
          DEF Next, World, Client

\* A test of the wizard passes only on permissions that were in force while it ran, and
\* says only of the mailbox what was so: for every scoping mode and every timing.
THEOREM VerdictsEarned == Spec => []VerdictIsEarned
  <1>1. EarnedInv => VerdictIsEarned
    BY DEF EarnedInv
  <1> QED BY <1>1, TimeInit, TimeNext, PagingInit, PagingNext, TypeInit, TypeNext, EarnedInit,
             EarnedNext, PTL DEF Spec
================================================================================
