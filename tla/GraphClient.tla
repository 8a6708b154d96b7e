------------------------------ MODULE GraphClient ------------------------------
(***************************************************************************)
(* The Microsoft Graph client, rua/graph.py, and what it talks to.         *)
(*                                                                         *)
(* Every operation makes a client of its own: the two checks of the wizard *)
(* (test_token, test_mailbox), a poll (list_messages, then get_attachments *)
(* of each message) and the domain sync (verified_domains).  An operation  *)
(* is a series of GETs, each with the cached token or, when that is stale, *)
(* with one asked for first.  While a call is under way the clock runs,    *)
(* messages arrive and permissions change; an answer comes, or a timeout,  *)
(* within CallTime.                                                        *)
(*                                                                         *)
(* The mailbox is append-only and its messages are numbered as they        *)
(* arrive, so that a checkpoint and a page's nextLink are numbers.  Entra  *)
(* puts the roles granted then into a token; Exchange decides at each      *)
(* call.  What an attachment holds is Ingest's.                           *)
(***************************************************************************)
EXTENDS Naturals

CONSTANTS
    Required,       \* the roles test_token insists on: by scoping mode
    PageSize,       \* $top
    MaxPages,       \* MAX_MESSAGE_PAGES
    Margin,         \* a token is renewed that long before it expires
    CallTime,       \* how long a call can take
    Lifetimes,      \* the expires_in Entra may answer
    None,           \* no token, no listing, no message
    Denied,         \* instead of a message: the call was refused
    MaxTime,        \* bound: the clock stops here
    MaxArrived,     \* bound: messages
    MaxChanges      \* bound: changes of a permission or of the secret

Roles == {"Domain.Read.All", "Mail.Read"}
Exchange == {"folder", "messages"}
Grants == Roles \cup Exchange \cup {"secret"}

ASSUME PageAssumption == Required \subseteq Roles /\ PageSize \in Nat \ {0} /\ MaxPages \in Nat

\* A call is over within the margin, and a token outlasts its request and one call: the
\* timeouts of httpx add up to 60 seconds, the margin, and Entra's tokens last an hour.
ASSUME TimeAssumption ==
    /\ Margin \in Nat /\ CallTime \in Nat
    /\ CallTime <= Margin
    /\ Lifetimes \subseteq Nat
    /\ \A l \in Lifetimes : l >= 2 * CallTime

ASSUME BoundAssumption == MaxTime \in Nat /\ MaxArrived \in Nat /\ MaxChanges \in Nat

Tokens == [roles : SUBSET Roles, expires : Nat, believed : Nat]
Listings == [since : Nat, upto : Nat]

ASSUME NoneAssumption ==
    /\ None \notin Nat \cup Tokens \cup Listings
    /\ Denied \notin Nat \cup {None}

VARIABLES
    now,        \* the clock
    arrived,    \* messages in the mailbox
    granted,    \* permissions in force, and whether the secret is valid
    changes,    \* their changes so far, bounded by MaxChanges
    op,         \* the operation under way
    stage,      \* which of its calls is next or under way
    call,       \* "none", "token" or "get"
    sentAt,     \* when that was sent
    token,      \* the cached token: its roles, when it expires, and when the client thinks so
    pages,      \* pages read
    position,   \* the last message read: where the next page or fetch starts
    since,      \* the checkpoint given to list_messages
    listing,    \* a complete listing: after which message, up to which
    found,      \* what a test found so far: roles, the oldest and the newest message
    result,     \* of the last operation
    \* bookkeeping for the properties
    seen,       \* the permissions that were in force since the operation began
    there       \* the messages there when it began

world == <<now, arrived, granted, changes>>
connection == <<call, sentAt, token>>
progress == <<stage, pages, position, since, listing, found>>
vars == <<world, op, connection, progress, result, seen, there>>

Operations == {"test_token", "test_mailbox", "poll", "domains"}

NothingFound == [roles |-> {}, oldest |-> None, newest |-> None]
NoResult == [op |-> "none", ok |-> FALSE, found |-> NothingFound]

Init ==
    /\ now = 0 /\ arrived = 0 /\ granted = Grants /\ changes = 0
    /\ op = "none" /\ stage = "start"
    /\ call = "none" /\ sentAt = 0 /\ token = None
    /\ pages = 0 /\ position = 0 /\ since = 0 /\ listing = None
    /\ found = NothingFound /\ result = NoResult
    /\ seen = {} /\ there = 0

-----------------------------------------------------------------------------
(* The world. *)

\* A call under way is over before it has taken longer than CallTime.
Tick ==
    /\ now < MaxTime
    /\ call # "none" => now < sentAt + CallTime
    /\ now' = now + 1
    /\ UNCHANGED <<arrived, granted, changes, op, connection, progress, result, seen, there>>

Arrive ==
    /\ arrived < MaxArrived
    /\ arrived' = arrived + 1
    /\ UNCHANGED <<now, granted, changes, op, connection, progress, result, seen, there>>

\* A permission is consented or withdrawn, Exchange's cache catches up, the secret
\* expires or is replaced.
Change(p) ==
    /\ changes < MaxChanges
    /\ changes' = changes + 1
    /\ granted' = IF p \in granted THEN granted \ {p} ELSE granted \cup {p}
    /\ seen' = IF op = "none" THEN seen ELSE seen \cup granted'
    /\ UNCHANGED <<now, arrived, op, connection, progress, result, there>>

-----------------------------------------------------------------------------
(* Operations. *)

First(operation) ==
    CASE operation = "test_token" -> "force"
      [] operation = "test_mailbox" -> "folder"
      [] operation = "poll" -> "page"
      [] operation = "domains" -> "domains"

\* A client of its own, without a token; a poll has read its checkpoint.
Start(operation) ==
    /\ op = "none" /\ result = NoResult
    /\ op' = operation
    /\ stage' = First(operation)
    /\ seen' = granted /\ there' = arrived
    /\ \E s \in IF operation = "poll" THEN 0 .. arrived ELSE {0} :
         since' = s /\ position' = s
    /\ UNCHANGED <<world, connection, pages, listing, found, result>>

\* The client, with its token, is gone.
End(ok, finding) ==
    /\ result' = [op |-> op, ok |-> ok, found |-> finding]
    /\ op' = "none" /\ stage' = "start"
    /\ call' = "none" /\ sentAt' = 0 /\ token' = None
    /\ pages' = 0 /\ position' = 0 /\ since' = 0 /\ listing' = None
    /\ found' = NothingFound
    /\ UNCHANGED <<world, seen, there>>

\* The caller has used the result.
Use ==
    /\ result # NoResult
    /\ result' = NoResult /\ seen' = {} /\ there' = 0
    /\ UNCHANGED <<world, op, connection, progress>>

\* The operation goes on with another call, with the token at hand.
Continue(next) ==
    /\ stage' = next
    /\ call' = "none" /\ sentAt' = 0
    /\ UNCHANGED <<world, op, token, since, result, seen, there>>

-----------------------------------------------------------------------------
(* acquire_token. *)

\* The cached token is used until the margin before its expiry.
Usable(t) == t # None /\ now + Margin < t.believed

\* Every message listed has been tried.
AllFetched == stage = "fetch" /\ position = listing.upto

\* A GET begins, with the cached token or by asking for one; test_token forces that.
Send ==
    /\ op # "none" /\ call = "none" /\ ~AllFetched
    /\ call' = IF stage # "force" /\ Usable(token) THEN "get" ELSE "token"
    /\ sentAt' = now
    /\ UNCHANGED <<world, op, token, progress, result, seen, there>>

BugCountsFromAnswer(lifetime) == now + lifetime

\* Expiry as the client reckons it: from before the request.
Believed(lifetime) == sentAt + lifetime

\* Entra's token, issued while the request was under way.
Granting ==
    /\ call = "token" /\ "secret" \in granted
    /\ \E lifetime \in Lifetimes, issued \in sentAt .. now :
         token' = [roles |-> granted \cap Roles, expires |-> issued + lifetime,
                   believed |-> Believed(lifetime)]

\* The GET it was asked for goes out at once, without another look at its expiry.
TakeToken ==
    /\ Granting /\ stage # "force"
    /\ call' = "get" /\ sentAt' = now
    /\ UNCHANGED <<world, op, progress, result, seen, there>>

\* _decode_roles of test_token's token.
TakeForced ==
    /\ Granting /\ stage = "force"
    /\ found' = [found EXCEPT !.roles = token'.roles]
    /\ stage' = "domains" /\ call' = "none" /\ sentAt' = 0
    /\ UNCHANGED <<world, op, pages, position, since, listing, result, seen, there>>

-----------------------------------------------------------------------------
(* Answers to a GET: 200. *)

\* What Graph asks for at each stage.
Allowed ==
    CASE stage = "domains" -> "Domain.Read.All" \in token.roles
      [] stage = "folder" -> "folder" \in granted
      [] OTHER -> "messages" \in granted

Answered(s) == call = "get" /\ stage = s

NoneMissing(roles) == Required \subseteq roles

\* default_domain of test_token, verified_domains of the sync.
TakeDomains ==
    /\ Answered("domains") /\ Allowed
    /\ End(op = "test_token" => NoneMissing(found.roles), found)

TakeFolder ==
    /\ Answered("folder") /\ Allowed
    /\ Continue("oldest")
    /\ UNCHANGED <<pages, position, listing, found>>

BugDenialIsEmpty(message) == IF Allowed /\ arrived > 0 THEN message ELSE None

\* _edge_message: nothing only of an empty mailbox.
Edge(message) ==
    IF Allowed THEN (IF arrived = 0 THEN None ELSE message) ELSE Denied

TakeOldest ==
    /\ Answered("oldest") /\ Edge(1) # Denied
    /\ found' = [found EXCEPT !.oldest = Edge(1)]
    /\ Continue("newest")
    /\ UNCHANGED <<pages, position, listing>>

TakeNewest ==
    /\ Answered("newest") /\ Edge(arrived) # Denied
    /\ End(TRUE, [found EXCEPT !.newest = Edge(arrived)])

LastOf(from) == IF arrived <= from + PageSize THEN arrived ELSE from + PageSize

BugCapsEarly(read) == read >= MaxPages
BugCapsLate(read) == read > MaxPages + 1

\* The cap of list_messages, checked after a page has been read.
Capped(read) == read > MaxPages

\* A full page may link to the next, and does when there is more.
MayLink(upto) == upto = position + PageSize
MustLink(upto) == upto < arrived

TakePage ==
    /\ Answered("page") /\ Allowed
    /\ LET upto == LastOf(position) IN
         /\ MayLink(upto) /\ ~Capped(pages + 1)
         /\ Continue("page")
         /\ pages' = pages + 1 /\ position' = upto
    /\ UNCHANGED <<listing, found>>

TakeLastPage ==
    /\ Answered("page") /\ Allowed
    /\ LET upto == LastOf(position) IN
         /\ ~MustLink(upto) \/ Capped(pages + 1)
         /\ listing' = [since |-> since, upto |-> upto]
    /\ Continue("fetch")
    /\ pages' = 0 /\ position' = since
    /\ UNCHANGED found

BugTriesAgain(failed) == IF failed THEN position ELSE position + 1

\* get_attachments of one message: what cannot be had is passed over.
After(failed) == position + 1

TakeAttachments ==
    /\ Answered("fetch") /\ Allowed
    /\ Continue("fetch")
    /\ position' = After(FALSE)
    /\ UNCHANGED <<pages, listing, found>>

FinishPoll ==
    /\ op = "poll" /\ call = "none" /\ AllFetched
    /\ End(TRUE, found)

-----------------------------------------------------------------------------
(* GraphError: a token refused, a timeout, no connection, any status but 200.  Whatever *)
(* the permissions are, a call may fail.                                                *)

FailMessage ==
    /\ call # "none" /\ stage = "fetch"
    /\ Continue("fetch")
    /\ position' = After(TRUE)
    /\ UNCHANGED <<pages, listing, found>>

\* test_token does without the name of the tenant.
FailTenant ==
    /\ call # "none" /\ op = "test_token" /\ stage = "domains"
    /\ End(NoneMissing(found.roles), found)

FailOperation ==
    /\ call # "none" /\ stage # "fetch"
    /\ ~(op = "test_token" /\ stage = "domains")
    /\ End(FALSE, NothingFound)

-----------------------------------------------------------------------------
World ==
    \/ Tick
    \/ Arrive
    \/ \E p \in Grants : Change(p)
    \/ \E operation \in Operations : Start(operation)
    \/ Use

\* The client's own steps, and the end of each call.
Client ==
    \/ Send
    \/ TakeToken \/ TakeForced \/ TakeDomains
    \/ TakeFolder \/ TakeOldest \/ TakeNewest
    \/ TakePage \/ TakeLastPage \/ TakeAttachments \/ FinishPoll
    \/ FailMessage \/ FailTenant \/ FailOperation

Next == World \/ Client

Spec == Init /\ [][Next]_vars

\* Every call has a timeout.
FairSpec == Spec /\ WF_vars(Client)

-----------------------------------------------------------------------------
(* Properties. *)

Findings == [roles : SUBSET Roles, oldest : Nat \cup {None}, newest : Nat \cup {None}]

\* Each variable keeps its type, and a GET has a token to go with.
TypeOK ==
    /\ now \in 0 .. MaxTime /\ arrived \in 0 .. MaxArrived
    /\ granted \subseteq Grants /\ changes \in 0 .. MaxChanges
    /\ op \in Operations \cup {"none"}
    /\ stage \in {"start", "force", "domains", "folder", "oldest", "newest", "page", "fetch"}
    /\ call \in {"none", "token", "get"} /\ sentAt \in Nat
    /\ token \in Tokens \cup {None} /\ (call = "get" => token # None)
    /\ pages \in 0 .. MaxPages /\ position \in Nat /\ since \in Nat
    /\ listing \in Listings \cup {None}
    /\ (stage = "fetch") = (listing # None)
    /\ found \in Findings
    /\ result \in [op : Operations \cup {"none"}, ok : BOOLEAN, found : Findings]
    /\ seen \subseteq Grants /\ there \in Nat

\* No call is still under way when its token expires (graph.py:203: "so a long call cannot
\* start with a token that dies mid-flight").
NoCallOutlivesItsToken == call = "get" => now <= token.expires

\* A test passes only on permissions that were in force while it ran, and what it says of
\* the mailbox is so: empty only if it was, and nothing that was there is newer than the
\* newest (graph.py:325, 347).
VerdictIsEarned ==
    /\ result.ok =>
         CASE result.op = "test_token" -> Required \cup {"secret"} \subseteq seen
           [] result.op = "test_mailbox" -> Exchange \cup {"secret"} \subseteq seen
           [] result.op = "domains" -> {"Domain.Read.All", "secret"} \subseteq seen
           [] OTHER -> TRUE
    /\ result.op = "test_mailbox" /\ result.ok =>
         LET oldest == result.found.oldest
             newest == result.found.newest
         IN  /\ there > 0 => oldest # None
             /\ oldest # None => newest # None /\ newest >= oldest /\ newest >= there

\* A listing read page by page while messages arrive is one look at the mailbox, which is
\* how Ingest takes it (graph.py:375).
View == INSTANCE MailboxView WITH Cap <- (MaxPages + 1) * PageSize
ReadsAtOnce == View!Spec

\* Every operation comes to its end, whatever Graph answers and whatever arrives.
OperationEnds == op # "none" ~> op = "none"
================================================================================
