---------------------------- MODULE IngestPromise ----------------------------
(***************************************************************************)
(* What ingestion promises to everything that reads the database: the      *)
(* dashboard, the CSV exports and the ingestion log see whole polls.  A    *)
(* poll takes a prefix of the messages beyond the checkpoint, stores every *)
(* report it read that it did not reject, moves the checkpoint to the      *)
(* newest message it read, and logs an outcome that is true of it.         *)
(***************************************************************************)
EXTENDS Naturals, FiniteSets

CONSTANTS Messages, Docs, Reports, DocsOf, KindOf, ReportOf, MaxSecond

VARIABLES
    inbox,      \* messages that reached the mailbox
    received,   \* their receivedDateTime
    store       \* the committed tables

vars == <<inbox, received, store>>

Init ==
    /\ inbox = {}
    /\ received = [m \in Messages |-> 0]
    /\ store = [checkpoint |-> 0, reports |-> {}, total |-> 0, lastOutcome |-> "none",
                fate |-> [m \in Messages |-> "unseen"], rejected |-> {}]

Arrive(m) ==
    /\ m \notin inbox
    /\ inbox' = inbox \cup {m}
    /\ \E second \in 1 .. MaxSecond :
         /\ \A n \in inbox : received[n] <= second
         /\ received' = [received EXCEPT ![m] = second]
    /\ UNCHANGED store

Beyond == {m \in inbox : received[m] > store.checkpoint}

GoodDocs(ms) == {d \in UNION {DocsOf[m] : m \in ms} : KindOf[d] = "report"}
BadDocs(ms) == {d \in UNION {DocsOf[m] : m \in ms} : KindOf[d] \in {"unextractable", "malformed"}}

IsNewest(c, ms) ==
    /\ c \in {store.checkpoint} \cup {received[m] : m \in ms}
    /\ \A m \in ms : received[m] <= c

\* A poll that read the messages in read, could not fetch those in missed, and
\* failed to insert the documents in refused.
Batch(read, missed, refused) ==
    LET new == {ReportOf[d] : d \in GoodDocs(read) \ refused} \ store.reports
        wrong == missed # {} \/ refused # {} \/ BadDocs(read) # {}
    IN
    /\ \A m \in read \cup missed, n \in Beyond \ (read \cup missed) : received[m] <= received[n]
    /\ \E c \in 0 .. MaxSecond :
         /\ IsNewest(c, read)
         /\ store' = [checkpoint |-> c,
                      reports |-> store.reports \cup new,
                      total |-> store.total + Cardinality(new),
                      lastOutcome |-> IF ~wrong THEN "success"
                                      ELSE IF new = {} THEN "failure" ELSE "partial",
                      fate |-> [m \in Messages |-> IF m \in read THEN "read"
                                                   ELSE IF m \in missed THEN "missed"
                                                   ELSE store.fate[m]],
                      rejected |-> store.rejected \cup refused]

\* The poll did not get as far as a listing.
Failure == store' = [store EXCEPT !.lastOutcome = "failure"]

Poll ==
    /\ \/ Failure
       \/ \E read \in SUBSET Beyond :
            \E missed \in SUBSET (Beyond \ read), refused \in SUBSET GoodDocs(read) :
              Batch(read, missed, refused)
    /\ UNCHANGED <<inbox, received>>

Next == Poll \/ \E m \in Messages : Arrive(m)

Spec == Init /\ [][Next]_vars
=============================================================================
