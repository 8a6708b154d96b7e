---------------------------- MODULE IngestProofs ----------------------------
(***************************************************************************)
(* Proofs about Ingest, for every set of messages, every content of them   *)
(* and every bound.                                                        *)
(***************************************************************************)
EXTENDS Ingest, FiniteSetTheorems, TLAPS

USE DEF vars, envVars, runVars, budgets

-----------------------------------------------------------------------------
(* Type correctness. *)

\* The state before the first poll is well typed.
LEMMA InitTypeOK == Init => TypeOK
<1>1. EmptyTables \in Tables
  BY BoundAssumption DEF EmptyTables, Tables
<1> QED
  <2> SUFFICES ASSUME Init PROVE TypeOK
    OBVIOUS
  <2>1. clock \in 1 .. MaxSecond /\ inbox \subseteq Messages
    BY BoundAssumption DEF Init
  <2>2. received \in [Messages -> 0 .. MaxSecond]
    BY BoundAssumption DEF Init
  <2>3. configured \in BOOLEAN /\ db \in Tables /\ tx \in Tables
    BY <1>1 DEF Init
  <2>4. phase \in Phases /\ pending \subseteq inbox /\ current \in inbox \cup {NoMessage}
    BY DEF Init, Phases
  <2>5. ((phase = "message") <=> (current # NoMessage)) /\ todo \subseteq Docs
    BY DEF Init
  <2>6. previous \in Outcomes \cup {NoRun} /\ outcome \in Outcomes
    BY DEF Init, Outcomes
  <2>7. /\ parsed \in Nat /\ failed \in Nat /\ alerts \in Nat
        /\ faults \in 0 .. MaxFaults /\ crashes \in 0 .. MaxCrashes
    BY BoundAssumption DEF Init
  <2> QED
    BY <2>1, <2>2, <2>3, <2>4, <2>5, <2>6, <2>7 DEF TypeOK

\* The locals a poll leaves behind (EndRun) are well typed.
LEMMA EndRunType == TypeOK /\ EndRun => /\ phase' \in Phases \ {"message"}
                                       /\ pending' \subseteq inbox
                                       /\ current' = NoMessage
                                       /\ todo' \subseteq Docs
                                       /\ parsed' \in Nat
                                       /\ failed' \in Nat
                                       /\ previous' \in Outcomes \cup {NoRun}
                                       /\ outcome' \in Outcomes
BY DEF EndRun, Phases, Outcomes, NoRun

\* An outcome, and the alert it may raise, are well typed.
LEMMA FinishType ==
    ASSUME TypeOK, NEW r \in Outcomes, Finish(r)
    PROVE  outcome' \in Outcomes /\ alerts' \in Nat /\ phase' \in Phases \ {"message"}
BY DEF TypeOK, Finish, Phases, RaisesAlert

\* Every step of a poll, and of the world around it, keeps the types.
LEMMA NextTypeOK == TypeOK /\ [Next]_vars => TypeOK'
<1> SUFFICES ASSUME TypeOK, [Next]_vars PROVE TypeOK'
  OBVIOUS
<1> USE ContentAssumption, BoundAssumption
<1>1. CASE Tick
  BY <1>1 DEF Tick, TypeOK
<1>2. ASSUME NEW m \in Messages, Deliver(m) PROVE TypeOK'
  BY <1>2 DEF Deliver, TypeOK
<1>3. CASE ChangeConfiguration
  BY <1>3 DEF ChangeConfiguration, TypeOK
<1>4. CASE BeginRun
  BY <1>4 DEF BeginRun, TypeOK, Tables, Phases
<1>5. CASE NotConfigured
  BY <1>5, FinishType DEF NotConfigured, TypeOK, Outcomes
<1>6. CASE ListFails
  BY <1>6, FinishType DEF ListFails, TypeOK, Outcomes
<1>7. CASE ListMessages
  BY <1>7 DEF ListMessages, TypeOK, Phases
<1>8. ASSUME NEW m \in Messages, FetchFails(m) PROVE TypeOK'
  <2>1. tx' \in Tables
    BY <1>8 DEF FetchFails, TypeOK, Tables
  <2> QED
    BY <1>8, <2>1 DEF FetchFails, TypeOK
<1>9. ASSUME NEW m \in Messages, FetchAttachments(m) PROVE TypeOK'
  <2>1. m \in inbox /\ m # NoMessage
    BY <1>9 DEF FetchAttachments, IsOldestPending, TypeOK
  <2>2. current' \in inbox' \cup {NoMessage} /\ ((phase' = "message") <=> (current' # NoMessage))
    BY <1>9, <2>1 DEF FetchAttachments
  <2>3. pending' \subseteq inbox' /\ todo' \subseteq Docs
    BY <1>9 DEF FetchAttachments, TypeOK
  <2> QED
    BY <1>9, <2>2, <2>3 DEF FetchAttachments, TypeOK, Phases
<1>10. ASSUME NEW d \in Docs, Document(d) PROVE TypeOK'
  <2>1. CASE DiscardForensic(d) \/ SkipDuplicate(d)
    BY <2>1 DEF DiscardForensic, SkipDuplicate, Takes, TypeOK
  <2>2. CASE RejectDocument(d)
    BY <2>2 DEF RejectDocument, Takes, TypeOK
  <2>3. CASE PersistFails(d)
    <3>1. tx' \in Tables
      BY <2>3 DEF PersistFails, TypeOK, Tables
    <3> QED
      BY <2>3, <3>1 DEF PersistFails, Takes, TypeOK
  <2>4. CASE PersistReport(d)
    <3>1. tx' \in Tables
      BY <2>4 DEF PersistReport, TypeOK, Tables
    <3> QED
      BY <2>4, <3>1 DEF PersistReport, Takes, TypeOK
  <2>5. CASE EscapeException(d)
    BY <2>5, EndRunType DEF EscapeException, TypeOK
  <2> QED
    BY <1>10, <2>1, <2>2, <2>3, <2>4, <2>5 DEF Document
<1>11. CASE FinishMessage
  <2> DEFINE c == Advance(tx.checkpoint, received[current])
  <2>1. c \in 0 .. MaxSecond
    BY <1>11 DEF FinishMessage, TypeOK, Tables, Advance
  <2>2. current \in Messages
    BY <1>11 DEF FinishMessage, TypeOK
  <2> HIDE DEF c
  <2>3. tx' = [[tx EXCEPT !.fate[current] = "read"] EXCEPT !.checkpoint = c]
    BY <1>11 DEF FinishMessage, TypeOK, Tables, c
  <2>4. [tx EXCEPT !.fate[current] = "read"] \in Tables
    BY <2>2 DEF TypeOK, Tables
  <2>5. tx' \in Tables
    BY <2>1, <2>3, <2>4 DEF TypeOK, Tables
  <2> QED
    BY <1>11, <2>5 DEF FinishMessage, TypeOK, Phases
<1>12. CASE FinishBatch
  <2>1. OutcomeOf(parsed, failed) \in Outcomes
    BY DEF OutcomeOf, Outcomes, TypeOK
  <2> QED
    BY <1>12, <2>1, FinishType DEF FinishBatch, TypeOK
<1>13. CASE Commit
  <2>1. db' \in Tables
    <3> DEFINE t == [tx EXCEPT !.lastOutcome = outcome]
    <3>1. db' = [t EXCEPT !.total = t.total + parsed]
      BY <1>13 DEF Commit, Publish, TypeOK, Tables
    <3>2. t \in Tables
      BY DEF TypeOK, Tables
    <3> HIDE DEF t
    <3>3. t.total + parsed \in Nat
      BY <3>2 DEF TypeOK, Tables
    <3> QED
      BY <3>1, <3>2, <3>3 DEF Tables
  <2> QED
    BY <1>13, <2>1, EndRunType DEF Commit, TypeOK
<1>14. CASE Rollback
  BY <1>14, EndRunType DEF Rollback, TypeOK
<1>15. CASE UNCHANGED vars
  BY <1>15 DEF TypeOK
<1> QED
  BY <1>1, <1>2, <1>3, <1>4, <1>5, <1>6, <1>7, <1>8, <1>9, <1>10, <1>11, <1>12, <1>13, <1>14, <1>15
     DEF Next, Poll, World

\* Every variable keeps its type, whatever the messages carry.
THEOREM TypeCorrect == Spec => []TypeOK
BY InitTypeOK, NextTypeOK, PTL DEF Spec

-----------------------------------------------------------------------------
(* The checkpoint.  Deliver and FinishMessage are the steps that matter: a      *)
(* message that arrives in the checkpoint's second shares it with a message     *)
(* that was read, and the oldest pending message moves the checkpoint over      *)
(* nothing that is not accounted for.                                           *)

\* CheckpointInv holds before the first poll.
LEMMA InitCheckpointInv == Init => CheckpointInv
BY DEF Init, EmptyTables, CheckpointInv, Covered, Grounded, ReadIsPassed, InTime, InOrder,
       Ahead, Fresh

\* A step that ends the poll without writing.
LEMMA AbandonCheckpoint ==
    ASSUME CheckpointInv, TypeOK, EndRun, tx' = db, UNCHANGED <<db, envVars>>, NoMessage \notin Messages
    PROVE  CheckpointInv'
BY DEF CheckpointInv, EndRun, Covered, Grounded, ReadIsPassed, InTime, InOrder, Ahead, Fresh,
       TypeOK

\* A step that leaves the listing, the messages' fates and the checkpoint alone.
LEMMA KeepCheckpoint ==
    ASSUME CheckpointInv, UNCHANGED <<envVars, db, pending, current>>,
           tx'.checkpoint = tx.checkpoint, tx'.fate = tx.fate,
           phase' \in {"idle", "listing"} => tx' = db /\ pending = {}
    PROVE  CheckpointInv'
BY DEF CheckpointInv, Covered, Grounded, ReadIsPassed, InTime, InOrder, Ahead, Fresh

\* A message that arrives during a poll is not older than what the poll has listed,
\* so it disturbs neither its order nor what the checkpoint covers.
LEMMA DeliverCheckpoint ==
    ASSUME TypeOK, CheckpointInv, NEW m \in Messages, Deliver(m)
    PROVE  CheckpointInv'
<1> USE DEF Deliver
<1>1. /\ \A n \in inbox : received'[n] = received[n] /\ n # m
      /\ received'[m] = clock /\ inbox' = inbox \cup {m}
      /\ clock \in Nat /\ clock >= 1
  BY BoundAssumption DEF TypeOK
<1>2. InTime'
  BY <1>1 DEF CheckpointInv, InTime
<1>3. ASSUME NEW t \in {db, tx} PROVE Covered(t)' /\ Grounded(t)' /\ ReadIsPassed(t)'
  <2>1. Covered(t) /\ Grounded(t) /\ ReadIsPassed(t) /\ InTime
    BY DEF CheckpointInv
  <2>2. ReadIsPassed(t)'
    BY <1>1, <2>1 DEF ReadIsPassed
  <2>3. Grounded(t)'
    BY <1>1, <2>1 DEF Grounded
  <2>4. t.checkpoint <= clock /\ t.checkpoint \in Nat
    BY <1>1, <2>1 DEF Grounded, InTime, TypeOK, Tables
  <2>5. ASSUME received'[m] <= t.checkpoint
        PROVE  \E n \in inbox : n # m /\ t.fate[n] = "read" /\ received'[n] = received'[m]
    <3>1. t.checkpoint = clock /\ t.checkpoint # 0
      BY <1>1, <2>4, <2>5
    <3> QED
      BY <1>1, <2>1, <3>1 DEF Grounded
  <2>6. Covered(t)'
    BY <1>1, <2>1, <2>5 DEF Covered
  <2> QED
    BY <2>2, <2>3, <2>6
<1>4. InOrder'
  <2>1. Ahead' = Ahead
    <3>1. m # current
      BY ContentAssumption DEF TypeOK
    <3> QED
      BY <3>1 DEF Ahead, TypeOK
  <2>2. \A p \in Ahead : received'[p] = received[p] /\ received[p] <= clock
    BY <1>1 DEF CheckpointInv, InTime, Ahead, TypeOK
  <2> QED
    BY <1>1, <2>1, <2>2 DEF CheckpointInv, InOrder, Ahead, TypeOK
<1>5. Fresh'
  BY DEF CheckpointInv, Fresh
<1> QED
  BY <1>2, <1>3, <1>4, <1>5 DEF CheckpointInv

\* What list_messages returns is a prefix: nothing left out of it is older.
LEMMA ListCheckpoint ==
    ASSUME TypeOK, CheckpointInv, ListMessages
    PROVE  CheckpointInv'
<1>1. /\ UNCHANGED <<envVars, db, tx, current>> /\ phase = "listing" /\ phase' = "reading"
      /\ IsListing(pending', tx.checkpoint)
  BY DEF ListMessages
<1>2. current = NoMessage /\ NoMessage \notin inbox
  BY <1>1, ContentAssumption DEF TypeOK
<1>3. Ahead' = pending' /\ pending' \subseteq Newer(tx.checkpoint)
  BY <1>1, <1>2 DEF Ahead, IsListing
<1>4. \A p \in pending' : tx.fate[p] # "read"
  <2>1. \A n \in inbox : tx.fate[n] = "read" => received[n] <= tx.checkpoint
    BY DEF CheckpointInv, ReadIsPassed, TypeOK
  <2> QED
    BY <1>3, <2>1 DEF Newer, TypeOK, Tables
<1>5. InOrder'
  BY <1>1, <1>2, <1>3, <1>4 DEF InOrder, IsListing, Newer
<1> QED
  BY <1>1, <1>5 DEF CheckpointInv, Covered, Grounded, ReadIsPassed, InTime, Fresh

\* The message is left behind: it goes from ahead of the poll to missed.
LEMMA FetchFailsCheckpoint ==
    ASSUME TypeOK, CheckpointInv, NEW m \in Messages, FetchFails(m)
    PROVE  CheckpointInv'
<1>1. /\ UNCHANGED <<envVars, db, phase, current>> /\ phase = "reading"
      /\ m \in pending /\ pending' = pending \ {m}
      /\ tx'.checkpoint = tx.checkpoint
      /\ tx'.fate = [tx.fate EXCEPT ![m] = "missed"]
  BY DEF FetchFails, IsOldestPending, TypeOK, Tables
<1>2. tx.fate \in [Messages -> {"unseen", "read", "missed"}] /\ tx.fate[m] # "read"
  BY <1>1 DEF TypeOK, Tables, CheckpointInv, InOrder, Ahead
<1>3. \A n \in Messages : /\ n # m => tx'.fate[n] = tx.fate[n]
                          /\ tx'.fate[n] = "read" <=> tx.fate[n] = "read"
  BY <1>1, <1>2
<1>4. tx'.fate[m] = "missed"
  BY <1>1, <1>2
<1>5. Covered(tx)' /\ Grounded(tx)' /\ ReadIsPassed(tx)'
  BY <1>1, <1>3, <1>4 DEF CheckpointInv, Covered, Grounded, ReadIsPassed, TypeOK
<1>6. Covered(db)' /\ Grounded(db)' /\ ReadIsPassed(db)'
  BY <1>1 DEF CheckpointInv, Covered, Grounded, ReadIsPassed
<1>7. current = NoMessage /\ NoMessage \notin inbox
  BY <1>1, ContentAssumption DEF TypeOK
<1>8. Ahead = pending /\ Ahead' = pending \ {m}
  BY <1>1, <1>7 DEF Ahead
<1>9. InOrder'
  BY <1>1, <1>3, <1>4, <1>7, <1>8 DEF CheckpointInv, InOrder, TypeOK
<1> QED
  BY <1>1, <1>5, <1>6, <1>9 DEF CheckpointInv, InTime, Fresh

\* Turning to the oldest pending message keeps the order.
LEMMA FetchCheckpoint ==
    ASSUME TypeOK, CheckpointInv, NEW m \in Messages, FetchAttachments(m)
    PROVE  CheckpointInv'
<1>1. /\ UNCHANGED <<envVars, db, tx>> /\ phase = "reading" /\ phase' = "message"
      /\ m \in pending /\ m \in inbox /\ pending' = pending \ {m} /\ current' = m
      /\ \A n \in pending : received[m] <= received[n]
  BY DEF FetchAttachments, IsOldestPending, TypeOK
<1>2. current = NoMessage /\ NoMessage \notin inbox
  BY <1>1, ContentAssumption DEF TypeOK
<1>3. Ahead = pending /\ Ahead' = pending
  BY <1>1, <1>2 DEF Ahead
<1>4. InOrder'
  BY <1>1, <1>2, <1>3 DEF CheckpointInv, InOrder
<1> QED
  BY <1>1, <1>4 DEF CheckpointInv, Covered, Grounded, ReadIsPassed, InTime, Fresh

\* The checkpoint moves to the message that was read, over nothing unaccounted for.
LEMMA FinishMessageCheckpoint ==
    ASSUME TypeOK, CheckpointInv, FinishMessage
    PROVE  CheckpointInv'
<1> DEFINE r == received[current]
           c == tx'.checkpoint
<1>1. /\ UNCHANGED <<envVars, db, pending>> /\ phase = "message" /\ phase' = "reading"
      /\ current' = NoMessage /\ NoMessage \notin inbox
      /\ current \in inbox /\ current \in Messages
  BY ContentAssumption DEF FinishMessage, TypeOK
<1>2. /\ r \in Nat /\ tx.checkpoint \in Nat /\ \A n \in inbox : received[n] \in Nat
      /\ tx.fate \in [Messages -> {"unseen", "read", "missed"}]
  BY <1>1 DEF TypeOK, Tables
<1>3. /\ tx'.fate = [tx.fate EXCEPT ![current] = "read"]
      /\ c = Advance(tx.checkpoint, r)
  BY <1>1 DEF FinishMessage, TypeOK, Tables
<1>4. /\ tx'.fate[current] = "read"
      /\ \A n \in Messages : n # current => tx'.fate[n] = tx.fate[n]
  BY <1>1, <1>2, <1>3
<1>5. c \in Nat /\ c >= r /\ c >= tx.checkpoint /\ (c = r \/ c = tx.checkpoint)
  BY <1>2, <1>3 DEF Advance
<1>6. /\ current \notin pending /\ Ahead = pending \cup {current} /\ Ahead' = pending
      /\ tx.fate[current] # "read"
  BY <1>1 DEF CheckpointInv, InOrder, Ahead
<1> HIDE DEF c
<1>7. Covered(tx)'
  <2> SUFFICES ASSUME NEW m \in inbox, received[m] <= c, tx'.fate[m] = "unseen"
               PROVE  \E n \in inbox : n # m /\ tx'.fate[n] = "read" /\ received[n] = received[m]
    BY <1>1, <1>2, <1>3 DEF Covered, TypeOK, c
  <2>1. m # current /\ m \in Messages /\ tx.fate[m] = "unseen"
    BY <1>4 DEF TypeOK
  <2>2. CASE received[m] <= tx.checkpoint
    BY <2>1, <2>2, <1>4 DEF CheckpointInv, Covered, TypeOK
  <2>3. CASE received[m] > tx.checkpoint
    <3>1. received[m] <= r
      BY <1>2, <1>5, <2>3
    <3>2. r <= received[m]
      BY <1>1, <1>6, <2>1, <2>3 DEF CheckpointInv, InOrder
    <3> QED
      BY <1>1, <1>2, <1>4, <2>1, <3>1, <3>2
  <2> QED
    BY <1>2, <2>2, <2>3
<1>8. Grounded(tx)' /\ ReadIsPassed(tx)'
  <2>1. Grounded(tx) /\ ReadIsPassed(tx)
    BY DEF CheckpointInv
  <2>2. Grounded(tx)'
    BY <1>1, <1>4, <1>5, <1>6, <2>1 DEF Grounded, TypeOK, c
  <2>3. \A m \in Messages : tx'.fate[m] = "read" => m \in inbox' /\ received'[m] <= c
    BY <1>1, <1>2, <1>4, <1>5, <2>1 DEF ReadIsPassed
  <2> QED
    BY <2>2, <2>3 DEF ReadIsPassed, c
<1>9. Covered(db)' /\ Grounded(db)' /\ ReadIsPassed(db)'
  BY <1>1 DEF CheckpointInv, Covered, Grounded, ReadIsPassed
<1>10. InOrder'
  <2>1. \A p \in pending : tx'.fate[p] # "read"
    BY <1>4, <1>6 DEF CheckpointInv, InOrder, TypeOK
  <2>2. ASSUME NEW p \in pending, NEW m \in inbox \ pending,
               tx'.fate[m] = "unseen", received[m] > c
        PROVE  received[p] <= received[m]
    <3>1. m # current /\ m \notin Ahead /\ tx.fate[m] = "unseen"
      BY <1>4, <1>6, <2>2 DEF TypeOK
    <3>2. received[m] > tx.checkpoint
      BY <1>2, <1>5, <2>2
    <3> QED
      BY <1>6, <3>1, <3>2 DEF CheckpointInv, InOrder
  <2>3. current' \notin pending' /\ current' \notin inbox'
    BY <1>1 DEF TypeOK
  <2> QED
    BY <1>1, <1>6, <2>1, <2>2, <2>3 DEF InOrder, c
<1> QED
  BY <1>1, <1>7, <1>8, <1>9, <1>10 DEF CheckpointInv, InTime, Fresh

\* A commit publishes what held of the transaction.
LEMMA CommitCheckpoint ==
    ASSUME TypeOK, CheckpointInv, Commit
    PROVE  CheckpointInv'
<1>1. /\ UNCHANGED envVars /\ tx' = db' /\ pending' = {} /\ current' = NoMessage
      /\ db'.checkpoint = tx.checkpoint /\ db'.fate = tx.fate
      /\ NoMessage \notin inbox
  BY ContentAssumption DEF Commit, Publish, EndRun, TypeOK, Tables
<1>2. Covered(db)' /\ Grounded(db)' /\ ReadIsPassed(db)'
  BY <1>1 DEF CheckpointInv, Covered, Grounded, ReadIsPassed
<1>3. Covered(tx)' /\ Grounded(tx)' /\ ReadIsPassed(tx)'
  BY <1>1, <1>2 DEF Covered, Grounded, ReadIsPassed
<1> QED
  BY <1>1, <1>2, <1>3 DEF CheckpointInv, InTime, InOrder, Ahead, Fresh

\* Every step keeps CheckpointInv.
LEMMA NextCheckpointInv == TypeOK /\ CheckpointInv /\ [Next]_vars => CheckpointInv'
<1> SUFFICES ASSUME TypeOK, CheckpointInv, [Next]_vars PROVE CheckpointInv'
  OBVIOUS
<1>1. CASE Tick
  <2>1. InTime'
    BY <1>1 DEF Tick, CheckpointInv, InTime, TypeOK
  <2> QED
    BY <1>1, <2>1 DEF Tick, CheckpointInv, Covered, Grounded, ReadIsPassed, InOrder, Ahead, Fresh
<1>2. ASSUME NEW m \in Messages, Deliver(m) PROVE CheckpointInv'
  BY <1>2, DeliverCheckpoint
<1>3. CASE ChangeConfiguration
  BY <1>3 DEF ChangeConfiguration, CheckpointInv, Covered, Grounded, ReadIsPassed, InTime,
              InOrder, Ahead, Fresh
<1>4. CASE BeginRun
  <2>1. tx' = tx /\ pending = {}
    BY <1>4 DEF BeginRun, CheckpointInv, Fresh
  <2> QED
    BY <1>4, <2>1, KeepCheckpoint DEF BeginRun
<1>5. CASE NotConfigured \/ ListFails
  BY <1>5, KeepCheckpoint DEF NotConfigured, ListFails, Finish
<1>6. CASE ListMessages
  BY <1>6, ListCheckpoint
<1>7. ASSUME NEW m \in Messages, FetchFails(m) \/ FetchAttachments(m) PROVE CheckpointInv'
  BY <1>7, FetchFailsCheckpoint, FetchCheckpoint
<1>8. ASSUME NEW d \in Docs, Document(d) PROVE CheckpointInv'
  <2>1. CASE DiscardForensic(d) \/ RejectDocument(d) \/ SkipDuplicate(d)
    BY <2>1, KeepCheckpoint DEF DiscardForensic, RejectDocument, SkipDuplicate, Takes
  <2>2. CASE PersistFails(d)
    <3>1. tx'.checkpoint = tx.checkpoint /\ tx'.fate = tx.fate
      BY <2>2 DEF PersistFails, TypeOK, Tables
    <3> QED
      BY <2>2, <3>1, KeepCheckpoint DEF PersistFails, Takes
  <2>3. CASE PersistReport(d)
    <3>1. tx'.checkpoint = tx.checkpoint /\ tx'.fate = tx.fate
      BY <2>3 DEF PersistReport, TypeOK, Tables
    <3> QED
      BY <2>3, <3>1, KeepCheckpoint DEF PersistReport, Takes
  <2>4. CASE EscapeException(d)
    BY <2>4, AbandonCheckpoint, ContentAssumption DEF EscapeException
  <2> QED
    BY <1>8, <2>1, <2>2, <2>3, <2>4 DEF Document
<1>9. CASE FinishMessage
  BY <1>9, FinishMessageCheckpoint
<1>10. CASE FinishBatch
  BY <1>10, KeepCheckpoint DEF FinishBatch, Finish
<1>11. CASE Commit
  BY <1>11, CommitCheckpoint
<1>12. CASE Rollback
  BY <1>12, AbandonCheckpoint, ContentAssumption DEF Rollback
<1>13. CASE UNCHANGED vars
  BY <1>13 DEF CheckpointInv, Covered, Grounded, ReadIsPassed, InTime, InOrder, Ahead, Fresh
<1> QED
  BY <1>1, <1>2, <1>3, <1>4, <1>5, <1>6, <1>7, <1>8, <1>9, <1>10, <1>11, <1>12, <1>13
     DEF Next, Poll, World

\* CheckpointInv holds in every reachable state.
LEMMA CheckpointInvariant == Spec => []CheckpointInv
BY InitTypeOK, NextTypeOK, InitCheckpointInv, NextCheckpointInv, PTL DEF Spec

\* The checkpoint passes a message only when it was read, when a committed run
\* could not fetch it, or when it shares its second with one that was read: for
\* every mailbox, page cap and sequence of crashes and faults.
THEOREM CheckpointSkipsNothingUnexplained == Spec => []SkipsAreExplained
<1>1. CheckpointInv => SkipsAreExplained
  BY DEF CheckpointInv, Covered, SkipsAreExplained, Passed, SharesSecond
<1> QED
  BY <1>1, CheckpointInvariant, PTL

-----------------------------------------------------------------------------
(* What was read is stored. *)

\* Nothing is read and nothing stored before the first poll.
LEMMA InitStorageInv == Init => StorageInv
BY DEF Init, EmptyTables, StorageInv, AllStored

\* A step that leaves every table alone but may end the poll.
LEMMA KeepStorage ==
    ASSUME StorageInv, UNCHANGED db, tx' \in {tx, db}, phase' # "message"
    PROVE  StorageInv'
BY DEF StorageInv, AllStored, StoredIn

\* The next document of a message leaves the todo list once it is stored or needs
\* no storing, and the tables only grow.
LEMMA DocumentStorage ==
    ASSUME TypeOK, StorageInv, NEW d \in Docs, phase = "message", todo' = todo \ {d},
           UNCHANGED <<db, phase, current>>, tx'.fate = tx.fate,
           tx.reports \subseteq tx'.reports, tx.rejected \subseteq tx'.rejected,
           StoredIn(tx, d)'
    PROVE  StorageInv'
BY DEF StorageInv, AllStored, StoredIn

\* Every step keeps StorageInv.
LEMMA NextStorageInv == TypeOK /\ StorageInv /\ [Next]_vars => StorageInv'
<1> SUFFICES ASSUME TypeOK, StorageInv, [Next]_vars PROVE StorageInv'
  OBVIOUS
<1>1. CASE Tick \/ ChangeConfiguration \/ UNCHANGED vars
  BY <1>1 DEF Tick, ChangeConfiguration, StorageInv, AllStored, StoredIn
<1>2. ASSUME NEW m \in Messages, Deliver(m) PROVE StorageInv'
  BY <1>2 DEF Deliver, StorageInv, AllStored, StoredIn
<1>3. CASE BeginRun \/ NotConfigured \/ ListFails \/ ListMessages \/ FinishBatch
  BY <1>3, KeepStorage DEF BeginRun, NotConfigured, ListFails, ListMessages, FinishBatch, Finish
<1>4. ASSUME NEW m \in Messages, FetchFails(m) PROVE StorageInv'
  <2>1. /\ tx'.reports = tx.reports /\ tx'.rejected = tx.rejected
        /\ \A n \in Messages : tx'.fate[n] = "read" => tx.fate[n] = "read"
        /\ UNCHANGED <<db, phase>> /\ phase = "reading"
    BY <1>4 DEF FetchFails, IsOldestPending, TypeOK, Tables
  <2> QED
    BY <2>1 DEF StorageInv, AllStored, StoredIn
<1>5. ASSUME NEW m \in Messages, FetchAttachments(m) PROVE StorageInv'
  BY <1>5 DEF FetchAttachments, StorageInv, AllStored, StoredIn
<1>6. ASSUME NEW d \in Docs, Document(d) PROVE StorageInv'
  <2>1. CASE DiscardForensic(d) \/ RejectDocument(d) \/ SkipDuplicate(d)
    <3>1. StoredIn(tx, d)'
      BY <2>1 DEF DiscardForensic, RejectDocument, SkipDuplicate, StoredIn
    <3> QED
      BY <2>1, <3>1, DocumentStorage DEF DiscardForensic, RejectDocument, SkipDuplicate, Takes
  <2>2. CASE PersistFails(d)
    <3>1. tx'.fate = tx.fate /\ tx'.reports = tx.reports /\ tx'.rejected = tx.rejected \cup {d}
      BY <2>2 DEF PersistFails, TypeOK, Tables
    <3>2. StoredIn(tx, d)'
      BY <3>1 DEF StoredIn
    <3> QED
      BY <2>2, <3>1, <3>2, DocumentStorage DEF PersistFails, Takes
  <2>3. CASE PersistReport(d)
    <3>1. /\ tx'.fate = tx.fate /\ tx'.rejected = tx.rejected
          /\ tx'.reports = tx.reports \cup {ReportOf[d]}
      BY <2>3 DEF PersistReport, TypeOK, Tables
    <3>2. StoredIn(tx, d)'
      BY <3>1 DEF StoredIn
    <3> QED
      BY <2>3, <3>1, <3>2, DocumentStorage DEF PersistReport, Takes
  <2>4. CASE EscapeException(d)
    BY <2>4, KeepStorage DEF EscapeException, EndRun
  <2> QED
    BY <1>6, <2>1, <2>2, <2>3, <2>4 DEF Document
<1>7. CASE FinishMessage
  <2>1. /\ tx'.reports = tx.reports /\ tx'.rejected = tx.rejected
        /\ \A n \in Messages : tx'.fate[n] = "read" => tx.fate[n] = "read" \/ n = current
        /\ UNCHANGED db /\ phase = "message" /\ phase' = "reading" /\ todo = {}
    BY <1>7 DEF FinishMessage, TypeOK, Tables
  <2> QED
    BY <2>1 DEF StorageInv, AllStored, StoredIn
<1>8. CASE Commit
  <2>1. /\ db' = tx' /\ db'.reports = tx.reports /\ db'.rejected = tx.rejected
        /\ db'.fate = tx.fate /\ phase' = "idle"
    BY <1>8 DEF Commit, Publish, EndRun, TypeOK, Tables
  <2> QED
    BY <2>1 DEF StorageInv, AllStored, StoredIn
<1>9. CASE Rollback
  BY <1>9, KeepStorage DEF Rollback, EndRun
<1> QED
  BY <1>1, <1>2, <1>3, <1>4, <1>5, <1>6, <1>7, <1>8, <1>9 DEF Next, Poll, World

\* The checkpoint and the reports are committed together: no message is recorded
\* as read whose well-formed reports are neither stored nor refused.
THEOREM ReadIsStored == Spec => []ReadMeansStored
<1>1. StorageInv => ReadMeansStored
  BY DEF StorageInv, AllStored, StoredIn, ReadMeansStored
<1> QED
  BY <1>1, InitTypeOK, NextTypeOK, InitStorageInv, NextStorageInv, PTL DEF Spec

-----------------------------------------------------------------------------
(* The log accounts for the reports. *)

\* No report is stored and none is logged before the first poll.
LEMMA InitCountInv == Init => CountInv
BY FS_EmptySet DEF Init, EmptyTables, CountInv

\* A step that stores and counts nothing keeps CountInv.
LEMMA KeepCount ==
    ASSUME CountInv, UNCHANGED db, tx'.total = tx.total, tx'.reports = tx.reports,
           parsed' = parsed, phase' \notin {"idle", "listing"}
    PROVE  CountInv'
BY DEF CountInv

\* A poll that is rolled back takes its count with it.
LEMMA AbandonCount ==
    ASSUME CountInv, TypeOK, UNCHANGED db, tx' = db, EndRun
    PROVE  CountInv'
BY DEF CountInv, EndRun, TypeOK, Tables

\* Every step keeps CountInv.
LEMMA NextCountInv == TypeOK /\ CountInv /\ [Next]_vars => CountInv'
<1> SUFFICES ASSUME TypeOK, CountInv, [Next]_vars PROVE CountInv'
  OBVIOUS
<1>1. CASE Tick \/ ChangeConfiguration \/ UNCHANGED vars
  BY <1>1 DEF Tick, ChangeConfiguration, CountInv
<1>2. ASSUME NEW m \in Messages, Deliver(m) PROVE CountInv'
  BY <1>2 DEF Deliver, CountInv
<1>3. CASE BeginRun
  BY <1>3 DEF BeginRun, CountInv
<1>4. CASE NotConfigured \/ ListFails \/ ListMessages \/ FinishBatch
  BY <1>4, KeepCount DEF NotConfigured, ListFails, ListMessages, FinishBatch, Finish
<1>5. ASSUME NEW m \in Messages, FetchFails(m) \/ FetchAttachments(m) PROVE CountInv'
  <2>1. tx'.total = tx.total /\ tx'.reports = tx.reports
    BY <1>5 DEF FetchFails, FetchAttachments, TypeOK, Tables
  <2> QED
    BY <1>5, <2>1, KeepCount DEF FetchFails, FetchAttachments, IsOldestPending
<1>6. ASSUME NEW d \in Docs, Document(d) PROVE CountInv'
  <2>1. CASE DiscardForensic(d) \/ RejectDocument(d) \/ SkipDuplicate(d)
    BY <2>1, KeepCount DEF DiscardForensic, RejectDocument, SkipDuplicate, Takes
  <2>2. CASE PersistFails(d)
    <3>1. tx'.total = tx.total /\ tx'.reports = tx.reports
      BY <2>2 DEF PersistFails, TypeOK, Tables
    <3> QED
      BY <2>2, <3>1, KeepCount DEF PersistFails, Takes
  <2>3. CASE PersistReport(d)
    <3>1. /\ tx'.total = tx.total /\ tx'.reports = tx.reports \cup {ReportOf[d]}
          /\ ReportOf[d] \notin tx.reports /\ parsed' = parsed + 1
          /\ phase' = "message" /\ UNCHANGED db
      BY <2>3 DEF PersistReport, Takes, TypeOK, Tables
    <3>2. IsFiniteSet(tx.reports)
      BY ContentAssumption, FS_Subset DEF TypeOK, Tables
    <3>3. Cardinality(tx'.reports) = Cardinality(tx.reports) + 1
      BY <3>1, <3>2, FS_AddElement
    <3> QED
      BY <3>1, <3>3 DEF CountInv, TypeOK, Tables
  <2>4. CASE EscapeException(d)
    BY <2>4, AbandonCount DEF EscapeException
  <2> QED
    BY <1>6, <2>1, <2>2, <2>3, <2>4 DEF Document
<1>7. CASE FinishMessage
  <2>1. tx'.total = tx.total /\ tx'.reports = tx.reports
    BY <1>7 DEF FinishMessage, TypeOK, Tables
  <2> QED
    BY <1>7, <2>1, KeepCount DEF FinishMessage
<1>8. CASE Commit
  <2>1. /\ db' = tx' /\ db'.reports = tx.reports /\ db'.total = tx.total + parsed
        /\ parsed' = 0
    BY <1>8 DEF Commit, Publish, EndRun, TypeOK, Tables
  <2> QED
    BY <2>1 DEF CountInv, TypeOK, Tables
<1>9. CASE Rollback
  BY <1>9, AbandonCount DEF Rollback
<1> QED
  BY <1>1, <1>2, <1>3, <1>4, <1>5, <1>6, <1>7, <1>8, <1>9 DEF Next, Poll, World

\* The sum of reports_parsed over the ingest_run rows is the number of reports in
\* the database, whatever was delivered twice, rolled back or abandoned.
THEOREM LogMatchesReports == Spec => []LogAccountsForReports
<1>1. CountInv => LogAccountsForReports
  BY DEF CountInv, LogAccountsForReports
<1> QED
  BY <1>1, InitTypeOK, NextTypeOK, InitCountInv, NextCountInv, PTL DEF Spec

-----------------------------------------------------------------------------
(* Alerts. *)

\* A failure about to be committed.
Failing == phase = "committing" /\ outcome = "failure"

\* During a poll, previous is the outcome in the log; an outage in the log, or about to
\* be, was alerted; and an alert that no outage explains was posted before a crash.
AlertInv ==
    /\ phase # "idle" => previous = db.lastOutcome
    /\ Alerting /\ (db.lastOutcome = "failure" \/ Failing) => alerts >= 1
    /\ db.lastOutcome # "failure" /\ ~Failing => alerts <= crashes
    /\ alerts <= 1 + crashes

\* No outage is logged and no alert raised before the first poll.
LEMMA InitAlertInv == Init => AlertInv
BY DEF Init, EmptyTables, AlertInv, Failing, NoRun

\* A step within a poll that has no outcome yet.
LEMMA KeepAlerts ==
    ASSUME AlertInv, UNCHANGED <<db, previous, alerts, crashes>>, phase # "idle",
           phase # "committing", phase' # "committing"
    PROVE  AlertInv'
BY DEF AlertInv, Failing

\* The outcome is decided: the alert is raised unless the outage is an old one.
LEMMA FinishAlerts ==
    ASSUME TypeOK, AlertInv, NEW result \in Outcomes, Finish(result),
           phase # "idle", phase # "committing", UNCHANGED <<db, previous, crashes>>
    PROVE  AlertInv'
<1>1. /\ outcome' = result /\ phase' = "committing"
      /\ alerts' = IF RaisesAlert(result) THEN alerts + 1 ELSE alerts
  BY DEF Finish
<1>2. alerts \in Nat /\ crashes \in Nat /\ previous = db.lastOutcome /\ ~Failing
  BY BoundAssumption DEF TypeOK, AlertInv, Failing
<1>3. RaisesAlert(result) <=> (result = "failure" /\ db.lastOutcome # "failure" /\ Alerting)
  BY <1>2 DEF RaisesAlert
<1> QED
  BY <1>1, <1>2, <1>3 DEF AlertInv, Failing

\* Every step keeps AlertInv.
LEMMA NextAlertInv == TypeOK /\ AlertInv /\ [Next]_vars => AlertInv'
<1> SUFFICES ASSUME TypeOK, AlertInv, [Next]_vars PROVE AlertInv'
  OBVIOUS
<1>1. CASE Tick \/ ChangeConfiguration \/ UNCHANGED vars
  BY <1>1 DEF Tick, ChangeConfiguration, AlertInv, Failing
<1>2. ASSUME NEW m \in Messages, Deliver(m) PROVE AlertInv'
  BY <1>2 DEF Deliver, AlertInv, Failing
<1>3. CASE BeginRun
  BY <1>3 DEF BeginRun, AlertInv, Failing
<1>4. CASE NotConfigured \/ ListFails
  BY <1>4, FinishAlerts DEF NotConfigured, ListFails, Outcomes
<1>5. CASE ListMessages
  BY <1>5, KeepAlerts DEF ListMessages
<1>6. ASSUME NEW m \in Messages, FetchFails(m) \/ FetchAttachments(m) PROVE AlertInv'
  BY <1>6, KeepAlerts DEF FetchFails, FetchAttachments, IsOldestPending
<1>7. ASSUME NEW d \in Docs, Document(d) PROVE AlertInv'
  <2>1. CASE EscapeException(d)
    BY <2>1 DEF EscapeException, EndRun, AlertInv, Failing
  <2>2. CASE ~EscapeException(d)
    BY <1>7, <2>2, KeepAlerts
       DEF Document, DiscardForensic, RejectDocument, PersistFails, PersistReport, SkipDuplicate, Takes
  <2> QED
    BY <2>1, <2>2
<1>8. CASE FinishMessage
  BY <1>8, KeepAlerts DEF FinishMessage
<1>9. CASE FinishBatch
  <2>1. OutcomeOf(parsed, failed) \in Outcomes
    BY DEF OutcomeOf, Outcomes
  <2> QED
    BY <1>9, <2>1, FinishAlerts DEF FinishBatch
<1>10. CASE Commit
  <2>1. db'.lastOutcome = outcome /\ phase' = "idle"
    BY <1>10 DEF Commit, Publish, EndRun, TypeOK, Tables
  <2>2. /\ phase = "committing" /\ alerts' = IF outcome = "failure" THEN alerts ELSE 0
        /\ crashes' = crashes /\ crashes \in Nat
    BY <1>10, BoundAssumption DEF Commit, TypeOK
  <2> QED
    BY <2>1, <2>2 DEF AlertInv, Failing
<1>11. CASE Rollback
  <2>1. /\ crashes' = crashes + 1 /\ phase' = "idle" /\ UNCHANGED <<db, alerts>>
        /\ crashes \in Nat /\ alerts \in Nat
    BY <1>11, BoundAssumption DEF Rollback, EndRun, TypeOK
  <2> QED
    BY <2>1 DEF AlertInv, Failing
<1> QED
  BY <1>1, <1>2, <1>3, <1>4, <1>5, <1>6, <1>7, <1>8, <1>9, <1>10, <1>11 DEF Next, Poll, World

\* Once a failed run is the newest in the log, an alert has been raised for the outage
\* (run_ingestion calls alert_ingest_failure), whatever crashed or escaped on the way.
THEOREM OutagesAreAlerted == Spec => []NoSilentOutage
<1>1. AlertInv => NoSilentOutage
  BY DEF AlertInv, NoSilentOutage
<1> QED
  BY <1>1, InitTypeOK, NextTypeOK, InitAlertInv, NextAlertInv, PTL DEF Spec

\* "One alert per outage" (run_ingestion): only a crash between the alert and the commit
\* repeats it.
THEOREM AlertsAreNotRepeated == Spec => []OneAlertPerOutage
<1>1. AlertInv => OneAlertPerOutage
  BY DEF AlertInv, OneAlertPerOutage
<1> QED
  BY <1>1, InitTypeOK, NextTypeOK, InitAlertInv, NextAlertInv, PTL DEF Spec

-----------------------------------------------------------------------------
(* The promise.  A poll implements one step of IngestPromise, its commit.  What  *)
(* a commit needs to know is the sets the poll has built up: the messages read,  *)
(* those missed, and the documents refused.                                      *)

\* The documents handled so far: those of the messages read, and of the current one.
Done(read) ==
    {d \in Docs : \/ \E m \in read : d \in DocsOf[m]
                  \/ current \in Messages /\ d \in DocsOf[current] \ todo}
DoneGood(read) == {d \in Done(read) : KindOf[d] = "report"}
DoneBad(read) == {d \in Done(read) : KindOf[d] \in {"unextractable", "malformed"}}

\* The messages taken so far lie beyond the committed checkpoint, and with those ahead
\* they are a prefix of what lies there.
Prefix(read, missed) ==
    LET beyond == Newer(db.checkpoint)
        taken == read \cup missed \cup Ahead
    IN  /\ read \subseteq beyond
        /\ missed \subseteq beyond \ read
        /\ Ahead \subseteq beyond \ (read \cup missed)
        /\ \A m \in taken, n \in beyond \ taken : received[m] <= received[n]

\* What the transaction recorded of the messages.
Marked(read, missed) ==
    /\ tx.checkpoint \in {db.checkpoint} \cup {received[m] : m \in read}
    /\ \A m \in read : received[m] <= tx.checkpoint
    /\ tx.fate = [m \in Messages |-> IF m \in read THEN "read"
                                     ELSE IF m \in missed THEN "missed" ELSE db.fate[m]]

\* What it did with their documents.
Filed(read, refused) ==
    /\ current \in Messages => todo \subseteq DocsOf[current]
    /\ refused \subseteq DoneGood(read)
    /\ tx.reports = db.reports \cup {ReportOf[d] : d \in DoneGood(read) \ refused}
    /\ tx.rejected = db.rejected \cup refused
    /\ tx.total = db.total

\* A failure is counted exactly when something went wrong.
Tallied(read, missed, refused) ==
    failed = 0 <=> missed = {} /\ refused = {} /\ DoneBad(read) = {}

Taken(read, missed, refused) ==
    /\ Prefix(read, missed)
    /\ Marked(read, missed)
    /\ Filed(read, refused)
    /\ Tallied(read, missed, refused)

SomeTaken == \E read, missed \in SUBSET Messages, refused \in SUBSET Docs : Taken(read, missed, refused)

PollInv ==
    /\ phase \in {"idle", "listing"} => failed = 0 /\ parsed = 0 /\ tx = db /\ pending = {}
    /\ phase \in {"reading", "message"} => SomeTaken
    /\ phase = "committing" => \/ tx = db /\ parsed = 0 /\ outcome = "failure"
                               \/ pending = {} /\ outcome = OutcomeOf(parsed, failed) /\ SomeTaken

\* Nothing is taken before the first poll.
LEMMA InitPollInv == Init => PollInv
BY DEF Init, PollInv

\* A poll that ends, whichever way, leaves nothing behind.
LEMMA EndPoll ==
    ASSUME EndRun, tx' = db'
    PROVE  PollInv'
BY DEF EndRun, PollInv

\* A step that leaves the mailbox, the tables and the loop alone.
LEMMA KeepTaken ==
    ASSUME SomeTaken, UNCHANGED <<inbox, received, db, tx, pending, current, todo, failed>>
    PROVE  SomeTaken'
<1>1. PICK read \in SUBSET Messages, missed \in SUBSET Messages, refused \in SUBSET Docs :
        Taken(read, missed, refused)
  BY DEF SomeTaken
<1>2. Ahead' = Ahead /\ Newer(db.checkpoint)' = Newer(db.checkpoint) /\ Done(read)' = Done(read)
  BY DEF Ahead, Newer, Done
<1>3. Prefix(read, missed)' /\ Marked(read, missed)'
  BY <1>1, <1>2 DEF Taken, Prefix, Marked
<1>4. Filed(read, refused)' /\ Tallied(read, missed, refused)'
  BY <1>1, <1>2 DEF Taken, Filed, Tallied, DoneGood, DoneBad
<1> QED
  BY <1>3, <1>4 DEF SomeTaken, Taken

\* A message that arrives is not older than any that was taken.
LEMMA DeliverTaken ==
    ASSUME TypeOK, CheckpointInv, SomeTaken, NEW m \in Messages, Deliver(m)
    PROVE  SomeTaken'
<1>1. PICK read \in SUBSET Messages, missed \in SUBSET Messages, refused \in SUBSET Docs :
        Taken(read, missed, refused)
  BY DEF SomeTaken
<1>2. /\ UNCHANGED <<db, tx, pending, current, todo, failed>>
      /\ m \notin inbox /\ inbox' = inbox \cup {m}
      /\ received'[m] = clock /\ \A n \in inbox : received'[n] = received[n]
      /\ clock \in Nat /\ db.checkpoint \in Nat
  BY BoundAssumption DEF Deliver, TypeOK, Tables
<1>3. \A n \in inbox : received[n] \in Nat /\ received[n] <= clock
  BY <1>2 DEF CheckpointInv, InTime
<1>4. Ahead' = Ahead /\ Ahead \subseteq inbox
  BY <1>2, ContentAssumption DEF Ahead, TypeOK
<1>5. /\ Newer(db.checkpoint) \subseteq inbox
      /\ Newer(db.checkpoint)' \subseteq Newer(db.checkpoint) \cup {m}
      /\ Newer(db.checkpoint) \subseteq Newer(db.checkpoint)'
  BY <1>2 DEF Newer
<1>6. Prefix(read, missed)'
  BY <1>1, <1>2, <1>3, <1>4, <1>5 DEF Taken, Prefix
<1>7. read \subseteq inbox
  BY <1>1, <1>5 DEF Taken, Prefix
<1>8. Marked(read, missed)'
  BY <1>1, <1>2, <1>7 DEF Taken, Marked
<1>9. Filed(read, refused)' /\ Tallied(read, missed, refused)'
  BY <1>1, <1>2 DEF Taken, Filed, Tallied, Done, DoneGood, DoneBad
<1> QED
  BY <1>6, <1>8, <1>9 DEF SomeTaken, Taken

\* A listing is a prefix of which nothing is taken yet.
LEMMA ListTaken ==
    ASSUME TypeOK, CheckpointInv, PollInv, ListMessages
    PROVE  SomeTaken'
<1>1. /\ UNCHANGED <<inbox, received, db, tx, current, todo, failed>>
      /\ IsListing(pending', db.checkpoint) /\ tx = db /\ failed = 0
      /\ current = NoMessage /\ NoMessage \notin Messages /\ NoMessage \notin inbox
  BY ContentAssumption DEF ListMessages, PollInv, TypeOK
<1>2. Ahead' = pending'
  BY <1>1 DEF Ahead
<1>3. Prefix({}, {})'
  BY <1>1, <1>2 DEF Prefix, IsListing, Newer
<1>4. Marked({}, {})'
  BY <1>1 DEF Marked, TypeOK, Tables
<1>5. Done({})' = {}
  BY <1>1 DEF Done
<1>6. Filed({}, {})' /\ Tallied({}, {}, {})'
  BY <1>1, <1>5 DEF Filed, Tallied, DoneGood, DoneBad
<1> QED
  BY <1>3, <1>4, <1>6 DEF SomeTaken, Taken

\* The message is added to the missed ones.
LEMMA MissTaken ==
    ASSUME TypeOK, SomeTaken, NEW m \in Messages, FetchFails(m)
    PROVE  SomeTaken'
<1>1. PICK read \in SUBSET Messages, missed \in SUBSET Messages, refused \in SUBSET Docs :
        Taken(read, missed, refused)
  BY DEF SomeTaken
<1>2. /\ UNCHANGED <<inbox, received, db, current, todo>> /\ m \in pending /\ pending' = pending \ {m}
      /\ current = NoMessage /\ NoMessage \notin Messages /\ NoMessage \notin inbox
      /\ failed' = failed + 1 /\ failed \in Nat
  BY ContentAssumption DEF FetchFails, IsOldestPending, TypeOK
<1>3. /\ tx'.checkpoint = tx.checkpoint /\ tx'.reports = tx.reports /\ tx'.total = tx.total
      /\ tx'.rejected = tx.rejected /\ tx'.fate = [tx.fate EXCEPT ![m] = "missed"]
  BY DEF FetchFails, TypeOK, Tables
<1>4. Ahead = pending /\ Ahead' = pending \ {m}
  BY <1>2 DEF Ahead
<1>5. m \notin read
  BY <1>1, <1>2, <1>4 DEF Taken, Prefix
<1>6. Prefix(read, missed \cup {m})'
  BY <1>1, <1>2, <1>4 DEF Taken, Prefix, Newer
<1>7. Marked(read, missed \cup {m})'
  BY <1>1, <1>2, <1>3, <1>5 DEF Taken, Marked
<1>8. Filed(read, refused)'
  BY <1>1, <1>2, <1>3 DEF Taken, Filed, Done, DoneGood
<1>9. Tallied(read, missed \cup {m}, refused)'
  BY <1>2 DEF Tallied
<1> QED
  BY <1>6, <1>7, <1>8, <1>9 DEF SomeTaken, Taken

\* Turning to a message handles none of its documents yet.
LEMMA FetchTaken ==
    ASSUME TypeOK, SomeTaken, NEW m \in Messages, FetchAttachments(m)
    PROVE  SomeTaken'
<1>1. PICK read \in SUBSET Messages, missed \in SUBSET Messages, refused \in SUBSET Docs :
        Taken(read, missed, refused)
  BY DEF SomeTaken
<1>2. /\ UNCHANGED <<inbox, received, db, tx, failed>> /\ m \in pending /\ pending' = pending \ {m}
      /\ current = NoMessage /\ NoMessage \notin Messages /\ NoMessage \notin inbox
      /\ current' = m /\ todo' = DocsOf[m] /\ m \in inbox
  BY ContentAssumption DEF FetchAttachments, IsOldestPending, TypeOK
<1>3. Ahead' = Ahead
  BY <1>2 DEF Ahead
<1>4. Done(read)' = Done(read)
  BY <1>2 DEF Done
<1>5. Prefix(read, missed)' /\ Marked(read, missed)'
  BY <1>1, <1>2, <1>3 DEF Taken, Prefix, Marked, Newer
<1>6. Filed(read, refused)' /\ Tallied(read, missed, refused)'
  BY <1>1, <1>2, <1>4 DEF Taken, Filed, Tallied, DoneGood, DoneBad
<1> QED
  BY <1>5, <1>6 DEF SomeTaken, Taken

\* A document that is handled is a new one: no two messages share one.
LEMMA NextDocument ==
    ASSUME TypeOK, NEW d \in Docs, Takes(d), current' = current, NEW read \in SUBSET Messages,
           current \notin read, current \in Messages => todo \subseteq DocsOf[current]
    PROVE  /\ current \in Messages
           /\ d \in DocsOf[current] /\ d \notin Done(read)
           /\ Done(read)' = Done(read) \cup {d}
           /\ todo' \subseteq DocsOf[current]
<1>1. current \in Messages /\ todo' = todo \ {d} /\ d \in todo /\ d \in DocsOf[current]
  BY DEF Takes, TypeOK
<1>2. \A m \in read : m # current /\ d \notin DocsOf[m]
  BY <1>1, ContentAssumption
<1>3. d \notin Done(read)
  BY <1>1, <1>2 DEF Done
<1>4. \A e \in Docs : e \in DocsOf[current] \ todo' <=> e = d \/ e \in DocsOf[current] \ todo
  BY <1>1
<1>5. Done(read)' = Done(read) \cup {d}
  BY <1>1, <1>4 DEF Done
<1> QED
  BY <1>1, <1>3, <1>5

\* A document is stored, skipped, counted or refused.
LEMMA DocumentTaken ==
    ASSUME TypeOK, SomeTaken, NEW d \in Docs, Document(d), ~EscapeException(d)
    PROVE  SomeTaken'
<1>1. PICK read \in SUBSET Messages, missed \in SUBSET Messages, refused \in SUBSET Docs :
        Taken(read, missed, refused)
  BY DEF SomeTaken
<1>2. /\ Takes(d) /\ UNCHANGED <<inbox, received, db, pending, current>>
      /\ failed \in Nat
  BY DEF Document, DiscardForensic, RejectDocument, PersistFails, PersistReport, SkipDuplicate, TypeOK
<1>3. current \notin read
  BY <1>1, <1>2 DEF Taken, Prefix, Ahead, Takes, TypeOK
<1>4. current \in Messages => todo \subseteq DocsOf[current]
  BY <1>1 DEF Taken, Filed
<1>5. /\ d \notin Done(read) /\ Done(read)' = Done(read) \cup {d}
      /\ todo' \subseteq DocsOf[current]
  BY <1>2, <1>3, <1>4, NextDocument
<1>6. Prefix(read, missed)'
  BY <1>1, <1>2 DEF Taken, Prefix, Ahead, Newer
<1>7. CASE DiscardForensic(d) \/ RejectDocument(d)
  <2>1. UNCHANGED tx /\ KindOf[d] # "report"
    BY <1>7 DEF DiscardForensic, RejectDocument
  <2>2. DoneGood(read)' = DoneGood(read)
    BY <1>5, <2>1 DEF DoneGood
  <2>3. Marked(read, missed)' /\ Filed(read, refused)'
    BY <1>1, <1>2, <1>5, <2>1, <2>2 DEF Taken, Marked, Filed
  <2>4. Tallied(read, missed, refused)'
    <3>1. CASE DiscardForensic(d)
      BY <1>1, <1>5, <3>1 DEF DiscardForensic, Taken, Tallied, DoneBad
    <3>2. CASE RejectDocument(d)
      BY <1>2, <1>5, <3>2 DEF RejectDocument, Tallied, DoneBad
    <3> QED
      BY <1>7, <3>1, <3>2
  <2> QED
    BY <1>6, <2>3, <2>4 DEF SomeTaken, Taken
<1>8. CASE PersistFails(d)
  <2>1. /\ tx'.checkpoint = tx.checkpoint /\ tx'.reports = tx.reports /\ tx'.total = tx.total
        /\ tx'.rejected = tx.rejected \cup {d} /\ tx'.fate = tx.fate
        /\ failed' = failed + 1 /\ KindOf[d] = "report"
    BY <1>8 DEF PersistFails, TypeOK, Tables
  <2>2. /\ DoneGood(read)' = DoneGood(read) \cup {d} /\ d \notin DoneGood(read)
    BY <1>5, <2>1 DEF DoneGood
  <2>3. DoneGood(read)' \ (refused \cup {d}) = DoneGood(read) \ refused
    BY <2>2
  <2>4. Marked(read, missed)' /\ Filed(read, refused \cup {d})'
    BY <1>1, <1>2, <1>5, <2>1, <2>2, <2>3 DEF Taken, Marked, Filed
  <2>5. Tallied(read, missed, refused \cup {d})'
    BY <1>2, <2>1 DEF Tallied
  <2> QED
    BY <1>6, <2>4, <2>5 DEF SomeTaken, Taken
<1>9. CASE PersistReport(d) \/ SkipDuplicate(d)
  <2>1. /\ tx'.checkpoint = tx.checkpoint /\ tx'.total = tx.total
        /\ tx'.reports = tx.reports \cup {ReportOf[d]}
        /\ tx'.rejected = tx.rejected /\ tx'.fate = tx.fate
        /\ failed' = failed /\ KindOf[d] = "report"
    BY <1>9 DEF PersistReport, SkipDuplicate, TypeOK, Tables
  <2>2. /\ DoneGood(read)' = DoneGood(read) \cup {d} /\ d \notin DoneGood(read)
        /\ DoneBad(read)' = DoneBad(read)
    BY <1>5, <2>1 DEF DoneGood, DoneBad
  <2>3. refused \subseteq DoneGood(read)
    BY <1>1 DEF Taken, Filed
  <2>4. DoneGood(read)' \ refused = (DoneGood(read) \ refused) \cup {d}
    BY <2>2, <2>3
  <2>5. tx'.reports = db'.reports \cup {ReportOf[e] : e \in DoneGood(read)' \ refused}
    BY <1>1, <1>2, <2>1, <2>4 DEF Taken, Filed
  <2>6. Marked(read, missed)' /\ Filed(read, refused)'
    BY <1>1, <1>2, <1>5, <2>1, <2>2, <2>3, <2>5 DEF Taken, Marked, Filed
  <2>7. Tallied(read, missed, refused)'
    BY <1>1, <2>1, <2>2 DEF Taken, Tallied
  <2> QED
    BY <1>6, <2>6, <2>7 DEF SomeTaken, Taken
<1> QED
  BY <1>7, <1>8, <1>9 DEF Document

\* The current message joins those that were read, with all of its documents.
LEMMA FinishTaken ==
    ASSUME TypeOK, CheckpointInv, SomeTaken, FinishMessage
    PROVE  SomeTaken'
<1>1. PICK read \in SUBSET Messages, missed \in SUBSET Messages, refused \in SUBSET Docs :
        Taken(read, missed, refused)
  BY DEF SomeTaken
<1> PICK m \in Messages : m = current
  BY ContentAssumption DEF FinishMessage, TypeOK
<1> DEFINE all == read \cup {m}
<1>2. /\ UNCHANGED <<inbox, received, db, pending, failed>> /\ todo = {} /\ todo' = {}
      /\ current \in Messages /\ current \in inbox /\ current' = NoMessage
      /\ NoMessage \notin Messages /\ NoMessage \notin inbox
  BY ContentAssumption DEF FinishMessage, TypeOK
<1>3. /\ tx'.checkpoint = Advance(tx.checkpoint, received[current])
      /\ tx'.reports = tx.reports /\ tx'.total = tx.total /\ tx'.rejected = tx.rejected
      /\ tx'.fate = [tx.fate EXCEPT ![current] = "read"]
      /\ tx.checkpoint \in Nat /\ \A n \in Messages : received[n] \in Nat
  BY DEF FinishMessage, TypeOK, Tables
<1>4. Ahead = pending \cup {current} /\ Ahead' = pending
  BY <1>2 DEF Ahead
<1>5. current \notin read /\ current \notin missed /\ current \in Newer(db.checkpoint)
  BY <1>1, <1>4 DEF Taken, Prefix
<1>6. pending \subseteq Newer(db.checkpoint) \ (read \cup missed)
  BY <1>1, <1>4 DEF Taken, Prefix
<1>7. current \notin pending
  BY <1>2 DEF CheckpointInv, InOrder
<1>8. Prefix(all, missed)'
  BY <1>1, <1>2, <1>4, <1>5, <1>6, <1>7 DEF Taken, Prefix, Newer
<1>9. Marked(all, missed)'
  BY <1>1, <1>2, <1>3, <1>5 DEF Taken, Marked, Advance
<1>10. Done(all)' = Done(read)
  BY <1>2, ContentAssumption DEF Done
<1>11. Filed(all, refused)' /\ Tallied(all, missed, refused)'
  BY <1>1, <1>2, <1>3, <1>10 DEF Taken, Filed, Tallied, DoneGood, DoneBad
<1> QED
  BY <1>2, <1>8, <1>9, <1>11 DEF SomeTaken, Taken

\* Every step keeps PollInv.
LEMMA NextPollInv == TypeOK /\ CheckpointInv /\ PollInv /\ [Next]_vars => PollInv'
<1> SUFFICES ASSUME TypeOK, CheckpointInv, PollInv, [Next]_vars PROVE PollInv'
  OBVIOUS
<1>1. CASE Tick \/ ChangeConfiguration \/ UNCHANGED vars
  BY <1>1, KeepTaken DEF Tick, ChangeConfiguration, PollInv
<1>2. ASSUME NEW m \in Messages, Deliver(m) PROVE PollInv'
  <2>1. UNCHANGED <<db, tx, phase, pending, parsed, failed, outcome>>
    BY <1>2 DEF Deliver
  <2> QED
    BY <1>2, <2>1, DeliverTaken DEF PollInv
<1>3. CASE BeginRun
  BY <1>3 DEF BeginRun, PollInv
<1>4. CASE NotConfigured \/ ListFails
  BY <1>4 DEF NotConfigured, ListFails, Finish, PollInv
<1>5. CASE ListMessages
  <2>1. phase' = "reading"
    BY <1>5 DEF ListMessages
  <2> QED
    BY <1>5, <2>1, ListTaken DEF PollInv
<1>6. ASSUME NEW m \in Messages, FetchFails(m) \/ FetchAttachments(m) PROVE PollInv'
  <2>1. phase = "reading" /\ phase' \in {"reading", "message"}
    BY <1>6 DEF FetchFails, FetchAttachments, IsOldestPending
  <2> QED
    BY <1>6, <2>1, MissTaken, FetchTaken DEF PollInv
<1>7. ASSUME NEW d \in Docs, Document(d) PROVE PollInv'
  <2>1. CASE EscapeException(d)
    BY <2>1, EndPoll DEF EscapeException
  <2>2. CASE ~EscapeException(d)
    <3>1. phase = "message" /\ phase' = phase
      BY <1>7, <2>2
         DEF Document, DiscardForensic, RejectDocument, PersistFails, PersistReport, SkipDuplicate, Takes
    <3> QED
      BY <1>7, <2>2, <3>1, DocumentTaken DEF PollInv
  <2> QED
    BY <2>1, <2>2
<1>8. CASE FinishMessage
  <2>1. phase = "message" /\ phase' = "reading"
    BY <1>8 DEF FinishMessage
  <2> QED
    BY <1>8, <2>1, FinishTaken DEF PollInv
<1>9. CASE FinishBatch
  <2>1. SomeTaken'
    BY <1>9, KeepTaken DEF FinishBatch, PollInv
  <2> QED
    BY <1>9, <2>1 DEF FinishBatch, Finish, PollInv
<1>10. CASE Commit \/ Rollback
  BY <1>10, EndPoll DEF Commit, Rollback
<1> QED
  BY <1>1, <1>2, <1>3, <1>4, <1>5, <1>6, <1>7, <1>8, <1>9, <1>10 DEF Next, Poll, World

\* The two modules count alike.
LEMMA SameCardinality == ASSUME NEW S PROVE Promise!Cardinality(S) = Cardinality(S)
BY DEF Promise!Cardinality, Cardinality

\* A commit is a poll of the promise: a failure when nothing was listed, else the batch
\* of the messages taken.
LEMMA CommitPolls ==
    ASSUME TypeOK, CountInv, PollInv, Commit
    PROVE  Promise!Poll
<1>1. /\ UNCHANGED <<inbox, received>> /\ phase = "committing" /\ db' = Publish(tx)
      /\ current = NoMessage /\ NoMessage \notin Messages /\ NoMessage \notin inbox
  BY ContentAssumption DEF Commit, TypeOK
<1>2. db' = [checkpoint |-> tx.checkpoint, reports |-> tx.reports, total |-> tx.total + parsed,
             lastOutcome |-> outcome, fate |-> tx.fate, rejected |-> tx.rejected]
  BY <1>1 DEF Publish, TypeOK, Tables
<1>3. CASE tx = db /\ parsed = 0 /\ outcome = "failure"
  <2>1. Promise!Failure
    BY <1>2, <1>3 DEF Promise!Failure, TypeOK, Tables
  <2> QED
    BY <1>1, <2>1 DEF Promise!Poll
<1>4. CASE pending = {} /\ outcome = OutcomeOf(parsed, failed) /\ SomeTaken
  <2>1. PICK read \in SUBSET Messages, missed \in SUBSET Messages, refused \in SUBSET Docs :
          Taken(read, missed, refused)
    BY <1>4 DEF SomeTaken
  <2> DEFINE new == {ReportOf[d] : d \in Promise!GoodDocs(read) \ refused} \ db.reports
             wrong == missed # {} \/ refused # {} \/ Promise!BadDocs(read) # {}
  <2>2. Done(read) = UNION {DocsOf[m] : m \in read}
    <3>1. ASSUME NEW m \in read, NEW d \in DocsOf[m] PROVE d \in Docs
      BY ContentAssumption
    <3> QED
      BY <1>1, <3>1 DEF Done
  <2>3. DoneGood(read) = Promise!GoodDocs(read) /\ DoneBad(read) = Promise!BadDocs(read)
    BY <2>2 DEF DoneGood, DoneBad, Promise!GoodDocs, Promise!BadDocs
  <2>4. /\ tx.reports = db.reports \cup new /\ tx.rejected = db.rejected \cup refused
        /\ tx.total = db.total /\ refused \in SUBSET Promise!GoodDocs(read)
    BY <2>1, <2>3 DEF Taken, Filed
  <2>5. failed = 0 <=> ~wrong
    BY <2>1, <2>3 DEF Taken, Tallied
  <2>6. parsed = Cardinality(new) /\ (new = {} <=> parsed = 0)
    <3>1. IsFiniteSet(db.reports) /\ IsFiniteSet(new)
      <4>1. tx.reports \subseteq Reports /\ db.reports \subseteq Reports /\ new \subseteq Reports
        BY <2>4 DEF TypeOK, Tables
      <4> QED
        BY <4>1, ContentAssumption, FS_Subset
    <3>2. db.reports \cap new = {}
      OBVIOUS
    <3>3. Cardinality(tx.reports) = Cardinality(db.reports) + Cardinality(new)
      <4> HIDE DEF new
      <4>1. /\ Cardinality(db.reports \cup new) =
                 Cardinality(db.reports) + Cardinality(new) - Cardinality(db.reports \cap new)
            /\ Cardinality({}) = 0
        BY <3>1, FS_Union, FS_EmptySet
      <4>2. Cardinality(db.reports) \in Nat /\ Cardinality(new) \in Nat
        BY <3>1, FS_CardinalityType
      <4>3. Cardinality(db.reports \cap new) = 0 /\ tx.reports = db.reports \cup new
        BY <2>4, <3>2, <4>1
      <4>4. Cardinality(db.reports \cup new) = Cardinality(db.reports) + Cardinality(new)
        BY <4>1, <4>2, <4>3
      <4> QED
        BY <4>3, <4>4
    <3>4. Cardinality(new) \in Nat /\ (Cardinality(new) = 0 <=> new = {})
      BY <3>1, FS_EmptySet, FS_CardinalityType
    <3>5. /\ db.total = Cardinality(db.reports) /\ tx.total + parsed = Cardinality(tx.reports)
          /\ db.total \in Nat /\ parsed \in Nat
      BY DEF CountInv, TypeOK, Tables
    <3> HIDE DEF new
    <3> QED
      BY <2>4, <3>3, <3>4, <3>5
  <2>7. outcome = IF ~wrong THEN "success" ELSE IF new = {} THEN "failure" ELSE "partial"
    <3> HIDE DEF new, wrong
    <3> QED
      BY <1>4, <2>5, <2>6 DEF OutcomeOf, TypeOK
  <2>8. /\ read \subseteq Promise!Beyond /\ missed \subseteq Promise!Beyond \ read
        /\ \A m \in read \cup missed, n \in Promise!Beyond \ (read \cup missed) : received[m] <= received[n]
    <3>1. Ahead = {}
      BY <1>1, <1>4 DEF Ahead
    <3> QED
      BY <2>1, <3>1 DEF Taken, Prefix, Newer, Promise!Beyond
  <2>9. Promise!IsNewest(tx.checkpoint, read) /\ tx.checkpoint \in 0 .. MaxSecond
    BY <2>1 DEF Taken, Marked, Promise!IsNewest, TypeOK, Tables
  <2>10. Promise!Batch(read, missed, refused)
    <3> DEFINE row(c) ==
                 [checkpoint |-> c,
                  reports |-> db.reports \cup new,
                  total |-> db.total + Promise!Cardinality(new),
                  lastOutcome |-> IF ~wrong THEN "success"
                                  ELSE IF new = {} THEN "failure" ELSE "partial",
                  fate |-> [m \in Messages |-> IF m \in read THEN "read"
                                               ELSE IF m \in missed THEN "missed"
                                               ELSE db.fate[m]],
                  rejected |-> db.rejected \cup refused]
    <3>1. db' = row(tx.checkpoint)
      <4>1. tx.fate = [m \in Messages |-> IF m \in read THEN "read"
                                          ELSE IF m \in missed THEN "missed" ELSE db.fate[m]]
        BY <2>1 DEF Taken, Marked
      <4> HIDE DEF new, wrong
      <4> QED
        BY <1>2, <2>4, <2>6, <2>7, <4>1, SameCardinality
    <3>2. \E c \in 0 .. MaxSecond : Promise!IsNewest(c, read) /\ db' = row(c)
      <4> HIDE DEF row
      <4> QED
        BY <2>9, <3>1
    <3> QED
      BY <2>8, <3>2, Zenon DEF Promise!Batch
  <2> QED
    BY <1>1, <2>4, <2>8, <2>10 DEF Promise!Poll
<1> QED
  BY <1>1, <1>3, <1>4 DEF PollInv

\* Every other step is an arrival or leaves what the promise speaks of alone.
LEMMA StepKeepsPromise ==
    ASSUME TypeOK, CheckpointInv, CountInv, PollInv, [Next]_vars
    PROVE  [Promise!Next]_(Promise!vars)
<1>1. CASE Commit
  BY <1>1, CommitPolls DEF Promise!Next
<1>2. ASSUME NEW m \in Messages, Deliver(m) PROVE Promise!Next
  <2>1. clock \in 1 .. MaxSecond /\ \A n \in inbox : received[n] <= clock
    BY BoundAssumption DEF TypeOK, CheckpointInv, InTime
  <2>2. Promise!Arrive(m)
    BY <1>2, <2>1 DEF Deliver, Promise!Arrive
  <2> QED
    BY <2>2 DEF Promise!Next
<1>3. CASE UNCHANGED <<inbox, received, db>>
  BY <1>3 DEF Promise!vars
<1>4. CASE ~Commit /\ \A m \in Messages : ~Deliver(m)
  <2>1. UNCHANGED <<inbox, received, db>>
    BY <1>4 DEF Next, Poll, World, Tick, ChangeConfiguration, Rollback, BeginRun, NotConfigured,
       ListFails, ListMessages, FetchFails, FetchAttachments, FinishMessage, FinishBatch, Document,
       DiscardForensic, RejectDocument, PersistFails, PersistReport, SkipDuplicate,
       EscapeException, Takes
  <2> QED
    BY <1>3, <2>1
<1> QED
  BY <1>1, <1>2, <1>4

\* Ingest implements IngestPromise: whoever reads the database sees whole polls, each of
\* which took a prefix of what was beyond the checkpoint (run_ingestion in session_scope).
THEOREM PromiseKept == Spec => KeepsPromise
<1>1. Init => Promise!Init
  BY DEF Init, EmptyTables, NoRun, Promise!Init
<1>2. TypeOK /\ CheckpointInv /\ CountInv /\ PollInv /\ [Next]_vars => [Promise!Next]_(Promise!vars)
  BY StepKeepsPromise
<1> QED
  BY <1>1, <1>2, InitTypeOK, NextTypeOK, InitCheckpointInv, NextCheckpointInv, InitCountInv,
     NextCountInv, InitPollInv, NextPollInv, PTL DEF Spec, KeepsPromise, Promise!Spec
=============================================================================
