------------------------------ MODULE MailboxView ------------------------------
(***************************************************************************)
(* What list_messages of rua/graph.py promises ingestion: one look at the  *)
(* mailbox.  A listing holds the messages that were there, at one instant, *)
(* after the checkpoint, oldest first and without a hole, up to a cap; or  *)
(* there is no listing at all.  Messages are numbered as they arrive.      *)
(***************************************************************************)
EXTENDS Naturals

CONSTANTS MaxArrived, Cap, None

VARIABLES arrived, listing

vars == <<arrived, listing>>

UpTo(since) == IF arrived <= since + Cap THEN arrived ELSE since + Cap

Init == arrived = 0 /\ listing = None

Arrive == arrived < MaxArrived /\ arrived' = arrived + 1 /\ UNCHANGED listing

Look(since) ==
    /\ listing = None
    /\ listing' = [since |-> since, upto |-> UpTo(since)]
    /\ UNCHANGED arrived

Forget == listing' = None /\ UNCHANGED arrived

Next == Arrive \/ Forget \/ \E since \in 0 .. arrived : Look(since)

Spec == Init /\ [][Next]_vars
================================================================================
