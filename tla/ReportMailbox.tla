--------------------------- MODULE ReportMailbox ---------------------------
(***************************************************************************)
(* What the application is promised of its native reports (README.md,      *)
(* "Requesting Queued Reports" and "Expiring Reports"): a report put in    *)
(* the box stays there until the listener has accepted it, or until it has *)
(* expired and a last attempt to post it has been made.                    *)
(***************************************************************************)
CONSTANT Reports

VARIABLES
    box,       \* the reports in storage
    tried,     \* the reports that a flush tried to post
    accepted,  \* the reports the listener said it consumed
    expired    \* the reports in storage that have expired

mailbox == <<box, tried, accepted, expired>>

Init == box = {} /\ tried = {} /\ accepted = {} /\ expired = {}

Put(r) == /\ r \notin box
          /\ box' = box \cup {r}
          /\ UNCHANGED <<tried, accepted, expired>>

\* A flush posts r, which the listener may accept.
Try(r) == /\ r \in box
          /\ tried' = tried \cup {r}
          /\ accepted' \in {accepted, accepted \cup {r}}
          /\ UNCHANGED <<box, expired>>

Expire(r) == /\ r \in box
             /\ expired' = expired \cup {r}
             /\ UNCHANGED <<box, tried, accepted>>

Removable == accepted \cup (tried \cap expired)

\* Reports leave the box: one by one after a post, together at exit.
Remove(S) == /\ S # {} /\ S \subseteq box \cap Removable
             /\ box' = box \ S
             /\ expired' = expired \ S
             /\ UNCHANGED <<tried, accepted>>

Next == \/ \E r \in Reports : Put(r) \/ Try(r) \/ Expire(r)
        \/ \E S \in SUBSET Reports : Remove(S)

Spec == Init /\ [][Next]_mailbox
=============================================================================
