----------------------------- MODULE UploadOnce -----------------------------
(***************************************************************************)
(* What uploading promises the user of a canvas, with no server, ledger or  *)
(* network in sight: a draft becomes at most one Salesforce record, the     *)
(* canvas ties a draft only to a record that exists, and never unties it.   *)
(***************************************************************************)
EXTENDS Naturals

CONSTANT Draft

VARIABLES
    made,   \* made[d]: how many Salesforce records were created for draft d
    tied    \* the drafts the canvas shows as an existing record

vars == <<made, tied>>

Init ==
    /\ made = [d \in Draft |-> 0]
    /\ tied = {}

\* Salesforce commits some drafts that have no record yet.
Write ==
    \E D \in SUBSET {d \in Draft : made[d] = 0} :
        /\ made' = [d \in Draft |-> IF d \in D THEN 1 ELSE made[d]]
        /\ UNCHANGED tied

\* The canvas learns of records that exist.
Tie ==
    \E D \in SUBSET {d \in Draft : made[d] = 1} :
        /\ tied' = tied \cup D
        /\ UNCHANGED made

Next == Write \/ Tie

Spec == Init /\ [][Next]_vars
=============================================================================
