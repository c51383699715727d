------------------------------ MODULE MCUpload ------------------------------
(* Small instances of UploadAttempt. *)
EXTENDS UploadAttempt, TLC

CONSTANTS d1, d2, d3, r1, r2, r3, r4, a1, a2, a3

\* One canvas, each draft a graph of its own, or all of them one graph.
OneCanvas == [d \in Draft |-> "X"]
OwnTemp == [d \in Draft |-> d]
OwnGraph == [d \in Draft |-> d]
OneGraph == [d \in Draft |-> 1]

Sym == Permutations(Request) \cup Permutations(Attempt)
\* Sound as well when every draft is a graph of its own on one canvas.
SymDraft == Sym \cup Permutations(Draft)

\* Requests and attempt ids are drawn in one order: of the behaviours that differ in
\* their names only, one is enough for safety and for liveness.
InTurn ==
    /\ h[r3].pc # "unsent" => h[r2].pc # "unsent"
    /\ h[r2].pc # "unsent" => h[r1].pc # "unsent"
    /\ h[r1].attempt \in {a1, None}
=============================================================================
