--------------------------- MODULE LeaseRegister ---------------------------
(***************************************************************************)
(* What field leases promise to those who edit a canvas together, with no   *)
(* identifiers, clocks, requests or cards in sight.  Whoever prepares an    *)
(* edit of some fields holds all of them, and has seen their versions.  The *)
(* edit is applied only if its author has held every field of it without a  *)
(* break since then: a field that was lost stays lost to that edit, even    *)
(* when its author wins it back.  The register compares no versions.        *)
(***************************************************************************)
EXTENDS Naturals

CONSTANTS
    Client,     \* those who edit
    Key,        \* what a client may hold
    Version,    \* versions of a key
    None        \* nobody

VARIABLES
    version,    \* version[k]: the version of k
    holder,     \* holder[k]: who holds k, or None
    editing,    \* editing[c]: the keys of the edit that c has prepared, or {}
    saw,        \* saw[c][k]: the version of k that c has edited
    lost        \* lost[c]: keys of the edit that c has not held all the while

vars == <<version, holder, editing, saw, lost>>

Init ==
    /\ version = [k \in Key |-> 0]
    /\ holder = [k \in Key |-> None]
    /\ editing = [c \in Client |-> {}]
    /\ saw = [c \in Client |-> [k \in Key |-> 0]]
    /\ lost = [c \in Client |-> {}]

\* The edits of the clients C are dropped.  Every other edit loses the keys that
\* its author no longer holds.
Drop(C) ==
    /\ editing' = [c \in Client |-> IF c \in C THEN {} ELSE editing[c]]
    /\ saw' = [c \in Client |-> IF c \in C THEN [k \in Key |-> 0] ELSE saw[c]]
    /\ lost' = [c \in Client |->
                  IF c \in C THEN {}
                  ELSE lost[c] \cup {k \in editing[c] : holder'[k] # c}]

Free(K) == holder' = [k \in Key |-> IF k \in K THEN None ELSE holder[k]]

\* A client gets a key, from another client if need be.
Acquire(c, k) ==
    /\ holder' = [holder EXCEPT ![k] = c]
    /\ Drop({})
    /\ UNCHANGED version

Prepare(c, K) ==
    /\ editing[c] = {}
    /\ \A k \in K : holder[k] = c
    /\ editing' = [editing EXCEPT ![c] = K]
    /\ saw' = [saw EXCEPT ![c] = [k \in Key |-> IF k \in K THEN version[k] ELSE 0]]
    /\ UNCHANGED <<version, holder, lost>>

\* An edit is applied as one new version of its keys, and ends its hold on them.
Commit(c, n) ==
    /\ editing[c] # {}
    /\ lost[c] = {}
    /\ \A k \in editing[c] : n > version[k]
    /\ version' = [k \in Key |-> IF k \in editing[c] THEN n ELSE version[k]]
    /\ Free(editing[c])
    /\ Drop({c})

\* Clients give up their edits, and keys are released or expire.
GiveUp(C, K) ==
    /\ Free(K)
    /\ Drop(C)
    /\ UNCHANGED version

\* The register is emptied; edits that are on their way can no longer be applied.
Forget(C) ==
    /\ version' = [k \in Key |-> 0]
    /\ Free(Key)
    /\ Drop(C)

Next ==
    \/ \E C \in SUBSET Client, K \in SUBSET Key : GiveUp(C, K)
    \/ \E c \in Client, k \in Key : Acquire(c, k)
    \/ \E c \in Client, K \in SUBSET Key : Prepare(c, K)
    \/ \E c \in Client, n \in Version : Commit(c, n)
    \/ \E C \in SUBSET Client : Forget(C)

Spec == Init /\ [][Next]_vars

\* An edit that may still be applied was made on the current version of each of
\* its keys, although no version is ever compared: nobody's edit is overwritten
\* unseen.
EditsCurrent ==
    \A c \in Client : \A k \in editing[c] \ lost[c] :
        holder[k] = c /\ saw[c][k] = version[k]
=============================================================================
