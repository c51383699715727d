--------------------------- MODULE CanvasRegister ---------------------------
(***************************************************************************)
(* What the canvas store promises to those who update a saved canvas: a     *)
(* register that compares and swaps.  An update asks, with the version its  *)
(* client has opened (or with none, to overwrite whatever is there); it     *)
(* takes effect at one moment, if the register then has that version, or    *)
(* not at all.                                                              *)
(***************************************************************************)
CONSTANTS
    Client,    \* those who update
    Version,   \* versions of the canvas
    Lossy,     \* BOOLEAN: whether the register may lose its value
    None       \* no value

VARIABLES
    current,   \* the version that is stored, or None
    asked      \* the update each client waits for, or None

Init ==
    /\ current \in Version
    /\ asked = [c \in Client |-> None]

\* A client knows the current version, or does not care.
Ask(c) ==
    /\ asked[c] = None
    /\ \E e \in Version \cup {None} : asked' = [asked EXCEPT ![c] = [expects |-> e]]
    /\ UNCHANGED current

Swap(c, v) ==
    /\ asked[c] # None
    /\ current # None
    /\ asked[c].expects \in {None, current}
    /\ current' = v
    /\ asked' = [asked EXCEPT ![c] = None]

\* Updates are refused, fail, or die with their process.
GiveUp(C) ==
    /\ asked' = [c \in Client |-> IF c \in C THEN None ELSE asked[c]]
    /\ UNCHANGED current

Lose ==
    /\ Lossy
    /\ current' = None
    /\ UNCHANGED asked

Next ==
    \/ \E c \in Client : Ask(c) \/ \E v \in Version : Swap(c, v)
    \/ \E C \in SUBSET Client : GiveUp(C)
    \/ Lose

Spec == Init /\ [][Next]_<<current, asked>>
=============================================================================
