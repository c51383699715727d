---------------------------- MODULE MCCanvasStore ----------------------------
(* Small instances of CanvasStore: two requests of two sessions, in one process *)
(* or in two.                                                                   *)
EXTENDS CanvasStore, TLC

CONSTANTS o1, o2, o3, s1, s2, p1, p2, k1, k2, k3, k4, k5

MCOp == {o1, o2}
MCThree == {o1, o2, o3}
MCSessionOf == o1 :> s1 @@ o2 :> s2
SharedSession == o1 :> s1 @@ o2 :> s2 @@ o3 :> s2
OneProcess == [o \in MCOp |-> p1]
ThreeInOne == [o \in MCThree |-> p1]
TwoProcesses == o1 :> p1 @@ o2 :> p2

KeySymmetry == Permutations({k1, k2, k3, k4, k5})
=============================================================================
