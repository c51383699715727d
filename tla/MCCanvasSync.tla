---------------------------- MODULE MCCanvasSync ----------------------------
(* Small instances of CanvasSync. *)
EXTENDS CanvasSync
CONSTANTS c1, c2, k1, k2, v1, v2
OnlyFirst == [k \in Card |-> IF k = k1 THEN v1 ELSE Absent]
=============================================================================
