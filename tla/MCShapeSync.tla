----------------------------- MODULE MCShapeSync ----------------------------
(* Instances of ShapeSync for TLC.                                         *)
EXTENDS ShapeSync, TLC

CONSTANTS c1, c2, c3, s1, s2, t1, t2, g1

(* The canvas draws a shape at one place, with one fill and a geometry,    *)
(* and sends updates with a null geometry.                                 *)
MCDraft == [pos |-> 1, fill |-> 1, geo |-> g1]
MCDrafts == {MCDraft}
MCChanges == [pos : Positions, fill : Fills, geo : {NoGeometry}]

(* A board with one shape, and an empty one.                               *)
OneShape == [s \in {s1} |-> MCDraft]
NoShape == [s \in {} |-> MCDraft]

(* Tabs may be exchanged when all of them are allowed the same edits.      *)
SyncSymmetry == Permutations(Conns) \cup Permutations(Tabs)
ConnSymmetry == Permutations(Conns)
=============================================================================
