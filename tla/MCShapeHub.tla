----------------------------- MODULE MCShapeHub -----------------------------
(* Instances of ShapeHub for TLC.                                          *)
EXTENDS ShapeHub, TLC

CONSTANTS c1, c2, s1, g1, g2

(* A draft with a geometry and one without; updates that move or refill    *)
(* the shape with a null geometry, and one that replaces the geometry.     *)
MCDrafts ==
  {[pos |-> 1, fill |-> 1, geo |-> g1], [pos |-> 1, fill |-> 1, geo |-> NoGeometry]}
MCChanges ==
  {[pos |-> 2, fill |-> 1, geo |-> NoGeometry],
   [pos |-> 1, fill |-> 2, geo |-> NoGeometry],
   [pos |-> 1, fill |-> 1, geo |-> g2]}
(* Updates that only move the shape.                                       *)
MCMoves == {[pos |-> p, fill |-> 1, geo |-> NoGeometry] : p \in Positions}

OneShape == [s \in {s1} |-> [pos |-> 1, fill |-> 1, geo |-> g1]]
NoShape == [s \in {} |-> CHOOSE row \in Row : TRUE]

ConnSymmetry == Permutations(Conns)
=============================================================================
