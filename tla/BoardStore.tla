----------------------------- MODULE BoardStore -----------------------------
(***************************************************************************)
(* What the whiteboard's database promises about the shapes of one board,  *)
(* with no connections, calls or awaits: a shape is inserted at most once, *)
(* is amended while it exists, and once erased never comes back; shapes    *)
(* that need a geometry (paths and meshes) always have one; a dropped      *)
(* board takes its shapes with it and accepts no new ones.                 *)
(*                                                                         *)
(* ShapeHub, the hub's handlers with their interleavings, implements it.   *)
(***************************************************************************)

CONSTANTS
  Shapes,      \* shape ids
  Solid,       \* the ids of Path and Mesh3D shapes, which need a geometry
  Positions,   \* values of the columns a drag changes
  Fills,       \* values of the columns the property panel changes
  Geometries,  \* values of geometryJson
  NoGeometry,  \* geometryJson is null
  Absent,      \* there is no row
  Seed         \* the shapes the board starts with: id -> row

VARIABLES
  board,       \* does the board row exist?
  rows,        \* the Shapes table: a row or Absent for each id
  erased       \* the ids whose row has been deleted

vars == <<board, rows, erased>>

Row == [pos : Positions, fill : Fills, geo : Geometries \cup {NoGeometry}]

(* A row of a path or a mesh carries its geometry.                         *)
Sound(s, row) == s \in Solid => row.geo # NoGeometry

Live == {s \in Shapes : rows[s] # Absent}

Init ==
  /\ board = TRUE
  /\ rows = [s \in Shapes |-> IF s \in DOMAIN Seed THEN Seed[s] ELSE Absent]
  /\ erased = {}

Insert(s) ==
  /\ board
  /\ s \notin Live \cup erased
  /\ \E row \in Row :
       /\ Sound(s, row)
       /\ rows' = [rows EXCEPT ![s] = row]
  /\ UNCHANGED <<board, erased>>

Amend(s) ==
  /\ s \in Live
  /\ \E row \in Row :
       /\ Sound(s, row)
       /\ rows' = [rows EXCEPT ![s] = row]
  /\ UNCHANGED <<board, erased>>

Erase(s) ==
  /\ s \in Live
  /\ rows' = [rows EXCEPT ![s] = Absent]
  /\ erased' = erased \cup {s}
  /\ UNCHANGED board

DropBoard ==
  /\ board
  /\ board' = FALSE
  /\ rows' = [s \in Shapes |-> Absent]
  /\ erased' = erased \cup Live

Next ==
  \/ \E s \in Shapes : Insert(s) \/ Amend(s) \/ Erase(s)
  \/ DropBoard

Spec == Init /\ [][Next]_vars
=============================================================================
