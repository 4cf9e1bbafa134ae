SPECIFICATION Spec
CONSTANTS
  c1 = c1  c2 = c2  s1 = s1  g1 = g1  g2 = g2
  Conns = {c1, c2}
  Shapes = {s1}
  Solid = {s1}
  Positions = {1, 2}
  Fills = {1, 2}
  Geometries = {g1, g2}
  NoGeometry = NoGeometry
  Absent = Absent
  NoCall = NoCall
  Drafts <- MCDrafts
  Changes <- MCMoves
  Seed <- OneShape
  MaxCalls = 4
CHECK_DEADLOCK FALSE
INVARIANTS LastEventIsStored
