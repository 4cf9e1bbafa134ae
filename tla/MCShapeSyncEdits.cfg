SPECIFICATION SyncSpec
CONSTANTS
  c1 = c1  c2 = c2  c3 = c3  s1 = s1  s2 = s2  t1 = t1  t2 = t2  g1 = g1
  Conns = {c1, c2, c3}
  Tabs = {t1, t2}
  Shapes = {s1, s2}
  Solid = {s1}
  Positions = {1}
  Fills = {1, 2}
  Geometries = {g1}
  NoGeometry = NoGeometry
  Absent = Absent
  NoCall = NoCall
  NoConn = NoConn
  NoDrag = NoDrag
  Drafts <- MCDrafts
  Changes <- MCChanges
  Seed <- OneShape
  MaxCalls = 4
  MaxWait = 2
  Draggers = {}
INVARIANTS SyncTypeOK ConvergesUnlessExcused EchoPrecedesAnswer AnswersMatchCommits
PROPERTIES FailedChangesAreUndone
CHECK_DEADLOCK FALSE
SYMMETRY SyncSymmetry
