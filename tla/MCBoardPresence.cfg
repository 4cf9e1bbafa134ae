SPECIFICATION FairSpec
CONSTANTS
  b1 = b1  b2 = b2  t1 = t1  t2 = t2  u1 = u1  u2 = u2  c1 = c1  c2 = c2  c3 = c3
  Boards = {b1, b2}
  Tabs = {t1, t2}
  Users = {u1, u2}
  Conns = {c1, c2, c3}
  TabOf <- Reconnects
  UserOf <- TwoUsers
  NoCall = NoCall
  NoConn = NoConn
  Home = b1
  Settled = {c1, c2}
  MaxCalls = 2
  MaxLosses = 2
INVARIANTS TypeOK PresentHear ListsMatchStoreUnlessExcused
PROPERTIES LossIsCleanedUp
CHECK_DEADLOCK FALSE
