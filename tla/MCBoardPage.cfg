SPECIFICATION Spec
CONSTANTS
  Boards = {b1, b2}
  NoBoard = noBoard
  MaxLoads = 3
  MaxClients = 2
  MaxFaults = 2
SYMMETRY Symmetry
CONSTRAINT Unblamed
INVARIANT SettledPageIsTrue
CHECK_DEADLOCK FALSE
