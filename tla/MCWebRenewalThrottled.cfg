CONSTANTS
  ann = ann
  tab1 = tab1
  tab2 = tab2
  Users = {ann}
  Visitor = ann
  Requests <- MCRequests
  AbsoluteTtl = 2
  IdleTimeout = 1
  Grace = 1
  MaxPerUser = 2
  Retention = 3
  MaxSessions = 3
  MaxTime = 1
SPECIFICATION ThrottledSpec
SYMMETRY Symmetry
VIEW View
INVARIANTS
  RejectedIsOver
CHECK_DEADLOCK FALSE
