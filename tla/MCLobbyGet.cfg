CONSTANTS
  r1 = r1
  r2 = r2
  r3 = r3
  t1 = t1
  t2 = t2
  u1 = u1
  u2 = u2
  v1 = v1
  Requests <- ThreeRequests
  Threads <- TwoThreads
  Users <- OneUser
  Values <- OneValue
  Kinds <- WellFormed
  MaxAccounts = 3
  MaxFaults = 0
  UniqueUserId = TRUE
  None = None
  NoKey = NoKey
  ForeignKey = ForeignKey
SPECIFICATION Spec
CHECK_DEADLOCK FALSE
PROPERTY GetReportsStored
