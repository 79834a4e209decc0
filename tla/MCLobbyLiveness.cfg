CONSTANTS
  r1 = r1
  r2 = r2
  r3 = r3
  t1 = t1
  t2 = t2
  u1 = u1
  u2 = u2
  v1 = v1
  Requests <- ThreeRequests
  Threads <- OneThread
  Users <- TwoUsers
  Values <- OneValue
  Kinds <- OneFault
  MaxAccounts = 3
  MaxFaults = 1
  UniqueUserId = FALSE
  None = None
  NoKey = NoKey
  ForeignKey = ForeignKey
SPECIFICATION Spec
CHECK_DEADLOCK FALSE
INVARIANTS
  AuthNamesAccount
  ResultsDrained
PROPERTY Answered
