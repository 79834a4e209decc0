CONSTANTS
  r1 = r1
  r2 = r2
  r3 = r3
  t1 = t1
  t2 = t2
  u1 = u1
  u2 = u2
  v1 = v1
  Requests <- ThreeRequests
  Threads <- TwoThreads
  Users <- TwoUsers
  Values <- OneValue
  Kinds <- WithoutField
  MaxAccounts = 3
  MaxFaults = 2
  UniqueUserId = TRUE
  None = None
  NoKey = NoKey
  ForeignKey = ForeignKey
SPECIFICATION Spec
SYMMETRY RequestSymmetry
CHECK_DEADLOCK FALSE
INVARIANTS
  TypeOK
  SessionNamesAccount
  RowsHaveLogin
  PermanentHasCause
  OneWinner
  DupIsAnothers
  AuthNamesAccount
  OneAccountPerUser
  ResultsDrained
  BadParameterNamesOwn
