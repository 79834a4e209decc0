CONSTANTS
    Params <- MCParams
    ServerCaps <- MCServerCaps
    SeqModulus = 4
    MaxColumns = 2
    MaxRows = 2
    MaxParams = 1
    MaxRounds = 1
    MaxCommands = 2
SPECIFICATION Spec
INVARIANTS
    TypeOK
    RowsInOrder
    Synchronized
    SequenceAgrees
    PasswordOverSsl
    ConnectedMeansAgreed
PROPERTY OperationEnds
CHECK_DEADLOCK FALSE
