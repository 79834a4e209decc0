CONSTANTS
    MaxFrame = 2
    SeqMod = 3
    InitialBuffer = 0
    MaxMessages = 2
    Messages <- MCMessages
SPECIFICATION Spec
INVARIANTS
    TypeOK
    AreasOrdered
    NoMismatch
    KeptMessagesIntact
PROPERTY ImplementsFifo
CHECK_DEADLOCK FALSE
