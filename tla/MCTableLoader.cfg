SPECIFICATION Spec
CONSTANTS
    LongHalf = 500
    MaxPoint = 9
    MinPoint <- MCMinPoint
    TinyPoint <- MCTinyPoint
    kMaxExp = 3
    IntHalf = 5
    MaxChars = 4
    MaxChunks = 5
    MaxMore = 3
    MaxMarks = 4
    MaxRows = 3
    Names <- MCNames
    Files <- MCFiles
INVARIANTS
    TypeOK
    ParsesTheGrammar
    ParsedIsWritten
    PlainRowsLoad
    NoRowLoadsWrong
PROPERTY ReadsOn
