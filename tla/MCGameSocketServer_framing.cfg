SPECIFICATION FairSpec
CONSTANTS
    c1 = c1
    NotANumber = NotANumber
    Sessions <- OneSession
    Lengths <- Short
    MaxRequests = 3
    BufferSize = 4
CHECK_DEADLOCK FALSE
INVARIANTS
    TypeOK
    AnswersMatch
PROPERTY RequestIsAnswered
