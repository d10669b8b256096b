SPECIFICATION Spec
CONSTANTS
    r1 = r1
    r2 = r2
    Requests = {r1, r2}
    Accesses = {a1}
    Idents <- TwoIdents
    None = None
    MaxTries = 2
CHECK_DEADLOCK FALSE
INVARIANTS
    TypeOK
    AnswersTruthful
    RecordsTruthful
    EveryNonceReported
    ConsumedWasServed
PROPERTIES
    NearerToTheAnswer
