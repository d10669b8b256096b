SPECIFICATION Spec
CONSTANTS
    Payments = {p1}
    None = None
    MaxTx = 2
    MaxAttempts = 2
CHECK_DEADLOCK FALSE
INVARIANTS
    TypeOK
    AnswersTruthful
PROPERTIES
    MessageSettles
    MinedIsNoticed
