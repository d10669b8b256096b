SPECIFICATION Spec
CONSTANTS
    Payments = {p1}
    None = None
    MaxTx = 1
    MaxAttempts = 1
CHECK_DEADLOCK FALSE
INVARIANT ConfirmedMeansSuccess
