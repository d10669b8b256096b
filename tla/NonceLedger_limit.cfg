\* A chaining limit of one and no lookahead: every refusal happens.
SPECIFICATION Spec
CONSTANTS
    WalletCount = 1
    Requests = {r1}
    MaxNonce = 1
    ChainingLimit = 1
    SoftReject = 0
    ReserveSlots = 0
    MaxRun = 2
    MaxGapFills = 1
    Lookahead = 0
    HiroLag = 1
    ForeignNonces = {1}
PROPERTIES AssignWithinLimit
