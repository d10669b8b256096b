\* One wallet and two invocations: every interleaving of their calls with the
\* alarm, the chain and the operator, over two nonces.
SPECIFICATION Spec
CONSTANTS
    WalletCount = 1
    Requests = {r1, r2}
    MaxNonce = 1
    ChainingLimit = 2
    SoftReject = 0
    ReserveSlots = 0
    MaxRun = 2
    MaxGapFills = 1
    Lookahead = 1
    HiroLag = 1
    ForeignNonces = {1}
SYMMETRY RequestSymmetry
INVARIANTS TypeOK NoSharedNonce AssignedBelowHead TxidMatchesState
