SPECIFICATION Spec
CONSTANTS
    Senders = {a}
    SenderNonces = {1, 2}
    WalletCount = 1
    MaxNonce = 1
    RecycleLimit = 1
    ReplayLimit = 1
    BroadcastLimit = 1
    MaxWaiting = 2
    MaxUpsets = 1
    Disturbed = {0}
    None = None
    Self = Self
INVARIANTS TypeOK DispatchedWasSent ConfirmedIsExecuted
PROPERTIES FlushedBeforeReplayed
CHECK_DEADLOCK FALSE
