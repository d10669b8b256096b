SPECIFICATION Spec
CONSTANTS
    r1 = r1
    r2 = r2
    None = None
    Keys = {k1}
    Names = {n1, n2}
    Unlimited = {n2}
    Provisions = {p1}
    Requests <- TwoRequests
    Fees = {1, 4}
    Estimates = {2}
    Cap = 4
    MinuteLimit = 1
    DailyLimit = 2
    KeyLife = 0
    MaxDay = 0
INVARIANT FeesCountedOnce
SYMMETRY AnyRequest
CHECK_DEADLOCK FALSE
