SPECIFICATION Spec
CONSTANTS
    r1 = r1
    r2 = r2
    Requests = {r1}
    Accesses = {a1}
    Idents <- NoIdents
    None = None
    MaxTries = 3
CHECK_DEADLOCK FALSE
INVARIANT UnsentWasExhausted
