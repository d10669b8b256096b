\* One sender with two nonces: the second submission dispatches the run that the
\* first one began.
SPECIFICATION Spec
CONSTANTS
    SenderCount = 1
    Requests = {r1}
    MaxNonce = 1
    MaxRun = 2
    MaxSweep = 1
    HiroAnswers = {0}
    MaxAge = 0
    Replayed = {}
INVARIANTS SignsItsOwnNonce
