\* One sender with three nonces, two of them dispatched at a time, and every answer
\* of Hiro: order, repair and replay in the hand.
SPECIFICATION Spec
CONSTANTS
    SenderCount = 1
    Requests = {r1}
    MaxNonce = 2
    MaxRun = 2
    MaxSweep = 1
    HiroAnswers = {0, 2, 3}
    MaxAge = 2
    Replayed = {1}
INVARIANTS TypeOK
PROPERTIES LeavesInOrder KeepsActive
