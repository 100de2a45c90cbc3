SPECIFICATION Spec
CONSTANTS
    Requests = {r1}
    MaxAttempts = 2
    MaxExpiries = 1
    Asks <- OnePlaces
INVARIANTS
    RejectedMeansRefused
CHECK_DEADLOCK FALSE
