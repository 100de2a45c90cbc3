SPECIFICATION Spec
CONSTANTS
    Requests = {r1, r2}
    MaxAttempts = 2
    MaxExpiries = 1
    Asks <- TwoCallers
INVARIANTS
    RefreshIsNotRefused
    ExpiryIsRecovered
    ReportsAreTrue
    ReadsBackAsAsked
PROPERTIES
    RequestsEnd
CHECK_DEADLOCK FALSE
