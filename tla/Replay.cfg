SPECIFICATION Spec
CONSTANTS
    Prices = {20, 30, 40}
    Risks = {10}
    Capital = 100
    SpendOneIn = 1
    SlippagePercent = 10
    StopLossPercent = 30
    TargetPercent = 50
    MaxCandles = 3
    Sessions = {"today", "yesterday"}
    Future = {"today"}
    HasOptions = TRUE
    MaxRequests = 1
CHECK_DEADLOCK FALSE
INVARIANTS
    TradesExplainCapital
    RecordsAreRoundTrips
