SPECIFICATION Spec
CONSTANTS
    Underlyings = {"NIFTY", "BANKNIFTY"}
    Contracts = {"nifty call", "banknifty put"}
    UnderlyingOf <- TwoContracts
    Nothing = Nothing
    Tasks = {T1, T2}
    Clients = {C1}
    MaxRequests = 1
    MaxClock = 2
    MaxCycles = 2
    Premiums = {1, 2}
    Capital = 5
    LotSize = 2
    LotsPerTrade = 1
    ManualLots = {1, 2}
    MaxOpenPositions = 1
    ExitTime = 1
    SessionClose = 2
    DayLength = 2
    StopLossPercent = 50
    TargetPercent = 50
    MaxLotsPerOrder = 1
    MaxPremiumPerOrder = 4
    MaxPremiumExposure = 4
    MaxDailyLoss = 2
INVARIANTS
    ExposureWithinLimit
    
    PositionsWithinLimit
    BoughtIsLookedAfter

    
