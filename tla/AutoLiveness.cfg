SPECIFICATION FairAutoSpec
CONSTANTS
    Symbols = {"A"}
    Tasks = {T1, T2}
    NoTask = NoTask
    Signals <- LongSignals
    Prices = {1, 3}
    Capital = 2
    SpendOneIn = 1
    DayLength = 3
    SessionClose = 2
    SquareOffTime = 1
    MaxClock = 0
    ManualOrders = 0
    MaxOpenPositions = 1
    MaxDailyTrades = 2
    MaxDailyLoss = 2
    CooldownAfter = 1
    CooldownTicks = 1
PROPERTIES
    WorkEnds
    StopEndsEveryLoop
