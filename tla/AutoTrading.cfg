SPECIFICATION AutoSpec
CONSTANTS
    Symbols = {"A", "B"}
    Tasks = {T1, T2}
    NoTask = NoTask
    Signals <- LongSignals
    Prices = {1, 3}
    Capital = 4
    SpendOneIn = 2
    DayLength = 3
    SessionClose = 2
    SquareOffTime = 1
    MaxClock = 2
    ManualOrders = 0
    MaxOpenPositions = 1
    MaxDailyTrades = 2
    MaxDailyLoss = 2
    CooldownAfter = 1
    CooldownTicks = 1
INVARIANTS
    SquareOffPassClosesLongs
    OpenPositionsWithinLimit
PROPERTIES
    EntriesWaitTheirTurn
