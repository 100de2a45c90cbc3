SPECIFICATION AutoSpec
CONSTANTS
    Symbols = {"A"}
    Tasks = {T1, T2}
    NoTask = NoTask
    Signals <- MixedSignals
    Prices = {1, 3}
    Capital = 2
    SpendOneIn = 1
    DayLength = 3
    SessionClose = 2
    SquareOffTime = 1
    MaxClock = 1
    ManualOrders = 1
    MaxOpenPositions = 1
    MaxDailyTrades = 1
    MaxDailyLoss = 2
    CooldownAfter = 1
    CooldownTicks = 1
INVARIANTS
    TrackedIsHeld
    HeldIsTracked
    NoUnknownLoop

    
