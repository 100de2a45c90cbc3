SPECIFICATION Spec
CONSTANTS
    Symbols = {"A", "B"}
    Requests <- EngineRequests
    Modifications <- EngineModifications
    Prices = {1, 2}
    Capitals = {4}
    MaxOrders = 3
INVARIANTS
    CashConservation
    HistoryMatchesFills
    PositionsMatchFills
PROPERTIES
    PositionPnlFollowsLedger
