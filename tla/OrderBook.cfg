SPECIFICATION BookSpec
CONSTANTS
    Symbols = {"A"}
    Requests <- BookRequests
    Modifications <- BookModifications
    Prices = {1, 2, 3}
    Capitals = {5}
    MaxOrders = 2
INVARIANTS
    TypeOK
    HoldsBackRestingBuys
    HoldsMatchTheBook
    OneLongLegFills
    FillsAreExact
PROPERTIES
    TrailingNeverRetreats
    ImplementsLifecycle
