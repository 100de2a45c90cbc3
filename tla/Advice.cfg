SPECIFICATION AdviceSpec
CONSTANTS
    Levels = {12, 24, 48}
    MonthLength = 2
    Chains <- AllChains
    StrikeModes = {"ATM", "ITM", "OTM"}
    ExpiryModes = {"NEAREST_WEEKLY", "NEXT_WEEKLY", "MONTHLY"}
    Days = {1, 2}
CHECK_DEADLOCK FALSE
INVARIANTS
    
    ContractIsAsAsked
