\* Two assets, one of them in a market the owner revokes.
SPECIFICATION Spec
CONSTANTS
    NumAccounts = 1
    NumAssets = 2
    NumPools = 2
    Lists <- EveryPool
    TargetWorkingBps = 10
    MinIdleAmount = 1
    MinMoveAmount = 1
    MinMoveBps = 1
    MinSupplyRate = 1
    MaxMoveAmount = 3
    BPS = 10
    RAY = 10
    DeadlineTicks = 2
    RunTicks = 1
    Rates = {0, 1, 2}
    Levels = {0, 3}
    MaxTotal = 4
    Changes = {"rate", "revoke"}
    MaxChanges = 2
    Starts <- SpreadStart
INVARIANT EvacuationGoesFirst
