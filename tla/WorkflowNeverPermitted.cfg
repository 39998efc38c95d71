\* Somebody supplies on behalf of the account at a market the owner never named.
SPECIFICATION Spec
CONSTANTS
    NumAccounts = 1
    NumAssets = 1
    NumPools = 2
    Lists <- EveryPool
    TargetWorkingBps = 10
    MinIdleAmount = 1
    MinMoveAmount = 1
    MinMoveBps = 1
    MinSupplyRate = 1
    MaxMoveAmount = 3
    BPS = 10
    RAY = 10
    DeadlineTicks = 2
    RunTicks = 1
    Rates = {0, 1, 2}
    Levels = {0, 3}
    MaxTotal = 4
    Changes = {"on_behalf"}
    MaxChanges = 1
    Starts <- UnnamedStart
INVARIANT EvacuationsAreOfRevokedMarkets
