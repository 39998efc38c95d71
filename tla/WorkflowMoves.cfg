\* Two accounts, one asset, two markets, and a world that changes twice, at any moment.
SPECIFICATION Spec
CONSTANTS
    NumAccounts = 2
    NumAssets = 1
    NumPools = 2
    Lists <- EveryPool
    TargetWorkingBps = 10
    MinIdleAmount = 1
    MinMoveAmount = 2
    MinMoveBps = 5
    MinSupplyRate = 1
    MaxMoveAmount = 4
    BPS = 10
    RAY = 2
    DeadlineTicks = 2
    RunTicks = 1
    Rates = {0, 1, 2}
    Levels = {0, 3}
    MaxTotal = 4
    Changes = {"rate", "cash", "interest", "on_behalf", "idle", "permit", "revoke", "agent", "demand", "index", "expiry", "gas"}
    MaxChanges = 2
    Starts <- VariedStarts
INVARIANTS TypeOK FreshMovesHoldUp MovesPayOff
PROPERTY MovesAreProgress
