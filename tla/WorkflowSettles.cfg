\* One account with two assets: revocations are carried out and the corrections end.
SPECIFICATION FairSpec
CONSTANTS
    NumAccounts = 1
    NumAssets = 2
    NumPools = 2
    Lists <- EveryPool
    TargetWorkingBps = 10
    MinIdleAmount = 1
    MinMoveAmount = 1
    MinMoveBps = 1
    MinSupplyRate = 1
    MaxMoveAmount = 2
    BPS = 10
    RAY = 10
    DeadlineTicks = 2
    RunTicks = 1
    Rates = {0, 1, 2}
    Levels = {0, 3}
    MaxTotal = 4
    Changes = {"revoke", "gas", "cash"}
    MaxChanges = 2
    Starts <- FewStarts
PROPERTY CorrectionsFinish
