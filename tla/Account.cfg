\* Two scenes over one venue and one agent: who decides, and who trades.
SPECIFICATION MCSpec
CONSTANTS
    Owner = Owner
    Account = Account
    Aqua = Aqua
    Nobody = Nobody
    v1 = v1
    bot = bot
    key = key
    shipped = shipped
    patched = patched
    Agents <- MCAgents
    Venues = {v1}
    Implementations <- MCImplementations
    UPGRADER <- MCUPGRADER
    Batches <- MCBatches
    Amounts = {1}
    Funds = 1
    MaxNonce = 2
    MaxTime = 1
    MaxDepth = 2
    MaxSigned = 2
    MaxGifts = 1
INVARIANTS TypeOK NoStandingAllowance OneRunPerNonce
PROPERTIES OnlyTheOwnerDecides RevocationHolds KeepsCustody
CHECK_DEADLOCK FALSE
