\* The comment of invalidateSignatures, against what the digest accepts.
SPECIFICATION MCSpec
CONSTANTS
    Owner = Owner
    Account = Account
    Aqua = Aqua
    Nobody = Nobody
    v1 = v1
    bot = bot
    key = key
    shipped = shipped
    patched = patched
    Agents = {}
    Venues = {}
    Implementations <- MCImplementations
    UPGRADER <- MCUPGRADER
    Batches <- MCSignedBatches
    Amounts = {}
    Funds = 0
    MaxNonce = 2
    MaxTime = 1
    MaxDepth = 2
    MaxSigned = 2
    MaxGifts = 0
PROPERTY InvalidationTakesBackAll
CHECK_DEADLOCK FALSE
