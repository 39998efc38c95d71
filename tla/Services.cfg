SPECIFICATION Spec
SYMMETRY Alike
CONSTANTS
    strategy = strategy
    arb = arb
    usdc = usdc
    one = one
    other = other
    third = third
    Mandates = {strategy}
    Tokens = {arb, usdc}
    Amounts = {1}
    MaxEvents = 4
    MaxBlocks = 2
    MaxAmount = 2
    Requests = {one, other}
    Questions = {one, other}
    CacheTtl = 3
    UpstreamTimeout = 2
    CacheEntries = 1
    MaxCacheTime = 5
    Addresses = {one, other}
    PerMinute = 2
    DailyMax = 3
    Minute = 2
    Day = 4
    Quiet = 2
    MaxLimitTime = 4
    MaxRestarts = 1
    Wallets = {one, other}
    Nobody = Nobody
    NonceTtl = 0
    MaxSkew = 1
    MaxNonces = 1
    MaxPosts = 2
    MaxConnects = 2
    MaxMinutes = 1
    Clients = {one, other, third}
    MaxConversations = 2
    MaxMessages = 2
    MaxStarted = 3
    MaxQueries = 3
    MaxUnsent = 2
    Cards = {one, other}
    Asks = {"plain", "fund", "wrap"}
    Holdings = {1}
    MaxPresses = 2
    MaxMounts = 1
    MaxDeposits = 1
    Readers = {one, other}
    Windows = {{1, 4}}
    MaxLevel = 1
    MaxLag = 1
    Histories <- MCHistories
    MaxRounds = 4
    MaxPhases = 2
    aave = aave
    newer = newer
    Assets = {arb, usdc}
    Dollar = usdc
    Markets = {aave, newer}
    Receipts <- MCReceipts
    Aave = aave
    KnownVenues = {aave}
    MaxMoves = 2
    MaxHeld = 1
    Sizes = {1, 2}
    Positions = {1, 2}
    Books <- MCBooks
    Slippage = 1
    Purse = 3
    MaxShifts = 1
    MaxTries = 2
    MaxRereads = 1
    Payers = {aave, newer}
    PAYS_FROM = {aave}
    RowLimit = 4
    MoneyMoved = {1, 2}
    MaxTransactions = 3
    MaxEarned = 1
    Origins = {"account", "wallet"}
    Ceilings = {2}
    Payments = {2}
    Capital = 2
    MaxShips = 2
    MaxTakes = 1
    MaxAgentMoves = 1
    Slots <- MCSlots
    Drafts <- MCDrafts
    Delays = {1, 12, 15, 20}
    LlmTimeout = 15
    IndexTimeout = 20
    RequestTimeout = 5
    Slack = 1
    Patience = 25
    BotReceipts = {aave, newer}
    SharePriced = {newer}
    BotCommands = {"help", "portfolio", "moves", "chatter"}
    LogLimit = 1
    MaxUpdates = 1
    MaxDeliveries = 2
    MaxHappenings = 3
INVARIANTS TypeOK RowsFollowTheLedger ReadersGoBackLittle BurstBounded
    NonceBuysOneSession ReadyMeansOwnCookie LimitsNearlyHold QuestionsAreServed
    InformedPressesAddMoney SearchIsExact WayOutIsComplete SwapsAreAsPlanned LineIsExact ShipsKeepTheirWord
    TurnsAreChecked BotTellsTheTruth

\* The bounds on what is sent, shipped and counted end a behaviour.
CHECK_DEADLOCK FALSE
