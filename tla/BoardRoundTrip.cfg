\* The board the tests ship, whose bend is wider than twice its spread, at the test's proportions.
SPECIFICATION BoardSpec
CONSTANTS
    maker = maker
    taker = taker
    morpho = morpho
    compound = compound
    Maker = maker
    Taker = taker
    Holders = {maker, taker}
    Venues = {morpho, compound}
    Sampling = {morpho}
    VenueList <- MCVenueList
    AssetOf <- MCAssetOf
    Dust = {0, 1}
    Moves <- MCMoves
    MinWindow = 1
    RateUnit = 4
    MaxAssets = 12
    MaxTime = 1
    Answers = {1000}
    SellAmounts = {1, 2}
    BuyAmounts = {1986}
    PushAmounts <- MCPush
    VenueAmounts = {3}
    Unit = 1
    Bps = 1000
    Spread = 3
    MaxSkew = 20
    BaseCap = 4
    MaxStaleness = 0
    Expiry = 2
    Starts <- TestStarts
    MaxDepth = 2
    MaxGifts <- TestGifts
    MaxEntries = 4
INVARIANTS RoundTripCostsTheTaker

CHECK_DEADLOCK FALSE
