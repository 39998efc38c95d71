\* A board whose bend is as wide as its spread, with both kinds of venue behind it.
SPECIFICATION BoardSpec
CONSTANTS
    maker = maker
    taker = taker
    morpho = morpho
    compound = compound
    Maker = maker
    Taker = taker
    Holders = {maker, taker}
    Venues = {morpho, compound}
    Sampling = {morpho}
    VenueList <- MCVenueList
    AssetOf <- MCAssetOf
    Dust = {0, 1}
    Moves <- MCMoves
    MinWindow = 1
    RateUnit = 4
    MaxAssets = 12
    MaxTime = 1
    Answers = {10, 7}
    SellAmounts = {1, 2}
    BuyAmounts = {10}
    PushAmounts <- MCPush
    VenueAmounts = {3}
    Unit = 1
    Bps = 10
    Spread = 1
    MaxSkew = 2
    BaseCap = 2
    MaxStaleness = 0
    Expiry = 2
    Starts <- MCStarts
    MaxDepth = 2
    MaxGifts <- MCMaxGifts
    MaxEntries = 4
INVARIANTS TypeOK SpreadIsKept CapHolds
PROPERTIES SharesNeverDiluted CoverCostsItsDeficit

\* A board that has expired with its venues frozen has nothing left to do.
CHECK_DEADLOCK FALSE
