\* Two mandates of one maker, entered from inside one another.
SPECIFICATION Spec
CONSTANTS
    m1 = m1
    m2 = m2
    usdc = usdc
    weth = weth
    aave = aave
    comet = comet
    taker = taker
    other = other
    Anyone = Anyone
    NoVenue = NoVenue
    Mandates <- MCMandates
    Tokens <- MCTokens
    Venues = {aave, comet}
    SharePriced = {comet}
    Par = 2
    Prices = {1, 3}
    VenuesOf <- MCVenuesOf
    Fee <- MCFee
    MaxOut <- MCMaxOut
    Expiry <- MCExpiry
    Agent <- MCAgent
    Takers = {taker, other}
    BPS_BASE = 10
    Amounts = {2}
    Starts <- MCStarts
    MaxDepth = 2
    MaxTime = 1
    MaxEntries = 5
    MaxLedger = 7
INVARIANTS TypeOK HeldIsInFlight
PROPERTIES ProductNeverFalls LedgersAccountForEverything

\* A behaviour ends when the calls from outside are used up.
CHECK_DEADLOCK FALSE
