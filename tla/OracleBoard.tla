---------------------------- MODULE OracleBoard ----------------------------
(***************************************************************************)
(* HelicoOracleBoard: one board, shipped with quote tokens only if the     *)
(* maker likes, which quotes from a price feed bent by its own inventory   *)
(* and settles out of the maker's wallet or, when that is short, out of    *)
(* the maker's receipts at a lending venue.                                *)
(*                                                                         *)
(* A fill hands the tokens over, calls the taker back, and ends only if    *)
(* Aqua's ledger then shows the payment.  In between the taker does what it*)
(* likes: pushes, uses the venues, tries to fill again.  An open fill is a *)
(* frame on `open`, with what a revert would put back.                     *)
(*                                                                         *)
(* Ghosts: `start` is the ledger when the feed last moved, `gifts` what was*)
(* pushed and no completed fill asked for.                                 *)
(***************************************************************************)
EXTENDS LendingVenue, Sequences, SequencesExt

CONSTANTS
    Maker, Taker,     \* holders of receipts
    VenueList,        \* the board's venues, in its order
    AssetOf,          \* venue -> the side its receipt stands for
    Answers,          \* what the feed may say
    SellAmounts,      \* base a taker may sell
    BuyAmounts,       \* quote a taker may spend
    PushAmounts,      \* side -> what may be pushed at once
    VenueAmounts,     \* what is supplied and withdrawn beside the board
    Unit, Bps,        \* 1e18 of base, and 10_000
    Spread, MaxSkew, BaseCap, MaxStaleness, Expiry,
    Starts,           \* ledgers, budgets, wallets and venues to begin with
    MaxDepth,         \* bound: fills open at once
    MaxGifts,         \* bound: side -> what is pushed for nothing
    MaxEntries        \* bound: calls from outside in one behaviour

Sides == {"quote", "base"}

\* What _check asks of the board itself.
ASSUME BoardAssumption ==
    /\ {Maker, Taker} \subseteq Holders /\ Maker # Taker
    /\ VenueList \in Seq(Venues) /\ AssetOf \in [Venues -> Sides]
    /\ Answers \subseteq Int
    /\ SellAmounts \subseteq Nat /\ BuyAmounts \subseteq Nat /\ VenueAmounts \subseteq Nat
    /\ PushAmounts \in [Sides -> SUBSET Nat]
    /\ Unit \in Nat \ {0} /\ Bps \in Nat \ {0}
    /\ Spread \in Nat /\ MaxSkew \in Nat /\ Spread + MaxSkew < Bps
    /\ BaseCap \in Nat /\ MaxStaleness \in Nat /\ Expiry \in Nat
    /\ MaxDepth \in Nat /\ MaxGifts \in [Sides -> Nat] /\ MaxEntries \in Nat

\* What a behaviour starts from: books that add up, and no more base than the board may take.
ASSUME StartsAssumption ==
    \A s \in Starts :
        /\ s.venue \in [Venues -> VenueType]
        /\ s.ledger \in [Sides -> Nat] /\ s.budget \in [Venues -> Nat] /\ s.wallet \in [Sides -> Nat]
        /\ \A v \in Venues : s.venue[v].shares[Maker] + s.venue[v].shares[Taker] =< s.venue[v].supply
        /\ s.ledger["base"] =< BaseCap

VARIABLES
    ledger,     \* Aqua: side -> what may be traded
    budget,     \* Aqua: venue -> receipts that may be pulled
    docked,     \* the maker has ended the board
    wallet,     \* the maker's tokens
    feed,       \* the aggregator's answer and its updatedAt
    open,       \* fills under way, innermost last
    start,
    gifts,
    entries     \* calls made from outside so far

aqua == <<ledger, budget, docked>>
Enters == entries < MaxEntries /\ entries' = entries + 1

boardVars == <<venueVars, aqua, wallet, feed, open, start, gifts, entries>>

OutOf(sells) == IF sells THEN "quote" ELSE "base"
InTo(sells) == IF sells THEN "base" ELSE "quote"

-----------------------------------------------------------------------------
(* The quotes. *)

\* How far the inventory bends them: Aqua's ledger, not the wallet.
SkewBps ==
    IF BaseCap = 0 THEN 0
    ELSE IF ledger["base"] >= BaseCap THEN MaxSkew
    ELSE (MaxSkew * ledger["base"]) \div BaseCap

Bid == (feed.answer * (Bps - Spread - SkewBps)) \div Bps
Ask == (feed.answer * (Bps + Spread - SkewBps)) \div Bps

Quotable ==
    /\ ~docked /\ now < Expiry
    /\ feed.answer > 0 /\ now - feed.at =< MaxStaleness

QuoteExactIn(sells, amountIn) ==
    IF sells THEN (amountIn * Bid) \div Unit ELSE (amountIn * Unit) \div Ask

-----------------------------------------------------------------------------
(* Covering what the wallet lacks. *)

DeficitShares(r, deficit) == deficit  \* mutant: one receipt, one token
SharesFor(r, deficit) == PreviewWithdraw(r, deficit)

CanPay(v, side, deficit) ==
    LET cost == SharesFor(venue[v], deficit)
    IN /\ AssetOf[v] = side
       /\ Liquidity(venue[v]) >= deficit
       /\ budget[v] >= cost
       /\ venue[v].shares[Maker] >= cost

\* The first venue that can; none is a refusal of the fill.
VenueFor(side, deficit) ==
    LET able == {i \in DOMAIN VenueList : CanPay(VenueList[i], side, deficit)}
    IN IF able = {} THEN {} ELSE {VenueList[Min(able)]}

\* The board pulls the shares, spends them for the deficit and sends home what the burn left:
\* the maker is down by the burn, the budget by the pull.
Unwind(v, deficit) ==
    \E dust \in Dust :
        /\ CanWithdraw(venue[v], Maker, deficit, dust)
        /\ SharesFor(venue[v], deficit) >= PreviewWithdraw(venue[v], deficit)
        /\ venue' = [venue EXCEPT ![v] = Withdrawn(v, @, Maker, deficit, dust)]
        /\ budget' = [budget EXCEPT ![v] = @ - SharesFor(venue[v], deficit)]

\* The wallet first, a market only for what is missing.
Cover(side, amountOut) ==
    \/ wallet[side] >= amountOut /\ UNCHANGED <<venue, budget>>
    \/ /\ wallet[side] < amountOut
       /\ \E v \in VenueFor(side, amountOut - wallet[side]) : Unwind(v, amountOut - wallet[side])

WalletAfter(side, amountOut) == IF wallet[side] >= amountOut THEN wallet[side] - amountOut ELSE 0

-----------------------------------------------------------------------------
(* A fill. *)

Snapshot == [venue |-> venue, ledger |-> ledger, budget |-> budget, wallet |-> wallet,
             gifts |-> gifts]

NeverEntered == FALSE  \* mutant: no lock
\* nonReentrantStrategy(maker, hash).
Entered == open # <<>>

NoCap(amountIn) == TRUE  \* mutant: the skew is trusted to stop it
UnderTheCap(amountIn) == ledger["base"] + amountIn =< BaseCap

\* Priced, budgeted, covered and pulled; then the taker has control.
FillBegins(sells, amountIn) ==
    LET side == OutOf(sells)
        amountOut == QuoteExactIn(sells, amountIn)
    IN
    /\ ~Entered /\ Len(open) < MaxDepth
    /\ amountIn > 0 /\ Quotable
    /\ ~sells => Ask > 0
    /\ amountOut > 0
    /\ sells => UnderTheCap(amountIn)
    /\ amountOut =< ledger[side]
    /\ Cover(side, amountOut)
    /\ ledger' = [ledger EXCEPT ![side] = @ - amountOut]
    /\ wallet' = [wallet EXCEPT ![side] = WalletAfter(side, amountOut)]
    /\ open' = Append(open, [sells |-> sells, amountIn |-> amountIn,
                             pushedBack |-> ledger[InTo(sells)], saved |-> Snapshot])
    /\ Enters
    /\ UNCHANGED <<docked, now, feed, start, gifts>>

Unpaid(f) == TRUE  \* mutant: the payment is not looked for
Paid(f) == ledger[InTo(f.sells)] >= f.pushedBack + f.amountIn

FillEnds ==
    LET f == Last(open) IN
    /\ open # <<>> /\ Paid(f)
    /\ open' = Front(open)
    /\ gifts' = [gifts EXCEPT ![InTo(f.sells)] = @ - f.amountIn]
    /\ UNCHANGED <<venueVars, aqua, wallet, feed, start, entries>>

\* The taker's call reverts, or the payment is not there.
FillReverts ==
    LET s == Last(open).saved IN
    /\ open # <<>>
    /\ venue' = s.venue /\ ledger' = s.ledger /\ budget' = s.budget /\ wallet' = s.wallet
    /\ gifts' = s.gifts
    /\ open' = Front(open)
    /\ UNCHANGED <<docked, now, feed, start, entries>>

\* AQUA.push: anybody's tokens, into the maker's wallet and the board's ledger.
Pushes(side, x) ==
    /\ ~docked /\ gifts[side] + x =< MaxGifts[side]
    /\ ledger' = [ledger EXCEPT ![side] = @ + x]
    /\ wallet' = [wallet EXCEPT ![side] = @ + x]
    /\ gifts' = [gifts EXCEPT ![side] = @ + x]
    /\ UNCHANGED <<venueVars, budget, docked, feed, open, start, entries>>

-----------------------------------------------------------------------------
(* Everybody else.  Between transactions only, but for the taker at a venue. *)

Docks ==
    /\ open = <<>> /\ ~docked
    /\ docked' = TRUE
    /\ ledger' = [s \in Sides |-> 0] /\ budget' = [v \in Venues |-> 0]
    /\ Enters
    /\ UNCHANGED <<venueVars, wallet, feed, open, start, gifts>>

FeedAnswers(x) ==
    /\ open = <<>> /\ x # feed.answer
    /\ feed' = [answer |-> x, at |-> now]
    /\ start' = ledger
    /\ Enters
    /\ UNCHANGED <<venueVars, aqua, wallet, open, gifts>>

MakerSupplies(v, a) ==
    /\ open = <<>> /\ wallet[AssetOf[v]] >= a
    /\ Supply(v, Maker, a)
    /\ wallet' = [wallet EXCEPT ![AssetOf[v]] = @ - a]
    /\ Enters
    /\ UNCHANGED <<now, aqua, feed, open, start, gifts>>

TakerAtVenue(v, a) ==
    /\ Supply(v, Taker, a) \/ Withdraw(v, Taker, a) \/ Poke(v)
    /\ Enters
    /\ UNCHANGED <<now, aqua, wallet, feed, open, start, gifts>>

MarketMoves(v, d) ==
    /\ open = <<>>
    /\ Accrue(v, d) \/ Borrow(v, d)
    /\ Enters
    /\ UNCHANGED <<now, aqua, wallet, feed, open, start, gifts>>

Tick ==
    /\ open = <<>> /\ now < MaxTime
    /\ now' = now + 1
    /\ UNCHANGED <<venue, aqua, wallet, feed, open, start, gifts, entries>>

BoardInit ==
    \E s \in Starts :
        /\ venue = s.venue /\ ledger = s.ledger /\ budget = s.budget /\ wallet = s.wallet
        /\ docked = FALSE /\ now = 0 /\ open = <<>> /\ start = s.ledger /\ entries = 0
        /\ gifts = [side \in Sides |-> 0]
        /\ \E x \in Answers : feed = [answer |-> x, at |-> 0]

BoardNext ==
    \/ \E sells \in BOOLEAN : \E x \in (IF sells THEN SellAmounts ELSE BuyAmounts) :
           FillBegins(sells, x)
    \/ FillEnds
    \/ FillReverts
    \/ \E s \in Sides : \E x \in PushAmounts[s] : Pushes(s, x)
    \/ Docks
    \/ \E x \in Answers : FeedAnswers(x)
    \/ \E v \in Venues : \E a \in VenueAmounts : MakerSupplies(v, a) \/ TakerAtVenue(v, a)
    \/ \E v \in Venues : \E d \in Moves : MarketMoves(v, d)
    \/ Tick

BoardSpec == BoardInit /\ [][BoardNext]_boardVars

-----------------------------------------------------------------------------
(* What a board promises. *)

FrameType == [sells : BOOLEAN, amountIn : Nat, pushedBack : Nat,
              saved : [venue : [Venues -> VenueType], ledger : [Sides -> Nat],
                       budget : [Venues -> Nat], wallet : [Sides -> Nat], gifts : [Sides -> Nat]]]

\* The types of the board's state and of the venues'.
TypeOK ==
    /\ venue \in [Venues -> VenueType] /\ now \in 0..MaxTime
    /\ ledger \in [Sides -> Nat] /\ budget \in [Venues -> Nat] /\ docked \in BOOLEAN
    /\ wallet \in [Sides -> Nat]
    /\ feed \in [answer : Answers, at : 0..MaxTime]
    /\ open \in Seq(FrameType)
    /\ start \in [Sides -> Nat] /\ gifts \in [Sides -> Nat] /\ entries \in 0..MaxEntries

\* What a ledger is worth with its base counted at the lowest price the maker ever asked for
\* at this feed: the bid of an empty inventory.
Worth(l) == l["quote"] * Unit + l["base"] * ((feed.answer * (Bps - Spread)) \div Bps)

\* However fills follow one another while the feed stands still at a price, in and out and from
\* inside their own callbacks, the mandate is never worth less than before them.  Holds of boards
\* whose bend is at most the whole spread, which _check does not ask.
SpreadIsKept == open = <<>> /\ ~docked /\ feed.answer > 0 => Worth(ledger) >= Worth(start)

\* Whoever sells into a board and buys back out has paid for it ("costs the taker the round
\* trip, which is what the maker keeps", ForkOracleBoard.t.sol).
RoundTripCostsTheTaker ==
    open = <<>> /\ ~docked /\ ledger["base"] = start["base"] => ledger["quote"] >= start["quote"]

\* Inventory beyond baseCap was given to the maker, never bought, whatever was pushed while a
\* fill was open.
CapHolds == open = <<>> /\ ~docked => ledger["base"] =< BaseCap + gifts["base"]

\* A supply or a withdrawal, by whomever, never lowers what the other holders' shares are worth
\* by more than the market rounded away itself.
SharesNeverDiluted ==
    [][ \A v \in Venues :
          venue'[v].supply # venue[v].supply /\ Len(open') >= Len(open) =>
            \E dust \in Dust :
              (venue'[v].assets + 1 + dust) * (venue[v].supply + 1)
                  >= (venue[v].assets + 1) * (venue'[v].supply + 1) ]_boardVars

\* A fill that unwinds spends of the board's budget exactly the receipts the maker lost, and
\* those were worth the deficit, give or take one share and the market's rounding.
CoverCostsItsDeficit ==
    [][ \A v \in Venues :
          Len(open') > Len(open) /\ venue'[v] # venue[v] =>
            LET spent == venue[v].shares[Maker] - venue'[v].shares[Maker]
                paid == venue[v].assets - venue'[v].assets
            IN /\ budget[v] - budget'[v] = spent
               /\ wallet'[AssetOf[v]] = 0
               /\ \E dust \in Dust : PreviewRedeem(venue[v], spent) + dust =< paid
                                       + PreviewRedeem(venue[v], 1) ]_boardVars
=============================================================================
