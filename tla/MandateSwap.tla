---------------------------- MODULE MandateSwap ----------------------------
(***************************************************************************)
(* HelicoMandateSwap: mandates of one maker, swapped against out of Aqua's *)
(* ledger and the maker's own wallet, with a lending position unwound when *)
(* the wallet is short.                                                    *)
(*                                                                         *)
(* A swap hands control away twice: to the market it withdraws from, which *)
(* the maker chose, and to the taker, who is sent the tokens first and has *)
(* to have pushed the price into Aqua when the callback returns.  Whoever  *)
(* is given control may swap against a sibling mandate, push, or have the  *)
(* maker's account dock a mandate or move its idle capital, all before the *)
(* first swap has settled.  Open swaps are `frames`, innermost last, each  *)
(* with what a revert puts back.                                           *)
(*                                                                         *)
(* A receipt that rebases is worth one token.  One that is share-priced is *)
(* worth its price, which moves at any moment, and is minted rounding down *)
(* and burnt rounding up; worth is counted in parts, Par to a token.       *)
(***************************************************************************)
EXTENDS Integers, Sequences, FiniteSets, FiniteSetsExt, Sums

CONSTANTS
    Mandates,        \* the maker's mandates, by strategy hash
    Tokens,          \* the two tokens every one of them trades
    Venues, NoVenue, \* lending markets
    SharePriced,     \* those whose receipts are shares; the others' rebase
    Par, Prices,     \* parts in a token, and what a share may be worth in them
    VenuesOf,        \* mandate -> its venues, in its own order
    Fee,             \* mandate -> feeBps
    MaxOut,          \* mandate -> token -> most one swap may take
    Expiry,          \* mandate -> expiry
    Agent,           \* mandate -> who alone may take, or Anyone
    Takers, Anyone,
    BPS_BASE,
    Amounts,         \* what a taker offers or pushes
    Starts,          \* ledgers, budgets, wallets, positions and prices to begin with
    MaxDepth,        \* bound: swaps open at once
    MaxTime,         \* bound: block time
    MaxEntries,      \* bound: calls from outside in one behaviour
    MaxLedger        \* bound: where pushes stop

ASSUME MandateAssumption ==
    /\ IsFiniteSet(Mandates) /\ IsFiniteSet(Venues) /\ NoVenue \notin Venues
    /\ \E t, u \in Tokens : t # u /\ Tokens = {t, u}
    /\ SharePriced \subseteq Venues /\ Par \in Nat \ {0} /\ Prices \subseteq Nat \ {0}
    /\ VenuesOf \in [Mandates -> Seq(Venues)]
    /\ BPS_BASE \in Nat \ {0}
    /\ Fee \in [Mandates -> 0..(BPS_BASE - 1)]
    /\ MaxOut \in [Mandates -> [Tokens -> Nat]]
    /\ Expiry \in [Mandates -> Nat]
    /\ Agent \in [Mandates -> Takers \cup {Anyone}]
ASSUME BoundAssumption ==
    /\ Amounts \subseteq Nat \ {0}
    /\ MaxDepth \in Nat /\ MaxTime \in Nat /\ MaxEntries \in Nat /\ MaxLedger \in Nat
ASSUME StartsAssumption == \A start \in Starts :
    /\ start.ledger \in [Mandates -> [Tokens -> Nat]]
    /\ start.budget \in [Mandates -> [Venues -> [Tokens -> Nat]]]
    /\ start.wallet \in [Tokens -> Nat]
    /\ start.shares \in [Venues -> [Tokens -> Nat]] /\ start.liquidity \in [Venues -> [Tokens -> Nat]]
    /\ start.price \in [SharePriced -> [Tokens -> Prices]]

VARIABLES
    ledger,     \* Aqua: mandate -> token -> what may be traded
    budget,     \* Aqua: mandate -> venue -> token -> receipts that may be pulled
    docked,     \* Aqua: mandates the maker has ended
    wallet,     \* the maker's tokens
    shares,     \* the maker's receipts, venue -> token
    held,       \* receipts this contract holds, venue -> token
    liquidity,  \* what each market can pay out, venue -> token
    price,      \* what a share is worth, share-priced venue -> token
    earned,     \* token -> what prices have brought the maker, less what conversions may cost
    indebted,   \* venues the maker has borrowed from
    frames,     \* swaps under way, innermost last
    now,        \* block.timestamp
    entries     \* calls made from outside so far

aqua == <<ledger, budget, docked>>
maker == <<wallet, shares>>
market == <<held, liquidity, price, earned>>
vars == <<aqua, maker, market, indebted, frames, now, entries>>

Other(t) == CHOOSE u \in Tokens : u # t

-----------------------------------------------------------------------------
(* Swaps in progress. *)

Snapshot == [ledger |-> ledger, budget |-> budget, docked |-> docked, wallet |-> wallet,
             shares |-> shares, held |-> held, liquidity |-> liquidity,
             price |-> price, earned |-> earned]

Idle == frames = <<>>
Top == frames[Len(frames)]
Pop == SubSeq(frames, 1, Len(frames) - 1)
CanEnter == Len(frames) < MaxDepth

\* nonReentrantStrategy(maker, hash).
NeverLocked(m) == FALSE  \* mutant: no lock
Locked(m) == \E i \in DOMAIN frames : frames[i].mandate = m

Revert ==
    /\ ledger' = Top.saved.ledger /\ budget' = Top.saved.budget /\ docked' = Top.saved.docked
    /\ wallet' = Top.saved.wallet /\ shares' = Top.saved.shares
    /\ held' = Top.saved.held /\ liquidity' = Top.saved.liquidity
    /\ price' = Top.saved.price /\ earned' = Top.saved.earned
    /\ frames' = Pop
    /\ UNCHANGED <<indebted, now>>

-----------------------------------------------------------------------------
(* Price and cover. *)

\* The constant product, rounded down, on what is left of the input after the fee.
Quote(m, balanceIn, balanceOut, amountIn) ==
    LET net == (amountIn * (BPS_BASE - Fee[m])) \div BPS_BASE
    IN (net * balanceOut) \div (balanceIn + net)

\* previewWithdraw of a share, rounded up; a rebasing receipt is the amount itself.
SharesFor(v, t, amount) ==
    IF v \in SharePriced THEN (amount * Par + price[v][t] - 1) \div price[v][t] ELSE amount
Minted(v, t, amount) ==
    IF v \in SharePriced THEN (amount * Par) \div price[v][t] ELSE amount

\* What a receipt is worth at the prices p, and what converting an amount may leave to the market.
PriceAt(p, v, t) == IF v \in SharePriced THEN p[v][t] ELSE Par
Rounding(v, t) == IF v \in SharePriced THEN price[v][t] - 1 ELSE 0
Converts(v, t) == earned' = [earned EXCEPT ![t] = @ - Rounding(v, t)]

DeepEnough(m, v, t, deficit) == liquidity[v][t] >= deficit  \* mutant: the market alone
\* Three things have to be true of a venue, and the market's liquidity is only one.
CanPay(m, v, t, deficit) ==
    /\ liquidity[v][t] >= deficit
    /\ budget[m][v][t] >= SharesFor(v, t, deficit)
    /\ shares[v][t] >= SharesFor(v, t, deficit)

VenueFor(m, t, deficit) ==
    LET list == VenuesOf[m]
        able == {i \in DOMAIN list : CanPay(m, list[i], t, deficit)}
    IN IF able = {} THEN {} ELSE {list[Min(able)]}

Frame(m, t, amountIn, amountOut, venue, deficit, cost) ==
    [mandate |-> m, out |-> t, amountIn |-> amountIn, amountOut |-> amountOut,
     balanceIn |-> ledger[m][Other(t)], venue |-> venue, deficit |-> deficit, cost |-> cost,
     beforePull |-> IF venue = NoVenue THEN 0 ELSE held[venue][t], saved |-> Snapshot]

\* The swap waits for the market, or else for the taker's callback.
Unwinding(f) == f.venue # NoVenue

MayTake(m, sender) == Agent[m] \in {Anyone, sender}

Tradable(m) ==
    /\ m \notin docked
    /\ now < Expiry[m]
    /\ \A t \in Tokens : ledger[m][t] > 0

\* AQUA.pull of the traded token, from the maker straight to the taker.
PullOut(m, t, amount, walletNow) ==
    /\ walletNow >= amount /\ ledger[m][t] >= amount
    /\ ledger' = [ledger EXCEPT ![m][t] = @ - amount]
    /\ wallet' = [wallet EXCEPT ![t] = walletNow - amount]

SwapFromWallet(m, t, amountIn, amountOut) ==
    /\ PullOut(m, t, amountOut, wallet[t])
    /\ frames' = Append(frames, Frame(m, t, amountIn, amountOut, NoVenue, 0, 0))
    /\ UNCHANGED <<budget, docked, shares, market>>

\* The receipts are here and the market has been asked for the deficit.
SwapByUnwinding(m, t, amountIn, amountOut) ==
    LET deficit == amountOut - wallet[t] IN
    /\ deficit > 0
    /\ \E v \in VenueFor(m, t, deficit) \ indebted :
        LET cost == SharesFor(v, t, deficit) IN
        /\ frames' = Append(frames, Frame(m, t, amountIn, amountOut, v, deficit, cost))
        /\ budget' = [budget EXCEPT ![m][v][t] = @ - cost]
        /\ shares' = [shares EXCEPT ![v][t] = @ - cost]
        /\ held' = [held EXCEPT ![v][t] = @ + cost]
    /\ UNCHANGED <<ledger, docked, wallet, liquidity, price, earned>>

\* swapExactIn, up to where it first lets go of control.
Swap(m, t, amountIn, sender) ==
    LET amountOut == Quote(m, ledger[m][Other(t)], ledger[m][t], amountIn) IN
    /\ CanEnter /\ ~Locked(m)
    /\ MayTake(m, sender)
    /\ Tradable(m)
    /\ amountOut <= MaxOut[m][t]
    /\ \/ SwapFromWallet(m, t, amountIn, amountOut)
       \/ SwapByUnwinding(m, t, amountIn, amountOut)
    /\ UNCHANGED <<indebted, now>>

-----------------------------------------------------------------------------
(* The market returns. *)

\* What the market's burn, at the price of now, has left here of the receipts.
HeldNow(f) == held[f.venue][f.out] - SharesFor(f.venue, f.out, f.deficit)
NothingBack(f) == 0  \* mutant: what is over stays with whoever unwound it
BackToMaker(f) == HeldNow(f) - f.beforePull
Leave(f) == HeldNow(f)  \* mutant: neither sent home nor looked at
HeldInTheEnd(f) == f.beforePull

\* The market has burnt receipts for what it pays the maker, and the rest goes
\* home; the swap goes on to the taker.
MarketReturns ==
    LET f == Top v == f.venue t == f.out IN
    /\ ~Idle /\ Unwinding(f)
    /\ liquidity[v][t] >= f.deficit
    /\ HeldNow(f) >= f.beforePull
    /\ PullOut(f.mandate, t, f.amountOut, wallet[t] + f.deficit)
    /\ liquidity' = [liquidity EXCEPT ![v][t] = @ - f.deficit]
    /\ shares' = [shares EXCEPT ![v][t] = @ + BackToMaker(f)]
    /\ held' = [held EXCEPT ![v][t] = HeldInTheEnd(f)]
    /\ Converts(v, t)
    /\ frames' = [frames EXCEPT ![Len(frames)].venue = NoVenue]
    /\ UNCHANGED <<budget, docked, price, indebted, now>>

\* The taker returns, and Aqua is asked what the mandate holds.
Pushed(f) ==
    /\ f.mandate \notin docked
    /\ ledger[f.mandate][Other(f.out)] >= f.balanceIn + f.amountIn

TakerReturns ==
    /\ ~Idle /\ ~Unwinding(Top)
    /\ Pushed(Top)
    /\ frames' = Pop
    /\ UNCHANGED <<aqua, maker, market, indebted, now>>

\* Any check that fails, in here or in what was called, undoes the whole swap.
SwapFails == ~Idle /\ Revert

-----------------------------------------------------------------------------
(* Everybody else, at any moment somebody other than the swap has control. *)

\* Aqua's push: anyone pays tokens to the maker, into a mandate's ledger.
Push(m, t, amount) ==
    /\ m \notin docked
    /\ ledger[m][t] + amount <= MaxLedger
    /\ ledger' = [ledger EXCEPT ![m][t] = @ + amount]
    /\ wallet' = [wallet EXCEPT ![t] = @ + amount]
    /\ UNCHANGED <<budget, docked, shares, market, indebted, frames, now>>

\* Aqua's dock, by the maker's account.
Dock(m) ==
    /\ m \notin docked
    /\ docked' = docked \cup {m}
    /\ ledger' = [ledger EXCEPT ![m] = [t \in Tokens |-> 0]]
    /\ budget' = [budget EXCEPT ![m] = [v \in Venues |-> [t \in Tokens |-> 0]]]
    /\ UNCHANGED <<maker, market, indebted, frames, now>>

\* The maker's agent puts idle capital to work, or brings it back.
SupplyIdle(v, t, amount) ==
    /\ amount <= wallet[t] /\ Minted(v, t, amount) > 0
    /\ wallet' = [wallet EXCEPT ![t] = @ - amount]
    /\ shares' = [shares EXCEPT ![v][t] = @ + Minted(v, t, amount)]
    /\ liquidity' = [liquidity EXCEPT ![v][t] = @ + amount]
    /\ Converts(v, t)
    /\ UNCHANGED <<aqua, held, price, indebted, frames, now>>

WithdrawIdle(v, t, amount) ==
    /\ SharesFor(v, t, amount) <= shares[v][t] /\ amount <= liquidity[v][t]
    /\ wallet' = [wallet EXCEPT ![t] = @ + amount]
    /\ shares' = [shares EXCEPT ![v][t] = @ - SharesFor(v, t, amount)]
    /\ liquidity' = [liquidity EXCEPT ![v][t] = @ - amount]
    /\ Converts(v, t)
    /\ UNCHANGED <<aqua, held, price, indebted, frames, now>>

\* A share gains by interest, a donation or somebody's rounding, and loses by a bad debt or the
\* market's own rounding, in the middle of a swap too.
Reprices(v, t, worth) ==
    /\ price' = [price EXCEPT ![v][t] = worth]
    /\ earned' = [earned EXCEPT ![t] = @ + (worth - price[v][t]) * (shares[v][t] + held[v][t])]
    /\ UNCHANGED <<aqua, maker, held, liquidity, indebted, frames, now>>

\* The maker borrows at a market, or pays back.
DebtChanges(v) ==
    /\ indebted' = IF v \in indebted THEN indebted \ {v} ELSE indebted \cup {v}
    /\ Idle
    /\ UNCHANGED <<aqua, maker, market, frames, now>>

Tick ==
    /\ Idle
    /\ now < MaxTime
    /\ now' = now + 1
    /\ UNCHANGED <<aqua, maker, market, indebted, frames>>

-----------------------------------------------------------------------------
Init ==
    /\ \E start \in Starts :
        /\ ledger = start.ledger /\ budget = start.budget
        /\ wallet = start.wallet /\ shares = start.shares /\ liquidity = start.liquidity
        /\ price = start.price
    /\ docked = {} /\ earned = [t \in Tokens |-> 0]
    /\ held = [v \in Venues |-> [t \in Tokens |-> 0]]
    /\ indebted = {}
    /\ frames = <<>>
    /\ now = 0 /\ entries = 0

\* A call from outside, made while no swap, or somebody a swap called, has control.
FromOutside ==
    \/ \E m \in Mandates, t \in Tokens, x \in Amounts, k \in Takers : Swap(m, t, x, k)
    \/ \E m \in Mandates, t \in Tokens, x \in Amounts : Push(m, t, x)
    \/ \E m \in Mandates : Dock(m)
    \/ \E v \in Venues, t \in Tokens, x \in Amounts : SupplyIdle(v, t, x)
    \/ \E v \in Venues, t \in Tokens, x \in Amounts : WithdrawIdle(v, t, x)
    \/ \E v \in SharePriced, t \in Tokens, worth \in Prices : Reprices(v, t, worth)
    \/ \E v \in Venues : DebtChanges(v)

Returns == MarketReturns \/ TakerReturns \/ SwapFails

Next ==
    \/ entries < MaxEntries /\ entries' = entries + 1 /\ FromOutside
    \/ entries' = entries /\ (Returns \/ Tick)

Spec == Init /\ [][Next]_vars

-----------------------------------------------------------------------------
(* Properties. *)

\* What has been committed while a transaction is under way is what its
\* outermost swap would go back to.
Committed == IF Idle THEN Snapshot ELSE frames[1].saved

Product(l, m) == LET t == CHOOSE t \in Tokens : TRUE IN l[m][t] * l[m][Other(t)]

TypeOK ==
    /\ ledger \in [Mandates -> [Tokens -> Nat]]
    /\ budget \in [Mandates -> [Venues -> [Tokens -> Nat]]]
    /\ docked \subseteq Mandates /\ indebted \subseteq Venues
    /\ wallet \in [Tokens -> Nat]
    /\ shares \in [Venues -> [Tokens -> Nat]] /\ held \in [Venues -> [Tokens -> Nat]]
    /\ liquidity \in [Venues -> [Tokens -> Nat]]
    /\ price \in [SharePriced -> [Tokens -> Prices]] /\ earned \in [Tokens -> Int]
    /\ Len(frames) \in 0..MaxDepth /\ now \in 0..MaxTime
    /\ entries \in 0..MaxEntries

\* No transaction leaves a mandate with a smaller product than it found,
\* whatever the taker, the market and the siblings do between the quote and the
\* check that the price was pushed.
ProductNeverFalls ==
    [][\A m \in Mandates \ Committed'.docked :
          Product(Committed'.ledger, m) >= Product(Committed.ledger, m)]_vars

\* The contract holds exactly the receipts of the swaps that wait for a market,
\* and none at all between transactions: nothing one maker leaves here can be
\* swept up by the next caller.
HeldIsInFlight ==
    \A v \in Venues, t \in Tokens :
        held[v][t] = SumOf([i \in DOMAIN frames |-> frames[i].cost],
                           {i \in DOMAIN frames : frames[i].venue = v /\ frames[i].out = t})

\* What the maker has of a token in the wallet and at the markets, beyond what its mandates'
\* ledgers say may be traded, in parts.
AtMarkets(h, p, t) == SumOf([v \in Venues |-> h[v][t] * PriceAt(p, v, t)], Venues)
Promised(l, t) == SumOf([m \in Mandates |-> l[m][t]], Mandates)
Beyond(c, t) == (Par * c.wallet[t] + AtMarkets(c.shares, c.price, t)) - Par * Promised(c.ledger, t)

\* What a transaction gives up from the ledgers is all it costs the maker, but for less than one
\* share each time an amount is converted into shares: neither a swap inside another nor a price
\* that moves between the pull and the burn leaves a receipt, or what it gained, with somebody else.
LedgersAccountForEverything ==
    [][\A t \in Tokens : Beyond(Committed', t) - Committed'.earned[t]
                            >= Beyond(Committed, t) - Committed.earned[t]]_vars
=============================================================================
