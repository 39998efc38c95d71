---------------------------- MODULE LendingVenue ----------------------------
(***************************************************************************)
(* CompoundVenue and MorphoVenue: a contract that holds one position in a  *)
(* lending market and is itself the receipt for it.  Shares are minted     *)
(* rounding down and burned rounding up, against `supply + 1` shares and   *)
(* `assets + 1` underlying.                                                *)
(*                                                                         *)
(* The market behind it is outside: it accrues or loses, its liquidity     *)
(* comes and goes, and it rounds what it books against the venue by up to  *)
(* `Dust`.  A MorphoVenue also samples its vault's share price, on every   *)
(* supply and withdrawal and whenever anybody asks it to.                  *)
(***************************************************************************)
EXTENDS Integers, FiniteSetsExt

CONSTANTS
    Venues,       \* the venues
    Sampling,     \* the MorphoVenues among them
    Holders,      \* who may hold receipts
    Dust,         \* what the market may round against the venue on one call
    Moves,        \* changes of a market's value, and of what it can pay out
    MinWindow,    \* MIN_WINDOW
    RateUnit,     \* RAY * SECONDS_PER_YEAR
    MaxAssets,    \* bound: what a venue holds
    MaxTime       \* bound: block time

ASSUME VenueAssumption ==
    /\ Sampling \subseteq Venues
    /\ Dust \subseteq Nat
    /\ Moves \subseteq Int
    /\ MinWindow \in Nat \ {0} /\ RateUnit \in Nat /\ MaxAssets \in Nat /\ MaxTime \in Nat

VARIABLES
    venue,        \* venue -> its shares, position, the market's cash and the price sample
    now           \* block.timestamp

venueVars == <<venue, now>>

VenueType == [shares : [Holders -> Nat], supply : Nat, assets : Nat, cash : Nat,
              price : Nat \ {0}, sampledPrice : Nat \ {0}, sampledAt : Nat, rate : Nat]

-----------------------------------------------------------------------------
(* Shares and what they are worth. *)

Minted(r, a) == (a * (r.supply + 1)) \div (r.assets + 1)
RoundedDown(r, a) == (a * (r.supply + 1)) \div (r.assets + 1)  \* mutant: burns round down
PreviewWithdraw(r, a) == (a * (r.supply + 1) + r.assets) \div (r.assets + 1)
PreviewRedeem(r, s) == (s * (r.assets + 1)) \div (r.supply + 1)

\* The lower of what the market can pay and what this venue has in it.
Liquidity(r) == IF r.cash < r.assets THEN r.cash ELSE r.assets

\* A window too short leaves the sample; a price that fell reports no rate at all.
Sampled(v, r) ==
    LET window == now - r.sampledAt
    IN IF v \notin Sampling \/ window < MinWindow THEN r
       ELSE [r EXCEPT !.sampledPrice = r.price, !.sampledAt = now,
                      !.rate = IF r.price > r.sampledPrice
                               THEN ((r.price - r.sampledPrice) * RateUnit)
                                        \div (r.sampledPrice * window)
                               ELSE 0]

\* supply: the shares are counted before the deposit lands.
Supplied(v, r, h, a, dust) ==
    Sampled(v, [r EXCEPT !.shares[h] = @ + Minted(r, a), !.supply = @ + Minted(r, a),
                         !.assets = @ + a - dust, !.cash = @ + a])

CanSupply(r, a, dust) == a > 0 /\ Minted(r, a) > 0 /\ dust =< a

\* withdraw: the caller's shares are burned and exactly `a` is paid.
Withdrawn(v, r, h, a, dust) ==
    Sampled(v, [r EXCEPT !.shares[h] = @ - PreviewWithdraw(r, a),
                         !.supply = @ - PreviewWithdraw(r, a),
                         !.assets = @ - a - dust, !.cash = @ - a])

CanWithdraw(r, h, a, dust) ==
    /\ a > 0
    /\ r.shares[h] >= PreviewWithdraw(r, a)
    /\ r.cash >= a /\ r.assets >= a + dust

-----------------------------------------------------------------------------
(* What a venue does. *)

Supply(v, h, a) ==
    \E dust \in Dust :
        /\ CanSupply(venue[v], a, dust) /\ venue[v].assets + a =< MaxAssets
        /\ venue' = [venue EXCEPT ![v] = Supplied(v, @, h, a, dust)]

Withdraw(v, h, a) ==
    \E dust \in Dust :
        /\ CanWithdraw(venue[v], h, a, dust)
        /\ venue' = [venue EXCEPT ![v] = Withdrawn(v, @, h, a, dust)]

Poke(v) == venue' = [venue EXCEPT ![v] = Sampled(v, @)]

\* The market earns or loses, or is borrowed from and repaid.
Accrue(v, d) ==
    /\ venue[v].assets + d \in 0..MaxAssets /\ venue[v].price + d \in 1..MaxAssets
    /\ venue' = [venue EXCEPT ![v].assets = @ + d,
                              ![v].price = IF v \in Sampling THEN @ + d ELSE @]

Borrow(v, d) ==
    /\ venue[v].cash + d \in 0..MaxAssets
    /\ venue' = [venue EXCEPT ![v].cash = @ + d]
=============================================================================
