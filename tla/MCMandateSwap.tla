--------------------------- MODULE MCMandateSwap ---------------------------
(* A maker with two mandates over the same pair and the same markets: one whose receipts are *)
(* shares, for one token, and one whose receipts rebase, for the other.                      *)
EXTENDS MandateSwap, TLC

CONSTANTS m1, m2, usdc, weth, aave, comet, taker, other

MCMandates == {m1, m2}
MCTokens == {usdc, weth}
MCVenuesOf == [m \in Mandates |-> <<aave, comet>>]
MCFee == [m \in Mandates |-> 0]
MCMaxOut == [m \in Mandates |-> [t \in Tokens |-> 3]]
MCExpiry == [m \in Mandates |-> IF m = m1 THEN 1 ELSE 2]
\* The first mandate is open to anyone, the second to its agent alone.
MCAgent == (m1 :> Anyone) @@ (m2 :> taker)

Lists(v, t) == (v = comet) = (t = usdc)

\* Both mandates promise what the maker has once: part of it idle, part at work.
MCStarts ==
    {[ledger |-> [m \in Mandates |-> [t \in Tokens |-> 3]],
      budget |-> [m \in Mandates |-> [v \in Venues |-> [t \in Tokens |-> 2]]],
      wallet |-> [t \in Tokens |-> 0],
      shares |-> [v \in Venues |-> [t \in Tokens |-> IF Lists(v, t) THEN s ELSE 0]],
      liquidity |-> [v \in Venues |-> [t \in Tokens |-> IF Lists(v, t) THEN 3 ELSE 0]],
      price |-> [v \in SharePriced |-> [t \in Tokens |-> 3]]] : s \in {1, 3}}
=============================================================================
