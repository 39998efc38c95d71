--------------------------- MODULE MCOracleBoard ---------------------------
(* One board, a MorphoVenue and a CompoundVenue behind it. *)
EXTENDS OracleBoard, TLC

CONSTANTS maker, taker, morpho, compound

MCMoves == {-1, 1}
MCVenueList == <<morpho, compound>>
MCAssetOf == [v \in Venues |-> "quote"]
MCPush == [s \in Sides |-> IF s = "base" THEN {1} ELSE BuyAmounts]

MCMaxGifts == [s \in Sides |-> IF s = "base" THEN 2 ELSE 10]

Position(mine, theirs, worth, liquid) ==
    [shares |-> (maker :> mine) @@ (taker :> theirs), supply |-> mine + theirs,
     assets |-> worth, cash |-> liquid, price |-> 2, sampledPrice |-> 2, sampledAt |-> 0,
     rate |-> 0]

\* Quote alone on the board, most of it at work; the first market liquid, or lent out.
MCStarts ==
    {[ledger |-> [s \in Sides |-> IF s = "quote" THEN 18 ELSE 0],
      wallet |-> [s \in Sides |-> IF s = "quote" THEN 5 ELSE 0],
      budget |-> [v \in Venues |-> 6],
      venue |-> [v \in Venues |-> IF v = morpho THEN Position(4, 2, 9, c) ELSE Position(5, 0, 5, 5)]] :
        c \in {3, 9}}

\* The board of ForkOracleBoard.t.sol: a spread of 30, a bend of 200, a cap of four, and
\* the whole of the quote in the wallet.
TestStarts ==
    {[s EXCEPT !.ledger["quote"] = 5000, !.wallet["quote"] = 5000] : s \in MCStarts}
TestGifts == [s \in Sides |-> IF s = "base" THEN 2 ELSE 1986]
=============================================================================
