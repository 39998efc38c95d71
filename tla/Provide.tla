------------------------------- MODULE Provide -------------------------------
(***************************************************************************)
(* The two cards that make the owner a maker.  One ships from the account, *)
(* all in one transaction, and may be covered out of the account's lending *)
(* position; the other from the wallet, two approvals and then the ship.   *)
(* What a mandate may spend is a number in Aqua's ledger; what Aqua may    *)
(* pull is an allowance of the token, which all of a maker's mandates      *)
(* share, which an approval replaces and a pull uses up.                   *)
(*                                                                         *)
(* Aqua, the takers and the agent are outside.  Both sides of a pair are   *)
(* counted in dollars, and a fill is priced on the constant product, of    *)
(* either card's mandate and before its fee.                               *)
(***************************************************************************)
EXTENDS Integers, Sequences

CONSTANTS
    Origins,        \* of {"account", "wallet"}: which card
    Ceilings,       \* what the owner types
    Payments,       \* what a taker pays
    Capital,        \* what the maker holds of each side at first
    MaxShips,       \* bound: presses
    MaxTakes,       \* bound: fills and spendings
    MaxAgentMoves   \* bound: supplies and withdrawals

ASSUME ProvideAssumption ==
    /\ Origins \subseteq {"account", "wallet"}
    /\ Ceilings \subseteq Nat \ {0} /\ Payments \subseteq Nat \ {0} /\ Capital \in Nat
    /\ MaxShips \in Nat /\ MaxTakes \in Nat /\ MaxAgentMoves \in Nat

Sides == {"usdc", "weth"}
Kinds == {"token", "receipt"}
Across(s) == IF s = "usdc" THEN "weth" ELSE "usdc"
Both(x) == [s \in Sides |-> x]

VARIABLES
    origin,
    capital,        \* "token" -> side -> idle, "receipt" -> side -> at the market
    granted,        \* kind -> side -> Aqua's allowance
    offers,         \* the mandates shipped, oldest first
    seen,           \* what the card has read, and when
    ship,           \* the press under way
    ships, takes, agentMoves,
    hollow          \* mandates shipped beyond what was there (ghost)

provideVars == <<origin, capital, granted, offers, seen, ship, ships, takes, agentMoves, hollow>>

Unseen == -1
NoShip == [stage |-> "none", amounts |-> Both(0), named |-> FALSE, approved |-> {}, touched |-> {},
           idleAt |-> 0, marketAt |-> 0, takesAt |-> 0]

-----------------------------------------------------------------------------
(* What is read. *)

\* The balances; a first read that fails counts as nothing held.
ReadIdle == \E idle \in {capital["token"], IF seen.idleAt = Unseen THEN Both(0) ELSE capital["token"]} :
    /\ seen' = [seen EXCEPT !.idle = idle, !.idleAt = agentMoves, !.takesAt = takes]
    /\ UNCHANGED <<origin, capital, granted, offers, ship, ships, takes, agentMoves, hollow>>

\* readVenues: a market whose receipt did not answer is not among the positions.
ReadMarkets == \E named \in BOOLEAN :
    /\ origin = "account"
    /\ seen' = [seen EXCEPT !.named = named, !.marketAt = agentMoves, !.marketTakesAt = takes,
                            !.working = IF named THEN capital["receipt"]["usdc"] ELSE 0]
    /\ UNCHANGED <<origin, capital, granted, offers, ship, ships, takes, agentMoves, hollow>>

\* From the account the ceiling counts what is earning, and ether is whatever lies idle.
AmountsFor(typed) ==
    [s \in Sides |-> IF s = "usdc" \/ origin = "wallet" THEN typed ELSE seen.idle["weth"]]
Short(typed) ==
    IF origin = "account" THEN typed > seen.idle["usdc"] + seen.working
    ELSE \E s \in Sides : typed > seen.idle[s]

Earlier(a, b) == IF a < b THEN a ELSE b

PressShip(typed) ==
    /\ ships < MaxShips /\ ships' = ships + 1
    /\ ship.stage = "none"
    /\ seen.idleAt # Unseen /\ (origin = "account" => seen.marketAt # Unseen)
    /\ ~Short(typed)
    /\ ship' = [NoShip EXCEPT !.stage = "pressed", !.amounts = AmountsFor(typed),
                    !.named = seen.named, !.idleAt = seen.idleAt, !.marketAt = seen.marketAt,
                    !.takesAt = IF origin = "account" THEN Earlier(seen.takesAt, seen.marketTakesAt)
                                ELSE seen.takesAt]
    /\ UNCHANGED <<origin, capital, granted, offers, seen, takes, agentMoves, hollow>>

-----------------------------------------------------------------------------
(* What is sent. *)

PairOnly(named) == {"token"}  \* mutant: the receipts are shipped and not approved
Approvable(named) == IF named THEN Kinds ELSE {"token"}

\* An allowance is set, not added to, whatever other mandates were counting on.
Approvals(sides) ==
    granted' = [k \in Kinds |-> [s \in Sides |->
        IF s \in sides /\ k \in Approvable(ship.named) THEN ship.amounts[s] ELSE granted[k][s]]]

Touched(list, sides) ==
    [i \in DOMAIN list |-> [list[i] EXCEPT !.touched = @ \cup sides]]

Budget(k) == IF k = "token" \/ ship.named THEN ship.amounts ELSE Both(0)

\* What the maker could pay one mandate's taker of a side.
Reach(s, named) == capital["token"][s] + IF named THEN capital["receipt"][s] ELSE 0

\* Aqua's ship: a number for every token named.
Shipped(touched) ==
    /\ offers' = Append(Touched(offers, Sides \ ship.approved),
           [ledger |-> [k \in Kinds |-> Budget(k)], most |-> ship.amounts, named |-> ship.named,
            live |-> TRUE, touched |-> touched])
    /\ hollow' = IF \E s \in Sides : ship.amounts[s] > Reach(s, ship.named)
                 THEN hollow \cup {[torn |-> origin = "account" /\ ship.idleAt # ship.marketAt,
                                    drained |-> takes > ship.takesAt,
                                    moved |-> ~ship.named /\ agentMoves > ship.idleAt]}
                 ELSE hollow
    /\ ship' = NoShip

\* executeBatch by the account: mandateSetupCalls, all or nothing.
BatchLands ==
    /\ origin = "account" /\ ship.stage = "pressed"
    /\ Approvals(Sides) /\ Shipped({})
    /\ UNCHANGED <<origin, capital, seen, ships, takes, agentMoves>>

\* From the wallet, dollars first, each approval mined before the next is asked for; nobody looks
\* whether it went through.
ApproveSide(s) ==
    /\ origin = "wallet" /\ ship.stage = "pressed"
    /\ s \notin ship.approved /\ (s = "weth" => "usdc" \in ship.approved)
    /\ \/ /\ Approvals({s}) /\ offers' = Touched(offers, {s})
          /\ ship' = [ship EXCEPT !.approved = @ \cup {s}]
       \/ /\ ship' = [ship EXCEPT !.approved = @ \cup {s}, !.touched = @ \cup {s}]
          /\ UNCHANGED <<granted, offers>>
    /\ UNCHANGED <<origin, capital, seen, ships, takes, agentMoves, hollow>>

ShipLands ==
    /\ origin = "wallet" /\ ship.stage = "pressed" /\ ship.approved = Sides
    /\ Shipped(ship.touched)
    /\ UNCHANGED <<origin, capital, granted, seen, ships, takes, agentMoves>>

\* Another hash, a person who declines or a ship that reverts; approvals already made stay.
GivesUp ==
    /\ ship.stage = "pressed" /\ ship' = NoShip
    /\ UNCHANGED <<origin, capital, granted, offers, seen, ships, takes, agentMoves, hollow>>

-----------------------------------------------------------------------------
(* What takers, the maker and its agent do. *)

\* The curve, on what the ledger says.
Curve(o, s, paid) ==
    (paid * o.ledger["token"][s]) \div (o.ledger["token"][Across(s)] + paid)
Deficit(s, out) == IF out > capital["token"][s] THEN out - capital["token"][s] ELSE 0

\* _cover's three conditions, which the quote asks about as well.
Coverable(o, s, deficit) ==
    /\ o.ledger["receipt"][s] >= deficit /\ capital["receipt"][s] >= deficit

\* quoteExactIn, or SwapVM's, which has no ceiling: neither asks for an allowance.
Quotes(o, s, paid) ==
    LET out == Curve(o, s, paid) IN
    /\ o.live /\ \A t \in Sides : o.ledger["token"][t] > 0
    /\ origin = "account" => out =< o.most[s]
    /\ o.named => Coverable(o, s, Deficit(s, out))

\* Aqua's pulls, of the token and of what covers it.
Pullable(o, s, out) ==
    /\ granted["token"][s] >= out
    /\ o.named => granted["receipt"][s] >= Deficit(s, out)

Take(i, s, paid) ==
    LET o == offers[i]
        out == Curve(o, s, paid)
        deficit == Deficit(s, out)
        left == [o.ledger EXCEPT !["token"][s] = @ - out, !["receipt"][s] = @ - deficit,
                                 !["token"][Across(s)] = @ + paid]
    IN
    /\ takes < MaxTakes /\ takes' = takes + 1
    /\ Quotes(o, s, paid) /\ Pullable(o, s, out) /\ Coverable(o, s, deficit)
    /\ capital' = [capital EXCEPT !["token"][s] = @ + deficit - out, !["receipt"][s] = @ - deficit,
                                  !["token"][Across(s)] = @ + paid]
    /\ granted' = [granted EXCEPT !["token"][s] = @ - out, !["receipt"][s] = @ - deficit]
    /\ offers' = [j \in DOMAIN offers |->
           IF j = i
           THEN [o EXCEPT !.ledger = left, !.touched = @ \cup {Across(s)}]
           ELSE [offers[j] EXCEPT !.touched = @ \cup {s}]]
    /\ ship' = [ship EXCEPT !.touched = @ \cup (ship.approved \cap {s})]
    /\ UNCHANGED <<origin, seen, ships, agentMoves, hollow>>

DockOffer(i) ==
    /\ offers[i].live
    /\ offers' = [offers EXCEPT ![i].live = FALSE, ![i].ledger = [k \in Kinds |-> Both(0)]]
    /\ UNCHANGED <<origin, capital, granted, seen, ship, ships, takes, agentMoves, hollow>>

\* The owner pays something out, or moves it home.
SpendIdle(s) ==
    /\ takes < MaxTakes /\ takes' = takes + 1
    /\ capital["token"][s] > 0 /\ capital' = [capital EXCEPT !["token"][s] = @ - 1]
    /\ UNCHANGED <<origin, granted, offers, seen, ship, ships, agentMoves, hollow>>

AgentMoves(from, to, s) == \E x \in 1..capital[from][s] :
    /\ origin = "account" /\ from # to
    /\ agentMoves < MaxAgentMoves /\ agentMoves' = agentMoves + 1
    /\ capital' = [capital EXCEPT ![from][s] = @ - x, ![to][s] = @ + x]
    /\ UNCHANGED <<origin, granted, offers, seen, ship, ships, takes, hollow>>

ProvideInit ==
    /\ origin \in Origins
    /\ capital = [k \in Kinds |-> IF k = "token" THEN Both(Capital) ELSE Both(0)]
    /\ granted = [k \in Kinds |-> Both(0)] /\ offers = <<>> /\ ship = NoShip
    /\ seen = [idle |-> Both(0), working |-> 0, named |-> FALSE, idleAt |-> Unseen,
               marketAt |-> Unseen, takesAt |-> 0, marketTakesAt |-> 0]
    /\ ships = 0 /\ takes = 0 /\ agentMoves = 0 /\ hollow = {}

ProvideNext ==
    \/ ReadIdle \/ ReadMarkets
    \/ \E typed \in Ceilings : PressShip(typed)
    \/ BatchLands \/ ShipLands \/ GivesUp
    \/ \E s \in Sides : ApproveSide(s) \/ SpendIdle(s) \/ \E from, to \in Kinds : AgentMoves(from, to, s)
    \/ \E i \in DOMAIN offers :
          DockOffer(i) \/ \E s \in Sides, paid \in Payments : Take(i, s, paid)

ProvideSpec == ProvideInit /\ [][ProvideNext]_provideVars

ProvideTypeOK ==
    /\ capital \in [Kinds -> [Sides -> Nat]] /\ granted \in [Kinds -> [Sides -> Nat]]
    /\ ship.approved \subseteq Sides /\ ships \in 0..MaxShips
    /\ \A i \in DOMAIN offers :
          offers[i].ledger \in [Kinds -> [Sides -> Nat]] /\ offers[i].touched \subseteq Sides

\* What a live mandate quotes, Aqua may pull, unless the maker approved that side again, another
\* of its mandates was filled on it, the mandate itself was paid in it, or its approval reverted:
\* what was approved is what was shipped, receipts as well.
QuotedIsPullable == \A i \in DOMAIN offers : \A s \in Sides \ offers[i].touched :
    \A paid \in Payments :
        Quotes(offers[i], s, paid) => Pullable(offers[i], s, Curve(offers[i], s, paid))

\* A mandate promises more than its maker can pay only if something was paid out after the reads
\* or the agent moved between the two of them, or to a market the mandate does not name.
ShipsWithinReach == \A h \in hollow : h.torn \/ h.drained \/ h.moved

\* What the cards say of a ship.
ShipsKeepTheirWord == QuotedIsPullable /\ ShipsWithinReach
=============================================================================
