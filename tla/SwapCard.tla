------------------------------ MODULE SwapCard ------------------------------
(***************************************************************************)
(* The swap card of the chat.  It reads an amount and a plan, and a press  *)
(* sends the plan's transactions one after the other, each one mined       *)
(* before the next.  What was read is kept until the card is drawn anew or *)
(* the network comes back; drawn anew, a card has forgotten its press,     *)
(* which goes on all the same.  An amount of dollars is turned into units  *)
(* by a feed.                                                              *)
(*                                                                         *)
(* Aqua's positions, the aggregator, Uniswap and the wallet are outside.   *)
(***************************************************************************)
EXTENDS Integers, Sequences, FiniteSets, Sums

CONSTANTS
    Sizes,          \* what the sentence may amount to, in units
    Positions,      \* Aqua's, over the pair
    Books,          \* position -> its price and the three limits on what it can pay
    Slippage,       \* the floor is this much below the quote
    Purse,          \* what the wallet holds of each asset at first
    MaxShifts,      \* bound: moves of the feed and of the positions
    MaxTries,       \* bound: presses
    MaxRereads      \* bound: times the card reads again

Unlimited == 1000

ASSUME SwapCardAssumption ==
    /\ Sizes \subseteq 1..Unlimited - 1 /\ Slippage \in Nat /\ Purse \in Nat
    /\ Books \subseteq [Positions -> [rate : Nat, ledger : Nat, held : Nat, approved : Nat]]
    /\ MaxShifts \in Nat /\ MaxTries \in Nat /\ MaxRereads \in Nat

Reads == {"sized", "plan"}

VARIABLES
    sentence,       \* whether it names dollars, and whether it pays with ether
    units,          \* what the sentence amounts to now
    book, shifts,
    purse,          \* the wallet: ether, wrapped ether, the token paid with
    allowance,      \* spender -> what it may pull
    sized,          \* the units the card has read
    planning, plan, \* the plan being read, and the one shown
    due,            \* reads the card is to make
    tries, latest,  \* presses, and the one the card shows
    rereads

cardVars == <<sized, planning, plan, due, latest, rereads>>
outsideVars == <<sentence, units, book, shifts, purse, allowance>>
swapVars == <<cardVars, outsideVars, tries>>

NoAmount == -1
NoPlan == [amount |-> NoAmount, route |-> "none", position |-> 0, floor |-> 0, steps |-> <<>>,
           disturbed |-> FALSE]
IsPlan(p) == p.route # "none"

-----------------------------------------------------------------------------
(* A plan. *)

\* fillableCap: the maker's ledger, wallet and allowance all have to cover it.
Cap(q) == Min({book[q].ledger, book[q].held, book[q].approved})
Quote(q, amount) == amount * book[q].rate

LedgerAlone(amount, silent) ==  \* mutant: a ledger is taken for money
    {q \in Positions \ silent : Quote(q, amount) \in 1..book[q].ledger}
\* The positions that price and can pay what they price; a maker who could not be read cannot.
Payable(amount, silent) == {q \in Positions \ silent : Quote(q, amount) \in 1..Cap(q)}

\* The best of them: of equals, the one that comes first.
Best(amount, silent) ==
    {q \in Payable(amount, silent) :
        \A r \in Payable(amount, silent) : Quote(r, amount) =< Quote(q, amount)}

\* Ether is paid as it is, but to Aqua, which pulls.
Pulls(route) == route = "aqua" \/ ~sentence.ether
Paid(route) ==
    IF ~sentence.ether THEN "token" ELSE IF route = "aqua" THEN "wrapped" ELSE "ether"
Spender(route) == IF route = "uniswap" THEN "permit2" ELSE route

Needs(step, route, amount) ==
    CASE step = "wrap" -> Paid(route) = "wrapped"
      [] step = "approve-token" -> Pulls(route) /\ allowance[Spender(route)] < amount
      [] step = "approve-permit2" -> Pulls(route) /\ route = "uniswap" /\ allowance["router"] < amount
      [] step = "swap" -> TRUE

IfNeeded(step, route, amount) == IF Needs(step, route, amount) THEN <<step>> ELSE <<>>

StepsFor(route, amount) ==
    IfNeeded("wrap", route, amount) \o IfNeeded("approve-token", route, amount)
      \o IfNeeded("approve-permit2", route, amount) \o <<"swap">>

-----------------------------------------------------------------------------
(* What the card reads. *)

\* A read may fail, and then what was read before stays.
SizedArrives ==
    /\ "sized" \in due /\ due' = due \ {"sized"}
    /\ sized' \in {units, sized}
    /\ UNCHANGED <<outsideVars, planning, plan, tries, latest, rereads>>

\* Aqua first, then the aggregator, then Uniswap.  Each may fail to answer, so any may be the one.
PlanStarts == \E silent \in SUBSET Positions :
    /\ "plan" \in due /\ sized # NoAmount /\ ~IsPlan(planning)
    /\ due' = due \ {"plan"}
    /\ \/ \E q \in Best(sized, silent) :
             planning' = [NoPlan EXCEPT !.amount = sized, !.route = "aqua", !.position = q,
                                        !.floor = Quote(q, sized) - Slippage]
       \/ \E route \in {"oneinch", "uniswap"} :
             planning' = [NoPlan EXCEPT !.amount = sized, !.route = route]
    /\ UNCHANGED <<outsideVars, sized, plan, tries, latest, rereads>>

\* The allowances are read last.
PlanArrives ==
    /\ IsPlan(planning)
    /\ plan' = [planning EXCEPT !.steps = StepsFor(planning.route, planning.amount)]
    /\ planning' = NoPlan
    /\ UNCHANGED <<outsideVars, sized, due, tries, latest, rereads>>

PlanFails ==
    /\ IsPlan(planning)
    /\ plan' = NoPlan /\ planning' = NoPlan
    /\ UNCHANGED <<outsideVars, sized, due, tries, latest, rereads>>

\* Drawn anew, or back on the network, it reads again what has gone stale meanwhile.
ReadAgain == \E stale \in SUBSET Reads, drawnAnew \in BOOLEAN :
    /\ rereads < MaxRereads /\ rereads' = rereads + 1
    /\ due' = due \cup stale
    /\ latest' = IF drawnAnew THEN 0 ELSE latest
    /\ UNCHANGED <<outsideVars, sized, planning, plan, tries>>

-----------------------------------------------------------------------------
(* A press. *)

TryStage(i) == IF i = 0 THEN "none" ELSE tries[i].stage

\* A balance that could not be read stops nobody, so what the card knows of it is left out.
PressSwap ==
    /\ Len(tries) < MaxTries
    /\ sized # NoAmount /\ IsPlan(plan)
    /\ TryStage(latest) \notin {"running", "filled"}
    /\ tries' = Append(tries, [stage |-> "running", at |-> 1, plan |-> plan, shown |-> sized,
                               why |-> "none"])
    /\ latest' = Len(tries')
    /\ UNCHANGED <<outsideVars, sized, planning, plan, due, rereads>>

Running(i) == i \in DOMAIN tries /\ tries[i].stage = "running"
StepOf(i) == tries[i].plan.steps[tries[i].at]
Failed(try, why) == [try EXCEPT !.stage = "failed", !.why = why]
TryFails(i, why) == tries' = [tries EXCEPT ![i] = Failed(tries[i], why)]

\* What a plan was made from may no longer hold.
Disturbed(p, routes, above) ==
    [p EXCEPT !.disturbed = p.disturbed \/ (p.route \in routes /\ p.amount > above)]
Stirred(try, routes, above) ==
    IF try.stage = "running" THEN [try EXCEPT !.plan = Disturbed(try.plan, routes, above)] ELSE try
Disturbing(routes, above) ==
    plan' = Disturbed(plan, routes, above) /\ planning' = Disturbed(planning, routes, above)

Onward(try) ==
    IF try.plan.steps[try.at] = "swap" THEN [try EXCEPT !.stage = "filled"]
    ELSE [try EXCEPT !.at = try.at + 1]

\* The press goes on, and others may have been disturbed.
Advances(i, routes, above) ==
    /\ Disturbing(routes, above)
    /\ tries' = [j \in DOMAIN tries |->
                    IF j = i THEN Onward(tries[i]) ELSE Stirred(tries[j], routes, above)]

Wrap(i) ==
    LET amount == tries[i].plan.amount IN
    /\ Running(i) /\ StepOf(i) = "wrap" /\ purse.ether >= amount
    /\ purse' = [purse EXCEPT !.ether = @ - amount, !.wrapped = @ + amount]
    /\ Advances(i, {}, 0)
    /\ UNCHANGED <<sentence, units, book, shifts, allowance, sized, due, latest, rereads>>

\* An approval replaces the one before: for Aqua and the aggregator what is swapped, for Uniswap
\* all there is.
Approve(i) ==
    LET p == tries[i].plan
        to == IF StepOf(i) = "approve-permit2" THEN "router" ELSE Spender(p.route)
        much == IF p.route = "uniswap" THEN Unlimited ELSE p.amount
    IN /\ Running(i) /\ StepOf(i) \in {"approve-token", "approve-permit2"}
       /\ allowance' = [allowance EXCEPT ![to] = much]
       /\ Advances(i, {p.route}, much)
       /\ UNCHANGED <<sentence, units, book, shifts, purse, sized, due, latest, rereads>>

\* What the card could have foreseen of a swap that cannot land.
Obstacles(p) ==
    {w \in {"allowance", "funds", "maker"} :
        CASE w = "allowance" ->
                /\ Pulls(p.route)
                /\ \/ allowance[Spender(p.route)] < p.amount
                   \/ p.route = "uniswap" /\ allowance["router"] < p.amount
          [] w = "funds" -> purse[Paid(p.route)] < p.amount
          [] w = "maker" -> /\ p.route = "aqua"
                            /\ Quote(p.position, p.amount) \notin p.floor..Cap(p.position)}

AllowanceLeft(route, amount) ==
    IF ~Pulls(route) \/ allowance[Spender(route)] = Unlimited THEN allowance
    ELSE [allowance EXCEPT ![Spender(route)] = @ - amount]

Less(q, out) ==
    [q EXCEPT !.ledger = q.ledger - out, !.held = q.held - out, !.approved = q.approved - out]
PaidOut(p) ==
    IF p.route # "aqua" THEN book
    ELSE [book EXCEPT ![p.position] = Less(book[p.position], Quote(p.position, p.amount))]

Fill(i) ==
    LET p == tries[i].plan IN
    /\ Running(i) /\ StepOf(i) = "swap" /\ Obstacles(p) = {}
    /\ purse' = [purse EXCEPT ![Paid(p.route)] = @ - p.amount]
    /\ allowance' = AllowanceLeft(p.route, p.amount)
    /\ book' = PaidOut(p)
    /\ Advances(i, {p.route}, 0)
    /\ UNCHANGED <<sentence, units, shifts, sized, due, latest, rereads>>

\* A swap reverts, of what could be foreseen, of its price or of its deadline, or a wrap for want
\* of ether; the steps before it are done.
StepReverts(i) ==
    /\ Running(i)
    /\ \/ StepOf(i) = "swap" /\ \E why \in Obstacles(tries[i].plan) : TryFails(i, why)
       \/ StepOf(i) = "swap" /\ tries[i].plan.route # "aqua" /\ TryFails(i, "other")
       \/ StepOf(i) = "swap" /\ tries[i].plan.route # "oneinch" /\ TryFails(i, "other")
       \/ StepOf(i) = "wrap" /\ purse.ether < tries[i].plan.amount /\ TryFails(i, "other")
    /\ UNCHANGED <<outsideVars, cardVars>>

Declines(i) ==
    /\ Running(i) /\ TryFails(i, "other")
    /\ UNCHANGED <<outsideVars, cardVars>>

-----------------------------------------------------------------------------
(* The world. *)

FeedMoves ==
    /\ shifts < MaxShifts /\ shifts' = shifts + 1
    /\ sentence.dollars /\ units' \in Sizes \ {units}
    /\ UNCHANGED <<sentence, book, purse, allowance, cardVars, tries>>

\* Makers trade, spend, approve and dock.
PositionsMove ==
    /\ shifts < MaxShifts /\ shifts' = shifts + 1
    /\ book' \in Books \ {book}
    /\ Disturbing({"aqua", "oneinch", "uniswap"}, 0)
    /\ tries' = [i \in DOMAIN tries |-> Stirred(tries[i], {"aqua", "oneinch", "uniswap"}, 0)]
    /\ UNCHANGED <<sentence, units, purse, allowance, sized, due, latest, rereads>>

SwapInit ==
    /\ sentence \in [dollars : BOOLEAN, ether : BOOLEAN]
    /\ units \in Sizes /\ book \in Books /\ shifts = 0
    /\ purse = [a \in {"ether", "wrapped", "token"} |-> Purse]
    /\ allowance = [s \in {"aqua", "oneinch", "permit2", "router"} |-> IF s = "aqua" THEN 1 ELSE 0]
    /\ sized = NoAmount /\ planning = NoPlan /\ plan = NoPlan
    /\ due = Reads /\ tries = <<>> /\ latest = 0 /\ rereads = 0

SwapNext ==
    \/ SizedArrives \/ PlanStarts \/ PlanArrives \/ PlanFails \/ ReadAgain
    \/ PressSwap
    \/ \E i \in DOMAIN tries : Wrap(i) \/ Approve(i) \/ Fill(i) \/ StepReverts(i) \/ Declines(i)
    \/ FeedMoves \/ PositionsMove

SwapSpec == SwapInit /\ [][SwapNext]_swapVars

SwapTypeOK ==
    /\ units \in Sizes /\ sized \in Sizes \cup {NoAmount}
    /\ purse \in [{"ether", "wrapped", "token"} -> Nat]
    /\ \A s \in DOMAIN allowance : allowance[s] \in Nat
    /\ due \subseteq Reads /\ latest \in 0..Len(tries)
    /\ \A i \in DOMAIN tries : tries[i].at \in 1..Len(tries[i].plan.steps)

\* A swap that was planned lands, its deadline and the wallet's money allowing, unless another
\* press of the same route filled or approved less in between, or a maker moved: the approval
\* it needs is among its steps, what it swaps on Aqua it wrapped itself, and no position is
\* offered that could not pay.
PlannedSwapsLand == \A i \in DOMAIN tries :
    /\ tries[i].why \in {"allowance", "maker"} => tries[i].plan.disturbed
    /\ tries[i].why = "funds" => Paid(tries[i].plan.route) # "wrapped"

\* Wrapped ether the wallet held before stays as it was, and what is there beyond it was left by
\* presses that wrapped and have not filled, each its whole amount.
WrapsAreAccountedFor ==
    purse.wrapped = Purse + SumOf([i \in DOMAIN tries |-> tries[i].plan.amount],
        {i \in DOMAIN tries : /\ tries[i].stage # "filled" /\ tries[i].at > 1
                              /\ tries[i].plan.steps[1] = "wrap"})

\* What a press swaps is what the card showed when it was pressed, unless dollars were read again:
\* the plan is kept under the sentence, not under the amount it was made for.
SignedIsShown == \A i \in DOMAIN tries :
    tries[i].plan.amount # tries[i].shown => sentence.dollars /\ rereads > 0

\* A press does what the card said.
SwapsAreAsPlanned == PlannedSwapsLand /\ WrapsAreAccountedFor /\ SignedIsShown
=============================================================================
