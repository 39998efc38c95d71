--------------------------- MODULE IdleWorkflow ----------------------------
(***************************************************************************)
(* The workflow that keeps idle capital at work, from the cron that wakes  *)
(* it to the account that moves the money.                                 *)
(*                                                                         *)
(* A run reads every managed account over RPC, decides one move and hands  *)
(* it to the DON as a report; the forwarder carries the report to          *)
(* HelicoAgent, which asks the account to make the move.  Nothing is held  *)
(* still while this happens.  An account is read in two batches, a report  *)
(* whose call fails may be retransmitted until its deadline, when the next *)
(* run may have begun, and owners and markets do as they like in between.  *)
(*                                                                         *)
(* An account, an asset or a market is known by its place in the config,   *)
(* which is also the order every tie is settled in.  What the account does *)
(* inside one transaction is HelicoAccount's subject; here a move either   *)
(* lands whole or not at all.                                              *)
(***************************************************************************)
EXTENDS Integers, FiniteSets, Sums

CONSTANTS
    NumAccounts, NumAssets, NumPools,
    Lists,              \* asset -> markets the config reads for it
    TargetWorkingBps, MinIdleAmount, MinMoveAmount, MinMoveBps,
    MinSupplyRate, MaxMoveAmount,      \* the policy, released to the enclave
    BPS, RAY,           \* scales of basis points and of a rate
    DeadlineTicks,      \* deadlineSeconds, in periods of the cron
    RunTicks,           \* a run lasts no longer than this, in periods of the cron
    Rates,              \* rates a market may pay
    Levels,             \* what a balance, a market's cash or a demand may change to
    MaxTotal,           \* bound: a position, where interest and others stop adding
    Changes,            \* what the world around the workflow may do
    MaxChanges,         \* bound: how often it does
    Starts              \* the balances, markets and permissions a behaviour may begin with

Accounts == 1..NumAccounts
Assets == 1..NumAssets
Pools == 1..NumPools

ASSUME ConfigAssumption ==
    /\ NumAccounts \in Nat \ {0} /\ NumAssets \in Nat \ {0} /\ NumPools \in Nat
    /\ Lists \in [Assets -> SUBSET Pools]
ASSUME PolicyAssumption ==
    /\ BPS \in Nat \ {0} /\ RAY \in Nat \ {0}
    /\ TargetWorkingBps \in 0..BPS /\ MinMoveBps \in 0..BPS
    /\ MinIdleAmount \in Nat /\ MinMoveAmount \in Nat /\ MinSupplyRate \in Nat
    /\ MaxMoveAmount \in Nat \ {0}
    /\ DeadlineTicks \in Nat \ {0} /\ RunTicks \in Nat
ASSUME WorldAssumption ==
    /\ Rates \subseteq Nat /\ Levels \subseteq Nat /\ MaxTotal \in Nat /\ MaxChanges \in Nat
    /\ Starts \subseteq [idle : [Accounts -> [Assets -> Nat]],
                       supplied : [Accounts -> [Assets -> [Pools -> Nat]]],
                       cash : [Assets -> [Pools -> Nat]],
                       rate : [Assets -> [Pools -> Nat]],
                       permitted : [Accounts -> SUBSET Pools],
                       named : [Accounts -> SUBSET Pools]]
    /\ \A start \in Starts : \A k \in Accounts : start.permitted[k] \subseteq start.named[k]

VARIABLES
    idle,               \* what each account holds of each asset
    supplied,           \* its position at each market, in units of the asset
    cash,               \* what each market can pay out of each asset
    rate,               \* what each market pays on each asset
    nominated,          \* accounts that name HelicoAgent as their agent
    permittedVenue,     \* markets each account's owner allows
    venueEverPermitted, \* markets each account's owner has ever named
    demand,             \* what an account's live mandates could call for
    indexed,            \* the subgraph answers
    expired,            \* the policy is past its expiry
    run,                \* the run under way
    due,                \* the schedule has come round
    reports,            \* reports the forwarder may still carry
    changes             \* how often the world has changed

accounts == <<idle, supplied, nominated, permittedVenue, venueEverPermitted>>
markets == <<cash, rate>>
vars == <<accounts, markets, demand, indexed, expired, run, due, reports, changes>>

Least(a, b) == IF a < b THEN a ELSE b
Most(a, b) == IF a > b THEN a ELSE b

-----------------------------------------------------------------------------
(* Which markets a run may use.  A side is one asset of one account, as read. *)

Usable(side) == Lists[side.asset] \cap side.permitted

Available(side, p) == Least(side.supplied[p], side.liquidity[p])

\* A market that is not permitted and can hand something back.
NotACandidate(side) == {p \in Usable(side) : FALSE}  \* mutant: skipped like any other
Evacuate(side) == {p \in Lists[side.asset] \ side.permitted : Available(side, p) > 0}

CheapestPaying(side, S) ==  \* mutant: the order is reversed
    CHOOSE p \in S : \A q \in S : side.rate[p] <= side.rate[q]
BestPaying(side, S) ==
    CHOOSE p \in S : \A q \in S : side.rate[p] > side.rate[q]
                                    \/ (side.rate[p] = side.rate[q] /\ p <= q)

\* The markets that can hand back at least `atLeast`.
Funded(side, atLeast) ==
    {p \in Usable(side) : Available(side, p) > 0 /\ Available(side, p) >= atLeast}

WorstFunded(side, S) ==
    CHOOSE p \in S : \A q \in S : side.rate[p] < side.rate[q]
                                    \/ (side.rate[p] = side.rate[q] /\ p <= q)

-----------------------------------------------------------------------------
(* The decision for one asset. *)

\* withMandateBuffer: the demand raises the owner's floor and never lowers it.
DemandOnly(known, amount) == IF known THEN amount ELSE MinIdleAmount  \* mutant: replaces it
MandateBuffer(known, amount) == IF known THEN Most(MinIdleAmount, amount) ELSE MinIdleAmount

\* The working side is what stands at every usable market, unit by unit.
Working(side) == UNION {{p} \X (1..side.supplied[p]) : p \in Usable(side)}
Total(side) == side.idle + Cardinality(Working(side))

WantIdle(side, floor) ==
    Least(Total(side), Most(floor, Total(side) - (Total(side) * TargetWorkingBps) \div BPS))

Deadband(side) == Most(MinMoveAmount, (Total(side) * MinMoveBps) \div BPS)

RoundTripDeadband(side) == 2 * Deadband(side)
RateGapFloor == (RAY * MinMoveBps) \div BPS

Verdict(supply, pool, amount, bar) ==
    [supply |-> supply, pool |-> pool, amount |-> amount, deadband |-> bar]

\* A decision is the set of the one verdict it reached, empty to hold.
SupplyIdleSide(side, floor) ==
    LET best == BestPaying(side, Usable(side)) IN
    IF side.rate[best] < MinSupplyRate THEN {}
    ELSE {Verdict(TRUE, best, side.idle - WantIdle(side, floor), Deadband(side))}

RaiseIdleSide(side, floor) ==
    LET sources == Funded(side, Deadband(side))
        source == WorstFunded(side, sources) IN
    IF sources = {} THEN {}
    ELSE {Verdict(FALSE, source,
                  Least(WantIdle(side, floor) - side.idle, side.supplied[source]), Deadband(side))}

MigrateOnSize(side) ==  \* mutant: the rate half of the bar is left out
    LET best == BestPaying(side, Usable(side))
        sources == Funded(side, RoundTripDeadband(side))
        source == WorstFunded(side, sources) IN
    IF sources = {} \/ source = best THEN {}
    ELSE {Verdict(FALSE, source, side.supplied[source], RoundTripDeadband(side))}
MigrateOut(side) ==
    LET best == BestPaying(side, Usable(side))
        sources == Funded(side, RoundTripDeadband(side))
        source == WorstFunded(side, sources)
        gap == side.rate[best] - side.rate[source] IN
    IF \/ side.rate[best] < MinSupplyRate
       \/ sources = {} \/ source = best
       \/ gap = 0 \/ gap < RateGapFloor
    THEN {}
    ELSE {Verdict(FALSE, source, side.supplied[source], RoundTripDeadband(side))}

DecideIdleMove(side, floor, isExpired) ==
    LET delta == side.idle - WantIdle(side, floor) IN
    IF isExpired \/ Usable(side) = {} \/ Total(side) = 0 THEN {}
    ELSE IF delta > 0 /\ delta >= Deadband(side) THEN SupplyIdleSide(side, floor)
    ELSE IF delta <= 0 /\ -delta >= Deadband(side) THEN RaiseIdleSide(side, floor)
    ELSE MigrateOut(side)

\* sizeIdleMove: the market's liquidity, then the ceiling on one move.
Sized(side, v) ==
    Least(MaxMoveAmount, IF v.supply THEN v.amount ELSE Least(v.amount, side.liquidity[v.pool]))

\* The deadband is asked again of the amount that is left.
WorthSending(side, v) == Sized(side, v) # 0 /\ Sized(side, v) >= v.deadband

Move(side, pool, amount, supply, leaving) ==
    [account |-> side.account, asset |-> side.asset, pool |-> pool, amount |-> amount,
     supply |-> supply, leaving |-> leaving]

DecideForAsset(side, floor, isExpired) ==
    IF Evacuate(side) # {}
    THEN LET p == CHOOSE p \in Evacuate(side) : \A q \in Evacuate(side) : p <= q
         IN {Move(side, p, Available(side, p), FALSE, TRUE)}
    ELSE {Move(side, v.pool, Sized(side, v), v.supply, FALSE) :
             v \in {w \in DecideIdleMove(side, floor, isExpired) : WorthSending(side, w)}}

-----------------------------------------------------------------------------
(* Which of several moves a run makes. *)

\* What the best market pays over the worst the account sits in, permitted or not.
RateGap(side) ==
    LET listed == Lists[side.asset]
        best == BestPaying(side, listed)
        held == {p \in listed : side.supplied[p] > 0}
    IN IF held = {} THEN 0 ELSE side.rate[best] - side.rate[WorstFunded(side, held)]

DecideAcrossAssets(sides, floors, isExpired) ==
    LET outcome == [a \in Assets |-> DecideForAsset(sides[a], floors[a], isExpired)]
        acting == {a \in Assets : outcome[a] # {}}
        first == CHOOSE a \in acting : \A b \in acting :
                    RateGap(sides[a]) > RateGap(sides[b])
                      \/ (RateGap(sides[a]) = RateGap(sides[b]) /\ a <= b)
    IN IF acting = {} THEN {} ELSE outcome[first]

\* One step of largestMove: a later account has to ask for more.
LargestMove(best, move) ==
    IF best = {} THEN move
    ELSE IF \E b \in best, m \in move : m.amount > b.amount THEN move ELSE best

-----------------------------------------------------------------------------
(* A run. *)

NoRun == [next |-> 0, read |-> {}, best |-> {}, age |-> 0, expired |-> FALSE, fresh |-> TRUE]

\* A run is over when writeReport has answered it.
Awaited == {r \in reports : r.awaited}
Resting == run = NoRun /\ Awaited = {}

\* The clock and the policy are taken once, before anything is read.
StartRun ==
    /\ due
    /\ Resting
    /\ run' = [NoRun EXCEPT !.next = 1, !.expired = expired]
    /\ due' = FALSE
    /\ UNCHANGED <<accounts, markets, demand, indexed, expired, reports, changes>>

MarketsAsSeenBy(k) ==
    [agent |-> k \in nominated, idle |-> idle[k], permitted |-> permittedVenue[k],
     liquidity |-> cash, rate |-> rate]

\* The first batch: everything but the receipts' own balances.
ReadMarkets ==
    LET k == run.next IN
    /\ k \in Accounts
    /\ run.read = {}
    /\ run' = [run EXCEPT !.read = {MarketsAsSeenBy(k)}]
    /\ UNCHANGED <<accounts, markets, demand, indexed, expired, due, reports, changes>>

SideOf(k, read, a, positions) ==
    [account |-> k, asset |-> a, idle |-> read.idle[a], permitted |-> read.permitted,
     supplied |-> positions[a], liquidity |-> read.liquidity[a], rate |-> read.rate[a]]

\* The second batch, the mandates' demand, and the verdict on this account.
JudgeAccount ==
    LET k == run.next IN
    \E read \in run.read :
        LET sides == [a \in Assets |-> SideOf(k, read, a, supplied[k])]
            floors == [a \in Assets |-> MandateBuffer(indexed, demand[k][a])]
            move == IF read.agent THEN DecideAcrossAssets(sides, floors, run.expired) ELSE {}
        IN /\ run' = [run EXCEPT !.next = k + 1, !.read = {}, !.best = LargestMove(@, move)]
           /\ UNCHANGED <<accounts, markets, demand, indexed, expired, due, reports, changes>>

Report(move, age, fresh) == [move |-> move, age |-> age, fresh |-> fresh, awaited |-> TRUE]

\* At most one report leaves.
FinishRun ==
    /\ run.next = NumAccounts + 1
    /\ reports' = reports \cup {Report(m, run.age, run.fresh) : m \in run.best}
    /\ run' = NoRun
    /\ UNCHANGED <<accounts, markets, demand, indexed, expired, due, changes>>

-----------------------------------------------------------------------------
(* A report on chain. *)

\* What a run or a report was decided on is no longer what is there.
Stale(r) == [r EXCEPT !.fresh = FALSE]
Disturb(rest) ==
    /\ run' = IF run = NoRun THEN run ELSE Stale(run)
    /\ reports' = {Stale(r) : r \in rest}

\* What supplyIdle and the market ask of a move.
TakesSupply(m) == m.pool \in permittedVenue[m.account] /\ m.amount <= idle[m.account][m.asset]
\* What withdrawIdle and the market ask of a move.
GivesAnything(m) == m.pool \in venueEverPermitted[m.account]  \* mutant: any amount
GivesBack(m) ==
    /\ m.pool \in venueEverPermitted[m.account]
    /\ m.amount <= supplied[m.account][m.asset][m.pool]
    /\ m.amount <= cash[m.asset][m.pool]

Accepts(m) ==
    /\ m.account \in nominated
    /\ IF m.supply THEN TakesSupply(m) ELSE GivesBack(m)

Moved(m, sign) ==
    /\ idle' = [idle EXCEPT ![m.account][m.asset] = @ - sign * m.amount]
    /\ supplied' = [supplied EXCEPT ![m.account][m.asset][m.pool] = @ + sign * m.amount]
    /\ cash' = [cash EXCEPT ![m.asset][m.pool] = @ + sign * m.amount]

\* onReport.  A call that reverts changes nothing and may be made again; one
\* that succeeds is never made twice.
OnReport(r) ==
    /\ r.age <= DeadlineTicks
    /\ Accepts(r.move)
    /\ Moved(r.move, IF r.move.supply THEN 1 ELSE -1)
    /\ Disturb(reports \ {r})
    /\ UNCHANGED <<rate, nominated, permittedVenue, venueEverPermitted, demand, indexed,
                   expired, due, changes>>

\* writeReport answers that the call failed; the report stays where it is.
CallFailed(r) ==
    /\ r.awaited
    /\ reports' = (reports \ {r}) \cup {[r EXCEPT !.awaited = FALSE]}
    /\ UNCHANGED <<accounts, markets, demand, indexed, expired, run, due>>

MoveReverts(r) == ~Accepts(r.move) /\ CallFailed(r) /\ UNCHANGED changes

\* A report past its deadline can never land, and nobody carries it again.
Abandon(r) ==
    /\ r.age > DeadlineTicks /\ ~r.awaited
    /\ reports' = reports \ {r}
    /\ UNCHANGED <<accounts, markets, demand, indexed, expired, run, due, changes>>

\* One period of the schedule.
Aged(age) == Least(age + 1, DeadlineTicks + 1)
Tick ==
    /\ run # NoRun => run.age < RunTicks
    /\ \A r \in Awaited : r.age < RunTicks
    /\ due' = TRUE
    /\ run' = IF run = NoRun THEN run ELSE [run EXCEPT !.age = Aged(@)]
    /\ reports' = {[r EXCEPT !.age = Aged(@)] : r \in reports}
    /\ UNCHANGED <<accounts, markets, demand, indexed, expired, changes>>

-----------------------------------------------------------------------------
(* The world around the workflow. *)

World(change) ==
    /\ change \in Changes
    /\ changes < MaxChanges
    /\ changes' = changes + 1
    /\ Disturb(reports)
    /\ UNCHANGED due

RateMoves == \E a \in Assets, p \in Pools, x \in Rates :
    /\ World("rate")
    /\ x # rate[a][p]
    /\ rate' = [rate EXCEPT ![a][p] = x]
    /\ UNCHANGED <<accounts, cash, demand, indexed, expired>>

\* Borrowers take cash out of a market and bring it back.
CashMoves == \E a \in Assets, p \in Pools, x \in Levels :
    /\ World("cash")
    /\ x # cash[a][p]
    /\ cash' = [cash EXCEPT ![a][p] = x]
    /\ UNCHANGED <<accounts, rate, demand, indexed, expired>>

InterestAccrues == \E k \in Accounts, a \in Assets, p \in Pools :
    /\ World("interest")
    /\ supplied[k][a][p] \in 1..(MaxTotal - 1)
    /\ supplied' = [supplied EXCEPT ![k][a][p] = @ + 1]
    /\ UNCHANGED <<idle, nominated, permittedVenue, venueEverPermitted, markets, demand,
                   indexed, expired>>

\* A deposit, a payment, a swap that spends what is idle.
IdleMoves == \E k \in Accounts, a \in Assets, x \in Levels :
    /\ World("idle")
    /\ x # idle[k][a]
    /\ idle' = [idle EXCEPT ![k][a] = x]
    /\ UNCHANGED <<supplied, nominated, permittedVenue, venueEverPermitted, markets, demand,
                   indexed, expired>>

\* Anyone may supply on behalf of an account, at any market.
SupplyOnBehalf == \E k \in Accounts, a \in Assets, p \in Pools :
    /\ World("on_behalf")
    /\ p \in Lists[a]
    /\ supplied[k][a][p] < MaxTotal
    /\ supplied' = [supplied EXCEPT ![k][a][p] = @ + 1]
    /\ cash' = [cash EXCEPT ![a][p] = @ + 1]
    /\ UNCHANGED <<idle, nominated, permittedVenue, venueEverPermitted, rate, demand,
                   indexed, expired>>

OwnerPermits == \E k \in Accounts, p \in Pools :
    /\ World("permit")
    /\ p \notin permittedVenue[k]
    /\ permittedVenue' = [permittedVenue EXCEPT ![k] = @ \cup {p}]
    /\ venueEverPermitted' = [venueEverPermitted EXCEPT ![k] = @ \cup {p}]
    /\ UNCHANGED <<idle, supplied, nominated, markets, demand, indexed, expired>>

OwnerRevokes == \E k \in Accounts, p \in Pools :
    /\ World("revoke")
    /\ p \in permittedVenue[k]
    /\ permittedVenue' = [permittedVenue EXCEPT ![k] = @ \ {p}]
    /\ UNCHANGED <<idle, supplied, nominated, venueEverPermitted, markets, demand, indexed,
                   expired>>

OwnerSetsAgent == \E k \in Accounts :
    /\ World("agent")
    /\ nominated' = IF k \in nominated THEN nominated \ {k} ELSE nominated \cup {k}
    /\ UNCHANGED <<idle, supplied, permittedVenue, venueEverPermitted, markets, demand,
                   indexed, expired>>

DemandMoves == \E k \in Accounts, a \in Assets, x \in Levels :
    /\ World("demand")
    /\ x # demand[k][a]
    /\ demand' = [demand EXCEPT ![k][a] = x]
    /\ UNCHANGED <<accounts, markets, indexed, expired>>

IndexComesAndGoes ==
    /\ World("index")
    /\ indexed' = ~indexed
    /\ UNCHANGED <<accounts, markets, demand, expired>>

PolicyExpires ==
    /\ World("expiry")
    /\ ~expired
    /\ expired' = TRUE
    /\ UNCHANGED <<accounts, markets, demand, indexed>>

\* The call runs out of gas: it failed, though the account would have made it.
OutOfGas == \E r \in reports :
    /\ "gas" \in Changes
    /\ changes < MaxChanges
    /\ changes' = changes + 1
    /\ CallFailed(r)

-----------------------------------------------------------------------------
Init ==
    /\ \E start \in Starts :
        /\ idle = start.idle
        /\ supplied = start.supplied
        /\ cash = start.cash
        /\ rate = start.rate
        /\ permittedVenue = start.permitted
        /\ venueEverPermitted = start.named
    /\ nominated = Accounts
    /\ demand = [k \in Accounts |-> [a \in Assets |-> 0]]
    /\ indexed = TRUE
    /\ expired = FALSE
    /\ run = NoRun
    /\ due = FALSE
    /\ reports = {}
    /\ changes = 0

RunStep == StartRun \/ ReadMarkets \/ JudgeAccount \/ FinishRun
Carried == \E r \in reports : OnReport(r)
Answered == \E r \in reports : r.awaited /\ (OnReport(r) \/ MoveReverts(r))
Reverted == \E r \in reports : MoveReverts(r)
Abandoned == \E r \in reports : Abandon(r)
WorldChanges ==
    \/ RateMoves \/ CashMoves \/ InterestAccrues \/ IdleMoves \/ SupplyOnBehalf
    \/ OwnerPermits \/ OwnerRevokes \/ OwnerSetsAgent
    \/ DemandMoves \/ IndexComesAndGoes \/ PolicyExpires \/ OutOfGas

Next == RunStep \/ Carried \/ Reverted \/ Abandoned \/ Tick \/ WorldChanges

Spec == Init /\ [][Next]_vars

\* The schedule keeps coming round, a run that started finishes, and its
\* writeReport is answered.  Nobody owes a failed report another attempt.
Fairness == WF_vars(Tick) /\ WF_vars(RunStep) /\ WF_vars(Answered) /\ WF_vars(Abandoned)
FairSpec == Spec /\ Fairness
-----------------------------------------------------------------------------
(* Properties. *)

Balances == [Accounts -> [Assets -> Nat]]
Moves == [account : Accounts, asset : Assets, pool : Pools, amount : Nat,
          supply : BOOLEAN, leaving : BOOLEAN]
Reads == [agent : BOOLEAN, idle : [Assets -> Nat], permitted : SUBSET Pools,
          liquidity : [Assets -> [Pools -> Nat]], rate : [Assets -> [Pools -> Nat]]]
Ages == 0..(DeadlineTicks + 1)

\* Every variable keeps its type; in particular no move, however late or however
\* torn the view it was decided on, takes a balance below zero.
TypeOK ==
    /\ idle \in Balances /\ demand \in Balances
    /\ supplied \in [Accounts -> [Assets -> [Pools -> Nat]]]
    /\ cash \in [Assets -> [Pools -> Nat]] /\ rate \in [Assets -> [Pools -> Nat]]
    /\ nominated \subseteq Accounts
    /\ permittedVenue \in [Accounts -> SUBSET Pools]
    /\ venueEverPermitted \in [Accounts -> SUBSET Pools]
    /\ indexed \in BOOLEAN /\ expired \in BOOLEAN /\ due \in BOOLEAN /\ changes \in Nat
    /\ run.next \in 0..(NumAccounts + 1) /\ run.age \in Ages
    /\ run.read \subseteq Reads /\ run.best \subseteq Moves
    /\ run.expired \in BOOLEAN /\ run.fresh \in BOOLEAN
    /\ \A r \in reports : r.move \in Moves /\ r.age \in Ages
                           /\ r.fresh \in BOOLEAN /\ r.awaited \in BOOLEAN

\* The enclave and the account agree.  While nothing has changed since the run
\* began, the account and the market accept the move in the report: neither the
\* venue checks, nor the sizing, nor the balances read send a move that reverts
\* (eligibleVenues and sizeIdleMove against supplyIdle and withdrawIdle); but for an evacuation of
\* a market the owner never named, which the account refuses.
FreshMovesAreAccepted ==
    \A r \in reports : r.fresh =>
        \/ Accepts(r.move)
        \/ r.move.leaving /\ r.move.pool \notin venueEverPermitted[r.move.account]

\* The buffer is a floor.  A supply decided on what is still there leaves idle
\* at least the owner's minimum and at least what live mandates could call for.
FreshSuppliesLeaveTheBuffer ==
    \A r \in reports : r.fresh /\ r.move.supply =>
        LET left == idle[r.move.account][r.move.asset] - r.move.amount
        IN /\ left >= MinIdleAmount
           /\ indexed => left >= demand[r.move.account][r.move.asset]

\* What the enclave decided on, the chain honours: a move whose ground has not changed is accepted
\* and leaves the buffer.
FreshMovesHoldUp == FreshMovesAreAccepted /\ FreshSuppliesLeaveTheBuffer

SideNow(m) == SideOf(m.account, MarketsAsSeenBy(m.account), m.asset, supplied[m.account])
FloorNow(m) == MandateBuffer(indexed, demand[m.account][m.asset])

\* A withdrawal from a market still permitted that no shortfall asks for.
IsMigration(m) ==
    /\ ~m.supply /\ ~m.leaving
    /\ WantIdle(SideNow(m), FloorNow(m)) - SideNow(m).idle < Deadband(SideNow(m))

\* Nothing is sent that is not worth its gas: whatever the market's liquidity and
\* the ceiling leave of an ordinary move, it stays under the ceiling and clears
\* the owner's minimum, the deadband of what is still there, and for a migration
\* twice that deadband.
MovesWorthTheirGas ==
    \A r \in reports : LET m == r.move IN
        /\ m.amount > 0
        /\ ~m.leaving => m.amount \in MinMoveAmount..MaxMoveAmount
        /\ r.fresh /\ ~m.leaving => m.amount >= Deadband(SideNow(m))
        /\ r.fresh /\ IsMigration(m) => m.amount >= RoundTripDeadband(SideNow(m))

\* A migration goes somewhere better: it leaves a market that pays less than
\* another the account may use and the policy would supply to.
FreshMigrationsImprove ==
    \A r \in reports : LET m == r.move side == SideNow(m) IN
        r.fresh /\ IsMigration(m) =>
            \E p \in Usable(side) :
                side.rate[p] > side.rate[m.pool] /\ side.rate[p] >= MinSupplyRate

\* A move pays for itself: in what it moves and, where it only changes markets, in where it goes.
MovesPayOff == MovesWorthTheirGas /\ FreshMigrationsImprove

\* What stands at markets its owner does not permit.
Stranded(side) == SumOf(side.supplied, Lists[side.asset] \ side.permitted)

\* The usable markets that a run would rather supply to.
Preferred(side, p) ==
    {q \in Usable(side) : side.rate[q] > side.rate[p] \/ (side.rate[q] = side.rate[p] /\ q < p)}

\* Every unit at a usable market, as often as there are markets it would rather be at.
Misplaced(side) ==
    SumOf([p \in Usable(side) |-> side.supplied[p] * Cardinality(Preferred(side, p))], Usable(side))

\* How far an account's asset is from where runs would leave it: what is stranded, what the buffer
\* is short of, and what lies idle beyond it or is misplaced.  The last counts twice, as a
\* migration makes it idle first.
Distance(m) ==
    LET side == SideNow(m)
        excess == side.idle - WantIdle(side, FloorNow(m))
    IN <<Stranded(side), Most(0, -excess), Most(0, excess) + 2 * Misplaced(side)>>

Closer(x, y) == \E i \in 1..3 : x[i] < y[i] /\ \A j \in 1..(i - 1) : x[j] = y[j]

\* Every move is a step forward.  One that lands on what it was decided on brings its account's
\* asset closer to where runs would leave it and no other further away, so a correction is never
\* undone by the next one: the same capital is not shuttled between two kinds of move.
MovesAreProgress ==
    [][\A r \in reports : (r.fresh /\ OnReport(r)) =>
          /\ Closer(Distance(r.move)', Distance(r.move))
          /\ \A k \in Accounts, a \in Assets :
                <<k, a>> # <<r.move.account, r.move.asset>> =>
                    UNCHANGED Distance([account |-> k, asset |-> a])]_vars

\* The corrections end.  Once owners and markets are quiet, the workflow stops
\* sending moves: it does not shuttle the same capital to and fro.
Settles == <>[](reports = {})

\* A revocation is carried out.  A market the owner revoked does not keep what it
\* can hand back, while the account still names the agent.
RevokedIsEvacuated ==
    \A k \in Accounts, a \in Assets, p \in Pools :
        (p \in Lists[a] /\ p \in venueEverPermitted[k] \ permittedVenue[k])
            ~> \/ Least(supplied[k][a][p], cash[a][p]) = 0
               \/ p \in permittedVenue[k]
               \/ k \notin nominated

\* The buffer comes back.  Whatever late and repeated reports took, once all is quiet an account
\* that names the agent lies idle by its minimum, as far as a market it may use can hand back.
BufferComesBack ==
    \A k \in Accounts, a \in Assets :
        <>[](\/ idle[k][a] >= MinIdleAmount \/ expired \/ k \notin nominated
             \/ \A p \in permittedVenue[k] \cap Lists[a] :
                    Least(supplied[k][a][p], cash[a][p]) < Most(MinMoveAmount, MinIdleAmount - idle[k][a]))

\* What the workflow starts it finishes: corrections end, revocations are carried out, and what a
\* report took that landed beside a later one of the same correction is brought back.
CorrectionsFinish == Settles /\ RevokedIsEvacuated /\ BufferComesBack

\* decideAcrossAssets says "an evacuation outranks every ordinary move regardless
\* of gap": a report that still fits the account is an evacuation if any of the
\* account's markets is to be evacuated.
EvacuationGoesFirst ==
    \A r \in reports : (r.fresh /\ ~r.move.leaving) =>
        \A a \in Assets : \A p \in Lists[a] \ permittedVenue[r.move.account] :
            Least(supplied[r.move.account][a][p], cash[a][p]) = 0
\* Evacuation is "a market the owner has revoked while the account still has
\* capital in it": what a report that still fits evacuates, withdrawIdle returns.
EvacuationsAreOfRevokedMarkets ==
    \A r \in reports : r.fresh /\ r.move.leaving =>
        r.move.pool \in venueEverPermitted[r.move.account]
=============================================================================
