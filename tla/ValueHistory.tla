---------------------------- MODULE ValueHistory ----------------------------
(***************************************************************************)
(* The line of what an account was worth in dollars, drawn from its log    *)
(* alone: every transfer of the dollar with the account on an end, and     *)
(* every move of idle capital.  The backend hands out the newest rows it   *)
(* stored, some of them never dated; the fold adds up what it is given.    *)
(*                                                                         *)
(* The account, its markets and takers are outside, one movement of money  *)
(* to a transaction.  Ghosts: `earned`, what a market credited and nobody  *)
(* put in; `escaped`, what left as receipts; `unseen`, what takers were    *)
(* paid out of a market the page does not know.                            *)
(***************************************************************************)
EXTENDS Integers, Sequences, FiniteSets, Sums

CONSTANTS
    Payers,             \* the markets
    PAYS_FROM,          \* those whose payouts the page recognises
    RowLimit,           \* rows of an answer
    MoneyMoved,         \* what is moved
    MaxTransactions,    \* bound
    MaxEarned           \* bound: interest

ASSUME HistoryAssumption ==
    /\ IsFiniteSet(Payers) /\ "nobody" \notin Payers /\ PAYS_FROM \subseteq Payers
    /\ RowLimit \in Nat \ {0} /\ MoneyMoved \subseteq Nat \ {0}
    /\ MaxTransactions \in Nat /\ MaxEarned \in Nat

VARIABLES
    log,        \* the account's rows as they were stored, oldest first
    liquid,     \* what the account holds
    atWork,     \* market -> what its position there is worth
    principal,  \* transaction -> what the account was worth after it, the ghosts aside
    earned, escaped, unseen

historyVars == <<log, liquid, atWork, principal, earned, escaped, unseen>>

-----------------------------------------------------------------------------
(* The line. *)

AccountEvent(kind, units, into, asset, redeemed) ==
    [kind |-> kind, units |-> units, into |-> into, asset |-> asset, redeemed |-> redeemed,
     tx |-> Len(principal) + 1, dated |-> TRUE]
MoneyIn(units, market) == AccountEvent("in", units, TRUE, "usdc", market \in PAYS_FROM)
MoneyOut(units) == AccountEvent("out", units, FALSE, "usdc", FALSE)
Moved(units, into, asset) == AccountEvent("moved", units, into, asset, FALSE)

\* The newest rows, of which those without a date are passed over.
Dated == {k \in DOMAIN log : k > Len(log) - RowLimit /\ log[k].dated}

NoOwnMoves == {}  \* mutant: a payout is a taker's
OwnMoves ==
    {log[k].tx : k \in {d \in Dated : log[d].kind = "moved" /\ ~log[d].into /\ log[d].asset = "usdc"}}

LiquidStep(e) ==
    CASE e.kind = "in" -> e.units
      [] e.kind = "out" -> -e.units
      [] OTHER -> 0
WorkingStep(e) ==
    CASE e.kind = "moved" /\ e.asset = "usdc" -> IF e.into THEN e.units ELSE -e.units
      [] e.kind = "in" /\ e.redeemed /\ e.tx \notin OwnMoves -> -e.units
      [] OTHER -> 0

\* The points, by the transactions whose rows are drawn, and the dollars at one of them.
Drawn == {log[k].tx : k \in {d \in Dated : log[d].kind \in {"in", "out", "moved"}}}
ValueAt(tx) ==
    SumOf([k \in Dated |-> LiquidStep(log[k]) + WorkingStep(log[k])],
          {k \in Dated : log[k].tx =< tx})

-----------------------------------------------------------------------------
(* The account. *)

Total(work) == SumOf(work, Payers)

\* A transaction's rows are stored all dated or, if its block's header did not come, none.
Transaction(rows) ==
    /\ Len(principal) < MaxTransactions
    /\ \E dated \in BOOLEAN : log' = log \o [k \in DOMAIN rows |-> [rows[k] EXCEPT !.dated = dated]]
    /\ principal' = Append(principal, liquid' + Total(atWork') - earned' + escaped' + unseen')

\* From the owner, or from a taker.
Funded(x) ==
    /\ liquid' = liquid + x
    /\ UNCHANGED <<atWork, earned, escaped, unseen>>
    /\ Transaction(<<MoneyIn(x, "nobody")>>)

\* To the owner, or to a taker whom the wallet can pay.
PaidAway(x) ==
    /\ x =< liquid /\ liquid' = liquid - x
    /\ UNCHANGED <<atWork, earned, escaped, unseen>>
    /\ Transaction(<<MoneyOut(x)>>)

IdleSupplied(m, x) ==
    /\ x =< liquid /\ liquid' = liquid - x /\ atWork' = [atWork EXCEPT ![m] = @ + x]
    /\ UNCHANGED <<earned, escaped, unseen>>
    /\ Transaction(<<MoneyOut(x), Moved(x, TRUE, "usdc")>>)

IdleWithdrawn(m, x) ==
    /\ x =< atWork[m] /\ liquid' = liquid + x /\ atWork' = [atWork EXCEPT ![m] = @ - x]
    /\ UNCHANGED <<earned, escaped, unseen>>
    /\ Transaction(<<MoneyIn(x, m), Moved(x, FALSE, "usdc")>>)

\* A taker is paid more than the wallet holds: a market the maker named makes up for it.
TakerPaid(m, x) ==
    /\ x > liquid /\ x - liquid =< atWork[m]
    /\ liquid' = 0 /\ atWork' = [atWork EXCEPT ![m] = @ - (x - liquid)]
    /\ unseen' = IF m \in PAYS_FROM THEN unseen ELSE unseen + (x - liquid)
    /\ UNCHANGED <<earned, escaped>>
    /\ Transaction(<<MoneyIn(x - liquid, m), MoneyOut(x)>>)

\* The dollars go as dollars, the positions as receipts, of which the log has no row.
Escaped(markets) ==
    /\ liquid' = 0
    /\ atWork' = [m \in Payers |-> IF m \in markets THEN 0 ELSE atWork[m]]
    /\ escaped' = escaped + SumOf(atWork, markets)
    /\ UNCHANGED <<earned, unseen>>
    /\ Transaction(IF liquid = 0 THEN <<>> ELSE <<MoneyOut(liquid)>>)

\* Rows that are no dollars: a move of ether, a market allowed, an agent named.
OtherRow ==
    /\ UNCHANGED <<liquid, atWork, earned, escaped, unseen>>
    /\ \E e \in {Moved(1, TRUE, "weth"), AccountEvent("venue", 0, FALSE, "none", FALSE)} : Transaction(<<e>>)

\* A market pays, or somebody supplies on the account's behalf.
Credited(m) ==
    /\ earned < MaxEarned /\ earned' = earned + 1 /\ atWork' = [atWork EXCEPT ![m] = @ + 1]
    /\ UNCHANGED <<log, liquid, principal, escaped, unseen>>

HistoryInit ==
    /\ log = <<>> /\ principal = <<>> /\ liquid = 0 /\ atWork = [m \in Payers |-> 0]
    /\ earned = 0 /\ escaped = 0 /\ unseen = 0

HistoryNext ==
    \/ \E x \in MoneyMoved : Funded(x) \/ PaidAway(x)
    \/ \E m \in Payers, x \in MoneyMoved : IdleSupplied(m, x) \/ IdleWithdrawn(m, x) \/ TakerPaid(m, x)
    \/ \E markets \in SUBSET Payers : Escaped(markets)
    \/ OtherRow
    \/ \E m \in Payers : Credited(m)

HistorySpec == HistoryInit /\ [][HistoryNext]_historyVars

-----------------------------------------------------------------------------
(* Properties. *)

\* Rows and positions are what they are stored and held as.
HistoryTypeOK ==
    /\ log \in Seq([kind : {"in", "out", "moved", "venue"}, units : Nat, into : BOOLEAN,
                    asset : {"usdc", "weth", "none"}, redeemed : BOOLEAN,
                    tx : 1..MaxTransactions, dated : BOOLEAN])
    /\ liquid \in Nat /\ atWork \in [Payers -> Nat] /\ principal \in Seq(Int)
    /\ earned \in 0..MaxEarned /\ escaped \in Nat /\ unseen \in Nat

\* No row from one of these transactions to the other lacks its date.
AllDated(from, to) == \A k \in DOMAIN log : log[k].tx \in from..to => log[k].dated

\* The line is exact about money put in: between two of its points it moves by what the account's
\* principal did, however supplies, refills, fills and sweeps came between; and while no row was
\* cut from the answer or left undated, each point is the principal itself.  What it does not
\* carry is what markets ever credited, taken out or not, and receipts that were swept
\* (value-history.ts: "exact because two ledgers together account for every unit").
LineIsExact ==
    \A j \in Drawn :
        /\ AllDated(1, j) /\ Len(log) =< RowLimit => ValueAt(j) = principal[j]
        /\ \A i \in Drawn : i < j /\ AllDated(i + 1, j) =>
               ValueAt(j) - ValueAt(i) = principal[j] - principal[i]
=============================================================================
