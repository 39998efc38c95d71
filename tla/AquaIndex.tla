----------------------------- MODULE AquaIndex -----------------------------
(***************************************************************************)
(* The subgraph's handlers for Aqua's four events.  Aqua itself is outside:*)
(* its ledger files an amount and a count for each token of each mandate,  *)
(* `ship` takes tokens it has not seen, `dock` the tokens of one ship or   *)
(* none at all, and both emit whatever they were handed.                   *)
(*                                                                         *)
(* Events are handled once their block is final, in their order, and a     *)
(* handler that asks Aqua for the ledger reads the end of that block.      *)
(*                                                                         *)
(* Ghosts: `revivals`, ships that brought a docked mandate back; `muddled`,*)
(* rows moved after a dock of their mandate in one block.                  *)
(***************************************************************************)
EXTENDS Integers, Sequences, FiniteSets, FiniteSetsExt, SequencesExt

CONSTANTS
    Mandates, Tokens, Amounts,
    MaxEvents,      \* bound: events of one block
    MaxBlocks,      \* bound: blocks
    MaxAmount       \* bound: a token's balance

Docked == 255

\* A ship of as many tokens as would read as docked is refused.
ASSUME IndexAssumption ==
    /\ IsFiniteSet(Mandates) /\ IsFiniteSet(Tokens)
    /\ Tokens # {} /\ Cardinality(Tokens) < Docked
    /\ MaxEvents \in Nat /\ MaxBlocks \in Nat /\ MaxAmount \in Nat
    /\ Amounts \subseteq 0..MaxAmount

VARIABLES
    aqua,           \* mandate -> token -> amount and tokensCount
    block,          \* the events of the block being made, or being handled
    handling,       \* the block is final
    blocks,         \* blocks so far
    mandates,       \* Mandate rows: whether there is one, and active
    balances,       \* Balance rows, for the pairs that have one
    counts,         \* mandateCount and activeMandateCount
    revivals, muddled

indexVars == <<aqua, block, handling, blocks, mandates, balances, counts, revivals, muddled>>

Live(c) == c \in 1..(Docked - 1)
Room(n) == ~handling /\ Len(block) + n =< MaxEvents
Event(kind, m, t, x) == [kind |-> kind, mandate |-> m, token |-> t, amount |-> x]

-----------------------------------------------------------------------------
(* Aqua. *)

\* One Shipped, then a Pushed for each token.
AquaShips(m, ts, x) ==
    /\ Room(1 + Cardinality(ts)) /\ ts # {}
    /\ \A t \in ts : aqua[m][t].count = 0
    /\ aqua' = [aqua EXCEPT ![m] = [t \in Tokens |->
                   IF t \in ts THEN [amount |-> x, count |-> Cardinality(ts)] ELSE @[t]]]
    /\ LET order == SetToSeq(ts) IN
         block' = block \o <<Event("Shipped", m, order[1], 0)>>
                        \o [i \in DOMAIN order |-> Event("Pushed", m, order[i], x)]
    /\ UNCHANGED muddled

\* The tokens have to be as many as were shipped with each; none at all passes too.
AquaDocks(m, ts) ==
    /\ Room(1)
    /\ \A t \in ts : Live(aqua[m][t].count) /\ aqua[m][t].count = Cardinality(ts)
    /\ aqua' = [aqua EXCEPT ![m] = [t \in Tokens |->
                   IF t \in ts THEN [amount |-> 0, count |-> Docked] ELSE @[t]]]
    /\ block' = Append(block, Event("Docked", m, CHOOSE t \in Tokens : TRUE, 0))
    /\ muddled' = {p \in muddled : p[1] # m}

\* A pair the block's last dock of the mandate will already have read.
ReadByADock(m, t) ==
    \E i \in DOMAIN block :
        /\ block[i].kind = "Docked" /\ block[i].mandate = m
        /\ \/ <<m, t>> \in DOMAIN balances
           \/ \E j \in 1..i : block[j].kind = "Pushed" /\ block[j].mandate = m /\ block[j].token = t

AquaMoves(kind, m, t, x) ==
    /\ Room(1) /\ Live(aqua[m][t].count) /\ x > 0
    /\ IF kind = "Pushed" THEN aqua[m][t].amount + x =< MaxAmount ELSE x =< aqua[m][t].amount
    /\ aqua' = [aqua EXCEPT ![m][t].amount = IF kind = "Pushed" THEN @ + x ELSE @ - x]
    /\ block' = Append(block, Event(kind, m, t, x))
    /\ muddled' = IF ReadByADock(m, t) THEN muddled \cup {<<m, t>>} ELSE muddled

Chain ==
    /\ \/ \E m \in Mandates, ts \in SUBSET Tokens :
            \/ \E x \in Amounts : AquaShips(m, ts, x)
            \/ AquaDocks(m, ts)
       \/ \E kind \in {"Pushed", "Pulled"} :
            \E m \in Mandates, t \in Tokens, x \in Amounts : AquaMoves(kind, m, t, x)
    /\ UNCHANGED <<handling, blocks, mandates, balances, counts, revivals>>

BlockEnds ==
    /\ ~handling /\ block # <<>> /\ blocks < MaxBlocks
    /\ handling' = TRUE /\ blocks' = blocks + 1
    /\ UNCHANGED <<aqua, block, mandates, balances, counts, revivals, muddled>>

-----------------------------------------------------------------------------
(* The handlers. *)

Known(m) == mandates[m].known

\* A hash seen before keeps its row and its counts; either way the mandate is live again.
HandleShipped(e) ==
    LET m == e.mandate IN
    /\ mandates' = [mandates EXCEPT ![m] = [known |-> TRUE, active |-> TRUE]]
    /\ counts' = IF Known(m) THEN counts
                 ELSE [mandate |-> counts.mandate + 1, active |-> counts.active + 1]
    /\ revivals' = IF Known(m) /\ ~mandates[m].active THEN revivals + 1 ELSE revivals
    /\ UNCHANGED balances

\* loadOrCreateBalance: a new row reads the count, and starts from nothing.
RowBefore(m, t) ==
    IF <<m, t>> \in DOMAIN balances THEN balances[<<m, t>>]
    ELSE [amount |-> 0, count |-> aqua[m][t].count]

WithRow(m, t, row) ==
    [p \in DOMAIN balances \cup {<<m, t>>} |-> IF p = <<m, t>> THEN row ELSE balances[p]]

HandleMoved(e) ==
    LET row == RowBefore(e.mandate, e.token)
        by == IF e.kind = "Pushed" THEN e.amount ELSE -e.amount
    IN /\ balances' = IF Known(e.mandate)
                      THEN WithRow(e.mandate, e.token, [row EXCEPT !.amount = @ + by])
                      ELSE balances
       /\ UNCHANGED <<mandates, counts, revivals>>

Flagged(m) == balances  \* mutant: a dock only flips the flag
\* Every row of the mandate, as the ledger stands.
Reread(m) == [p \in DOMAIN balances |-> IF p[1] = m THEN aqua[m][p[2]] ELSE balances[p]]

NeverSpendable(m) == FALSE  \* mutant: Docked taken at its word
StillSpendable(m) == \E t \in Tokens : <<m, t>> \in DOMAIN balances /\ Live(aqua[m][t].count)

ActiveAfterDock(m) ==
    IF mandates[m].active /\ ~StillSpendable(m) THEN counts.active - 1 ELSE counts.active

HandleDocked(e) ==
    LET m == e.mandate IN
    /\ IF Known(m)
       THEN /\ balances' = Reread(m)
            /\ mandates' = [mandates EXCEPT ![m].active = StillSpendable(m)]
            /\ counts' = [counts EXCEPT !.active = ActiveAfterDock(m)]
       ELSE UNCHANGED <<balances, mandates, counts>>
    /\ UNCHANGED revivals

Handle ==
    LET e == Head(block) IN
    /\ handling /\ block # <<>>
    /\ CASE e.kind = "Shipped" -> HandleShipped(e)
         [] e.kind = "Docked" -> HandleDocked(e)
         [] OTHER -> HandleMoved(e)
    /\ block' = Tail(block)
    /\ handling' = (Len(block) > 1)
    /\ UNCHANGED <<aqua, blocks, muddled>>

IndexInit ==
    /\ aqua = [m \in Mandates |-> [t \in Tokens |-> [amount |-> 0, count |-> 0]]]
    /\ block = <<>> /\ handling = FALSE /\ blocks = 0
    /\ mandates = [m \in Mandates |-> [known |-> FALSE, active |-> FALSE]]
    /\ balances = [p \in {} |-> 0]
    /\ counts = [mandate |-> 0, active |-> 0]
    /\ revivals = 0 /\ muddled = {}

IndexNext == Chain \/ BlockEnds \/ Handle

IndexSpec == IndexInit /\ [][IndexNext]_indexVars

-----------------------------------------------------------------------------
(* What the index promises, whenever it has handled every block there is. *)

CaughtUp == block = <<>>

\* The types of the chain's and the index's state.
IndexTypeOK ==
    /\ aqua \in [Mandates -> [Tokens -> [amount : 0..MaxAmount, count : Nat]]]
    /\ Len(block) =< MaxEvents /\ handling \in BOOLEAN /\ blocks \in 0..MaxBlocks
    /\ mandates \in [Mandates -> [known : BOOLEAN, active : BOOLEAN]]
    /\ \A p \in DOMAIN balances : p \in Mandates \X Tokens /\ balances[p].amount \in Int
    /\ counts \in [mandate : Nat, active : Int]
    /\ revivals \in Nat /\ muddled \subseteq Mandates \X Tokens

\* A row holds what the ledger holds ("It is exact", aqua.ts), unless its token moved after a
\* dock of its mandate in the same block: the dock has read that movement, and it is added again.
BalancesAgree ==
    CaughtUp => \A p \in DOMAIN balances :
                  /\ balances[p].count = aqua[p[1]][p[2]].count
                  /\ p \notin muddled => balances[p].amount = aqua[p[1]][p[2]].amount

\* A mandate is shown as active exactly while one of its tokens can still be spent, however it
\* was shipped and docked, in parts, twice or not at all; and activeMandateCount, "Strategies not
\* yet docked", is short of those by every docked mandate that was shipped again: its dock was
\* counted and its return was not.
ActiveMeansSpendable ==
    CaughtUp =>
        /\ \A m \in Mandates : mandates[m].active <=> \E t \in Tokens : Live(aqua[m][t].count)
        /\ counts.active + revivals = Quantify(Mandates, LAMBDA m : mandates[m].active)

\* The rows follow the ledger: what they hold, and what they say can still be spent.
RowsFollowTheLedger == BalancesAgree /\ ActiveMeansSpendable
=============================================================================
