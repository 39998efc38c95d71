------------------------------ MODULE PutToWork ------------------------------
(***************************************************************************)
(* The card that opens, arms, funds and ships in one batch.  What it knows *)
(* of the chain it read when it was mounted; whether a mandate was shipped *)
(* it asks of an index that lags, and of the status of the last batch it   *)
(* sent.  Between the press and the wallet there is a quote and a check to *)
(* wait for, and a batch lands whole or not at all.                        *)
(* Chain, wallet and index are outside.  `Ask` is what the sentence asked: *)
(* nothing more, a swap of ether first, or ether put in as it is.          *)
(***************************************************************************)
EXTENDS Integers, FiniteSets, Sequences

CONSTANTS
    Cards,          \* mounted in pages of the owner's
    Asks,           \* of {"plain", "fund", "wrap"}
    Holdings,       \* what the wallet, and what the account, may hold at first
    MaxPresses,     \* bound
    MaxMounts,      \* bound: times cards are mounted again
    MaxDeposits     \* bound: times money reaches the owner's wallet

ASSUME PutToWorkAssumption ==
    /\ Asks \subseteq {"plain", "fund", "wrap"} /\ Holdings \subseteq Nat
    /\ MaxPresses \in Nat /\ MaxMounts \in Nat /\ MaxDeposits \in Nat

VARIABLES
    ask,
    chain,      \* USDC in the wallet and in the account, ether, mandates shipped
    indexed,    \* how many of the mandates the index has
    cards,      \* card -> balances read, mandates the index told of, the press it last sent
    presses,    \* what each press took with it, and how far its batch is
    mounts, deposits,
    covered,    \* the account's money when a mandate was last shipped (ghost)
    idleShips   \* presses whose mandate covers nothing the one before did not (ghost)

putVars ==
    <<ask, chain, indexed, cards, presses, mounts, deposits, covered, idleShips>>

Unread == [wallet |-> -1, account |-> -1, ether |-> -1]
Unasked == -1
Mounted == [balances |-> Unread, position |-> Unasked, sent |-> 0]

-----------------------------------------------------------------------------
(* What the card shows. *)

Stage(c) == IF cards[c].sent = 0 THEN "none" ELSE presses[cards[c].sent].stage
JustDone(c) == Stage(c) = "landed"
Already(c) == cards[c].position > 0
Done(c) == JustDone(c) \/ Already(c)

WhatIsInTheAccount(c) == cards[c].balances.account > 0  \* mutant: the ceiling, not the wallet
Addable(c) == cards[c].balances.wallet > 0 \/ (ask = "wrap" /\ ~JustDone(c))

\* A quote for ether the wallet was read to hold; a press asks for it again.
Quoted(c) == cards[c].balances.ether > 0
ReadyToPress(c) ==
    /\ cards[c].balances # Unread
    /\ ask # "plain" => Quoted(c)
    /\ ask = "plain" => cards[c].balances.wallet + cards[c].balances.account > 0

\* Not while the last batch is in the wallet; the index's answer is not waited for.
Enabled(c) == ReadyToPress(c) /\ Stage(c) # "in-wallet" /\ (Done(c) => Addable(c))

-----------------------------------------------------------------------------

Mount(c) ==
    /\ mounts < MaxMounts /\ mounts' = mounts + 1
    /\ cards' = [cards EXCEPT ![c] = Mounted]
    /\ presses' = [p \in DOMAIN presses |->
                     IF presses[p].card = c /\ presses[p].stage = "checking"
                     THEN [presses[p] EXCEPT !.stage = "dropped"] ELSE presses[p]]
    /\ UNCHANGED <<ask, chain, indexed, deposits, covered, idleShips>>

ReadBalances(c) ==
    /\ cards' = [cards EXCEPT ![c].balances =
                    [wallet |-> chain.wallet, account |-> chain.account, ether |-> chain.ether]]
    /\ UNCHANGED <<ask, chain, indexed, presses, mounts, deposits, covered, idleShips>>

ReadMandates(c) ==
    /\ cards' = [cards EXCEPT ![c].position = indexed]
    /\ UNCHANGED <<ask, chain, indexed, presses, mounts, deposits, covered, idleShips>>

\* run, up to the quote: what the card shows as done decides what goes along.  The button stays
\* as it is until the wallet has the batch.
Press(c) ==
    /\ Enabled(c) /\ Len(presses) < MaxPresses
    /\ presses' = Append(presses,
                    [card |-> c, stage |-> "checking", wallet |-> cards[c].balances.wallet,
                     fund |-> IF ask = "fund" /\ ~Done(c) THEN 1 ELSE 0,
                     wrap |-> IF ask = "wrap" /\ ~JustDone(c) THEN 1 ELSE 0,
                     knew |-> Done(c)])
    /\ UNCHANGED <<ask, chain, indexed, cards, mounts, deposits, covered, idleShips>>

Moves(p, stage) == presses' = [presses EXCEPT ![p].stage = stage]

\* sendCalls: a batch from the same card that is still on its way is no longer followed.
Send(p) ==
    /\ presses[p].stage = "checking"
    /\ Moves(p, "in-wallet")
    /\ cards' = [cards EXCEPT ![presses[p].card].sent = p]
    /\ UNCHANGED <<ask, chain, indexed, mounts, deposits, covered, idleShips>>

\* No quote, another hash, or a person who declines.
Refuse(p) ==
    /\ presses[p].stage \in {"checking", "in-wallet"}
    /\ Moves(p, "dropped")
    /\ UNCHANGED <<ask, chain, indexed, cards, mounts, deposits, covered, idleShips>>

Adds(b) == b.wallet + b.fund + b.wrap

CanPay(b) == chain.wallet >= b.wallet /\ chain.ether >= b.fund + b.wrap

\* All of it or none of it.
Land(p) ==
    LET b == presses[p] IN
    /\ b.stage = "in-wallet"
    /\ IF CanPay(b)
       THEN /\ Moves(p, "landed")
            /\ chain' = [wallet |-> chain.wallet - b.wallet, account |-> chain.account + Adds(b),
                         ether |-> chain.ether - b.fund - b.wrap, shipped |-> chain.shipped + 1]
            /\ covered' = chain.account + Adds(b)
            /\ idleShips' = IF chain.shipped > 0 /\ chain.account + Adds(b) = covered
                            THEN idleShips \cup {p} ELSE idleShips
       ELSE Moves(p, "dropped") /\ UNCHANGED <<chain, covered, idleShips>>
    /\ UNCHANGED <<ask, indexed, cards, mounts, deposits>>

Indexes ==
    /\ indexed < chain.shipped /\ indexed' = indexed + 1
    /\ UNCHANGED <<ask, chain, cards, presses, mounts, deposits, covered, idleShips>>

Deposit ==
    /\ deposits < MaxDeposits /\ deposits' = deposits + 1
    /\ chain' = [chain EXCEPT !.wallet = @ + 1]
    /\ UNCHANGED <<ask, indexed, cards, presses, mounts, covered, idleShips>>

PutInit ==
    /\ ask \in Asks
    /\ \E w \in Holdings, a \in Holdings, e \in IF ask = "plain" THEN {0} ELSE {0, 2} :
          chain = [wallet |-> w, account |-> a, ether |-> e, shipped |-> 0]
    /\ indexed = 0 /\ cards = [c \in Cards |-> Mounted] /\ presses = <<>>
    /\ mounts = 0 /\ deposits = 0 /\ covered = 0 /\ idleShips = {}

PutNext ==
    \/ \E c \in Cards : Mount(c) \/ ReadBalances(c) \/ ReadMandates(c) \/ Press(c)
    \/ \E p \in DOMAIN presses : Send(p) \/ Refuse(p) \/ Land(p)
    \/ Indexes \/ Deposit

PutSpec == PutInit /\ [][PutNext]_putVars

-----------------------------------------------------------------------------

PutTypeOK ==
    /\ ask \in Asks
    /\ chain.wallet \in Nat /\ chain.account \in Nat /\ chain.ether \in Nat
    /\ indexed \in 0..chain.shipped
    /\ \A c \in Cards : cards[c].sent \in 0..Len(presses) /\ cards[c].position \in -1..indexed
    /\ \A p \in DOMAIN presses : Adds(presses[p]) \in Nat
    /\ idleShips \subseteq DOMAIN presses

\* A second mandate that covers nothing new is only ever shipped by a press that did not know of
\* the first: made before the index's answer came or the index had the block, or while another
\* press was still being checked.  A press that knew ships only money no mandate covered.
InformedPressesAddMoney == \A p \in idleShips : ~presses[p].knew
=============================================================================
