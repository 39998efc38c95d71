-------------------------------- MODULE WayOut --------------------------------
(***************************************************************************)
(* The withdraw card: what it says the account holds, and the sweep that   *)
(* sends it all to the owner.  `escape` takes a list of tokens, and the    *)
(* list is drawn up at the press: the account's own log says which markets *)
(* it ever permitted, and each is asked for the receipt it issues.  Every  *)
(* read may fail, the list waits for a wallet, and the agent and the owner *)
(* go on moving what is to be swept.                                       *)
(***************************************************************************)
EXTENDS Integers, FiniteSets, Sums

CONSTANTS
    Assets, Dollar,     \* ACCOUNT_ASSETS, and the one the card counts
    Markets, Receipts,  \* markets, and which asset each lists: pairs of the two
    Aave, KnownVenues,  \* the market read directly, and those of the fallback
    MaxMoves,           \* bound: what others do
    MaxHeld             \* bound: units of an asset anywhere

ASSUME WayOutAssumption ==
    /\ Dollar \in Assets /\ Receipts \subseteq Markets \X Assets /\ IsFiniteSet(Receipts)
    /\ Aave \in Markets /\ KnownVenues \subseteq Markets
    /\ MaxMoves \in Nat /\ MaxHeld \in Nat \ {0}

VARIABLES
    loose,      \* asset -> what the account holds of it
    placed,     \* receipt -> what it is worth
    allowed, everAllowed,
    reading,    \* readAccount, half way: what its balances said
    shown,      \* what the card was last told
    sweep,      \* the press under way
    left,       \* what the last transaction left at the markets, and why (ghost)
    moves

funds == <<loose, placed, allowed, everAllowed>>
wayVars == <<funds, reading, shown, sweep, left, moves>>

Unshown == [known |-> FALSE, total |-> 0, failed |-> FALSE, stale |-> FALSE]
NotReading == [on |-> FALSE, idle |-> 0, aave |-> 0, failed |-> FALSE, stale |-> FALSE]
NotPressed == [stage |-> "ready", asked |-> {}, list |-> {}, unread |-> {},
            logged |-> TRUE, everThen |-> {}]

Worth(receipts) == SumOf(placed, receipts)
\* The receipts of some markets, in some assets.
ReceiptsOf(markets, assets) == Receipts \cap (markets \X assets)

-----------------------------------------------------------------------------
(* What the card shows: readAccount, in two rounds of reads. *)

\* A balance that cannot be read counts as nothing.
IfAnswered(answers, amount) == IF answers THEN amount ELSE 0

ReadHoldings == \E idleAnswers, aaveAnswers \in BOOLEAN :
    /\ ~reading.on
    /\ reading' = [on |-> TRUE, idle |-> IfAnswered(idleAnswers, loose[Dollar]),
                   aave |-> IfAnswered(aaveAnswers, Worth(ReceiptsOf({Aave}, {Dollar}))),
                   failed |-> ~(idleAnswers /\ aaveAnswers), stale |-> FALSE]
    /\ UNCHANGED <<funds, shown, sweep, left, moves>>

\* A sweep that was mined waits for the card to be told anew, whatever it is told.
Reported == sweep' = IF sweep.stage = "mined" THEN [sweep EXCEPT !.stage = "reported"] ELSE sweep

\* Every market ever permitted, or the fallback.
MarketsToRead(logsAnswer) == IF logsAnswer THEN everAllowed ELSE KnownVenues

\* Never below the reading it replaces.
AtWork(across) == IF across > reading.aave THEN across ELSE reading.aave

\* readVenues, of the dollar alone: a market that does not answer is left out of the sum.
ReadPositions == \E logsAnswer \in BOOLEAN : \E silent \in SUBSET ReceiptsOf(Markets, {Dollar}) :
    LET asked == ReceiptsOf(MarketsToRead(logsAnswer), {Dollar})
    IN /\ reading.on /\ silent \subseteq asked
       /\ shown' = [known |-> TRUE, total |-> reading.idle + AtWork(Worth(asked \ silent)),
                    failed |-> reading.failed \/ ~logsAnswer \/ silent # {},
                    stale |-> reading.stale]
       /\ reading' = NotReading
       /\ Reported
       /\ UNCHANGED <<funds, left, moves>>

\* The factory or the code cannot be read: what was shown stays, and the sweep is over all the same.
ReadFails ==
    /\ reading.on /\ reading' = NotReading
    /\ Reported
    /\ UNCHANGED <<funds, shown, left, moves>>

Offered == shown.known /\ shown.total > 0 /\ sweep.stage = "ready"
Denied == shown.known /\ shown.total = 0

-----------------------------------------------------------------------------
(* The sweep. *)

PressSweep ==
    /\ Offered
    /\ sweep' = [NotPressed EXCEPT !.stage = "logs"]
    /\ left' = {}
    /\ UNCHANGED <<funds, reading, shown, moves>>

\* permittedVenues; which of the two it was is not looked at.
ReadLogs == \E logsAnswer \in BOOLEAN :
    /\ sweep.stage = "logs"
    /\ sweep' = [sweep EXCEPT !.stage = "receipts", !.logged = logsAnswer, !.everThen = everAllowed,
                              !.asked = ReceiptsOf(MarketsToRead(logsAnswer), Assets)]
    /\ UNCHANGED <<funds, reading, shown, left, moves>>

IfHeld(answered) == {r \in answered : placed[r] > 0}  \* mutant: an empty receipt is not named
\* A receipt is named whatever its balance.
SweepList(answered) == answered

\* Each pair of market and asset is asked on its own, all at once; a read that fails is taken for
\* an asset the market does not list.  What is named does not depend on when it was asked.
ReadReceipts == \E silent \in SUBSET sweep.asked :
    /\ sweep.stage = "receipts"
    /\ sweep' = [sweep EXCEPT !.stage = "wallet", !.asked = {}, !.unread = silent,
                              !.list = SweepList(sweep.asked \ silent)]
    /\ UNCHANGED <<funds, reading, shown, left, moves>>

Decline ==
    /\ sweep.stage = "wallet"
    /\ sweep' = NotPressed
    /\ UNCHANGED <<funds, reading, shown, left, moves>>

WhyLeft(r) ==
    CASE r \in sweep.unread -> "unread"
      [] ~sweep.logged /\ r[1] \notin KnownVenues -> "fallback"
      [] r[1] \notin sweep.everThen -> "permitted later"
      [] OTHER -> "forgotten"

\* What others had under way when the balances moved is stale.
Disturb ==
    /\ reading' = [reading EXCEPT !.stale = reading.on]
    /\ shown' = [shown EXCEPT !.stale = shown.known]

\* escape: every token named, whatever it has become worth.
Escape ==
    /\ sweep.stage = "wallet"
    /\ loose' = [a \in Assets |-> 0]
    /\ placed' = [r \in Receipts |-> IF r \in sweep.list THEN 0 ELSE placed[r]]
    /\ left' = {<<r, WhyLeft(r)>> : r \in {q \in Receipts : placed'[q] > 0}}
    /\ sweep' = [NotPressed EXCEPT !.stage = "mined"]
    /\ Disturb
    /\ UNCHANGED <<allowed, everAllowed, moves>>

\* A token that refuses to move stops the rest; the card waits for the receipt and does not look
\* at its status.
EscapeReverts ==
    /\ sweep.stage = "wallet"
    /\ left' = {<<r, "reverted">> : r \in {q \in Receipts : placed[q] > 0}}
    /\ sweep' = [NotPressed EXCEPT !.stage = "mined"]
    /\ UNCHANGED <<funds, reading, shown, moves>>

\* Reported, the button is gone until the card is drawn anew.
DrawAnew ==
    /\ sweep.stage = "reported"
    /\ sweep' = NotPressed
    /\ UNCHANGED <<funds, reading, shown, left, moves>>

-----------------------------------------------------------------------------
(* The agent, the owner elsewhere, and anybody. *)

OthersMove ==
    /\ moves < MaxMoves /\ moves' = moves + 1
    /\ Disturb
    /\ UNCHANGED <<sweep, left>>

Permit(m, yes) ==
    /\ OthersMove
    /\ allowed' = IF yes THEN allowed \cup {m} ELSE allowed \ {m}
    /\ everAllowed' = everAllowed \cup allowed'
    /\ UNCHANGED <<loose, placed>>

SupplyIdle(r) ==
    /\ OthersMove
    /\ r[1] \in allowed /\ loose[r[2]] > 0
    /\ loose' = [loose EXCEPT ![r[2]] = 0]
    /\ placed' = [placed EXCEPT ![r] = @ + loose[r[2]]]
    /\ UNCHANGED <<allowed, everAllowed>>

WithdrawIdle(r) ==
    /\ OthersMove
    /\ r[1] \in everAllowed /\ placed[r] > 0
    /\ loose' = [loose EXCEPT ![r[2]] = @ + placed[r]]
    /\ placed' = [placed EXCEPT ![r] = 0]
    /\ UNCHANGED <<allowed, everAllowed>>

PutIn(a) ==
    /\ OthersMove
    /\ loose[a] + Worth(ReceiptsOf(Markets, {a})) < MaxHeld
    /\ loose' = [loose EXCEPT ![a] = @ + 1]
    /\ UNCHANGED <<placed, allowed, everAllowed>>

WayInit ==
    /\ \E somewhere \in SUBSET Assets : loose = [a \in Assets |-> IF a \in somewhere THEN 1 ELSE 0]
    /\ placed = [r \in Receipts |-> 0]
    /\ allowed \in {{Aave}, Markets} /\ everAllowed = allowed
    /\ reading = NotReading /\ shown = Unshown /\ sweep = NotPressed
    /\ left = {} /\ moves = 0

WayNext ==
    \/ ReadHoldings \/ ReadPositions \/ ReadFails
    \/ PressSweep \/ ReadLogs \/ ReadReceipts \/ Decline \/ Escape \/ EscapeReverts \/ DrawAnew
    \/ \E r \in Receipts : SupplyIdle(r) \/ WithdrawIdle(r)
    \/ \E m \in Markets, yes \in BOOLEAN : Permit(m, yes)
    \/ \E a \in Assets : PutIn(a)

WaySpec == WayInit /\ [][WayNext]_wayVars

WayTypeOK ==
    /\ loose \in [Assets -> 0..MaxHeld] /\ placed \in [Receipts -> 0..MaxHeld]
    /\ allowed \subseteq everAllowed /\ everAllowed \subseteq Markets
    /\ shown.total \in Nat
    /\ sweep.list \subseteq Receipts \ sweep.unread
    /\ sweep.stage \in {"ready", "logs", "receipts", "wallet", "mined", "reported"}
    /\ left \subseteq Receipts \X {"unread", "fallback", "permitted later", "forgotten", "reverted"}

\* A sweep leaves capital at a market only where it could not know of it: the transaction
\* reverted, that market's own read failed, the log was not read and the market is not one of
\* those fallen back on, or the owner permitted it after the log was read.  What the agent moves
\* between the list and the transaction is not left, nor what is at a market since revoked.
SweepsForgetNothing == \A l \in left : l[2] # "forgotten"

\* A card that says there is nothing to send back, of an account nobody has touched since it began
\* to read and with every read answered, is right about the dollar, wherever that was put.
DenialsAreOfOtherAssets ==
    Denied /\ ~shown.failed /\ ~shown.stale =>
        loose[Dollar] + Worth(ReceiptsOf(everAllowed, {Dollar})) = 0

\* The way out is there when there is something to send, and takes what it finds.
WayOutIsComplete == SweepsForgetNothing /\ DenialsAreOfOtherAssets
=============================================================================
