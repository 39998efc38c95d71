-------------------------------- MODULE Bot --------------------------------
(***************************************************************************)
(* The bot that reads an account out loud.  Telegram posts each message to *)
(* the webhook, one at a time, and again while the answer is an error; the *)
(* only error a command can end in is the time limit over every request.   *)
(* A command is answered from reads made one after the other, while the    *)
(* account goes on moving.                                                 *)
(*                                                                         *)
(* Telegram, the endpoint and the account are outside.  A market's receipt *)
(* grows in number, as Aave's does, or in what each is worth.              *)
(***************************************************************************)
EXTENDS Integers, Sequences, FiniteSets, Sums

CONSTANTS
    BotReceipts,    \* the tokens whose balances are the working side
    SharePriced,    \* of them, those that grow in worth
    BotCommands,    \* of {"help", "portfolio", "moves", "chatter"}
    LogLimit,       \* rows the account's history gives
    MaxUpdates, MaxDeliveries,  \* bounds: messages, and posts of one
    MaxHappenings   \* bound: what happens to the account

ASSUME BotAssumption ==
    /\ SharePriced \subseteq BotReceipts /\ IsFiniteSet(BotReceipts)
    /\ BotCommands \subseteq {"help", "portfolio", "moves", "chatter"}
    /\ {LogLimit, MaxUpdates, MaxDeliveries, MaxHappenings} \subseteq Nat

VARIABLES
    opened, liquidUsdc, receipts, worthOf,  \* the account
    botLog, scanned,                \* its log, and the rows kept of it with their dates
    updates, deliveries, job,       \* Telegram's queue, its posts of the first, and the handler
    replies,
    posted, overran,                \* messages, and posts whose handling took too long (ghosts)
    happenings

accountVars == <<opened, liquidUsdc, receipts, worthOf, botLog, happenings>>
ghostVars == <<posted, overran>>
botVars == <<accountVars, scanned, updates, deliveries, job, replies, ghostVars>>

WorthAtWork == SumOf([r \in BotReceipts |-> receipts[r] * worthOf[r]], BotReceipts)

NoJob == [stage |-> "none", idle |-> 0, working |-> 0, left |-> {}, unread |-> FALSE, still |-> TRUE,
         sent |-> "none", count |-> 0, last |-> 0]
Message == Head(updates)

-----------------------------------------------------------------------------
(* The webhook. *)

Messages == \E command \in BotCommands, private \in BOOLEAN, address \in BOOLEAN :
    /\ deliveries = 0 /\ updates = <<>> /\ posted < MaxUpdates
    /\ updates' = <<[command |-> command, private |-> private, address |-> address]>>
    /\ posted' = posted + 1
    /\ UNCHANGED <<accountVars, scanned, deliveries, job, replies, overran>>

\* 200: Telegram is done with the message.
Acknowledged ==
    /\ updates' = Tail(updates) /\ deliveries' = 0 /\ job' = NoJob

Says(text) == [NoJob EXCEPT !.stage = "sending", !.sent = text]

\* What is not a command, or one too many, is dropped; a group, an unknown command and a command
\* that needs an address are answered without a read.
Delivered ==
    /\ updates # <<>> /\ job.stage = "none" /\ deliveries < MaxDeliveries
    /\ \/ Acknowledged
       \/ /\ Message.command # "chatter"
          /\ deliveries' = deliveries + 1 /\ UNCHANGED updates
          /\ job' = CASE ~Message.private -> Says("direct-only")
                      [] Message.private /\ Message.command = "help" -> Says("help")
                      [] Message.private /\ Message.command # "help" /\ ~Message.address ->
                            Says("want-address")
                      [] OTHER -> [NoJob EXCEPT !.stage = "account"]
    /\ UNCHANGED <<accountVars, scanned, replies, ghostVars>>

\* A read that fails.
Sorry == Says("no-answer")

\* The factory answers for owners whose account was never created, too.
ReadAccount ==
    /\ job.stage = "account"
    /\ job' \in {Sorry, [job EXCEPT !.stage = IF Message.command = "moves" THEN "log" ELSE "idle"]}
    /\ UNCHANGED <<accountVars, scanned, updates, deliveries, replies, ghostVars>>

ReadLiquid ==
    /\ job.stage = "idle"
    /\ job' \in {Sorry, [job EXCEPT !.stage = "receipts", !.idle = liquidUsdc, !.left = BotReceipts]}
    /\ UNCHANGED <<accountVars, scanned, updates, deliveries, replies, ghostVars>>

\* One receipt that cannot be read is left out of the total.
ReadReceipt == \E r \in job.left, answers \in BOOLEAN :
    /\ job.stage = "receipts"
    /\ job' = [job EXCEPT !.left = @ \ {r}, !.unread = @ \/ ~answers,
                          !.working = @ + IF answers THEN receipts[r] ELSE 0]
    /\ UNCHANGED <<accountVars, scanned, updates, deliveries, replies, ghostVars>>

AddsUp ==
    /\ job.stage = "receipts" /\ job.left = {}
    /\ job' = [job EXCEPT !.stage = "sending",
                          !.sent = IF job.idle + job.working = 0 THEN "nothing" ELSE "holding"]
    /\ UNCHANGED <<accountVars, scanned, updates, deliveries, replies, ghostVars>>

AnyRow(row) == TRUE  \* mutant: every row counts
IsMove(row) == row.kind = "moved"

\* The rows given, of those kept.
MovesIn(kept) == {i \in DOMAIN kept : i > Len(kept) - LogLimit /\ IsMove(kept[i])}
DatedIn(kept) == {i \in MovesIn(kept) : kept[i].dated}

ReadOn(dated) ==
    scanned \o [i \in 1..(Len(botLog) - Len(scanned)) |->
                  [kind |-> botLog[Len(scanned) + i], dated |-> dated]]

\* Service.For: the log is read on from where it was, unless the last read is fresh or this one
\* fails, which is no error; the blocks' dates may be missing.  The store may fail too.
CountMoves ==
    /\ job.stage = "log"
    /\ scanned' \in {scanned, ReadOn(TRUE), ReadOn(FALSE)}
    /\ job' \in {Sorry, [job EXCEPT !.stage = "sending", !.sent = "moves",
                                    !.count = Cardinality(MovesIn(scanned')),
                                    !.last = IF DatedIn(scanned') = {} THEN 0
                                             ELSE Max(DatedIn(scanned'))]}
    /\ UNCHANGED <<accountVars, updates, deliveries, replies, ghostVars>>

\* What was said, beside what there was to say it of.
Reply == [text |-> job.sent, idle |-> job.idle, working |-> job.working, count |-> job.count,
          last |-> job.last, unread |-> job.unread, still |-> job.still, message |-> Message,
          liquid |-> liquidUsdc, worth |-> WorthAtWork,
          grown |-> \E r \in SharePriced : worthOf[r] > 1 /\ receipts[r] > 0,
          moves |-> Cardinality({i \in DOMAIN botLog : botLog[i] = "moved"}),
          rows |-> Len(botLog), kept |-> scanned]

\* A message that cannot be sent is not sent again.
Sends ==
    /\ job.stage = "sending"
    /\ replies' \in {replies, Append(replies, Reply)}
    /\ Acknowledged
    /\ UNCHANGED <<accountVars, scanned, ghostVars>>

\* The request's time is up: Telegram gets 503 and posts again, whether or not the reply was out.
Overruns ==
    /\ job.stage # "none"
    /\ replies' \in {replies} \cup (IF job.stage = "sending" THEN {Append(replies, Reply)} ELSE {})
    /\ IF deliveries < MaxDeliveries THEN UNCHANGED <<updates, deliveries>>
       ELSE updates' = Tail(updates) /\ deliveries' = 0
    /\ job' = NoJob /\ overran' = overran + 1
    /\ UNCHANGED <<accountVars, scanned, posted>>

-----------------------------------------------------------------------------
(* The account. *)

Happens ==
    /\ happenings < MaxHappenings /\ happenings' = happenings + 1
    /\ job' = [job EXCEPT !.still = job.stage = "none"]
    /\ UNCHANGED <<scanned, updates, deliveries, replies, ghostVars>>

Opens ==
    /\ ~opened /\ opened' = TRUE /\ liquidUsdc' = liquidUsdc + 1 /\ botLog' = Append(botLog, "other")
    /\ Happens /\ UNCHANGED <<receipts, worthOf>>

Supplied(r) ==
    /\ liquidUsdc > 0 /\ liquidUsdc' = liquidUsdc - 1
    /\ receipts' = [receipts EXCEPT ![r] = @ + 1] /\ botLog' = Append(botLog, "moved")
    /\ Happens /\ UNCHANGED <<opened, worthOf>>

Withdrawn(r) ==
    /\ receipts[r] > 0 /\ receipts' = [receipts EXCEPT ![r] = @ - 1]
    /\ liquidUsdc' = liquidUsdc + worthOf[r] /\ botLog' = Append(botLog, "moved")
    /\ Happens /\ UNCHANGED <<opened, worthOf>>

Accrues(r) ==
    /\ receipts[r] > 0
    /\ IF r \in SharePriced THEN worthOf' = [worthOf EXCEPT ![r] = @ + 1] /\ UNCHANGED receipts
       ELSE receipts' = [receipts EXCEPT ![r] = @ + 1] /\ UNCHANGED worthOf
    /\ Happens /\ UNCHANGED <<opened, liquidUsdc, botLog>>

BotInit ==
    /\ opened = FALSE /\ liquidUsdc = 0 /\ botLog = <<>> /\ scanned = <<>> /\ happenings = 0
    /\ receipts = [r \in BotReceipts |-> 0] /\ worthOf = [r \in BotReceipts |-> 1]
    /\ updates = <<>> /\ deliveries = 0 /\ job = NoJob /\ replies = <<>>
    /\ posted = 0 /\ overran = 0

BotNext ==
    \/ Messages \/ Delivered \/ ReadAccount \/ ReadLiquid \/ ReadReceipt \/ AddsUp \/ CountMoves
    \/ Sends \/ Overruns
    \/ Opens
    \/ \E r \in BotReceipts : Supplied(r) \/ Withdrawn(r) \/ Accrues(r)

BotSpec == BotInit /\ [][BotNext]_botVars

BotTypeOK ==
    /\ liquidUsdc \in Nat /\ receipts \in [BotReceipts -> Nat] /\ worthOf \in [BotReceipts -> Nat \ {0}]
    /\ Len(scanned) =< Len(botLog) /\ deliveries \in 0..MaxDeliveries
    /\ job.stage \in {"none", "account", "idle", "receipts", "log", "sending"}
    /\ (job.stage = "sending") = (job.sent # "none")

\* What is said of an account that stood still was there, never more than it and less only by a
\* receipt that was not read or that is worth more than its number; and nothing is said of one in
\* a group.
HoldingsAreThere == \A i \in DOMAIN replies : LET r == replies[i] IN
    /\ r.text \in {"holding", "nothing"} /\ r.still =>
            /\ r.idle = r.liquid /\ r.working =< r.worth
            /\ r.working < r.worth => r.unread \/ r.grown
    /\ r.text # "direct-only" => r.message.private

\* The moves said are moves of the log, all of them when it was read to its end and fits the rows
\* given; the date said is the last one's, unless that row has none.
MovesAreTheLogs == \A i \in DOMAIN replies : LET r == replies[i] IN
    r.text = "moves" =>
        /\ r.count =< r.moves
        /\ r.count < r.moves => r.rows > Len(r.kept) \/ r.rows > LogLimit
        /\ r.last # 0 => r.kept[r.last].kind = "moved"

\* A message is answered once, but for a handling that overran the request's time.
AnsweredOnce == Len(replies) =< posted + overran

\* What the bot says of an account is so, and it says it once.
BotTellsTheTruth == HoldingsAreThere /\ MovesAreTheLogs /\ AnsweredOnce
=============================================================================
