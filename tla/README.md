# Helico, specified and verified

TLA+ specifications of the parts of Helico in which order, failure and
interleaving decide whether money and records stay right; TLC configurations
that check them on small instances; and TLAPS proofs of the facts that matter
most, for every value of the constants.

Paths below are relative to the repository. `PROJECT.json` maps each definition
to the source lines it stands for, and lists the runs, a mutation of the code
that each property catches, the hazards and the findings.

## The system

Helico keeps a user's idle stablecoins and tokens at work in lending markets
while they remain available to trade.

| Part | State it keeps | Operations | Talks to |
| --- | --- | --- | --- |
| **HelicoAccount** (`contracts/src/HelicoAccount.sol`, its proxy, `AccountAuth.sol`) | agent, permitted venues, venues ever permitted, refusal of upgrades, nonce; tokens and positions | owner's calls, signed calls and batches, `invalidateSignatures`, `supplyIdle`, `withdrawIdle`, upgrade, `escape` | any contract a batch names; lending venues |
| **HelicoAccountFactory** | none | `open`: CREATE2, idempotent | account |
| **HelicoAgent** | upgrade refusal | `onReport`: deadline, then `supplyIdle` or `withdrawIdle` on the account | forwarder, account |
| **Idle workflow** (`packages/plugins/cre/src`) | none between runs; configuration and a policy with an expiry | cron handler: read accounts, decide, write one report | RPC, subgraph, DON, forwarder |
| **HelicoMandateSwap** | a lock per strategy, receipts in flight | `swapExactIn`, `quoteExactIn` | Aqua's ledger, a market the maker named, the taker's callback |
| **HelicoOracleBoard** | a lock per strategy | `fill`, quotes bent by the inventory, cover out of a venue | Aqua, feed, venues, the taker's callback |
| **SwapVM instruction** | none | the cover inside a virtual machine | as the mandate swap |
| **CompoundVenue, MorphoVenue** | shares; a sampled rate | supply, withdraw, `poke` | Comet, a vault |
| **Activity scan** (`apps/be/internal/activity`) | rows and a cursor for each account, in SQLite | one request scans, saves and answers | RPC |
| **Prices** | rounds and hours in memory | search for the round in force | RPC |
| **Session, rate limit, conversations, subgraph cache, index questions** (`apps/be`) | nonces; buckets; rows; answers; calls on a stream | HTTP handlers | browser, SQLite, subgraph, an MCP server |
| **Swap assistant** (`apps/be/internal/swap`, the app's chat route) | none; budgets of time around models | read a sentence, check the draft, answer | language models, the index, the browser |
| **Telegram bot** (`apps/be/internal/telegram`) | none; Telegram keeps the queue | webhook, commands | Telegram, RPC, the activity store |
| **Subgraph** (`subgraph/src`) | entities for mandates and balances | event handlers | chain, Aqua's ledger |
| **Cards of the dApp** (`apps/app`) | what they read of the chain and the index, their presses | open and fund, ship, sweep, swap, draw the value line | wallet, chain, index, backend |
| **Landing page, SDK packages, scripts** | none, or an operator's | | |

How they interact: the owner signs batches (anyone relays them) and sets the
account's permissions in transactions of their own. The workflow reads accounts
and markets over RPC and mandates from the subgraph, and its report reaches the
account through the forwarder and HelicoAgent. Traders take mandates and boards
through the Aqua apps, which pull from the maker's account and, when it is short,
unwind its lending position. The backend and the subgraph say what all of this
did, and the cards act on what they say.

### What is hard about it

* **Re-entry.** The account runs calls the owner signed and lends an allowance to
  a venue; the swap calls a market the maker chose and then the taker; a fill
  calls the taker back before it is paid. Each may enter again before the first
  call is over, and a revert undoes only its own frame.
* **Torn and stale reads.** The workflow reads an account in two batches, decides
  some blocks later, and the report lands later still, or is carried again after
  it failed. A card acts on what it read before the wallet was asked, over an
  index that lags.
* **Convergence.** Supplying, refilling the buffer and migrating each undo part of
  what the others do, and only one move a run is made for all accounts and assets.
* **Overlapping requests.** Scans, price searches, sign-ins, cached questions and
  the limits on conversations each read under one lock or statement and write
  under another, with failures and lagging endpoints between.
* **Several ledgers of one thing.** The subgraph beside Aqua's ledger, the value
  line beside the account, the cookie beside the page that believes it.
* **Numbers at their edges.** Receipts and shares round, moves are clipped by
  liquidity and ceiling, caps and skews saturate, limits are counted before they
  are used.

For each part, what makes it correct:

* account: a nonce pays for one batch; no allowance outlives its supply but one a
  batch gave; nothing inside a transaction changes settings; a refusal and a
  revocation are final; without a batch of the owner's, third parties get no more
  than Aqua was approved for and money is supplied only where it is permitted;
* workflow: a report decided on what is still true is accepted, keeps the buffer,
  is worth its gas and improves the rate; revoked markets are emptied; the
  corrections end;
* mandate swap: a mandate's product never falls; the contract keeps nobody's
  receipts; a swap costs its maker what its ledgers give up and, where an unwind
  burns shares, less than one share more;
* board: the maker keeps the spread and the cap; a fill burns no more than its
  deficit is worth; nobody's share is diluted by anybody else's move;
* activity: no event is passed over; an answer is complete up to the block it
  names; rows are final; every event is found;
* services: a nonce signs in once, a page is ready for its own cookie alone; no
  address gets more than its refill; readers are not sent far back in time; a
  conversation's limits nearly hold; a reply is the reply to its own query; the
  hour's price is the round in force; the index agrees with the ledger; a swap is
  offered only where every part of it was checked, and a model is given its whole
  time; the bot says what the account held while it looked;
* cards: a press that knew of a mandate adds money; a sweep forgets nothing of
  what could be read; a swap lands as planned or for a reason that can be named;
  the value line moves as the principal did; a live mandate's quote can be pulled,
  and its maker had the money when it was shipped.

## The modules

| Module | Stands for | |
| --- | --- | --- |
| `HelicoAccount` | the account behind its proxy | detailed specification |
| `AccountCustody` | what the account promises about money, one committed transaction at a time | abstract specification |
| `IdleWorkflow` | the cron handler, the forwarder, `HelicoAgent.onReport`, and accounts and markets as they see them | composes workflow, agent and account |
| `MandateSwap` | `HelicoMandateSwap.swapExactIn`, Aqua and the maker's account around it | composes swap, ledger, market and account |
| `LendingVenue` | `CompoundVenue` and `MorphoVenue`: shares, rounding, liquidity, the sample | extended by `OracleBoard` |
| `OracleBoard` | `HelicoOracleBoard.fill`, its venues, Aqua, the feed and the taker | composes board and venues |
| `ActivityScan` | `Service.For` and the SQLite tables | detailed specification |
| `ActivityRecord` | what the backend promises of the record of an account, whoever reads and whatever fails | abstract specification |
| `AquaIndex` | the subgraph's handlers beside Aqua's ledger | service |
| `GraphCache` | the cache in front of the subgraph | service |
| `RateLimit` | buckets, the day's count, the sweep | service |
| `Session` | nonces, verification, the cookie, and the page's hook | composes server, browser and page |
| `Chats` | the limits on conversations | service |
| `AskIndex` | the question loop and its calls over a shared stream | composes loop, session and server |
| `PriceSearch` | `prices.go`: the rounds in force at the hours of a window | service |
| `SwapTurn` | one message of the chat: the route's patience, the handler's budget, the models, the draft and its checks | service |
| `Bot` | the Telegram webhook and its commands, beside an account that goes on moving | service |
| `PutToWork` | the card that opens, funds and ships, over a lagging index | card |
| `WayOut` | the withdraw card and `escape` | card |
| `SwapCard` | the swap card and its three routes | card |
| `ValueHistory` | the line of what an account was worth, and the rows it is drawn from | card |
| `Provide` | the two cards that ship, the allowances their mandates share, and the quote | card, beside takers and the agent |
| `Sums` | the sum of a function over a set, for everything that counts money | shared |
| `HelicoAccountProofs`, `IdleWorkflowProofs`, `MandateSwapProofs`, `OracleBoardProofs` | theorems about the modules they are named after | TLAPS |
| `BackendProofs` | theorems about `AskIndex`, `GraphCache`, `Chats`, `RateLimit`, `Session`, `AquaIndex`, `PriceSearch`, `SwapTurn` and `ActivityScan` | TLAPS |
| `CardProofs` | theorems about `PutToWork`, `WayOut`, `Provide`, `ValueHistory`, `SwapCard` and `Bot` | TLAPS |
| `ServicesProofs` | the services and cards together, as `MCServices` composes them | TLAPS |
| `SumsProofs` | lemmas about sums, cited by the modules above | TLAPS |
| `MC...` | instances for TLC: starting states, batches, the scenes | |

### HelicoAccount

Variables carry the contract's names. A transaction is a stack of `frames`, the
innermost last; each frame is an open call of a batch or an open supply and
records in `saved` what a revert would restore. `ExecuteBatchWithSignature`,
`ExecuteBatch` and `SupplyIdle` open a frame after every effect the code has
before its external call; `MakeCall` and `CallReturns` go through the batch one
call at a time; `VenueTakes` is the venue pulling what it may; the returning
actions carry out what the code does after the call (the allowance goes back to
zero); a failed call restores its frame. While a call is out, every entry point
open to strangers, to the agent and to the account itself is enabled. The
owner's own transactions start only with an empty stack, since the owner is an
externally owned account. `by` records who sent the transaction under way: the
account itself stands for the owner when what the owner sent is a batch.

A batch may make any call. The model tells them apart by what they do to the
account's money (`CallKinds`): value sent; an approval of the token, or of a
venue's receipts for Aqua (`Approve`); a venue supplied or asked to pay without
the account's own gates (`VenueTakesDirectly`, `VenueGives`); a setting of the
account (`CallSelf`, which fails); anything else (`touch`), which still hands
control away. A token or a receipt handed straight to somebody is value sent,
preceded for a receipt by a withdrawal.

An approval of Aqua outlives its batch. That is how an account is the maker of a
mandate (`AccountIsTheMaker.t.sol`; the SDK's `mandateSetupCalls` builds the
batch): from then on takers draw on the account (`Draw`), and swaps that are short
redeem its receipts (`DrawReceipts`), in transactions of their own with no batch
and no nonce. Here both may happen whenever somebody other than the account is
running, up to what was approved; that Aqua's ledger bounds a draw as well, and
that the taker pays for it, is the subject of `MandateSwap` and `Provide`.
`DepositFor` is anybody supplying a venue on the account's behalf, `gifted` what
came in that way. Every approval is for an amount and is used up. The SDK's are
for what is shipped; the test's are unlimited, modelled as an amount larger than
is ever drawn, and where a token does not count such an approval down, the promise
sets no limit to what Aqua draws. A position is what its venue owes, in the token:
shares are the subject of `LendingVenue` and `MandateSwap`. Left out: other tokens
than the one that is put to work, and approvals of anybody but Aqua and the venues.

The digest is the tuple it hashes (nonce, deadline, calls). A single signed call
is a batch of one: both paths check, spend and call in the same order. `Escape`
moves the idle token; receipts swept with it are `WayOut`'s subject.

`AccountCustody` knows three kinds of step. The owner changes settings
(`Configure`). The owner puts money in or takes it out (`OwnerTransfers`). Or
somebody makes a transaction (`Transact`), in which nothing is created or lost
and which either holds a batch of the owner's, sent or signed (`Decided`), or
stays within what was provided for (`WithinMeans`): third parties get no more than
Aqua's approval goes down by; no approval goes up; the account's money enters only
permitted venues, anything more being a stranger's gift; and money leaves a venue
never named only as its receipts were approved, or in the owner's transaction.
The refinement (`Custody`, at the end of `HelicoAccount`) maps every state inside
a transaction to what is committed: what the outermost frame would restore. The
property `KeepsCustody` is the abstract specification under this mapping.

### IdleWorkflow

A run is `StartRun`, then for each account `ReadMarkets` (first batch: agent,
idle balances, permissions, liquidity, rates) and `JudgeAccount` (second batch:
positions and demand, the decision, the contest among assets and with the best
account so far), then `FinishRun`, which hands at most one report to the
forwarder. `OnReport` is the whole of `onReport` with the account's checks and
the market's; a call that reverts leaves the report to be carried again until
its deadline. `DecideIdleMove`, `SupplyIdleSide`, `RaiseIdleSide`, `MigrateOut`,
`Sized`, `WorthSending`, `DecideForAsset`, `DecideAcrossAssets` and `LargestMove`
are the functions of the same names in `decision.ts`, `sizing.ts` and `index.ts`.

Around it, rates, cash, balances, permissions, agents, demand, index and policy
change at any moment. A run or report carries a ghost flag `fresh` that falls
when anything changes after the run began; the properties about what a decision
*should* be are stated for fresh reports, those about safety for all of them.

Assumed, and what it leaves out: a run ends within the period of its schedule
(`RunTicks`), so two runs do not overlap. Their reports do: one that failed may be
carried again after the next run's report of the same correction landed, and takes
the buffer; `BufferComesBack` says that it is brought back. The third read batch
of `chain.ts` is merged with the second. Delivery by signature, the policy hash,
and the text the language model adds are left out.

### MandateSwap

`Swap` goes from entry to where the swap first lets go of control: to the market
if the wallet is short (`SwapByUnwinding`), otherwise to the taker
(`SwapFromWallet`). `MarketReturns` checks the receipts, sends the dust home, and
pulls the token out; `TakerReturns` is the check that the price was pushed;
`SwapFails` restores the frame, for any failing check inside or in what was
called. While somebody else has control, sibling mandates can be swapped, pushed
to and docked, and the maker's agent can move idle capital. Aqua's `push` and
`dock` and the lending market are modelled from how this code uses them.

A rebasing receipt is worth one token. A share is worth its `price`, in parts of a
token (`Par` of them), and the price moves at any moment, between the pull of the
shares and their burn too (`Reprices`): `SharesFor` is the preview, rounded up,
asked for the pull and again by the market's burn; `Minted` rounds down. So an
unwind may cost the maker up to a share more than it pays out, and a fall of the
price in the middle makes it fail. `earned` is a ghost: what prices have brought
the maker, less the most that each conversion may have left to the market
(`Rounding`, one share less a part). The price is one number for all amounts; how
the market's own books make it is `LendingVenue`'s subject.

Left out: mandates that are ill-formed on purpose (a receipt that is a traded
token, equal tokens), the view `quoteExactIn` (in `Provide`), and the upgrade
path. Debt is opened and repaid only between transactions.

### LendingVenue and OracleBoard

`LendingVenue` is the arithmetic of the two venue contracts: shares minted
rounding down and burned rounding up against one virtual share and one virtual
asset, a market that accrues, loses, lends out its cash and rounds what it books
by up to `Dust`, and Morpho's sampled price, refreshed by everybody who comes by.

`OracleBoard` extends it. `FillBegins` is `fill` up to the taker's callback:
staleness, quote, cap, lock, cover (`VenueFor`, `Unwind`), pull; `FillEnds` the
check that Aqua's ledger shows the payment; `FillReverts` puts back what the
frame saved. In between anybody pushes, uses the venues, tries to fill again, and
the market moves. Ghosts: `start`, the ledger when the feed last moved, and
`gifts`, what was pushed and no completed fill asked for.

Assumed: one board, well formed (`_check`) and not past its expiry; its venues are
the project's own, so a market does not re-enter; the maker's position carries no
debt.

### ActivityScan

One request is `Visit` (cursor), `AskHead`, then `Touch`, or `ReadOwnLogs`,
`ReadTransfers`, `ReadTimes`, `Save`, then `Answer`. Any call may fail, an endpoint
may be `Lag` blocks behind, block times may be missing, a commit may roll back,
and a cursor that cannot be read counts as never written, as in
`store/activity.go`. Requests interleave at every step.

Seen from outside there are only the chain, the rows and what each visitor is told
(`told`, the block an answer under way is said to reach): `ActivityRecord`, which the
scan implements (`KeepsRecord`). The cursor is not part of it. It may go back, and
nothing that is promised depends on its going forward.

Assumed: what an endpoint tells of blocks up to the head it named is complete,
and the chain does not reorganise. The limit on rows in an answer is left to
`ValueHistory`, where it matters.

### The services

*AquaIndex.* Events are handled once their block is final, in order; a handler
that asks Aqua reads the end of that block. `ship` takes tokens it has not seen,
`dock` the tokens of one ship or none, and both emit what they were handed.
`revivals` and `muddled` are ghosts for the two ways the index goes astray.

*GraphCache.* A request looks under the lock, asks without it, files under it. An
answer is the moment at which the subgraph computed it.

*RateLimit.* `Allow` is one step, as it runs under one lock; time is in ticks, a
token is counted in the parts a tick adds. `Restart` empties both limits.

*Session.* The server verifies a signature and then spends its nonce (`Verify`,
`Spend`), other deliveries and sweeps between; the page asks `whoami` once for
each wallet, signs in, and believes the answer it hears last. `foreign` and
`switched` are ghosts: another page moved the cookie, the wallet changed under a
sign-in. A restart of the server only drops nonces and is left out.

*Chats.* Counting and writing are two steps; a write looks for its conversation
again.

*AskIndex.* The loop spends turns on queries, on queries sent back for want of
fields, and on one nudge; the session's post may fail after the server took it,
replies come in any order, late or never, and the stream may end.

*PriceSearch.* A request takes the latest round, the first of its phase, and then
level by level one probe for every sample still open, over caches all requests
share. The interpolated probe of the even levels is any round between the bounds,
which includes the one the code computes. A node may be `MaxLag` rounds behind
and then has no data for the newest; a phase may have passed over a round.

*SwapTurn.* A model is asked once for all it may take; what it drafts is parsed,
its action and tokens are looked up, its amount has to be one the token can hold,
and each check has its own way to fail. `standing` is how far the turn has come,
`spent` the time it has used, `tried` the models in the order asked. The turn ends
when the budget or the route's patience is spent (`Ends`). A model is outside and
drafts anything; of a figure only its decimal places count. `unreached` is the one
answer the handler has for every failure but a timeout: all models down, a model
that answered something unreadable (`garbled`, a ghost), and a message that is
empty or too long, for which none is asked (finding 27).

*Bot.* The webhook answers one message after the other; a command is a chain of
reads (`ReadAccount`, `ReadLiquid`, `ReadReceipt`, `CountMoves`), each of which may
fail, and `Sends`. `Overruns` is the limit over every request cutting the handler
short, after which Telegram posts the message again. `posted` and `overran` are
ghosts, and `still` says whether the account stood still while it was read.

### The cards

*PutToWork.* A card reads balances when it is mounted, asks the index for a
mandate, and presses; quote and hash check come between press and wallet, and a
batch lands whole or not at all. `knew` marks a press that knew of a mandate.

*WayOut.* The card's two reads (each may fail, or fall back), the list drawn up at
the press (`ReadLogs`, `ReadReceipts`), a wallet that may decline, `escape` as the
chain runs it, and a receipt whose status is not looked at; beside it the agent
supplies and withdraws, the owner permits, revokes and deposits. `left` says for
each receipt that stayed behind what made it stay.
Assumed: one card and one sweep followed at a time; the account is open; amounts
move whole; receipts are read in one step, since what is named does not depend on
when; Aave is permitted from the start; positions somebody opened on the account's
behalf at a market it never permitted are left out.

*SwapCard.* An amount (of dollars, turned into units by a feed, or of units), a
plan over three routes (Aqua's best payable position, the aggregator, Uniswap),
and a press that sends the plan's steps one by one. A card drawn anew has
forgotten its press, which goes on. `disturbed` marks a plan whose premises others
may have changed.
Assumed: allowances are read when the plan arrives; a plan that failed hides the
button; nothing else moves the wallet's money. The expiry of a Permit2 allowance,
a change of chain, ether as the output and the hash gate are left out.

*ValueHistory.* `Funded`, `PaidAway`, `IdleSupplied`, `IdleWithdrawn`, `TakerPaid`,
`Escaped` and `Credited` are everything that moves the account's dollars, one to a
transaction; each leaves the rows the chain would, dated or not. `Dated`,
`OwnMoves`, `LiquidStep`, `WorkingStep` and `ValueAt` are the fold. Two
points at one moment are kept, since the later one alone is drawn and is correct
by itself. Left out: an owner's batch that calls a market directly, an agent that
is a contract and joins its move to a fill, the side in ether, prices and
resampling.

*Provide.* The card over the account reads what is idle and what is earning
(`ReadIdle`, `ReadMarkets`), and ships a number for every token and receipt with
the approvals in one batch (`BatchLands`); the card over the wallet approves side
by side, without looking whether an approval went through, and then ships. Takers,
the owner's other payments, docks and the agent go on beside them. `Quotes` is
what a taker is told, `Pullable` what Aqua's allowance lets happen. A mandate's
side is `touched` once its allowance stopped being its own; `hollow` says of each
mandate shipped beyond its maker's money what had come in between. Fills of both
cards are priced on the constant product. Left out: the feed and the band, the
curve of SwapVM, the shares of a receipt, fees and expiry.

## The runs

| Run | Instance | Shows |
| --- | --- | --- |
| `account` | 2 scenes, below: 1 venue, 1 agent, 2 implementations (one with an upgrade key), 3 nonces, 2 times, depth 2, 2 signatures, 1 unit of the owner's and 1 a stranger's | type, `OneRunPerNonce`, `NoStandingAllowance`, `OnlyTheOwnerDecides`, `RevocationHolds`, and `KeepsCustody`: the account implements `AccountCustody` |
| `account_presigned` | signatures alone | `InvalidationTakesBackAll` fails (finding 1) |
| `workflow_moves` | 2 accounts, 1 asset, 2 markets, 8 starts, any 2 changes of 12 kinds | type, `FreshMovesHoldUp` (accepted, and the buffer left alone), `MovesPayOff` (worth their gas, and migrations to a better rate), `MovesAreProgress` (a move that lands on what it was decided on brings its account closer to rest) |
| `workflow_settles` | 1 account, 2 assets, 2 markets, 2 changes (revocation, gas, cash), a ceiling of half of what is to be moved, fairness | `CorrectionsFinish`: reports end (`Settles`), revocations are carried out (`RevokedIsEvacuated`), and what repeated reports took comes back (`BufferComesBack`) |
| `workflow_rank` | 2 assets, a revocation and a rate | `EvacuationGoesFirst` fails (finding 2) |
| `workflow_never_permitted` | a market never named | `EvacuationsAreOfRevokedMarkets` fails (finding 3) |
| `mandate_siblings` | 2 mandates of one maker, 2 markets (one share-priced, a share worth half a token or one and a half), 2 takers, depth 2, 5 calls | type, `HeldIsInFlight`, `ProductNeverFalls`, `LedgersAccountForEverything` |
| `board` | 1 board of quote alone, 2 venues (the first liquid, or lent out), depth 2, 4 calls, 2 prices | type, `SpreadIsKept`, `CapHolds`, `SharesNeverDiluted`, `CoverCostsItsDeficit` |
| `board_round_trip` | the board of `ForkOracleBoard.t.sol`, scaled down | `RoundTripCostsTheTaker` fails (finding 5) |
| `activity` | 2 requests, 3 blocks, 2 failures, lag 1, fairness | type, `NothingSkipped`, `KeepsRecord` (the scan implements `ActivityRecord`: rows are final, answers complete), `EventsAreFound` |
| `activity_forward` | 2 requests, nothing failing | `ForwardOnly` fails (finding 4) |
| `services` | fourteen scenes, below | type, `RowsFollowTheLedger`, `ReadersGoBackLittle`, `BurstBounded`, `NonceBuysOneSession`, `ReadyMeansOwnCookie`, `LimitsNearlyHold`, `QuestionsAreServed`, `InformedPressesAddMoney`, `SearchIsExact`, `WayOutIsComplete`, `SwapsAreAsPlanned`, `LineIsExact`, `ShipsKeepTheirWord`, `TurnsAreChecked`, `BotTellsTheTruth` |

A behaviour of `MCHelicoAccount` keeps to one of two scenes, since all of the
account's operations together are too many to exhaust; the theorems are about all
of them. In `decides` batches of one call (a payment, or a setting) are signed
early, invalidated and carried out, and the code is upgraded. In `trades` a batch
approves and supplies a venue and approves Aqua for token and receipt, another
asks the venue back, either sent or signed for the first nonce; the agent is set
and removed, takers draw, receipts are redeemed, strangers and the owner supply, and
`withdrawIdle` and `escape` take out. Permissions, `supplyIdle` (the owner's alone in
`decides`, where no agent is named), funding, calls that fail and batches carried
from inside a call are in both.

The services and cards share no state, so one run holds them all: a behaviour of
`MCServices` picks one (`scene`) and runs it alone, the others standing still in
one way of starting. The two wallets, addresses, requests, clients or cards of a
scene may be exchanged for one another, which is the symmetry of the run.

| Scene | Bounds |
| --- | --- |
| index | 1 mandate, 2 tokens, 2 blocks of up to 4 events, amounts to 2 |
| cache | 2 requests, 2 questions, 1 entry, lifetime 3, timeout 2, clock to 5 |
| limit | 2 addresses, 2 a minute, 3 a day, a day of 4 ticks, clock to 4, 1 restart |
| session | 2 wallets, 1 challenge, 2 deliveries, 2 connections, clock to 1 |
| chats | 3 clients, 2 conversations of 2 turns, 3 ever started |
| ask | 3 queries, 2 unsent |
| put | 2 cards, 3 kinds of sentence, 2 presses, 1 remount, 1 deposit |
| prices | 2 readers, samples at 2 times, histories with and without a gap, 4 rounds, 2 phases, 2 levels, lag 1 |
| way | 2 assets, 2 markets, 3 receipts, 2 moves of others |
| swap | 2 sizes, 2 positions, 2 states of their books, 1 move of feed or book, 2 presses, 1 reread |
| history | 2 markets (1 recognised), 3 transactions of 1 or 2 (up to five rows), answers of 4 rows, interest 1 |
| provide | 2 cards, 2 of each side held, a ceiling of 2, a payment of 2, 2 presses, 1 fill or payment out, 1 move of the agent |
| turn | 2 models with and without keys, delays and limits in units of two seconds, drafts of every action and every fault |
| bot | 2 receipts (1 priced as a share), 1 message, 2 posts of it, 3 things that happen to the account, 1 row of the log |

Why the bounds are enough to be worth running. *Account*: depth 2 is the first at
which a call nests in a call, and three nonces are needed for use, invalidation
and a signature made early; for custody, the one unit of the owner's is supplied,
redeemed and drawn, which needs every kind of call once, sent and signed, and a
stranger's unit more; the theorems remove these bounds. *Workflow*: two of
each thing that competes (accounts, assets, markets); amounts up to 5 put every
threshold (floor, deadband, round trip, ceiling, liquidity) strictly inside the
range; two changes are enough for a change between the two read batches and one
before the report lands; the safety theorems remove these bounds. *Swap*: depth 2
lets a sibling run inside a market call and inside a taker's callback, and five
calls from outside are enough for two nested swaps, their pushes and one
interference; the ledgers promise more than the wallet holds, so both the direct
and the unwinding path are taken; at the higher price of a share most amounts do
not convert without a rest, and the price moves between pull and burn. *Board*: a bend as wide as the spread, a cap of
two fills, and a venue that is lent out before the second one is needed; the
theorems remove the bounds. *Activity*: three blocks distinguish below, at and
above a cursor; the safety theorems remove the bounds. *Services*: two of whatever
overlaps and a third where counting needs it; clocks pass the lifetime, the sweep
and midnight once; each bound is at least one more than what the mutation of its
property needs to be noticed. A single challenge is enough for
`NonceBuysOneSession`, which speaks of one nonce at a time, and is proved for any
number.

`CHECK_DEADLOCK FALSE` appears where a bound on calls or nonces ends a
behaviour by exhausting it; the program itself is never obliged to continue.

## Fairness

Safety runs assume none. `workflow_settles` assumes that the schedule keeps coming
round (`Tick`), that a run that started finishes, that `writeReport` answers (with
a landed or a reverted call), and that a report past its deadline is given up.
These are what the cron trigger and the DON provide; nothing obliges the forwarder
to carry a failed report again, so that has no fairness. The world has none: it
stops changing when `MaxChanges` is used up, which is the premise of
`CorrectionsFinish`. `activity` assumes that visitors keep coming, that the
request of each makes progress (every call has a timeout), and that a cursor goes
stale with the clock; failures are bounded by `MaxFailures`, so an endpoint
answers eventually.

## What is proved

All proofs are checked to the last leaf; they rest only on the named assumptions
about constants in the modules. No bound has a particular value in them.

**HelicoAccountProofs.** The difficult case of every proof is the revert, which
brings back a state recorded several calls ago. An invariant survives it only if
each recorded state satisfied it too, so each inductive invariant speaks of the
current state and of every `saved` on the stack.

* `TypeCorrect`: `Spec => []TypeOK`.
* `NonceSingleUse`: no nonce runs two batches. `NonceInv` says nothing has run
  from the current nonce on, in the present and in every saved state.
* `AllowanceEnds`: no venue keeps an allowance between transactions, but one a
  batch gave it. `AllowanceInv` ties each other allowance, saved ones included, to
  a supply to that venue further out on the stack.
* `OwnerDecides`: settings, implementation and refusal change by the owner's
  transaction alone, or by an upgrade key not yet refused; an action property, one
  step for each action.
* `RevocationIsFinal`: a nonce behind the present one never runs again.
  `RevocationInv` adds that a revert only takes runs away, and only to a nonce
  still past every revocation made before.
* `CustodyIsKept`: the account implements `AccountCustody`. What a promise about
  whole transactions needs is a relation that holds from the committed state, the
  one the outermost frame would go back to, to the present state and to every saved
  one (`Reached`): either the owner has been asked since (`Licensed`), or what
  happened stayed within the means (`Means`), which add up from step to step
  (`MeansAdd`) but for the allowances that supplies still under way have given,
  each taken back when its supply returns (`MeansShed`). `CustodyInv` adds that
  supplies under way go to permitted venues, and that a batch under way was the
  owner's or has spent a nonce, now and in every state a call it made would go back
  to. When the stack empties, one abstract step has happened, or none. Worth is a
  sum over venues, which are assumed finite in number.

**IdleWorkflowProofs.** As long as a run is fresh, what it read is what is there,
for the accounts read so far; the best move carried from account to account was
sized on such a view (`RunInv`).

* `TypeCorrect`, and `FreshMovesAreGood`: a fresh move is accepted, and a fresh
  supply leaves the buffer.
* `MovesAreWorthIt`: that a move clears floor, deadband and ceiling, and a migration
  twice the deadband, follows from the sizing alone and holds of every report, fresh
  or not.
* `ProgressIsMade`: the `Distance` of an account's asset from rest is three numbers in
  the order of their weight: what lies at markets the owner does not permit, what the
  buffer is short of, and what lies idle beyond it or at a market when a better one is
  to be had. An evacuation lowers the first whatever it does to the others; a refill
  lowers the second and touches no revoked market; a supply turns idle money into
  placed money, a migration takes it from a place that has a better one, which is why a
  misplaced unit counts twice, idle once. `EvacuationIsProgress` and
  `OrdinaryIsProgress` say so of a decision on the view it was made on, and
  `LandingIsProgress` of the report that carries it out.
* `DescentsEnd`: these distances are always triples of natural numbers, and every set
  of them has one that none is closer than, so no endless row of moves is progress.
  It is the part of `CorrectionsFinish` that can be proved without fairness: as long
  as nothing else moves, supply, refill and migration cannot undo one another for ever.

**MandateSwapProofs.** `TypeCorrect`, and three facts about nested swaps.

* `ProductsAreKept`. An open swap has lowered its mandate's product, or is about
  to, and is owed the price. `SwapInv` compares every state on the stack, and the
  present one, with what was committed, given the swaps open further out; the
  lemmas about the curve (`CurveHolds`, `QuoteHolds`) say that the price the code
  computes pays for what it takes, rounding included.
* `OnlyInFlightIsHeld`. `HeldInv`: the receipts the contract holds, in the present
  and in each saved state, are those of the frames further out that wait for a
  market.
* `EverythingIsAccountedFor`. `WholeInv`: what the maker has beyond its ledgers,
  the receipts in flight included and what prices have moved set aside, is at no
  point of a transaction, and in no saved state, below what it was when the
  transaction began. A conversion, in or out, costs less than one share at the
  price of its moment, which is what the ghost `earned` allows for; a change of
  price moves worth and ghost alike.

**OracleBoardProofs.** `BoardTypeCorrect`, `TheCapHolds`, `NobodyIsDiluted`,
`CoveringCostsTheDeficit` and `TheSpreadIsKept`. First the arithmetic: what the
two roundings of a venue do to the worth of a share, and what a deficit costs in
shares. Then `BooksInv`: the books, saved ones included, are in order, the open
fill owes its payment to the gifts pushed meanwhile, and the cap has room for it.
`TheSpreadIsKept` is about the boards on which it is true: those whose bend is at
most the whole spread (finding 5 is a board where it is wider), at a positive
answer of the feed. `WorthInv`: with its base at the bid of an empty inventory,
the board is worth no less than when the feed last moved, and an open fill leaves
it so whether it is paid or put back.

**BackendProofs.** One part for each service, each with the type invariant of its
module.

* `OneSessionPerNonce`, `ReadyPagesAreTrue` (`Session`): a nonce still filed has
  bought nothing, and is filed under the time its challenge was made. As long as no
  other page moved the cookie and no wallet changed under a sign-in, every sign-in
  under way is for the connected wallet, and a question that still counts was asked
  with the cookie of now, or one these sign-ins or a sign-out have replaced.
* `NobodyGoesFarBack` (`GraphCache`): whatever arrives was computed at most a
  timeout ago, and what is filed was filed after everything its readers were told
  from elsewhere.
* `QuestionsGetTheirDue` (`AskIndex`): a query and its call share a number that the
  server hands back, and a turn is spent by a query read, a query never sent or the
  nudge, by nothing else.
* `LimitsAreNearlyKept` (`Chats`): the property is inductive as it stands, once
  nobody holds a conversation that has not been started; what is proved beside it
  is how the counts of rows and of requests about to write move together.
* `BurstsAreBounded` (`RateLimit`): by `RoomIsLeft`, since any moment, what an
  address called and what it could call now are together at most the full buckets
  of each life and the refill; a swept bucket would have been full. A past stretch
  stays as it was.
* `TheIndexFollows` (`AquaIndex`): a row and the events of the block still to be
  read add up to the ledger's balance, but for the pairs that moved after a dock of
  their block; a mandate is active as far as its last event was read; the count and
  the returns add up to the active mandates.
* `SearchesAreExact` (`PriceSearch`): the bounds of each open sample enclose the
  round in force. Assumed: the rounds of a phase are in the order of their times,
  and there are levels enough to close the bounds.
* `MessagesAreChecked` (`SwapTurn`): the budget is as long as all the models
  together, the queue of models names each once and in order, an intent is there
  only where every check passed, and a refusal is the last step of the draft.
* `NothingIsSkipped`, `RecordIsKept` (`ActivityScan`): a request saves above a cursor
  it read some time ago, while the stored cursor may have moved anywhere, backwards
  included. `ScanInv` says that whatever a cursor has ever said was true: each request
  in progress carries a block below which nothing is missing, and has found everything
  of the kinds read so far between it and the head it was told. `RecordIsKept` then
  goes through the steps of a request: one that ends in an answer is a `Tell` of
  `ActivityRecord`, sending it a `Part`, and everything between is seen by nobody.
  That answers are complete and rows final (`AnswersHoldUp`, `RowsStay`) is proved
  beside it.

**CardProofs.** One part for each card, and the bot.

* `InformedPressesPay` (`PutToWork`): the account holds what the last mandate
  covered, and a card that knows of a mandate is enabled only when its press will
  add something.
* `NothingIsForgotten` (`WayOut`): while the reading under way is fresh, its sums
  are the account's; the list names whatever the log or the fallback told of, save
  what did not answer.
* `ShipsKeepWord` (`Provide`): a side nobody else drew on is covered by its
  allowance, and what a card read is still there unless something was paid out or
  moved since.
* `TheLineIsExact` (`ValueHistory`): the steps of the fold up to a transaction add
  up to what the account's principal was after it, the rows being in the order of
  transactions. Assumed: finitely many markets, none of them "nobody".
* `PressesDoAsPlanned` (`SwapCard`): an undisturbed plan's position can pay, each
  allowance is there or among the steps to come, a swap pays with what its own wrap
  left, the wrapped money is what was there and what presses wrapped and did not
  use, and the amount planned is the amount read unless dollars were read again.
  Assumed: amounts below the unlimited approval.
* `TheBotTellsTheTruth` (`Bot`): while the account stands still, what has been added
  up is the receipts read, less those whose read failed; the rows kept are the
  first of the log; replies sent and messages queued are together at most what was
  posted and what overran.

**ServicesProofs.** `ServicesTypeCorrect`: the services share no state, and `MCServices`
runs one of them, so its type invariant follows from the fourteen proved above, scene
by scene.

**SumsProofs.** Induction over data is out of reach of the provers, and the sums
over sets that count money are recursive. `SumsProofs` gets round it for this one
function: the recursion of the fold behind `Sums` has a solution, and only one, by a least
counterexample in the size of the set, which is first-order. The lemmas that
follow (the sum of nothing, with one element more, of one changed element, of
terms that are all no larger) are what the other modules cite.

Only model-checked: liveness, that is `CorrectionsFinish` and `EventsAreFound`,
since fairness and ENABLED are beyond TLAPS, and the runs that expect a violation. The
endless behaviour itself, a row of moves that never ends, is beyond it too: a theorem
about it would be an induction over the steps of a behaviour, so `DescentsEnd` stops
at the order of the distances.

## Findings

Where what the code does and what its comments, documents or tests say disagree.
The first five are runs that expect a violation; in the others a passing property
names the exception, and its states are reached.

1. `invalidateSignatures` raises the nonce by one, and a digest may name any
   nonce: an authorisation made for the next nonce, useless before, becomes valid
   by the invalidation. The comment says every unused signature is taken back.
   `RevocationHolds` is what does hold, and is proved.
2. An evacuation is ranked by the rate gap of its asset like any other move; the
   comment says it outranks them regardless. `CorrectionsFinish` shows that it
   still happens once others have settled.
3. A listed market the owner never named, in which somebody supplied on the
   account's behalf, is evacuated by the workflow and refused by the account.
4. The activity cursor can move backwards, when the slower of two requests saves
   last; it is documented as forward-only. `NothingSkipped` holds nevertheless,
   and is proved: the cost is reading blocks twice.
5. A board whose bend is wider than its spread pays a taker for a round trip: the
   sale is priced before the inventory it brings, the purchase after. A test says
   the round trip costs the taker. `SpreadIsKept` is what does hold, and is proved.
6. A mandate docked and shipped again is active without being counted
   (`RowsFollowTheLedger`).
7. A movement after a dock of its mandate in one block is counted twice
   (`RowsFollowTheLedger`).
8. A card whose index has not answered, or a second press before the wallet is
   asked, ships a second mandate over the same money (`InformedPressesAddMoney`).
9. A sign-in goes on when the wallet changes, and a page can be ready for one
   wallet with the other's cookie (`ReadyMeansOwnCookie`).
10. A round without data is probed at every level, and ends the search it is met
    in (`SearchIsExact`).
11. A sweep whose list was a fallback, whose market did not answer, or whose
    transaction reverted ends in the same word as a complete one (`WayOutIsComplete`).
12. An account that holds ether alone is told that it holds nothing
    (`WayOutIsComplete`).
13. A swap card can show one amount and sign a plan made for another
    (`SwapsAreAsPlanned`).
14. A press after a failed one wraps and approves again (`SwapsAreAsPlanned`).
15. Requests that miss together all go upstream, where the comment has them share
    one (`ReadersGoBackLittle`).
16. Interest taken out of a market never appears on the value line, which a comment
    says it does (`LineIsExact`).
17. The line starts beside the money whose rows were cut from the answer or stored
    without a date; it is documented as exact (`LineIsExact`).
18. A live mandate quotes what Aqua cannot pull, after a smaller ship, a sibling's
   fill, a payment in the side now asked for, or an approval that failed unseen:
   an approval is made for exactly one mandate and shared by all, and the quote
   does not read it (`ShipsKeepTheirWord`).
19. A card that reads idle and working money apart counts twice what the agent
   moves in between, and ships a ceiling nobody can pay (`ShipsKeepTheirWord`).
20. A slow model leaves the reading of the index less than its time, and the turn is
    cut with an answer in hand; the budget is documented as that of alternatives
    (`TurnsAreChecked`).
21. The app's route gives up after 50 seconds and says that the backend is bounded
    at 40; with two models and the default timeouts it may take 62
    (`TurnsAreChecked`).
22. A refusal for one unknown token can name both (`TurnsAreChecked`).
23. The bot adds up receipts as if each were worth one unit, and two of the three are
    shares (`BotTellsTheTruth`).
24. A receipt that could not be read is passed over, and the bot can say that an
    account at work holds nothing (`BotTellsTheTruth`).
25. The count of moves is that of the rows kept, 200 at most and as of the last scan
    that worked (`BotTellsTheTruth`).
26. A command may take longer than its request is allowed; Telegram posts the message
    again, and a reply goes out twice (`BotTellsTheTruth`).
27. A message is told that the model could not be reached when the first one answered
    unreadably and the others were not asked, or when the message was too long and
    none was (`TurnsAreChecked`).

## Plan

Done, in the order of what matters most: custody, the agent that moves money
unattended, trading against it, the record of it, the services and cards around
it; and a theorem for every safety property the passing runs check.

To come:

1. Two runs of the workflow that read at the same time, which the schedule allows
   when one takes longer than its period.
2. The chat page and the list of conversations beside it: a cached list kept over a
   change of wallet, a deletion that a refetch brings back.
3. The mandate card's own reads and revocation, beside the card that ships.
4. Progress of the services under fairness: a search that is answered, a sign-in
   that comes to an end.

## Not modelled, and why

The factory: one atomic check and deployment. The proxy of the Aqua apps: an
upgrade by a key, as `HelicoAccount` has it. `HelicoTaker`: one of the takers
`MandateSwap` allows. The SwapVM instruction: the cover path of `MandateSwap`
inside a virtual machine outside this repository. How near the sampled rate of a
`MorphoVenue` is to its market's: `LendingVenue` samples as the code does, nothing
in the code promises a distance, and `IdleWorkflow` lets a rate change at any
time. Signature encoding and recovery, ABI decoding, decimal formatting: functions
without state, taken as what they are for. Delivery by signature, the relay and
the explanation of the workflow: an encoding, a post and a text. HTTP routing,
configuration, blog, and the handlers of the factory and the router in the
subgraph: rows and pages copied from what they are given.

Most of the repository by lines is of the kinds named last: views of the dApp and
the landing page, components of a user-interface library, icons, formatting, thin
clients of third-party interfaces, and operators' scripts run by hand. They keep no
state that anything else relies on, and a model of them would restate them.
