--------------------------- MODULE HelicoAccount ---------------------------
(***************************************************************************)
(* One Helico account: the owner's contract behind its own proxy.          *)
(*                                                                         *)
(* The account can be driven by four parties: the owner, who sends         *)
(* transactions; anyone at all, who may carry an authorisation the owner   *)
(* signed; the agent, who moves idle capital between the account and the   *)
(* lending venues the owner permitted; and the upgrade key.                *)
(*                                                                         *)
(* A transaction is not one step here.  The account calls arbitrary code   *)
(* and lends an allowance to a venue, and while it waits for that call to  *)
(* return anybody may enter it again.  Every open call is a frame of       *)
(* `frames`, innermost last, with the state it goes back to if it reverts. *)
(* The owner is an externally owned account (executeWithSignature recovers *)
(* a key), so the owner's own transactions start only when no call is open.*)
(*                                                                         *)
(* A batch may approve Aqua, and from then on takers draw on the account   *)
(* in transactions of their own, at any moment it is not in control: how   *)
(* an account is the maker of a mandate.                                   *)
(***************************************************************************)
EXTENDS Integers, Sequences, FiniteSets

CONSTANTS
    Owner,            \* HelicoAccountProxy.OWNER
    Account,          \* the account's own address: msg.sender of a call it makes to itself
    Agents,           \* addresses the owner may nominate
    Nobody,           \* the zero address
    Venues,           \* addresses with the shape of a lending pool
    Aqua,             \* Aqua, which mandates are settled through
    Implementations,  \* contracts with code the proxy may be pointed at
    UPGRADER,         \* the upgrade key each implementation carries, or Nobody
    Batches,          \* the call lists the owner may want run
    Amounts,          \* amounts of idle capital a caller may name
    Funds,            \* how much the owner has to begin with
    MaxNonce,         \* bound: the last nonce that is modelled
    MaxTime,          \* bound: the last block time that is modelled
    MaxDepth,         \* bound: calls open at once
    MaxSigned,        \* bound: authorisations the owner signs
    MaxGifts          \* bound: what strangers supply a venue with, of their own

\* Who may be approved to pull the account's token.
Spenders == Venues \cup {Aqua}
\* What a call of a batch is: value sent; nothing of note; a setting of the account itself; an
\* approval of the token, or of a venue's receipts for Aqua; or a venue supplied, or asked to pay
\* the account, without the account's own gates.
CallKinds == {"pay", "touch", "permit", "approve", "lend", "supply", "withdraw"}
Calls == {c \in [kind : CallKinds, to : Spenders, amount : Nat] :
             c.kind \in {"lend", "supply", "withdraw"} => c.to \in Venues}
Nonces == 0..MaxNonce
Times == 0..MaxTime
Keys == {UPGRADER[i] : i \in Implementations} \ {Nobody}
Authorisations == [nonce : Nonces, deadline : Times, calls : Batches]

ASSUME AddressAssumption ==
    /\ Owner \notin Agents \cup {Account, Nobody}
    /\ Account # Nobody
    /\ Nobody \notin Agents
ASSUME VenuesAssumption == IsFiniteSet(Venues) /\ Aqua \notin Venues
ASSUME ImplementationAssumption == Implementations # {} /\ DOMAIN UPGRADER = Implementations
ASSUME BatchAssumption == Batches \subseteq Seq(Calls)
ASSUME BoundAssumption ==
    /\ Amounts \subseteq Nat /\ Funds \in Nat
    /\ MaxNonce \in Nat /\ MaxTime \in Nat /\ MaxDepth \in Nat /\ MaxSigned \in Nat
    /\ MaxGifts \in Nat

VARIABLES
    agent,                \* who may move idle capital, or Nobody
    permittedVenue,       \* venues money may be sent to
    venueEverPermitted,   \* venues the owner has ever named
    autoUpgradeRefused,   \* the upgrade key has been shut out
    implementation,       \* the code behind the proxy
    nonce,                \* signed batches accepted or invalidated so far
    wallet,               \* the token the account holds
    position,             \* what each venue owes the account
    allowance,            \* what each venue, and Aqua, may still pull from the account
    receiptAllowance,     \* what Aqua may still pull of each venue's receipts
    paid,                 \* what third parties have had of the account, less what they put in
    ownerHolds,           \* what the owner has outside the account
    signed,               \* authorisations the owner has put a signature to
    frames,               \* open calls, innermost last
    now,                  \* block.timestamp
    runs,                 \* history: batches carried out under each nonce
    by,                   \* history: who sent the transaction in hand, Account when the owner
                          \* sent it a batch, Nobody for a stranger or a relayer
    gifted,               \* history: what strangers have supplied each venue on its behalf
    approved,             \* history: who a batch has approved
    takenBack             \* history: what was signed when the owner last invalidated

vars == <<agent, permittedVenue, venueEverPermitted, autoUpgradeRefused, implementation, nonce,
          wallet, position, allowance, receiptAllowance, paid, gifted, approved, ownerHolds, signed,
          frames, now, runs, by, takenBack>>
settings == <<agent, permittedVenue, venueEverPermitted>>
code == <<autoUpgradeRefused, implementation>>
approvals == <<allowance, receiptAllowance, approved>>
money == <<wallet, position, approvals, paid, gifted, ownerHolds>>
outside == <<signed, now, takenBack>>

-----------------------------------------------------------------------------
(* Calls in progress. *)

\* What a reverting call puts back.
Snapshot == [nonce |-> nonce, wallet |-> wallet, position |-> position,
             allowance |-> allowance, receiptAllowance |-> receiptAllowance,
             approved |-> approved, paid |-> paid, gifted |-> gifted, runs |-> runs, by |-> by]

Idle == frames = <<>>
Top == frames[Len(frames)]
Pop == SubSeq(frames, 1, Len(frames) - 1)

BatchFrame(calls) ==
    [kind |-> "batch", calls |-> calls, venue |-> Nobody, out |-> FALSE, saved |-> Snapshot]
SupplyFrame(v) ==
    [kind |-> "supply", calls |-> <<>>, venue |-> v, out |-> TRUE, saved |-> Snapshot]

\* Somebody other than the account is running: either no transaction has
\* reached the account yet, or the account is waiting for a call it made.
ControlIsOutside == ~Idle => Top.out

CanEnter == ControlIsOutside /\ Len(frames) < MaxDepth

\* A transaction is known by the address that sent it, a call inside it is not.
SentBy(sender) == by' = IF Idle THEN sender ELSE by

\* A revert undoes everything since the frame was opened.
Revert ==
    /\ nonce' = Top.saved.nonce
    /\ wallet' = Top.saved.wallet
    /\ position' = Top.saved.position
    /\ allowance' = Top.saved.allowance
    /\ receiptAllowance' = Top.saved.receiptAllowance
    /\ approved' = Top.saved.approved
    /\ paid' = Top.saved.paid /\ gifted' = Top.saved.gifted
    /\ runs' = Top.saved.runs
    /\ frames' = Pop
    /\ UNCHANGED <<settings, code, outside, ownerHolds, by>>

-----------------------------------------------------------------------------
(* The owner's settings. *)

\* `msg.sender != owner()` at the head of every setting.
IsOwnerOrSelf(sender) == sender \in {Owner, Account}  \* mutant: a self call passes
IsOwner(sender) == sender = Owner

SetAgent(x) ==
    /\ Idle
    /\ agent' = x
    /\ SentBy(Owner)
    /\ UNCHANGED <<permittedVenue, venueEverPermitted, code, nonce, money, outside, frames, runs>>

PermitVenue(v, allowed) ==
    /\ permittedVenue' = IF allowed THEN permittedVenue \cup {v} ELSE permittedVenue \ {v}
    /\ venueEverPermitted' = IF allowed THEN venueEverPermitted \cup {v} ELSE venueEverPermitted
    /\ UNCHANGED <<agent, code, money, outside, nonce, runs>>

OwnerPermitsVenue(v, allowed) ==
    /\ Idle
    /\ PermitVenue(v, allowed)
    /\ SentBy(Owner)
    /\ UNCHANGED frames

\* The nonce invalidateSignatures leaves behind.
SameNonce == nonce  \* mutant: the nonce is written back unchanged
NonceBefore == nonce - 1  \* mutant: steps the wrong way
InvalidatedNonce == nonce + 1

\* Advances past the current nonce.  The history keeps what was signed so far,
\* and which of it named a nonce the account has now left behind.
InvalidateSignatures ==
    /\ Idle
    /\ nonce < MaxNonce
    /\ nonce' = InvalidatedNonce
    /\ takenBack' = takenBack \cup {[auth |-> a, reached |-> a.nonce <= nonce] : a \in signed}
    /\ SentBy(Owner)
    /\ UNCHANGED <<settings, code, money, signed, now, frames, runs>>

RefuseAutoUpgrade ==
    /\ Idle
    /\ ~autoUpgradeRefused
    /\ autoUpgradeRefused' = TRUE
    /\ SentBy(Owner)
    /\ UNCHANGED <<settings, implementation, nonce, money, outside, frames, runs>>

\* mutant: the refusal is recorded and never consulted
MayUpgradeAlways(sender) ==
    \/ IsOwner(sender)
    \/ UPGRADER[implementation] # Nobody /\ sender = UPGRADER[implementation]

\* _requireMayUpgrade, under the code now behind the proxy.
MayUpgrade(sender) ==
    \/ IsOwner(sender)
    \/ /\ ~autoUpgradeRefused
       /\ UPGRADER[implementation] # Nobody
       /\ sender = UPGRADER[implementation]

Upgrade(sender, i) ==
    /\ Idle
    /\ MayUpgrade(sender)
    /\ implementation' = i
    /\ SentBy(sender)
    /\ UNCHANGED <<settings, autoUpgradeRefused, nonce, money, outside, frames, runs>>

-----------------------------------------------------------------------------
(* Acting on the owner's behalf. *)

\* The owner signs off chain.  The digest takes whatever nonce is put into it.
Sign(a) ==
    /\ Idle
    /\ Cardinality(signed) < MaxSigned
    /\ signed' = signed \cup {a}
    /\ UNCHANGED <<settings, code, money, nonce, frames, now, runs, by, takenBack>>

\* The digest is rebuilt over the account's own nonce before the key is recovered.
NamesReachedNonce(a) == a.nonce <= nonce  \* mutant: any nonce up to the current one
NamesNonce(a) == a.nonce = nonce

\* Anyone carries a signed batch, from outside or from inside a call.  The nonce
\* is spent before the first call is made.
ExecuteBatchWithSignature(a) ==
    /\ CanEnter
    /\ a \in signed
    /\ now <= a.deadline
    /\ NamesNonce(a)
    /\ nonce < MaxNonce
    /\ nonce' = nonce + 1
    /\ runs' = [runs EXCEPT ![a.nonce] = @ + 1]
    /\ frames' = Append(frames, BatchFrame(a.calls))
    /\ SentBy(Nobody)
    /\ UNCHANGED <<settings, code, money, outside>>

\* The owner sends the same list in a transaction of their own.
ExecuteBatch(calls) ==
    /\ Idle
    /\ MaxDepth > 0
    /\ frames' = <<BatchFrame(calls)>>
    /\ SentBy(Account)
    /\ UNCHANGED <<settings, code, money, outside, nonce, runs>>

\* The batch while one of its calls runs, and once that call has returned.
Waiting(frame) == [frame EXCEPT !.out = TRUE]
Resumed(frame) == [frame EXCEPT !.out = FALSE, !.calls = Tail(@)]

Running == ~Idle /\ Top.kind = "batch" /\ ~Top.out /\ Top.calls # <<>>

\* The next call of the batch leaves the account, with its value if it carries one.
MakeCall ==
    LET call == Head(Top.calls) IN
    /\ Running
    /\ call.kind \in {"pay", "touch", "supply", "withdraw"}
    /\ IF call.kind = "pay"
       THEN /\ wallet >= call.amount
            /\ wallet' = wallet - call.amount /\ paid' = paid + call.amount
       ELSE UNCHANGED <<wallet, paid>>
    /\ frames' = [frames EXCEPT ![Len(frames)] = Waiting(Top)]
    /\ UNCHANGED <<settings, code, position, approvals, gifted, ownerHolds, outside, nonce, runs, by>>

\* An approval, of the token or of a receipt: nothing else runs in it.
Approve ==
    LET call == Head(Top.calls) IN
    /\ Running
    /\ \/ /\ call.kind = "approve"
          /\ allowance' = [allowance EXCEPT ![call.to] = call.amount]
          /\ approved' = approved \cup {call.to}
          /\ UNCHANGED receiptAllowance
       \/ /\ call.kind = "lend"
          /\ receiptAllowance' = [receiptAllowance EXCEPT ![call.to] = call.amount]
          /\ UNCHANGED <<allowance, approved>>
    /\ frames' = [frames EXCEPT ![Len(frames)] = Resumed(Top)]
    /\ UNCHANGED <<settings, code, wallet, position, paid, gifted, ownerHolds, outside, nonce, runs, by>>

\* A batch whose target is the account itself: permitVenue then sees the account
\* as its caller, not the owner, and the batch reverts with it.
CallSelf(v) ==
    /\ Running
    /\ Head(Top.calls).kind = "permit"
    /\ IF IsOwner(Account)
       THEN /\ PermitVenue(v, TRUE)
            /\ frames' = [frames EXCEPT ![Len(frames)] = Resumed(Top)]
            /\ UNCHANGED by
       ELSE Revert

\* The batch waits for a call of this kind.
Calling(kind) == ~Idle /\ Top.kind = "batch" /\ Top.out /\ Top.calls # <<>> /\ Head(Top.calls).kind = kind

CallReturns ==
    /\ Calling("pay") \/ Calling("touch")
    /\ frames' = [frames EXCEPT ![Len(frames)] = Resumed(Top)]
    /\ UNCHANGED <<settings, code, money, outside, nonce, runs, by>>

\* A venue the batch supplies takes no more than a batch has approved it for.
VenueTakesDirectly(x) ==
    LET v == Head(Top.calls).to IN
    /\ Calling("supply")
    /\ x <= allowance[v] /\ x <= wallet
    /\ wallet' = wallet - x
    /\ position' = [position EXCEPT ![v] = @ + x]
    /\ allowance' = [allowance EXCEPT ![v] = @ - x]
    /\ frames' = [frames EXCEPT ![Len(frames)] = Resumed(Top)]
    /\ UNCHANGED <<settings, code, receiptAllowance, approved, paid, gifted, ownerHolds, outside,
                   nonce, runs, by>>

BatchReturns ==
    /\ ~Idle /\ Top.kind = "batch" /\ Top.calls = <<>>
    /\ frames' = Pop
    /\ UNCHANGED <<settings, code, money, outside, nonce, runs, by>>

\* The called contract reverts, or the value was not there: CallFailed takes the
\* whole frame with it, the spent nonce included.
CallFails ==
    /\ ~Idle
    /\ \/ Top.out
       \/ Running /\ Head(Top.calls).kind = "pay" /\ wallet < Head(Top.calls).amount
    /\ Revert

-----------------------------------------------------------------------------
(* Idle capital. *)

\* _requireOwnerOrAgent
IsOwnerOrAgent(sender) == IsOwner(sender) \/ (agent # Nobody /\ sender = agent)

\* An externally owned owner starts a transaction; an agent may be reached from inside one.
MayStart(sender) == CanEnter /\ (IsOwner(sender) => Idle)

\* The gate on the way in is the current list, on the way out the wider one.
EverNamed(v) == v \in venueEverPermitted  \* mutant: a revoked venue still takes money
MayReceive(v) == v \in permittedVenue

\* Up to the call into the venue: the gate, and an allowance for exactly the amount.
SupplyIdle(sender, v, amount) ==
    /\ MayStart(sender)
    /\ IsOwnerOrAgent(sender)
    /\ MayReceive(v)
    /\ allowance' = [allowance EXCEPT ![v] = amount]
    /\ frames' = Append(frames, SupplyFrame(v))
    /\ SentBy(sender)
    /\ UNCHANGED <<settings, code, wallet, position, receiptAllowance, approved, paid, gifted,
                   ownerHolds, outside, nonce, runs>>

\* forceApprove(pool, 0) after the venue has returned.
AllowanceNotUsed(x) == allowance[Top.venue] - x  \* mutant: left as the venue left it
AllowanceAfterSupply(x) == 0

\* The venue takes no more than it was allowed, credits the account with it, and
\* the account takes the rest of the allowance back.
VenueTakes(x) ==
    /\ ~Idle /\ Top.kind = "supply"
    /\ x <= allowance[Top.venue] /\ x <= wallet
    /\ wallet' = wallet - x
    /\ position' = [position EXCEPT ![Top.venue] = @ + x]
    /\ allowance' = [allowance EXCEPT ![Top.venue] = AllowanceAfterSupply(x)]
    /\ frames' = Pop
    /\ UNCHANGED <<settings, code, receiptAllowance, approved, paid, gifted, ownerHolds, outside,
                   nonce, runs, by>>

\* A lending market gives back what it owes and no more.
Owes(v, amount) == amount <= position[v]

\* A revoked venue is still open on the way out, to the agent as well.
WithdrawIdle(sender, v, amount) ==
    /\ MayStart(sender)
    /\ IsOwnerOrAgent(sender)
    /\ IsOwner(sender) \/ v \in venueEverPermitted
    /\ Owes(v, amount)
    /\ position' = [position EXCEPT ![v] = @ - amount]
    /\ wallet' = wallet + amount
    /\ SentBy(sender)
    /\ UNCHANGED <<settings, code, approvals, paid, gifted, ownerHolds, outside, nonce, frames, runs>>

\* The venue a batch asks pays the account.
VenueGives ==
    LET call == Head(Top.calls) IN
    /\ Calling("withdraw")
    /\ Owes(call.to, call.amount)
    /\ position' = [position EXCEPT ![call.to] = @ - call.amount]
    /\ wallet' = wallet + call.amount
    /\ frames' = [frames EXCEPT ![Len(frames)] = Resumed(Top)]
    /\ UNCHANGED <<settings, code, approvals, paid, gifted, ownerHolds, outside, nonce, runs, by>>

-----------------------------------------------------------------------------
(* Strangers, at any moment somebody other than the account is running. *)

\* Aqua's pull of the token for a taker, in a swap or a fill.
Draw(x) ==
    /\ ControlIsOutside
    /\ x <= allowance[Aqua] /\ x <= wallet
    /\ wallet' = wallet - x
    /\ paid' = paid + x
    /\ allowance' = [allowance EXCEPT ![Aqua] = @ - x]
    /\ SentBy(Nobody)
    /\ UNCHANGED <<settings, code, position, receiptAllowance, approved, gifted, ownerHolds, outside,
                   nonce, frames, runs>>

\* Aqua's pull of receipts, which a swap has redeemed to the account when its wallet is short.
DrawReceipts(v, x) ==
    /\ ControlIsOutside
    /\ x <= receiptAllowance[v] /\ Owes(v, x)
    /\ position' = [position EXCEPT ![v] = @ - x]
    /\ wallet' = wallet + x
    /\ receiptAllowance' = [receiptAllowance EXCEPT ![v] = @ - x]
    /\ SentBy(Nobody)
    /\ UNCHANGED <<settings, code, allowance, approved, paid, gifted, ownerHolds, outside, nonce,
                   frames, runs>>

\* Anybody supplies a venue on behalf of the account: the position is the account's and
\* the venue need not be one it was ever told of.
DepositFor(v, x) ==
    /\ ControlIsOutside
    /\ gifted[v] + x <= MaxGifts
    /\ gifted' = [gifted EXCEPT ![v] = @ + x]
    /\ position' = [position EXCEPT ![v] = @ + x]
    /\ paid' = paid - x
    /\ SentBy(Nobody)
    /\ UNCHANGED <<settings, code, wallet, approvals, ownerHolds, outside, nonce, frames, runs>>

-----------------------------------------------------------------------------
(* The proxy's own way out, and the world. *)

Escape ==
    /\ Idle
    /\ wallet > 0
    /\ ownerHolds' = ownerHolds + wallet
    /\ wallet' = 0
    /\ SentBy(Owner)
    /\ UNCHANGED <<settings, code, position, approvals, paid, gifted, outside, nonce, frames, runs>>

Fund(x) ==
    /\ Idle
    /\ x <= ownerHolds
    /\ ownerHolds' = ownerHolds - x
    /\ wallet' = wallet + x
    /\ SentBy(Owner)
    /\ UNCHANGED <<settings, code, position, approvals, paid, gifted, outside, nonce, frames, runs>>

\* The owner supplies a venue on behalf of the account.
OwnerDepositsFor(v, x) ==
    /\ Idle
    /\ x <= ownerHolds
    /\ ownerHolds' = ownerHolds - x
    /\ position' = [position EXCEPT ![v] = @ + x]
    /\ SentBy(Owner)
    /\ UNCHANGED <<settings, code, wallet, approvals, paid, gifted, outside, nonce, frames, runs>>

Tick ==
    /\ Idle
    /\ now < MaxTime
    /\ now' = now + 1
    /\ UNCHANGED <<settings, code, money, nonce, signed, frames, runs, by, takenBack>>

-----------------------------------------------------------------------------
Init ==
    /\ agent = Nobody
    /\ permittedVenue = {} /\ venueEverPermitted = {}
    /\ autoUpgradeRefused = FALSE
    /\ implementation \in Implementations
    /\ nonce = 0
    /\ wallet = 0
    /\ position = [v \in Venues |-> 0] /\ gifted = [v \in Venues |-> 0]
    /\ allowance = [s \in Spenders |-> 0] /\ approved = {}
    /\ receiptAllowance = [v \in Venues |-> 0]
    /\ paid = 0
    /\ ownerHolds = Funds
    /\ signed = {}
    /\ frames = <<>>
    /\ now = 0
    /\ runs = [n \in Nonces |-> 0]
    /\ by = Nobody
    /\ takenBack = {}

Next ==
    \/ \E x \in Agents \cup {Nobody} : SetAgent(x)
    \/ \E v \in Venues, allowed \in BOOLEAN : OwnerPermitsVenue(v, allowed)
    \/ InvalidateSignatures
    \/ RefuseAutoUpgrade
    \/ \E sender \in Keys \cup {Owner}, i \in Implementations : Upgrade(sender, i)
    \/ \E a \in Authorisations : Sign(a)
    \/ \E a \in Authorisations : ExecuteBatchWithSignature(a)
    \/ \E calls \in Batches : ExecuteBatch(calls)
    \/ MakeCall
    \/ Approve
    \/ \E v \in Venues : CallSelf(v)
    \/ CallReturns
    \/ BatchReturns
    \/ CallFails
    \/ \E sender \in Agents \cup {Owner}, v \in Venues, x \in Amounts : SupplyIdle(sender, v, x)
    \/ \E x \in Amounts \cup {0} : VenueTakes(x)
    \/ \E x \in Amounts \cup {0} : VenueTakesDirectly(x)
    \/ VenueGives
    \/ \E x \in Amounts : Draw(x)
    \/ \E v \in Venues, x \in Amounts : DrawReceipts(v, x)
    \/ \E sender \in Agents \cup {Owner}, v \in Venues, x \in Amounts : WithdrawIdle(sender, v, x)
    \/ Escape
    \/ \E x \in Amounts : Fund(x)
    \/ \E v \in Venues, x \in Amounts : DepositFor(v, x)
    \/ \E v \in Venues, x \in Amounts : OwnerDepositsFor(v, x)
    \/ Tick

Spec == Init /\ [][Next]_vars

-----------------------------------------------------------------------------
(* Properties. *)

Senders == Agents \cup Keys \cup {Owner, Account, Nobody}
SavedState == [nonce : Nonces, wallet : Nat, position : [Venues -> Nat],
               allowance : [Spenders -> Nat], receiptAllowance : [Venues -> Nat],
               approved : SUBSET Spenders, paid : Int, gifted : [Venues -> Nat],
               runs : [Nonces -> Nat], by : Senders]
Frame == [kind : {"batch", "supply"}, calls : Seq(Calls), venue : Venues \cup {Nobody},
          out : BOOLEAN, saved : SavedState]

\* The shape of the state.
TypeOK ==
    /\ agent \in Agents \cup {Nobody}
    /\ permittedVenue \subseteq Venues
    /\ venueEverPermitted \subseteq Venues
    /\ autoUpgradeRefused \in BOOLEAN
    /\ implementation \in Implementations
    /\ nonce \in Nonces
    /\ wallet \in Nat /\ paid \in Int /\ ownerHolds \in Nat
    /\ position \in [Venues -> Nat] /\ gifted \in [Venues -> Nat]
    /\ allowance \in [Spenders -> Nat] /\ receiptAllowance \in [Venues -> Nat]
    /\ approved \subseteq Spenders
    /\ signed \subseteq Authorisations
    /\ frames \in Seq(Frame)
    /\ now \in Times
    /\ runs \in [Nonces -> Nat]
    /\ by \in Senders
    /\ takenBack \subseteq [auth : Authorisations, reached : BOOLEAN]

\* However calls nest and revert, one nonce never pays for two batches: of all the
\* authorisations that name it at most one is carried out, and at most once
\* (executeWithSignature, executeBatchWithSignature: "spent before the call").
OneRunPerNonce == \A n \in Nonces : runs[n] <= 1

\* Between transactions no venue can pull anything from the account but what a batch of
\* the owner's approved it for, whatever the venue took of what a supply allowed it and
\* whatever ran inside it (supplyIdle).
NoStandingAllowance == Idle => \A v \in Venues \ approved : allowance[v] = 0

\* Nothing that runs inside a transaction, a batch the owner signed included, can
\* change who the agent is, which venues are permitted or what code runs: those
\* take a transaction of the owner's own (permitVenue, setAgent, refuseAutoUpgrade).
SettingsNeedTheOwnersTransaction == [][~Idle => UNCHANGED <<settings, code>>]_vars

\* Once the owner has refused automatic upgrades, only the owner changes the code,
\* whichever key the code then in place names as its upgrader (_requireMayUpgrade).
RefusalIsFinal == [][autoUpgradeRefused /\ implementation' # implementation => by' = Owner]_vars

\* Both: what the owner decided, only a transaction of the owner's undoes, from inside a batch or
\* by an upgrade.
OnlyTheOwnerDecides == SettingsNeedTheOwnersTransaction /\ RefusalIsFinal

\* An authorisation whose nonce had been reached when the owner invalidated is
\* never carried out afterwards (invalidateSignatures).
RevocationHolds ==
    [][\A t \in takenBack : t.reached => runs'[t.auth.nonce] <= runs[t.auth.nonce]]_vars

\* The comment of invalidateSignatures: it takes back every signature that has not
\* been used yet, because none of them names the next nonce.
InvalidationTakesBackAll ==
    [][\A t \in takenBack : runs'[t.auth.nonce] <= runs[t.auth.nonce]]_vars

-----------------------------------------------------------------------------
(* The account seen one committed transaction at a time. *)

\* While a transaction is under way, what has been committed is what its outermost call would go
\* back to.
Committed == IF Idle THEN Snapshot ELSE frames[1].saved

Custody == INSTANCE AccountCustody WITH
    nonce <- Committed.nonce, wallet <- Committed.wallet, position <- Committed.position,
    allowance <- Committed.allowance, receiptAllowance <- Committed.receiptAllowance,
    paid <- Committed.paid, gifted <- Committed.gifted, by <- Committed.by

\* The account's nested, revertible transactions are the atomic transactions of
\* AccountCustody: without a batch of the owner's, what strangers, venues and the agent move in
\* and around each other's calls stays within what Aqua was approved for and what was permitted.
KeepsCustody == Custody!CustodySpec
=============================================================================
