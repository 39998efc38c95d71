-------------------------- MODULE MCHelicoAccount --------------------------
(* A small instance of HelicoAccount: one venue, one agent, two            *)
(* implementations behind the proxy.  A behaviour has a scene, and keeps   *)
(* it: in one, batches are signed early, revoked and carried out while the *)
(* code is upgraded; in the other, an agent comes and goes, batches        *)
(* approve, supply and withdraw, and strangers draw, redeem and supply.    *)
(* The rest is in both.                                                    *)
EXTENDS HelicoAccount, TLC

CONSTANTS v1, bot, key, shipped, patched

VARIABLE scene

MCAgents == {bot}
MCImplementations == {shipped, patched}
\* The shipped code carries an upgrade key, its replacement carries none.
MCUPGRADER == (shipped :> key) @@ (patched :> Nobody)

Call(kind, to, amount) == [kind |-> kind, to |-> to, amount |-> amount]
Touch == Call("touch", Aqua, 0)
Permit == Call("permit", Aqua, 0)
Pay == Call("pay", Aqua, 1)

MCOneCallBatches == {<<Pay>>, <<Permit>>}
MCSignedBatches == {<<Touch>>, <<>>}
\* A maker's setup, which supplies and approves in one, and a way back past the gates.
MCMakerBatches == {<<Call("approve", v1, 1), Call("supply", v1, 1), Call("approve", Aqua, 1),
                     Call("lend", v1, 1)>>,
                   <<Call("withdraw", v1, 1)>>}
MCBatches == MCOneCallBatches \cup MCMakerBatches

InBoth ==
    \/ \E v \in Venues, allowed \in BOOLEAN : OwnerPermitsVenue(v, allowed)
    \/ \E a \in signed : ExecuteBatchWithSignature(a)
    \/ MakeCall \/ CallReturns \/ BatchReturns \/ CallFails
    \/ \E sender \in Agents \cup {Owner}, v \in Venues, x \in Amounts : SupplyIdle(sender, v, x)
    \/ \E x \in Amounts \cup {0} : VenueTakes(x)
    \/ \E x \in Amounts : Fund(x)

Decides ==
    \/ InvalidateSignatures \/ RefuseAutoUpgrade \/ Tick
    \/ \E sender \in Keys \cup {Owner}, i \in Implementations : Upgrade(sender, i)
    \/ \E a \in Authorisations : a.calls \notin MCMakerBatches /\ Sign(a)
    \/ \E calls \in Batches \ MCMakerBatches : ExecuteBatch(calls)
    \/ \E v \in Venues : CallSelf(v)

Trades ==
    \/ \E x \in Agents \cup {Nobody} : SetAgent(x)
    \/ \E calls \in Batches \cap MCMakerBatches : signed = {} /\ Sign([nonce |-> 0, deadline |-> 0, calls |-> calls])
    \/ \E calls \in Batches \cap MCMakerBatches : ExecuteBatch(calls)
    \/ \E sender \in Agents \cup {Owner}, v \in Venues, x \in Amounts : WithdrawIdle(sender, v, x)
    \/ Approve \/ VenueGives \/ Escape
    \/ \E x \in Amounts \cup {0} : VenueTakesDirectly(x)
    \/ \E x \in Amounts : Draw(x)
    \/ \E v \in Venues, x \in Amounts : DrawReceipts(v, x)
    \/ \E v \in Venues, x \in Amounts : DepositFor(v, x) \/ OwnerDepositsFor(v, x)

MCInit ==
    /\ Init
    /\ \/ scene = "decides"
       \/ scene = "trades" /\ implementation = patched
MCNext ==
    \/ InBoth /\ UNCHANGED scene
    \/ scene = "decides" /\ Decides /\ UNCHANGED scene
    \/ scene = "trades" /\ Trades /\ UNCHANGED scene
MCSpec == MCInit /\ [][MCNext]_<<vars, scene>>
=============================================================================
