--------------------------- MODULE AccountCustody ---------------------------
(***************************************************************************)
(* What a Helico account promises about the money in it, one committed     *)
(* transaction at a time: no call in progress, nothing half done.          *)
(*                                                                         *)
(*   - nobody but the owner changes the account's settings;                *)
(*   - a batch of the owner's, sent or signed, may do anything else;       *)
(*   - without one, third parties get no more than Aqua was approved for,  *)
(*     and every draw uses that up; nobody is approved for more than       *)
(*     before; the account's money enters a venue only if it is permitted, *)
(*     and leaves one that was never named only to the account itself, as  *)
(*     Aqua was approved for its receipts or the owner asks;               *)
(*   - nothing is created or lost on the way.                              *)
(***************************************************************************)
EXTENDS Integers, Sums

CONSTANTS Owner, Account, Aqua, Venues, Funds

VARIABLES agent, permittedVenue, venueEverPermitted, nonce, wallet, position, allowance,
          receiptAllowance, paid, gifted, ownerHolds, by

approvals == <<allowance, receiptAllowance>>
custody == <<agent, permittedVenue, venueEverPermitted, nonce, wallet, position, approvals,
             paid, gifted, ownerHolds, by>>

\* What third parties have had, less what they have put in, is counted as `paid`.
Worth == wallet + SumOf(position, Venues) + paid + ownerHolds

\* The owner changes what the account may do; a venue once named stays named.
Configure ==
    /\ by' = Owner
    /\ venueEverPermitted' = venueEverPermitted \cup permittedVenue'
    /\ UNCHANGED <<nonce, wallet, position, approvals, paid, gifted, ownerHolds>>

\* The owner puts money in or takes it out.
OwnerTransfers ==
    /\ by' = Owner
    /\ Worth' = Worth
    /\ \A v \in Venues : position'[v] >= position[v]
    /\ UNCHANGED <<agent, permittedVenue, venueEverPermitted, nonce, approvals, paid, gifted>>

\* The owner sent a batch, or one that the owner signed was spent.
Decided == by' = Account \/ nonce' > nonce

\* Nobody was asked: what the transaction does was provided for before.
WithinMeans ==
    /\ paid' - paid <= allowance[Aqua] - allowance'[Aqua]
    /\ \A s \in Venues \cup {Aqua} : allowance'[s] <= allowance[s]
    /\ \A v \in Venues : receiptAllowance'[v] <= receiptAllowance[v]
    /\ \A v \in Venues \ permittedVenue : position'[v] - position[v] <= gifted'[v] - gifted[v]
    /\ by' # Owner => \A v \in Venues \ venueEverPermitted :
                          position[v] - position'[v] <= receiptAllowance[v] - receiptAllowance'[v]

\* Any other transaction, with everything that ran inside it.
Transact ==
    /\ nonce' >= nonce
    /\ Worth' = Worth
    /\ Decided \/ WithinMeans
    /\ UNCHANGED <<agent, permittedVenue, venueEverPermitted, ownerHolds>>

CustodyInit ==
    /\ permittedVenue = {} /\ venueEverPermitted = {}
    /\ nonce = 0 /\ wallet = 0 /\ paid = 0
    /\ position = [v \in Venues |-> 0] /\ gifted = [v \in Venues |-> 0]
    /\ allowance = [s \in Venues \cup {Aqua} |-> 0]
    /\ receiptAllowance = [v \in Venues |-> 0]
    /\ ownerHolds = Funds

CustodySpec == CustodyInit /\ [][Configure \/ OwnerTransfers \/ Transact]_custody
=============================================================================
