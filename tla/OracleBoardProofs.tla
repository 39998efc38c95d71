------------------------- MODULE OracleBoardProofs -------------------------
(***************************************************************************)
(* Proofs about OracleBoard and the venues behind it, for any amounts, any *)
(* dust and any board that _check accepts.                                 *)
(*                                                                         *)
(* The arithmetic comes first: what the two roundings of a venue do to the *)
(* worth of a share, and what a fill's deficit costs.  Then the books: a   *)
(* fill under way owes its payment to the gifts pushed meanwhile, and what *)
(* it would put back was in order too.                                     *)
(***************************************************************************)
EXTENDS OracleBoard, WellFoundedInduction, SequenceTheorems, TLAPS

LEMMA VenueBounds ==
    /\ Sampling \subseteq Venues /\ Dust \subseteq Nat /\ Moves \subseteq Int
    /\ MinWindow \in Nat \ {0} /\ RateUnit \in Nat /\ MaxAssets \in Nat /\ MaxTime \in Nat
  BY VenueAssumption DEF VenueAssumption

LEMMA BoardBounds ==
    /\ Maker \in Holders /\ Taker \in Holders /\ Maker # Taker
    /\ VenueList \in Seq(Venues) /\ AssetOf \in [Venues -> Sides]
    /\ Answers \subseteq Int
    /\ SellAmounts \subseteq Nat /\ BuyAmounts \subseteq Nat /\ VenueAmounts \subseteq Nat
    /\ PushAmounts \in [Sides -> SUBSET Nat]
    /\ Unit \in Nat \ {0} /\ Bps \in Nat \ {0} /\ Spread \in Nat /\ MaxSkew \in Nat
    /\ Spread + MaxSkew < Bps
    /\ BaseCap \in Nat /\ MaxDepth \in Nat /\ MaxGifts \in [Sides -> Nat] /\ MaxEntries \in Nat
  BY BoardAssumption DEF BoardAssumption

-----------------------------------------------------------------------------
(* Rounding. *)

LEMMA Division ==
  ASSUME NEW a \in Int, NEW b \in Nat \ {0}
  PROVE  a \div b \in Int /\ b * (a \div b) =< a /\ a < b * (a \div b) + b
  OBVIOUS

\* A deposit that mints no more than its part leaves the others' part whole.
LEMMA DepositDilutes ==
  ASSUME NEW A \in Nat, NEW S \in Int, NEW a \in Int, NEW m \in Int, NEW dust \in Nat,
         (A + 1) * m =< a * (S + 1)
  PROVE  (A + a - dust + 1 + dust) * (S + 1) >= (A + 1) * (S + m + 1)
  BY SMT

\* So does a withdrawal that burns no less than its part.
LEMMA WithdrawalDilutes ==
  ASSUME NEW A \in Nat, NEW S \in Int, NEW a \in Int, NEW c \in Int, NEW dust \in Nat,
         a * (S + 1) =< (A + 1) * c
  PROVE  (A - a - dust + 1 + dust) * (S + 1) >= (A + 1) * (S - c + 1)
  BY SMT

\* Burned rounding up, shares are worth what they paid for but for one of them.
LEMMA CostIsNear ==
  ASSUME NEW A \in Nat, NEW S \in Nat, NEW d \in Nat, NEW c \in Int, NEW worth \in Int, NEW one \in Int,
         (A + 1) * c =< d * (S + 1) + A,
         (S + 1) * worth =< c * (A + 1), A + 1 < (S + 1) * one + (S + 1)
  PROVE  worth =< d + one
  BY SMT

-----------------------------------------------------------------------------
(* A venue's arithmetic. *)

LEMMA MintedRoundsDown ==
  ASSUME NEW r \in VenueType, NEW a \in Nat
  PROVE  Minted(r, a) \in Nat /\ (r.assets + 1) * Minted(r, a) =< a * (r.supply + 1)
  <1> DEFINE top == a * (r.supply + 1)
  <1>1. r.assets + 1 \in Nat \ {0} /\ r.supply \in Nat BY DEF VenueType
  <1>2. top \in Nat BY <1>1
  <1>3. top \div (r.assets + 1) \in Nat BY <1>1, <1>2
  <1> HIDE DEF top
  <1>4. (r.assets + 1) * (top \div (r.assets + 1)) =< top BY <1>1, <1>2, Division
  <1>5. QED BY <1>3, <1>4 DEF Minted, top

LEMMA CostRoundsUp ==
  ASSUME NEW r \in VenueType, NEW a \in Nat
  PROVE  /\ PreviewWithdraw(r, a) \in Nat
         /\ a * (r.supply + 1) =< (r.assets + 1) * PreviewWithdraw(r, a)
         /\ (r.assets + 1) * PreviewWithdraw(r, a) =< a * (r.supply + 1) + r.assets
  <1> DEFINE top == a * (r.supply + 1)
             c == (top + r.assets) \div (r.assets + 1)
  <1>1. r.assets \in Nat /\ r.assets + 1 \in Nat \ {0} /\ r.supply \in Nat BY DEF VenueType
  <1>2. top \in Nat BY <1>1
  <1> HIDE DEF top
  <1>3. c \in Nat BY <1>1, <1>2
  <1>4. /\ (r.assets + 1) * c =< top + r.assets
        /\ top + r.assets < (r.assets + 1) * c + (r.assets + 1)
    <2>1. top + r.assets \in Int BY <1>1, <1>2
    <2>2. QED BY <1>1, <2>1, Division
  <1>5. PreviewWithdraw(r, a) = c BY DEF PreviewWithdraw, top
  <1> HIDE DEF c
  <1>6. (r.assets + 1) * c \in Nat BY <1>1, <1>3
  <1>7. QED BY <1>1, <1>2, <1>3, <1>4, <1>5, <1>6 DEF top

LEMMA RedeemRoundsDown ==
  ASSUME NEW r \in VenueType, NEW s \in Nat
  PROVE  /\ PreviewRedeem(r, s) \in Nat
         /\ (r.supply + 1) * PreviewRedeem(r, s) =< s * (r.assets + 1)
         /\ s * (r.assets + 1) < (r.supply + 1) * PreviewRedeem(r, s) + (r.supply + 1)
  <1> DEFINE top == s * (r.assets + 1)
             one == r.supply + 1
             w == top \div one
  <1>1. one \in Nat \ {0} /\ r.assets \in Nat BY DEF VenueType
  <1>2. top \in Nat BY <1>1
  <1>3. PreviewRedeem(r, s) = w BY DEF PreviewRedeem
  <1> HIDE DEF top, one
  <1>4. w \in Nat BY <1>1, <1>2
  <1>5. one * w =< top /\ top < one * w + one
    <2>1. top \in Int BY <1>2
    <2>2. QED BY <1>1, <2>1, Division
  <1> HIDE DEF w
  <1>6. QED BY <1>3, <1>4, <1>5 DEF top, one
-----------------------------------------------------------------------------
(* What a venue books. *)

Backed(V) == \A v \in Venues : V[v].shares[Maker] + V[v].shares[Taker] =< V[v].supply

\* The sample is beside the books: taking it leaves shares, supply, assets and cash alone.
LEMMA SampledKeeps ==
  ASSUME NEW v, NEW r \in VenueType, now \in Nat
  PROVE  /\ Sampled(v, r) \in VenueType
         /\ Sampled(v, r).shares = r.shares /\ Sampled(v, r).supply = r.supply
         /\ Sampled(v, r).assets = r.assets /\ Sampled(v, r).cash = r.cash
  <1> DEFINE window == now - r.sampledAt
             new == IF r.price > r.sampledPrice
                    THEN ((r.price - r.sampledPrice) * RateUnit) \div (r.sampledPrice * window)
                    ELSE 0
  <1>1. CASE v \notin Sampling \/ window < MinWindow
    BY <1>1 DEF Sampled
  <1>2. CASE ~(v \notin Sampling \/ window < MinWindow)
    <2>1. Sampled(v, r) = [r EXCEPT !.sampledPrice = r.price, !.sampledAt = now, !.rate = new]
      BY <1>2 DEF Sampled
    <2>2. new \in Nat
      <3>1. r.price \in Nat /\ r.sampledPrice \in Nat \ {0} /\ r.sampledAt \in Nat BY DEF VenueType
      <3>2. window \in Nat \ {0} BY <1>2, <3>1, VenueBounds
      <3> HIDE DEF window
      <3>3. r.sampledPrice * window \in Nat \ {0} BY <3>1, <3>2
      <3>4. CASE r.price > r.sampledPrice
        <4>1. (r.price - r.sampledPrice) * RateUnit \in Nat BY <3>1, <3>4, VenueBounds
        <4> QED BY <3>3, <3>4, <4>1
      <3> QED BY <3>4
    <2> HIDE DEF new
    <2>3. QED BY <2>1, <2>2 DEF VenueType
  <1> QED BY <1>1, <1>2

LEMMA SuppliedBooks ==
  ASSUME NEW v, NEW r \in VenueType, NEW h \in Holders, NEW a \in Nat, NEW dust \in Nat,
         CanSupply(r, a, dust), now \in Nat
  PROVE  LET n == Supplied(v, r, h, a, dust) IN
         /\ n \in VenueType
         /\ n.shares = [r.shares EXCEPT ![h] = @ + Minted(r, a)]
         /\ n.supply = r.supply + Minted(r, a)
         /\ n.assets = r.assets + a - dust
  <1> DEFINE m == Minted(r, a)
             held == [r.shares EXCEPT ![h] = @ + m]
             n == [r EXCEPT !.shares = held, !.supply = @ + m, !.assets = @ + a - dust, !.cash = @ + a]
  <1>1. m \in Nat BY MintedRoundsDown
  <1> HIDE DEF m
  <1>2. held \in [Holders -> Nat] BY <1>1 DEF VenueType
  <1>3. Supplied(v, r, h, a, dust) = Sampled(v, n) BY DEF Supplied, m, VenueType
  <1> HIDE DEF held
  <1>4. /\ n \in VenueType /\ n.shares = held
        /\ n.supply = r.supply + m /\ n.assets = r.assets + a - dust
    <2>1. r.supply + m \in Nat /\ r.assets + a - dust \in Nat /\ r.cash + a \in Nat
      BY <1>1 DEF VenueType, CanSupply
    <2>2. QED BY <1>2, <2>1 DEF VenueType
  <1> HIDE DEF n
  <1>5. QED BY <1>3, <1>4, SampledKeeps DEF m, held

LEMMA WithdrawnBooks ==
  ASSUME NEW v, NEW r \in VenueType, NEW h \in Holders, NEW a \in Nat, NEW dust \in Nat,
         CanWithdraw(r, h, a, dust), r.shares[h] =< r.supply, now \in Nat
  PROVE  LET n == Withdrawn(v, r, h, a, dust) IN
         /\ n \in VenueType
         /\ n.shares = [r.shares EXCEPT ![h] = @ - PreviewWithdraw(r, a)]
         /\ n.supply = r.supply - PreviewWithdraw(r, a)
         /\ n.assets = r.assets - a - dust
  <1> DEFINE c == PreviewWithdraw(r, a)
             held == [r.shares EXCEPT ![h] = @ - c]
             n == [r EXCEPT !.shares = held, !.supply = @ - c, !.assets = @ - a - dust, !.cash = @ - a]
  <1>1. c \in Nat BY CostRoundsUp
  <1>2. r.shares[h] >= c /\ r.cash >= a /\ r.assets >= a + dust BY DEF CanWithdraw
  <1> HIDE DEF c
  <1>3. held \in [Holders -> Nat] BY <1>1, <1>2 DEF VenueType
  <1>4. Withdrawn(v, r, h, a, dust) = Sampled(v, n) BY DEF Withdrawn, c, VenueType
  <1> HIDE DEF held
  <1>5. /\ n \in VenueType /\ n.shares = held
        /\ n.supply = r.supply - c /\ n.assets = r.assets - a - dust
    <2>1. r.supply \in Nat /\ r.assets \in Nat /\ r.cash \in Nat /\ r.shares[h] \in Nat BY DEF VenueType
    <2>2. r.supply - c \in Nat /\ r.assets - a - dust \in Nat /\ r.cash - a \in Nat BY <1>1, <1>2, <2>1
    <2>3. QED BY <1>3, <2>2 DEF VenueType
  <1> HIDE DEF n
  <1>6. QED BY <1>4, <1>5, SampledKeeps DEF c, held

-----------------------------------------------------------------------------
(* What supplying and withdrawing do to all the venues. *)

VenuesTyped == venue \in [Venues -> VenueType] /\ now \in Nat

NotDiluted ==
    \A v \in Venues :
        venue'[v].supply # venue[v].supply =>
            \E dust \in Dust :
                (venue'[v].assets + 1 + dust) * (venue[v].supply + 1)
                    >= (venue[v].assets + 1) * (venue'[v].supply + 1)

\* What one of the two gains or loses, the two together gain or lose.
LEMMA PairKeeps ==
  ASSUME NEW held \in [Holders -> Nat], NEW all \in Int, held[Maker] + held[Taker] =< all,
         NEW h \in {Maker, Taker}, NEW d \in Int
  PROVE  /\ held[h] =< all
         /\ [held EXCEPT ![h] = @ + d][Maker] + [held EXCEPT ![h] = @ + d][Taker] =< all + d
         /\ [held EXCEPT ![h] = @ - d][Maker] + [held EXCEPT ![h] = @ - d][Taker] =< all - d
  <1>1. held[Maker] \in Nat /\ held[Taker] \in Nat BY BoardBounds
  <1>2. CASE h = Maker BY <1>1, <1>2, BoardBounds
  <1>3. CASE h = Taker BY <1>1, <1>3, BoardBounds
  <1> QED BY <1>2, <1>3

LEMMA SupplyKeeps ==
  ASSUME VenuesTyped, Backed(venue), NEW v \in Venues, NEW h \in {Maker, Taker}, NEW a \in Nat,
         Supply(v, h, a)
  PROVE  venue' \in [Venues -> VenueType] /\ Backed(venue') /\ NotDiluted
  <1> DEFINE r == venue[v]
             m == Minted(r, a)
  <1>1. PICK dust \in Dust :
          /\ CanSupply(r, a, dust)
          /\ venue' = [venue EXCEPT ![v] = Supplied(v, r, h, a, dust)]
    BY DEF Supply, VenuesTyped
  <1> DEFINE n == Supplied(v, r, h, a, dust)
  <1>5. venue' = [venue EXCEPT ![v] = n] BY <1>1
  <1>2. r \in VenueType /\ h \in Holders /\ dust \in Nat /\ now \in Nat
    BY <1>1, VenueBounds, BoardBounds DEF VenuesTyped
  <1>3. m \in Nat /\ (r.assets + 1) * m =< a * (r.supply + 1) BY <1>2, MintedRoundsDown
  <1>4. /\ n \in VenueType /\ n.shares = [r.shares EXCEPT ![h] = @ + m]
        /\ n.supply = r.supply + m /\ n.assets = r.assets + a - dust
    <2>1. CanSupply(r, a, dust) BY <1>1
    <2> HIDE DEF r
    <2>2. QED BY <1>2, <2>1, SuppliedBooks
  <1> HIDE DEF n, m, r
  <1>6. venue' \in [Venues -> VenueType] BY <1>4, <1>5 DEF VenuesTyped
  <1>7. Backed(venue')
    <2>1. n.shares[Maker] + n.shares[Taker] =< n.supply
      <3>1. r.shares[Maker] + r.shares[Taker] =< r.supply BY DEF Backed, r
      <3>2. r.shares \in [Holders -> Nat] /\ r.supply \in Nat BY <1>2 DEF VenueType
      <3>3. m \in Int /\ r.supply \in Int BY <1>3, <3>2
      <3>4. QED BY <1>4, <3>1, <3>2, <3>3, PairKeeps
    <2>2. QED BY <1>5, <2>1 DEF Backed, VenuesTyped
  <1>8. NotDiluted
    <2>1. (n.assets + 1 + dust) * (r.supply + 1) >= (r.assets + 1) * (n.supply + 1)
      <3>1. r.assets \in Nat /\ r.supply \in Nat BY <1>2 DEF VenueType
      <3>2. (r.assets + a - dust + 1 + dust) * (r.supply + 1) >= (r.assets + 1) * (r.supply + m + 1)
        BY <1>2, <1>3, <3>1, DepositDilutes
      <3>3. QED BY <1>4, <3>2
    <2>2. ASSUME NEW w \in Venues, venue'[w].supply # venue[w].supply
          PROVE  w = v /\ venue'[w] = n
      BY <1>5, <2>2 DEF VenuesTyped
    <2>3. QED BY <1>1, <2>1, <2>2 DEF NotDiluted, r
  <1>9. QED BY <1>6, <1>7, <1>8

LEMMA WithdrawalKeeps ==
  ASSUME VenuesTyped, Backed(venue), NEW v \in Venues, NEW h \in {Maker, Taker}, NEW a \in Nat,
         NEW dust \in Dust, CanWithdraw(venue[v], h, a, dust),
         venue' = [venue EXCEPT ![v] = Withdrawn(v, venue[v], h, a, dust)]
  PROVE  venue' \in [Venues -> VenueType] /\ Backed(venue') /\ NotDiluted
  <1> DEFINE r == venue[v]
             c == PreviewWithdraw(r, a)
             n == Withdrawn(v, r, h, a, dust)
  <1>1. r \in VenueType /\ h \in Holders /\ dust \in Nat /\ now \in Nat
    BY VenueBounds, BoardBounds DEF VenuesTyped
  <1>2. /\ r.shares[Maker] + r.shares[Taker] =< r.supply
        /\ r.shares \in [Holders -> Nat] /\ r.supply \in Nat /\ r.assets \in Nat
    BY <1>1 DEF Backed, VenueType
  <1>3. c \in Nat /\ a * (r.supply + 1) =< (r.assets + 1) * c BY <1>1, CostRoundsUp
  <1>4. r.shares[h] =< r.supply BY <1>2, PairKeeps
  <1>5. r.shares[h] >= c BY DEF CanWithdraw
  <1>6. /\ n \in VenueType /\ n.shares = [r.shares EXCEPT ![h] = @ - c]
        /\ n.supply = r.supply - c /\ n.assets = r.assets - a - dust
    BY <1>1, <1>4, WithdrawnBooks
  <1>7. venue' = [venue EXCEPT ![v] = n] OBVIOUS
  <1> HIDE DEF n, c, r
  <1>8. venue' \in [Venues -> VenueType] BY <1>6, <1>7 DEF VenuesTyped
  <1>9. Backed(venue')
    <2>1. n.shares[Maker] + n.shares[Taker] =< n.supply
      <3>1. c \in Int /\ r.supply \in Int BY <1>2, <1>3
      <3>2. QED BY <1>2, <1>6, <3>1, PairKeeps
    <2>2. QED BY <1>7, <2>1 DEF Backed, VenuesTyped
  <1>10. NotDiluted
    <2>1. (n.assets + 1 + dust) * (r.supply + 1) >= (r.assets + 1) * (n.supply + 1)
      <3>1. (r.assets - a - dust + 1 + dust) * (r.supply + 1) >= (r.assets + 1) * (r.supply - c + 1)
        BY <1>1, <1>2, <1>3, WithdrawalDilutes
      <3>2. QED BY <1>6, <3>1
    <2>2. ASSUME NEW w \in Venues, venue'[w].supply # venue[w].supply
          PROVE  w = v /\ venue'[w] = n
      BY <1>7, <2>2 DEF VenuesTyped
    <2>3. QED BY <2>1, <2>2 DEF NotDiluted, r
  <1>11. QED BY <1>8, <1>9, <1>10

-----------------------------------------------------------------------------
(* Covering a deficit. *)

LEMMA LeastIn ==
  ASSUME NEW S \in SUBSET Nat, S # {}
  PROVE  Min(S) \in S
  <1> DEFINE R == OpToRel(<, Nat)
  <1>1. IsWellFoundedOn(R, Nat) BY NatLessThanWellFounded
  <1>2. \A x \in Nat, y \in Nat : y < x => <<y, x>> \in R BY DEF OpToRel
  <1> HIDE DEF R
  <1>3. \E x \in S : \A y \in S : ~ (<<y, x>> \in R) BY <1>1, WFMin
  <1>4. PICK x \in S : \A y \in S : ~ (<<y, x>> \in R) BY <1>3
  <1>5. ASSUME NEW y \in S PROVE x =< y
    <2>1. x \in Nat /\ y \in Nat OBVIOUS
    <2>2. ~ (y < x) BY <1>2, <1>4, <2>1
    <2>3. QED BY <2>1, <2>2
  <1>6. QED BY <1>5 DEF Min

LEMMA VenueForPays ==
  ASSUME NEW side, NEW deficit, NEW v \in VenueFor(side, deficit)
  PROVE  v \in Venues /\ CanPay(v, side, deficit)
  <1> DEFINE able == {i \in DOMAIN VenueList : CanPay(VenueList[i], side, deficit)}
  <1>1. able # {} /\ v = VenueList[Min(able)] BY DEF VenueFor
  <1>2. DOMAIN VenueList \subseteq Nat /\ \A i \in DOMAIN VenueList : VenueList[i] \in Venues
    BY BoardBounds, LenProperties, SeqDef
  <1>3. Min(able) \in able BY <1>1, <1>2, LeastIn
  <1>4. QED BY <1>1, <1>2, <1>3

CoverCosts ==
    \A v \in Venues :
        venue'[v] # venue[v] =>
            LET spent == venue[v].shares[Maker] - venue'[v].shares[Maker]
                paid == venue[v].assets - venue'[v].assets
            IN /\ budget[v] - budget'[v] = spent
               /\ \E dust \in Dust : PreviewRedeem(venue[v], spent) + dust =< paid
                                       + PreviewRedeem(venue[v], 1)

LEMMA UnwindKeeps ==
  ASSUME VenuesTyped, budget \in [Venues -> Nat], Backed(venue),
         NEW v \in Venues, NEW side, NEW deficit \in Nat, CanPay(v, side, deficit), Unwind(v, deficit)
  PROVE  /\ venue' \in [Venues -> VenueType] /\ Backed(venue') /\ NotDiluted
         /\ budget' \in [Venues -> Nat]
         /\ CoverCosts /\ \A w \in Venues : venue'[w] # venue[w] => w = v
  <1> DEFINE r == venue[v]
             c == PreviewWithdraw(r, deficit)
  <1>1. PICK dust \in Dust :
          /\ CanWithdraw(venue[v], Maker, deficit, dust)
          /\ venue' = [venue EXCEPT ![v] = Withdrawn(v, venue[v], Maker, deficit, dust)]
          /\ budget' = [budget EXCEPT ![v] = budget[v] - c]
    BY DEF Unwind, VenuesTyped, SharesFor
  <1> DEFINE n == Withdrawn(v, r, Maker, deficit, dust)
  <1>2. venue' \in [Venues -> VenueType] /\ Backed(venue') /\ NotDiluted
    <2>1. Maker \in {Maker, Taker} OBVIOUS
    <2>2. QED BY <1>1, <2>1, WithdrawalKeeps
  <1>3. r \in VenueType /\ dust \in Nat /\ now \in Nat /\ Maker \in Holders
    BY <1>1, VenueBounds, BoardBounds DEF VenuesTyped
  <1>4. r.shares \in [Holders -> Nat] /\ r.supply \in Nat /\ r.assets \in Nat
    BY <1>3 DEF VenueType
  <1>5. r.shares[Maker] =< r.supply
    <2>1. r.shares[Maker] + r.shares[Taker] =< r.supply BY DEF Backed
    <2>2. r.supply \in Int /\ 0 \in Int /\ Maker \in {Maker, Taker} BY <1>4
    <2>3. QED BY <1>4, <2>1, <2>2, PairKeeps
  <1>6. n.shares = [r.shares EXCEPT ![Maker] = @ - c] /\ n.assets = r.assets - deficit - dust
    BY <1>1, <1>3, <1>5, WithdrawnBooks
  <1>7. /\ c \in Nat /\ (r.assets + 1) * c =< deficit * (r.supply + 1) + r.assets
    BY <1>3, CostRoundsUp
  <1>8. budget[v] >= c BY DEF CanPay, SharesFor
  <1>9. budget' \in [Venues -> Nat] BY <1>1, <1>7, <1>8
  <1>10. venue'[v] = n /\ \A w \in Venues : venue'[w] # venue[w] => w = v
    BY <1>1 DEF VenuesTyped
  <1>11. CoverCosts
    <2> DEFINE worth == PreviewRedeem(r, c)
               one == PreviewRedeem(r, 1)
    <2>1. /\ worth \in Nat /\ (r.supply + 1) * worth =< c * (r.assets + 1)
      BY <1>3, <1>7, RedeemRoundsDown
    <2>2. one \in Nat /\ 1 * (r.assets + 1) < (r.supply + 1) * one + (r.supply + 1)
      BY <1>3, RedeemRoundsDown
    <2> HIDE DEF c, n, worth, one
    <2>3. worth =< deficit + one
      <3>1. r.assets + 1 < (r.supply + 1) * one + (r.supply + 1) BY <1>4, <2>2
      <3>2. c \in Int /\ worth \in Int /\ one \in Int BY <1>7, <2>1, <2>2
      <3> HIDE DEF r
      <3>3. QED BY <1>4, <1>7, <2>1, <3>1, <3>2, CostIsNear
    <2>4. r.shares[Maker] - n.shares[Maker] = c BY <1>3, <1>4, <1>6, <1>7
    <2>5. r.assets - n.assets = deficit + dust BY <1>3, <1>4, <1>6
    <2>6. worth + dust =< (deficit + dust) + one BY <1>3, <2>1, <2>2, <2>3
    <2>7. budget[v] - budget'[v] = c BY <1>1, <1>7
    <2>8. QED BY <1>10, <2>4, <2>5, <2>6, <2>7 DEF CoverCosts, worth, one
  <1>12. QED BY <1>2, <1>9, <1>10, <1>11

LEMMA CoverKeeps ==
  ASSUME VenuesTyped, budget \in [Venues -> Nat], Backed(venue), wallet \in [Sides -> Nat],
         NEW side \in Sides, NEW amountOut \in Nat, Cover(side, amountOut)
  PROVE  /\ venue' \in [Venues -> VenueType] /\ Backed(venue') /\ NotDiluted
         /\ budget' \in [Venues -> Nat]
         /\ CoverCosts
         /\ \A v \in Venues : venue'[v] # venue[v] => AssetOf[v] = side /\ wallet[side] < amountOut
  <1>1. CASE wallet[side] >= amountOut /\ UNCHANGED <<venue, budget>>
    BY <1>1 DEF VenuesTyped, Backed, NotDiluted, CoverCosts
  <1>2. ASSUME wallet[side] < amountOut,
               NEW v \in VenueFor(side, amountOut - wallet[side]),
               Unwind(v, amountOut - wallet[side])
        PROVE  /\ venue' \in [Venues -> VenueType] /\ Backed(venue') /\ NotDiluted
               /\ budget' \in [Venues -> Nat] /\ CoverCosts
               /\ \A w \in Venues : venue'[w] # venue[w] => AssetOf[w] = side
    <2>1. v \in Venues /\ CanPay(v, side, amountOut - wallet[side]) BY VenueForPays
    <2>2. amountOut - wallet[side] \in Nat BY <1>2
    <2>3. AssetOf[v] = side BY <2>1 DEF CanPay
    <2>4. QED BY <1>2, <2>1, <2>2, <2>3, UnwindKeeps
  <1>3. QED BY <1>1, <1>2 DEF Cover
\* What the market does, and a sample taken, mints and burns nothing.
LEMMA QuietKeeps ==
  ASSUME VenuesTyped, Backed(venue), NEW v \in Venues, NEW d \in Int,
         Accrue(v, d) \/ Borrow(v, d) \/ Poke(v)
  PROVE  venue' \in [Venues -> VenueType] /\ Backed(venue') /\ NotDiluted
  <1> DEFINE r == venue[v]
  <1>1. ASSUME NEW n, n \in VenueType, n.shares = r.shares, n.supply = r.supply,
               venue' = [venue EXCEPT ![v] = n]
        PROVE  venue' \in [Venues -> VenueType] /\ Backed(venue') /\ NotDiluted
    <2>1. venue' \in [Venues -> VenueType] BY <1>1 DEF VenuesTyped
    <2>2. \A w \in Venues : venue'[w].shares = venue[w].shares /\ venue'[w].supply = venue[w].supply
      BY <1>1 DEF VenuesTyped
    <2>3. QED BY <2>1, <2>2 DEF Backed, NotDiluted
  <1>2. r \in VenueType BY DEF VenuesTyped
  <1>3. CASE Accrue(v, d)
    <2> DEFINE p == IF v \in Sampling THEN r.price + d ELSE r.price
               n == [r EXCEPT !.assets = r.assets + d, !.price = p]
    <2>1. r.assets + d \in Nat /\ p \in Nat \ {0}
      <3>1. r.assets + d \in 0..MaxAssets /\ r.price + d \in 1..MaxAssets BY <1>3 DEF Accrue
      <3>2. r.price \in Nat \ {0} BY <1>2 DEF VenueType
      <3>3. QED BY <3>1, <3>2, VenueBounds
    <2>2. venue' = [venue EXCEPT ![v] = n] BY <1>2, <1>3 DEF Accrue, VenuesTyped, VenueType
    <2> HIDE DEF p
    <2>3. n \in VenueType /\ n.shares = r.shares /\ n.supply = r.supply
      BY <1>2, <2>1 DEF VenueType
    <2> HIDE DEF n
    <2>4. QED BY <1>1, <2>2, <2>3
  <1>4. CASE Borrow(v, d)
    <2> DEFINE n == [r EXCEPT !.cash = r.cash + d]
    <2>1. r.cash + d \in Nat BY <1>4, VenueBounds DEF Borrow
    <2>2. venue' = [venue EXCEPT ![v] = n] BY <1>2, <1>4 DEF Borrow, VenuesTyped, VenueType
    <2>3. n \in VenueType /\ n.shares = r.shares /\ n.supply = r.supply
      BY <1>2, <2>1 DEF VenueType
    <2> HIDE DEF n
    <2>4. QED BY <1>1, <2>2, <2>3
  <1>5. CASE Poke(v)
    <2> DEFINE n == Sampled(v, r)
    <2>1. venue' = [venue EXCEPT ![v] = n] BY <1>5 DEF Poke, VenuesTyped
    <2>2. now \in Nat BY DEF VenuesTyped
    <2>3. n \in VenueType /\ n.shares = r.shares /\ n.supply = r.supply
      BY <1>2, <2>2, SampledKeeps
    <2> HIDE DEF n
    <2>4. QED BY <1>1, <2>1, <2>3
  <1>6. QED BY <1>3, <1>4, <1>5

-----------------------------------------------------------------------------
(* The books of the board. *)

\* A revert puts back books that were in order.
Frames ==
    {f \in FrameType : /\ Backed(f.saved.venue)
                       /\ f.saved.ledger["base"] =< BaseCap + f.saved.gifts["base"]}

\* An open fill: the cap has room for the base it still waits for, and whatever has been paid
\* is among the gifts.
Owing(f) ==
    /\ ledger["base"] + (IF f.sells THEN f.amountIn ELSE 0) =< BaseCap + gifts["base"]
    /\ ledger[InTo(f.sells)] =< f.pushedBack + gifts[InTo(f.sells)]

Tokens ==
    /\ ledger \in [Sides -> Nat] /\ wallet \in [Sides -> Nat]
    /\ start \in [Sides -> Nat] /\ gifts \in [Sides -> Nat] /\ budget \in [Venues -> Nat]

World ==
    /\ now \in 0..MaxTime /\ docked \in BOOLEAN /\ entries \in 0..MaxEntries
    /\ feed \in [answer : Answers, at : 0..MaxTime]

BooksInv ==
    /\ venue \in [Venues -> VenueType] /\ Backed(venue)
    /\ Tokens
    /\ World
    /\ open \in Seq(Frames) /\ Len(open) =< 1
    /\ open = <<>> => ledger["base"] =< BaseCap + gifts["base"]
    /\ open # <<>> => Owing(open[1])

LEMMA InnermostIsFirst ==
  ASSUME NEW S, NEW s \in Seq(S), Len(s) =< 1, s # <<>>
  PROVE  Len(s) = 1 /\ Last(s) = s[1] /\ s[1] \in S /\ Front(s) = <<>>
  <1>1. Len(s) = 1
    <2>1. Len(s) \in Nat BY LenProperties
    <2>2. Len(s) # 0 BY EmptySeq
    <2>3. QED BY SMTT(30), <2>1, <2>2
  <1>2. s[1] \in S BY <1>1, ElementOfSeq
  <1>3. Last(s) = s[1] BY <1>1 DEF Last
  <1>4. Front(s) = <<>> BY <1>1 DEF Front
  <1>5. QED BY <1>1, <1>2, <1>3, <1>4

LEMMA FirstFrame ==
  ASSUME NEW S, NEW e \in S, open = <<>>, open' = Append(open, e)
  PROVE  open' \in Seq(S) /\ Len(open') = 1 /\ open' # <<>> /\ open'[1] = e
  OBVIOUS

LEMMA AmountIsInt ==
  ASSUME NEW sells \in BOOLEAN, NEW amountIn \in Nat, feed.answer \in Int, ledger["base"] \in Nat,
         ~sells => Ask > 0
  PROVE  QuoteExactIn(sells, amountIn) \in Int
  <1>1. SkewBps \in Int
    <2>1. CASE BaseCap = 0 BY <2>1 DEF SkewBps
    <2>2. CASE ledger["base"] >= BaseCap BY <2>2, BoardBounds DEF SkewBps
    <2>3. CASE ~(BaseCap = 0) /\ ~(ledger["base"] >= BaseCap)
      <3>1. SkewBps = (MaxSkew * ledger["base"]) \div BaseCap BY <2>3 DEF SkewBps
      <3>2. MaxSkew * ledger["base"] \in Int /\ BaseCap \in Nat \ {0} BY <2>3, BoardBounds
      <3> QED BY <3>1, <3>2
    <2>4. QED BY <2>1, <2>2, <2>3
  <1>2. Bid \in Int /\ Ask \in Int
    <2>1. Bps - Spread - SkewBps \in Int /\ Bps + Spread - SkewBps \in Int /\ Bps \in Nat \ {0}
      BY <1>1, BoardBounds
    <2>2. /\ feed.answer * (Bps - Spread - SkewBps) \in Int
          /\ feed.answer * (Bps + Spread - SkewBps) \in Int
      BY <2>1
    <2>3. QED BY <2>1, <2>2 DEF Bid, Ask
  <1>3. CASE sells
    <2>1. amountIn * Bid \in Int BY <1>2
    <2>2. QED BY <1>3, <2>1, BoardBounds DEF QuoteExactIn
  <1>4. CASE ~sells
    <2>1. amountIn * Unit \in Int /\ Ask \in Nat \ {0} BY <1>2, <1>4, BoardBounds
    <2>2. QED BY <1>4, <2>1 DEF QuoteExactIn
  <1>5. QED BY <1>3, <1>4

-----------------------------------------------------------------------------
(* Each step keeps the books, and none but a revert dilutes anybody. *)

Kept == BooksInv' /\ (Len(open') >= Len(open) => NotDiluted)

\* What a fill has done when it hands over to the taker.
Begun(sells, amountIn) ==
    LET side == OutOf(sells)
        amountOut == QuoteExactIn(sells, amountIn)
    IN /\ side \in Sides /\ amountOut \in Nat
       /\ Cover(side, amountOut)
       /\ ledger' = [ledger EXCEPT ![side] = @ - amountOut]
       /\ amountOut =< ledger[side]
       /\ wallet' = [wallet EXCEPT ![side] = WalletAfter(side, amountOut)]

LEMMA BeginsWell ==
  ASSUME BooksInv, NEW sells \in BOOLEAN, NEW amountIn \in Nat, FillBegins(sells, amountIn)
  PROVE  Begun(sells, amountIn)
  <1>1. OutOf(sells) \in Sides BY DEF OutOf, Sides
  <1>2. QuoteExactIn(sells, amountIn) \in Nat
    <2>1. feed.answer \in Int BY BoardBounds DEF BooksInv, World
    <2>2. ledger["base"] \in Nat BY DEF BooksInv, Tokens, Sides
    <2>3. ~sells => Ask > 0 BY DEF FillBegins
    <2>4. QuoteExactIn(sells, amountIn) \in Int BY <2>1, <2>2, <2>3, AmountIsInt
    <2>5. QuoteExactIn(sells, amountIn) > 0 BY DEF FillBegins
    <2>6. QED BY <2>4, <2>5
  <1>3. QED BY <1>1, <1>2 DEF FillBegins, Begun

LEMMA FillBeginsKeeps ==
  ASSUME BooksInv, NEW sells \in BOOLEAN, NEW amountIn \in Nat, FillBegins(sells, amountIn)
  PROVE  Kept /\ CoverCosts
  <1> DEFINE side == OutOf(sells)
             out == QuoteExactIn(sells, amountIn)
             e == [sells |-> sells, amountIn |-> amountIn, pushedBack |-> ledger[InTo(sells)],
                   saved |-> Snapshot]
  <1>1. Begun(sells, amountIn) BY BeginsWell
  <1>2. side \in Sides /\ out \in Nat /\ out =< ledger[side] /\ Cover(side, out) BY <1>1 DEF Begun
  <1>3. open = <<>> /\ open' = Append(open, e) BY DEF FillBegins, Entered
  <1>4. VenuesTyped BY VenueBounds DEF VenuesTyped, BooksInv, World
  <1>5. Tokens BY DEF BooksInv
  <1>6. /\ venue' \in [Venues -> VenueType] /\ Backed(venue') /\ NotDiluted
        /\ budget' \in [Venues -> Nat] /\ CoverCosts
    <2>1. Backed(venue) BY DEF BooksInv
    <2>2. budget \in [Venues -> Nat] /\ wallet \in [Sides -> Nat] BY <1>5 DEF Tokens
    <2> HIDE DEF side, out
    <2>3. QED BY <1>2, <1>4, <2>1, <2>2, CoverKeeps
  <1>7. /\ ledger' = [ledger EXCEPT ![side] = @ - out]
        /\ wallet' = [wallet EXCEPT ![side] = WalletAfter(side, out)]
    BY <1>1 DEF Begun
  <1>8. Tokens'
    <2>1. WalletAfter(side, out) \in Nat
      <3> HIDE DEF side, out
      <3>1. wallet[side] \in Nat BY <1>2, <1>5 DEF Tokens
      <3>2. QED BY <1>2, <3>1 DEF WalletAfter
    <2>2. UNCHANGED <<start, gifts>> BY DEF FillBegins
    <2> HIDE DEF side, out
    <2>3. ledger' \in [Sides -> Nat] BY <1>2, <1>5, <1>7 DEF Tokens
    <2>4. wallet' \in [Sides -> Nat] BY <1>2, <1>5, <1>7, <2>1 DEF Tokens
    <2>5. QED BY <1>5, <1>6, <2>2, <2>3, <2>4 DEF Tokens
  <1>9. World'
    <2>1. UNCHANGED <<docked, now, feed>> /\ Enters BY DEF FillBegins
    <2>2. World BY DEF BooksInv
    <2>3. QED BY <2>1, <2>2, BoardBounds DEF World, Enters
  <1>10. e \in Frames
    <2>1. e \in FrameType
      <3>1. InTo(sells) \in Sides BY DEF InTo, Sides
      <3>2. ledger[InTo(sells)] \in Nat BY <1>5, <3>1 DEF Tokens
      <3>3. Snapshot \in [venue : [Venues -> VenueType], ledger : [Sides -> Nat],
                          budget : [Venues -> Nat], wallet : [Sides -> Nat], gifts : [Sides -> Nat]]
        BY <1>4, <1>5 DEF Snapshot, VenuesTyped, Tokens
      <3>4. QED BY <3>2, <3>3 DEF FrameType
    <2>2. ledger["base"] =< BaseCap + gifts["base"] BY <1>3 DEF BooksInv
    <2>3. Backed(venue) BY DEF BooksInv
    <2>4. QED BY <2>1, <2>2, <2>3 DEF Frames, Snapshot
  <1>11. open' \in Seq(Frames) /\ Len(open') = 1 /\ open' # <<>> /\ open'[1] = e
    <2> HIDE DEF e
    <2>1. QED BY <1>3, <1>10, FirstFrame
  <1>12. /\ ledger'["base"] + (IF sells THEN amountIn ELSE 0) =< BaseCap + gifts'["base"]
         /\ ledger'[InTo(sells)] =< ledger[InTo(sells)] + gifts'[InTo(sells)]
    <2>1. gifts' = gifts /\ gifts["base"] \in Nat /\ gifts["quote"] \in Nat
      BY <1>5 DEF FillBegins, Tokens, Sides
    <2>2. ledger["base"] \in Nat /\ ledger["quote"] \in Nat BY <1>5 DEF Tokens, Sides
    <2>3. ledger["base"] =< BaseCap + gifts["base"] BY <1>3 DEF BooksInv
    <2>4. CASE sells
      <3>1. ledger'["base"] = ledger["base"] BY <1>5, <1>7, <2>4 DEF OutOf, Tokens, Sides
      <3>2. ledger["base"] + amountIn =< BaseCap BY <2>4 DEF FillBegins, UnderTheCap
      <3>3. InTo(sells) = "base" BY <2>4 DEF InTo
      <3>4. (IF sells THEN amountIn ELSE 0) = amountIn BY <2>4
      <3>5. ledger'["base"] + amountIn =< BaseCap + gifts'["base"]
        BY <2>1, <2>2, <3>1, <3>2, BoardBounds
      <3>6. ledger'["base"] =< ledger["base"] + gifts'["base"] BY <2>1, <2>2, <3>1
      <3>7. QED BY <3>3, <3>4, <3>5, <3>6
    <2>5. CASE ~sells
      <3>1. ledger'["quote"] = ledger["quote"] /\ ledger'["base"] =< ledger["base"]
            /\ ledger'["base"] \in Nat
        <4>1. side = "base" BY <2>5 DEF OutOf
        <4>2. ledger'["base"] \in Nat BY <1>8 DEF Tokens, Sides
        <4> HIDE DEF side, out
        <4>3. ledger' = [ledger EXCEPT !["base"] = ledger["base"] - out] BY <1>7, <4>1
        <4>4. QED BY <1>2, <1>5, <2>2, <4>2, <4>3 DEF Tokens, Sides
      <3>2. InTo(sells) = "quote" BY <2>5 DEF InTo
      <3>3. QED BY <2>1, <2>2, <2>3, <2>5, <3>1, <3>2, BoardBounds
    <2>6. QED BY <2>4, <2>5
  <1>13. Owing(open[1])'
    <2>1. /\ open'[1].sells = sells /\ open'[1].amountIn = amountIn
          /\ open'[1].pushedBack = ledger[InTo(sells)]
      BY <1>11
    <2>2. QED BY <1>12, <2>1 DEF Owing
  <1> HIDE DEF e
  <1>14. BooksInv' BY <1>6, <1>8, <1>9, <1>11, <1>13 DEF BooksInv
  <1>15. QED BY <1>6, <1>14 DEF Kept

LEMMA FillEndsKeeps ==
  ASSUME BooksInv, FillEnds
  PROVE  Kept
  <1> DEFINE f == open[1]
             side == InTo(f.sells)
  <1>1. open # <<>> /\ Last(open) = f /\ f \in Frames /\ Front(open) = <<>>
    <2>1. open \in Seq(Frames) /\ Len(open) =< 1 BY DEF BooksInv
    <2>2. open # <<>> BY DEF FillEnds
    <2>3. QED BY <2>1, <2>2, InnermostIsFirst
  <1>2. /\ Paid(f) /\ open' = <<>>
        /\ gifts' = [gifts EXCEPT ![side] = @ - f.amountIn]
        /\ UNCHANGED <<venueVars, aqua, wallet, feed, start, entries>>
    BY <1>1 DEF FillEnds
  <1>3. f.sells \in BOOLEAN /\ f.amountIn \in Nat /\ f.pushedBack \in Nat
    BY <1>1 DEF Frames, FrameType
  <1>4. Owing(f) BY <1>1 DEF BooksInv
  <1>5. side \in Sides BY DEF InTo, Sides
  <1>6. Tokens BY DEF BooksInv
  <1> HIDE DEF f
  <1>7. Tokens'
    <2>1. ledger[side] \in Nat /\ gifts[side] \in Nat BY <1>5, <1>6 DEF Tokens
    <2>2. ledger[side] >= f.pushedBack + f.amountIn BY <1>2 DEF Paid
    <2>3. ledger[side] =< f.pushedBack + gifts[side] BY <1>4 DEF Owing
    <2>4. gifts[side] - f.amountIn \in Nat BY <1>3, <2>1, <2>2, <2>3
    <2> HIDE DEF side
    <2>5. gifts' \in [Sides -> Nat] BY <1>2, <1>5, <1>6, <2>4 DEF Tokens
    <2>6. QED BY <1>2, <1>6, <2>5 DEF Tokens, aqua
  <1>8. ledger'["base"] =< BaseCap + gifts'["base"]
    <2>1. /\ ledger["base"] \in Nat /\ gifts["base"] \in Nat /\ "base" \in Sides
          /\ ledger' = ledger
      BY <1>2, <1>6 DEF Tokens, Sides, aqua
    <2>2. CASE f.sells
      <3>1. side = "base" BY <2>2 DEF InTo
      <3>2. gifts'["base"] = gifts["base"] - f.amountIn BY <1>2, <1>6, <2>1, <3>1 DEF Tokens
      <3>3. ledger["base"] + f.amountIn =< BaseCap + gifts["base"] BY <1>4, <2>2 DEF Owing
      <3>4. QED BY <1>3, <2>1, <3>2, <3>3, BoardBounds
    <2>3. CASE ~f.sells
      <3>1. side = "quote" BY <2>3 DEF InTo
      <3>2. gifts'["base"] = gifts["base"] BY <1>2, <1>6, <2>1, <3>1 DEF Tokens
      <3>3. ledger["base"] + 0 =< BaseCap + gifts["base"] BY <1>4, <2>3 DEF Owing
      <3>4. QED BY <2>1, <3>2, <3>3, BoardBounds
    <2>4. QED BY <2>2, <2>3
  <1>9. venue' \in [Venues -> VenueType] /\ Backed(venue') /\ NotDiluted
    BY <1>2 DEF BooksInv, venueVars, NotDiluted
  <1>10. World' BY <1>2 DEF BooksInv, World, venueVars, aqua
  <1>11. open' \in Seq(Frames) /\ Len(open') =< 1 BY <1>2
  <1>12. BooksInv' BY <1>2, <1>7, <1>8, <1>9, <1>10, <1>11 DEF BooksInv
  <1>13. QED BY <1>9, <1>12 DEF Kept

LEMMA FillRevertsKeeps ==
  ASSUME BooksInv, FillReverts
  PROVE  Kept
  <1> DEFINE f == open[1]
             s == f.saved
  <1>1. open # <<>> /\ Len(open) = 1 /\ Last(open) = f /\ f \in Frames /\ Front(open) = <<>>
    <2>1. open \in Seq(Frames) /\ Len(open) =< 1 BY DEF BooksInv
    <2>2. open # <<>> BY DEF FillReverts
    <2>3. QED BY <2>1, <2>2, InnermostIsFirst
  <1>2. /\ venue' = s.venue /\ ledger' = s.ledger /\ budget' = s.budget /\ wallet' = s.wallet
        /\ gifts' = s.gifts /\ open' = <<>>
        /\ UNCHANGED <<docked, now, feed, start, entries>>
    BY <1>1 DEF FillReverts
  <1>3. /\ s.venue \in [Venues -> VenueType] /\ s.ledger \in [Sides -> Nat]
        /\ s.budget \in [Venues -> Nat] /\ s.wallet \in [Sides -> Nat] /\ s.gifts \in [Sides -> Nat]
    BY <1>1 DEF Frames, FrameType
  <1>4. Backed(s.venue) /\ s.ledger["base"] =< BaseCap + s.gifts["base"] BY <1>1 DEF Frames
  <1> HIDE DEF f
  <1>5. Tokens' BY <1>2, <1>3 DEF BooksInv, Tokens
  <1>6. World' BY <1>2 DEF BooksInv, World
  <1>7. venue' \in [Venues -> VenueType] /\ Backed(venue') BY <1>2, <1>3, <1>4
  <1>8. open' \in Seq(Frames) /\ Len(open') = 0 BY <1>2
  <1>9. ledger'["base"] =< BaseCap + gifts'["base"] BY <1>2, <1>4
  <1>10. BooksInv' BY <1>2, <1>5, <1>6, <1>7, <1>8, <1>9 DEF BooksInv
  <1>11. QED BY <1>1, <1>8, <1>10 DEF Kept

LEMMA PushesKeeps ==
  ASSUME BooksInv, NEW side \in Sides, NEW x \in Nat, Pushes(side, x)
  PROVE  Kept
  <1>1. /\ ledger' = [ledger EXCEPT ![side] = @ + x] /\ wallet' = [wallet EXCEPT ![side] = @ + x]
        /\ gifts' = [gifts EXCEPT ![side] = @ + x]
        /\ UNCHANGED <<venueVars, budget, docked, feed, open, start, entries>>
    BY DEF Pushes
  <1>2. Tokens BY DEF BooksInv
  <1>3. Tokens' BY <1>1, <1>2 DEF Tokens
  <1>4. ASSUME NEW t \in Sides
        PROVE  \/ ledger'[t] = ledger[t] /\ gifts'[t] = gifts[t]
               \/ ledger'[t] = ledger[t] + x /\ gifts'[t] = gifts[t] + x
    BY <1>1, <1>2 DEF Tokens
  <1>5. "base" \in Sides /\ \A t \in Sides : ledger[t] \in Nat /\ gifts[t] \in Nat
    BY <1>2 DEF Tokens, Sides
  <1>6. ledger["base"] =< BaseCap + gifts["base"] => ledger'["base"] =< BaseCap + gifts'["base"]
    BY <1>4, <1>5, BoardBounds
  <1>7. open' # <<>> => Owing(open[1])'
    <2> DEFINE f == open[1]
    <2> SUFFICES ASSUME open # <<>> PROVE Owing(open[1])' BY <1>1
    <2>1. f \in Frames BY InnermostIsFirst DEF BooksInv
    <2>2. f.sells \in BOOLEAN /\ f.amountIn \in Nat /\ f.pushedBack \in Nat
      BY <2>1 DEF Frames, FrameType
    <2>3. Owing(f) /\ open'[1] = f BY <1>1 DEF BooksInv
    <2> HIDE DEF f
    <2> DEFINE due == IF f.sells THEN f.amountIn ELSE 0
    <2>4. due \in Nat /\ ledger["base"] + due =< BaseCap + gifts["base"] BY <2>2, <2>3 DEF Owing
    <2>5. InTo(f.sells) \in Sides BY DEF InTo, Sides
    <2>6. ledger'["base"] + due =< BaseCap + gifts'["base"]
      <3> HIDE DEF due
      <3>1. /\ ledger["base"] \in Nat /\ gifts["base"] \in Nat
            /\ \/ ledger'["base"] = ledger["base"] /\ gifts'["base"] = gifts["base"]
               \/ ledger'["base"] = ledger["base"] + x /\ gifts'["base"] = gifts["base"] + x
        BY <1>4, <1>5
      <3>2. BaseCap \in Nat BY BoardBounds
      <3>3. \A d \in Nat : ledger["base"] + d =< BaseCap + gifts["base"]
                              => ledger'["base"] + d =< BaseCap + gifts'["base"]
        BY SMTT(30), <3>1, <3>2
      <3>4. QED BY <2>4, <3>3
    <2>7. ledger'[InTo(f.sells)] =< f.pushedBack + gifts'[InTo(f.sells)]
      <3>1. ledger[InTo(f.sells)] =< f.pushedBack + gifts[InTo(f.sells)] BY <2>3 DEF Owing
      <3>2. QED BY <1>4, <1>5, <2>2, <2>5, <3>1
    <2>8. QED BY <2>3, <2>6, <2>7 DEF Owing
  <1>8. venue' \in [Venues -> VenueType] /\ Backed(venue') /\ NotDiluted
    BY <1>1 DEF BooksInv, venueVars, NotDiluted
  <1>9. World' BY <1>1 DEF BooksInv, World, venueVars
  <1>10. open' \in Seq(Frames) /\ Len(open') =< 1 BY <1>1 DEF BooksInv
  <1>11. open' = <<>> => ledger'["base"] =< BaseCap + gifts'["base"] BY <1>1, <1>6 DEF BooksInv
  <1>12. BooksInv' BY <1>3, <1>7, <1>8, <1>9, <1>10, <1>11 DEF BooksInv
  <1>13. QED BY <1>8, <1>12 DEF Kept

\* Everybody else leaves what is open alone.
LEMMA BesideKeeps ==
  ASSUME BooksInv, UNCHANGED open,
         venue' \in [Venues -> VenueType], Backed(venue'), NotDiluted, Tokens', World',
         \/ UNCHANGED <<ledger, gifts>>
         \/ open = <<>> /\ ledger'["base"] = 0 /\ UNCHANGED gifts
  PROVE  Kept
  <1>1. open' \in Seq(Frames) /\ Len(open') =< 1 BY DEF BooksInv
  <1>2. CASE UNCHANGED <<ledger, gifts>>
    <2>1. open' = <<>> => ledger'["base"] =< BaseCap + gifts'["base"] BY <1>2 DEF BooksInv
    <2>2. open' # <<>> => Owing(open[1])' BY <1>2 DEF BooksInv, Owing
    <2>3. BooksInv' BY <1>1, <2>1, <2>2 DEF BooksInv
    <2>4. QED BY <2>3 DEF Kept
  <1>3. CASE open = <<>> /\ ledger'["base"] = 0 /\ UNCHANGED gifts
    <2>1. gifts'["base"] \in Nat BY DEF Tokens, Sides
    <2>2. ledger'["base"] =< BaseCap + gifts'["base"] BY <1>3, <2>1, BoardBounds
    <2>3. BooksInv' BY <1>1, <1>3, <2>2 DEF BooksInv
    <2>4. QED BY <2>3 DEF Kept
  <1>4. QED BY <1>2, <1>3

LEMMA NextKeeps ==
  ASSUME BooksInv, [BoardNext]_boardVars
  PROVE  Kept
  <1>1. VenuesTyped /\ Backed(venue) BY VenueBounds DEF VenuesTyped, BooksInv, World
  <1>2. Tokens /\ World BY DEF BooksInv
  <1>3. ASSUME UNCHANGED venue
        PROVE  venue' \in [Venues -> VenueType] /\ Backed(venue') /\ NotDiluted
    BY <1>3 DEF BooksInv, NotDiluted
  <1>4. ASSUME Enters PROVE entries' \in 0..MaxEntries
    BY <1>2, <1>4, BoardBounds DEF Enters, World
  <1>5. ASSUME NEW sells \in BOOLEAN, NEW x \in (IF sells THEN SellAmounts ELSE BuyAmounts),
               FillBegins(sells, x)
        PROVE  Kept
    <2>1. x \in Nat BY BoardBounds
    <2>2. QED BY <1>5, <2>1, FillBeginsKeeps
  <1>6. CASE FillEnds BY <1>6, FillEndsKeeps
  <1>7. CASE FillReverts BY <1>7, FillRevertsKeeps
  <1>8. ASSUME NEW s \in Sides, NEW x \in PushAmounts[s], Pushes(s, x)
        PROVE  Kept
    <2>1. x \in Nat BY BoardBounds
    <2>2. QED BY <1>8, <2>1, PushesKeeps
  <1>9. CASE Docks
    <2>1. UNCHANGED <<venue, now, wallet, feed, open, start, gifts>> BY <1>9 DEF Docks, venueVars
    <2>2. /\ open = <<>> /\ docked' = TRUE /\ Enters
          /\ ledger' = [s \in Sides |-> 0] /\ budget' = [v \in Venues |-> 0]
      BY <1>9 DEF Docks
    <2>3. Tokens' BY <1>2, <2>1, <2>2 DEF Tokens
    <2>4. World' BY <1>2, <1>4, <2>1, <2>2 DEF World
    <2>5. ledger'["base"] = 0 BY <2>2 DEF Sides
    <2>6. QED BY <1>3, <2>1, <2>2, <2>3, <2>4, <2>5, BesideKeeps
  <1>10. ASSUME NEW x \in Answers, FeedAnswers(x)
         PROVE  Kept
    <2>1. /\ UNCHANGED <<venue, now, ledger, budget, docked, wallet, open, gifts>>
          /\ start' = ledger /\ feed' = [answer |-> x, at |-> now] /\ Enters
      BY <1>10 DEF FeedAnswers, venueVars, aqua
    <2>2. Tokens' BY <1>2, <2>1 DEF Tokens
    <2>3. World' BY <1>2, <1>4, <2>1 DEF World
    <2>4. QED BY <1>3, <2>1, <2>2, <2>3, BesideKeeps
  <1>11. ASSUME NEW v \in Venues, NEW a \in VenueAmounts, MakerSupplies(v, a)
         PROVE  Kept
    <2>1. /\ UNCHANGED <<now, ledger, budget, docked, feed, open, start, gifts>> /\ Enters
          /\ Supply(v, Maker, a) /\ wallet[AssetOf[v]] >= a
          /\ wallet' = [wallet EXCEPT ![AssetOf[v]] = @ - a]
      BY <1>11 DEF MakerSupplies, aqua
    <2>2. a \in Nat /\ AssetOf[v] \in Sides /\ Maker \in {Maker, Taker} BY BoardBounds
    <2>3. venue' \in [Venues -> VenueType] /\ Backed(venue') /\ NotDiluted
      BY <1>1, <2>1, <2>2, SupplyKeeps
    <2>4. Tokens'
      <3>1. wallet[AssetOf[v]] - a \in Nat BY <1>2, <2>1, <2>2 DEF Tokens
      <3>2. wallet' \in [Sides -> Nat] BY <1>2, <2>1, <2>2, <3>1 DEF Tokens
      <3>3. QED BY <1>2, <2>1, <3>2 DEF Tokens
    <2>5. World' BY <1>2, <1>4, <2>1 DEF World
    <2>6. QED BY <2>1, <2>3, <2>4, <2>5, BesideKeeps
  <1>12. ASSUME UNCHANGED <<now, ledger, budget, docked, wallet, feed, open, start, gifts>>, Enters,
                venue' \in [Venues -> VenueType], Backed(venue'), NotDiluted
         PROVE  Kept
    <2>1. Tokens' BY <1>2, <1>12 DEF Tokens
    <2>2. World' BY <1>2, <1>4, <1>12 DEF World
    <2>3. QED BY <1>12, <2>1, <2>2, BesideKeeps
  <1>13. ASSUME NEW v \in Venues, NEW a \in VenueAmounts, TakerAtVenue(v, a)
         PROVE  Kept
    <2>1. /\ UNCHANGED <<now, ledger, budget, docked, wallet, feed, open, start, gifts>> /\ Enters
          /\ Supply(v, Taker, a) \/ Withdraw(v, Taker, a) \/ Poke(v)
      BY <1>13 DEF TakerAtVenue, aqua
    <2>2. a \in Nat /\ Taker \in {Maker, Taker} BY BoardBounds
    <2>3. venue' \in [Venues -> VenueType] /\ Backed(venue') /\ NotDiluted
      <3>1. CASE Supply(v, Taker, a) BY <1>1, <2>2, <3>1, SupplyKeeps
      <3>2. CASE Withdraw(v, Taker, a)
        <4>1. PICK dust \in Dust :
                /\ CanWithdraw(venue[v], Taker, a, dust)
                /\ venue' = [venue EXCEPT ![v] = Withdrawn(v, venue[v], Taker, a, dust)]
          BY <1>1, <3>2 DEF Withdraw, VenuesTyped
        <4>2. QED BY <1>1, <2>2, <4>1, WithdrawalKeeps
      <3>3. CASE Poke(v)
        <4>1. 0 \in Int OBVIOUS
        <4>2. QED BY <1>1, <3>3, <4>1, QuietKeeps
      <3>4. QED BY <2>1, <3>1, <3>2, <3>3
    <2>4. QED BY <1>12, <2>1, <2>3
  <1>14. ASSUME NEW v \in Venues, NEW d \in Moves, MarketMoves(v, d)
         PROVE  Kept
    <2>1. /\ UNCHANGED <<now, ledger, budget, docked, wallet, feed, open, start, gifts>> /\ Enters
          /\ Accrue(v, d) \/ Borrow(v, d)
      BY <1>14 DEF MarketMoves, aqua
    <2>2. d \in Int BY VenueBounds
    <2>3. venue' \in [Venues -> VenueType] /\ Backed(venue') /\ NotDiluted
      BY <1>1, <2>1, <2>2, QuietKeeps
    <2>4. QED BY <1>12, <2>1, <2>3
  <1>15. CASE Tick
    <2>1. /\ UNCHANGED <<venue, ledger, budget, docked, wallet, feed, open, start, gifts, entries>>
          /\ now < MaxTime /\ now' = now + 1
      BY <1>15 DEF Tick, aqua
    <2>2. Tokens' BY <1>2, <2>1 DEF Tokens
    <2>3. World' BY <1>2, <2>1, VenueBounds DEF World
    <2>4. QED BY <1>3, <2>1, <2>2, <2>3, BesideKeeps
  <1>16. CASE UNCHANGED boardVars
    <2>1. UNCHANGED <<venue, now, ledger, budget, docked, wallet, feed, open, start, gifts, entries>>
      BY <1>16 DEF boardVars, venueVars, aqua
    <2>2. Tokens' BY <1>2, <2>1 DEF Tokens
    <2>3. World' BY <1>2, <2>1 DEF World
    <2>4. QED BY <1>3, <2>1, <2>2, <2>3, BesideKeeps
  <1>17. QED
    BY <1>5, <1>6, <1>7, <1>8, <1>9, <1>10, <1>11, <1>13, <1>14, <1>15, <1>16 DEF BoardNext

LEMMA InitKeeps ==
  ASSUME BoardInit
  PROVE  BooksInv
  <1>1. PICK s \in Starts :
          /\ venue = s.venue /\ ledger = s.ledger /\ budget = s.budget /\ wallet = s.wallet
          /\ docked = FALSE /\ now = 0 /\ open = <<>> /\ start = s.ledger /\ entries = 0
          /\ gifts = [side \in Sides |-> 0]
          /\ \E x \in Answers : feed = [answer |-> x, at |-> 0]
    BY DEF BoardInit
  <1>2. /\ s.venue \in [Venues -> VenueType]
        /\ s.ledger \in [Sides -> Nat] /\ s.budget \in [Venues -> Nat] /\ s.wallet \in [Sides -> Nat]
        /\ \A v \in Venues : s.venue[v].shares[Maker] + s.venue[v].shares[Taker] =< s.venue[v].supply
        /\ s.ledger["base"] =< BaseCap
    BY StartsAssumption DEF StartsAssumption
  <1>3. Tokens BY <1>1, <1>2 DEF Tokens
  <1>4. World
    <2>1. 0 \in 0..MaxTime /\ 0 \in 0..MaxEntries BY VenueBounds, BoardBounds
    <2>2. feed \in [answer : Answers, at : 0..MaxTime] BY <1>1, <2>1
    <2>3. QED BY <1>1, <2>1, <2>2 DEF World
  <1>5. venue \in [Venues -> VenueType] /\ Backed(venue) BY <1>1, <1>2 DEF Backed
  <1>6. ledger["base"] =< BaseCap + gifts["base"]
    <2>1. gifts["base"] = 0 BY <1>1 DEF Sides
    <2>2. QED BY <1>1, <1>2, <2>1, BoardBounds
  <1>7. open \in Seq(Frames) /\ Len(open) =< 1 BY <1>1
  <1>8. QED BY <1>1, <1>3, <1>4, <1>5, <1>6, <1>7 DEF BooksInv

\* The books agree with the ledger, now and in what an open fill would put back: the inductive
\* invariant the others follow from.
THEOREM BooksAreKept == BoardSpec => []BooksInv
  <1>1. BoardInit => BooksInv BY InitKeeps
  <1>2. BooksInv /\ [BoardNext]_boardVars => BooksInv' BY NextKeeps DEF Kept
  <1>3. QED BY <1>1, <1>2, PTL DEF BoardSpec

\* The state of the board and of its venues keeps its types: no counter ever goes below zero.
THEOREM BoardTypeCorrect == BoardSpec => []TypeOK
  <1>1. BooksInv => TypeOK
    <2>1. Frames \subseteq FrameType BY DEF Frames
    <2>2. ASSUME open \in Seq(Frames) PROVE open \in Seq(FrameType) BY <2>1, <2>2, SeqDef
    <2>3. QED BY <2>2 DEF BooksInv, Tokens, World, TypeOK
  <1>2. QED BY <1>1, BooksAreKept, PTL

\* _fill (HelicoOracleBoard.sol) checks the cap before it calls the taker back: whatever the taker
\* pushes from inside, and however often fills are tried, base beyond the cap was a gift.
THEOREM TheCapHolds == BoardSpec => []CapHolds
  <1>1. BooksInv => CapHolds BY DEF BooksInv, CapHolds
  <1>2. QED BY <1>1, BooksAreKept, PTL

\* CompoundVenue and MorphoVenue mint rounding down and burn rounding up: for any amounts and
\* any dust, what one holder does never costs the others more than the dust.
THEOREM NobodyIsDiluted == BoardSpec => SharesNeverDiluted
  <1>1. BooksInv /\ [BoardNext]_boardVars => (Len(open') >= Len(open) => NotDiluted)
    BY NextKeeps DEF Kept
  <1>2. (Len(open') >= Len(open) => NotDiluted) =>
          \A v \in Venues :
            venue'[v].supply # venue[v].supply /\ Len(open') >= Len(open) =>
              \E dust \in Dust :
                (venue'[v].assets + 1 + dust) * (venue[v].supply + 1)
                    >= (venue[v].assets + 1) * (venue'[v].supply + 1)
    BY Zenon DEF NotDiluted
  <1>3. QED BY <1>1, <1>2, BooksAreKept, PTL DEF BoardSpec, SharesNeverDiluted

\* Only a fill that begins opens anything.
LEMMA OnlyBeginningOpens ==
  ASSUME BooksInv, [BoardNext]_boardVars, Len(open') > Len(open)
  PROVE  \E sells \in BOOLEAN, x \in Nat : FillBegins(sells, x)
  <1>1. Len(open) \in Nat BY LenProperties DEF BooksInv
  <1>2. ~ UNCHANGED open BY <1>1
  <1>3. CASE FillEnds \/ FillReverts
    <2>1. open' = Front(open) /\ open # <<>> BY <1>3 DEF FillEnds, FillReverts
    <2>2. open' = <<>> BY <2>1, InnermostIsFirst DEF BooksInv
    <2>3. Len(open') = 0 BY <2>2
    <2>4. QED BY <1>1, <2>3
  <1>4. CASE Docks BY <1>2, <1>4 DEF Docks
  <1>5. CASE Tick BY <1>2, <1>5 DEF Tick
  <1>6. CASE UNCHANGED boardVars BY <1>2, <1>6 DEF boardVars
  <1>7. CASE \E s \in Sides : \E x \in PushAmounts[s] : Pushes(s, x) BY <1>2, <1>7 DEF Pushes
  <1>8. CASE \E x \in Answers : FeedAnswers(x) BY <1>2, <1>8 DEF FeedAnswers
  <1>9. CASE \E v \in Venues : \E a \in VenueAmounts : MakerSupplies(v, a) \/ TakerAtVenue(v, a)
    BY <1>2, <1>9 DEF MakerSupplies, TakerAtVenue
  <1>10. CASE \E v \in Venues : \E d \in Moves : MarketMoves(v, d) BY <1>2, <1>10 DEF MarketMoves
  <1>11. CASE \E sells \in BOOLEAN : \E x \in (IF sells THEN SellAmounts ELSE BuyAmounts) :
                FillBegins(sells, x)
    <2>1. SellAmounts \subseteq Nat /\ BuyAmounts \subseteq Nat BY BoardBounds
    <2>2. QED BY <1>11, <2>1
  <1>12. QED BY <1>3, <1>4, <1>5, <1>6, <1>7, <1>8, <1>9, <1>10, <1>11 DEF BoardNext

LEMMA AnUnwindEmptiesTheWallet ==
  ASSUME BooksInv, NEW sells \in BOOLEAN, NEW x \in Nat, FillBegins(sells, x),
         NEW v \in Venues, venue'[v] # venue[v]
  PROVE  wallet'[AssetOf[v]] = 0
  <1> DEFINE side == OutOf(sells)
             out == QuoteExactIn(sells, x)
  <1>1. /\ side \in Sides /\ out \in Nat /\ Cover(side, out)
        /\ wallet' = [wallet EXCEPT ![side] = WalletAfter(side, out)]
    BY BeginsWell DEF Begun
  <1>2. VenuesTyped /\ Backed(venue) BY VenueBounds DEF VenuesTyped, BooksInv, World
  <1>3. budget \in [Venues -> Nat] /\ wallet \in [Sides -> Nat] BY DEF BooksInv, Tokens
  <1> HIDE DEF side, out
  <1>4. AssetOf[v] = side /\ wallet[side] < out BY <1>1, <1>2, <1>3, CoverKeeps
  <1>5. WalletAfter(side, out) = 0 BY <1>1, <1>3, <1>4 DEF WalletAfter
  <1>6. QED BY <1>1, <1>3, <1>4, <1>5

\* _ensureBalance and _unwind pull exactly what previewWithdraw asks: for any board and venue, a
\* fill that unwinds costs the maker and the budget the same receipts, worth the deficit but for
\* one of them and the dust, and only after the wallet has given all it had.
THEOREM CoveringCostsTheDeficit == BoardSpec => CoverCostsItsDeficit
  <1> DEFINE Step ==
        \A v \in Venues :
          Len(open') > Len(open) /\ venue'[v] # venue[v] =>
            LET spent == venue[v].shares[Maker] - venue'[v].shares[Maker]
                paid == venue[v].assets - venue'[v].assets
            IN /\ budget[v] - budget'[v] = spent
               /\ wallet'[AssetOf[v]] = 0
               /\ \E dust \in Dust : PreviewRedeem(venue[v], spent) + dust =< paid
                                       + PreviewRedeem(venue[v], 1)
  <1>1. BooksInv /\ [BoardNext]_boardVars => Step
    <2> SUFFICES ASSUME BooksInv, [BoardNext]_boardVars, NEW v \in Venues,
                        Len(open') > Len(open), venue'[v] # venue[v]
                 PROVE  LET spent == venue[v].shares[Maker] - venue'[v].shares[Maker]
                            paid == venue[v].assets - venue'[v].assets
                        IN /\ budget[v] - budget'[v] = spent
                           /\ wallet'[AssetOf[v]] = 0
                           /\ \E dust \in Dust : PreviewRedeem(venue[v], spent) + dust =< paid
                                                   + PreviewRedeem(venue[v], 1)
      OBVIOUS
    <2>1. PICK sells \in BOOLEAN, x \in Nat : FillBegins(sells, x) BY OnlyBeginningOpens
    <2>2. CoverCosts BY <2>1, FillBeginsKeeps
    <2>3. wallet'[AssetOf[v]] = 0 BY <2>1, AnUnwindEmptiesTheWallet
    <2>4. QED BY <2>2, <2>3, Zenon DEF CoverCosts
  <1>2. QED BY <1>1, BooksAreKept, PTL DEF BoardSpec, CoverCostsItsDeficit

-----------------------------------------------------------------------------
(* The worth of the board, on boards whose bend is at most the whole spread. *)

NarrowBend == MaxSkew =< 2 * Spread
Lowest == (feed.answer * (Bps - Spread)) \div Bps
OncePaid(f) == [ledger EXCEPT ![InTo(f.sells)] = f.pushedBack + f.amountIn]

\* An open fill will leave the board worth what it was, whether it is paid or put back.
WorthInv ==
    feed.answer > 0 /\ ~docked =>
        /\ open = <<>> => Worth(ledger) >= Worth(start)
        /\ open # <<>> => /\ Worth(open[1].saved.ledger) >= Worth(start)
                          /\ Worth(OncePaid(open[1])) >= Worth(start)

LEMMA MoreDivided ==
  ASSUME NEW a \in Int, NEW b \in Int, a =< b, NEW n \in Nat \ {0}
  PROVE  a \div n =< b \div n
  <1> DEFINE p == a \div n
             q == b \div n
  <1>1. p \in Int /\ n * p =< a /\ q \in Int /\ b < n * q + n BY Division
  <1> HIDE DEF p, q
  <1>2. n * p < n * (q + 1) BY <1>1
  <1>3. ~ (p >= q + 1) BY <1>1, <1>2, SMT
  <1>4. QED BY <1>1, <1>3 DEF p, q

LEMMA BendIsBounded ==
  ASSUME ledger["base"] \in Nat
  PROVE  SkewBps \in Nat /\ SkewBps =< MaxSkew
  <1>1. CASE BaseCap = 0 BY <1>1, BoardBounds DEF SkewBps
  <1>2. CASE ledger["base"] >= BaseCap BY <1>2, BoardBounds DEF SkewBps
  <1>3. CASE BaseCap # 0 /\ ~(ledger["base"] >= BaseCap)
    <2> DEFINE bent == MaxSkew * ledger["base"]
               k == bent \div BaseCap
    <2>1. BaseCap \in Nat \ {0} /\ MaxSkew \in Nat /\ ledger["base"] < BaseCap BY <1>3, BoardBounds
    <2>2. bent \in Nat /\ bent =< BaseCap * MaxSkew BY <2>1, SMT
    <2>3. SkewBps = k BY <1>3 DEF SkewBps
    <2> HIDE DEF bent
    <2>4. k \in Int /\ BaseCap * k =< bent /\ bent < BaseCap * k + BaseCap BY <2>1, <2>2, Division
    <2> HIDE DEF k
    <2>5. BaseCap * k =< BaseCap * MaxSkew BY <2>1, <2>2, <2>4
    <2>6. k =< MaxSkew BY <2>1, <2>4, <2>5, SMT
    <2>7. k >= 0 BY <2>1, <2>2, <2>4, SMT
    <2>8. QED BY <2>3, <2>4, <2>6, <2>7
  <1>4. QED BY <1>1, <1>2, <1>3

\* The bid is never above the lowest, nor the ask below it while the bend is narrow.
LEMMA QuotesStraddle ==
  ASSUME feed.answer \in Nat, ledger["base"] \in Nat, NarrowBend
  PROVE  /\ Bid \in Int /\ Ask \in Int /\ Lowest \in Nat
         /\ Bid =< Lowest /\ Lowest =< Ask
  <1> DEFINE k == SkewBps
             a == feed.answer
  <1>1. k \in Nat /\ k =< MaxSkew /\ a \in Nat BY BendIsBounded
  <1>2. /\ Bps \in Nat \ {0} /\ Spread \in Nat /\ MaxSkew \in Nat /\ Spread + MaxSkew < Bps
        /\ MaxSkew =< 2 * Spread
    BY BoardBounds DEF NarrowBend
  <1>3. Bid = (a * (Bps - Spread - k)) \div Bps /\ Ask = (a * (Bps + Spread - k)) \div Bps
        /\ Lowest = (a * (Bps - Spread)) \div Bps
    BY DEF Bid, Ask, Lowest
  <1> HIDE DEF k, a
  <1>4. /\ Bps - Spread - k \in Nat /\ Bps - Spread \in Nat /\ Bps + Spread - k \in Nat
        /\ Bps - Spread - k =< Bps - Spread /\ Bps - Spread =< Bps + Spread - k
    BY <1>1, <1>2
  <1>5. \A x, y \in Nat : x =< y => a * x \in Nat /\ a * x =< a * y BY <1>1, SMT
  <1> DEFINE low == a * (Bps - Spread - k)
             mid == a * (Bps - Spread)
             high == a * (Bps + Spread - k)
  <1>6. /\ low \in Nat /\ mid \in Nat /\ high \in Nat /\ low =< mid /\ mid =< high
    <2>1. low \in Nat /\ low =< mid BY <1>4, <1>5
    <2>2. mid \in Nat /\ mid =< high BY <1>4, <1>5
    <2>3. high \in Nat BY <1>4, <1>5
    <2>4. QED BY <2>1, <2>2, <2>3
  <1>7. Bid = low \div Bps /\ Ask = high \div Bps /\ Lowest = mid \div Bps BY <1>3
  <1> HIDE DEF low, mid, high
  <1>8. Bid \in Int /\ Ask \in Int /\ Bid =< Lowest /\ Lowest =< Ask
    BY <1>2, <1>6, <1>7, MoreDivided, Division
  <1>9. Lowest \in Nat BY <1>2, <1>6, <1>7
  <1>10. QED BY <1>8, <1>9

\* What a fill gives is worth no more than what it takes.
LEMMA FillsAreFair ==
  ASSUME feed.answer \in Nat, ledger["base"] \in Nat, NarrowBend, NEW sells \in BOOLEAN,
         NEW x \in Nat, ~sells => Ask > 0, QuoteExactIn(sells, x) \in Nat
  PROVE  IF sells THEN QuoteExactIn(sells, x) * Unit =< x * Lowest
         ELSE QuoteExactIn(sells, x) * Lowest =< x * Unit
  <1> DEFINE out == QuoteExactIn(sells, x)
  <1>1. Bid \in Int /\ Ask \in Int /\ Lowest \in Nat /\ Bid =< Lowest /\ Lowest =< Ask
    BY QuotesStraddle
  <1>2. Unit \in Nat \ {0} BY BoardBounds
  <1>3. CASE sells
    <2>1. out = (x * Bid) \div Unit BY <1>3 DEF QuoteExactIn
    <2>2. Unit * out =< x * Bid
      <3>1. x * Bid \in Int BY <1>1
      <3>2. QED BY <1>2, <2>1, <3>1, Division
    <2>3. x * Bid =< x * Lowest BY <1>1, SMT
    <2> HIDE DEF out
    <2>4. out \in Nat BY DEF out
    <2>5. out * Unit = Unit * out BY <1>2, <2>4
    <2>6. out * Unit =< x * Lowest BY <1>1, <1>2, <2>2, <2>3, <2>4, <2>5
    <2>7. QED BY <1>3, <2>6 DEF out
  <1>4. CASE ~sells
    <2>1. out = (x * Unit) \div Ask /\ Ask \in Nat \ {0} BY <1>1, <1>4 DEF QuoteExactIn
    <2>2. Ask * out =< x * Unit
      <3>1. x * Unit \in Int BY <1>2
      <3>2. QED BY <2>1, <3>1, Division
    <2> HIDE DEF out
    <2>3. out \in Nat BY DEF out
    <2>4. out * Lowest =< Ask * out BY <1>1, <2>3, SMT
    <2>5. out * Lowest =< x * Unit BY <1>1, <1>2, <2>1, <2>2, <2>3, <2>4
    <2>6. QED BY <1>4, <2>5 DEF out
  <1>5. QED BY <1>3, <1>4

LEMMA WorthIsSum ==
  ASSUME feed.answer \in Nat, NEW l \in [Sides -> Nat]
  PROVE  /\ Worth(l) = l["quote"] * Unit + l["base"] * Lowest /\ Worth(l) \in Nat
         /\ l["quote"] \in Nat /\ l["base"] \in Nat /\ Lowest \in Nat
  <1>1. l["quote"] \in Nat /\ l["base"] \in Nat BY DEF Sides
  <1>2. Lowest \in Nat
    <2>1. Bps - Spread \in Nat /\ Bps \in Nat \ {0} BY BoardBounds
    <2>2. feed.answer * (Bps - Spread) \in Nat BY <2>1
    <2>3. QED BY <2>1, <2>2 DEF Lowest
  <1>3. Worth(l) = l["quote"] * Unit + l["base"] * Lowest BY DEF Worth, Lowest
  <1>4. l["quote"] * Unit \in Nat /\ l["base"] * Lowest \in Nat BY <1>1, <1>2, BoardBounds
  <1>5. QED BY <1>1, <1>2, <1>3, <1>4

LEMMA MoreIsWorthMore ==
  ASSUME feed.answer \in Nat, NEW l \in [Sides -> Nat], NEW m \in [Sides -> Nat],
         l["quote"] =< m["quote"], l["base"] =< m["base"]
  PROVE  Worth(l) =< Worth(m)
  <1>1. /\ Worth(l) = l["quote"] * Unit + l["base"] * Lowest
        /\ l["quote"] \in Nat /\ l["base"] \in Nat /\ Lowest \in Nat
    BY WorthIsSum
  <1>2. /\ Worth(m) = m["quote"] * Unit + m["base"] * Lowest
        /\ m["quote"] \in Nat /\ m["base"] \in Nat
    BY WorthIsSum
  <1>3. Unit \in Nat BY BoardBounds
  <1>4. l["quote"] * Unit =< m["quote"] * Unit /\ l["base"] * Lowest =< m["base"] * Lowest
    BY <1>1, <1>2, <1>3, SMT
  <1>5. QED BY <1>1, <1>2, <1>3, <1>4

LEMMA BeginKeepsWorth ==
  ASSUME BooksInv, BooksInv', WorthInv, NarrowBend, NEW sells \in BOOLEAN, NEW x \in Nat,
         FillBegins(sells, x)
  PROVE  WorthInv'
  <1> DEFINE side == OutOf(sells)
             other == InTo(sells)
             out == QuoteExactIn(sells, x)
             e == [sells |-> sells, amountIn |-> x, pushedBack |-> ledger[other],
                   saved |-> Snapshot]
             after == [ledger' EXCEPT ![other] = ledger[other] + x]
  <1>1. /\ out \in Nat /\ out =< ledger[side] /\ ledger' = [ledger EXCEPT ![side] = @ - out]
        /\ ledger \in [Sides -> Nat] /\ start \in [Sides -> Nat] /\ ledger' \in [Sides -> Nat]
    BY BeginsWell DEF Begun, BooksInv, Tokens
  <1>2. /\ open = <<>> /\ open' = Append(open, e) /\ docked' = docked /\ ~docked
        /\ feed' = feed /\ start' = start /\ feed.answer > 0 /\ (~sells => Ask > 0)
    BY DEF FillBegins, Entered, Quotable
  <1>3. open' # <<>> /\ open'[1] = e
    <2>1. open' # <<>> /\ open'[1] = Append(<<>>, e)[1] BY <1>2
    <2> HIDE DEF e
    <2>2. QED BY <2>1
  <1>4. feed.answer \in Nat
    <2>1. feed.answer \in Int BY BoardBounds DEF BooksInv, World
    <2>2. QED BY <1>2, <2>1
  <1>5. Worth(ledger) >= Worth(start) BY <1>2 DEF WorthInv
  <1>6. OncePaid(open[1])' = after
    <2>1. open'[1].sells = sells /\ open'[1].pushedBack + open'[1].amountIn = ledger[other] + x
      BY <1>3
    <2>2. QED BY <2>1 DEF OncePaid
  <1>7. open'[1].saved.ledger = ledger BY <1>3 DEF Snapshot
  <1>8. after \in [Sides -> Nat] /\ Worth(after) >= Worth(ledger)
    <2> HIDE DEF out
    <2>1. ledger["base"] \in Nat /\ ledger["quote"] \in Nat /\ {"base", "quote"} \subseteq Sides
      BY <1>1 DEF Sides
    <2>2. IF sells THEN out * Unit =< x * Lowest ELSE out * Lowest =< x * Unit
      BY <1>1, <1>2, <1>4, <2>1, FillsAreFair DEF out
    <2>3. other \in Sides /\ ledger[other] + x \in Nat BY <1>1 DEF InTo, Sides
    <2>4. after \in [Sides -> Nat] BY <1>1, <2>3
    <2>5. /\ Worth(ledger) = ledger["quote"] * Unit + ledger["base"] * Lowest
          /\ Worth(after) = after["quote"] * Unit + after["base"] * Lowest /\ Lowest \in Nat
      <3> HIDE DEF after
      <3>1. QED BY <1>1, <1>4, <2>4, WorthIsSum
    <2>6. Unit \in Nat BY BoardBounds
    <2>7. CASE sells
      <3>1. side = "quote" /\ other = "base" BY <2>7 DEF OutOf, InTo
      <3>2. after["quote"] = ledger["quote"] - out /\ after["base"] = ledger["base"] + x
        BY <1>1, <2>1, <3>1
      <3>3. \A q, b \in Nat : (q - out) * Unit + (b + x) * Lowest
                                = (q * Unit + b * Lowest) - out * Unit + x * Lowest
        BY <1>1, <2>5, <2>6, SMT
      <3>4. Worth(after) = (ledger["quote"] * Unit + ledger["base"] * Lowest) - out * Unit + x * Lowest
        BY <2>1, <2>5, <3>2, <3>3
      <3> DEFINE lost == out * Unit
                 won == x * Lowest
                 was == ledger["quote"] * Unit + ledger["base"] * Lowest
      <3>5. was \in Int /\ lost \in Int /\ won \in Int /\ lost =< won
        BY <1>1, <2>1, <2>2, <2>5, <2>6, <2>7
      <3>6. Worth(after) = was - lost + won /\ Worth(ledger) = was BY <2>5, <3>4
      <3> HIDE DEF lost, won, was
      <3>7. was - lost + won >= was BY <3>5
      <3>8. QED BY <2>4, <3>6, <3>7
    <2>8. CASE ~sells
      <3>1. side = "base" /\ other = "quote" BY <2>8 DEF OutOf, InTo
      <3>2. after["base"] = ledger["base"] - out /\ after["quote"] = ledger["quote"] + x
        BY <1>1, <2>1, <3>1
      <3>3. \A q, b \in Nat : (q + x) * Unit + (b - out) * Lowest
                                = (q * Unit + b * Lowest) - out * Lowest + x * Unit
        BY <1>1, <2>5, <2>6, SMT
      <3>4. Worth(after) = (ledger["quote"] * Unit + ledger["base"] * Lowest) - out * Lowest + x * Unit
        BY <2>1, <2>5, <3>2, <3>3
      <3> DEFINE lost == out * Lowest
                 won == x * Unit
                 was == ledger["quote"] * Unit + ledger["base"] * Lowest
      <3>5. was \in Int /\ lost \in Int /\ won \in Int /\ lost =< won
        BY <1>1, <2>1, <2>2, <2>5, <2>6, <2>8
      <3>6. Worth(after) = was - lost + won /\ Worth(ledger) = was BY <2>5, <3>4
      <3> HIDE DEF lost, won, was
      <3>7. was - lost + won >= was BY <3>5
      <3>8. QED BY <2>4, <3>6, <3>7
    <2>9. QED BY <2>7, <2>8
  <1>9. /\ Worth(open[1].saved.ledger)' = Worth(ledger) /\ Worth(start)' = Worth(start)
        /\ Worth(OncePaid(open[1]))' = Worth(after)
    <2> HIDE DEF after
    <2>1. QED BY <1>2, <1>6, <1>7 DEF Worth
  <1>10. Worth(after) >= Worth(start)
    <2> HIDE DEF after
    <2>1. Worth(after) \in Nat /\ Worth(ledger) \in Nat /\ Worth(start) \in Nat
      BY <1>1, <1>4, <1>8, WorthIsSum
    <2>2. QED BY <1>5, <1>8, <2>1
  <1>11. QED BY <1>3, <1>5, <1>9, <1>10 DEF WorthInv

\* What is on the board only grows while a fill is open.
LEMMA PushKeepsWorth ==
  ASSUME BooksInv, WorthInv, NEW side \in Sides, NEW x \in Nat, Pushes(side, x)
  PROVE  WorthInv'
  <1>1. /\ ledger' = [ledger EXCEPT ![side] = @ + x] /\ feed' = feed /\ open' = open
        /\ start' = start /\ docked' = docked
    BY DEF Pushes
  <1>2. ledger \in [Sides -> Nat] /\ start \in [Sides -> Nat] BY DEF BooksInv, Tokens
  <1>3. SUFFICES ASSUME feed.answer > 0, ~docked
                 PROVE  /\ open = <<>> => Worth(ledger') >= Worth(start)
                        /\ open # <<>> => /\ Worth(open[1].saved.ledger) >= Worth(start)
                                          /\ Worth(OncePaid(open[1])') >= Worth(start)
    BY <1>1 DEF WorthInv, Worth
  <1>4. feed.answer \in Nat
    <2>1. feed.answer \in Int BY BoardBounds DEF BooksInv, World
    <2>2. QED BY <1>3, <2>1
  <1>5. ledger' \in [Sides -> Nat] /\ \A s \in Sides : ledger[s] =< ledger'[s] BY <1>1, <1>2
  <1>6. {"quote", "base"} \subseteq Sides BY DEF Sides
  <1>7. CASE open = <<>>
    <2>1. Worth(ledger) >= Worth(start) BY <1>3, <1>7 DEF WorthInv
    <2>2. Worth(ledger) =< Worth(ledger') BY <1>2, <1>4, <1>5, <1>6, MoreIsWorthMore
    <2>3. Worth(ledger) \in Nat /\ Worth(ledger') \in Nat /\ Worth(start) \in Nat
      BY <1>2, <1>4, <1>5, WorthIsSum
    <2>4. QED BY <1>7, <2>1, <2>2, <2>3
  <1>8. CASE open # <<>>
    <2> DEFINE f == open[1]
               into == InTo(f.sells)
               paid == f.pushedBack + f.amountIn
               was == [ledger EXCEPT ![into] = paid]
               will == [ledger' EXCEPT ![into] = paid]
    <2>1. Worth(f.saved.ledger) >= Worth(start) /\ Worth(was) >= Worth(start)
      BY <1>3, <1>8 DEF WorthInv, OncePaid
    <2>2. f \in Frames BY <1>8, InnermostIsFirst DEF BooksInv
    <2>3. paid \in Nat /\ into \in Sides BY <2>2 DEF Frames, FrameType, InTo, Sides
    <2>4. OncePaid(open[1])' = will BY <1>1 DEF OncePaid
    <2> HIDE DEF f, paid, into
    <2>5. was \in [Sides -> Nat] /\ will \in [Sides -> Nat] /\ \A s \in Sides : was[s] =< will[s]
      BY <1>2, <1>5, <2>3
    <2> HIDE DEF was, will
    <2>6. Worth(was) =< Worth(will) BY <1>4, <1>6, <2>5, MoreIsWorthMore
    <2>7. Worth(was) \in Nat /\ Worth(will) \in Nat /\ Worth(start) \in Nat
      BY <1>2, <1>4, <2>5, WorthIsSum
    <2>8. Worth(will) >= Worth(start) BY <2>1, <2>6, <2>7
    <2>9. QED BY <1>8, <2>1, <2>4, <2>8 DEF f
  <1>9. QED BY <1>7, <1>8

LEMMA EndsKeepWorth ==
  ASSUME BooksInv, WorthInv, FillEnds \/ FillReverts
  PROVE  WorthInv'
  <1> DEFINE f == open[1]
             into == InTo(f.sells)
             paid == f.pushedBack + f.amountIn
             due == [ledger EXCEPT ![into] = paid]
  <1>1. open # <<>> /\ Last(open) = f /\ f \in Frames /\ Front(open) = <<>>
    <2>1. open \in Seq(Frames) /\ Len(open) =< 1 BY DEF BooksInv
    <2>2. open # <<>> BY DEF FillEnds, FillReverts
    <2>3. QED BY <2>1, <2>2, InnermostIsFirst
  <1>2. /\ open' = <<>> /\ feed' = feed /\ start' = start /\ docked' = docked
        /\ \/ Paid(f) /\ ledger' = ledger
           \/ ledger' = f.saved.ledger
    BY <1>1 DEF FillEnds, FillReverts, aqua
  <1>3. ledger \in [Sides -> Nat] /\ start \in [Sides -> Nat] BY DEF BooksInv, Tokens
  <1>4. SUFFICES ASSUME feed.answer > 0, ~docked PROVE Worth(ledger') >= Worth(start)
    BY <1>2 DEF WorthInv, Worth
  <1>5. feed.answer \in Nat
    <2>1. feed.answer \in Int BY BoardBounds DEF BooksInv, World
    <2>2. QED BY <1>4, <2>1
  <1>6. Worth(f.saved.ledger) >= Worth(start) /\ Worth(due) >= Worth(start)
    BY <1>1, <1>4 DEF WorthInv, OncePaid
  <1>7. paid \in Nat /\ into \in Sides BY <1>1 DEF Frames, FrameType, InTo, Sides
  <1>8. CASE ledger' = f.saved.ledger BY <1>6, <1>8
  <1>9. CASE Paid(f) /\ ledger' = ledger
    <2>1. ledger[into] >= paid BY <1>9 DEF Paid
    <2> HIDE DEF f, paid, into
    <2>2. due \in [Sides -> Nat] /\ \A s \in Sides : due[s] =< ledger[s] BY <1>3, <1>7, <2>1
    <2> HIDE DEF due
    <2>3. {"quote", "base"} \subseteq Sides BY DEF Sides
    <2>4. Worth(due) =< Worth(ledger) BY <1>3, <1>5, <2>2, <2>3, MoreIsWorthMore
    <2>5. Worth(due) \in Nat /\ Worth(ledger) \in Nat /\ Worth(start) \in Nat
      BY <1>3, <1>5, <2>2, WorthIsSum
    <2>6. QED BY <1>6, <1>9, <2>4, <2>5
  <1>10. QED BY <1>2, <1>8, <1>9

LEMMA WorthStep ==
  ASSUME BooksInv, BooksInv', WorthInv, NarrowBend, [BoardNext]_boardVars
  PROVE  WorthInv'
  <1>1. ASSUME UNCHANGED <<ledger, docked, feed, open, start>> PROVE WorthInv'
    BY <1>1 DEF WorthInv, Worth, OncePaid
  <1>2. CASE \E sells \in BOOLEAN : \E x \in (IF sells THEN SellAmounts ELSE BuyAmounts) :
               FillBegins(sells, x)
    <2>1. SellAmounts \subseteq Nat /\ BuyAmounts \subseteq Nat BY BoardBounds
    <2>2. PICK sells \in BOOLEAN, x \in Nat : FillBegins(sells, x) BY <1>2, <2>1
    <2>3. QED BY <2>2, BeginKeepsWorth
  <1>3. CASE FillEnds \/ FillReverts BY <1>3, EndsKeepWorth
  <1>4. CASE \E s \in Sides : \E x \in PushAmounts[s] : Pushes(s, x)
    <2>1. \A s \in Sides : PushAmounts[s] \subseteq Nat BY BoardBounds
    <2>2. PICK s \in Sides, x \in Nat : Pushes(s, x) BY <1>4, <2>1
    <2>3. QED BY <2>2, PushKeepsWorth
  <1>5. CASE Docks BY <1>5 DEF Docks, WorthInv
  <1>6. CASE \E x \in Answers : FeedAnswers(x)
    <2>1. PICK x \in Answers : FeedAnswers(x) BY <1>6
    <2>2. open' = <<>> /\ start' = ledger /\ ledger' = ledger BY <2>1 DEF FeedAnswers, aqua
    <2>3. feed'.answer > 0 => feed'.answer \in Nat
      <3>1. feed'.answer \in Int BY BoardBounds DEF BooksInv, World
      <3>2. QED BY <3>1
    <2>4. Worth(ledger)' = Worth(start)' BY <2>2 DEF Worth
    <2>5. ledger' \in [Sides -> Nat] BY DEF BooksInv, Tokens
    <2>6. feed'.answer > 0 => Worth(ledger)' \in Int
      <3> SUFFICES ASSUME feed'.answer > 0 PROVE Worth(ledger)' \in Int
        OBVIOUS
      <3>1. ledger'["quote"] \in Nat /\ ledger'["base"] \in Nat BY <2>5 DEF Sides
      <3>2. Bps - Spread \in Int /\ Bps \in Nat \ {0} /\ Unit \in Nat BY BoardBounds
      <3>3. feed'.answer * (Bps - Spread) \in Int BY <2>3, <3>2
      <3>4. (feed'.answer * (Bps - Spread)) \div Bps \in Int BY <3>2, <3>3
      <3>5. QED BY <3>1, <3>2, <3>4 DEF Worth
    <2>7. QED BY <2>2, <2>4, <2>6 DEF WorthInv
  <1>7. CASE \E v \in Venues : \E a \in VenueAmounts : MakerSupplies(v, a) \/ TakerAtVenue(v, a)
    BY <1>1, <1>7 DEF MakerSupplies, TakerAtVenue, aqua
  <1>8. CASE \E v \in Venues : \E d \in Moves : MarketMoves(v, d) BY <1>1, <1>8 DEF MarketMoves, aqua
  <1>9. CASE Tick BY <1>1, <1>9 DEF Tick, aqua
  <1>10. CASE UNCHANGED boardVars BY <1>1, <1>10 DEF boardVars, aqua
  <1>11. QED BY <1>2, <1>3, <1>4, <1>5, <1>6, <1>7, <1>8, <1>9, <1>10 DEF BoardNext

\* _quotes (HelicoOracleBoard.sol) bends bid and ask together: on any board whose bend is at most
\* the whole spread, no row of fills at one answer of the feed, however nested, pushed to or taken
\* back, costs the maker anything.
THEOREM TheSpreadIsKept == NarrowBend => (BoardSpec => []SpreadIsKept)
  <1> SUFFICES ASSUME NarrowBend PROVE BoardSpec => []SpreadIsKept
    OBVIOUS
  <1>1. BoardInit => WorthInv
    <2> SUFFICES ASSUME BoardInit PROVE WorthInv
      OBVIOUS
    <2>1. BooksInv /\ open = <<>> /\ start = ledger BY InitKeeps DEF BoardInit
    <2>2. ledger \in [Sides -> Nat] /\ feed.answer \in Int
      BY <2>1, BoardBounds DEF BooksInv, Tokens, World
    <2>3. feed.answer > 0 => Worth(ledger) \in Nat BY <2>2, WorthIsSum
    <2>4. QED BY <2>1, <2>3 DEF WorthInv
  <1>2. BooksInv /\ BooksInv' /\ WorthInv /\ [BoardNext]_boardVars => WorthInv' BY WorthStep
  <1>3. WorthInv => SpreadIsKept BY DEF WorthInv, SpreadIsKept
  <1>4. QED BY <1>1, <1>2, <1>3, BooksAreKept, PTL DEF BoardSpec
=============================================================================
