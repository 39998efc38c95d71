------------------------- MODULE IdleWorkflowProofs -------------------------
(***************************************************************************)
(* Proofs about IdleWorkflow, for any number of accounts, assets and       *)
(* markets, any policy and any schedule.                                   *)
(*                                                                         *)
(* The decision is a function of one side, so the first half is about that *)
(* function alone: what it decides fits the side it was given.  The second *)
(* half carries that through a run.  A run that is still fresh has read    *)
(* what is still there, so what it decided fits the accounts as they are;  *)
(* whatever changes them makes every run and every report stale.           *)
(***************************************************************************)
EXTENDS IdleWorkflow, SumsProofs, TLAPS

LEMMA Config ==
    /\ NumAccounts \in Nat \ {0} /\ NumAssets \in Nat \ {0} /\ NumPools \in Nat
    /\ Lists \in [Assets -> SUBSET Pools]
  BY ConfigAssumption DEF ConfigAssumption

LEMMA Policy ==
    /\ BPS \in Nat \ {0} /\ RAY \in Nat \ {0}
    /\ TargetWorkingBps \in 0..BPS /\ MinMoveBps \in 0..BPS
    /\ MinIdleAmount \in Nat /\ MinMoveAmount \in Nat /\ MinSupplyRate \in Nat
    /\ MaxMoveAmount \in Nat \ {0}
    /\ DeadlineTicks \in Nat \ {0} /\ RunTicks \in Nat
  BY PolicyAssumption DEF PolicyAssumption

-----------------------------------------------------------------------------
(* The best and the worst of several. *)

\* Of several places in the config one has least, the first of those that do.
LEMMA WorstExists ==
  ASSUME NEW N \in Nat, NEW r \in [1..N -> Nat], NEW S \in SUBSET (1..N), S # {}
  PROVE  \E p \in S : \A q \in S : r[p] < r[q] \/ (r[p] = r[q] /\ p <= q)
  <1>1. 1..N \subseteq Nat OBVIOUS
  <1>2. PICK low \in {r[p] : p \in S} : \A y \in {r[p] : p \in S} : low <= y
    <2>1. {r[p] : p \in S} \in SUBSET Nat /\ {r[p] : p \in S} # {} OBVIOUS
    <2>2. QED BY <2>1, LeastOf
  <1> DEFINE T == {p \in S : r[p] = low}
  <1>3. PICK p \in T : \A q \in T : p <= q
    <2>1. T \in SUBSET Nat /\ T # {} BY <1>1, <1>2
    <2>2. QED BY <2>1, LeastOf
  <1>4. \A q \in S : r[q] \in Nat /\ low <= r[q] BY <1>2
  <1>5. QED BY SMTT(30), <1>1, <1>3, <1>4

\* One has most, the first of those that do: the fewest places are above it.
LEMMA BestExists ==
  ASSUME NEW N \in Nat, NEW r \in [1..N -> Nat], NEW S \in SUBSET (1..N), S # {}
  PROVE  \E p \in S : \A q \in S : r[p] > r[q] \/ (r[p] = r[q] /\ p <= q)
  <1>1. 1..N \subseteq Nat /\ IsFiniteSet(1..N) BY FS_Interval
  <1> DEFINE Above(x) == {q \in S : r[q] > x}
             counts == {Cardinality(Above(r[p])) : p \in S}
  <1>2. \A x : IsFiniteSet(Above(x)) /\ Cardinality(Above(x)) \in Nat
    <2>1. \A x : Above(x) \in SUBSET (1..N) OBVIOUS
    <2>2. QED BY <1>1, <2>1, FS_Subset, FS_CardinalityType
  <1>3. PICK top \in S : \A q \in S : Cardinality(Above(r[top])) <= Cardinality(Above(r[q]))
    <2>1. counts \in SUBSET Nat /\ counts # {} BY <1>2
    <2>2. PICK c \in counts : \A y \in counts : c <= y BY <2>1, LeastOf
    <2>3. PICK top \in S : c = Cardinality(Above(r[top])) OBVIOUS
    <2>4. \A q \in S : Cardinality(Above(r[q])) \in counts OBVIOUS
    <2> HIDE DEF counts, Above
    <2>5. QED BY <2>2, <2>3, <2>4
  <1>4. \A q \in S : r[q] <= r[top]
    <2> SUFFICES ASSUME NEW q \in S, r[q] > r[top] PROVE FALSE
      OBVIOUS
    <2>0. \A t \in S : r[t] \in Nat OBVIOUS
    <2>1. Above(r[q]) \in SUBSET Above(r[top]) /\ q \in Above(r[top]) /\ q \notin Above(r[q])
      <3>1. \A t \in S : r[t] > r[q] => r[t] > r[top] BY <2>0
      <3>2. ~ (r[q] > r[q]) BY <2>0
      <3>3. QED BY <3>1, <3>2
    <2>2. IsFiniteSet(Above(r[top])) /\ Above(r[q]) # Above(r[top]) BY <1>2, <2>1
    <2> HIDE DEF Above
    <2>3. /\ Cardinality(Above(r[q])) <= Cardinality(Above(r[top]))
          /\ Cardinality(Above(r[q])) # Cardinality(Above(r[top]))
      BY <2>1, <2>2, FS_Subset
    <2>4. Cardinality(Above(r[top])) <= Cardinality(Above(r[q])) BY <1>3
    <2>5. QED BY <1>2, <2>3, <2>4
  <1> DEFINE T == {p \in S : r[p] = r[top]}
  <1>5. PICK p \in T : \A q \in T : p <= q
    <2>1. T \in SUBSET Nat /\ T # {} BY <1>1
    <2>2. QED BY <2>1, LeastOf
  <1>6. p \in S /\ \A q \in S : r[q] < r[p] \/ (r[q] = r[p] /\ p <= q)
    <2>1. \A q \in S : r[q] \in Nat OBVIOUS
    <2>2. QED BY <1>4, <1>5, <2>1
  <1>7. QED BY <1>6

-----------------------------------------------------------------------------
(* The decision for one asset, for whatever side it is given. *)

Sides == [account : Accounts, asset : Assets, idle : Nat, permitted : SUBSET Pools,
          supplied : [Pools -> Nat], liquidity : [Pools -> Nat], rate : [Pools -> Nat]]

LEMMA BestIsBest ==
  ASSUME NEW side \in Sides, NEW S \in SUBSET Pools, S # {}
  PROVE  /\ BestPaying(side, S) \in S
         /\ \A q \in S : side.rate[BestPaying(side, S)] >= side.rate[q]
  <1>1. side.rate \in [Pools -> Nat] BY DEF Sides
  <1>2. \E p \in S : \A q \in S : side.rate[p] > side.rate[q]
                                    \/ (side.rate[p] = side.rate[q] /\ p <= q)
    BY <1>1, Config, BestExists DEF Pools
  <1> DEFINE b == BestPaying(side, S)
  <1>3. b \in S /\ \A q \in S : side.rate[b] > side.rate[q]
                                  \/ (side.rate[b] = side.rate[q] /\ b <= q)
    BY <1>2 DEF BestPaying
  <1>4. \A q \in S : side.rate[q] \in Nat BY <1>1
  <1> HIDE DEF b
  <1>5. b \in S /\ \A q \in S : side.rate[b] >= side.rate[q] BY <1>3, <1>4
  <1>6. QED BY <1>5 DEF b

LEMMA NoneIsPreferred ==
  ASSUME NEW side \in Sides, Usable(side) # {}
  PROVE  Preferred(side, BestPaying(side, Usable(side))) = {}
  <1>1. side.rate \in [Pools -> Nat] BY DEF Sides
  <1>2. Usable(side) \in SUBSET Pools BY Config DEF Usable, Sides
  <1>3. \E p \in Usable(side) : \A q \in Usable(side) :
           side.rate[p] > side.rate[q] \/ (side.rate[p] = side.rate[q] /\ p <= q)
    BY <1>1, <1>2, Config, BestExists DEF Pools
  <1> DEFINE b == BestPaying(side, Usable(side))
  <1>4. b \in Usable(side) /\ \A q \in Usable(side) :
           side.rate[b] > side.rate[q] \/ (side.rate[b] = side.rate[q] /\ b <= q)
    BY <1>3 DEF BestPaying
  <1>5. \A q \in Usable(side) : side.rate[q] \in Nat /\ q \in Nat
    <2>1. Pools \in SUBSET Nat BY Config DEF Pools
    <2>2. QED BY <1>1, <1>2, <2>1
  <1> HIDE DEF b
  <1>6. Preferred(side, b) = {} BY <1>4, <1>5 DEF Preferred
  <1>7. QED BY <1>6 DEF b

LEMMA WorstIsThere ==
  ASSUME NEW side \in Sides, NEW S \in SUBSET Pools, S # {}
  PROVE  WorstFunded(side, S) \in S
  <1>1. side.rate \in [Pools -> Nat] BY DEF Sides
  <1>2. \E p \in S : \A q \in S : side.rate[p] < side.rate[q]
                                    \/ (side.rate[p] = side.rate[q] /\ p <= q)
    BY <1>1, Config, WorstExists DEF Pools
  <1>3. QED BY <1>2 DEF WorstFunded

LEMMA UsableIsListed ==
  ASSUME NEW side \in Sides
  PROVE  Usable(side) \in SUBSET Pools /\ Usable(side) \subseteq side.permitted
  BY Config DEF Usable, Sides

LEMMA AvailableFits ==
  ASSUME NEW side \in Sides, NEW p \in Pools
  PROVE  /\ Available(side, p) \in Nat
         /\ Available(side, p) <= side.supplied[p] /\ Available(side, p) <= side.liquidity[p]
  BY DEF Sides, Available, Least

\* What stands at the usable markets is finitely many units.
LEMMA WorkingIsFinite ==
  ASSUME NEW side \in Sides
  PROVE  IsFiniteSet(Working(side))
  <1> DEFINE units == [p \in Usable(side) |-> {p} \X (1..side.supplied[p])]
             All == {units[p] : p \in Usable(side)}
  <1>1. IsFiniteSet(Usable(side))
    <2>1. IsFiniteSet(Pools) BY Config, FS_Interval DEF Pools
    <2>2. QED BY <2>1, UsableIsListed, FS_Subset
  <1>2. IsFiniteSet(All)
    <2>1. units \in [Usable(side) -> All] OBVIOUS
    <2>2. \A T \in All : \E p \in Usable(side) : units[p] = T OBVIOUS
    <2> HIDE DEF units, All
    <2>3. units \in Surjection(Usable(side), All) BY <2>1, <2>2 DEF Surjection
    <2>4. QED BY <1>1, <2>3, FS_Surjection
  <1>3. \A T \in All : IsFiniteSet(T)
    <2> SUFFICES ASSUME NEW p \in Usable(side) PROVE IsFiniteSet({p} \X (1..side.supplied[p]))
      OBVIOUS
    <2> DEFINE n == side.supplied[p]
    <2>1. n \in Int BY UsableIsListed DEF Sides
    <2> HIDE DEF n
    <2>2. IsFiniteSet(1..n) BY <2>1, FS_Interval
    <2>3. IsFiniteSet({p}) BY FS_Singleton
    <2>4. IsFiniteSet({p} \X (1..n)) BY <2>2, <2>3, FS_Product
    <2>5. QED BY <2>4 DEF n
  <1>4. Working(side) = UNION All BY DEF Working
  <1> HIDE DEF All
  <1>5. QED BY <1>2, <1>3, <1>4, FS_UNION

LEMMA TotalCounts ==
  ASSUME NEW side \in Sides
  PROVE  Total(side) \in Nat /\ Total(side) >= side.idle
  <1>1. Cardinality(Working(side)) \in Nat BY WorkingIsFinite, FS_CardinalityType
  <1>2. side.idle \in Nat BY DEF Sides
  <1>3. QED BY <1>1, <1>2 DEF Total

\* The floor is never wanted below, once there is more than is wanted.
LEMMA WantsTheFloor ==
  ASSUME NEW side \in Sides, NEW floor \in Nat
  PROVE  /\ WantIdle(side, floor) \in Nat
         /\ side.idle > WantIdle(side, floor) => WantIdle(side, floor) >= floor
  <1>1. Total(side) \in Nat /\ Total(side) >= side.idle /\ side.idle \in Nat
    BY TotalCounts DEF Sides
  <1>2. (Total(side) * TargetWorkingBps) \div BPS \in Int BY <1>1, Policy
  <1>3. QED BY <1>1, <1>2 DEF WantIdle, Least, Most

LEMMA BufferIsAFloor ==
  ASSUME NEW known \in BOOLEAN, NEW needed \in Nat
  PROVE  /\ MandateBuffer(known, needed) \in Nat
         /\ MandateBuffer(known, needed) >= MinIdleAmount
         /\ known => MandateBuffer(known, needed) >= needed
  BY Policy DEF MandateBuffer, Most

LEMMA DeadbandIsABar ==
  ASSUME NEW side \in Sides
  PROVE  /\ Deadband(side) \in Nat /\ Deadband(side) >= MinMoveAmount
         /\ RoundTripDeadband(side) \in Nat /\ RoundTripDeadband(side) >= Deadband(side)
  <1>1. (Total(side) * MinMoveBps) \div BPS \in Int BY TotalCounts, Policy
  <1>2. Deadband(side) \in Nat /\ Deadband(side) >= MinMoveAmount
    BY <1>1, Policy DEF Deadband, Most
  <1>3. QED BY <1>2 DEF RoundTripDeadband

-----------------------------------------------------------------------------
(* What a verdict promises, before and after it is sized. *)

\* A withdrawal from a side that is not short of its buffer.
Migrates(supply, side, floor) ==
    ~supply /\ WantIdle(side, floor) - side.idle < Deadband(side)

\* Another market the account may use pays more than `pool`, and enough.
PaysMore(side, pool) ==
    \E p \in Usable(side) : side.rate[p] > side.rate[pool] /\ side.rate[p] >= MinSupplyRate

\* An ordinary move brings its side closer: a supply takes what is idle beyond the buffer to the
\* market no other is preferred to; a withdrawal brings the buffer what it is short of, or leaves a
\* market another is preferred to.
Improves(supply, pool, amount, side, floor) ==
    /\ pool \in Usable(side)
    /\ supply => amount <= side.idle - WantIdle(side, floor) /\ Preferred(side, pool) = {}
    /\ ~supply => amount <= WantIdle(side, floor) - side.idle \/ Preferred(side, pool) # {}

Sound(v, side, floor) ==
    /\ v \in [supply : BOOLEAN, pool : Usable(side), amount : Nat, deadband : Nat]
    /\ Improves(v.supply, v.pool, v.amount, side, floor)
    /\ v.supply => v.amount <= side.idle - WantIdle(side, floor) /\ WantIdle(side, floor) >= floor
    /\ ~v.supply => v.amount <= side.supplied[v.pool]
    /\ v.deadband >= Deadband(side)
    /\ Migrates(v.supply, side, floor) =>
          v.deadband >= RoundTripDeadband(side) /\ PaysMore(side, v.pool)

LEMMA SupplyIsSound ==
  ASSUME NEW side \in Sides, NEW floor \in Nat, Usable(side) # {},
         side.idle > WantIdle(side, floor), NEW v \in SupplyIdleSide(side, floor)
  PROVE  Sound(v, side, floor)
  <1> DEFINE best == BestPaying(side, Usable(side))
  <1>1. best \in Usable(side) BY UsableIsListed, BestIsBest
  <1>2. Preferred(side, best) = {} BY NoneIsPreferred
  <1> HIDE DEF best
  <1>3. v = Verdict(TRUE, best, side.idle - WantIdle(side, floor), Deadband(side))
    BY DEF SupplyIdleSide, best
  <1>4. /\ WantIdle(side, floor) \in Nat /\ WantIdle(side, floor) >= floor
        /\ side.idle \in Nat /\ Deadband(side) \in Nat
    BY WantsTheFloor, DeadbandIsABar DEF Sides
  <1>5. QED BY <1>1, <1>2, <1>3, <1>4 DEF Verdict, Sound, Migrates, Improves

LEMMA FundedIsUsable ==
  ASSUME NEW side \in Sides, NEW bar, Funded(side, bar) # {}
  PROVE  WorstFunded(side, Funded(side, bar)) \in Usable(side)
  <1>1. Funded(side, bar) \in SUBSET Pools /\ Funded(side, bar) \subseteq Usable(side)
    BY UsableIsListed DEF Funded
  <1>2. QED BY <1>1, WorstIsThere

LEMMA RaiseIsSound ==
  ASSUME NEW side \in Sides, NEW floor \in Nat, side.idle <= WantIdle(side, floor),
         WantIdle(side, floor) - side.idle >= Deadband(side), NEW v \in RaiseIdleSide(side, floor)
  PROVE  Sound(v, side, floor)
  <1> DEFINE sources == Funded(side, Deadband(side))
             source == WorstFunded(side, sources)
  <1>1. sources # {} BY DEF RaiseIdleSide
  <1>2. source \in Usable(side) BY <1>1, FundedIsUsable
  <1>3. v = Verdict(FALSE, source, Least(WantIdle(side, floor) - side.idle, side.supplied[source]),
                    Deadband(side))
    BY <1>1 DEF RaiseIdleSide
  <1> HIDE DEF sources, source
  <1>4. /\ WantIdle(side, floor) \in Nat /\ side.idle \in Nat /\ Deadband(side) \in Nat
        /\ side.supplied[source] \in Nat
    BY <1>2, UsableIsListed, WantsTheFloor, DeadbandIsABar DEF Sides
  <1>5. QED BY <1>2, <1>3, <1>4 DEF Verdict, Sound, Migrates, Improves, Least

LEMMA MigrationIsSound ==
  ASSUME NEW side \in Sides, NEW floor \in Nat, Usable(side) # {}, NEW v \in MigrateOut(side)
  PROVE  Sound(v, side, floor)
  <1> DEFINE best == BestPaying(side, Usable(side))
             sources == Funded(side, RoundTripDeadband(side))
             source == WorstFunded(side, sources)
  <1>1. /\ sources # {} /\ side.rate[best] - side.rate[source] # 0
        /\ ~ (side.rate[best] < MinSupplyRate)
        /\ v = Verdict(FALSE, source, side.supplied[source], RoundTripDeadband(side))
    BY DEF MigrateOut
  <1>2. source \in Usable(side) BY <1>1, FundedIsUsable
  <1>3. best \in Usable(side) /\ \A q \in Usable(side) : side.rate[best] >= side.rate[q]
    BY UsableIsListed, BestIsBest
  <1> HIDE DEF best, sources, source
  <1>4. /\ side.rate[best] \in Nat /\ side.rate[source] \in Nat /\ side.supplied[source] \in Nat
        /\ Deadband(side) \in Nat /\ RoundTripDeadband(side) \in Nat
        /\ RoundTripDeadband(side) >= Deadband(side)
    BY <1>2, <1>3, UsableIsListed, DeadbandIsABar DEF Sides
  <1>5. side.rate[best] > side.rate[source] /\ side.rate[best] >= MinSupplyRate
    BY <1>1, <1>2, <1>3, <1>4, Policy
  <1>6. PaysMore(side, source) /\ Preferred(side, source) # {}
    BY <1>3, <1>5 DEF PaysMore, Preferred
  <1>7. QED BY <1>1, <1>2, <1>4, <1>6 DEF Verdict, Sound, Migrates, Improves

LEMMA VerdictIsSound ==
  ASSUME NEW side \in Sides, NEW floor \in Nat, NEW isExpired,
         NEW v \in DecideIdleMove(side, floor, isExpired)
  PROVE  Sound(v, side, floor)
  <1> DEFINE delta == side.idle - WantIdle(side, floor)
  <1>1. /\ WantIdle(side, floor) \in Nat /\ side.idle \in Nat /\ Deadband(side) \in Nat
    BY WantsTheFloor, DeadbandIsABar DEF Sides
  <1>2. Usable(side) # {} BY DEF DecideIdleMove
  <1>3. CASE delta > 0 /\ delta >= Deadband(side)
    <2>1. v \in SupplyIdleSide(side, floor) BY <1>3 DEF DecideIdleMove
    <2>2. side.idle > WantIdle(side, floor) BY <1>1, <1>3
    <2>3. QED BY <1>2, <2>1, <2>2, SupplyIsSound
  <1>4. CASE ~ (delta > 0 /\ delta >= Deadband(side)) /\ delta <= 0 /\ -delta >= Deadband(side)
    <2>1. v \in RaiseIdleSide(side, floor) BY <1>4 DEF DecideIdleMove
    <2>2. /\ side.idle <= WantIdle(side, floor)
          /\ WantIdle(side, floor) - side.idle >= Deadband(side)
      BY <1>1, <1>4
    <2>3. QED BY <2>1, <2>2, RaiseIsSound
  <1>5. CASE /\ ~ (delta > 0 /\ delta >= Deadband(side))
             /\ ~ (delta <= 0 /\ -delta >= Deadband(side))
    <2>1. v \in MigrateOut(side) BY <1>5 DEF DecideIdleMove
    <2>2. QED BY <1>2, <2>1, MigrationIsSound
  <1>6. QED BY <1>3, <1>4, <1>5

\* What may be sent whatever becomes of the account.
Sendable(m) == m.amount > 0 /\ (~m.leaving => m.amount \in MinMoveAmount..MaxMoveAmount)

\* A move fits a side of an account whose owner has named the markets `ever`, when `needed` is
\* what live mandates could call for, if that is known.
Fits(m, side, ever, known, needed) ==
    /\ m.supply =>
          /\ m.pool \in side.permitted /\ m.amount <= side.idle
          /\ side.idle - m.amount >= MinIdleAmount
          /\ known => side.idle - m.amount >= needed
    /\ ~m.supply =>
          /\ m.pool \in ever \/ m.leaving
          /\ m.amount <= side.supplied[m.pool] /\ m.amount <= side.liquidity[m.pool]
    /\ ~m.leaving => m.amount >= Deadband(side)
    /\ ~m.leaving /\ Migrates(m.supply, side, MandateBuffer(known, needed)) =>
          m.amount >= RoundTripDeadband(side) /\ PaysMore(side, m.pool)
    /\ ~m.leaving => Improves(m.supply, m.pool, m.amount, side, MandateBuffer(known, needed))
    /\ m.leaving => ~m.supply /\ m.pool \in Lists[side.asset] \ side.permitted

OfSide(m, side) == m \in Moves /\ m.account = side.account /\ m.asset = side.asset

\* An evacuation takes what is there and never more than the market can pay.
LEMMA EvacuationFits ==
  ASSUME NEW side \in Sides, NEW p \in Evacuate(side), NEW ever, NEW known, NEW needed
  PROVE  LET m == Move(side, p, Available(side, p), FALSE, TRUE)
         IN OfSide(m, side) /\ Sendable(m) /\ Fits(m, side, ever, known, needed)
  <1>1. p \in Pools /\ Available(side, p) > 0 /\ p \in Lists[side.asset] \ side.permitted
    BY Config DEF Evacuate, Sides
  <1>2. /\ Available(side, p) \in Nat /\ Available(side, p) <= side.supplied[p]
        /\ Available(side, p) <= side.liquidity[p]
    BY <1>1, AvailableFits
  <1>3. side.account \in Accounts /\ side.asset \in Assets BY DEF Sides
  <1>4. QED BY <1>1, <1>2, <1>3 DEF Move, Moves, OfSide, Sendable, Fits, Migrates

LEMMA OrdinaryMoveFits ==
  ASSUME NEW side \in Sides, NEW ever, side.permitted \subseteq ever,
         NEW known \in BOOLEAN, NEW needed \in Nat,
         NEW v, Sound(v, side, MandateBuffer(known, needed)), WorthSending(side, v)
  PROVE  LET m == Move(side, v.pool, Sized(side, v), v.supply, FALSE)
         IN OfSide(m, side) /\ Sendable(m) /\ Fits(m, side, ever, known, needed)
  <1> DEFINE floor == MandateBuffer(known, needed)
             size == Sized(side, v)
             m == Move(side, v.pool, size, v.supply, FALSE)
  <1>1. /\ floor \in Nat /\ floor >= MinIdleAmount /\ (known => floor >= needed)
    BY BufferIsAFloor
  <1> HIDE DEF floor
  <1>2. /\ v.supply \in BOOLEAN /\ v.pool \in Usable(side) /\ v.amount \in Nat /\ v.deadband \in Nat
        /\ v.supply => v.amount <= side.idle - WantIdle(side, floor) /\ WantIdle(side, floor) >= floor
        /\ ~v.supply => v.amount <= side.supplied[v.pool]
        /\ v.deadband >= Deadband(side)
        /\ Migrates(v.supply, side, floor) =>
              v.deadband >= RoundTripDeadband(side) /\ PaysMore(side, v.pool)
        /\ Improves(v.supply, v.pool, v.amount, side, floor)
    BY DEF Sound, floor
  <1>3. /\ v.pool \in Pools /\ v.pool \in side.permitted
        /\ side.liquidity[v.pool] \in Nat /\ side.supplied[v.pool] \in Nat /\ side.idle \in Nat
        /\ side.account \in Accounts /\ side.asset \in Assets
    BY <1>2, UsableIsListed DEF Sides
  <1>4. /\ size \in Nat /\ size <= MaxMoveAmount /\ size <= v.amount
        /\ ~v.supply => size <= side.liquidity[v.pool]
    BY <1>2, <1>3, Policy DEF Sized, Least
  <1>5. size > 0 /\ size >= v.deadband BY <1>4 DEF WorthSending
  <1> HIDE DEF size
  <1>6. /\ Deadband(side) \in Nat /\ Deadband(side) >= MinMoveAmount
        /\ RoundTripDeadband(side) \in Nat /\ WantIdle(side, floor) \in Nat
    BY <1>1, DeadbandIsABar, WantsTheFloor
  <1>7. /\ m.account = side.account /\ m.asset = side.asset /\ m.pool = v.pool /\ m.amount = size
        /\ m.supply = v.supply /\ m.leaving = FALSE /\ m \in Moves
    BY <1>2, <1>3, <1>4 DEF Move, Moves
  <1> HIDE DEF m
  <1>8. OfSide(m, side) BY <1>7 DEF OfSide
  <1>9. Sendable(m) BY <1>2, <1>4, <1>5, <1>6, <1>7, Policy DEF Sendable
  <1>10. ASSUME m.supply
         PROVE  /\ m.pool \in side.permitted /\ m.amount <= side.idle
                /\ side.idle - m.amount >= MinIdleAmount
                /\ known => side.idle - m.amount >= needed
    BY <1>1, <1>2, <1>3, <1>4, <1>6, <1>7, <1>10, Policy
  <1>11. ASSUME ~m.supply
         PROVE  /\ m.pool \in ever
                /\ m.amount <= side.supplied[m.pool] /\ m.amount <= side.liquidity[m.pool]
    BY <1>2, <1>3, <1>4, <1>7, <1>11
  <1>12. m.amount >= Deadband(side) BY <1>2, <1>4, <1>5, <1>6, <1>7
  <1>13. ASSUME Migrates(m.supply, side, floor)
         PROVE  m.amount >= RoundTripDeadband(side) /\ PaysMore(side, m.pool)
    BY <1>2, <1>4, <1>5, <1>6, <1>7, <1>13
  <1>14. Improves(m.supply, m.pool, m.amount, side, floor)
    BY <1>2, <1>3, <1>4, <1>6, <1>7 DEF Improves
  <1>15. Fits(m, side, ever, known, needed)
    BY <1>7, <1>10, <1>11, <1>12, <1>13, <1>14 DEF Fits, floor
  <1>16. QED BY <1>8, <1>9, <1>15 DEF m, size

LEMMA DecisionFits ==
  ASSUME NEW side \in Sides, NEW ever, side.permitted \subseteq ever,
         NEW known \in BOOLEAN, NEW needed \in Nat, NEW isExpired,
         NEW m \in DecideForAsset(side, MandateBuffer(known, needed), isExpired)
  PROVE  OfSide(m, side) /\ Sendable(m) /\ Fits(m, side, ever, known, needed)
  <1> DEFINE floor == MandateBuffer(known, needed)
  <1>1. floor \in Nat BY BufferIsAFloor
  <1>2. CASE Evacuate(side) # {}
    <2> DEFINE p == CHOOSE p \in Evacuate(side) : \A q \in Evacuate(side) : p <= q
    <2>1. Evacuate(side) \in SUBSET Nat BY Config DEF Evacuate, Sides, Pools
    <2>2. p \in Evacuate(side) BY <1>2, <2>1, LeastOf
    <2>3. m = Move(side, p, Available(side, p), FALSE, TRUE) BY <1>2 DEF DecideForAsset
    <2>4. QED BY <2>2, <2>3, EvacuationFits
  <1>3. CASE Evacuate(side) = {}
    <2>1. PICK v \in DecideIdleMove(side, floor, isExpired) :
            /\ WorthSending(side, v)
            /\ m = Move(side, v.pool, Sized(side, v), v.supply, FALSE)
      BY <1>3 DEF DecideForAsset
    <2>2. Sound(v, side, floor) BY <1>1, VerdictIsSound
    <2>3. QED BY <2>1, <2>2, OrdinaryMoveFits
  <1>4. QED BY <1>2, <1>3

-----------------------------------------------------------------------------
(* The decision for one account. *)

\* The best market listed pays no less than the worst the account sits in.
LEMMA GapIsNat ==
  ASSUME NEW side \in Sides
  PROVE  RateGap(side) \in Nat
  <1> DEFINE listed == Lists[side.asset]
             held == {p \in listed : side.supplied[p] > 0}
             best == BestPaying(side, listed)
             worst == WorstFunded(side, held)
  <1>1. listed \in SUBSET Pools /\ held \in SUBSET Pools /\ held \subseteq listed
    BY Config DEF Sides
  <1>2. CASE held = {} BY <1>2 DEF RateGap
  <1>3. CASE held # {}
    <2>1. worst \in held BY <1>1, <1>3, WorstIsThere
    <2>2. best \in listed /\ \A q \in listed : side.rate[best] >= side.rate[q]
      BY <1>1, <1>3, BestIsBest
    <2>3. RateGap(side) = side.rate[best] - side.rate[worst] BY <1>3 DEF RateGap
    <2> HIDE DEF best, worst, held, listed
    <2>4. side.rate[best] \in Nat /\ side.rate[worst] \in Nat BY <1>1, <2>1, <2>2 DEF Sides
    <2>5. side.rate[best] >= side.rate[worst] BY <1>1, <2>1, <2>2
    <2>6. QED BY <2>3, <2>4, <2>5
  <1>4. QED BY <1>2, <1>3

\* The account's move is the move of one of its assets.
LEMMA MoveOfAnAsset ==
  ASSUME NEW sides \in [Assets -> Sides], NEW floors, NEW isExpired,
         NEW m \in DecideAcrossAssets(sides, floors, isExpired)
  PROVE  \E a \in Assets : m \in DecideForAsset(sides[a], floors[a], isExpired)
  <1> DEFINE outcome == [a \in Assets |-> DecideForAsset(sides[a], floors[a], isExpired)]
             acting == {a \in Assets : outcome[a] # {}}
             first == CHOOSE a \in acting : \A b \in acting :
                         RateGap(sides[a]) > RateGap(sides[b])
                           \/ (RateGap(sides[a]) = RateGap(sides[b]) /\ a <= b)
             gaps == [a \in Assets |-> RateGap(sides[a])]
  <1>1. acting # {} /\ m \in outcome[first] BY DEF DecideAcrossAssets
  <1>2. gaps \in [1..NumAssets -> Nat] /\ acting \in SUBSET (1..NumAssets)
    BY GapIsNat DEF Assets
  <1>3. \E a \in acting : \A b \in acting :
           gaps[a] > gaps[b] \/ (gaps[a] = gaps[b] /\ a <= b)
    <2> HIDE DEF gaps, acting
    <2>1. NumAssets \in Nat BY Config
    <2>2. QED BY <1>1, <1>2, <2>1, BestExists
  <1>4. \A a \in acting : gaps[a] = RateGap(sides[a]) OBVIOUS
  <1>5. first \in acting
    <2> HIDE DEF gaps, acting
    <2>1. QED BY <1>3, <1>4
  <1>6. QED BY <1>1, <1>5

-----------------------------------------------------------------------------
(* The inductive invariant. *)

Reports == [move : Moves, age : Ages, fresh : BOOLEAN, awaited : BOOLEAN]
Runs == [next : 0..(NumAccounts + 1), read : SUBSET Reads, best : SUBSET Moves, age : Ages,
         expired : BOOLEAN, fresh : BOOLEAN]

LedgersTyped ==
    /\ idle \in Balances /\ demand \in Balances
    /\ supplied \in [Accounts -> [Assets -> [Pools -> Nat]]]
    /\ cash \in [Assets -> [Pools -> Nat]] /\ rate \in [Assets -> [Pools -> Nat]]
    /\ indexed \in BOOLEAN /\ expired \in BOOLEAN /\ due \in BOOLEAN /\ changes \in Nat

PermissionsTyped ==
    /\ nominated \subseteq Accounts
    /\ permittedVenue \in [Accounts -> SUBSET Pools]
    /\ venueEverPermitted \in [Accounts -> SUBSET Pools]
    /\ \A k \in Accounts : permittedVenue[k] \subseteq venueEverPermitted[k]

\* What decisions are made on.
ground == <<accounts, markets, demand, indexed>>

FitsNow(m) ==
    /\ m.account \in nominated
    /\ Fits(m, SideNow(m), venueEverPermitted[m.account], indexed, demand[m.account][m.asset])

\* A fresh run has read, and decided on, what is there.
RunInv ==
    /\ run \in Runs
    /\ \A read \in run.read :
          run.next \in Accounts /\ (run.fresh => read = MarketsAsSeenBy(run.next))
    /\ \A m \in run.best : Sendable(m) /\ (run.fresh => FitsNow(m))

ReportsInv ==
    /\ reports \subseteq Reports
    /\ \A r \in reports : Sendable(r.move) /\ (r.fresh => FitsNow(r.move))

IInv == LedgersTyped /\ PermissionsTyped /\ RunInv /\ ReportsInv

LEMMA NoRunIsARun == NoRun \in Runs /\ NoRun.read = {} /\ NoRun.best = {} /\ NoRun.fresh
  BY Config, Policy DEF NoRun, Runs, Ages

LEMMA Start == Init => IInv
  <1> SUFFICES ASSUME Init PROVE IInv
    OBVIOUS
  <1>1. PICK start \in Starts :
          /\ idle = start.idle /\ supplied = start.supplied /\ cash = start.cash
          /\ rate = start.rate /\ permittedVenue = start.permitted
          /\ venueEverPermitted = start.named
    BY DEF Init
  <1>2. LedgersTyped BY <1>1, WorldAssumption DEF Init, LedgersTyped, WorldAssumption, Balances
  <1>3. PermissionsTyped BY <1>1, WorldAssumption DEF Init, PermissionsTyped, WorldAssumption
  <1>4. RunInv BY NoRunIsARun DEF Init, RunInv
  <1>5. ReportsInv BY DEF Init, ReportsInv
  <1>6. QED BY <1>2, <1>3, <1>4, <1>5 DEF IInv

LEMMA GroundStays ==
  ASSUME UNCHANGED ground
  PROVE  /\ \A m : FitsNow(m)' <=> FitsNow(m)
         /\ \A k : MarketsAsSeenBy(k)' = MarketsAsSeenBy(k)
         /\ PermissionsTyped => PermissionsTyped'
  BY DEF ground, accounts, markets, FitsNow, SideNow, SideOf, MarketsAsSeenBy, PermissionsTyped

LEMMA ViewStays ==
  ASSUME UNCHANGED ground, run'.next = run.next
  PROVE  MarketsAsSeenBy(run.next)' = MarketsAsSeenBy(run.next)
  BY DEF ground, accounts, markets, MarketsAsSeenBy

-----------------------------------------------------------------------------
(* The steps that leave the ground as it is. *)

LEMMA StartRunStep ==
  ASSUME IInv, StartRun
  PROVE  IInv'
  <1>1. /\ run' = [NoRun EXCEPT !.next = 1, !.expired = expired] /\ due' = FALSE
        /\ UNCHANGED <<idle, supplied, cash, rate, demand, indexed, expired, reports, changes>>
        /\ UNCHANGED ground
    BY DEF StartRun, ground, accounts, markets
  <1>2. LedgersTyped' BY <1>1 DEF IInv, LedgersTyped
  <1>3. run' \in Runs /\ run'.read = {} /\ run'.best = {}
    <2>1. run' = [next |-> 1, read |-> {}, best |-> {}, age |-> 0, expired |-> expired, fresh |-> TRUE]
      BY <1>1 DEF NoRun
    <2>2. expired \in BOOLEAN BY DEF IInv, LedgersTyped
    <2>3. 1 \in 0..(NumAccounts + 1) /\ 0 \in Ages BY Config, Policy DEF Ages
    <2>4. QED BY <2>1, <2>2, <2>3 DEF Runs
  <1>4. RunInv' BY <1>3 DEF RunInv
  <1>5. ReportsInv' BY <1>1, GroundStays DEF IInv, ReportsInv
  <1>6. QED BY <1>1, <1>2, <1>4, <1>5, GroundStays DEF IInv

\* What is read of an account is well typed.
LEMMA ViewsAreReads ==
  ASSUME IInv, NEW k \in Accounts
  PROVE  MarketsAsSeenBy(k) \in Reads
  BY DEF IInv, LedgersTyped, PermissionsTyped, Balances, MarketsAsSeenBy, Reads

LEMMA ReadMarketsStep ==
  ASSUME IInv, ReadMarkets
  PROVE  IInv'
  <1> DEFINE view == MarketsAsSeenBy(run.next)
  <1>1. /\ run.next \in Accounts /\ run' = [run EXCEPT !.read = {view}]
        /\ UNCHANGED <<idle, supplied, cash, rate, demand, indexed, expired, due, reports, changes>>
        /\ UNCHANGED ground
    BY DEF ReadMarkets, ground, accounts, markets
  <1>2. LedgersTyped' BY <1>1 DEF IInv, LedgersTyped
  <1>3. run \in Runs /\ view \in Reads BY <1>1, ViewsAreReads DEF IInv, RunInv
  <1> HIDE DEF view
  <1>4. /\ run' \in Runs /\ run'.read = {view}
        /\ run'.next = run.next /\ run'.best = run.best /\ run'.fresh = run.fresh
    BY <1>1, <1>3 DEF Runs
  <1>5. view = MarketsAsSeenBy(run.next)' BY <1>1, <1>4, ViewStays DEF view
  <1>6. \A m \in run.best : Sendable(m) /\ (run.fresh => FitsNow(m)')
    BY <1>1, GroundStays DEF IInv, RunInv
  <1>7. RunInv' BY <1>1, <1>4, <1>5, <1>6 DEF RunInv
  <1>8. ReportsInv' BY <1>1, GroundStays DEF IInv, ReportsInv
  <1>9. QED BY <1>1, <1>2, <1>7, <1>8, GroundStays DEF IInv

LEMMA SidesAreTyped ==
  ASSUME IInv, NEW k \in Accounts, NEW read \in Reads, NEW a \in Assets
  PROVE  SideOf(k, read, a, supplied[k]) \in Sides
  BY DEF IInv, LedgersTyped, Reads, SideOf, Sides

\* What an account's verdict is worth: always that it may be sent, and, when the account was read
\* as it is, that it fits.
LEMMA AccountsMove ==
  ASSUME IInv, NEW k \in Accounts, NEW read \in Reads, NEW isExpired,
         NEW m \in DecideAcrossAssets([a \in Assets |-> SideOf(k, read, a, supplied[k])],
                                      [a \in Assets |-> MandateBuffer(indexed, demand[k][a])],
                                      isExpired)
  PROVE  /\ m \in Moves /\ Sendable(m)
         /\ read = MarketsAsSeenBy(k) /\ read.agent => FitsNow(m)
  <1> DEFINE sides == [a \in Assets |-> SideOf(k, read, a, supplied[k])]
             floors == [a \in Assets |-> MandateBuffer(indexed, demand[k][a])]
  <1>1. sides \in [Assets -> Sides] BY SidesAreTyped
  <1>2. PICK a \in Assets : m \in DecideForAsset(sides[a], floors[a], isExpired)
    BY <1>1, MoveOfAnAsset
  <1> DEFINE side == SideOf(k, read, a, supplied[k])
  <1>3. m \in DecideForAsset(side, MandateBuffer(indexed, demand[k][a]), isExpired) BY <1>2
  <1>4. side \in Sides BY SidesAreTyped
  <1>5. /\ side.account = k /\ side.asset = a /\ side.permitted = read.permitted
    BY DEF SideOf
  <1>6. indexed \in BOOLEAN /\ demand[k][a] \in Nat BY DEF IInv, LedgersTyped, Balances
  <1> HIDE DEF side, sides, floors
  <1>7. OfSide(m, side) /\ Sendable(m) BY <1>3, <1>4, <1>6, DecisionFits
  <1>8. m \in Moves /\ m.account = k /\ m.asset = a BY <1>5, <1>7 DEF OfSide
  <1>9. ASSUME read = MarketsAsSeenBy(k), read.agent PROVE FitsNow(m)
    <2>1. read.permitted = permittedVenue[k] /\ k \in nominated
      BY <1>9 DEF MarketsAsSeenBy
    <2>2. side.permitted \subseteq venueEverPermitted[k]
      BY <1>5, <2>1 DEF IInv, PermissionsTyped
    <2>3. Fits(m, side, venueEverPermitted[k], indexed, demand[k][a])
      BY <1>3, <1>4, <1>6, <2>2, DecisionFits
    <2>4. side = SideNow(m) BY <1>8, <1>9 DEF side, SideNow
    <2>5. QED BY <1>8, <2>1, <2>3, <2>4 DEF FitsNow
  <1>10. QED BY <1>7, <1>8, <1>9

LEMMA JudgeAccountStep ==
  ASSUME IInv, JudgeAccount
  PROVE  IInv'
  <1> DEFINE k == run.next
             Verdicts(read) == DecideAcrossAssets([a \in Assets |-> SideOf(k, read, a, supplied[k])],
                                 [a \in Assets |-> MandateBuffer(indexed, demand[k][a])], run.expired)
  <1>1. PICK read \in run.read :
          run' = [run EXCEPT !.next = k + 1, !.read = {},
                             !.best = LargestMove(run.best, IF read.agent THEN Verdicts(read) ELSE {})]
    BY DEF JudgeAccount
  <1>2. /\ UNCHANGED <<idle, supplied, cash, rate, demand, indexed, expired, due, reports, changes>>
        /\ UNCHANGED ground
    BY DEF JudgeAccount, ground, accounts, markets
  <1>3. /\ run \in Runs /\ read \in Reads /\ k \in Accounts
        /\ run.fresh => read = MarketsAsSeenBy(k)
    BY DEF IInv, RunInv, Runs
  <1>4. \A m \in Verdicts(read) :
          m \in Moves /\ Sendable(m) /\ (run.fresh /\ read.agent => FitsNow(m))
    BY <1>3, AccountsMove
  <1> DEFINE move == IF read.agent THEN Verdicts(read) ELSE {}
  <1>5. \A m \in move : m \in Moves /\ Sendable(m) /\ (run.fresh => FitsNow(m)) BY <1>4
  <1> HIDE DEF move, Verdicts
  <1>6. LargestMove(run.best, move) \in {run.best, move} BY DEF LargestMove
  <1>7. \A m \in LargestMove(run.best, move) :
          m \in Moves /\ Sendable(m) /\ (run.fresh => FitsNow(m))
    BY <1>3, <1>5, <1>6 DEF IInv, RunInv, Runs
  <1>8. run' = [run EXCEPT !.next = k + 1, !.read = {}, !.best = LargestMove(run.best, move)]
    BY <1>1 DEF move
  <1>9. k + 1 \in 0..(NumAccounts + 1) BY <1>3, Config DEF Accounts
  <1>10. /\ run' \in Runs /\ run'.read = {} /\ run'.fresh = run.fresh
         /\ run'.best = LargestMove(run.best, move)
    BY <1>3, <1>7, <1>8, <1>9 DEF Runs
  <1>11. RunInv' BY <1>2, <1>7, <1>10, GroundStays DEF RunInv
  <1>12. LedgersTyped' BY <1>2 DEF IInv, LedgersTyped
  <1>13. ReportsInv' BY <1>2, GroundStays DEF IInv, ReportsInv
  <1>14. QED BY <1>2, <1>11, <1>12, <1>13, GroundStays DEF IInv

LEMMA FinishRunStep ==
  ASSUME IInv, FinishRun
  PROVE  IInv'
  <1>1. /\ reports' = reports \cup {Report(m, run.age, run.fresh) : m \in run.best}
        /\ run' = NoRun
        /\ UNCHANGED <<idle, supplied, cash, rate, demand, indexed, expired, due, changes>>
        /\ UNCHANGED ground
    BY DEF FinishRun, ground, accounts, markets
  <1>2. \A m \in run.best :
          LET r == Report(m, run.age, run.fresh)
          IN r \in Reports /\ Sendable(r.move) /\ (r.fresh => FitsNow(r.move))
    BY DEF IInv, RunInv, Runs, Report, Reports
  <1>3. ReportsInv' BY <1>1, <1>2, GroundStays DEF IInv, ReportsInv
  <1>4. LedgersTyped' BY <1>1 DEF IInv, LedgersTyped
  <1>5. RunInv' BY <1>1, NoRunIsARun DEF RunInv
  <1>6. QED BY <1>1, <1>3, <1>4, <1>5, GroundStays DEF IInv

\* A report changes in nothing but its age and in being waited for.
LEMMA ReportsAge ==
  ASSUME IInv, UNCHANGED ground,
         \A s \in reports' : s \in Reports /\ \E r \in reports : s.move = r.move /\ s.fresh = r.fresh
  PROVE  ReportsInv'
  BY GroundStays DEF IInv, ReportsInv

LEMMA TickStep ==
  ASSUME IInv, Tick
  PROVE  IInv'
  <1>1. /\ due' = TRUE /\ run' = IF run = NoRun THEN run ELSE [run EXCEPT !.age = Aged(@)]
        /\ reports' = {[r EXCEPT !.age = Aged(@)] : r \in reports}
        /\ UNCHANGED <<idle, supplied, cash, rate, demand, indexed, expired, changes>>
        /\ UNCHANGED ground
    BY DEF Tick, ground, accounts, markets
  <1>2. \A n \in Ages : Aged(n) \in Ages BY Policy DEF Ages, Aged, Least
  <1>3. run \in Runs /\ reports \subseteq Reports BY DEF IInv, RunInv, ReportsInv
  <1>4. /\ run' \in Runs /\ run'.read = run.read /\ run'.best = run.best
        /\ run'.next = run.next /\ run'.fresh = run.fresh
    BY <1>1, <1>2, <1>3 DEF Runs
  <1>5. MarketsAsSeenBy(run.next)' = MarketsAsSeenBy(run.next) BY <1>1, <1>4, ViewStays
  <1>6. RunInv'
    <2>1. \A m \in run.best : Sendable(m) /\ (run.fresh => FitsNow(m)')
      BY <1>1, GroundStays DEF IInv, RunInv
    <2>2. \A read \in run.read :
            run.next \in Accounts /\ (run.fresh => read = MarketsAsSeenBy(run.next)')
      BY <1>5 DEF IInv, RunInv
    <2>3. QED BY <1>4, <2>1, <2>2 DEF RunInv
  <1>7. \A r \in Reports : LET s == [r EXCEPT !.age = Aged(@)]
                           IN s \in Reports /\ s.move = r.move /\ s.fresh = r.fresh
    BY <1>2 DEF Reports
  <1>8. ReportsInv' BY ZenonT(40), <1>1, <1>3, <1>7, ReportsAge
  <1>9. LedgersTyped' BY <1>1 DEF IInv, LedgersTyped
  <1>10. QED BY <1>1, <1>6, <1>8, <1>9, GroundStays DEF IInv

\* A run that stands still stays right while the ground does.
LEMMA RunStands ==
  ASSUME IInv, UNCHANGED ground, run' = run
  PROVE  RunInv'
  <1>1. MarketsAsSeenBy(run.next)' = MarketsAsSeenBy(run.next) BY ViewStays
  <1>2. \A m \in run.best : Sendable(m) /\ (run.fresh => FitsNow(m)')
    BY GroundStays DEF IInv, RunInv
  <1>3. \A read \in run.read :
          run.next \in Accounts /\ (run.fresh => read = MarketsAsSeenBy(run.next)')
    BY <1>1 DEF IInv, RunInv
  <1>4. QED BY <1>2, <1>3 DEF IInv, RunInv

LEMMA CallFailedStep ==
  ASSUME IInv, NEW r \in reports, CallFailed(r), changes' \in Nat
  PROVE  IInv'
  <1>1. /\ reports' = (reports \ {r}) \cup {[r EXCEPT !.awaited = FALSE]}
        /\ UNCHANGED <<idle, supplied, cash, rate, demand, indexed, expired, run, due>>
        /\ UNCHANGED ground
    BY DEF CallFailed, ground, accounts, markets
  <1>2. reports \subseteq Reports BY DEF IInv, ReportsInv
  <1> DEFINE s == [r EXCEPT !.awaited = FALSE]
  <1>3. s \in Reports /\ s.move = r.move /\ s.fresh = r.fresh BY <1>2 DEF Reports
  <1>4. ReportsInv' BY <1>1, <1>2, <1>3, ReportsAge
  <1>5. LedgersTyped' BY <1>1 DEF IInv, LedgersTyped
  <1>6. QED BY <1>1, <1>4, <1>5, RunStands, GroundStays DEF IInv

LEMMA AbandonStep ==
  ASSUME IInv, NEW r \in reports, Abandon(r)
  PROVE  IInv'
  <1>1. /\ reports' = reports \ {r}
        /\ UNCHANGED <<idle, supplied, cash, rate, demand, indexed, expired, run, due, changes>>
        /\ UNCHANGED ground
    BY DEF Abandon, ground, accounts, markets
  <1>2. ReportsInv' BY <1>1, ReportsAge DEF IInv, ReportsInv
  <1>3. LedgersTyped' BY <1>1 DEF IInv, LedgersTyped
  <1>4. QED BY <1>1, <1>2, <1>3, RunStands, GroundStays DEF IInv

-----------------------------------------------------------------------------
(* The steps that disturb. *)

\* Nothing decided before is fresh any more; it may still be sent.
LEMMA DisturbedStep ==
  ASSUME IInv, NEW rest \in SUBSET reports, Disturb(rest)
  PROVE  RunInv' /\ ReportsInv'
  <1>1. /\ run' = IF run = NoRun THEN run ELSE Stale(run)
        /\ reports' = {Stale(r) : r \in rest}
    BY DEF Disturb
  <1>2. /\ run \in Runs /\ reports \subseteq Reports
        /\ \A m \in run.best : Sendable(m)
        /\ \A read \in run.read : run.next \in Accounts
        /\ \A r \in reports : Sendable(r.move)
    BY DEF IInv, RunInv, ReportsInv
  <1>3. ReportsInv'
    <2>1. \A r \in rest : /\ Stale(r) \in Reports /\ Stale(r).fresh = FALSE
                          /\ Sendable(Stale(r).move)
      <3> SUFFICES ASSUME NEW r \in rest
                   PROVE  /\ Stale(r) \in Reports /\ Stale(r).fresh = FALSE
                          /\ Sendable(Stale(r).move)
        OBVIOUS
      <3>1. r \in Reports /\ Sendable(r.move) BY <1>2
      <3>2. Stale(r) \in Reports /\ Stale(r).fresh = FALSE /\ Stale(r).move = r.move
        BY <3>1 DEF Reports, Stale
      <3>3. QED BY <3>1, <3>2
    <2>2. QED BY <1>1, <2>1 DEF ReportsInv
  <1>4. CASE run = NoRun
    <2>1. run' = NoRun BY <1>1, <1>4
    <2>2. RunInv' BY <2>1, NoRunIsARun DEF RunInv
    <2>3. QED BY <1>3, <2>2
  <1>5. CASE run # NoRun
    <2>1. run' = [run EXCEPT !.fresh = FALSE] BY <1>1, <1>5 DEF Stale
    <2>2. /\ run' \in Runs /\ run'.fresh = FALSE
          /\ run'.next = run.next /\ run'.read = run.read /\ run'.best = run.best
      BY <1>2, <2>1 DEF Runs
    <2>3. RunInv' BY <1>2, <2>2 DEF RunInv
    <2>4. QED BY <1>3, <2>3
  <1>6. QED BY <1>4, <1>5

\* A move that lands takes no balance below zero.
LEMMA OnReportStep ==
  ASSUME IInv, NEW r \in reports, OnReport(r)
  PROVE  IInv'
  <1> DEFINE m == r.move
             k == m.account
             a == m.asset
             p == m.pool
             n == IF m.supply THEN m.amount ELSE -m.amount
  <1>1. /\ Accepts(m) /\ Moved(m, IF m.supply THEN 1 ELSE -1) /\ Disturb(reports \ {r})
        /\ UNCHANGED <<rate, nominated, permittedVenue, venueEverPermitted, demand, indexed,
                       expired, due, changes>>
    BY DEF OnReport
  <1>2. /\ k \in Accounts /\ a \in Assets /\ p \in Pools /\ m.amount \in Nat /\ m.supply \in BOOLEAN
    BY DEF IInv, ReportsInv, Reports, Moves
  <1>3. /\ idle[k][a] \in Nat /\ supplied[k][a][p] \in Nat /\ cash[a][p] \in Nat
    BY <1>2 DEF IInv, LedgersTyped, Balances
  <1>4. idle[k][a] - n \in Nat /\ supplied[k][a][p] + n \in Nat /\ cash[a][p] + n \in Nat
    <2>1. CASE m.supply BY <1>1, <1>2, <1>3, <2>1 DEF Accepts, TakesSupply
    <2>2. CASE ~m.supply BY <1>1, <1>2, <1>3, <2>2 DEF Accepts, GivesBack
    <2>3. QED BY <2>1, <2>2
  <1>5. /\ idle' = [idle EXCEPT ![k][a] = @ - n]
        /\ supplied' = [supplied EXCEPT ![k][a][p] = @ + n]
        /\ cash' = [cash EXCEPT ![a][p] = @ + n]
    <2>1. n = (IF m.supply THEN 1 ELSE -1) * m.amount BY <1>2
    <2>2. QED BY <1>1, <2>1 DEF Moved
  <1> HIDE DEF k, a, p, n
  <1>6. /\ idle \in Balances /\ supplied \in [Accounts -> [Assets -> [Pools -> Nat]]]
        /\ cash \in [Assets -> [Pools -> Nat]]
    BY DEF IInv, LedgersTyped
  <1>7. idle' \in Balances
    <2>1. [idle[k] EXCEPT ![a] = idle[k][a] - n] \in [Assets -> Nat] BY <1>2, <1>4, <1>6 DEF Balances
    <2>2. QED BY <1>2, <1>5, <1>6, <2>1 DEF Balances
  <1>8. cash' \in [Assets -> [Pools -> Nat]]
    <2>1. [cash[a] EXCEPT ![p] = cash[a][p] + n] \in [Pools -> Nat] BY <1>2, <1>4, <1>6
    <2>2. QED BY <1>2, <1>5, <1>6, <2>1
  <1>9. supplied' \in [Accounts -> [Assets -> [Pools -> Nat]]]
    <2>1. [supplied[k][a] EXCEPT ![p] = supplied[k][a][p] + n] \in [Pools -> Nat]
      BY <1>2, <1>4, <1>6
    <2>2. [supplied[k] EXCEPT ![a] = [supplied[k][a] EXCEPT ![p] = supplied[k][a][p] + n]]
             \in [Assets -> [Pools -> Nat]]
      BY <1>2, <1>6, <2>1
    <2>3. QED BY <1>2, <1>5, <1>6, <2>2
  <1>10. LedgersTyped' BY <1>1, <1>7, <1>8, <1>9 DEF IInv, LedgersTyped
  <1>11. PermissionsTyped' BY <1>1 DEF IInv, PermissionsTyped
  <1>12. QED BY <1>1, <1>10, <1>11, DisturbedStep DEF IInv

\* The world changes one thing and disturbs the rest.
LEMMA WorldDisturbs ==
  ASSUME IInv, NEW change, World(change)
  PROVE  RunInv' /\ ReportsInv' /\ changes' \in Nat /\ due' = due
  BY DisturbedStep DEF World, IInv, LedgersTyped

LEMMA MarketsMove ==
  ASSUME IInv, RateMoves \/ CashMoves
  PROVE  IInv'
  <1>1. Rates \subseteq Nat /\ Levels \subseteq Nat BY WorldAssumption DEF WorldAssumption
  <1>2. /\ cash \in [Assets -> [Pools -> Nat]] /\ rate \in [Assets -> [Pools -> Nat]]
    BY DEF IInv, LedgersTyped
  <1>3. ASSUME NEW f \in [Assets -> [Pools -> Nat]], NEW a \in Assets, NEW p \in Pools, NEW x \in Nat
        PROVE  [f EXCEPT ![a][p] = x] \in [Assets -> [Pools -> Nat]]
    <2>1. [f[a] EXCEPT ![p] = x] \in [Pools -> Nat] OBVIOUS
    <2>2. QED BY <2>1
  <1>4. CASE RateMoves
    <2>1. PICK a \in Assets, p \in Pools, x \in Rates :
            /\ World("rate") /\ rate' = [rate EXCEPT ![a][p] = x]
            /\ UNCHANGED <<accounts, cash, demand, indexed, expired>>
      BY <1>4 DEF RateMoves
    <2>2. rate' \in [Assets -> [Pools -> Nat]] BY <1>1, <1>2, <1>3, <2>1
    <2>3. QED
      BY <2>1, <2>2, WorldDisturbs DEF accounts, IInv, LedgersTyped, PermissionsTyped
  <1>5. CASE CashMoves
    <2>1. PICK a \in Assets, p \in Pools, x \in Levels :
            /\ World("cash") /\ cash' = [cash EXCEPT ![a][p] = x]
            /\ UNCHANGED <<accounts, rate, demand, indexed, expired>>
      BY <1>5 DEF CashMoves
    <2>2. cash' \in [Assets -> [Pools -> Nat]] BY <1>1, <1>2, <1>3, <2>1
    <2>3. QED
      BY <2>1, <2>2, WorldDisturbs DEF accounts, IInv, LedgersTyped, PermissionsTyped
  <1>6. QED BY <1>4, <1>5

\* One more unit at a market.
LEMMA SuppliedGrows ==
  ASSUME IInv, NEW k \in Accounts, NEW a \in Assets, NEW p \in Pools
  PROVE  [supplied EXCEPT ![k][a][p] = @ + 1] \in [Accounts -> [Assets -> [Pools -> Nat]]]
  <1>1. supplied \in [Accounts -> [Assets -> [Pools -> Nat]]] BY DEF IInv, LedgersTyped
  <1>2. [supplied[k][a] EXCEPT ![p] = supplied[k][a][p] + 1] \in [Pools -> Nat] BY <1>1
  <1>3. [supplied[k] EXCEPT ![a] = [supplied[k][a] EXCEPT ![p] = supplied[k][a][p] + 1]]
           \in [Assets -> [Pools -> Nat]]
    BY <1>1, <1>2
  <1>4. QED BY <1>1, <1>3

LEMMA PositionsMove ==
  ASSUME IInv, InterestAccrues \/ SupplyOnBehalf
  PROVE  IInv'
  <1>1. CASE InterestAccrues
    <2>1. PICK k \in Accounts, a \in Assets, p \in Pools :
            /\ World("interest") /\ supplied' = [supplied EXCEPT ![k][a][p] = @ + 1]
            /\ UNCHANGED <<idle, nominated, permittedVenue, venueEverPermitted, markets, demand,
                           indexed, expired>>
      BY ZenonT(40), <1>1 DEF InterestAccrues
    <2>2. supplied' \in [Accounts -> [Assets -> [Pools -> Nat]]] BY <2>1, SuppliedGrows
    <2>3. QED BY <2>1, <2>2, WorldDisturbs DEF markets, IInv, LedgersTyped, PermissionsTyped
  <1>2. CASE SupplyOnBehalf
    <2>1. PICK k \in Accounts, a \in Assets, p \in Pools :
            /\ World("on_behalf") /\ p \in Lists[a] /\ supplied[k][a][p] < MaxTotal
            /\ supplied' = [supplied EXCEPT ![k][a][p] = @ + 1]
            /\ cash' = [cash EXCEPT ![a][p] = @ + 1]
            /\ UNCHANGED <<idle, nominated, permittedVenue, venueEverPermitted, rate, demand,
                           indexed, expired>>
      BY <1>2 DEF SupplyOnBehalf
    <2>2. supplied' \in [Accounts -> [Assets -> [Pools -> Nat]]] BY <2>1, SuppliedGrows
    <2>3. cash' \in [Assets -> [Pools -> Nat]]
      <3>1. cash \in [Assets -> [Pools -> Nat]] BY DEF IInv, LedgersTyped
      <3>2. [cash[a] EXCEPT ![p] = cash[a][p] + 1] \in [Pools -> Nat] BY <3>1
      <3>3. QED BY <2>1, <3>1, <3>2
    <2>4. QED BY <2>1, <2>2, <2>3, WorldDisturbs DEF IInv, LedgersTyped, PermissionsTyped
  <1>3. QED BY <1>1, <1>2

LEMMA AmountsMove ==
  ASSUME IInv, IdleMoves \/ DemandMoves
  PROVE  IInv'
  <1>1. Levels \subseteq Nat BY WorldAssumption DEF WorldAssumption
  <1>2. ASSUME NEW f \in Balances, NEW k \in Accounts, NEW a \in Assets, NEW x \in Nat
        PROVE  [f EXCEPT ![k][a] = x] \in Balances
    <2>1. [f[k] EXCEPT ![a] = x] \in [Assets -> Nat] BY DEF Balances
    <2>2. QED BY <2>1 DEF Balances
  <1>3. idle \in Balances /\ demand \in Balances BY DEF IInv, LedgersTyped
  <1>4. CASE IdleMoves
    <2>1. PICK k \in Accounts, a \in Assets, x \in Levels :
            /\ World("idle") /\ idle' = [idle EXCEPT ![k][a] = x]
            /\ UNCHANGED <<supplied, nominated, permittedVenue, venueEverPermitted, markets,
                           demand, indexed, expired>>
      BY <1>4 DEF IdleMoves
    <2>2. idle' \in Balances BY <1>1, <1>2, <1>3, <2>1
    <2>3. QED BY <2>1, <2>2, WorldDisturbs DEF markets, IInv, LedgersTyped, PermissionsTyped
  <1>5. CASE DemandMoves
    <2>1. PICK k \in Accounts, a \in Assets, x \in Levels :
            /\ World("demand") /\ demand' = [demand EXCEPT ![k][a] = x]
            /\ UNCHANGED <<accounts, markets, indexed, expired>>
      BY <1>5 DEF DemandMoves
    <2>2. demand' \in Balances BY <1>1, <1>2, <1>3, <2>1
    <2>3. QED
      BY <2>1, <2>2, WorldDisturbs DEF accounts, markets, IInv, LedgersTyped, PermissionsTyped
  <1>6. QED BY <1>4, <1>5

\* What is permitted has been named: the owner's transactions are all that touch either.
LEMMA OwnersMove ==
  ASSUME IInv, OwnerPermits \/ OwnerRevokes \/ OwnerSetsAgent
  PROVE  IInv'
  <1>1. PermissionsTyped /\ LedgersTyped BY DEF IInv
  <1>2. CASE OwnerPermits
    <2>1. PICK k \in Accounts, p \in Pools :
            /\ World("permit")
            /\ permittedVenue' = [permittedVenue EXCEPT ![k] = @ \cup {p}]
            /\ venueEverPermitted' = [venueEverPermitted EXCEPT ![k] = @ \cup {p}]
            /\ UNCHANGED <<idle, supplied, nominated, markets, demand, indexed, expired>>
      BY <1>2 DEF OwnerPermits
    <2>2. PermissionsTyped' BY <1>1, <2>1 DEF PermissionsTyped
    <2>3. QED BY <1>1, <2>1, <2>2, WorldDisturbs DEF markets, IInv, LedgersTyped
  <1>3. CASE OwnerRevokes
    <2>1. PICK k \in Accounts, p \in Pools :
            /\ World("revoke")
            /\ permittedVenue' = [permittedVenue EXCEPT ![k] = @ \ {p}]
            /\ UNCHANGED <<idle, supplied, nominated, venueEverPermitted, markets, demand,
                           indexed, expired>>
      BY <1>3 DEF OwnerRevokes
    <2>2. PermissionsTyped' BY <1>1, <2>1 DEF PermissionsTyped
    <2>3. QED BY <1>1, <2>1, <2>2, WorldDisturbs DEF markets, IInv, LedgersTyped
  <1>4. CASE OwnerSetsAgent
    <2>1. PICK k \in Accounts :
            /\ World("agent")
            /\ nominated' = IF k \in nominated THEN nominated \ {k} ELSE nominated \cup {k}
            /\ UNCHANGED <<idle, supplied, permittedVenue, venueEverPermitted, markets, demand,
                           indexed, expired>>
      BY <1>4 DEF OwnerSetsAgent
    <2>2. PermissionsTyped' BY <1>1, <2>1 DEF PermissionsTyped
    <2>3. QED BY <1>1, <2>1, <2>2, WorldDisturbs DEF markets, IInv, LedgersTyped
  <1>5. QED BY <1>2, <1>3, <1>4

LEMMA FlagsMove ==
  ASSUME IInv, IndexComesAndGoes \/ PolicyExpires
  PROVE  IInv'
  <1>1. /\ \E change : World(change)
        /\ indexed' \in BOOLEAN /\ expired' \in BOOLEAN
        /\ UNCHANGED <<idle, supplied, nominated, permittedVenue, venueEverPermitted, cash, rate,
                       demand>>
    BY DEF IndexComesAndGoes, PolicyExpires, accounts, markets, IInv, LedgersTyped
  <1>2. QED BY <1>1, WorldDisturbs DEF IInv, LedgersTyped, PermissionsTyped

LEMMA Step == IInv /\ [Next]_vars => IInv'
  <1> SUFFICES ASSUME IInv, [Next]_vars PROVE IInv'
    OBVIOUS
  <1>1. CASE RunStep
    BY <1>1, StartRunStep, ReadMarketsStep, JudgeAccountStep, FinishRunStep DEF RunStep
  <1>2. CASE Carried BY <1>2, OnReportStep DEF Carried
  <1>3. CASE Reverted
    <2>1. PICK r \in reports : CallFailed(r) /\ UNCHANGED changes
      BY <1>3 DEF Reverted, MoveReverts
    <2>2. changes' \in Nat BY <2>1 DEF IInv, LedgersTyped
    <2>3. QED BY <2>1, <2>2, CallFailedStep
  <1>4. CASE Abandoned BY <1>4, AbandonStep DEF Abandoned
  <1>5. CASE Tick BY <1>5, TickStep
  <1>6. CASE OutOfGas
    <2>1. PICK r \in reports : CallFailed(r) /\ changes' = changes + 1 BY <1>6 DEF OutOfGas
    <2>2. changes' \in Nat BY <2>1 DEF IInv, LedgersTyped
    <2>3. QED BY <2>1, <2>2, CallFailedStep
  <1>7. CASE WorldChanges
    BY <1>6, <1>7, MarketsMove, PositionsMove, AmountsMove, OwnersMove, FlagsMove
    DEF WorldChanges
  <1>8. CASE UNCHANGED vars
    <2>1. UNCHANGED ground /\ run' = run /\ reports' = reports
          /\ UNCHANGED <<idle, supplied, cash, rate, demand, indexed, expired, due, changes>>
      BY <1>8 DEF vars, ground, accounts, markets
    <2>2. LedgersTyped' BY <2>1 DEF IInv, LedgersTyped
    <2>3. ReportsInv' BY <2>1, GroundStays DEF IInv, ReportsInv
    <2>4. QED BY <2>1, <2>2, <2>3, RunStands, GroundStays DEF IInv
  <1>9. QED BY <1>1, <1>2, <1>3, <1>4, <1>5, <1>7, <1>8 DEF Next

LEMMA Invariant == Spec => []IInv
  BY Start, Step, PTL DEF Spec

-----------------------------------------------------------------------------
(* The results. *)

\* No move, however late or torn the view it was decided on, takes a balance below zero.
THEOREM TypeCorrect == Spec => []TypeOK
  <1>1. IInv => TypeOK
    BY DEF IInv, LedgersTyped, PermissionsTyped, RunInv, ReportsInv, Runs, Reports, TypeOK
  <1>2. QED BY Invariant, <1>1, PTL

\* A fresh move and its side, spelt out on the account.
LEMMA FitsTheAccount ==
  ASSUME IInv, NEW r \in reports, r.fresh
  PROVE  LET m == r.move IN
         /\ m \in Moves /\ m.account \in nominated
         /\ m.supply =>
               /\ m.pool \in permittedVenue[m.account]
               /\ m.amount <= idle[m.account][m.asset]
               /\ idle[m.account][m.asset] - m.amount >= MinIdleAmount
               /\ indexed => idle[m.account][m.asset] - m.amount >= demand[m.account][m.asset]
         /\ ~m.supply =>
               /\ m.pool \in venueEverPermitted[m.account] \/ m.leaving
               /\ m.amount <= supplied[m.account][m.asset][m.pool]
               /\ m.amount <= cash[m.asset][m.pool]
  <1> DEFINE m == r.move
             side == SideNow(m)
  <1>1. m \in Moves /\ FitsNow(m) BY DEF IInv, ReportsInv, Reports
  <1>2. /\ side.permitted = permittedVenue[m.account] /\ side.idle = idle[m.account][m.asset]
        /\ side.supplied = supplied[m.account][m.asset] /\ side.liquidity = cash[m.asset]
    BY DEF SideNow, SideOf, MarketsAsSeenBy
  <1> HIDE DEF m, side
  <1>3. Fits(m, side, venueEverPermitted[m.account], indexed, demand[m.account][m.asset])
        /\ m.account \in nominated
    BY <1>1 DEF FitsNow, side
  <1>4. QED BY <1>1, <1>2, <1>3 DEF Fits, m

\* While its ground has not changed, the account and the market accept what a report asks for, an
\* evacuation of a market the owner never named apart, and a supply leaves the buffer.
THEOREM FreshMovesAreGood == Spec => []FreshMovesHoldUp
  <1>1. IInv => FreshMovesAreAccepted
    BY FitsTheAccount DEF FreshMovesAreAccepted, Accepts, TakesSupply, GivesBack
  <1>2. IInv => FreshSuppliesLeaveTheBuffer
    BY FitsTheAccount DEF FreshSuppliesLeaveTheBuffer
  <1>3. QED BY Invariant, <1>1, <1>2, PTL DEF FreshMovesHoldUp

\* Nothing is sent that is not worth its gas, and a migration goes somewhere better.
THEOREM MovesAreWorthIt == Spec => []MovesPayOff
  <1>1. ASSUME IInv, NEW r \in reports, r.fresh
        PROVE  LET m == r.move side == SideNow(m) IN
               /\ ~m.leaving => m.amount >= Deadband(side)
               /\ IsMigration(m) => m.amount >= RoundTripDeadband(side) /\ PaysMore(side, m.pool)
    <2> DEFINE m == r.move
               side == SideNow(m)
    <2>1. Fits(m, side, venueEverPermitted[m.account], indexed, demand[m.account][m.asset])
      BY <1>1 DEF IInv, ReportsInv, FitsNow
    <2>2. IsMigration(m) =>
            ~m.leaving /\ Migrates(m.supply, side, MandateBuffer(indexed, demand[m.account][m.asset]))
      BY DEF IsMigration, Migrates, FloorNow
    <2> HIDE DEF m, side
    <2>3. QED BY <2>1, <2>2 DEF Fits, m, side
  <1>2. IInv => MovesWorthTheirGas
    BY <1>1 DEF MovesWorthTheirGas, IInv, ReportsInv, Sendable
  <1>3. IInv => FreshMigrationsImprove
    BY <1>1 DEF FreshMigrationsImprove, PaysMore
  <1>4. QED BY Invariant, <1>2, <1>3, PTL DEF MovesPayOff

-----------------------------------------------------------------------------
(* Every move is a step forward: the distance, before and after it. *)

LEMMA ListsAreFinite ==
  ASSUME NEW side \in Sides
  PROVE  /\ IsFiniteSet(Usable(side)) /\ Usable(side) \in SUBSET Pools
         /\ IsFiniteSet(Lists[side.asset] \ side.permitted)
         /\ Lists[side.asset] \ side.permitted \in SUBSET Pools
  <1>1. IsFiniteSet(Pools) BY Config, FS_Interval DEF Pools
  <1>2. Usable(side) \in SUBSET Pools /\ Lists[side.asset] \ side.permitted \in SUBSET Pools
    BY Config DEF Usable, Sides
  <1>3. QED BY <1>1, <1>2, FS_Subset

LEMMA PreferencesCount ==
  ASSUME NEW side \in Sides, NEW p \in Pools
  PROVE  /\ Cardinality(Preferred(side, p)) \in Nat
         /\ Preferred(side, p) # {} => Cardinality(Preferred(side, p)) >= 1
  <1>1. IsFiniteSet(Preferred(side, p))
    <2>1. Preferred(side, p) \in SUBSET Usable(side) BY DEF Preferred
    <2>2. QED BY <2>1, ListsAreFinite, FS_Subset
  <1> DEFINE n == Cardinality(Preferred(side, p))
  <1>2. n \in Nat /\ (n = 0 <=> Preferred(side, p) = {}) BY <1>1, EmptyHasNone
  <1> HIDE DEF n
  <1>3. n \in Nat /\ (Preferred(side, p) # {} => n >= 1) BY <1>2
  <1>4. QED BY <1>3 DEF n

\* The same account and asset, `n` units of it further at work at the market p.
Shifted(side, later, p, n) ==
    /\ later \in Sides
    /\ later.account = side.account /\ later.asset = side.asset
    /\ later.permitted = side.permitted /\ later.rate = side.rate
    /\ later.idle = side.idle - n
    /\ later.supplied = [side.supplied EXCEPT ![p] = @ + n]

\* What is moved to or from a market that counts leaves the total as it was.
LEMMA TotalIsKept ==
  ASSUME NEW side \in Sides, NEW p \in Usable(side), NEW n \in Int, NEW later,
         Shifted(side, later, p, n)
  PROVE  Total(later) = Total(side)
  <1> DEFINE Units(s, q) == {q} \X (1..s.supplied[q])
             others == UNION {Units(side, q) : q \in Usable(side) \ {p}}
  <1>1. Usable(later) = Usable(side) BY DEF Usable, Shifted
  <1>2. later \in Sides /\ later.idle = side.idle - n /\ p \in Pools
    BY UsableIsListed DEF Shifted
  <1>3. /\ side.idle \in Nat /\ side.supplied[p] \in Nat /\ later.supplied[p] \in Nat
        /\ later.supplied[p] = side.supplied[p] + n
    BY <1>2 DEF Sides, Shifted
  <1>4. Working(side) = others \cup Units(side, p) BY DEF Working
  <1>5. Working(later) = others \cup Units(later, p)
    <2>1. \A q \in Usable(side) \ {p} : later.supplied[q] = side.supplied[q]
      BY UsableIsListed DEF Shifted, Sides
    <2>2. UNION {Units(later, q) : q \in Usable(side) \ {p}} = others BY <2>1
    <2>3. Working(later) = UNION {Units(later, q) : q \in Usable(side)} BY <1>1 DEF Working
    <2>4. UNION {Units(later, q) : q \in Usable(side)}
            = (UNION {Units(later, q) : q \in Usable(side) \ {p}}) \cup Units(later, p)
      OBVIOUS
    <2> HIDE DEF Units, others
    <2>5. QED BY <2>2, <2>3, <2>4
  <1>6. \A s : others \cap Units(s, p) = {} OBVIOUS
  <1>7. \A m \in Nat : IsFiniteSet({p} \X (1..m)) /\ Cardinality({p} \X (1..m)) = m
    <2> TAKE m \in Nat
    <2>1. IsFiniteSet(1..m) /\ Cardinality(1..m) = m BY FS_Interval
    <2>2. IsFiniteSet({p}) /\ Cardinality({p}) = 1 BY FS_Singleton
    <2>3. /\ IsFiniteSet({p} \X (1..m))
          /\ Cardinality({p} \X (1..m)) = Cardinality({p}) * Cardinality(1..m)
      BY <2>1, <2>2, FS_Product
    <2>4. QED BY <2>1, <2>2, <2>3
  <1>8. /\ IsFiniteSet(Units(side, p)) /\ Cardinality(Units(side, p)) = side.supplied[p]
        /\ IsFiniteSet(Units(later, p)) /\ Cardinality(Units(later, p)) = later.supplied[p]
    BY <1>3, <1>7
  <1>9. IsFiniteSet(others)
    <2>1. others \in SUBSET Working(side) BY <1>4
    <2>2. IsFiniteSet(Working(side)) BY WorkingIsFinite
    <2>3. QED BY <2>1, <2>2, FS_Subset
  <1> HIDE DEF Units, others
  <1>10. \A s : IsFiniteSet(Units(s, p)) =>
            Cardinality(others \cup Units(s, p)) = Cardinality(others) + Cardinality(Units(s, p))
    <2> SUFFICES ASSUME NEW s, IsFiniteSet(Units(s, p))
                 PROVE  Cardinality(others \cup Units(s, p))
                          = Cardinality(others) + Cardinality(Units(s, p))
      OBVIOUS
    <2>1. Cardinality(others \cup Units(s, p))
            = Cardinality(others) + Cardinality(Units(s, p)) - Cardinality(others \cap Units(s, p))
      BY <1>9, FS_Union
    <2>2. Cardinality(others \cap Units(s, p)) = 0 BY <1>6, FS_EmptySet
    <2>3. Cardinality(others) \in Nat /\ Cardinality(Units(s, p)) \in Nat
      BY <1>9, FS_CardinalityType
    <2>4. QED BY <2>1, <2>2, <2>3
  <1>11. Cardinality(others) \in Nat BY <1>9, FS_CardinalityType
  <1>12. /\ Cardinality(Working(side)) = Cardinality(others) + side.supplied[p]
         /\ Cardinality(Working(later)) = Cardinality(others) + later.supplied[p]
    BY <1>4, <1>5, <1>8, <1>10
  <1>13. QED BY <1>2, <1>3, <1>11, <1>12 DEF Total

\* What stands where it is not permitted changes only with moves out of there.
LEMMA StrandedChanges ==
  ASSUME NEW side \in Sides, NEW p \in Pools, NEW n \in Int, NEW later, Shifted(side, later, p, n)
  PROVE  /\ Stranded(side) \in Int
         /\ p \in Lists[side.asset] \ side.permitted => Stranded(later) = Stranded(side) + n
         /\ p \notin Lists[side.asset] \ side.permitted => Stranded(later) = Stranded(side)
  <1> DEFINE gone == Lists[side.asset] \ side.permitted
             f == side.supplied
             e == later.supplied
  <1>1. IsFiniteSet(gone) /\ gone \in SUBSET Pools BY ListsAreFinite
  <1>2. /\ f \in [Pools -> Nat] /\ e \in [Pools -> Nat] /\ e = [f EXCEPT ![p] = f[p] + n]
        /\ Lists[later.asset] \ later.permitted = gone
    BY DEF Shifted, Sides
  <1> HIDE DEF gone, f, e
  <1>3. \A q \in gone : f[q] \in Int /\ e[q] \in Int BY <1>1, <1>2
  <1>4. SumOf(f, gone) \in Int BY <1>1, <1>3, SumType
  <1>5. ASSUME p \in gone PROVE SumOf(e, gone) = SumOf(f, gone) + n
    <2>1. SumOf(e, gone) = SumOf(f, gone) + (e[p] - f[p])
      <3>1. \A q \in gone \ {p} : e[q] = f[q] BY <1>1, <1>2
      <3>2. QED BY <1>1, <1>3, <1>5, <3>1, SumChanges
    <2>2. e[p] = f[p] + n /\ f[p] \in Int BY <1>2
    <2>3. QED BY <1>4, <2>1, <2>2
  <1>6. ASSUME p \notin gone PROVE SumOf(e, gone) = SumOf(f, gone)
    <2>1. \A q \in gone : f[q] \in Int /\ e[q] = f[q] BY <1>1, <1>2, <1>3, <1>6
    <2>2. QED BY <1>1, <2>1, SumSame
  <1>7. QED BY <1>2, <1>4, <1>5, <1>6 DEF gone, f, e, Stranded

LEMMA MisplacedIsNat ==
  ASSUME NEW side \in Sides
  PROVE  Misplaced(side) \in Nat
  <1> DEFINE f == [q \in Usable(side) |-> side.supplied[q] * Cardinality(Preferred(side, q))]
  <1>1. IsFiniteSet(Usable(side)) /\ Usable(side) \in SUBSET Pools BY ListsAreFinite
  <1>2. \A q \in Usable(side) : side.supplied[q] \in Nat /\ Cardinality(Preferred(side, q)) \in Nat
    BY <1>1, PreferencesCount DEF Sides
  <1>3. \A x, y \in Nat : x * y \in Nat OBVIOUS
  <1>4. \A q \in Usable(side) : f[q] \in Nat BY <1>2, <1>3
  <1> HIDE DEF f
  <1>5. SumOf(f, Usable(side)) \in Nat BY <1>1, <1>4, SumOfNaturals
  <1>6. QED BY <1>5 DEF Misplaced, f

\* The units moved count once for each market preferred to theirs.
LEMMA MisplacedChanges ==
  ASSUME NEW side \in Sides, NEW p \in Usable(side), NEW n \in Int, NEW later,
         Shifted(side, later, p, n)
  PROVE  /\ Misplaced(side) \in Nat /\ Misplaced(later) \in Nat
         /\ Misplaced(later) = Misplaced(side) + n * Cardinality(Preferred(side, p))
  <1> DEFINE T == Usable(side)
             c(q) == Cardinality(Preferred(side, q))
             f == [q \in T |-> side.supplied[q] * c(q)]
             e == [q \in T |-> later.supplied[q] * c(q)]
  <1>1. IsFiniteSet(T) /\ T \in SUBSET Pools BY ListsAreFinite
  <1>2. /\ side.supplied \in [Pools -> Nat] /\ later.supplied \in [Pools -> Nat]
        /\ later.supplied = [side.supplied EXCEPT ![p] = side.supplied[p] + n]
    BY DEF Shifted, Sides
  <1>3. \A q \in Pools : c(q) \in Nat BY PreferencesCount
  <1>4. Usable(later) = T /\ \A q : Preferred(later, q) = Preferred(side, q)
    BY DEF Shifted, Usable, Preferred
  <1>5. Misplaced(side) = SumOf(f, T) /\ Misplaced(later) = SumOf(e, T)
    BY <1>4 DEF Misplaced
  <1> HIDE DEF T, c
  <1>6. \A x, y \in Nat : x * y \in Nat OBVIOUS
  <1>7. \A q \in T : f[q] \in Nat /\ e[q] \in Nat BY <1>1, <1>2, <1>3, <1>6
  <1>8. p \in T BY DEF T
  <1>9. e[p] = f[p] + n * c(p)
    <2>1. e[p] = (side.supplied[p] + n) * c(p) /\ f[p] = side.supplied[p] * c(p)
      BY <1>1, <1>2, <1>8
    <2>2. \A x, y, z \in Int : (x + y) * z = x * z + y * z OBVIOUS
    <2>3. side.supplied[p] \in Int /\ c(p) \in Int BY <1>1, <1>2, <1>3, <1>8
    <2>4. QED BY <2>1, <2>2, <2>3
  <1>10. \A q \in T \ {p} : e[q] = f[q] BY <1>1, <1>2
  <1> HIDE DEF f, e
  <1>11. SumOf(f, T) \in Nat /\ SumOf(e, T) \in Nat BY <1>1, <1>7, SumOfNaturals
  <1>12. SumOf(e, T) = SumOf(f, T) + (e[p] - f[p])
    <2>1. \A q \in T : f[q] \in Int /\ e[q] \in Int BY <1>7
    <2>2. IsFiniteSet(T) BY <1>1
    <2>3. QED BY <1>8, <1>10, <2>1, <2>2, SumChanges
  <1>13. f[p] \in Int /\ n * c(p) \in Int
    <2>1. \A x, y \in Int : x * y \in Int OBVIOUS
    <2>2. c(p) \in Int BY <1>1, <1>3, <1>8
    <2>3. QED BY <1>7, <1>8, <2>1, <2>2
  <1>14. SumOf(e, T) = SumOf(f, T) + n * c(p) BY <1>9, <1>11, <1>12, <1>13
  <1>15. QED BY <1>5, <1>11, <1>14 DEF c

DistanceOf(side, floor) ==
    LET excess == side.idle - WantIdle(side, floor)
    IN <<Stranded(side), Most(0, -excess), Most(0, excess) + 2 * Misplaced(side)>>

LEMMA ThirdOfThree ==
  ASSUME NEW x1 \in Int, NEW x2 \in Int, NEW x3 \in Int, NEW y1 \in Int, NEW y2 \in Int, NEW y3 \in Int,
         \/ x1 < y1
         \/ x1 = y1 /\ x2 < y2
         \/ x1 = y1 /\ x2 = y2 /\ x3 < y3
  PROVE  Closer(<<x1, x2, x3>>, <<y1, y2, y3>>)
  <1> DEFINE x == <<x1, x2, x3>>
             y == <<y1, y2, y3>>
  <1>1. /\ x[1] = x1 /\ x[2] = x2 /\ x[3] = x3 /\ y[1] = y1 /\ y[2] = y2 /\ y[3] = y3
    OBVIOUS
  <1> HIDE DEF x, y
  <1>2. CASE x1 < y1
    <2>1. 1 \in 1..3 /\ x[1] < y[1] /\ \A j \in 1..(1 - 1) : x[j] = y[j] BY <1>1, <1>2
    <2>2. QED BY <2>1 DEF Closer, x, y
  <1>3. CASE x1 = y1 /\ x2 < y2
    <2>1. 2 \in 1..3 /\ x[2] < y[2] /\ \A j \in 1..(2 - 1) : x[j] = y[j] BY <1>1, <1>3
    <2>2. QED BY <2>1 DEF Closer, x, y
  <1>4. CASE x1 = y1 /\ x2 = y2 /\ x3 < y3
    <2>1. 3 \in 1..3 /\ x[3] < y[3] /\ \A j \in 1..(3 - 1) : x[j] = y[j] BY <1>1, <1>4
    <2>2. QED BY <2>1 DEF Closer, x, y
  <1>5. QED BY <1>2, <1>3, <1>4

\* An evacuation shortens the distance by what it brings back.
LEMMA EvacuationIsProgress ==
  ASSUME NEW side \in Sides, NEW floor \in Nat, NEW p \in Lists[side.asset] \ side.permitted,
         NEW n \in Nat, n > 0, NEW later, Shifted(side, later, p, -n)
  PROVE  Closer(DistanceOf(later, floor), DistanceOf(side, floor))
  <1> DEFINE s1 == Stranded(side)
             l1 == Stranded(later)
             ex(t) == t.idle - WantIdle(t, floor)
             two(t) == Most(0, -ex(t))
             three(t) == Most(0, ex(t)) + 2 * Misplaced(t)
  <1>1. p \in Pools BY ListsAreFinite
  <1>2. s1 \in Int /\ l1 = s1 + (-n)
    <2> DEFINE k == -n
    <2>1. k \in Int OBVIOUS
    <2>2. Shifted(side, later, p, k) OBVIOUS
    <2> HIDE DEF k
    <2>3. s1 \in Int /\ l1 = s1 + k BY <1>1, <2>1, <2>2, StrandedChanges
    <2>4. QED BY <2>3 DEF k
  <1>3. side \in Sides /\ later \in Sides BY DEF Shifted
  <1>4. \A t \in Sides : two(t) \in Int /\ three(t) \in Int
    <2> TAKE t \in Sides
    <2>1. ex(t) \in Int BY WantsTheFloor DEF Sides
    <2>2. Misplaced(t) \in Nat BY MisplacedIsNat
    <2> HIDE DEF ex
    <2>3. QED BY <2>1, <2>2 DEF Most
  <1>5. /\ DistanceOf(side, floor) = <<s1, two(side), three(side)>>
        /\ DistanceOf(later, floor) = <<l1, two(later), three(later)>>
    BY DEF DistanceOf
  <1> HIDE DEF s1, l1, two, three
  <1>6. l1 \in Int /\ l1 < s1 BY <1>2
  <1>7. /\ two(side) \in Int /\ three(side) \in Int /\ two(later) \in Int /\ three(later) \in Int
    BY <1>3, <1>4
  <1>8. QED BY <1>2, <1>5, <1>6, <1>7, ThirdOfThree

\* An ordinary move shortens what the buffer is short of, or else what lies idle or misplaced.
LEMMA OrdinaryIsProgress ==
  ASSUME NEW side \in Sides, NEW floor \in Nat, NEW p, NEW amount \in Nat, amount > 0,
         NEW supply \in BOOLEAN, Improves(supply, p, amount, side, floor),
         NEW later, Shifted(side, later, p, IF supply THEN amount ELSE -amount)
  PROVE  Closer(DistanceOf(later, floor), DistanceOf(side, floor))
  <1> DEFINE n == IF supply THEN amount ELSE -amount
             c == Cardinality(Preferred(side, p))
             want == WantIdle(side, floor)
             s1 == Stranded(side)
             w == Misplaced(side)
             v == Misplaced(later)
             i == side.idle
             j == later.idle
  <1>1. p \in Usable(side) /\ p \in Pools /\ n \in Int /\ later \in Sides
    BY UsableIsListed DEF Improves, Shifted
  <1>2. Total(later) = Total(side) BY <1>1, TotalIsKept
  <1>3. WantIdle(later, floor) = want /\ want \in Nat BY <1>2, WantsTheFloor DEF WantIdle
  <1>4. s1 \in Int /\ Stranded(later) = s1
    <2>1. p \notin Lists[side.asset] \ side.permitted BY <1>1 DEF Usable
    <2>2. Shifted(side, later, p, n) OBVIOUS
    <2> HIDE DEF n
    <2>3. QED BY <1>1, <2>1, <2>2, StrandedChanges
  <1>5. w \in Nat /\ v \in Nat /\ v = w + n * c BY <1>1, MisplacedChanges
  <1>6. c \in Nat /\ (Preferred(side, p) # {} => c >= 1) /\ (Preferred(side, p) = {} => c = 0)
    BY <1>1, PreferencesCount, FS_EmptySet
  <1>7. i \in Nat /\ j \in Nat /\ j = i - n BY <1>1 DEF Shifted, Sides
  <1>8. /\ DistanceOf(side, floor) = <<s1, Most(0, -(i - want)), Most(0, i - want) + 2 * w>>
        /\ DistanceOf(later, floor) = <<s1, Most(0, -(j - want)), Most(0, j - want) + 2 * v>>
    BY <1>3, <1>4 DEF DistanceOf
  <1>9. /\ supply => amount <= i - want /\ Preferred(side, p) = {}
        /\ ~supply => amount <= want - i \/ Preferred(side, p) # {}
    BY DEF Improves
  <1>10. n = IF supply THEN amount ELSE -amount OBVIOUS
  <1> HIDE DEF n, c, want, s1, w, v, i, j
  <1>11. CASE supply
    <2>1. v = w
      <3>1. c = 0 BY <1>6, <1>9, <1>11
      <3>2. n * c = 0 BY <1>1, <3>1
      <3>3. QED BY <1>5, <3>2
    <2>2. i - want > 0 /\ j - want >= 0 /\ j < i BY <1>3, <1>7, <1>9, <1>10, <1>11
    <2>3. /\ Most(0, -(i - want)) = 0 /\ Most(0, -(j - want)) = 0
          /\ Most(0, i - want) = i - want /\ Most(0, j - want) = j - want
      BY <1>3, <1>7, <2>2 DEF Most
    <2>4. /\ (i - want) + 2 * w \in Int /\ (j - want) + 2 * w \in Int
          /\ (j - want) + 2 * w < (i - want) + 2 * w
      BY <1>3, <1>5, <1>7, <2>2
    <2>5. QED BY <1>4, <1>8, <2>1, <2>3, <2>4, ThirdOfThree
  <1>12. CASE ~supply /\ i < want
    <2>1. Most(0, -(i - want)) = want - i BY <1>3, <1>7, <1>12 DEF Most
    <2>2. Most(0, -(j - want)) \in Int /\ Most(0, -(j - want)) < want - i /\ want - i \in Int
      BY <1>3, <1>7, <1>10, <1>12 DEF Most
    <2>3. Most(0, i - want) + 2 * w \in Int /\ Most(0, j - want) + 2 * v \in Int
      BY <1>3, <1>5, <1>7 DEF Most
    <2>4. QED BY <1>4, <1>8, <2>1, <2>2, <2>3, ThirdOfThree
  <1>13. CASE ~supply /\ ~ (i < want)
    <2>1. c >= 1
      <3>1. ~ (amount <= want - i) BY <1>3, <1>7, <1>13
      <3>2. QED BY <1>6, <1>9, <1>13, <3>1
    <2>2. v <= w - amount
      <3>1. n = -amount BY <1>10, <1>13
      <3>2. \A x \in Nat, y \in Nat : y >= 1 => (-x) * y <= -x /\ (-x) * y \in Int OBVIOUS
      <3>3. n * c <= -amount /\ n * c \in Int BY <1>6, <2>1, <3>1, <3>2
      <3>4. QED BY <1>5, <3>3
    <2>3. j = i + amount BY <1>7, <1>10, <1>13
    <2>4. /\ Most(0, -(i - want)) = 0 /\ Most(0, -(j - want)) = 0
          /\ Most(0, i - want) = i - want /\ Most(0, j - want) = i + amount - want
      BY <1>3, <1>7, <1>13, <2>3 DEF Most
    <2>5. /\ (i - want) + 2 * w \in Int /\ (i + amount - want) + 2 * v \in Int
          /\ (i + amount - want) + 2 * v < (i - want) + 2 * w
      BY <1>3, <1>5, <1>7, <2>2
    <2>6. QED BY <1>4, <1>8, <2>4, <2>5, ThirdOfThree
  <1>14. QED BY <1>11, <1>12, <1>13

LEMMA SideNowIsASide ==
  ASSUME LedgersTyped, PermissionsTyped, NEW k \in Accounts, NEW a \in Assets, NEW m,
         m.account = k, m.asset = a
  PROVE  /\ SideNow(m) \in Sides /\ FloorNow(m) \in Nat
         /\ SideNow(m).account = k /\ SideNow(m).asset = a
         /\ SideNow(m).idle = idle[k][a] /\ SideNow(m).supplied = supplied[k][a]
         /\ SideNow(m).permitted = permittedVenue[k] /\ SideNow(m).rate = rate[a]
         /\ SideNow(m).liquidity = cash[a]
  <1>1. SideNow(m) = [account |-> k, asset |-> a, idle |-> idle[k][a],
                      permitted |-> permittedVenue[k], supplied |-> supplied[k][a],
                      liquidity |-> cash[a], rate |-> rate[a]]
    BY DEF SideNow, SideOf, MarketsAsSeenBy
  <1>2. /\ idle[k][a] \in Nat /\ permittedVenue[k] \in SUBSET Pools
        /\ supplied[k][a] \in [Pools -> Nat] /\ cash[a] \in [Pools -> Nat]
        /\ rate[a] \in [Pools -> Nat] /\ demand[k][a] \in Nat /\ indexed \in BOOLEAN
    BY DEF LedgersTyped, PermissionsTyped, Balances
  <1>3. FloorNow(m) \in Nat BY <1>2, BufferIsAFloor DEF FloorNow
  <1>4. SideNow(m) \in Sides BY <1>1, <1>2 DEF Sides
  <1>5. QED BY <1>1, <1>3, <1>4

\* Where a move lands, the side is shifted by it.
LEMMA LandingShifts ==
  ASSUME IInv, NEW r \in reports, OnReport(r)
  PROVE  LET m == r.move IN
         /\ Shifted(SideNow(m), SideNow(m)', m.pool, IF m.supply THEN m.amount ELSE -m.amount)
         /\ FloorNow(m)' = FloorNow(m)
  <1> DEFINE m == r.move
             k == m.account
             a == m.asset
             p == m.pool
             n == IF m.supply THEN m.amount ELSE -m.amount
  <1>1. /\ k \in Accounts /\ a \in Assets /\ p \in Pools /\ m.amount \in Nat /\ m.supply \in BOOLEAN
    BY DEF IInv, ReportsInv, Reports, Moves
  <1>2. /\ idle' = [idle EXCEPT ![k][a] = @ - n]
        /\ supplied' = [supplied EXCEPT ![k][a][p] = @ + n]
    <2>1. n = (IF m.supply THEN 1 ELSE -1) * m.amount BY <1>1
    <2>2. QED BY <2>1 DEF OnReport, Moved
  <1>3. UNCHANGED <<rate, permittedVenue, demand, indexed>> BY DEF OnReport
  <1>4. IInv' BY OnReportStep
  <1>5. LedgersTyped /\ PermissionsTyped /\ LedgersTyped' /\ PermissionsTyped'
    BY <1>4 DEF IInv
  <1>6. /\ idle'[k][a] = idle[k][a] - n
        /\ supplied'[k][a] = [supplied[k][a] EXCEPT ![p] = @ + n]
    <2>1. /\ idle \in [Accounts -> [Assets -> Nat]]
          /\ supplied \in [Accounts -> [Assets -> [Pools -> Nat]]]
      BY <1>5 DEF LedgersTyped, Balances
    <2> HIDE DEF n, k, a, p
    <2>2. QED BY <1>1, <1>2, <2>1
  <1> HIDE DEF n
  <1>7. SideNow(m)' \in Sides
    <2>1. SideNow(m)' = [account |-> k, asset |-> a, idle |-> idle'[k][a],
                         permitted |-> permittedVenue'[k], supplied |-> supplied'[k][a],
                         liquidity |-> cash'[a], rate |-> rate'[a]]
      BY DEF SideNow, SideOf, MarketsAsSeenBy
    <2>2. /\ idle'[k][a] \in Nat /\ permittedVenue'[k] \in SUBSET Pools
          /\ supplied'[k][a] \in [Pools -> Nat] /\ cash'[a] \in [Pools -> Nat]
          /\ rate'[a] \in [Pools -> Nat]
      BY <1>1, <1>5 DEF LedgersTyped, PermissionsTyped, Balances
    <2>3. QED BY <1>1, <2>1, <2>2 DEF Sides
  <1>8. /\ SideNow(m)'.idle = idle'[k][a] /\ SideNow(m)'.supplied = supplied'[k][a]
        /\ SideNow(m)'.account = SideNow(m).account /\ SideNow(m)'.asset = SideNow(m).asset
        /\ SideNow(m)'.permitted = SideNow(m).permitted /\ SideNow(m)'.rate = SideNow(m).rate
        /\ SideNow(m).idle = idle[k][a] /\ SideNow(m).supplied = supplied[k][a]
    BY <1>3 DEF SideNow, SideOf, MarketsAsSeenBy
  <1>9. FloorNow(m)' = FloorNow(m) BY <1>3 DEF FloorNow
  <1>10. Shifted(SideNow(m), SideNow(m)', p, n) BY <1>6, <1>7, <1>8 DEF Shifted
  <1>11. QED BY <1>9, <1>10 DEF n

\* Nothing else is shifted.
LEMMA OthersStay ==
  ASSUME IInv, NEW r \in reports, OnReport(r), NEW k \in Accounts, NEW a \in Assets,
         <<k, a>> # <<r.move.account, r.move.asset>>
  PROVE  UNCHANGED Distance([account |-> k, asset |-> a])
  <1> DEFINE m == [account |-> k, asset |-> a]
             t == SideNow(m)
             u == SideNow(m)'
  <1>1. /\ r.move.account \in Accounts /\ r.move.asset \in Assets
    BY DEF IInv, ReportsInv, Reports, Moves
  <1>2. /\ idle \in [Accounts -> [Assets -> Nat]]
        /\ supplied \in [Accounts -> [Assets -> [Pools -> Nat]]]
    BY DEF IInv, LedgersTyped, Balances
  <1>3. idle'[k][a] = idle[k][a] /\ supplied'[k][a] = supplied[k][a]
    BY <1>1, <1>2 DEF OnReport, Moved
  <1>4. UNCHANGED <<rate, permittedVenue, demand, indexed>> BY DEF OnReport
  <1>5. /\ u.idle = t.idle /\ u.supplied = t.supplied /\ u.permitted = t.permitted
        /\ u.rate = t.rate /\ u.asset = t.asset /\ FloorNow(m)' = FloorNow(m)
    BY <1>3, <1>4 DEF SideNow, SideOf, MarketsAsSeenBy, FloorNow
  <1> HIDE DEF t, u, m
  <1>6. DistanceOf(u, FloorNow(m)) = DistanceOf(t, FloorNow(m))
    <2>1. Usable(u) = Usable(t) BY <1>5 DEF Usable
    <2>2. Total(u) = Total(t) BY <1>5, <2>1 DEF Total, Working
    <2>3. WantIdle(u, FloorNow(m)) = WantIdle(t, FloorNow(m)) BY <2>2 DEF WantIdle
    <2>4. \A q : Preferred(u, q) = Preferred(t, q) BY <1>5, <2>1 DEF Preferred
    <2>5. Misplaced(u) = Misplaced(t) BY <1>5, <2>1, <2>4 DEF Misplaced
    <2>6. Stranded(u) = Stranded(t) BY <1>5 DEF Stranded
    <2>7. QED BY <1>5, <2>3, <2>5, <2>6 DEF DistanceOf
  <1>7. Distance(m) = DistanceOf(t, FloorNow(m)) BY DEF Distance, DistanceOf, t
  <1>8. Distance(m)' = DistanceOf(u, FloorNow(m)') BY DEF Distance, DistanceOf, u, SideNow
  <1>9. QED BY <1>5, <1>6, <1>7, <1>8 DEF m

LEMMA LandingIsProgress ==
  ASSUME IInv, NEW r \in reports, r.fresh, OnReport(r)
  PROVE  Closer(Distance(r.move)', Distance(r.move))
  <1> DEFINE m == r.move
             side == SideNow(m)
             later == SideNow(m)'
             floor == FloorNow(m)
             n == IF m.supply THEN m.amount ELSE -m.amount
  <1>1. /\ m \in Moves /\ FitsNow(m) /\ m.amount > 0 /\ LedgersTyped /\ PermissionsTyped
    BY DEF IInv, ReportsInv, Reports, Sendable
  <1>2. /\ m.account \in Accounts /\ m.asset \in Assets /\ m.amount \in Nat /\ m.supply \in BOOLEAN
        /\ m.leaving \in BOOLEAN
    BY <1>1 DEF Moves
  <1>3. side \in Sides /\ floor \in Nat BY <1>1, <1>2, SideNowIsASide
  <1>4. Shifted(side, later, m.pool, n) /\ floor' = floor BY LandingShifts
  <1>5. /\ Distance(m) = DistanceOf(side, floor)
        /\ Distance(m)' = DistanceOf(later, floor')
    BY DEF Distance, DistanceOf
  <1>6. /\ ~m.leaving => Improves(m.supply, m.pool, m.amount, side, floor)
        /\ m.leaving => ~m.supply /\ m.pool \in Lists[side.asset] \ side.permitted
    BY <1>1 DEF FitsNow, Fits, FloorNow
  <1> HIDE DEF side, later, floor, m
  <1>7. Closer(DistanceOf(later, floor), DistanceOf(side, floor))
    <2>1. CASE m.leaving
      <3>1. n = -m.amount BY <1>6, <2>1
      <3>2. Shifted(side, later, m.pool, -m.amount) BY <1>4, <3>1
      <3>3. QED BY <1>1, <1>2, <1>3, <1>6, <2>1, <3>2, EvacuationIsProgress
    <2>2. CASE ~m.leaving
      BY <1>1, <1>2, <1>3, <1>4, <1>6, <2>2, OrdinaryIsProgress
    <2>3. QED BY <2>1, <2>2
  <1>8. QED BY <1>4, <1>5, <1>7 DEF m

\* A move that lands on what it was decided on brings its account's asset closer to where runs
\* would leave it, in an order that has no endless descent, and no other further away.
THEOREM ProgressIsMade == Spec => MovesAreProgress
  <1>1. IInv => \A r \in reports : (r.fresh /\ OnReport(r)) =>
           /\ Closer(Distance(r.move)', Distance(r.move))
           /\ \A k \in Accounts, a \in Assets :
                 <<k, a>> # <<r.move.account, r.move.asset>> =>
                     UNCHANGED Distance([account |-> k, asset |-> a])
    BY LandingIsProgress, OthersStay
  <1>2. QED BY Invariant, <1>1, PTL DEF Spec, MovesAreProgress

Distances == Nat \X Nat \X Nat

LEMMA StrandedIsNat ==
  ASSUME NEW side \in Sides
  PROVE  Stranded(side) \in Nat
  <1> DEFINE gone == Lists[side.asset] \ side.permitted
  <1>1. IsFiniteSet(gone) /\ gone \in SUBSET Pools BY ListsAreFinite
  <1> HIDE DEF gone
  <1>2. \A q \in gone : side.supplied[q] \in Nat BY <1>1 DEF Sides
  <1>3. SumOf(side.supplied, gone) \in Nat BY <1>1, <1>2, SumOfNaturals
  <1>4. QED BY <1>3 DEF Stranded, gone

\* Every account's asset is some natural way off, and of any distances one is such that none is
\* closer: moves that land as they were decided cannot follow one another for ever.
THEOREM DescentsEnd ==
    /\ Spec => [](\A k \in Accounts, a \in Assets :
                     Distance([account |-> k, asset |-> a]) \in Distances)
    /\ \A S \in SUBSET Distances : S # {} => \E x \in S : \A y \in S : ~Closer(y, x)
  <1>1. IInv => \A k \in Accounts, a \in Assets :
                   Distance([account |-> k, asset |-> a]) \in Distances
    <2> SUFFICES ASSUME IInv, NEW k \in Accounts, NEW a \in Assets
                 PROVE  Distance([account |-> k, asset |-> a]) \in Distances
      OBVIOUS
    <2> DEFINE m == [account |-> k, asset |-> a]
               side == SideNow(m)
               floor == FloorNow(m)
               excess == side.idle - WantIdle(side, floor)
    <2>1. side \in Sides /\ floor \in Nat BY SideNowIsASide DEF IInv
    <2> HIDE DEF side, floor
    <2>2. excess \in Int BY <2>1, WantsTheFloor DEF Sides
    <2>3. Stranded(side) \in Nat /\ Misplaced(side) \in Nat BY <2>1, StrandedIsNat, MisplacedIsNat
    <2>4. Distance(m) = <<Stranded(side), Most(0, -excess), Most(0, excess) + 2 * Misplaced(side)>>
      BY DEF Distance, side, floor
    <2> HIDE DEF excess
    <2>5. Most(0, -excess) \in Nat /\ Most(0, excess) + 2 * Misplaced(side) \in Nat
      BY <2>2, <2>3 DEF Most
    <2>6. QED BY <2>3, <2>4, <2>5 DEF Distances
  <1>2. ASSUME NEW S \in SUBSET Distances, S # {}
        PROVE  \E x \in S : \A y \in S : ~Closer(y, x)
    <2>1. \A x \in S : x[1] \in Nat /\ x[2] \in Nat /\ x[3] \in Nat BY <1>2 DEF Distances
    <2>2. \A T, i : T \in SUBSET S /\ T # {} /\ i \in 1..3 => \E x \in T : \A y \in T : x[i] <= y[i]
      <3> SUFFICES ASSUME NEW T \in SUBSET S, T # {}, NEW i \in 1..3
                   PROVE  \E x \in T : \A y \in T : x[i] <= y[i]
        OBVIOUS
      <3>1. \A x \in T : x[i] \in Nat BY <2>1
      <3>2. {x[i] : x \in T} \in SUBSET Nat /\ {x[i] : x \in T} # {} BY <3>1
      <3>3. PICK low \in {x[i] : x \in T} : \A v \in {x[i] : x \in T} : low <= v BY <3>2, LeastOf
      <3>4. QED BY <3>3
    <2>3. PICK a \in S : \A y \in S : a[1] <= y[1]
      <3>1. S \in SUBSET S /\ 1 \in 1..3 OBVIOUS
      <3>2. QED BY <1>2, <2>2, <3>1, SMTT(30)
    <2> DEFINE A == {y \in S : y[1] = a[1]}
    <2>4. PICK b \in A : \A y \in A : b[2] <= y[2]
      <3>1. A \in SUBSET S /\ a \in A OBVIOUS
      <3> HIDE DEF A
      <3>2. QED BY <2>2, <3>1
    <2> DEFINE B == {y \in A : y[2] = b[2]}
    <2>5. PICK c \in B : \A y \in B : c[3] <= y[3]
      <3>1. B \in SUBSET S /\ B # {} /\ 3 \in 1..3 OBVIOUS
      <3> HIDE DEF A, B
      <3>2. \E x \in B : \A y \in B : x[3] <= y[3] BY <2>2, <3>1
      <3>3. QED BY <3>2
    <2>6. ASSUME NEW y \in S, Closer(y, c) PROVE FALSE
      <3>1. PICK i \in 1..3 : y[i] < c[i] /\ \A j \in 1..(i - 1) : y[j] = c[j]
        BY <2>6 DEF Closer
      <3>2. /\ y[1] \in Nat /\ y[2] \in Nat /\ y[3] \in Nat
            /\ c[1] \in Nat /\ c[2] \in Nat /\ c[3] \in Nat /\ c[1] = a[1] /\ c[2] = b[2]
        BY <2>1
      <3>3. i = 1 \/ i = 2 \/ i = 3 OBVIOUS
      <3>4. CASE i = 1 BY <2>3, <3>1, <3>2, <3>4
      <3>5. CASE i = 2
        <4>1. y[1] = c[1] BY <3>1, <3>5
        <4>2. y \in A BY <3>2, <4>1
        <4>3. QED BY <2>4, <3>1, <3>2, <3>5, <4>2
      <3>6. CASE i = 3
        <4>1. y[1] = c[1] /\ y[2] = c[2] BY <3>1, <3>6
        <4>2. y \in B BY <3>2, <4>1
        <4>3. QED BY <2>5, <3>1, <3>2, <3>6, <4>2
      <3>7. QED BY <3>3, <3>4, <3>5, <3>6
    <2>7. QED BY <2>6
  <1>3. Spec => [](\A k \in Accounts, a \in Assets :
                      Distance([account |-> k, asset |-> a]) \in Distances)
    BY Invariant, <1>1, PTL
  <1>4. QED BY <1>2, <1>3
=============================================================================
