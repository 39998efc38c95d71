------------------------------- MODULE CardProofs -----------------------------
(***************************************************************************)
(* Proofs about the cards the owner presses, the line the page draws and   *)
(* what the bot says, for any number of presses, readings, messages and    *)
(* movements between them.                                                 *)
(***************************************************************************)
EXTENDS PutToWork, WayOut, Provide, ValueHistory, Bot, SwapCard, SumsProofs, SequenceTheorems, TLAPS

-----------------------------------------------------------------------------
(***************************************************************************)
(* Putting to work.  Only a landed batch puts money into the account, so   *)
(* the account holds what the last mandate covered, and a mandate covers   *)
(* nothing new only if its batch added nothing.  A card that knows of a    *)
(* mandate is enabled only when its press will add something; what a press *)
(* takes along is fixed when it is made.                                   *)
(***************************************************************************)

LEMMA PutBounds ==
    /\ Asks \subseteq {"plain", "fund", "wrap"} /\ Holdings \subseteq Nat
    /\ MaxPresses \in Nat /\ MaxMounts \in Nat /\ MaxDeposits \in Nat
  BY PutToWorkAssumption DEF PutToWorkAssumption

USE PutBounds

-----------------------------------------------------------------------------
(* The inductive invariant. *)

Money == [wallet : Nat, account : Nat, ether : Nat]
Card == [balances : Money \cup {Unread}, position : Int, sent : Nat]
AnyPress == [card : Cards, stage : {"checking", "in-wallet", "landed", "dropped"},
             wallet : Nat, fund : Nat, wrap : Nat, knew : BOOLEAN]

\* What a press that knew takes along is something.
Presses == {b \in AnyPress : b.knew => b.wallet + b.fund + b.wrap > 0}

PutTypes ==
    /\ ask \in Asks
    /\ chain \in [wallet : Nat, account : Nat, ether : Nat, shipped : Nat]
    /\ indexed \in Nat /\ indexed =< chain.shipped
    /\ cards \in [Cards -> Card] /\ presses \in Seq(Presses)
    /\ covered \in Nat /\ idleShips \subseteq DOMAIN presses

CardInv(card) == card.sent =< Len(presses) /\ card.position >= -1 /\ card.position =< indexed

PutInv ==
    /\ PutTypes
    /\ \A c \in Cards : CardInv(cards[c])
    /\ chain.shipped > 0 => covered = chain.account
    /\ InformedPressesAddMoney

-----------------------------------------------------------------------------

LEMMA PutStarts == PutInit => PutInv
  <1> SUFFICES ASSUME PutInit PROVE PutInv
    OBVIOUS
  <1>1. presses = <<>> /\ idleShips = {} /\ indexed = 0 /\ covered = 0 /\ ask \in Asks BY DEF PutInit
  <1>2. chain \in [wallet : Nat, account : Nat, ether : Nat, shipped : Nat] /\ chain.shipped = 0
    <2>1. PICK w \in Holdings, a \in Holdings, e \in {0, 2} :
            chain = [wallet |-> w, account |-> a, ether |-> e, shipped |-> 0]
      BY DEF PutInit
    <2>2. QED BY <2>1
  <1>3. Mounted \in Card /\ CardInv(Mounted)
    BY <1>1 DEF Mounted, Card, CardInv, Unasked
  <1>4. cards \in [Cards -> Card] /\ \A c \in Cards : CardInv(cards[c])
    BY <1>3 DEF PutInit
  <1>5. PutTypes BY <1>1, <1>2, <1>4 DEF PutTypes
  <1>6. QED BY <1>1, <1>2, <1>4, <1>5 DEF PutInv, InformedPressesAddMoney

\* A card's record changes and no money moves.
LEMMA CardStep ==
  ASSUME PutInv, NEW c \in Cards, NEW card \in Card, CardInv(card),
         cards' = [cards EXCEPT ![c] = card],
         UNCHANGED <<ask, chain, indexed, presses, covered, idleShips>>
  PROVE  PutInv'
  <1>1. cards' \in [Cards -> Card] /\ \A k \in Cards : cards'[k] \in {cards[k], card}
    BY DEF PutInv, PutTypes
  <1>2. PutTypes' BY <1>1 DEF PutInv, PutTypes
  <1>3. \A k \in Cards : CardInv(cards[k])' BY <1>1 DEF PutInv, CardInv
  <1>4. QED BY <1>2, <1>3 DEF PutInv, InformedPressesAddMoney

LEMMA ReadBalancesStep ==
  ASSUME PutInv, NEW c \in Cards, ReadBalances(c)
  PROVE  PutInv'
  <1> DEFINE m == [wallet |-> chain.wallet, account |-> chain.account, ether |-> chain.ether]
             card == [cards[c] EXCEPT !.balances = m]
  <1>1. m \in Money BY DEF Money, PutInv, PutTypes
  <1>2. cards[c] \in Card /\ CardInv(cards[c]) BY DEF PutInv, PutTypes
  <1>3. card \in Card /\ CardInv(card) BY <1>1, <1>2 DEF Card, CardInv
  <1>4. QED BY <1>3, CardStep DEF ReadBalances

LEMMA ReadMandatesStep ==
  ASSUME PutInv, NEW c \in Cards, ReadMandates(c)
  PROVE  PutInv'
  <1> DEFINE card == [cards[c] EXCEPT !.position = indexed]
  <1>1. cards[c] \in Card /\ CardInv(cards[c]) /\ indexed \in Nat BY DEF PutInv, PutTypes
  <1>2. card \in Card /\ CardInv(card) BY <1>1 DEF Card, CardInv
  <1>3. QED BY <1>2, CardStep DEF ReadMandates

-----------------------------------------------------------------------------
(* Presses. *)

\* Presses whose stages alone have changed.
Staged ==
    /\ presses' \in Seq(Presses) /\ Len(presses') = Len(presses)
    /\ \A i \in DOMAIN presses : presses'[i].knew = presses[i].knew

LEMMA Restaged ==
  ASSUME NEW b \in Presses, NEW s \in {"checking", "in-wallet", "landed", "dropped"}
  PROVE  /\ [b EXCEPT !.stage = s] \in Presses /\ [b EXCEPT !.stage = s].knew = b.knew
  BY DEF Presses, AnyPress

LEMMA PressMoves ==
  ASSUME PutInv, NEW p \in DOMAIN presses, NEW s \in {"in-wallet", "landed", "dropped"}, Moves(p, s)
  PROVE  Staged
  <1> DEFINE b == [presses[p] EXCEPT !.stage = s]
  <1>1. presses \in Seq(Presses) /\ DOMAIN presses = 1..Len(presses) /\ presses[p] \in Presses
    BY LenProperties DEF PutInv, PutTypes
  <1>2. b \in Presses /\ b.knew = presses[p].knew BY <1>1, Restaged
  <1>3. presses' = [presses EXCEPT ![p] = b] BY DEF Moves
  <1>4. /\ presses' \in Seq(Presses) /\ Len(presses') = Len(presses)
        /\ \A j \in 1..Len(presses) : presses'[j] = IF j = p THEN b ELSE presses[j]
    BY <1>1, <1>2, <1>3, ExceptSeq
  <1>5. QED BY <1>1, <1>2, <1>4 DEF Staged

LEMMA MountStep ==
  ASSUME PutInv, NEW c \in Cards, Mount(c)
  PROVE  PutInv'
  <1>1. /\ cards' = [cards EXCEPT ![c] = Mounted]
        /\ presses' = [p \in DOMAIN presses |->
                         IF presses[p].card = c /\ presses[p].stage = "checking"
                         THEN [presses[p] EXCEPT !.stage = "dropped"] ELSE presses[p]]
        /\ UNCHANGED <<ask, chain, indexed, covered, idleShips>>
    BY DEF Mount
  <1>2. presses \in Seq(Presses) /\ DOMAIN presses = 1..Len(presses) /\ Len(presses) \in Nat
    BY LenProperties DEF PutInv, PutTypes
  <1>3. Staged
    <2>1. \A i \in 1..Len(presses) :
            presses'[i] \in Presses /\ presses'[i].knew = presses[i].knew
      <3> SUFFICES ASSUME NEW i \in 1..Len(presses)
                   PROVE  presses'[i] \in Presses /\ presses'[i].knew = presses[i].knew
        OBVIOUS
      <3>1. presses[i] \in Presses BY <1>2
      <3>2. presses'[i] \in {presses[i], [presses[i] EXCEPT !.stage = "dropped"]}
        BY <1>1, <1>2
      <3>3. QED BY <3>1, <3>2, Restaged
    <2>2. presses' \in [1..Len(presses) -> Presses] BY <1>1, <1>2, <2>1
    <2>3. presses' \in Seq(Presses) BY <1>2, <2>2, SeqDef
    <2>4. QED BY <1>1, <1>2, <2>1, <2>2, <2>3, LenProperties DEF Staged
  <1>4. Mounted \in Card /\ CardInv(Mounted)
    BY <1>2 DEF Mounted, Card, CardInv, Unasked, PutInv, PutTypes
  <1>5. cards' \in [Cards -> Card] /\ \A k \in Cards : cards'[k] \in {cards[k], Mounted}
    BY <1>1, <1>4 DEF PutInv, PutTypes
  <1>6. PutTypes' BY <1>1, <1>2, <1>3, <1>5, LenProperties DEF PutInv, PutTypes, Staged
  <1>7. \A k \in Cards : CardInv(cards[k])' BY <1>1, <1>3, <1>4, <1>5 DEF PutInv, CardInv, Staged
  <1>8. InformedPressesAddMoney' BY <1>1, <1>3 DEF PutInv, PutTypes, InformedPressesAddMoney, Staged
  <1>9. QED BY <1>1, <1>6, <1>7, <1>8 DEF PutInv

\* An enabled card that knows of a mandate takes something along.
LEMMA EnabledAdds ==
  ASSUME PutInv, NEW c \in Cards, Enabled(c)
  PROVE  /\ cards[c].balances.wallet \in Nat
         /\ Done(c) => cards[c].balances.wallet > 0 \/ (ask = "wrap" /\ ~JustDone(c))
  <1>1. cards[c] \in Card /\ cards[c].balances \in Money
    BY DEF PutInv, PutTypes, Card, Enabled, ReadyToPress
  <1>2. QED BY <1>1 DEF Money, Enabled, Addable

LEMMA PressStep ==
  ASSUME PutInv, NEW c \in Cards, Press(c)
  PROVE  PutInv'
  <1> DEFINE b == [card |-> c, stage |-> "checking", wallet |-> cards[c].balances.wallet,
                   fund |-> IF ask = "fund" /\ ~Done(c) THEN 1 ELSE 0,
                   wrap |-> IF ask = "wrap" /\ ~JustDone(c) THEN 1 ELSE 0,
                   knew |-> Done(c)]
  <1>1. /\ Enabled(c) /\ presses' = Append(presses, b)
        /\ UNCHANGED <<ask, chain, indexed, cards, covered, idleShips>>
    BY DEF Press
  <1>2. Done(c) \in BOOLEAN BY DEF Done, JustDone, Already
  <1>3. b \in AnyPress
    <2>1. cards[c].balances.wallet \in Nat BY <1>1, EnabledAdds
    <2>2. QED BY <1>2, <2>1 DEF AnyPress
  <1>4. Done(c) => b.wallet + b.fund + b.wrap > 0
    <2> SUFFICES ASSUME Done(c) PROVE b.wallet + b.fund + b.wrap > 0
      OBVIOUS
    <2>1. b.wallet \in Nat /\ b.fund \in Nat /\ b.wrap \in Nat BY <1>3 DEF AnyPress
    <2>2. b.wallet > 0 \/ b.wrap = 1 BY <1>1, EnabledAdds
    <2>3. QED BY <2>1, <2>2
  <1>5. b \in Presses BY <1>3, <1>4 DEF Presses
  <1>6. /\ presses' \in Seq(Presses) /\ Len(presses') = Len(presses) + 1
        /\ \A i \in DOMAIN presses : i \in DOMAIN presses' /\ presses'[i] = presses[i]
    BY <1>1, <1>5 DEF PutInv, PutTypes
  <1>7. PutTypes' BY <1>1, <1>6 DEF PutInv, PutTypes
  <1>8. \A k \in Cards : CardInv(cards[k])'
    BY <1>1, <1>6, LenProperties DEF PutInv, PutTypes, Card, CardInv
  <1>9. InformedPressesAddMoney' BY <1>1, <1>6 DEF PutInv, PutTypes, InformedPressesAddMoney
  <1>10. QED BY <1>1, <1>7, <1>8, <1>9 DEF PutInv

-----------------------------------------------------------------------------
(* Batches. *)

LEMMA SendStep ==
  ASSUME PutInv, NEW p \in DOMAIN presses, Send(p)
  PROVE  PutInv'
  <1> DEFINE c == presses[p].card
  <1>1. /\ Moves(p, "in-wallet") /\ cards' = [cards EXCEPT ![c].sent = p]
        /\ UNCHANGED <<ask, chain, indexed, covered, idleShips>>
    BY DEF Send
  <1>2. Staged BY <1>1, PressMoves
  <1>3. presses \in Seq(Presses) /\ p \in Nat /\ p =< Len(presses) /\ c \in Cards
    BY SMTT(30), LenProperties DEF PutInv, PutTypes, Presses, AnyPress
  <1> DEFINE card == [cards[c] EXCEPT !.sent = p]
  <1>4. card \in Card /\ CardInv(card) BY <1>3 DEF PutInv, PutTypes, Card, CardInv
  <1>5. cards' \in [Cards -> Card] /\ \A k \in Cards : cards'[k] \in {cards[k], card}
    BY <1>1, <1>3, <1>4 DEF PutInv, PutTypes
  <1>6. PutTypes' BY <1>1, <1>2, <1>3, <1>5, LenProperties DEF PutInv, PutTypes, Staged
  <1>7. \A k \in Cards : CardInv(cards[k])' BY <1>1, <1>2, <1>4, <1>5 DEF PutInv, CardInv, Staged
  <1>8. InformedPressesAddMoney' BY <1>1, <1>2 DEF PutInv, PutTypes, InformedPressesAddMoney, Staged
  <1>9. QED BY <1>1, <1>6, <1>7, <1>8 DEF PutInv

\* A batch ends without moving money.
LEMMA DroppedStep ==
  ASSUME PutInv, NEW p \in DOMAIN presses, Moves(p, "dropped"),
         UNCHANGED <<ask, chain, indexed, cards, covered, idleShips>>
  PROVE  PutInv'
  <1>1. Staged BY PressMoves
  <1>2. PutTypes' BY <1>1, LenProperties DEF PutInv, PutTypes, Staged
  <1>3. \A k \in Cards : CardInv(cards[k])' BY <1>1 DEF PutInv, CardInv, Staged
  <1>4. InformedPressesAddMoney' BY <1>1 DEF PutInv, PutTypes, InformedPressesAddMoney, Staged
  <1>5. QED BY <1>2, <1>3, <1>4 DEF PutInv

LEMMA LandStep ==
  ASSUME PutInv, NEW p \in DOMAIN presses, Land(p)
  PROVE  PutInv'
  <1> DEFINE b == presses[p]
  <1>1. CASE ~CanPay(b) BY <1>1, DroppedStep DEF Land
  <1>2. CASE CanPay(b)
    <2>1. /\ Moves(p, "landed")
          /\ chain' = [wallet |-> chain.wallet - b.wallet, account |-> chain.account + Adds(b),
                       ether |-> chain.ether - b.fund - b.wrap, shipped |-> chain.shipped + 1]
          /\ covered' = chain.account + Adds(b)
          /\ idleShips' = IF chain.shipped > 0 /\ chain.account + Adds(b) = covered
                          THEN idleShips \cup {p} ELSE idleShips
          /\ UNCHANGED <<ask, indexed, cards>>
      BY <1>2 DEF Land
    <2>2. Staged BY <2>1, PressMoves
    <2>3. b \in Presses BY LenProperties DEF PutInv, PutTypes
    <2>4. Adds(b) \in Nat /\ (b.knew => Adds(b) > 0) BY <2>3 DEF Presses, AnyPress, Adds
    <2>5. /\ chain \in [wallet : Nat, account : Nat, ether : Nat, shipped : Nat]
          /\ b.wallet \in Nat /\ b.fund \in Nat /\ b.wrap \in Nat
      BY <2>3 DEF PutInv, PutTypes, Presses, AnyPress
    <2>6. /\ chain' \in [wallet : Nat, account : Nat, ether : Nat, shipped : Nat]
          /\ chain'.shipped = chain.shipped + 1 /\ covered' = chain'.account
      BY <1>2, <2>1, <2>4, <2>5 DEF CanPay
    <2>7. PutTypes'
      <3>1. DOMAIN presses' = DOMAIN presses BY <2>2, LenProperties DEF PutInv, PutTypes, Staged
      <3>2. idleShips' \subseteq DOMAIN presses' BY <2>1, <3>1 DEF PutInv, PutTypes
      <3>3. indexed' =< chain'.shipped /\ covered' \in Nat BY <2>1, <2>5, <2>6 DEF PutInv, PutTypes
      <3>4. QED BY <2>1, <2>2, <2>6, <3>2, <3>3 DEF PutInv, PutTypes, Staged
    <2>8. \A k \in Cards : CardInv(cards[k])' BY <2>1, <2>2 DEF PutInv, CardInv, Staged
    <2>9. ASSUME chain.shipped > 0, chain.account + Adds(b) = covered PROVE ~b.knew
      <3>1. Adds(b) = 0 BY <2>4, <2>5, <2>9 DEF PutInv
      <3>2. QED BY <2>4, <3>1
    <2>10. InformedPressesAddMoney'
      BY <2>1, <2>2, <2>9 DEF PutInv, PutTypes, InformedPressesAddMoney, Staged
    <2>11. QED BY <2>6, <2>7, <2>8, <2>10 DEF PutInv
  <1>3. QED BY <1>1, <1>2

LEMMA PutChainStep ==
  ASSUME PutInv, Indexes \/ Deposit
  PROVE  PutInv'
  <1>1. CASE Indexes
    <2>1. /\ indexed < chain.shipped /\ indexed' = indexed + 1
          /\ UNCHANGED <<ask, chain, cards, presses, covered, idleShips>>
      BY <1>1 DEF Indexes
    <2>2. PutTypes' BY <2>1 DEF PutInv, PutTypes
    <2>3. \A k \in Cards : CardInv(cards[k])' BY <2>1 DEF PutInv, PutTypes, Card, CardInv
    <2>4. QED BY <2>1, <2>2, <2>3 DEF PutInv, InformedPressesAddMoney
  <1>2. CASE Deposit
    <2>1. chain' = [chain EXCEPT !.wallet = @ + 1]
          /\ UNCHANGED <<ask, indexed, cards, presses, covered, idleShips>>
      BY <1>2 DEF Deposit
    <2>2. /\ chain' \in [wallet : Nat, account : Nat, ether : Nat, shipped : Nat]
          /\ chain'.shipped = chain.shipped /\ chain'.account = chain.account
      BY SMTT(30), <2>1 DEF PutInv, PutTypes
    <2>3. PutTypes' BY <2>1, <2>2 DEF PutInv, PutTypes
    <2>4. QED BY <2>1, <2>2, <2>3 DEF PutInv, CardInv, InformedPressesAddMoney
  <1>3. QED BY <1>1, <1>2

LEMMA PutStep == PutInv /\ [PutNext]_putVars => PutInv'
  <1> SUFFICES ASSUME PutInv, [PutNext]_putVars PROVE PutInv'
    OBVIOUS
  <1>1. CASE UNCHANGED putVars
    BY <1>1 DEF putVars, PutInv, PutTypes, CardInv, InformedPressesAddMoney
  <1>2. ASSUME NEW p \in DOMAIN presses, Refuse(p) PROVE PutInv'
    BY <1>2, DroppedStep DEF Refuse
  <1>3. CASE PutNext
    BY <1>2, <1>3, MountStep, ReadBalancesStep, ReadMandatesStep, PressStep, SendStep, LandStep,
       PutChainStep DEF PutNext
  <1>4. QED BY <1>1, <1>3

LEMMA PutInvariant == PutSpec => []PutInv
  BY PutStarts, PutStep, PTL DEF PutSpec

-----------------------------------------------------------------------------
(* The results. *)

\* The chain, the cards and the presses are well typed, and no card knows more than the index.
THEOREM PutTypeCorrect == PutSpec => []PutTypeOK
  <1>1. PutInv => PutTypeOK
    <2> SUFFICES ASSUME PutInv PROVE PutTypeOK
      OBVIOUS
    <2>1. /\ ask \in Asks /\ idleShips \subseteq DOMAIN presses
          /\ chain.wallet \in Nat /\ chain.account \in Nat /\ chain.ether \in Nat
          /\ indexed \in 0..chain.shipped
      BY DEF PutInv, PutTypes
    <2>2. \A c \in Cards : cards[c].sent \in 0..Len(presses) /\ cards[c].position \in -1..indexed
      <3>1. Len(presses) \in Nat /\ indexed \in Nat BY LenProperties DEF PutInv, PutTypes
      <3>2. \A c \in Cards : cards[c].sent \in Nat /\ cards[c].position \in Int /\ CardInv(cards[c])
        BY DEF PutInv, PutTypes, Card
      <3>3. QED BY <3>1, <3>2 DEF CardInv
    <2>3. \A p \in DOMAIN presses : Adds(presses[p]) \in Nat
      <3>1. \A p \in DOMAIN presses : presses[p] \in Presses BY LenProperties DEF PutInv, PutTypes
      <3>2. \A b \in Presses : Adds(b) \in Nat BY DEF Presses, AnyPress, Adds
      <3>3. QED BY <3>1, <3>2
    <2>4. QED BY <2>1, <2>2, <2>3 DEF PutTypeOK
  <1>2. QED BY PutInvariant, <1>1, PTL

\* A press that knew of a mandate ships only money that no mandate covered.
THEOREM InformedPressesPay == PutSpec => []InformedPressesAddMoney
  <1>1. PutInv => InformedPressesAddMoney BY DEF PutInv
  <1>2. QED BY PutInvariant, <1>1, PTL

HIDE PutBounds

-----------------------------------------------------------------------------
(***************************************************************************)
(* The way out.  While the reading under way is fresh its two sums are     *)
(* those of the account, and a list names whatever the log read before it  *)
(* told of, save what did not answer.                                      *)
(***************************************************************************)

SweepStages == {"ready", "logs", "receipts", "wallet", "mined", "reported"}
Reasons == {"unread", "fallback", "permitted later", "reverted"}

WayTypes ==
    /\ loose \in [Assets -> Nat] /\ placed \in [Receipts -> Nat]
    /\ allowed \in SUBSET everAllowed /\ everAllowed \in SUBSET Markets
    /\ reading \in [on : BOOLEAN, idle : Nat, aave : Nat, failed : BOOLEAN, stale : BOOLEAN]
    /\ shown \in [known : BOOLEAN, total : Nat, failed : BOOLEAN, stale : BOOLEAN]
    /\ sweep \in [stage : SweepStages, asked : SUBSET Receipts, list : SUBSET Receipts,
                  unread : SUBSET Receipts, logged : BOOLEAN, everThen : SUBSET Markets]
    /\ sweep.list \cap sweep.unread = {}
    /\ left \in SUBSET (Receipts \X Reasons)

HeldOf(a) == Worth(ReceiptsOf(Markets, {a}))
Capped == \A a \in Assets : loose[a] + HeldOf(a) =< MaxHeld

ReadingIsFresh ==
    reading.on /\ ~reading.failed /\ ~reading.stale =>
        /\ reading.idle = loose[Dollar]
        /\ reading.aave = Worth(ReceiptsOf({Aave}, {Dollar}))

\* What the log, or the fallback, told of.
ToldOf(r) == IF sweep.logged THEN r[1] \in sweep.everThen ELSE r[1] \in KnownVenues
ListIsWhole == \A r \in Receipts : ToldOf(r) =>
    /\ sweep.stage = "receipts" => r \in sweep.asked
    /\ sweep.stage = "wallet" => r \in sweep.list \cup sweep.unread

WayInv == WayTypes /\ Capped /\ ReadingIsFresh /\ DenialsAreOfOtherAssets /\ ListIsWhole

LEMMA WayConstants ==
  /\ Dollar \in Assets /\ Aave \in Markets /\ KnownVenues \subseteq Markets
  /\ IsFiniteSet(Receipts) /\ MaxHeld \in Nat /\ MaxHeld >= 1
  /\ \A r \in Receipts : r[1] \in Markets /\ r[2] \in Assets /\ r = <<r[1], r[2]>>
  <1>1. Receipts \subseteq Markets \X Assets /\ MaxHeld \in Nat \ {0}
    BY WayOutAssumption DEF WayOutAssumption
  <1>2. \A r \in Receipts : r[1] \in Markets /\ r[2] \in Assets /\ r = <<r[1], r[2]>> BY <1>1
  <1>3. QED BY <1>1, <1>2, WayOutAssumption DEF WayOutAssumption

LEMMA ReceiptsOfIs ==
  \A ms, as : /\ ReceiptsOf(ms, as) \subseteq Receipts /\ IsFiniteSet(ReceiptsOf(ms, as))
              /\ \A r \in Receipts : r \in ReceiptsOf(ms, as) <=> r[1] \in ms /\ r[2] \in as
  <1>1. TAKE ms, as
  <1>2. ReceiptsOf(ms, as) \subseteq Receipts BY DEF ReceiptsOf
  <1>3. IsFiniteSet(ReceiptsOf(ms, as)) BY <1>2, WayConstants, FS_Subset
  <1>4. \A r \in Receipts : r \in ReceiptsOf(ms, as) <=> r[1] \in ms /\ r[2] \in as
    <2>1. TAKE r \in Receipts
    <2>2. r = <<r[1], r[2]>> BY WayConstants
    <2>3. <<r[1], r[2]>> \in ms \X as <=> r[1] \in ms /\ r[2] \in as OBVIOUS
    <2>4. r \in ms \X as <=> r[1] \in ms /\ r[2] \in as BY <2>2, <2>3
    <2>5. QED BY <2>4 DEF ReceiptsOf
  <1>5. QED BY <1>2, <1>3, <1>4

LEMMA SumsOfReceipts ==
  ASSUME NEW f \in [Receipts -> Nat], NEW S \in SUBSET Receipts
  PROVE  IsFiniteSet(S) /\ SumOf(f, S) \in Nat /\ \A r \in S : f[r] =< SumOf(f, S)
  <1>1. IsFiniteSet(S) BY WayConstants, FS_Subset
  <1>2. \A x \in S : f[x] \in Nat /\ f[x] \in Int OBVIOUS
  <1>3. SumOf(f, S) \in Nat BY <1>1, <1>2, SumOfNaturals
  <1>4. ASSUME NEW r \in S PROVE f[r] =< SumOf(f, S)
    <2>1. SumOf(f, S) = f[r] + SumOf(f, S \ {r}) BY <1>1, <1>2, SumTakesOut
    <2>2. IsFiniteSet(S \ {r}) BY <1>1, FS_RemoveElement
    <2>3. SumOf(f, S \ {r}) \in Nat BY <1>2, <2>2, SumOfNaturals
    <2>4. QED BY <1>2, <2>1, <2>3
  <1>5. QED BY <1>1, <1>3, <1>4

\* One receipt changes.
LEMMA HeldMoves ==
  ASSUME NEW f \in [Receipts -> Nat], NEW e \in [Receipts -> Nat], NEW r \in Receipts,
         \A q \in Receipts \ {r} : e[q] = f[q], NEW a \in Assets
  PROVE  SumOf(e, ReceiptsOf(Markets, {a}))
           = SumOf(f, ReceiptsOf(Markets, {a})) + (IF r[2] = a THEN e[r] - f[r] ELSE 0)
  <1> DEFINE S == ReceiptsOf(Markets, {a})
  <1>1. S \subseteq Receipts /\ IsFiniteSet(S) /\ (r \in S <=> r[2] = a) BY ReceiptsOfIs, WayConstants
  <1> HIDE DEF S
  <1>2. \A q \in S : f[q] \in Int /\ e[q] \in Int BY <1>1
  <1>3. SumOf(f, S) \in Nat BY <1>1, SumsOfReceipts
  <1>4. CASE r \in S
    <2>1. \A q \in S \ {r} : e[q] = f[q] BY <1>1
    <2>2. SumOf(e, S) = SumOf(f, S) + (e[r] - f[r]) BY <1>1, <1>2, <1>4, <2>1, SumChanges
    <2>3. QED BY <1>1, <1>4, <2>2 DEF S
  <1>5. CASE r \notin S
    <2>1. \A q \in S : e[q] = f[q] /\ f[q] \in Int BY <1>1, <1>2, <1>5
    <2>2. SumOf(e, S) = SumOf(f, S) BY <1>1, <2>1, SumSame
    <2>3. QED BY <1>1, <1>3, <1>5, <2>2 DEF S
  <1>6. QED BY <1>4, <1>5

LEMMA WorthType ==
  ASSUME placed \in [Receipts -> Nat], NEW S \in SUBSET Receipts
  PROVE  Worth(S) \in Nat
  BY SumsOfReceipts DEF Worth

-----------------------------------------------------------------------------
(* The card's reads. *)

LEMMA ReportedKeeps ==
  ASSUME WayInv, Reported
  PROVE  /\ sweep' \in [stage : SweepStages, asked : SUBSET Receipts, list : SUBSET Receipts,
                        unread : SUBSET Receipts, logged : BOOLEAN, everThen : SUBSET Markets]
         /\ sweep'.list \cap sweep'.unread = {}
         /\ ListIsWhole'
  <1>1. /\ sweep \in [stage : SweepStages, asked : SUBSET Receipts, list : SUBSET Receipts,
                      unread : SUBSET Receipts, logged : BOOLEAN, everThen : SUBSET Markets]
        /\ sweep.list \cap sweep.unread = {}
    BY DEF WayInv, WayTypes
  <1>2. CASE sweep' = sweep BY <1>1, <1>2 DEF WayInv, ListIsWhole, ToldOf
  <1>3. CASE sweep' = [sweep EXCEPT !.stage = "reported"]
    <2>1. /\ sweep'.stage = "reported" /\ sweep'.list = sweep.list /\ sweep'.unread = sweep.unread
          /\ sweep' \in [stage : SweepStages, asked : SUBSET Receipts, list : SUBSET Receipts,
                         unread : SUBSET Receipts, logged : BOOLEAN, everThen : SUBSET Markets]
      BY <1>1, <1>3 DEF SweepStages
    <2>2. QED BY <1>1, <2>1 DEF ListIsWhole
  <1>4. QED BY <1>2, <1>3 DEF Reported

LEMMA ReadHoldingsKeeps == WayInv /\ ReadHoldings => WayInv'
  <1> SUFFICES ASSUME WayInv, NEW idleAnswers \in BOOLEAN, NEW aaveAnswers \in BOOLEAN,
                      reading' = [on |-> TRUE, idle |-> IfAnswered(idleAnswers, loose[Dollar]),
                                  aave |-> IfAnswered(aaveAnswers, Worth(ReceiptsOf({Aave}, {Dollar}))),
                                  failed |-> ~(idleAnswers /\ aaveAnswers), stale |-> FALSE],
                      UNCHANGED <<funds, shown, sweep, left, moves>>
               PROVE  WayInv'
    BY DEF ReadHoldings
  <1>1. UNCHANGED <<loose, placed, allowed, everAllowed, shown, sweep, left>> BY DEF funds
  <1>2. loose[Dollar] \in Nat /\ Worth(ReceiptsOf({Aave}, {Dollar})) \in Nat
    BY WayConstants, ReceiptsOfIs, WorthType DEF WayInv, WayTypes
  <1>3. WayTypes' BY <1>1, <1>2 DEF WayInv, WayTypes, IfAnswered
  <1>4. ReadingIsFresh' BY <1>1, <1>2 DEF ReadingIsFresh, IfAnswered, Worth
  <1>5. Capped' /\ DenialsAreOfOtherAssets' /\ ListIsWhole'
    BY <1>1 DEF WayInv, Capped, DenialsAreOfOtherAssets, Denied, ListIsWhole, ToldOf, Worth, HeldOf
  <1>6. QED BY <1>3, <1>4, <1>5 DEF WayInv

LEMMA ReadPositionsKeeps == WayInv /\ ReadPositions => WayInv'
  <1> SUFFICES ASSUME WayInv, NEW logsAnswer \in BOOLEAN,
                      NEW silent \in SUBSET ReceiptsOf(Markets, {Dollar}),
                      NEW asked, asked = ReceiptsOf(MarketsToRead(logsAnswer), {Dollar}),
                      reading.on,
                      shown' = [known |-> TRUE, total |-> reading.idle + AtWork(Worth(asked \ silent)),
                                failed |-> reading.failed \/ ~logsAnswer \/ silent # {},
                                stale |-> reading.stale],
                      reading' = NotReading, Reported, UNCHANGED <<funds, left, moves>>
               PROVE  WayInv'
    BY DEF ReadPositions
  <1>1. UNCHANGED <<loose, placed, allowed, everAllowed, left>> BY DEF funds
  <1>2. PICK across \in Nat : across = Worth(asked \ silent)
    <2>1. asked \ silent \in SUBSET Receipts BY ReceiptsOfIs
    <2>2. QED BY <2>1, WorthType DEF WayInv, WayTypes
  <1>3. reading.idle \in Nat /\ reading.aave \in Nat /\ reading.stale \in BOOLEAN /\ reading.failed \in BOOLEAN
    BY DEF WayInv, WayTypes
  <1>4. AtWork(across) \in Nat /\ AtWork(across) >= across BY <1>3 DEF AtWork
  <1>5. shown'.known = TRUE /\ shown'.total = reading.idle + AtWork(across)
        /\ shown'.stale = reading.stale
        /\ (~shown'.failed => ~reading.failed /\ logsAnswer /\ silent = {})
    BY <1>2
  <1>6. shown' \in [known : BOOLEAN, total : Nat, failed : BOOLEAN, stale : BOOLEAN]
    BY <1>2, <1>3, <1>4
  <1>7. NotReading \in [on : BOOLEAN, idle : Nat, aave : Nat, failed : BOOLEAN, stale : BOOLEAN]
        /\ ~NotReading.on
    BY DEF NotReading
  <1>8. WayTypes' BY <1>1, <1>6, <1>7, ReportedKeeps DEF WayInv, WayTypes
  <1>9. ReadingIsFresh' BY <1>7 DEF ReadingIsFresh
  <1>10. DenialsAreOfOtherAssets'
    <2>1. SUFFICES ASSUME shown'.total = 0, ~shown'.failed, ~shown'.stale
                   PROVE  loose[Dollar] + Worth(ReceiptsOf(everAllowed, {Dollar})) = 0
      BY <1>1 DEF DenialsAreOfOtherAssets, Denied, Worth
    <2>2. reading.idle = 0 /\ across = 0 BY <1>3, <1>4, <1>5, <2>1
    <2>3. reading.idle = loose[Dollar] BY <1>5, <2>1 DEF WayInv, ReadingIsFresh
    <2>4. silent = {} /\ logsAnswer BY <1>5, <2>1
    <2>5. asked = ReceiptsOf(everAllowed, {Dollar}) BY <2>4 DEF MarketsToRead
    <2>6. asked \ silent = asked BY <2>4
    <2>7. Worth(asked \ silent) = Worth(ReceiptsOf(everAllowed, {Dollar})) BY <2>5, <2>6
    <2>8. Worth(ReceiptsOf(everAllowed, {Dollar})) = 0 /\ loose[Dollar] = 0 BY <1>2, <2>2, <2>3, <2>7
    <2>9. QED BY <2>8
  <1>11. Capped' BY <1>1 DEF WayInv, Capped, Worth, HeldOf
  <1>12. QED BY <1>8, <1>9, <1>10, <1>11, ReportedKeeps DEF WayInv

LEMMA ReadFailsKeeps == WayInv /\ ReadFails => WayInv'
  <1> SUFFICES ASSUME WayInv, reading' = NotReading, Reported, UNCHANGED <<funds, shown, left, moves>>
               PROVE  WayInv'
    BY DEF ReadFails
  <1>1. UNCHANGED <<loose, placed, allowed, everAllowed, shown, left>> BY DEF funds
  <1>2. NotReading \in [on : BOOLEAN, idle : Nat, aave : Nat, failed : BOOLEAN, stale : BOOLEAN]
        /\ ~NotReading.on
    BY DEF NotReading
  <1>3. WayTypes' BY <1>1, <1>2, ReportedKeeps DEF WayInv, WayTypes
  <1>4. ReadingIsFresh' BY <1>2 DEF ReadingIsFresh
  <1>5. Capped' /\ DenialsAreOfOtherAssets'
    BY <1>1 DEF WayInv, Capped, DenialsAreOfOtherAssets, Denied, Worth, HeldOf
  <1>6. QED BY <1>3, <1>4, <1>5, ReportedKeeps DEF WayInv

-----------------------------------------------------------------------------
(* The sweep. *)

LEMMA FreshPress ==
  ASSUME NEW stage \in SweepStages
  PROVE  LET s == [NotPressed EXCEPT !.stage = stage]
         IN /\ s \in [stage : SweepStages, asked : SUBSET Receipts, list : SUBSET Receipts,
                      unread : SUBSET Receipts, logged : BOOLEAN, everThen : SUBSET Markets]
            /\ s.list \cap s.unread = {} /\ s.stage = stage
  BY DEF NotPressed

LEMMA PressSweepKeeps == WayInv /\ PressSweep => WayInv'
  <1> SUFFICES ASSUME WayInv, sweep' = [NotPressed EXCEPT !.stage = "logs"], left' = {},
                      UNCHANGED <<funds, reading, shown, moves>>
               PROVE  WayInv'
    BY DEF PressSweep
  <1>1. UNCHANGED <<loose, placed, allowed, everAllowed, reading, shown>> BY DEF funds
  <1>2. /\ sweep' \in [stage : SweepStages, asked : SUBSET Receipts, list : SUBSET Receipts,
                      unread : SUBSET Receipts, logged : BOOLEAN, everThen : SUBSET Markets]
        /\ sweep'.list \cap sweep'.unread = {} /\ sweep'.stage = "logs"
    BY FreshPress DEF SweepStages
  <1>3. WayTypes' BY <1>1, <1>2 DEF WayInv, WayTypes, SweepStages
  <1>4. ListIsWhole' BY <1>2 DEF ListIsWhole
  <1>5. Capped' /\ DenialsAreOfOtherAssets' /\ ReadingIsFresh'
    BY <1>1 DEF WayInv, Capped, DenialsAreOfOtherAssets, Denied, ReadingIsFresh, Worth, HeldOf
  <1>6. QED BY <1>3, <1>4, <1>5 DEF WayInv

LEMMA UnpressedKeeps ==
  ASSUME WayInv, sweep' = NotPressed, UNCHANGED <<funds, reading, shown, left, moves>>
  PROVE  WayInv'
  <1>1. UNCHANGED <<loose, placed, allowed, everAllowed, reading, shown, left>> BY DEF funds
  <1>2. /\ sweep' = [stage |-> "ready", asked |-> {}, list |-> {}, unread |-> {}, logged |-> TRUE,
                     everThen |-> {}]
    BY DEF NotPressed
  <1>3. WayTypes' BY <1>1, <1>2 DEF WayInv, WayTypes, SweepStages
  <1>4. ListIsWhole' BY <1>2 DEF ListIsWhole
  <1>5. Capped' /\ DenialsAreOfOtherAssets' /\ ReadingIsFresh'
    BY <1>1 DEF WayInv, Capped, DenialsAreOfOtherAssets, Denied, ReadingIsFresh, Worth, HeldOf
  <1>6. QED BY <1>3, <1>4, <1>5 DEF WayInv

LEMMA ReadLogsKeeps == WayInv /\ ReadLogs => WayInv'
  <1> SUFFICES ASSUME WayInv, NEW logsAnswer \in BOOLEAN,
                      sweep' = [sweep EXCEPT !.stage = "receipts", !.logged = logsAnswer,
                                             !.everThen = everAllowed,
                                             !.asked = ReceiptsOf(MarketsToRead(logsAnswer), Assets)],
                      UNCHANGED <<funds, reading, shown, left, moves>>
               PROVE  WayInv'
    BY DEF ReadLogs
  <1>1. UNCHANGED <<loose, placed, allowed, everAllowed, reading, shown, left>> BY DEF funds
  <1>2. PICK asked \in SUBSET Receipts :
          /\ asked = ReceiptsOf(MarketsToRead(logsAnswer), Assets)
          /\ \A r \in Receipts : r \in asked <=> r[1] \in MarketsToRead(logsAnswer) /\ r[2] \in Assets
    BY ReceiptsOfIs
  <1>3. /\ sweep' = [sweep EXCEPT !.stage = "receipts", !.logged = logsAnswer,
                                  !.everThen = everAllowed, !.asked = asked]
        /\ everAllowed \in SUBSET Markets
        /\ sweep \in [stage : SweepStages, asked : SUBSET Receipts, list : SUBSET Receipts,
                      unread : SUBSET Receipts, logged : BOOLEAN, everThen : SUBSET Markets]
        /\ sweep.list \cap sweep.unread = {}
    BY <1>2 DEF WayInv, WayTypes
  <1>4. /\ sweep'.stage = "receipts" /\ sweep'.logged = logsAnswer /\ sweep'.everThen = everAllowed
        /\ sweep'.asked = asked /\ sweep'.list = sweep.list /\ sweep'.unread = sweep.unread
        /\ sweep' \in [stage : SweepStages, asked : SUBSET Receipts, list : SUBSET Receipts,
                       unread : SUBSET Receipts, logged : BOOLEAN, everThen : SUBSET Markets]
    BY <1>3 DEF SweepStages
  <1>5. WayTypes' BY <1>1, <1>3, <1>4 DEF WayInv, WayTypes
  <1>6. ListIsWhole'
    BY <1>2, <1>4, WayConstants DEF ListIsWhole, ToldOf, MarketsToRead
  <1>7. Capped' /\ DenialsAreOfOtherAssets' /\ ReadingIsFresh'
    BY <1>1 DEF WayInv, Capped, DenialsAreOfOtherAssets, Denied, ReadingIsFresh, Worth, HeldOf
  <1>8. QED BY <1>5, <1>6, <1>7 DEF WayInv

LEMMA ReadReceiptsKeeps == WayInv /\ ReadReceipts => WayInv'
  <1> SUFFICES ASSUME WayInv, NEW silent \in SUBSET sweep.asked, sweep.stage = "receipts",
                      sweep' = [sweep EXCEPT !.stage = "wallet", !.asked = {}, !.unread = silent,
                                             !.list = SweepList(sweep.asked \ silent)],
                      UNCHANGED <<funds, reading, shown, left, moves>>
               PROVE  WayInv'
    BY DEF ReadReceipts
  <1>1. UNCHANGED <<loose, placed, allowed, everAllowed, reading, shown, left>> BY DEF funds
  <1>2. /\ sweep \in [stage : SweepStages, asked : SUBSET Receipts, list : SUBSET Receipts,
                      unread : SUBSET Receipts, logged : BOOLEAN, everThen : SUBSET Markets]
        /\ sweep.asked \in SUBSET Receipts
    BY DEF WayInv, WayTypes
  <1>3. /\ sweep'.stage = "wallet" /\ sweep'.logged = sweep.logged
        /\ sweep'.everThen = sweep.everThen
        /\ sweep'.list = sweep.asked \ silent /\ sweep'.unread = silent
        /\ sweep' \in [stage : SweepStages, asked : SUBSET Receipts, list : SUBSET Receipts,
                       unread : SUBSET Receipts, logged : BOOLEAN, everThen : SUBSET Markets]
    BY <1>2 DEF SweepStages, SweepList
  <1>4. WayTypes' BY <1>1, <1>3 DEF WayInv, WayTypes
  <1>5. ListIsWhole' BY <1>3 DEF WayInv, ListIsWhole, ToldOf
  <1>6. Capped' /\ DenialsAreOfOtherAssets' /\ ReadingIsFresh'
    BY <1>1 DEF WayInv, Capped, DenialsAreOfOtherAssets, Denied, ReadingIsFresh, Worth, HeldOf
  <1>7. QED BY <1>4, <1>5, <1>6 DEF WayInv

\* After a disturbance, whatever it moved, what was read is stale.
LEMMA DisturbKeeps ==
  ASSUME WayInv, Disturb
  PROVE  /\ reading' \in [on : BOOLEAN, idle : Nat, aave : Nat, failed : BOOLEAN, stale : BOOLEAN]
         /\ shown' \in [known : BOOLEAN, total : Nat, failed : BOOLEAN, stale : BOOLEAN]
         /\ ReadingIsFresh' /\ DenialsAreOfOtherAssets'
  <1>1. /\ reading \in [on : BOOLEAN, idle : Nat, aave : Nat, failed : BOOLEAN, stale : BOOLEAN]
        /\ shown \in [known : BOOLEAN, total : Nat, failed : BOOLEAN, stale : BOOLEAN]
    BY DEF WayInv, WayTypes
  <1>2. /\ reading' \in [on : BOOLEAN, idle : Nat, aave : Nat, failed : BOOLEAN, stale : BOOLEAN]
        /\ shown' \in [known : BOOLEAN, total : Nat, failed : BOOLEAN, stale : BOOLEAN]
        /\ (reading'.on => reading'.stale) /\ (shown'.known => shown'.stale)
    BY <1>1 DEF Disturb
  <1>3. QED BY <1>2 DEF ReadingIsFresh, DenialsAreOfOtherAssets, Denied

\* What is left has a reason other than having been forgotten.
LEMMA ReasonsToLeave ==
  ASSUME WayInv, sweep.stage = "wallet", NEW r \in Receipts, r \notin sweep.list
  PROVE  WhyLeft(r) \in Reasons
  <1>1. sweep.logged \in BOOLEAN BY DEF WayInv, WayTypes
  <1>2. r \in sweep.unread \/ ~ToldOf(r) BY DEF WayInv, ListIsWhole
  <1>3. QED BY <1>1, <1>2 DEF WhyLeft, ToldOf, Reasons

LEMMA EscapeKeeps == WayInv /\ Escape => WayInv'
  <1> SUFFICES ASSUME WayInv, sweep.stage = "wallet",
                      loose' = [a \in Assets |-> 0],
                      placed' = [r \in Receipts |-> IF r \in sweep.list THEN 0 ELSE placed[r]],
                      left' = {<<r, WhyLeft(r)>> : r \in {q \in Receipts : placed'[q] > 0}},
                      sweep' = [NotPressed EXCEPT !.stage = "mined"],
                      Disturb, UNCHANGED <<allowed, everAllowed, moves>>
               PROVE  WayInv'
    BY DEF Escape
  <1>1. /\ sweep' \in [stage : SweepStages, asked : SUBSET Receipts, list : SUBSET Receipts,
                      unread : SUBSET Receipts, logged : BOOLEAN, everThen : SUBSET Markets]
        /\ sweep'.list \cap sweep'.unread = {} /\ sweep'.stage = "mined"
    BY FreshPress DEF SweepStages
  <1>2. placed \in [Receipts -> Nat] /\ loose \in [Assets -> Nat] BY DEF WayInv, WayTypes
  <1>3. placed' \in [Receipts -> Nat] /\ loose' \in [Assets -> Nat] BY <1>2
  <1>4. left' \in SUBSET (Receipts \X Reasons)
    <2>1. \A r \in Receipts : placed'[r] > 0 => r \notin sweep.list OBVIOUS
    <2>2. \A r \in {q \in Receipts : placed'[q] > 0} : WhyLeft(r) \in Reasons BY <2>1, ReasonsToLeave
    <2>3. QED BY <2>2
  <1>5. WayTypes' BY <1>1, <1>3, <1>4, DisturbKeeps DEF WayInv, WayTypes
  <1>6. ListIsWhole' BY <1>1 DEF ListIsWhole
  <1>7. Capped'
    <2>1. SUFFICES ASSUME NEW a \in Assets
                   PROVE  loose'[a] + SumOf(placed', ReceiptsOf(Markets, {a})) =< MaxHeld
      BY DEF Capped, HeldOf, Worth
    <2>2. PICK S \in SUBSET Receipts : S = ReceiptsOf(Markets, {a}) /\ IsFiniteSet(S) BY ReceiptsOfIs
    <2>3. \A r \in S : placed[r] \in Int /\ placed'[r] \in Int /\ placed'[r] <= placed[r] BY <1>2, <2>2
    <2>4. SumOf(placed', S) <= SumOf(placed, S) BY <2>2, <2>3, SumRises
    <2>5. SumOf(placed, S) \in Nat /\ SumOf(placed', S) \in Nat BY <1>2, <1>3, <2>2, SumsOfReceipts
    <2>6. loose[a] + SumOf(placed, S) =< MaxHeld BY <2>2 DEF WayInv, Capped, HeldOf, Worth
    <2>7. loose'[a] = 0 /\ loose[a] \in Nat BY <1>2
    <2>8. QED BY <2>2, <2>4, <2>5, <2>6, <2>7, WayConstants
  <1>8. QED BY <1>5, <1>6, <1>7, DisturbKeeps DEF WayInv

LEMMA EscapeRevertsKeeps == WayInv /\ EscapeReverts => WayInv'
  <1> SUFFICES ASSUME WayInv,
                      left' = {<<r, "reverted">> : r \in {q \in Receipts : placed[q] > 0}},
                      sweep' = [NotPressed EXCEPT !.stage = "mined"],
                      UNCHANGED <<funds, reading, shown, moves>>
               PROVE  WayInv'
    BY DEF EscapeReverts
  <1>1. UNCHANGED <<loose, placed, allowed, everAllowed, reading, shown>> BY DEF funds
  <1>2. /\ sweep' \in [stage : SweepStages, asked : SUBSET Receipts, list : SUBSET Receipts,
                      unread : SUBSET Receipts, logged : BOOLEAN, everThen : SUBSET Markets]
        /\ sweep'.list \cap sweep'.unread = {} /\ sweep'.stage = "mined"
    BY FreshPress DEF SweepStages
  <1>3. left' \in SUBSET (Receipts \X Reasons)
    <2>1. "reverted" \in Reasons BY DEF Reasons
    <2>2. QED BY <2>1
  <1>4. WayTypes' BY <1>1, <1>2, <1>3 DEF WayInv, WayTypes, SweepStages
  <1>5. ListIsWhole' BY <1>2 DEF ListIsWhole
  <1>6. Capped' /\ DenialsAreOfOtherAssets' /\ ReadingIsFresh'
    BY <1>1 DEF WayInv, Capped, DenialsAreOfOtherAssets, Denied, ReadingIsFresh, Worth, HeldOf
  <1>7. QED BY <1>4, <1>5, <1>6 DEF WayInv

-----------------------------------------------------------------------------
(* What others do. *)

\* Whoever else moves leaves the sweep alone.
LEMMA OthersKeep ==
  ASSUME WayInv, OthersMove, loose' \in [Assets -> Nat], placed' \in [Receipts -> Nat],
         allowed' \in SUBSET everAllowed', everAllowed' \in SUBSET Markets, Capped'
  PROVE  WayInv'
  <1>1. Disturb /\ UNCHANGED <<sweep, left>> BY DEF OthersMove
  <1>2. WayTypes' BY <1>1, DisturbKeeps DEF WayInv, WayTypes
  <1>3. ListIsWhole' BY <1>1 DEF WayInv, ListIsWhole, ToldOf
  <1>4. QED BY <1>1, <1>2, <1>3, DisturbKeeps DEF WayInv

LEMMA PermitKeeps ==
  ASSUME WayInv, NEW m \in Markets, NEW yes \in BOOLEAN, Permit(m, yes)
  PROVE  WayInv'
  <1>1. /\ OthersMove /\ UNCHANGED <<loose, placed>>
        /\ allowed' = IF yes THEN allowed \cup {m} ELSE allowed \ {m}
        /\ everAllowed' = everAllowed \cup allowed'
    BY DEF Permit
  <1>2. /\ loose \in [Assets -> Nat] /\ placed \in [Receipts -> Nat]
        /\ allowed \in SUBSET everAllowed /\ everAllowed \in SUBSET Markets
    BY DEF WayInv, WayTypes
  <1>3. allowed' \in SUBSET Markets BY <1>1, <1>2
  <1>4. Capped' BY <1>1 DEF WayInv, Capped, Worth, HeldOf
  <1>5. QED BY <1>1, <1>2, <1>3, <1>4, OthersKeep

\* What one receipt gains its asset loses, and the other way round.
LEMMA MovedIsCapped ==
  ASSUME WayInv, NEW r \in Receipts, loose' \in [Assets -> Nat], placed' \in [Receipts -> Nat],
         \A q \in Receipts \ {r} : placed'[q] = placed[q],
         \A a \in Assets \ {r[2]} : loose'[a] = loose[a],
         loose'[r[2]] + placed'[r] = loose[r[2]] + placed[r]
  PROVE  Capped'
  <1>1. SUFFICES ASSUME NEW a \in Assets
                 PROVE  loose'[a] + SumOf(placed', ReceiptsOf(Markets, {a})) =< MaxHeld
    BY DEF Capped, HeldOf, Worth
  <1>2. placed \in [Receipts -> Nat] /\ loose \in [Assets -> Nat] BY DEF WayInv, WayTypes
  <1>3. PICK S \in SUBSET Receipts : S = ReceiptsOf(Markets, {a}) BY ReceiptsOfIs
  <1>4. SumOf(placed', S) = SumOf(placed, S) + (IF r[2] = a THEN placed'[r] - placed[r] ELSE 0)
    BY <1>2, <1>3, HeldMoves
  <1>5. SumOf(placed, S) \in Nat BY <1>2, SumsOfReceipts
  <1>6. loose[a] + SumOf(placed, S) =< MaxHeld BY <1>3 DEF WayInv, Capped, HeldOf, Worth
  <1>7. /\ loose[a] \in Nat /\ loose'[a] \in Nat /\ placed[r] \in Nat /\ placed'[r] \in Nat
        /\ MaxHeld \in Nat
    BY <1>2, WayConstants
  <1>8. loose'[a] + SumOf(placed', S) =< MaxHeld
    <2>1. CASE r[2] = a
      <3>1. SumOf(placed', S) = SumOf(placed, S) + (placed'[r] - placed[r]) BY <1>4, <2>1
      <3>2. loose'[a] + placed'[r] = loose[a] + placed[r] BY <2>1
      <3>3. QED BY <1>5, <1>6, <1>7, <3>1, <3>2
    <2>2. CASE r[2] # a
      <3>1. SumOf(placed', S) = SumOf(placed, S) BY <1>4, <1>5, <2>2
      <3>2. loose'[a] = loose[a] BY <2>2
      <3>3. QED BY <1>6, <3>1, <3>2
    <2>3. QED BY <2>1, <2>2
  <1>9. QED BY <1>3, <1>8

LEMMA SupplyIdleKeeps ==
  ASSUME WayInv, NEW r \in Receipts, SupplyIdle(r)
  PROVE  WayInv'
  <1>1. /\ OthersMove /\ UNCHANGED <<allowed, everAllowed>>
        /\ loose' = [loose EXCEPT ![r[2]] = 0]
        /\ placed' = [placed EXCEPT ![r] = @ + loose[r[2]]]
    BY DEF SupplyIdle
  <1>2. /\ loose \in [Assets -> Nat] /\ placed \in [Receipts -> Nat]
        /\ allowed \in SUBSET everAllowed /\ everAllowed \in SUBSET Markets /\ r[2] \in Assets
    BY WayConstants DEF WayInv, WayTypes
  <1>3. loose' \in [Assets -> Nat] /\ placed' \in [Receipts -> Nat] BY <1>1, <1>2
  <1>4. /\ \A q \in Receipts \ {r} : placed'[q] = placed[q]
        /\ \A a \in Assets \ {r[2]} : loose'[a] = loose[a]
        /\ loose'[r[2]] + placed'[r] = loose[r[2]] + placed[r]
    BY <1>1, <1>2
  <1>5. Capped' BY <1>3, <1>4, MovedIsCapped
  <1>6. QED BY <1>1, <1>2, <1>3, <1>5, OthersKeep

LEMMA WithdrawIdleKeeps ==
  ASSUME WayInv, NEW r \in Receipts, WithdrawIdle(r)
  PROVE  WayInv'
  <1>1. /\ OthersMove /\ UNCHANGED <<allowed, everAllowed>>
        /\ loose' = [loose EXCEPT ![r[2]] = @ + placed[r]]
        /\ placed' = [placed EXCEPT ![r] = 0]
    BY DEF WithdrawIdle
  <1>2. /\ loose \in [Assets -> Nat] /\ placed \in [Receipts -> Nat]
        /\ allowed \in SUBSET everAllowed /\ everAllowed \in SUBSET Markets /\ r[2] \in Assets
    BY WayConstants DEF WayInv, WayTypes
  <1>3. loose' \in [Assets -> Nat] /\ placed' \in [Receipts -> Nat] BY <1>1, <1>2
  <1>4. /\ \A q \in Receipts \ {r} : placed'[q] = placed[q]
        /\ \A a \in Assets \ {r[2]} : loose'[a] = loose[a]
        /\ loose'[r[2]] + placed'[r] = loose[r[2]] + placed[r]
    BY <1>1, <1>2
  <1>5. Capped' BY <1>3, <1>4, MovedIsCapped
  <1>6. QED BY <1>1, <1>2, <1>3, <1>5, OthersKeep

LEMMA PutInKeeps ==
  ASSUME WayInv, NEW a \in Assets, PutIn(a)
  PROVE  WayInv'
  <1>1. /\ OthersMove /\ UNCHANGED <<placed, allowed, everAllowed>>
        /\ loose' = [loose EXCEPT ![a] = @ + 1]
        /\ loose[a] + HeldOf(a) < MaxHeld
    BY DEF PutIn, HeldOf
  <1>2. /\ loose \in [Assets -> Nat] /\ placed \in [Receipts -> Nat]
        /\ allowed \in SUBSET everAllowed /\ everAllowed \in SUBSET Markets
    BY DEF WayInv, WayTypes
  <1>3. loose' \in [Assets -> Nat] BY <1>1, <1>2
  <1>4. Capped'
    <2>1. SUFFICES ASSUME NEW b \in Assets PROVE loose'[b] + HeldOf(b) =< MaxHeld
      BY <1>1 DEF Capped, HeldOf, Worth
    <2>2. HeldOf(b) \in Nat BY <1>2, ReceiptsOfIs, WorthType DEF HeldOf
    <2>3. loose[b] + HeldOf(b) =< MaxHeld /\ loose[b] \in Nat BY <1>2 DEF WayInv, Capped
    <2>4. CASE b = a
      <3>1. loose'[b] = loose[b] + 1 BY <1>1, <1>2, <2>4
      <3>2. loose[b] + HeldOf(b) < MaxHeld BY <1>1, <2>4
      <3>3. QED BY <2>2, <2>3, <3>1, <3>2, WayConstants
    <2>5. CASE b # a
      <3>1. loose'[b] = loose[b] BY <1>1, <1>2, <2>5
      <3>2. QED BY <2>3, <3>1
    <2>6. QED BY <2>4, <2>5
  <1>5. QED BY <1>1, <1>2, <1>3, <1>4, OthersKeep

LEMMA WayStarts == WayInit => WayInv
  <1> SUFFICES ASSUME WayInit PROVE WayInv
    OBVIOUS
  <1>1. PICK somewhere \in SUBSET Assets : loose = [a \in Assets |-> IF a \in somewhere THEN 1 ELSE 0]
    BY DEF WayInit
  <1>2. /\ placed = [r \in Receipts |-> 0] /\ allowed \in {{Aave}, Markets} /\ everAllowed = allowed
        /\ reading = NotReading /\ shown = Unshown /\ sweep = NotPressed /\ left = {}
    BY DEF WayInit
  <1>3. /\ reading \in [on : BOOLEAN, idle : Nat, aave : Nat, failed : BOOLEAN, stale : BOOLEAN]
        /\ shown \in [known : BOOLEAN, total : Nat, failed : BOOLEAN, stale : BOOLEAN]
        /\ ~reading.on /\ ~shown.known
    BY <1>2 DEF NotReading, Unshown
  <1>4. /\ sweep \in [stage : SweepStages, asked : SUBSET Receipts, list : SUBSET Receipts,
                      unread : SUBSET Receipts, logged : BOOLEAN, everThen : SUBSET Markets]
        /\ sweep.list \cap sweep.unread = {} /\ sweep.stage = "ready"
    BY <1>2 DEF NotPressed, SweepStages
  <1>5. WayTypes BY <1>1, <1>2, <1>3, <1>4, WayConstants DEF WayTypes
  <1>6. ReadingIsFresh /\ DenialsAreOfOtherAssets /\ ListIsWhole
    BY <1>3, <1>4 DEF ReadingIsFresh, DenialsAreOfOtherAssets, Denied, ListIsWhole
  <1>7. Capped
    <2>1. SUFFICES ASSUME NEW a \in Assets
                   PROVE  loose[a] + SumOf(placed, ReceiptsOf(Markets, {a})) =< MaxHeld
      BY DEF Capped, HeldOf, Worth
    <2>2. PICK S \in SUBSET Receipts : S = ReceiptsOf(Markets, {a}) /\ IsFiniteSet(S) BY ReceiptsOfIs
    <2>3. \A r \in S : placed[r] = 0 BY <1>2
    <2>4. SumOf(placed, S) = 0 BY <2>2, <2>3, SumOfZeros
    <2>5. loose[a] \in {0, 1} BY <1>1
    <2>6. QED BY <2>2, <2>4, <2>5, WayConstants
  <1>8. QED BY <1>5, <1>6, <1>7 DEF WayInv

LEMMA WayKeeps == WayInv /\ [WayNext]_wayVars => WayInv'
  <1> SUFFICES ASSUME WayInv, [WayNext]_wayVars PROVE WayInv'
    OBVIOUS
  <1>1. CASE ReadHoldings \/ ReadPositions \/ ReadFails
    BY <1>1, ReadHoldingsKeeps, ReadPositionsKeeps, ReadFailsKeeps
  <1>2. CASE PressSweep \/ ReadLogs \/ ReadReceipts \/ Escape \/ EscapeReverts
    BY <1>2, PressSweepKeeps, ReadLogsKeeps, ReadReceiptsKeeps, EscapeKeeps, EscapeRevertsKeeps
  <1>3. CASE Decline \/ DrawAnew BY <1>3, UnpressedKeeps DEF Decline, DrawAnew
  <1>4. CASE \E r \in Receipts : SupplyIdle(r) \/ WithdrawIdle(r)
    BY <1>4, SupplyIdleKeeps, WithdrawIdleKeeps
  <1>5. CASE \E m \in Markets, yes \in BOOLEAN : Permit(m, yes) BY <1>5, PermitKeeps
  <1>6. CASE \E a \in Assets : PutIn(a) BY <1>6, PutInKeeps
  <1>7. CASE UNCHANGED wayVars
    <2>1. UNCHANGED <<loose, placed, allowed, everAllowed, reading, shown, sweep, left>>
      BY <1>7 DEF wayVars, funds
    <2>2. WayTypes' BY <2>1 DEF WayInv, WayTypes
    <2>3. ListIsWhole' /\ ReadingIsFresh' /\ DenialsAreOfOtherAssets' /\ Capped'
      BY <2>1 DEF WayInv, ListIsWhole, ToldOf, ReadingIsFresh, DenialsAreOfOtherAssets, Denied,
                  Capped, HeldOf, Worth
    <2>4. QED BY <2>2, <2>3 DEF WayInv
  <1>8. QED BY <1>1, <1>2, <1>3, <1>4, <1>5, <1>6, <1>7 DEF WayNext

\* The withdraw card keeps its types, and nothing is ever above the bound on an asset: what the
\* agent and the owner move leaves the sum of what is loose and what is placed alone.
THEOREM WayTypeCorrect == WaySpec => []WayTypeOK
  <1>1. ASSUME WayInv PROVE WayTypeOK
    <2>1. loose \in [Assets -> Nat] /\ placed \in [Receipts -> Nat] BY <1>1 DEF WayInv, WayTypes
    <2>2. ASSUME NEW a \in Assets PROVE loose[a] \in 0..MaxHeld
      <3>1. HeldOf(a) \in Nat BY <2>1, ReceiptsOfIs, WorthType DEF HeldOf
      <3>2. loose[a] + HeldOf(a) =< MaxHeld /\ loose[a] \in Nat BY <1>1, <2>1 DEF WayInv, Capped
      <3>3. QED BY <3>1, <3>2, WayConstants
    <2>3. ASSUME NEW r \in Receipts PROVE placed[r] \in 0..MaxHeld
      <3>1. r[1] \in Markets /\ r[2] \in Assets BY WayConstants
      <3>2. PICK S \in SUBSET Receipts : S = ReceiptsOf(Markets, {r[2]}) /\ r \in S
        BY <3>1, ReceiptsOfIs
      <3>3. SumOf(placed, S) \in Nat /\ placed[r] =< SumOf(placed, S) BY <2>1, <3>2, SumsOfReceipts
      <3>4. loose[r[2]] + SumOf(placed, S) =< MaxHeld
        BY <1>1, <3>1, <3>2 DEF WayInv, Capped, HeldOf, Worth
      <3>5. loose[r[2]] \in Nat /\ placed[r] \in Nat BY <2>1, <3>1
      <3>6. QED BY <3>3, <3>4, <3>5, WayConstants
    <2>4. loose \in [Assets -> 0..MaxHeld] /\ placed \in [Receipts -> 0..MaxHeld]
      BY <2>1, <2>2, <2>3
    <2>5. /\ allowed \subseteq everAllowed /\ everAllowed \subseteq Markets /\ shown.total \in Nat
          /\ sweep.list \subseteq Receipts \ sweep.unread /\ sweep.stage \in SweepStages
      BY <1>1 DEF WayInv, WayTypes
    <2>6. left \subseteq Receipts \X {"unread", "fallback", "permitted later", "forgotten", "reverted"}
      BY <1>1 DEF WayInv, WayTypes, Reasons
    <2>7. QED BY <2>4, <2>5, <2>6 DEF WayTypeOK, SweepStages
  <1>2. QED BY <1>1, WayStarts, WayKeeps, PTL DEF WaySpec

\* Whatever fails to be read and whoever moves what, in any order: what a sweep leaves at a market
\* it could not know of, and a card that says there is nothing left to send is right.
THEOREM NothingIsForgotten == WaySpec => []WayOutIsComplete
  <1>1. ASSUME WayInv PROVE WayOutIsComplete
    <2>1. left \in SUBSET (Receipts \X Reasons) BY <1>1 DEF WayInv, WayTypes
    <2>2. \A l \in left : l[2] \in Reasons BY <2>1
    <2>3. "forgotten" \notin Reasons BY DEF Reasons
    <2>4. QED BY <1>1, <2>2, <2>3 DEF WayInv, WayOutIsComplete, SweepsForgetNothing
  <1>2. QED BY <1>1, WayStarts, WayKeeps, PTL DEF WaySpec

-----------------------------------------------------------------------------
(***************************************************************************)
(* Provide.  What a mandate's ledger says of a side is covered by the      *)
(* allowance until that side is touched: an approval sets both to one      *)
(* number, and its own fills take as much off one as off the other.  And   *)
(* what was read, if nothing was paid out since, is still there: on its    *)
(* own side until the agent moves, on either side of the agent's moves.    *)
(***************************************************************************)

LEMMA ProvideBounds ==
    /\ Origins \subseteq {"account", "wallet"}
    /\ Ceilings \subseteq Nat \ {0} /\ Payments \subseteq Nat \ {0} /\ Capital \in Nat
    /\ MaxShips \in Nat /\ MaxTakes \in Nat /\ MaxAgentMoves \in Nat
  BY ProvideAssumption DEF ProvideAssumption

SideAmounts == [Sides -> Nat]
Stocks == [Kinds -> SideAmounts]
Mandated == [ledger : Stocks, most : SideAmounts, named : BOOLEAN, live : BOOLEAN, touched : SUBSET Sides]
ShipPresses == [stage : {"none", "pressed"}, amounts : SideAmounts, named : BOOLEAN, approved : SUBSET Sides,
            touched : SUBSET Sides, idleAt : Int, marketAt : Int, takesAt : Nat]
Readings == [idle : SideAmounts, working : Nat, named : BOOLEAN, idleAt : Int, marketAt : Int,
             takesAt : Nat, marketTakesAt : Nat]

\* An untouched side's ledger is covered by the allowance.
Backed(o, g) ==
    /\ \A s \in Sides \ o.touched : \A k \in Kinds : o.ledger[k][s] =< g[k][s]
    /\ o.named = FALSE => \A s \in Sides : o.ledger["receipt"][s] = 0
\* An approved side's allowance is what is about to be shipped.
Granting(p, g, from) ==
    /\ \A s \in p.approved \ p.touched : \A k \in Approvable(p.named) : g[k][s] = p.amounts[s]
    /\ from = "account" => p.approved = {}
    /\ from = "wallet" => p.named = FALSE
\* What was read is still there.
SeenHolds(r, c, t, m, from) ==
    /\ r.idleAt =< m /\ r.marketAt =< m /\ r.takesAt =< t /\ r.marketTakesAt =< t
    /\ r.idleAt # Unseen /\ r.takesAt = t => \A s \in Sides :
          /\ r.idle[s] =< c["token"][s] + c["receipt"][s]
          /\ r.idleAt = m => r.idle[s] =< c["token"][s]
    /\ r.marketTakesAt = t /\ r.marketAt = m => r.working =< c["receipt"]["usdc"]
    /\ r.idleAt # Unseen /\ r.idleAt = r.marketAt /\ r.takesAt = t /\ r.marketTakesAt = t =>
          r.idle["usdc"] + r.working =< c["token"]["usdc"] + c["receipt"]["usdc"]
    /\ r.named = FALSE => r.working = 0
    /\ from = "wallet" => r.named = FALSE /\ m = 0
\* And so is what is about to be shipped.
PressHolds(p, c, t, m, from) ==
    /\ p.idleAt =< m /\ p.takesAt =< t
    /\ p.takesAt = t /\ (from = "account" => p.idleAt = p.marketAt)
       /\ (p.named = TRUE \/ p.idleAt = m) =>
          \A s \in Sides : p.amounts[s] =< c["token"][s] + (IF p.named THEN c["receipt"][s] ELSE 0)

ProvideInv ==
    /\ origin \in {"account", "wallet"}
    /\ capital \in Stocks /\ granted \in Stocks
    /\ offers \in Seq(Mandated) /\ \A i \in 1..Len(offers) : Backed(offers[i], granted)
    /\ ship \in ShipPresses /\ Granting(ship, granted, origin)
    /\ seen \in Readings /\ ships \in 0..MaxShips /\ takes \in Nat /\ agentMoves \in Nat
    /\ SeenHolds(seen, capital, takes, agentMoves, origin)
    /\ PressHolds(ship, capital, takes, agentMoves, origin)
    /\ ShipsWithinReach

LEMMA SidesAre ==
    /\ \A s \in Sides : s \in {"usdc", "weth"} /\ Across(s) \in Sides /\ Across(s) # s
    /\ \A s, t \in Sides : t = s \/ t = Across(s)
    /\ "usdc" \in Sides /\ "weth" \in Sides /\ "token" \in Kinds /\ "receipt" \in Kinds
    /\ \A k \in Kinds : k = "token" \/ k = "receipt"
  BY DEF Sides, Kinds, Across

LEMMA StocksAre ==
  ASSUME NEW c \in Stocks
  PROVE  /\ \A k \in Kinds, s \in Sides : c[k][s] \in Nat
         /\ \A s \in Sides : c["token"][s] \in Nat /\ c["receipt"][s] \in Nat
  BY DEF Stocks, SideAmounts, Kinds

\* The curve pays less than there is.
LEMMA CurveIsLess ==
  ASSUME NEW a \in Nat, NEW b \in Nat, NEW p \in Nat \ {0}
  PROVE  (p * a) \div (b + p) \in Nat /\ (p * a) \div (b + p) =< a
  <1> DEFINE d == b + p  n == p * a  q == n \div d
  <1>1. d \in Nat \ {0} /\ n \in Nat OBVIOUS
  <1>2. n = p * a /\ d = b + p OBVIOUS
  <1> HIDE DEF d, n
  <1>3. q \in Nat /\ d * q =< n BY <1>1
  <1> HIDE DEF q
  <1>4. q =< a
    <2> SUFFICES ASSUME q > a PROVE FALSE
      BY <1>3
    <2>1. PICK e \in Nat : q = a + 1 + e
      <3>1. q - (a + 1) \in Nat /\ q = a + 1 + (q - (a + 1)) BY <1>3
      <3>2. QED BY <3>1
    <2>2. d * q = d * a + d + d * e BY <1>1, <2>1
    <2>3. d * a = b * a + p * a BY <1>2
    <2>4. b * a \in Nat /\ d * e \in Nat /\ p * a \in Nat BY <1>1
    <2>5. QED BY <1>1, <1>2, <1>3, <2>2, <2>3, <2>4
  <1>5. QED BY <1>3, <1>4 DEF q, n, d

-----------------------------------------------------------------------------
(* Quotes are pullable while the invariant holds. *)

\* What a mandate that is live quotes: no more than its ledger says.
LEMMA QuotedIsLedgered ==
  ASSUME NEW o \in Mandated, capital \in Stocks, NEW s \in Sides, NEW paid \in Payments, Quotes(o, s, paid)
  PROVE  /\ Curve(o, s, paid) \in Nat /\ Curve(o, s, paid) =< o.ledger["token"][s]
         /\ Deficit(s, Curve(o, s, paid)) \in Nat
         /\ o.named => Deficit(s, Curve(o, s, paid)) =< o.ledger["receipt"][s]
  <1> DEFINE a == o.ledger["token"][s]  b == o.ledger["token"][Across(s)]
             out == Curve(o, s, paid)  missing == Deficit(s, out)
  <1>1. o.ledger \in Stocks BY DEF Mandated
  <1>2. a \in Nat /\ b \in Nat BY <1>1, StocksAre, SidesAre
  <1>3. paid \in Nat \ {0} BY ProvideBounds
  <1>4. out = (paid * a) \div (b + paid) BY DEF Curve
  <1> HIDE DEF a, b, out
  <1>5. out \in Nat /\ out =< a BY <1>2, <1>3, <1>4, CurveIsLess
  <1>6. capital["token"][s] \in Nat BY StocksAre
  <1>7. missing \in Nat BY <1>5, <1>6 DEF Deficit
  <1>8. o.named => missing =< o.ledger["receipt"][s]
    <2>1. SUFFICES ASSUME o.named PROVE missing =< o.ledger["receipt"][s]
      OBVIOUS
    <2>2. Coverable(o, s, missing) BY <2>1 DEF Quotes, out
    <2>3. o.ledger["receipt"][s] >= missing BY <2>2 DEF Coverable
    <2>4. o.ledger["receipt"][s] \in Nat BY <1>1, StocksAre
    <2>5. QED BY <1>7, <2>3, <2>4
  <1>9. QED BY <1>5, <1>7, <1>8 DEF out, a

LEMMA PullableThen == ProvideInv => QuotedIsPullable
  <1> SUFFICES ASSUME ProvideInv PROVE QuotedIsPullable
    OBVIOUS
  <1>1. SUFFICES ASSUME NEW i \in DOMAIN offers, NEW s \in Sides \ offers[i].touched,
                        NEW paid \in Payments, Quotes(offers[i], s, paid)
                 PROVE  Pullable(offers[i], s, Curve(offers[i], s, paid))
    BY DEF QuotedIsPullable
  <1> DEFINE o == offers[i]  out == Curve(o, s, paid)
  <1>2. i \in 1..Len(offers) /\ offers \in Seq(Mandated) BY DEF ProvideInv
  <1>3. o \in Mandated /\ Backed(o, granted) BY <1>2 DEF ProvideInv
  <1>4. capital \in Stocks /\ granted \in Stocks BY DEF ProvideInv
  <1>5. s \in Sides /\ s \notin o.touched BY <1>1
  <1>6. Quotes(o, s, paid) BY <1>1
  <1> HIDE DEF o
  <1>7. /\ out \in Nat /\ out =< o.ledger["token"][s] /\ Deficit(s, out) \in Nat
        /\ o.named => Deficit(s, out) =< o.ledger["receipt"][s]
    BY <1>3, <1>4, <1>5, <1>6, QuotedIsLedgered
  <1>8. /\ o.ledger["token"][s] =< granted["token"][s]
        /\ o.ledger["receipt"][s] =< granted["receipt"][s]
    BY <1>3, <1>5, SidesAre DEF Backed
  <1>9. /\ o.ledger["token"][s] \in Nat /\ o.ledger["receipt"][s] \in Nat
        /\ granted["token"][s] \in Nat /\ granted["receipt"][s] \in Nat
    BY <1>3, <1>4, <1>5, StocksAre DEF Mandated
  <1> HIDE DEF out
  <1>10. granted["token"][s] >= out BY <1>7, <1>8, <1>9
  <1>11. o.named => granted["receipt"][s] >= Deficit(s, out) BY <1>7, <1>8, <1>9
  <1>12. Pullable(o, s, out) BY <1>10, <1>11 DEF Pullable
  <1>13. QED BY <1>12 DEF o, out

-----------------------------------------------------------------------------
(* Reading and pressing. *)

\* The parts of the invariant, put together again after a step.
LEMMA ProvideParts ==
  ASSUME ProvideInv
  PROVE  /\ origin \in {"account", "wallet"} /\ capital \in Stocks /\ granted \in Stocks
         /\ offers \in Seq(Mandated) /\ ship \in ShipPresses /\ seen \in Readings
         /\ takes \in Nat /\ agentMoves \in Nat
         /\ Granting(ship, granted, origin)
         /\ SeenHolds(seen, capital, takes, agentMoves, origin)
         /\ PressHolds(ship, capital, takes, agentMoves, origin)
  BY DEF ProvideInv

LEMMA ReadIdleStep ==
  ASSUME ProvideInv, ReadIdle
  PROVE  ProvideInv'
  <1>1. PICK idle \in {capital["token"], IF seen.idleAt = Unseen THEN Both(0) ELSE capital["token"]} :
          /\ seen' = [seen EXCEPT !.idle = idle, !.idleAt = agentMoves, !.takesAt = takes]
          /\ UNCHANGED <<origin, capital, granted, offers, ship, ships, takes, agentMoves, hollow>>
    BY DEF ReadIdle
  <1> DEFINE r == seen'
  <1>2. /\ r.idle = idle /\ r.idleAt = agentMoves /\ r.takesAt = takes /\ r.working = seen.working
        /\ r.named = seen.named /\ r.marketAt = seen.marketAt /\ r.marketTakesAt = seen.marketTakesAt
    BY <1>1, ProvideParts DEF Readings
  <1>3. idle \in SideAmounts /\ \A s \in Sides : idle[s] \in Nat /\ idle[s] =< capital["token"][s]
    <2>1. capital["token"] \in SideAmounts /\ \A s \in Sides : capital["token"][s] \in Nat
      BY ProvideParts, StocksAre, SidesAre DEF Stocks
    <2>2. CASE idle = capital["token"] BY <2>1, <2>2
    <2>3. CASE idle = Both(0)
      <3>1. \A s \in Sides : idle[s] = 0 BY <2>3 DEF Both
      <3>2. idle \in SideAmounts BY <2>3 DEF Both, SideAmounts
      <3>3. QED BY <2>1, <3>1, <3>2
    <2>4. QED BY <1>1, <2>2, <2>3
  <1>4. r \in Readings
    <2>1. agentMoves \in Int /\ takes \in Nat BY ProvideParts
    <2>2. QED BY <1>1, <1>3, <2>1, ProvideParts DEF Readings
  <1> HIDE DEF r
  <1>5. SeenHolds(r, capital, takes, agentMoves, origin)
    <2>1. SeenHolds(seen, capital, takes, agentMoves, origin) BY ProvideParts
    <2>2. \A s \in Sides : capital["token"][s] \in Nat /\ capital["receipt"][s] \in Nat
      BY ProvideParts, StocksAre
    <2>3. takes \in Nat /\ agentMoves \in Nat /\ seen.marketAt \in Int /\ seen.marketTakesAt \in Nat
          /\ seen.working \in Nat /\ "usdc" \in Sides
      BY ProvideParts, SidesAre DEF Readings
    <2>4. \A s \in Sides : r.idle[s] =< capital["token"][s] + capital["receipt"][s]
      <3>1. TAKE s \in Sides
      <3>2. idle[s] \in Nat /\ idle[s] =< capital["token"][s] BY <1>3
      <3>3. capital["token"][s] \in Nat /\ capital["receipt"][s] \in Nat BY <2>2
      <3>4. QED BY <1>2, <3>2, <3>3
    <2>5. seen.marketTakesAt = takes /\ seen.marketAt = agentMoves =>
             r.idle["usdc"] + r.working =< capital["token"]["usdc"] + capital["receipt"]["usdc"]
      <3>1. SUFFICES ASSUME seen.marketTakesAt = takes, seen.marketAt = agentMoves
                     PROVE  r.idle["usdc"] + r.working =< capital["token"]["usdc"] + capital["receipt"]["usdc"]
        OBVIOUS
      <3>2. seen.working =< capital["receipt"]["usdc"] BY <2>1, <3>1 DEF SeenHolds
      <3>3. idle["usdc"] \in Nat /\ idle["usdc"] =< capital["token"]["usdc"] BY <1>3, <2>3
      <3>4. capital["token"]["usdc"] \in Nat /\ capital["receipt"]["usdc"] \in Nat BY <2>2, <2>3
      <3>5. QED BY <1>2, <2>3, <3>2, <3>3, <3>4
    <2>6. agentMoves =< agentMoves /\ takes =< takes BY <2>3
    <2>7. QED BY <1>2, <1>3, <2>1, <2>4, <2>5, <2>6 DEF SeenHolds
  <1>6. QED BY <1>1, <1>4, <1>5 DEF ProvideInv, r, ShipsWithinReach

LEMMA ReadMarketsStep ==
  ASSUME ProvideInv, ReadMarkets
  PROVE  ProvideInv'
  <1>1. PICK named \in BOOLEAN :
          /\ origin = "account"
          /\ seen' = [seen EXCEPT !.named = named, !.marketAt = agentMoves, !.marketTakesAt = takes,
                                  !.working = IF named THEN capital["receipt"]["usdc"] ELSE 0]
          /\ UNCHANGED <<origin, capital, granted, offers, ship, ships, takes, agentMoves, hollow>>
    BY DEF ReadMarkets
  <1> DEFINE r == seen'  work == IF named THEN capital["receipt"]["usdc"] ELSE 0
  <1>2. /\ r.named = named /\ r.marketAt = agentMoves /\ r.marketTakesAt = takes /\ r.working = work
        /\ r.idle = seen.idle /\ r.idleAt = seen.idleAt /\ r.takesAt = seen.takesAt
    BY <1>1, ProvideParts DEF Readings
  <1>3. work \in Nat /\ work =< capital["receipt"]["usdc"] /\ (named = FALSE => work = 0)
        /\ capital["receipt"]["usdc"] \in Nat /\ capital["token"]["usdc"] \in Nat
    BY ProvideParts, StocksAre, SidesAre
  <1> HIDE DEF work
  <1>4. r \in Readings
    <2>1. agentMoves \in Int /\ takes \in Nat BY ProvideParts
    <2>2. seen' = [seen EXCEPT !.named = named, !.marketAt = agentMoves, !.marketTakesAt = takes,
                               !.working = work]
      BY <1>1 DEF work
    <2>3. QED BY <1>3, <2>1, <2>2, ProvideParts DEF Readings
  <1> HIDE DEF r
  <1>5. SeenHolds(r, capital, takes, agentMoves, origin)
    <2>1. SeenHolds(seen, capital, takes, agentMoves, origin) BY ProvideParts
    <2>2. takes \in Nat /\ agentMoves \in Nat /\ seen.idle["usdc"] \in Nat
      BY ProvideParts, SidesAre DEF Readings, SideAmounts
    <2>3. seen.idleAt # Unseen /\ seen.idleAt = agentMoves /\ seen.takesAt = takes =>
             r.idle["usdc"] + r.working =< capital["token"]["usdc"] + capital["receipt"]["usdc"]
      <3>1. SUFFICES ASSUME seen.idleAt # Unseen, seen.idleAt = agentMoves, seen.takesAt = takes
                     PROVE  r.idle["usdc"] + r.working =< capital["token"]["usdc"] + capital["receipt"]["usdc"]
        OBVIOUS
      <3>2. seen.idle["usdc"] =< capital["token"]["usdc"] BY <2>1, <3>1, SidesAre DEF SeenHolds
      <3>3. QED BY <1>2, <1>3, <2>2, <3>2
    <2>4. agentMoves =< agentMoves /\ takes =< takes BY <2>2
    <2>5. origin # "wallet" BY <1>1
    <2>6. QED BY <1>2, <1>3, <2>1, <2>3, <2>4, <2>5 DEF SeenHolds
  <1>6. QED BY <1>1, <1>4, <1>5 DEF ProvideInv, r, ShipsWithinReach

LEMMA PressShipStep ==
  ASSUME ProvideInv, NEW typed \in Ceilings, PressShip(typed)
  PROVE  ProvideInv'
  <1> DEFINE p == ship'
             at == IF origin = "account" THEN Earlier(seen.takesAt, seen.marketTakesAt) ELSE seen.takesAt
             amounts == AmountsFor(typed)
  <1>1. /\ ships < MaxShips /\ ships' = ships + 1 /\ seen.idleAt # Unseen /\ ~ Short(typed)
        /\ ship' = [NoShip EXCEPT !.stage = "pressed", !.amounts = amounts, !.named = seen.named,
                        !.idleAt = seen.idleAt, !.marketAt = seen.marketAt, !.takesAt = at]
        /\ UNCHANGED <<origin, capital, granted, offers, seen, takes, agentMoves, hollow>>
    BY DEF PressShip
  <1>2. /\ seen.takesAt \in Nat /\ seen.marketTakesAt \in Nat /\ seen.idle \in SideAmounts
        /\ seen.idleAt \in Int /\ seen.marketAt \in Int /\ seen.named \in BOOLEAN /\ seen.working \in Nat
    BY ProvideParts DEF Readings
  <1>3. typed \in Nat BY ProvideBounds
  <1>4. amounts \in SideAmounts /\ \A s \in Sides :
           amounts[s] = IF s = "usdc" \/ origin = "wallet" THEN typed ELSE seen.idle["weth"]
    <2>1. seen.idle["weth"] \in Nat BY <1>2, SidesAre DEF SideAmounts
    <2>2. QED BY <1>3, <2>1 DEF AmountsFor, SideAmounts
  <1>5. at \in Nat /\ at =< seen.takesAt /\ (origin = "account" => at =< seen.marketTakesAt)
    BY <1>2 DEF Earlier
  <1> HIDE DEF at, amounts
  <1>6. /\ p.stage = "pressed" /\ p.amounts = amounts /\ p.named = seen.named /\ p.approved = {}
        /\ p.touched = {} /\ p.idleAt = seen.idleAt /\ p.marketAt = seen.marketAt /\ p.takesAt = at
    BY <1>1 DEF NoShip
  <1>7. p \in ShipPresses
    BY <1>1, <1>2, <1>4, <1>5 DEF NoShip, ShipPresses, Both, SideAmounts
  <1> HIDE DEF p
  <1>8. Granting(p, granted, origin)
    <2>1. origin = "wallet" => seen.named = FALSE BY ProvideParts DEF SeenHolds
    <2>2. QED BY <1>6, <2>1 DEF Granting
  <1>9. PressHolds(p, capital, takes, agentMoves, origin)
    <2>1. SeenHolds(seen, capital, takes, agentMoves, origin) BY ProvideParts
    <2>2. takes \in Nat /\ agentMoves \in Nat /\ seen.idleAt =< agentMoves /\ seen.takesAt =< takes
          /\ seen.marketTakesAt =< takes
      BY <2>1, ProvideParts DEF SeenHolds
    <2>3. p.idleAt =< agentMoves /\ p.takesAt =< takes BY <1>2, <1>5, <1>6, <2>2
    <2>4. ASSUME p.takesAt = takes, origin = "account" => p.idleAt = p.marketAt,
                 p.named = TRUE \/ p.idleAt = agentMoves, NEW s \in Sides
          PROVE  p.amounts[s] =< capital["token"][s] + (IF p.named THEN capital["receipt"][s] ELSE 0)
      <3>1. /\ seen.takesAt = takes /\ (origin = "account" => seen.marketTakesAt = takes)
            /\ (origin = "account" => seen.idleAt = seen.marketAt)
        BY <1>2, <1>5, <1>6, <2>2, <2>4
      <3>2. /\ seen.idle[s] =< capital["token"][s] + capital["receipt"][s]
            /\ seen.idleAt = agentMoves => seen.idle[s] =< capital["token"][s]
        BY <1>1, <2>1, <3>1 DEF SeenHolds
      <3>3. capital["token"][s] \in Nat /\ capital["receipt"][s] \in Nat /\ seen.idle[s] \in Nat
        BY <1>2, ProvideParts, StocksAre DEF SideAmounts
      <3>4. seen.idle[s] =< capital["token"][s] + (IF seen.named THEN capital["receipt"][s] ELSE 0)
        BY <1>2, <1>6, <2>4, <3>2, <3>3
      <3>5. CASE origin = "wallet"
        <4>1. amounts[s] = typed BY <1>4, <3>5
        <4>2. ~ (typed > seen.idle[s]) BY <1>1, <3>5 DEF Short
        <4>3. amounts[s] =< seen.idle[s] BY <1>3, <3>3, <4>1, <4>2
        <4>4. amounts[s] \in Nat BY <1>3, <4>1
        <4> DEFINE all == capital["token"][s] + (IF seen.named THEN capital["receipt"][s] ELSE 0)
        <4>5. all \in Nat BY <3>3
        <4>6. seen.idle[s] =< all BY <3>4
        <4> HIDE DEF all
        <4>7. amounts[s] =< all BY <3>3, <4>3, <4>4, <4>5, <4>6
        <4>8. QED BY <1>6, <4>7 DEF all
      <3>6. CASE origin = "account" /\ s = "weth"
        <4>1. amounts[s] = seen.idle[s] BY <1>4, <3>6
        <4>2. QED BY <1>6, <3>4, <4>1
      <3>7. CASE origin = "account" /\ s = "usdc"
        <4>1. amounts[s] = typed /\ ~ (typed > seen.idle["usdc"] + seen.working)
          BY <1>1, <1>4, <3>7 DEF Short
        <4>2. typed =< seen.idle["usdc"] + seen.working BY <1>2, <1>3, <3>3, <3>7, <4>1
        <4>3. CASE seen.named = TRUE
          <5>1. seen.idle["usdc"] + seen.working =< capital["token"]["usdc"] + capital["receipt"]["usdc"]
            BY <1>1, <2>1, <3>1, <3>7 DEF SeenHolds
          <5>2. typed =< capital["token"]["usdc"] + capital["receipt"]["usdc"]
            BY <1>2, <1>3, <3>3, <3>7, <4>2, <5>1
          <5>3. QED BY <1>6, <3>7, <4>1, <4>3, <5>2
        <4>4. CASE seen.named = FALSE
          <5>1. seen.working = 0 BY <2>1, <4>4 DEF SeenHolds
          <5>2. typed =< seen.idle["usdc"] BY <1>3, <3>3, <3>7, <4>2, <5>1
          <5>3. seen.idle["usdc"] =< capital["token"]["usdc"] BY <1>6, <2>4, <3>2, <3>7, <4>4
          <5>4. typed =< capital["token"]["usdc"] + 0 BY <1>3, <3>3, <3>7, <5>2, <5>3
          <5>5. QED BY <1>6, <3>7, <4>1, <4>4, <5>4
        <4>5. QED BY <1>2, <4>3, <4>4
      <3>8. QED BY <3>5, <3>6, <3>7, SidesAre, ProvideParts
    <2>5. QED BY <2>3, <2>4 DEF PressHolds
  <1>10. ships' \in 0..MaxShips
    <2>1. ships \in 0..MaxShips BY DEF ProvideInv
    <2>2. QED BY <1>1, <2>1, ProvideBounds
  <1>11. QED BY <1>1, <1>7, <1>8, <1>9, <1>10 DEF ProvideInv, p, ShipsWithinReach

-----------------------------------------------------------------------------
(* Approving and shipping. *)

LEMMA ApprovalsAre ==
  ASSUME ProvideInv, NEW sides \in SUBSET Sides, Approvals(sides)
  PROVE  /\ granted' \in Stocks
         /\ \A k \in Kinds, s \in Sides :
               granted'[k][s] = IF s \in sides /\ k \in Approvable(ship.named) THEN ship.amounts[s]
                                ELSE granted[k][s]
  <1> DEFINE g(k, s) == IF s \in sides /\ k \in Approvable(ship.named) THEN ship.amounts[s]
                        ELSE granted[k][s]
  <1>1. granted' = [k \in Kinds |-> [s \in Sides |-> g(k, s)]] BY DEF Approvals
  <1>2. \A k \in Kinds, s \in Sides : g(k, s) \in Nat
    BY ProvideParts, StocksAre DEF ShipPresses, SideAmounts
  <1> HIDE DEF g
  <1>3. \A k \in Kinds, s \in Sides : granted'[k][s] = g(k, s) BY <1>1
  <1>4. granted' \in Stocks BY <1>1, <1>2 DEF Stocks, SideAmounts
  <1>5. QED BY <1>3, <1>4 DEF g

LEMMA TouchedAre ==
  ASSUME NEW list \in Seq(Mandated), NEW sides \in SUBSET Sides
  PROVE  /\ Touched(list, sides) \in Seq(Mandated) /\ Len(Touched(list, sides)) = Len(list)
         /\ \A i \in 1..Len(list) :
               /\ Touched(list, sides)[i].ledger = list[i].ledger
               /\ Touched(list, sides)[i].named = list[i].named
               /\ Touched(list, sides)[i].touched = list[i].touched \cup sides
  <1> DEFINE f == [i \in 1..Len(list) |-> [list[i] EXCEPT !.touched = @ \cup sides]]
  <1>1. Touched(list, sides) = f /\ Len(list) \in Nat BY DEF Touched
  <1>2. \A i \in 1..Len(list) : list[i] \in Mandated OBVIOUS
  <1>3. \A i \in 1..Len(list) : /\ f[i] \in Mandated /\ f[i].ledger = list[i].ledger
                               /\ f[i].named = list[i].named /\ f[i].touched = list[i].touched \cup sides
    BY <1>2 DEF Mandated
  <1>4. DOMAIN f = 1..Len(list) /\ f = [i \in 1..Len(list) |-> f[i]] OBVIOUS
  <1> HIDE DEF f
  <1>5. f \in Seq(Mandated) /\ Len(f) = Len(list)
    <2>1. f \in [1..Len(list) -> Mandated] BY <1>3, <1>4
    <2>2. f \in Seq(Mandated) BY <1>1, <2>1
    <2>3. QED BY <1>1, <1>4, <2>2
  <1>6. QED BY <1>1, <1>3, <1>5

\* Touched sides need no cover; the others are covered as they were.
LEMMA TouchedBacked ==
  ASSUME NEW list \in Seq(Mandated), NEW sides \in SUBSET Sides, NEW f, NEW g,
         \A i \in 1..Len(list) : Backed(list[i], f),
         \A s \in Sides \ sides : \A k \in Kinds : g[k][s] = f[k][s]
  PROVE  \A i \in 1..Len(list) : Backed(Touched(list, sides)[i], g)
  <1>1. TAKE i \in 1..Len(list)
  <1> DEFINE o == list[i]  n == Touched(list, sides)[i]
  <1>2. n.ledger = o.ledger /\ n.named = o.named /\ n.touched = o.touched \cup sides BY TouchedAre
  <1>3. Backed(o, f) OBVIOUS
  <1> HIDE DEF n, o
  <1>4. Backed(n, g)
    <2>1. ASSUME NEW s \in Sides \ n.touched, NEW k \in Kinds PROVE n.ledger[k][s] =< g[k][s]
      <3>1. s \in Sides \ o.touched /\ s \in Sides \ sides BY <1>2
      <3>2. o.ledger[k][s] =< f[k][s] BY <1>3, <3>1 DEF Backed
      <3>3. g[k][s] = f[k][s] BY <3>1
      <3>4. QED BY <1>2, <3>2, <3>3
    <2>2. QED BY <1>2, <1>3, <2>1 DEF Backed
  <1>5. QED BY <1>4 DEF n

\* What is shipped is what is approved, and beyond what is there only for a reason.
LEMMA ShippedIs ==
  ASSUME ProvideInv, ship.stage = "pressed", NEW g \in Stocks, NEW touched \in SUBSET Sides,
         \A s \in Sides \ touched : \A k \in Approvable(ship.named) : g[k][s] = ship.amounts[s],
         \A s \in ship.approved : \A k \in Kinds : g[k][s] = granted[k][s],
         Shipped(touched)
  PROVE  /\ offers' \in Seq(Mandated) /\ \A i \in 1..Len(offers') : Backed(offers'[i], g)
         /\ ship' = NoShip /\ ShipsWithinReach'
  <1> DEFINE old == Touched(offers, Sides \ ship.approved)
             new == [ledger |-> [k \in Kinds |-> Budget(k)], most |-> ship.amounts, named |-> ship.named,
                     live |-> TRUE, touched |-> touched]
  <1>1. offers' = Append(old, new) /\ ship' = NoShip BY DEF Shipped
  <1>2. ship.amounts \in SideAmounts /\ ship.named \in BOOLEAN /\ ship.approved \in SUBSET Sides
    BY ProvideParts DEF ShipPresses
  <1>3. offers \in Seq(Mandated) /\ \A i \in 1..Len(offers) : Backed(offers[i], granted)
    BY DEF ProvideInv
  <1>4. old \in Seq(Mandated) /\ Len(old) = Len(offers) BY <1>3, TouchedAre
  <1>5. \A i \in 1..Len(offers) : Backed(old[i], g)
    <2> DEFINE sides == Sides \ ship.approved
    <2>1. \A s \in Sides \ sides : \A k \in Kinds : g[k][s] = granted[k][s] BY <1>2
    <2>2. sides \in SUBSET Sides OBVIOUS
    <2> HIDE DEF sides
    <2>3. \A i \in 1..Len(offers) : Backed(Touched(offers, sides)[i], g)
      BY <1>3, <2>1, <2>2, TouchedBacked
    <2>4. QED BY <2>3 DEF sides
  <1>6. \A k \in Kinds : /\ Budget(k) \in SideAmounts
                         /\ \A s \in Sides : Budget(k)[s] = IF k = "token" \/ ship.named
                                                           THEN ship.amounts[s] ELSE 0
    BY <1>2 DEF Budget, Both, SideAmounts
  <1>7. new \in Mandated BY <1>2, <1>6 DEF Mandated, Stocks
  <1>8. Backed(new, g)
    <2>1. new.named = ship.named /\ new.touched = touched
          /\ \A k \in Kinds, s \in Sides : new.ledger[k][s] = IF k = "token" \/ ship.named
                                                             THEN ship.amounts[s] ELSE 0
      BY <1>6
    <2> HIDE DEF new
    <2>2. ASSUME NEW s \in Sides \ touched, NEW k \in Kinds PROVE new.ledger[k][s] =< g[k][s]
      <3>1. g[k][s] \in Nat /\ ship.amounts[s] \in Nat BY <1>2, StocksAre DEF SideAmounts
      <3>2. CASE k = "token" \/ ship.named
        <4>1. k \in Approvable(ship.named) BY <3>2 DEF Approvable
        <4>2. g[k][s] = ship.amounts[s] BY <4>1
        <4>3. new.ledger[k][s] = ship.amounts[s] BY <2>1, <3>2
        <4>4. QED BY <3>1, <4>2, <4>3
      <3>3. CASE ~ (k = "token" \/ ship.named)
        <4>1. new.ledger[k][s] = 0 BY <2>1, <3>3
        <4>2. QED BY <3>1, <4>1
      <3>4. QED BY <3>2, <3>3
    <2>3. new.named = FALSE => \A s \in Sides : new.ledger["receipt"][s] = 0
      <3>1. "receipt" \in Kinds /\ "receipt" # "token" BY SidesAre
      <3>2. QED BY <2>1, <3>1
    <2>4. QED BY <2>1, <2>2, <2>3 DEF Backed
  <1>9. ShipsWithinReach'
    <2> DEFINE h == [torn |-> origin = "account" /\ ship.idleAt # ship.marketAt,
                     drained |-> takes > ship.takesAt,
                     moved |-> ~ ship.named /\ agentMoves > ship.idleAt]
    <2>1. ShipsWithinReach BY DEF ProvideInv
    <2>2. CASE \E s \in Sides : ship.amounts[s] > Reach(s, ship.named)
      <3>1. PICK s \in Sides : ship.amounts[s] > Reach(s, ship.named) BY <2>2
      <3>2. h.torn \/ h.drained \/ h.moved
        <4>1. SUFFICES ASSUME origin = "account" => ship.idleAt = ship.marketAt,
                              ~ (takes > ship.takesAt), ship.named \/ ~ (agentMoves > ship.idleAt)
                       PROVE  FALSE
          OBVIOUS
        <4>2. PressHolds(ship, capital, takes, agentMoves, origin) BY ProvideParts
        <4>3. ship.takesAt \in Nat /\ ship.idleAt \in Int /\ takes \in Nat /\ agentMoves \in Nat
          BY ProvideParts DEF ShipPresses
        <4>4. ship.idleAt =< agentMoves /\ ship.takesAt =< takes BY <4>2 DEF PressHolds
        <4>5. ship.takesAt = takes /\ (ship.named = TRUE \/ ship.idleAt = agentMoves)
          BY <1>2, <4>1, <4>3, <4>4
        <4>6. ship.amounts[s] =< capital["token"][s] + (IF ship.named THEN capital["receipt"][s] ELSE 0)
          BY <4>1, <4>2, <4>5 DEF PressHolds
        <4>7. ship.amounts[s] =< Reach(s, ship.named) BY <4>6 DEF Reach
        <4>8. capital["token"][s] \in Nat /\ capital["receipt"][s] \in Nat BY ProvideParts, StocksAre
        <4>9. Reach(s, ship.named) \in Nat /\ ship.amounts[s] \in Nat
          BY <1>2, <4>8 DEF Reach, SideAmounts
        <4>10. QED BY <3>1, <4>7, <4>9
      <3>3. hollow' = hollow \cup {h} BY <2>2 DEF Shipped
      <3> HIDE DEF h
      <3>4. QED BY <2>1, <3>2, <3>3 DEF ShipsWithinReach
    <2>3. CASE ~ \E s \in Sides : ship.amounts[s] > Reach(s, ship.named)
      <3>1. hollow' = hollow BY <2>3 DEF Shipped
      <3>2. QED BY <2>1, <3>1 DEF ShipsWithinReach
    <2>4. QED BY <2>2, <2>3
  <1> HIDE DEF old, new
  <1>10. /\ offers' \in Seq(Mandated) /\ Len(offers') = Len(offers) + 1
         /\ \A i \in 1..Len(offers) : offers'[i] = old[i]
         /\ offers'[Len(offers) + 1] = new
    BY <1>1, <1>4, <1>7
  <1>11. \A i \in 1..Len(offers') : Backed(offers'[i], g)
    <2>1. TAKE i \in 1..Len(offers')
    <2>2. Len(offers) \in Nat BY <1>3
    <2>3. CASE i = Len(offers) + 1 BY <1>8, <1>10, <2>3
    <2>4. CASE i # Len(offers) + 1
      <3>1. i \in 1..Len(offers) BY <1>10, <2>2, <2>4
      <3>2. QED BY <1>5, <1>10, <3>1
    <2>5. QED BY <2>3, <2>4
  <1>12. QED BY <1>1, <1>9, <1>10, <1>11

LEMMA NoShipHolds ==
  ASSUME NEW g, NEW c \in Stocks, NEW t \in Nat, NEW m \in Nat, NEW from
  PROVE  NoShip \in ShipPresses /\ Granting(NoShip, g, from) /\ PressHolds(NoShip, c, t, m, from)
  <1>1. NoShip \in ShipPresses BY DEF NoShip, ShipPresses, Both, SideAmounts
  <1>2. Granting(NoShip, g, from) BY DEF NoShip, Granting
  <1>3. \A s \in Sides : NoShip.amounts[s] = 0 /\ c["token"][s] \in Nat /\ c["receipt"][s] \in Nat
    BY StocksAre DEF NoShip, Both
  <1>4. NoShip.idleAt = 0 /\ NoShip.takesAt = 0 /\ NoShip.named = FALSE BY DEF NoShip
  <1>5. PressHolds(NoShip, c, t, m, from) BY <1>3, <1>4 DEF PressHolds
  <1>6. QED BY <1>1, <1>2, <1>5

LEMMA BatchStep ==
  ASSUME ProvideInv, BatchLands
  PROVE  ProvideInv'
  <1>1. /\ origin = "account" /\ ship.stage = "pressed" /\ Approvals(Sides) /\ Shipped({})
        /\ UNCHANGED <<origin, capital, seen, ships, takes, agentMoves>>
    BY DEF BatchLands
  <1>2. granted' \in Stocks /\ \A k \in Kinds, s \in Sides :
           granted'[k][s] = IF s \in Sides /\ k \in Approvable(ship.named) THEN ship.amounts[s]
                            ELSE granted[k][s]
    BY <1>1, ApprovalsAre
  <1> DEFINE g == granted'
  <1>3. \A s \in Sides \ {} : \A k \in Approvable(ship.named) : g[k][s] = ship.amounts[s]
    <2>1. Approvable(ship.named) \subseteq Kinds BY DEF Approvable, Kinds
    <2>2. QED BY <1>2, <2>1
  <1>4. ship.approved = {} BY <1>1, ProvideParts DEF Granting
  <1>5. g \in Stocks BY <1>2
  <1> HIDE DEF g
  <1>6. /\ offers' \in Seq(Mandated) /\ \A i \in 1..Len(offers') : Backed(offers'[i], g)
        /\ ship' = NoShip /\ ShipsWithinReach'
    BY <1>1, <1>3, <1>4, <1>5, ShippedIs
  <1>7. NoShip \in ShipPresses /\ Granting(NoShip, g, origin)
        /\ PressHolds(NoShip, capital, takes, agentMoves, origin)
    BY NoShipHolds, ProvideParts
  <1>8. QED BY <1>1, <1>5, <1>6, <1>7 DEF ProvideInv, g

LEMMA ShipLandsStep ==
  ASSUME ProvideInv, ShipLands
  PROVE  ProvideInv'
  <1>1. /\ ship.stage = "pressed" /\ ship.approved = Sides /\ Shipped(ship.touched)
        /\ UNCHANGED <<origin, capital, granted, seen, ships, takes, agentMoves>>
    BY DEF ShipLands
  <1>2. ship.touched \in SUBSET Sides BY ProvideParts DEF ShipPresses
  <1>3. \A s \in Sides \ ship.touched : \A k \in Approvable(ship.named) : granted[k][s] = ship.amounts[s]
    BY <1>1, ProvideParts DEF Granting
  <1>4. granted \in Stocks BY ProvideParts
  <1>5. /\ offers' \in Seq(Mandated) /\ \A i \in 1..Len(offers') : Backed(offers'[i], granted)
        /\ ship' = NoShip /\ ShipsWithinReach'
    BY <1>1, <1>2, <1>3, <1>4, ShippedIs
  <1>6. NoShip \in ShipPresses /\ Granting(NoShip, granted, origin)
        /\ PressHolds(NoShip, capital, takes, agentMoves, origin)
    BY NoShipHolds, ProvideParts
  <1>7. QED BY <1>1, <1>5, <1>6 DEF ProvideInv

LEMMA GivesUpStep ==
  ASSUME ProvideInv, GivesUp
  PROVE  ProvideInv'
  <1>1. ship' = NoShip
        /\ UNCHANGED <<origin, capital, granted, offers, seen, ships, takes, agentMoves, hollow>>
    BY DEF GivesUp
  <1>2. NoShip \in ShipPresses /\ Granting(NoShip, granted, origin)
        /\ PressHolds(NoShip, capital, takes, agentMoves, origin)
    BY NoShipHolds, ProvideParts
  <1>3. QED BY <1>1, <1>2 DEF ProvideInv, ShipsWithinReach

LEMMA ApproveSideStep ==
  ASSUME ProvideInv, NEW s \in Sides, ApproveSide(s)
  PROVE  ProvideInv'
  <1> DEFINE p == ship'
  <1>1. /\ origin = "wallet" /\ s \notin ship.approved
        /\ UNCHANGED <<origin, capital, seen, ships, takes, agentMoves, hollow>>
        /\ \/ /\ Approvals({s}) /\ offers' = Touched(offers, {s})
              /\ ship' = [ship EXCEPT !.approved = @ \cup {s}]
           \/ /\ ship' = [ship EXCEPT !.approved = @ \cup {s}, !.touched = @ \cup {s}]
              /\ UNCHANGED <<granted, offers>>
    BY DEF ApproveSide
  <1>2. /\ ship \in ShipPresses /\ Granting(ship, granted, origin)
        /\ PressHolds(ship, capital, takes, agentMoves, origin)
        /\ offers \in Seq(Mandated) /\ \A i \in 1..Len(offers) : Backed(offers[i], granted)
    BY DEF ProvideInv
  <1>3. /\ p \in ShipPresses /\ p.approved = ship.approved \cup {s} /\ p.amounts = ship.amounts
        /\ p.named = ship.named /\ p.idleAt = ship.idleAt /\ p.marketAt = ship.marketAt
        /\ p.takesAt = ship.takesAt /\ p.touched \in {ship.touched, ship.touched \cup {s}}
    <2>1. CASE ship' = [ship EXCEPT !.approved = @ \cup {s}] BY <1>2, <2>1 DEF ShipPresses
    <2>2. CASE ship' = [ship EXCEPT !.approved = @ \cup {s}, !.touched = @ \cup {s}]
      BY <1>2, <2>2 DEF ShipPresses
    <2>3. QED BY <1>1, <2>1, <2>2
  <1>4. PressHolds(p, capital, takes, agentMoves, origin)
    <2> HIDE DEF p
    <2>1. QED BY <1>2, <1>3 DEF PressHolds
  <1>5. CASE Approvals({s}) /\ offers' = Touched(offers, {s})
             /\ ship' = [ship EXCEPT !.approved = @ \cup {s}]
    <2>1. granted' \in Stocks /\ \A k \in Kinds, t \in Sides :
             granted'[k][t] = IF t \in {s} /\ k \in Approvable(ship.named) THEN ship.amounts[t]
                              ELSE granted[k][t]
      BY <1>5, ApprovalsAre
    <2> DEFINE g == granted'
    <2>2. \A t \in Sides \ {s} : \A k \in Kinds : g[k][t] = granted[k][t] BY <2>1
    <2>3. Approvable(ship.named) \subseteq Kinds BY DEF Approvable, Kinds
    <2>4. \A k \in Approvable(ship.named) : g[k][s] = ship.amounts[s] BY <2>1, <2>3
    <2>5. g \in Stocks BY <2>1
    <2> HIDE DEF g
    <2>6. \A i \in 1..Len(offers) : Backed(Touched(offers, {s})[i], g)
      BY <1>2, <2>2, TouchedBacked
    <2>7. Touched(offers, {s}) \in Seq(Mandated) /\ Len(Touched(offers, {s})) = Len(offers)
      BY <1>2, TouchedAre
    <2>8. p.touched = ship.touched BY <1>2, <1>5 DEF ShipPresses
    <2> HIDE DEF p
    <2>9. Granting(p, g, origin)
      <3>1. ASSUME NEW t \in p.approved \ p.touched, NEW k \in Approvable(p.named)
            PROVE  g[k][t] = p.amounts[t]
        <4>1. t \in ship.approved \cup {s} /\ t \notin ship.touched /\ k \in Approvable(ship.named)
          BY <1>3, <2>8
        <4>2. CASE t = s BY <1>3, <2>4, <4>1, <4>2
        <4>3. CASE t # s
          <5>1. t \in ship.approved \ ship.touched /\ t \in Sides BY <1>2, <4>1, <4>3 DEF ShipPresses
          <5>2. granted[k][t] = ship.amounts[t] BY <1>2, <4>1, <5>1 DEF Granting
          <5>3. QED BY <1>3, <2>2, <2>3, <4>1, <4>3, <5>1, <5>2
        <4>4. QED BY <4>2, <4>3
      <3>2. origin # "account" /\ p.named = FALSE BY <1>1, <1>2, <1>3 DEF Granting
      <3>3. QED BY <3>1, <3>2 DEF Granting
    <2>10. offers' = Touched(offers, {s}) BY <1>5
    <2>11. \A i \in 1..Len(offers') : Backed(offers'[i], g) BY <2>6, <2>7, <2>10
    <2>12. QED BY <1>1, <1>3, <1>4, <2>5, <2>7, <2>9, <2>10, <2>11
           DEF ProvideInv, ShipsWithinReach, g, p
  <1>6. CASE /\ ship' = [ship EXCEPT !.approved = @ \cup {s}, !.touched = @ \cup {s}]
             /\ UNCHANGED <<granted, offers>>
    <2>1. p.touched = ship.touched \cup {s} BY <1>2, <1>6 DEF ShipPresses
    <2> HIDE DEF p
    <2>2. Granting(p, granted, origin)
      <3>1. \A t \in p.approved \ p.touched : t \in ship.approved \ ship.touched BY <1>3, <2>1
      <3>2. origin # "account" /\ p.named = FALSE BY <1>1, <1>2, <1>3 DEF Granting
      <3>3. QED BY <1>2, <1>3, <3>1, <3>2 DEF Granting
    <2>3. QED BY <1>1, <1>3, <1>4, <1>6, <2>2 DEF ProvideInv, ShipsWithinReach, p
  <1>7. QED BY <1>1, <1>5, <1>6

-----------------------------------------------------------------------------
(* Fills, docks and what moves outside. *)

TakenFrom(c, s, x, y, z) == [c EXCEPT !["token"][s] = x, !["receipt"][s] = y, !["token"][Across(s)] = z]

LEMMA TakenOut ==
  ASSUME NEW c \in Stocks, NEW s \in Sides, NEW x \in Nat, NEW y \in Nat, NEW z \in Nat
  PROVE  /\ TakenFrom(c, s, x, y, z) \in Stocks
         /\ TakenFrom(c, s, x, y, z)["token"][s] = x
         /\ TakenFrom(c, s, x, y, z)["receipt"][s] = y
         /\ TakenFrom(c, s, x, y, z)["token"][Across(s)] = z
         /\ TakenFrom(c, s, x, y, z)["receipt"][Across(s)] = c["receipt"][Across(s)]
  <1>1. Across(s) \in Sides /\ Across(s) # s /\ \A t \in Sides : t = s \/ t = Across(s)
    BY SidesAre
  <1> DEFINE a == Across(s)
             d == [c EXCEPT !["token"][s] = x, !["receipt"][s] = y, !["token"][a] = z]
  <1>2. d = [c EXCEPT !["token"][s] = x, !["receipt"][s] = y, !["token"][a] = z] OBVIOUS
  <1>3. a \in Sides /\ a # s /\ \A t \in Sides : t = s \/ t = a BY <1>1
  <1> HIDE DEF a, d
  <1>4. "token" \in Kinds /\ "receipt" \in Kinds /\ \A k \in Kinds : c[k] \in SideAmounts
    BY SidesAre DEF Stocks
  <1>5. /\ d["token"][s] = x /\ d["receipt"][s] = y /\ d["token"][a] = z
        /\ d["receipt"][a] = c["receipt"][a]
    BY <1>2, <1>3, <1>4 DEF Stocks, SideAmounts
  <1>6. d \in Stocks
    <2> DEFINE t == [c["token"] EXCEPT ![s] = x, ![a] = z]  r == [c["receipt"] EXCEPT ![s] = y]
    <2>1. t \in SideAmounts /\ r \in SideAmounts BY <1>3, <1>4 DEF SideAmounts
    <2>2. d["token"] = t /\ d["receipt"] = r /\ DOMAIN d = Kinds
      BY <1>2, <1>3, <1>4 DEF Stocks, SideAmounts
    <2>3. d = [k \in Kinds |-> d[k]] BY <1>2 DEF Stocks
    <2> HIDE DEF t, r
    <2>4. \A k \in Kinds : d[k] \in SideAmounts BY <2>1, <2>2, SidesAre
    <2>5. QED BY <2>3, <2>4 DEF Stocks
  <1>7. QED BY <1>5, <1>6 DEF a, d, TakenFrom

\* What a fill takes: there on every account of it.
LEMMA TakeIsThere ==
  ASSUME ProvideInv, NEW i \in DOMAIN offers, NEW s \in Sides, NEW paid \in Payments, Take(i, s, paid)
  PROVE  LET out == Curve(offers[i], s, paid)
             deficit == Deficit(s, out)
         IN
         /\ i \in 1..Len(offers) /\ offers[i] \in Mandated
         /\ out \in Nat /\ deficit \in Nat /\ paid \in Nat
         /\ capital["token"][s] + deficit - out \in Nat /\ capital["receipt"][s] - deficit \in Nat
         /\ granted["token"][s] - out \in Nat /\ granted["receipt"][s] - deficit \in Nat
         /\ offers[i].ledger["token"][s] - out \in Nat
         /\ offers[i].ledger["receipt"][s] - deficit \in Nat
         /\ offers[i].named = FALSE => deficit = 0
  <1> DEFINE o == offers[i]  out == Curve(o, s, paid)  deficit == Deficit(s, out)
  <1>1. /\ Quotes(o, s, paid) /\ Pullable(o, s, out) /\ Coverable(o, s, deficit)
    BY DEF Take
  <1>2. i \in 1..Len(offers) BY ProvideParts
  <1>3. o \in Mandated /\ Backed(o, granted) BY <1>2 DEF ProvideInv
  <1>4. capital \in Stocks /\ granted \in Stocks BY ProvideParts
  <1>5. out = Curve(o, s, paid) /\ o.ledger \in Stocks /\ o.named \in BOOLEAN BY <1>3 DEF Mandated
  <1> HIDE DEF o
  <1>6. deficit = Deficit(s, out) OBVIOUS
  <1>7. /\ out \in Nat /\ out =< o.ledger["token"][s] /\ deficit \in Nat
    BY <1>1, <1>3, <1>4, <1>5, QuotedIsLedgered
  <1> HIDE DEF out, deficit
  <1>8. /\ capital["token"][s] \in Nat /\ capital["receipt"][s] \in Nat
        /\ granted["token"][s] \in Nat /\ granted["receipt"][s] \in Nat
        /\ o.ledger["token"][s] \in Nat /\ o.ledger["receipt"][s] \in Nat
    BY <1>4, <1>5, StocksAre
  <1>9. o.ledger["receipt"][s] >= deficit /\ capital["receipt"][s] >= deficit BY <1>1 DEF Coverable
  <1>10. granted["token"][s] >= out /\ (o.named => granted["receipt"][s] >= deficit)
    BY <1>1, <1>6 DEF Pullable
  <1>11. o.named = FALSE => deficit = 0
    <2>1. o.named = FALSE => o.ledger["receipt"][s] = 0 BY <1>3 DEF Backed
    <2>2. QED BY <1>7, <1>9, <2>1
  <1>12. capital["token"][s] + deficit - out \in Nat BY <1>7, <1>8, <1>6 DEF Deficit
  <1>13. granted["receipt"][s] - deficit \in Nat
    <2>1. CASE o.named BY <1>7, <1>8, <1>10, <2>1
    <2>2. CASE o.named = FALSE BY <1>7, <1>8, <1>11, <2>2
    <2>3. QED BY <1>5, <2>1, <2>2
  <1>14. /\ capital["receipt"][s] - deficit \in Nat /\ granted["token"][s] - out \in Nat
         /\ o.ledger["token"][s] - out \in Nat /\ o.ledger["receipt"][s] - deficit \in Nat
    BY <1>7, <1>8, <1>9, <1>10
  <1>15. paid \in Nat BY ProvideBounds
  <1>16. QED BY <1>2, <1>3, <1>7, <1>11, <1>12, <1>13, <1>14, <1>15 DEF o, out, deficit

\* Another fill or spending: what was read or pressed is then known to be old.
LEMMA OldNews ==
  ASSUME ProvideInv, NEW c, NEW p, p.takesAt = ship.takesAt, p.idleAt = ship.idleAt
  PROVE  /\ SeenHolds(seen, c, takes + 1, agentMoves, origin)
         /\ PressHolds(p, c, takes + 1, agentMoves, origin)
  <1>1. /\ seen.takesAt \in Nat /\ seen.marketTakesAt \in Nat /\ ship.takesAt \in Nat /\ takes \in Nat
    BY ProvideParts DEF Readings, ShipPresses
  <1>2. SeenHolds(seen, capital, takes, agentMoves, origin)
        /\ PressHolds(ship, capital, takes, agentMoves, origin)
    BY ProvideParts
  <1>3. /\ seen.idleAt =< agentMoves /\ seen.marketAt =< agentMoves /\ seen.takesAt =< takes
        /\ seen.marketTakesAt =< takes /\ ship.idleAt =< agentMoves /\ ship.takesAt =< takes
        /\ (seen.named = FALSE => seen.working = 0)
        /\ (origin = "wallet" => seen.named = FALSE /\ agentMoves = 0)
    BY <1>2 DEF SeenHolds, PressHolds
  <1>4. /\ seen.takesAt # takes + 1 /\ seen.marketTakesAt # takes + 1 /\ p.takesAt # takes + 1
        /\ seen.takesAt =< takes + 1 /\ seen.marketTakesAt =< takes + 1 /\ p.takesAt =< takes + 1
    BY <1>1, <1>3
  <1>5. SeenHolds(seen, c, takes + 1, agentMoves, origin) BY <1>3, <1>4 DEF SeenHolds
  <1>6. PressHolds(p, c, takes + 1, agentMoves, origin) BY <1>3, <1>4 DEF PressHolds
  <1>7. QED BY <1>5, <1>6

LEMMA TakeStep ==
  ASSUME ProvideInv, NEW i \in DOMAIN offers, NEW s \in Sides, NEW paid \in Payments, Take(i, s, paid)
  PROVE  ProvideInv'
  <1> DEFINE o == offers[i]
             out == Curve(o, s, paid)
             deficit == Deficit(s, out)
             l == [o.ledger EXCEPT !["token"][s] = @ - out, !["receipt"][s] = @ - deficit,
                                   !["token"][Across(s)] = @ + paid]
             n == [o EXCEPT !.ledger = l, !.touched = @ \cup {Across(s)}]
  <1>1. /\ takes' = takes + 1
        /\ capital' = [capital EXCEPT !["token"][s] = @ + deficit - out, !["receipt"][s] = @ - deficit,
                                      !["token"][Across(s)] = @ + paid]
        /\ granted' = [granted EXCEPT !["token"][s] = @ - out, !["receipt"][s] = @ - deficit]
        /\ offers' = [j \in DOMAIN offers |-> IF j = i THEN n
                         ELSE [offers[j] EXCEPT !.touched = @ \cup {s}]]
        /\ ship' = [ship EXCEPT !.touched = @ \cup (ship.approved \cap {s})]
        /\ UNCHANGED <<origin, seen, ships, agentMoves, hollow>>
    BY DEF Take
  <1> HIDE DEF n
  <1>2. /\ i \in 1..Len(offers) /\ o \in Mandated
        /\ out \in Nat /\ deficit \in Nat /\ paid \in Nat
        /\ capital["token"][s] + deficit - out \in Nat /\ capital["receipt"][s] - deficit \in Nat
        /\ granted["token"][s] - out \in Nat /\ granted["receipt"][s] - deficit \in Nat
        /\ o.ledger["token"][s] - out \in Nat /\ o.ledger["receipt"][s] - deficit \in Nat
        /\ o.named = FALSE => deficit = 0
    BY TakeIsThere
  <1>3. /\ Across(s) \in Sides /\ Across(s) # s /\ "token" \in Kinds /\ "receipt" \in Kinds
        /\ \A t \in Sides : t = s \/ t = Across(s)
    BY SidesAre
  <1>4. capital \in Stocks /\ granted \in Stocks /\ offers \in Seq(Mandated)
        /\ \A j \in 1..Len(offers) : Backed(offers[j], granted)
    BY DEF ProvideInv
  <1>5. o.ledger \in Stocks BY <1>2 DEF Mandated
  <1>6. l = [o.ledger EXCEPT !["token"][s] = @ - out, !["receipt"][s] = @ - deficit,
                              !["token"][Across(s)] = @ + paid]
    OBVIOUS
  <1> HIDE DEF o, out, deficit, l
  <1>7. n = [o EXCEPT !.ledger = l, !.touched = @ \cup {Across(s)}] BY DEF n, l
  <1>8. /\ n.ledger = l /\ n.named = o.named /\ n.touched = o.touched \cup {Across(s)}
        /\ l \in Stocks => n \in Mandated
    BY <1>2, <1>3, <1>7 DEF Mandated
  <1> DEFINE a == Across(s)
  <1>9. /\ capital["token"][a] + paid \in Nat /\ o.ledger["token"][a] + paid \in Nat
        /\ granted["token"][a] \in Nat
    <2>1. a \in Sides BY <1>3
    <2> HIDE DEF a
    <2>2. /\ capital["token"][a] \in Nat /\ o.ledger["token"][a] \in Nat
          /\ granted["token"][a] \in Nat
      BY <1>4, <1>5, <2>1, StocksAre
    <2>3. paid \in Nat BY ProvideBounds
    <2>4. QED BY <2>2, <2>3
  <1>10. capital' \in Stocks
    <2> DEFINE x == capital["token"][s] + deficit - out  y == capital["receipt"][s] - deficit
               z == capital["token"][a] + paid
    <2>1. x \in Nat /\ y \in Nat /\ z \in Nat BY <1>2, <1>9
    <2>2. capital' = TakenFrom(capital, s, x, y, z)
      BY <1>1, <1>3, <1>4 DEF Stocks, SideAmounts, TakenFrom
    <2> HIDE DEF x, y, z
    <2>3. QED BY <1>4, <2>1, <2>2, TakenOut
  <1> DEFINE g == granted'
  <1>11. g \in Stocks /\ g["token"][s] = granted["token"][s] - out
        /\ g["receipt"][s] = granted["receipt"][s] - deficit
        /\ \A k \in Kinds : g[k][a] = granted[k][a]
    <2> DEFINE x == granted["token"][s] - out  y == granted["receipt"][s] - deficit
               z == granted["token"][a]
    <2>1. x \in Nat /\ y \in Nat /\ z \in Nat BY <1>2, <1>9
    <2>2. g = TakenFrom(granted, s, x, y, z)
      BY <1>1, <1>3, <1>4 DEF Stocks, SideAmounts, TakenFrom
    <2> HIDE DEF g
    <2>3. /\ g \in Stocks /\ g["token"][s] = x /\ g["receipt"][s] = y /\ g["token"][a] = z
          /\ g["receipt"][a] = granted["receipt"][a]
      <3> DEFINE e == TakenFrom(granted, s, x, y, z)
      <3> HIDE DEF x, y, z
      <3>1. /\ e \in Stocks /\ e["token"][s] = x /\ e["receipt"][s] = y /\ e["token"][Across(s)] = z
            /\ e["receipt"][Across(s)] = granted["receipt"][Across(s)]
        <4>1. granted \in Stocks BY <1>4
        <4>2. x \in Nat /\ y \in Nat /\ z \in Nat BY <2>1
        <4> HIDE DEF e, a
        <4>3. QED BY <4>1, <4>2, TakenOut DEF e
      <3>2. g = e BY <2>2
      <3> HIDE DEF e
      <3>3. QED BY <3>1, <3>2
    <2>4. QED BY <2>3, SidesAre
  <1>12. l \in Stocks /\ l["token"][s] = o.ledger["token"][s] - out
         /\ l["receipt"][s] = o.ledger["receipt"][s] - deficit
         /\ l["receipt"][Across(s)] = o.ledger["receipt"][Across(s)]
    <2> DEFINE x == o.ledger["token"][s] - out  y == o.ledger["receipt"][s] - deficit
               z == o.ledger["token"][a] + paid  b == o.ledger
    <2>1. x \in Nat /\ y \in Nat /\ z \in Nat BY <1>2, <1>9
    <2>2. b \in Stocks BY <1>5
    <2>3. l = TakenFrom(b, s, x, y, z)
      BY <1>6, <1>3, <1>5 DEF Stocks, SideAmounts, TakenFrom
    <2>4. /\ l \in Stocks /\ l["token"][s] = x /\ l["receipt"][s] = y
          /\ l["receipt"][Across(s)] = b["receipt"][Across(s)]
      <3> DEFINE e == TakenFrom(b, s, x, y, z)
      <3> HIDE DEF x, y, z, b
      <3>1. /\ e \in Stocks /\ e["token"][s] = x /\ e["receipt"][s] = y
            /\ e["receipt"][Across(s)] = b["receipt"][Across(s)]
        BY <2>1, <2>2, TakenOut
      <3>2. l = e BY <2>3
      <3> HIDE DEF e
      <3>3. QED BY <3>1, <3>2
    <2>5. QED BY <2>4
  <1> HIDE DEF n, g
  <1>13. n \in Mandated BY <1>8, <1>12
  <1>14. Backed(n, g)
    <2>1. Backed(o, granted) BY <1>2, <1>4 DEF o
    <2>2. o \in Mandated /\ granted \in Stocks /\ g \in Stocks /\ l \in Stocks
          /\ out \in Nat /\ deficit \in Nat
      BY <1>2, <1>4, <1>11, <1>12
    <2>3. o.named = FALSE => deficit = 0 BY <1>2
    <2>4. g["token"][s] = granted["token"][s] - out /\ g["receipt"][s] = granted["receipt"][s] - deficit
      BY <1>11
    <2>5. /\ l["token"][s] = o.ledger["token"][s] - out
          /\ l["receipt"][s] = o.ledger["receipt"][s] - deficit
          /\ l["receipt"][Across(s)] = o.ledger["receipt"][Across(s)]
      BY <1>12
    <2>6. n.ledger = l /\ n.named = o.named /\ n.touched = o.touched \cup {Across(s)} BY <1>8
    <2> HIDE DEF a
    <2>7. ASSUME NEW t \in Sides \ n.touched, NEW k \in Kinds PROVE n.ledger[k][t] =< g[k][t]
      <3>1. t = s /\ s \in Sides \ o.touched BY <1>3, <2>6
      <3>2. /\ o.ledger["token"][s] =< granted["token"][s]
            /\ o.ledger["receipt"][s] =< granted["receipt"][s]
        BY <2>1, <3>1, SidesAre DEF Backed
      <3>3. /\ granted["token"][s] \in Nat /\ granted["receipt"][s] \in Nat
            /\ o.ledger["token"][s] \in Nat /\ o.ledger["receipt"][s] \in Nat
        BY <1>5, <2>2, StocksAre
      <3>4. l["token"][s] =< g["token"][s] /\ l["receipt"][s] =< g["receipt"][s]
        BY <2>2, <2>4, <2>5, <3>2, <3>3
      <3>5. QED BY <2>6, <3>1, <3>4, SidesAre
    <2>8. n.named = FALSE => \A t \in Sides : n.ledger["receipt"][t] = 0
      <3>1. SUFFICES ASSUME o.named = FALSE, NEW t \in Sides PROVE l["receipt"][t] = 0
        BY <2>6
      <3>2. \A u \in Sides : o.ledger["receipt"][u] = 0 BY <2>1, <3>1 DEF Backed
      <3>3. o.ledger["receipt"][s] = 0 /\ o.ledger["receipt"][Across(s)] = 0 /\ deficit = 0
        BY <1>3, <2>3, <3>1, <3>2
      <3>4. l["receipt"][s] = 0 /\ l["receipt"][Across(s)] = 0 BY <2>5, <3>3
      <3>5. t = s \/ t = Across(s) BY <1>3, <3>1
      <3>6. QED BY <3>4, <3>5
    <2>9. QED BY <2>1, <2>6, <2>7, <2>8 DEF Backed
  <1>15. ASSUME NEW j \in 1..Len(offers)
         PROVE  Len(offers') = Len(offers) /\ offers'[j] \in Mandated /\ Backed(offers'[j], g)
                /\ DOMAIN offers' = 1..Len(offers)
    <2>1. DOMAIN offers = 1..Len(offers) /\ Len(offers) \in Nat /\ offers[j] \in Mandated BY <1>4
    <2>2. DOMAIN offers' = 1..Len(offers) /\ Len(offers') = Len(offers) BY <1>1, <2>1
    <2>3. CASE j = i BY <1>1, <1>13, <1>14, <2>1, <2>2, <2>3
    <2>4. CASE j # i
      <3>1. offers'[j] = [offers[j] EXCEPT !.touched = @ \cup {s}] BY <1>1, <2>1, <2>4
      <3>2. /\ offers'[j] \in Mandated /\ offers'[j].ledger = offers[j].ledger
            /\ offers'[j].named = offers[j].named /\ offers'[j].touched = offers[j].touched \cup {s}
        BY <2>1, <3>1 DEF Mandated
      <3> DEFINE q == offers[j]  r == offers'[j]
      <3>3. Backed(q, granted) BY <1>4
      <3>4. r.ledger = q.ledger /\ r.named = q.named /\ r.touched = q.touched \cup {s} BY <3>2
      <3> HIDE DEF q, r
      <3>5. ASSUME NEW t \in Sides \ r.touched, NEW k \in Kinds PROVE r.ledger[k][t] =< g[k][t]
        <4>1. t = a /\ t \in Sides \ q.touched BY <1>3, <3>4 DEF a
        <4>2. g[k][t] = granted[k][t] BY <1>11, <4>1
        <4>3. q.ledger[k][t] =< granted[k][t] BY <3>3, <4>1 DEF Backed
        <4>4. QED BY <3>4, <4>2, <4>3
      <3>6. Backed(r, g) BY <3>3, <3>4, <3>5 DEF Backed
      <3>7. QED BY <2>2, <3>2, <3>6 DEF r
    <2>5. QED BY <2>3, <2>4
  <1>16. offers' \in Seq(Mandated) /\ \A j \in 1..Len(offers') : Backed(offers'[j], g)
    <2>1. DOMAIN offers' = 1..Len(offers) /\ Len(offers') = Len(offers) BY <1>2, <1>15
    <2>2. \A j \in 1..Len(offers) : offers'[j] \in Mandated /\ Backed(offers'[j], g) BY <1>15
    <2>3. offers' = [j \in 1..Len(offers) |-> offers'[j]] BY <1>1, <2>1
    <2>4. offers' \in [1..Len(offers) -> Mandated] BY <2>2, <2>3
    <2>5. Len(offers) \in Nat BY <1>4
    <2>6. offers' \in Seq(Mandated) BY <2>4, <2>5
    <2>7. QED BY <2>1, <2>2, <2>6
  <1> DEFINE p == ship'
  <1>17. /\ p \in ShipPresses /\ p.approved = ship.approved /\ p.amounts = ship.amounts
         /\ p.named = ship.named /\ p.idleAt = ship.idleAt /\ p.takesAt = ship.takesAt
         /\ p.touched = ship.touched \cup (ship.approved \cap {s})
    <2>1. ship \in ShipPresses BY ProvideParts
    <2>2. QED BY <1>1, <2>1 DEF ShipPresses
  <1> HIDE DEF p
  <1>18. Granting(p, g, origin)
    <2>1. Granting(ship, granted, origin) /\ ship \in ShipPresses BY ProvideParts
    <2>2. ASSUME NEW t \in p.approved \ p.touched, NEW k \in Approvable(p.named)
          PROVE  g[k][t] = p.amounts[t]
      <3>1. t \in ship.approved \ ship.touched /\ t # s /\ k \in Approvable(ship.named) BY <1>17
      <3>2. t \in Sides /\ k \in Kinds BY <2>1, <3>1 DEF ShipPresses, Approvable, Kinds
      <3>3. t = a BY <1>3, <3>1, <3>2 DEF a
      <3>4. granted[k][t] = ship.amounts[t] BY <2>1, <3>1 DEF Granting
      <3>5. QED BY <1>11, <1>17, <3>2, <3>3, <3>4
    <2>3. QED BY <1>17, <2>1, <2>2 DEF Granting
  <1>19. /\ SeenHolds(seen, capital', takes + 1, agentMoves, origin)
         /\ PressHolds(p, capital', takes + 1, agentMoves, origin)
    BY <1>17, OldNews
  <1>20. takes + 1 \in Nat BY ProvideParts
  <1>21. QED BY <1>1, <1>10, <1>11, <1>16, <1>17, <1>18, <1>19, <1>20
         DEF ProvideInv, ShipsWithinReach, p, g

LEMMA DockOfferStep ==
  ASSUME ProvideInv, NEW i \in DOMAIN offers, DockOffer(i)
  PROVE  ProvideInv'
  <1> DEFINE none == [k \in Kinds |-> Both(0)]
             n == [offers[i] EXCEPT !.live = FALSE, !.ledger = none]
  <1>1. offers' = [offers EXCEPT ![i].live = FALSE, ![i].ledger = none]
        /\ UNCHANGED <<origin, capital, granted, seen, ship, ships, takes, agentMoves, hollow>>
    BY DEF DockOffer
  <1>2. /\ offers \in Seq(Mandated) /\ granted \in Stocks
        /\ \A j \in 1..Len(offers) : Backed(offers[j], granted)
    BY DEF ProvideInv
  <1>3. i \in 1..Len(offers) /\ offers[i] \in Mandated BY <1>2
  <1>4. none \in Stocks /\ \A k \in Kinds, s \in Sides : none[k][s] = 0
    BY DEF Stocks, SideAmounts, Both
  <1> HIDE DEF none
  <1>5. n \in Mandated /\ n.ledger = none BY <1>3, <1>4 DEF Mandated
  <1>6. /\ Len(offers') = Len(offers) /\ DOMAIN offers' = DOMAIN offers /\ offers'[i] = n
        /\ \A j \in 1..Len(offers) : j # i => offers'[j] = offers[j]
    BY <1>1, <1>2, <1>3
  <1> HIDE DEF n
  <1>7. Backed(n, granted)
    <2>1. \A k \in Kinds, s \in Sides : granted[k][s] \in Nat BY <1>2, StocksAre
    <2>2. \A k \in Kinds, s \in Sides : n.ledger[k][s] = 0 BY <1>4, <1>5
    <2>3. \A k \in Kinds, s \in Sides : n.ledger[k][s] =< granted[k][s] BY <2>1, <2>2
    <2>4. QED BY <2>2, <2>3, SidesAre DEF Backed
  <1>8. \A j \in 1..Len(offers) : offers'[j] \in Mandated /\ Backed(offers'[j], granted)
    BY <1>2, <1>5, <1>6, <1>7
  <1>9. offers' \in Seq(Mandated)
    <2>1. DOMAIN offers' = 1..Len(offers) /\ Len(offers) \in Nat BY <1>2, <1>6
    <2>2. offers' = [j \in 1..Len(offers) |-> offers'[j]] BY <1>1, <2>1
    <2>3. offers' \in [1..Len(offers) -> Mandated] BY <1>8, <2>2
    <2>4. QED BY <2>1, <2>3
  <1>10. \A j \in 1..Len(offers') : Backed(offers'[j], granted) BY <1>6, <1>8
  <1>11. QED BY <1>1, <1>9, <1>10 DEF ProvideInv, ShipsWithinReach

LEMMA SpendIdleStep ==
  ASSUME ProvideInv, NEW s \in Sides, SpendIdle(s)
  PROVE  ProvideInv'
  <1>1. /\ takes' = takes + 1 /\ capital["token"][s] > 0
        /\ capital' = [capital EXCEPT !["token"][s] = @ - 1]
        /\ UNCHANGED <<origin, granted, offers, seen, ship, ships, agentMoves, hollow>>
    BY DEF SpendIdle
  <1>2. capital \in Stocks /\ takes \in Nat BY ProvideParts
  <1>3. capital["token"][s] \in Nat BY <1>2, StocksAre
  <1> DEFINE x == capital["token"][s] - 1
  <1>4. x \in Nat BY <1>1, <1>3
  <1>5. capital' = [capital EXCEPT !["token"][s] = x] BY <1>1
  <1> HIDE DEF x
  <1>6. capital' \in Stocks BY <1>2, <1>4, <1>5, SidesAre DEF Stocks, SideAmounts
  <1>7. /\ SeenHolds(seen, capital', takes + 1, agentMoves, origin)
        /\ PressHolds(ship, capital', takes + 1, agentMoves, origin)
    BY OldNews
  <1>8. takes + 1 \in Nat BY <1>2
  <1>9. QED BY <1>1, <1>6, <1>7, <1>8 DEF ProvideInv, ShipsWithinReach

LEMMA AgentMovesStep ==
  ASSUME ProvideInv, NEW from \in Kinds, NEW to \in Kinds, NEW s \in Sides, AgentMoves(from, to, s)
  PROVE  ProvideInv'
  <1>1. PICK x \in 1..capital[from][s] :
          /\ origin = "account" /\ from # to /\ agentMoves' = agentMoves + 1
          /\ capital' = [capital EXCEPT ![from][s] = @ - x, ![to][s] = @ + x]
          /\ UNCHANGED <<origin, granted, offers, seen, ship, ships, takes, hollow>>
    BY DEF AgentMoves
  <1>2. capital \in Stocks /\ takes \in Nat /\ agentMoves \in Nat BY ProvideParts
  <1>3. capital[from][s] \in Nat /\ capital[to][s] \in Nat BY <1>2, StocksAre
  <1> DEFINE c == capital'  y == capital[from][s] - x  z == capital[to][s] + x
  <1>4. y \in Nat /\ z \in Nat /\ y + z = capital[from][s] + capital[to][s] BY <1>3
  <1>5. c = [capital EXCEPT ![from][s] = y, ![to][s] = z] BY <1>1, <1>2 DEF Stocks, SideAmounts
  <1> HIDE DEF c, y, z
  <1>6. c \in Stocks BY <1>2, <1>4, <1>5 DEF Stocks, SideAmounts
  <1>7. c[from][s] = y /\ c[to][s] = z
        /\ \A k \in Kinds, t \in Sides : t # s => c[k][t] = capital[k][t]
    BY <1>1, <1>2, <1>5 DEF Stocks, SideAmounts
  <1>8. \A t \in Sides : c["token"][t] + c["receipt"][t]
                         = capital["token"][t] + capital["receipt"][t]
    <2>1. TAKE t \in Sides
    <2>2. CASE t # s BY <1>7, <2>2, SidesAre
    <2>3. CASE t = s
      <3>1. CASE from = "token" /\ to = "receipt" BY <1>4, <1>7, <2>3, <3>1
      <3>2. CASE from = "receipt" /\ to = "token"
        <4>1. c["receipt"][t] = y /\ c["token"][t] = z BY <1>7, <2>3, <3>2
        <4>2. y + z = capital["receipt"][t] + capital["token"][t] BY <1>4, <2>3, <3>2
        <4>3. capital["receipt"][t] \in Nat /\ capital["token"][t] \in Nat BY <1>2, StocksAre
        <4>4. QED BY <1>4, <4>1, <4>2, <4>3
      <3>3. QED BY <1>1, <3>1, <3>2, SidesAre
    <2>4. QED BY <2>2, <2>3
  <1>9. SeenHolds(seen, c, takes, agentMoves + 1, origin)
    <2>1. SeenHolds(seen, capital, takes, agentMoves, origin) /\ seen \in Readings BY ProvideParts
    <2>2. seen.idleAt \in Int /\ seen.marketAt \in Int BY <2>1 DEF Readings
    <2>3. seen.idleAt =< agentMoves /\ seen.marketAt =< agentMoves BY <2>1 DEF SeenHolds
    <2>4. /\ seen.idleAt =< agentMoves + 1 /\ seen.marketAt =< agentMoves + 1
          /\ seen.idleAt # agentMoves + 1 /\ seen.marketAt # agentMoves + 1
      BY <1>2, <2>2, <2>3
    <2>5. origin # "wallet" BY <1>1
    <2>6. "usdc" \in Sides BY SidesAre
    <2>7. QED BY <1>8, <2>1, <2>4, <2>5, <2>6 DEF SeenHolds
  <1>10. PressHolds(ship, c, takes, agentMoves + 1, origin)
    <2>1. PressHolds(ship, capital, takes, agentMoves, origin) /\ ship \in ShipPresses BY ProvideParts
    <2>2. ship.idleAt \in Int /\ ship.idleAt =< agentMoves BY <2>1 DEF ShipPresses, PressHolds
    <2>3. ship.idleAt =< agentMoves + 1 /\ ship.idleAt # agentMoves + 1 BY <1>2, <2>2
    <2>4. SUFFICES ASSUME ship.takesAt = takes, origin = "account" => ship.idleAt = ship.marketAt,
                          ship.named = TRUE, NEW t \in Sides
                   PROVE  ship.amounts[t] =< c["token"][t] + (IF ship.named THEN c["receipt"][t] ELSE 0)
      BY <2>1, <2>3 DEF PressHolds
    <2>5. ship.amounts[t] =< capital["token"][t] + (IF ship.named THEN capital["receipt"][t] ELSE 0)
      BY <2>1, <2>4 DEF PressHolds
    <2>6. QED BY <1>8, <2>4, <2>5
  <1>11. agentMoves + 1 \in Nat BY <1>2
  <1>12. QED BY <1>1, <1>6, <1>9, <1>10, <1>11 DEF ProvideInv, ShipsWithinReach, c

-----------------------------------------------------------------------------
(* The whole. *)

LEMMA ProvideStarts == ProvideInit => ProvideInv
  <1> SUFFICES ASSUME ProvideInit PROVE ProvideInv
    OBVIOUS
  <1>1. origin \in {"account", "wallet"} BY ProvideBounds DEF ProvideInit
  <1>2. Both(Capital) \in SideAmounts /\ Both(0) \in SideAmounts BY ProvideBounds DEF Both, SideAmounts
  <1>3. capital \in Stocks /\ granted \in Stocks BY <1>2 DEF ProvideInit, Stocks
  <1>4. offers = <<>> /\ ship = NoShip /\ ships = 0 /\ takes = 0 /\ agentMoves = 0 /\ hollow = {}
    BY DEF ProvideInit
  <1>5. offers \in Seq(Mandated) /\ Len(offers) = 0 BY <1>4
  <1>6. ships \in 0..MaxShips BY <1>4, ProvideBounds
  <1>7. seen = [idle |-> Both(0), working |-> 0, named |-> FALSE, idleAt |-> Unseen,
                marketAt |-> Unseen, takesAt |-> 0, marketTakesAt |-> 0]
    BY DEF ProvideInit
  <1>8. seen \in Readings BY <1>2, <1>7 DEF Readings, Unseen
  <1>9. SeenHolds(seen, capital, takes, agentMoves, origin) BY <1>4, <1>7 DEF SeenHolds, Unseen
  <1>10. 0 \in Nat OBVIOUS
  <1>11. NoShip \in ShipPresses /\ Granting(NoShip, granted, origin)
         /\ PressHolds(NoShip, capital, takes, agentMoves, origin)
    BY <1>3, <1>4, <1>10, NoShipHolds
  <1>12. QED BY <1>1, <1>3, <1>4, <1>5, <1>6, <1>8, <1>9, <1>11 DEF ProvideInv, ShipsWithinReach

LEMMA ProvideStep == ProvideInv /\ [ProvideNext]_provideVars => ProvideInv'
  <1> SUFFICES ASSUME ProvideInv, [ProvideNext]_provideVars PROVE ProvideInv'
    OBVIOUS
  <1>1. CASE UNCHANGED provideVars BY <1>1 DEF provideVars, ProvideInv, ShipsWithinReach
  <1>2. CASE ReadIdle BY <1>2, ReadIdleStep
  <1>3. CASE ReadMarkets BY <1>3, ReadMarketsStep
  <1>4. CASE \E typed \in Ceilings : PressShip(typed) BY <1>4, PressShipStep
  <1>5. CASE BatchLands BY <1>5, BatchStep
  <1>6. CASE ShipLands BY <1>6, ShipLandsStep
  <1>7. CASE GivesUp BY <1>7, GivesUpStep
  <1>8. ASSUME NEW s \in Sides, ApproveSide(s) PROVE ProvideInv' BY <1>8, ApproveSideStep
  <1>9. ASSUME NEW s \in Sides, SpendIdle(s) PROVE ProvideInv' BY <1>9, SpendIdleStep
  <1>10. ASSUME NEW s \in Sides, NEW from \in Kinds, NEW to \in Kinds, AgentMoves(from, to, s)
         PROVE  ProvideInv'
    BY <1>10, AgentMovesStep
  <1>11. ASSUME NEW i \in DOMAIN offers, DockOffer(i) PROVE ProvideInv' BY <1>11, DockOfferStep
  <1>12. ASSUME NEW i \in DOMAIN offers, NEW s \in Sides, NEW paid \in Payments, Take(i, s, paid)
         PROVE  ProvideInv'
    BY <1>12, TakeStep
  <1>13. QED BY <1>1, <1>2, <1>3, <1>4, <1>5, <1>6, <1>7, <1>8, <1>9, <1>10, <1>11, <1>12
         DEF ProvideNext

LEMMA ProvideIsKept == ProvideSpec => []ProvideInv
  BY ProvideStarts, ProvideStep, PTL DEF ProvideSpec

\* The cards' states have their types.
THEOREM ProvideTypeCorrect == ProvideSpec => []ProvideTypeOK
  <1>1. ProvideInv => ProvideTypeOK
    <2> SUFFICES ASSUME ProvideInv PROVE ProvideTypeOK
      OBVIOUS
    <2>1. capital \in Stocks /\ granted \in Stocks /\ ships \in 0..MaxShips /\ ship \in ShipPresses
          /\ offers \in Seq(Mandated)
      BY DEF ProvideInv
    <2>2. ship.approved \subseteq Sides BY <2>1 DEF ShipPresses
    <2>3. \A i \in DOMAIN offers : offers[i].ledger \in Stocks /\ offers[i].touched \subseteq Sides
      <3>1. TAKE i \in DOMAIN offers
      <3>2. offers[i] \in Mandated BY <2>1
      <3>3. QED BY <3>2 DEF Mandated
    <2>4. QED BY <2>1, <2>2, <2>3 DEF ProvideTypeOK, Stocks, SideAmounts
  <1>2. QED BY <1>1, ProvideIsKept, PTL

\* What either card says of a ship: an untouched side of a live mandate is pullable as quoted, and
\* a mandate ships beyond its maker's reach only after a spending, or a move of the agent between
\* the reads or away from a market it does not name.
THEOREM ShipsKeepWord == ProvideSpec => []ShipsKeepTheirWord
  <1>1. ProvideInv => ShipsKeepTheirWord BY PullableThen DEF ShipsKeepTheirWord, ProvideInv
  <1>2. QED BY <1>1, ProvideIsKept, PTL

-----------------------------------------------------------------------------
(***************************************************************************)
(* The value line.  Over the whole log, as nobody reads it, the steps of   *)
(* the rows up to a transaction add up to what the account was worth       *)
(* after it, and rows lie in the order of their transactions.  So the      *)
(* rows between two drawn points are all in the answer if none of them is  *)
(* undated, with every move that says whose a payout was.                  *)
(***************************************************************************)

LEMMA HistoryBounds ==
    /\ IsFiniteSet(Payers) /\ "nobody" \notin Payers /\ PAYS_FROM \subseteq Payers
    /\ RowLimit \in Nat \ {0} /\ MoneyMoved \subseteq Nat \ {0}
    /\ MaxTransactions \in Nat /\ MaxEarned \in Nat
  BY HistoryAssumption DEF HistoryAssumption

Row == [kind : {"in", "out", "moved", "venue"}, units : Nat, into : BOOLEAN,
        asset : {"usdc", "weth", "none"}, redeemed : BOOLEAN,
        tx : 1..MaxTransactions, dated : BOOLEAN]

IsOwnMove(e) == e.kind = "moved" /\ ~e.into /\ e.asset = "usdc"
OwnOf(l) == {l[k].tx : k \in {d \in DOMAIN l : IsOwnMove(l[d])}}
WorkOf(e, own) ==
    CASE e.kind = "moved" /\ e.asset = "usdc" -> IF e.into THEN e.units ELSE -e.units
      [] e.kind = "in" /\ e.redeemed /\ e.tx \notin own -> -e.units
      [] OTHER -> 0
StepTo(e, own) == LiquidStep(e) + WorkOf(e, own)
RowSteps(l) == [k \in DOMAIN l |-> StepTo(l[k], OwnOf(l))]
UpTo(l, j) == {k \in DOMAIN l : l[k].tx =< j}
ValueOf(p, j) == IF j = 0 THEN 0 ELSE p[j]

\* Rows in order, each of a transaction there was, and adding up.
LineFits(l, p) ==
    /\ \A k \in DOMAIN l : l[k].tx =< Len(p)
    /\ \A k, m \in DOMAIN l : k < m => l[k].tx =< l[m].tx
    /\ \A j \in 0..Len(p) : SumOf(RowSteps(l), UpTo(l, j)) = ValueOf(p, j)

LEMMA StepIsInt ==
  ASSUME NEW e \in Row, NEW own
  PROVE  LiquidStep(e) \in Int /\ WorkOf(e, own) \in Int /\ StepTo(e, own) \in Int
  <1>1. e.units \in Nat BY DEF Row
  <1>2. LiquidStep(e) \in Int BY <1>1 DEF LiquidStep
  <1>3. WorkOf(e, own) \in Int BY <1>1 DEF WorkOf
  <1>4. QED BY <1>2, <1>3 DEF StepTo

\* Only whether a row's own transaction moved capital out matters.
LEMMA StepLooks ==
  ASSUME NEW e, NEW own, NEW other, e.tx \in own <=> e.tx \in other
  PROVE  WorkOf(e, own) = WorkOf(e, other) /\ StepTo(e, own) = StepTo(e, other)
  <1>1. WorkOf(e, own) = WorkOf(e, other) BY DEF WorkOf
  <1>2. QED BY <1>1 DEF StepTo

LEMMA RowsAre ==
  ASSUME NEW l \in Seq(Row)
  PROVE  /\ Len(l) \in Nat /\ DOMAIN l = 1..Len(l) /\ IsFiniteSet(DOMAIN l)
         /\ \A k \in DOMAIN l : /\ k \in Nat /\ l[k] \in Row /\ l[k].tx \in Nat
                               /\ RowSteps(l)[k] = StepTo(l[k], OwnOf(l)) /\ RowSteps(l)[k] \in Int
         /\ \A j : UpTo(l, j) \subseteq DOMAIN l /\ IsFiniteSet(UpTo(l, j))
  <1>1. Len(l) \in Nat /\ DOMAIN l = 1..Len(l) OBVIOUS
  <1>2. IsFiniteSet(DOMAIN l) BY <1>1, FS_Interval
  <1>3. ASSUME NEW k \in DOMAIN l
        PROVE  /\ k \in Nat /\ l[k] \in Row /\ l[k].tx \in Nat
               /\ RowSteps(l)[k] = StepTo(l[k], OwnOf(l)) /\ RowSteps(l)[k] \in Int
    <2>1. k \in Nat /\ l[k] \in Row BY <1>1
    <2>2. l[k].tx \in Nat BY <2>1 DEF Row
    <2>3. RowSteps(l)[k] = StepTo(l[k], OwnOf(l)) BY DEF RowSteps
    <2>4. QED BY <2>1, <2>2, <2>3, StepIsInt
  <1>4. \A j : UpTo(l, j) \subseteq DOMAIN l BY DEF UpTo
  <1>5. \A j : IsFiniteSet(UpTo(l, j)) BY <1>2, <1>4, FS_Subset
  <1>6. QED BY <1>1, <1>2, <1>3, <1>4, <1>5

-----------------------------------------------------------------------------
(* Another transaction. *)

GainOf(r) ==
    CASE Len(r) = 0 -> 0
      [] Len(r) = 1 -> StepTo(r[1], OwnOf(r))
      [] OTHER -> StepTo(r[1], OwnOf(r)) + StepTo(r[2], OwnOf(r))

LEMMA JoinedRows ==
  ASSUME NEW l \in Seq(Row), NEW r \in Seq(Row), NEW n \in Nat,
         \A k \in DOMAIN l : l[k].tx =< n, \A k \in DOMAIN r : r[k].tx = n + 1
  PROVE  /\ l \o r \in Seq(Row) /\ Len(l \o r) = Len(l) + Len(r)
         /\ \A k \in 1..Len(l) : (l \o r)[k] = l[k] /\ RowSteps(l \o r)[k] = RowSteps(l)[k]
         /\ \A k \in 1..Len(r) : /\ (l \o r)[Len(l) + k] = r[k]
                                 /\ RowSteps(l \o r)[Len(l) + k] = StepTo(r[k], OwnOf(r))
  <1> DEFINE m == l \o r
  <1>1. Len(l) \in Nat /\ DOMAIN l = 1..Len(l) /\ Len(r) \in Nat /\ DOMAIN r = 1..Len(r) BY RowsAre
  <1>2. /\ m \in Seq(Row) /\ Len(m) = Len(l) + Len(r) /\ DOMAIN m = 1..(Len(l) + Len(r))
        /\ \A k \in 1..Len(l) : m[k] = l[k]
        /\ \A k \in 1..Len(r) : m[Len(l) + k] = r[k]
    BY <1>1
  <1> HIDE DEF m
  <1>3. ASSUME NEW t \in Nat PROVE t \in OwnOf(m) <=> t \in OwnOf(l) \/ t \in OwnOf(r)
    <2>1. ASSUME t \in OwnOf(m) PROVE t \in OwnOf(l) \/ t \in OwnOf(r)
      <3>1. PICK k \in DOMAIN m : IsOwnMove(m[k]) /\ t = m[k].tx BY <2>1 DEF OwnOf
      <3>2. CASE k \in 1..Len(l) BY <1>1, <1>2, <3>1, <3>2 DEF OwnOf
      <3>3. CASE k \notin 1..Len(l)
        <4>1. k - Len(l) \in 1..Len(r) /\ Len(l) + (k - Len(l)) = k BY <1>1, <1>2, <3>3
        <4>2. m[k] = r[k - Len(l)] BY <1>2, <4>1
        <4>3. QED BY <1>1, <3>1, <4>1, <4>2 DEF OwnOf
      <3>4. QED BY <3>2, <3>3
    <2>2. ASSUME t \in OwnOf(l) PROVE t \in OwnOf(m)
      <3>1. PICK k \in DOMAIN l : IsOwnMove(l[k]) /\ t = l[k].tx BY <2>2 DEF OwnOf
      <3>2. k \in DOMAIN m /\ m[k] = l[k] BY <1>1, <1>2
      <3>3. QED BY <3>1, <3>2 DEF OwnOf
    <2>3. ASSUME t \in OwnOf(r) PROVE t \in OwnOf(m)
      <3>1. PICK k \in DOMAIN r : IsOwnMove(r[k]) /\ t = r[k].tx BY <2>3 DEF OwnOf
      <3>2. Len(l) + k \in DOMAIN m /\ m[Len(l) + k] = r[k] BY <1>1, <1>2
      <3>3. QED BY <3>1, <3>2 DEF OwnOf
    <2>4. QED BY <2>1, <2>2, <2>3
  <1>4. \A t \in OwnOf(l) : t \in Nat /\ t =< n
    <2>1. TAKE t \in OwnOf(l)
    <2>2. PICK k \in DOMAIN l : t = l[k].tx BY DEF OwnOf
    <2>3. QED BY <2>2, RowsAre
  <1>5. \A t \in OwnOf(r) : t = n + 1
    <2>1. TAKE t \in OwnOf(r)
    <2>2. PICK k \in DOMAIN r : t = r[k].tx BY DEF OwnOf
    <2>3. QED BY <2>2
  <1>6. ASSUME NEW k \in 1..Len(l) PROVE RowSteps(m)[k] = RowSteps(l)[k]
    <2>1. k \in DOMAIN m /\ k \in DOMAIN l /\ m[k] = l[k] BY <1>1, <1>2
    <2>2. l[k].tx \in Nat /\ l[k].tx =< n BY <2>1, RowsAre
    <2>3. l[k].tx # n + 1 BY <2>2
    <2>4. l[k].tx \in OwnOf(m) <=> l[k].tx \in OwnOf(l) BY <1>3, <1>5, <2>2, <2>3
    <2>5. StepTo(l[k], OwnOf(m)) = StepTo(l[k], OwnOf(l)) BY <2>4, StepLooks
    <2>6. QED BY <2>1, <2>5 DEF RowSteps
  <1>7. ASSUME NEW k \in 1..Len(r) PROVE RowSteps(m)[Len(l) + k] = StepTo(r[k], OwnOf(r))
    <2>1. Len(l) + k \in DOMAIN m /\ k \in DOMAIN r /\ m[Len(l) + k] = r[k] BY <1>1, <1>2
    <2>2. r[k].tx = n + 1 /\ n + 1 \in Nat /\ n + 1 \notin OwnOf(l) BY <1>4, <2>1
    <2>3. r[k].tx \in OwnOf(m) <=> r[k].tx \in OwnOf(r) BY <1>3, <2>2
    <2>4. StepTo(r[k], OwnOf(m)) = StepTo(r[k], OwnOf(r)) BY <2>3, StepLooks
    <2>5. QED BY <2>1, <2>4 DEF RowSteps
  <1>8. QED BY <1>2, <1>6, <1>7 DEF m

LEMMA OneMore ==
  ASSUME NEW l \in Seq(Row), NEW p \in Seq(Int), LineFits(l, p),
         NEW r \in Seq(Row), Len(r) \in 0..2, \A k \in DOMAIN r : r[k].tx = Len(p) + 1,
         NEW w \in Int, w = ValueOf(p, Len(p)) + GainOf(r)
  PROVE  LineFits(l \o r, Append(p, w))
  <1> DEFINE m == l \o r  q == Append(p, w)  n == Len(p)  f == RowSteps(m)
  <1>1. /\ Len(l) \in Nat /\ DOMAIN l = 1..Len(l) /\ IsFiniteSet(DOMAIN l)
        /\ Len(r) \in Nat /\ DOMAIN r = 1..Len(r) /\ n \in Nat
    BY RowsAre
  <1>2. /\ Len(q) = n + 1 /\ q[n + 1] = w /\ \A j \in 1..n : q[j] = p[j]
    OBVIOUS
  <1>3. \A k \in DOMAIN l : l[k].tx =< n BY DEF LineFits
  <1>4. /\ m \in Seq(Row) /\ Len(m) = Len(l) + Len(r)
        /\ \A k \in 1..Len(l) : m[k] = l[k] /\ f[k] = RowSteps(l)[k]
        /\ \A k \in 1..Len(r) : m[Len(l) + k] = r[k] /\ f[Len(l) + k] = StepTo(r[k], OwnOf(r))
    BY ZenonT(40), <1>1, <1>3, JoinedRows
  <1> HIDE DEF m, q, n, f
  <1>5. DOMAIN m = 1..(Len(l) + Len(r)) /\ DOMAIN l \subseteq DOMAIN m BY <1>1, <1>4
  <1>6. ASSUME NEW k \in DOMAIN m
        PROVE  /\ m[k].tx \in Nat /\ k \in Nat
               /\ k \in DOMAIN l => m[k] = l[k] /\ m[k].tx =< n
               /\ k \notin DOMAIN l => k > Len(l) /\ m[k].tx = n + 1
    <2>1. m[k].tx \in Nat /\ k \in Nat BY <1>4, RowsAre
    <2>2. k \in DOMAIN l => m[k] = l[k] /\ m[k].tx =< n BY <1>1, <1>3, <1>4
    <2>3. ASSUME k \notin DOMAIN l PROVE k > Len(l) /\ m[k].tx = n + 1
      <3>1. k - Len(l) \in 1..Len(r) /\ Len(l) + (k - Len(l)) = k /\ k > Len(l)
        BY <1>1, <1>5, <2>3
      <3>2. m[k] = r[k - Len(l)] BY <1>4, <3>1
      <3>3. QED BY <1>1, <3>1, <3>2 DEF n
    <2>4. QED BY <2>1, <2>2, <2>3
  <1>7. \A k \in DOMAIN m : m[k].tx =< Len(q)
    <2>1. TAKE k \in DOMAIN m
    <2>2. m[k].tx \in Nat /\ (m[k].tx =< n \/ m[k].tx = n + 1) BY <1>6
    <2>3. QED BY <1>1, <1>2, <2>2
  <1>8. ASSUME NEW k \in DOMAIN m, NEW o \in DOMAIN m, k < o PROVE m[k].tx =< m[o].tx
    <2>1. CASE o \in DOMAIN l
      <3>1. k \in DOMAIN l BY <1>1, <1>6, <1>8, <2>1
      <3>2. l[k].tx =< l[o].tx BY <1>8, <2>1, <3>1 DEF LineFits
      <3>3. QED BY <1>6, <2>1, <3>1, <3>2
    <2>2. CASE o \notin DOMAIN l
      <3>1. m[o].tx = n + 1 /\ m[k].tx \in Nat /\ (m[k].tx =< n \/ m[k].tx = n + 1) BY <1>6, <2>2
      <3>2. QED BY <1>1, <3>1
    <2>3. QED BY <2>1, <2>2
  <1>9. ASSUME NEW j \in 0..n PROVE SumOf(f, UpTo(m, j)) = ValueOf(q, j)
    <2>1. UpTo(m, j) = UpTo(l, j)
      <3>1. \A k \in DOMAIN m : m[k].tx =< j => k \in DOMAIN l BY <1>1, <1>6
      <3>2. QED BY <1>5, <1>6, <3>1 DEF UpTo
    <2>2. /\ UpTo(l, j) \subseteq DOMAIN l /\ IsFiniteSet(UpTo(l, j))
          /\ \A k \in DOMAIN l : RowSteps(l)[k] \in Int
      BY RowsAre
    <2>3. \A k \in UpTo(l, j) : RowSteps(l)[k] \in Int /\ f[k] = RowSteps(l)[k]
      BY <1>1, <1>4, <2>2
    <2>4. SumOf(f, UpTo(l, j)) = SumOf(RowSteps(l), UpTo(l, j)) BY <2>2, <2>3, SumSame
    <2>5. SumOf(RowSteps(l), UpTo(l, j)) = ValueOf(p, j) BY DEF LineFits, n
    <2>6. ValueOf(q, j) = ValueOf(p, j) BY <1>1, <1>2 DEF ValueOf
    <2>7. QED BY <2>1, <2>4, <2>5, <2>6
  <1>10. SumOf(f, UpTo(m, n + 1)) = ValueOf(q, n + 1)
    <2>1. ValueOf(q, n + 1) = w BY <1>1, <1>2 DEF ValueOf
    <2>2. UpTo(m, n + 1) = DOMAIN m
      <3>1. \A k \in DOMAIN m : m[k].tx =< n + 1 BY <1>1, <1>6
      <3>2. QED BY <3>1 DEF UpTo
    <2>3. SumOf(f, DOMAIN l) = ValueOf(p, n)
      <3>1. UpTo(l, n) = DOMAIN l BY <1>3 DEF UpTo
      <3>2. \A k \in DOMAIN l : RowSteps(l)[k] \in Int /\ f[k] = RowSteps(l)[k] BY <1>1, <1>4, RowsAre
      <3>3. SumOf(f, DOMAIN l) = SumOf(RowSteps(l), DOMAIN l) BY <1>1, <3>2, SumSame
      <3>4. n \in 0..n BY <1>1
      <3>5. SumOf(RowSteps(l), UpTo(l, n)) = ValueOf(p, n) BY <3>4 DEF LineFits, n
      <3>6. QED BY <3>1, <3>3, <3>5
    <2>4. /\ \A k \in DOMAIN m : f[k] \in Int
      BY <1>4, RowsAre DEF f
    <2>5. SumOf(f, DOMAIN l) \in Int
      <3>1. \A k \in DOMAIN l : f[k] \in Int BY <1>5, <2>4
      <3>2. QED BY <1>1, <3>1, SumType
    <2>6. CASE Len(r) = 0
      <3>1. DOMAIN m = DOMAIN l BY <1>1, <1>5, <2>6
      <3>2. GainOf(r) = 0 BY <2>6 DEF GainOf
      <3>3. QED BY <2>1, <2>2, <2>3, <2>5, <3>1, <3>2 DEF n
    <2> DEFINE a == Len(l) + 1  b == Len(l) + 2  S == DOMAIN l \cup {a}
    <2>7. a \notin DOMAIN l /\ b \notin S BY <1>1
    <2>8. CASE Len(r) = 1
      <3>1. DOMAIN m = S BY <1>1, <1>5, <2>8
      <3>2. GainOf(r) = StepTo(r[1], OwnOf(r)) BY <2>8 DEF GainOf
      <3>3. f[a] = StepTo(r[1], OwnOf(r)) BY <1>4, <2>8
      <3> HIDE DEF a, b
      <3>4. \A k \in DOMAIN l \cup {a} : f[k] \in Int BY <2>4, <3>1
      <3>5. SumOf(f, S) = f[a] + SumOf(f, DOMAIN l) BY <1>1, <2>7, <3>4, SumGrows
      <3>6. f[a] \in Int BY <3>4
      <3>7. SumOf(f, DOMAIN m) = f[a] + SumOf(f, DOMAIN l) BY <3>1, <3>5
      <3>8. w = ValueOf(p, n) + f[a] BY <3>2, <3>3 DEF n
      <3>9. QED BY <2>1, <2>2, <2>3, <2>5, <3>6, <3>7, <3>8
    <2>9. CASE Len(r) = 2
      <3>1. DOMAIN m = S \cup {b} BY <1>1, <1>5, <2>9
      <3>2. GainOf(r) = StepTo(r[1], OwnOf(r)) + StepTo(r[2], OwnOf(r)) BY <2>9 DEF GainOf
      <3>3. f[a] = StepTo(r[1], OwnOf(r)) /\ f[b] = StepTo(r[2], OwnOf(r)) BY <1>4, <2>9
      <3> HIDE DEF a, b
      <3>4. \A k \in DOMAIN l \cup {a} : f[k] \in Int BY <2>4, <3>1
      <3>5. \A k \in S \cup {b} : f[k] \in Int BY <2>4, <3>1
      <3>6. IsFiniteSet(S) BY <1>1, FS_AddElement
      <3>7. SumOf(f, S) = f[a] + SumOf(f, DOMAIN l) BY <1>1, <2>7, <3>4, SumGrows
      <3> HIDE DEF S
      <3>8. SumOf(f, S \cup {b}) = f[b] + SumOf(f, S) BY <2>7, <3>5, <3>6, SumGrows
      <3>9. f[b] \in Int BY <3>5
      <3>10. f[a] \in Int BY <3>4
      <3>11. SumOf(f, DOMAIN m) = f[b] + (f[a] + SumOf(f, DOMAIN l)) BY <3>1, <3>7, <3>8
      <3>12. w = ValueOf(p, n) + (f[a] + f[b]) BY <3>2, <3>3 DEF n
      <3>13. QED BY <2>1, <2>2, <2>3, <2>5, <3>9, <3>10, <3>11, <3>12
    <2>10. QED BY <2>6, <2>8, <2>9
  <1>11. \A j \in 0..Len(q) : SumOf(f, UpTo(m, j)) = ValueOf(q, j)
    <2>1. \A j \in 0..(n + 1) : j \in 0..n \/ j = n + 1 BY <1>1
    <2>2. QED BY <1>2, <1>9, <1>10, <2>1
  <1>12. QED BY <1>7, <1>8, <1>11 DEF LineFits, m, q, f

-----------------------------------------------------------------------------
(* The inductive invariant. *)

\* What the account is worth, the ghosts aside.
Principal == liquid + Total(atWork) - earned + escaped + unseen

HistoryInv ==
    /\ log \in Seq(Row) /\ liquid \in Nat /\ atWork \in [Payers -> Nat]
    /\ principal \in Seq(Int) /\ Len(principal) =< MaxTransactions
    /\ earned \in 0..MaxEarned /\ escaped \in Nat /\ unseen \in Nat
    /\ LineFits(log, principal) /\ Principal = ValueOf(principal, Len(principal))

\* A transaction's rows with their date, or without.
Stamp(rows, d) == [k \in DOMAIN rows |-> [rows[k] EXCEPT !.dated = d]]

LEMMA Stamped ==
  ASSUME NEW rows \in Seq(Row), Len(rows) \in 0..2, NEW d \in BOOLEAN
  PROVE  /\ Stamp(rows, d) \in Seq(Row) /\ Len(Stamp(rows, d)) = Len(rows)
         /\ DOMAIN Stamp(rows, d) = DOMAIN rows
         /\ \A k \in DOMAIN rows : Stamp(rows, d)[k].tx = rows[k].tx
         /\ GainOf(Stamp(rows, d)) = GainOf(rows)
  <1> DEFINE r == Stamp(rows, d)
  <1>1. /\ DOMAIN rows = 1..Len(rows) /\ Len(rows) \in Nat /\ DOMAIN r = DOMAIN rows
        /\ \A k \in DOMAIN rows : rows[k] \in Row
    BY RowsAre DEF Stamp
  <1>2. \A k \in DOMAIN rows :
          /\ r[k] \in Row /\ r[k].tx = rows[k].tx /\ r[k].kind = rows[k].kind
          /\ r[k].into = rows[k].into /\ r[k].asset = rows[k].asset /\ r[k].units = rows[k].units
          /\ r[k].redeemed = rows[k].redeemed
    <2>1. TAKE k \in DOMAIN rows
    <2>2. r[k] = [rows[k] EXCEPT !.dated = d] /\ rows[k] \in Row BY <1>1 DEF Stamp
    <2>3. QED BY <2>2 DEF Row
  <1>3. r \in Seq(Row) /\ Len(r) = Len(rows)
    <2>1. r \in [1..Len(rows) -> Row] BY <1>1, <1>2 DEF Stamp
    <2>2. r \in Seq(Row) BY <1>1, <2>1
    <2>3. QED BY <1>1, <2>2
  <1>4. OwnOf(r) = OwnOf(rows)
    <2>1. \A k \in DOMAIN rows : IsOwnMove(r[k]) <=> IsOwnMove(rows[k]) BY <1>2 DEF IsOwnMove
    <2>2. {k \in DOMAIN r : IsOwnMove(r[k])} = {k \in DOMAIN rows : IsOwnMove(rows[k])}
      BY <1>1, <2>1
    <2>3. \A k \in DOMAIN r : r[k].tx = rows[k].tx BY <1>1, <1>2
    <2> HIDE DEF r
    <2>4. QED BY <2>2, <2>3 DEF OwnOf
  <1> HIDE DEF r
  <1>5. \A k \in DOMAIN rows : StepTo(r[k], OwnOf(r)) = StepTo(rows[k], OwnOf(rows))
    BY <1>2, <1>4 DEF StepTo, LiquidStep, WorkOf
  <1>6. GainOf(r) = GainOf(rows)
    <2>1. CASE Len(rows) = 0 BY <1>3, <2>1 DEF GainOf
    <2>2. CASE Len(rows) = 1 BY <1>1, <1>3, <1>5, <2>2 DEF GainOf
    <2>3. CASE Len(rows) = 2 BY <1>1, <1>3, <1>5, <2>3 DEF GainOf
    <2>4. QED BY <2>1, <2>2, <2>3
  <1>7. QED BY <1>1, <1>2, <1>3, <1>6 DEF r

LEMMA TransactionStep ==
  ASSUME HistoryInv, NEW rows \in Seq(Row), Len(rows) \in 0..2,
         \A k \in DOMAIN rows : rows[k].tx = Len(principal) + 1, Transaction(rows),
         liquid' \in Nat, atWork' \in [Payers -> Nat],
         earned' \in 0..MaxEarned, escaped' \in Nat, unseen' \in Nat,
         Principal' = Principal + GainOf(rows)
  PROVE  HistoryInv'
  <1>1. PICK d \in BOOLEAN :
          log' = log \o Stamp(rows, d)
    BY DEF Transaction, Stamp
  <1> DEFINE r == Stamp(rows, d)
             w == liquid' + Total(atWork') - earned' + escaped' + unseen'
  <1>2. Len(principal) < MaxTransactions /\ principal' = Append(principal, w) BY DEF Transaction
  <1>3. /\ r \in Seq(Row) /\ Len(r) = Len(rows) /\ DOMAIN r = DOMAIN rows
        /\ \A k \in DOMAIN rows : r[k].tx = rows[k].tx
        /\ GainOf(r) = GainOf(rows)
    BY Stamped
  <1>4. log' = log \o r BY <1>1
  <1> HIDE DEF r
  <1>5. /\ log \in Seq(Row) /\ principal \in Seq(Int) /\ LineFits(log, principal)
        /\ Principal = ValueOf(principal, Len(principal))
    BY DEF HistoryInv
  <1>6. \A k \in DOMAIN r : r[k].tx = Len(principal) + 1 BY <1>3
  <1>7. w \in Int
    <2>1. \A m \in Payers : atWork'[m] \in Int OBVIOUS
    <2>2. Total(atWork') \in Int BY <2>1, HistoryBounds, SumType DEF Total
    <2>3. QED BY <2>2, HistoryBounds
  <1>8. w = Principal' BY DEF Principal, Total
  <1> HIDE DEF w
  <1>9. w = ValueOf(principal, Len(principal)) + GainOf(r) BY <1>3, <1>5, <1>8
  <1>10. Len(r) \in 0..2 BY <1>3
  <1>11. LineFits(log \o r, Append(principal, w)) BY <1>3, <1>5, <1>6, <1>7, <1>9, <1>10, OneMore
  <1>12. log' \in Seq(Row) BY <1>3, <1>4, <1>5
  <1>13. principal' \in Seq(Int) /\ Len(principal') = Len(principal) + 1
         /\ principal'[Len(principal) + 1] = w
    BY <1>2, <1>5, <1>7
  <1>14. Len(principal) \in Nat /\ Len(principal') =< MaxTransactions
    BY <1>2, <1>5, <1>13, HistoryBounds
  <1>15. Principal' = ValueOf(principal', Len(principal')) BY <1>8, <1>13, <1>14 DEF ValueOf
  <1>16. LineFits(log', principal') BY <1>2, <1>4, <1>11
  <1>17. QED BY <1>12, <1>13, <1>14, <1>15, <1>16 DEF HistoryInv

-----------------------------------------------------------------------------
(* What each transaction adds. *)

LEMMA OneRow ==
  ASSUME NEW e \in Row, ~IsOwnMove(e)
  PROVE  /\ <<e>> \in Seq(Row) /\ Len(<<e>>) \in 0..2 /\ \A k \in DOMAIN <<e>> : <<e>>[k].tx = e.tx
         /\ GainOf(<<e>>) = StepTo(e, {})
  <1> DEFINE r == <<e>>
  <1>1. r \in Seq(Row) /\ Len(r) = 1 /\ r[1] = e /\ DOMAIN r = {1} OBVIOUS
  <1> HIDE DEF r
  <1>2. OwnOf(r) = {} BY <1>1 DEF OwnOf
  <1>3. GainOf(r) = StepTo(e, {}) BY <1>1, <1>2 DEF GainOf
  <1>4. Len(r) \in 0..2 /\ \A k \in DOMAIN r : r[k].tx = e.tx BY <1>1
  <1>5. QED BY <1>1, <1>3, <1>4 DEF r

LEMMA TwoRows ==
  ASSUME NEW a \in Row, NEW b \in Row, a.tx = b.tx
  PROVE  /\ <<a, b>> \in Seq(Row) /\ Len(<<a, b>>) \in 0..2
         /\ \A k \in DOMAIN <<a, b>> : <<a, b>>[k].tx = a.tx
         /\ IsOwnMove(b) => GainOf(<<a, b>>) = StepTo(a, {a.tx}) + StepTo(b, {a.tx})
         /\ ~IsOwnMove(a) /\ ~IsOwnMove(b) => GainOf(<<a, b>>) = StepTo(a, {}) + StepTo(b, {})
  <1> DEFINE r == <<a, b>>
  <1>1. r \in Seq(Row) /\ Len(r) = 2 /\ r[1] = a /\ r[2] = b /\ DOMAIN r = {1, 2} OBVIOUS
  <1> HIDE DEF r
  <1>2. ~IsOwnMove(a) /\ ~IsOwnMove(b) => OwnOf(r) = {} BY <1>1 DEF OwnOf
  <1>3. ASSUME IsOwnMove(b) PROVE OwnOf(r) = {a.tx}
    <2>1. a.tx \in OwnOf(r) BY <1>1, <1>3 DEF OwnOf
    <2>2. \A t \in OwnOf(r) : t = a.tx BY <1>1 DEF OwnOf
    <2>3. QED BY <2>1, <2>2
  <1>4. GainOf(r) = StepTo(a, OwnOf(r)) + StepTo(b, OwnOf(r)) BY <1>1 DEF GainOf
  <1>5. Len(r) \in 0..2 /\ \A k \in DOMAIN r : r[k].tx = a.tx BY <1>1
  <1>6. QED BY <1>1, <1>2, <1>3, <1>4, <1>5 DEF r

LEMMA EventsAre ==
  ASSUME HistoryInv, Len(principal) < MaxTransactions, NEW x \in Nat
  PROVE  /\ \A m : /\ MoneyIn(x, m) \in Row /\ MoneyIn(x, m).tx = Len(principal) + 1
                   /\ ~IsOwnMove(MoneyIn(x, m))
                   /\ StepTo(MoneyIn(x, m), {}) = IF m \in PAYS_FROM THEN 0 ELSE x
                   /\ StepTo(MoneyIn(x, m), {Len(principal) + 1}) = x
         /\ MoneyOut(x) \in Row /\ MoneyOut(x).tx = Len(principal) + 1 /\ ~IsOwnMove(MoneyOut(x))
         /\ StepTo(MoneyOut(x), {}) = -x
         /\ \A into \in BOOLEAN, asset \in {"usdc", "weth"} :
               /\ Moved(x, into, asset) \in Row /\ Moved(x, into, asset).tx = Len(principal) + 1
               /\ IsOwnMove(Moved(x, into, asset)) <=> ~into /\ asset = "usdc"
         /\ \A own : /\ StepTo(Moved(x, TRUE, "usdc"), own) = x
                     /\ StepTo(Moved(x, FALSE, "usdc"), own) = -x
                     /\ StepTo(Moved(x, TRUE, "weth"), own) = 0
  <1>1. Len(principal) + 1 \in 1..MaxTransactions BY HistoryBounds DEF HistoryInv
  <1>2. ASSUME NEW m
        PROVE  /\ MoneyIn(x, m) \in Row /\ MoneyIn(x, m).tx = Len(principal) + 1
               /\ ~IsOwnMove(MoneyIn(x, m))
               /\ StepTo(MoneyIn(x, m), {}) = IF m \in PAYS_FROM THEN 0 ELSE x
               /\ StepTo(MoneyIn(x, m), {Len(principal) + 1}) = x
    <2> DEFINE e == MoneyIn(x, m)
    <2>1. /\ e.kind = "in" /\ e.units = x /\ e.redeemed = (m \in PAYS_FROM)
          /\ e.tx = Len(principal) + 1 /\ e \in Row
      BY <1>1 DEF MoneyIn, AccountEvent, Row
    <2> HIDE DEF e
    <2>2. ~IsOwnMove(e) BY <2>1 DEF IsOwnMove
    <2>3. StepTo(e, {}) = IF m \in PAYS_FROM THEN 0 ELSE x
      <3>1. LiquidStep(e) = x BY <2>1 DEF LiquidStep
      <3>2. WorkOf(e, {}) = IF m \in PAYS_FROM THEN -x ELSE 0
        <4>1. CASE m \in PAYS_FROM
          <5>1. e.redeemed = TRUE BY <2>1, <4>1
          <5>2. WorkOf(e, {}) = -x BY <2>1, <5>1 DEF WorkOf
          <5>3. QED BY <4>1, <5>2
        <4>2. CASE m \notin PAYS_FROM
          <5>1. ~e.redeemed BY <4>2, Zenon DEF e, MoneyIn, AccountEvent
          <5>2. WorkOf(e, {}) = 0 BY <2>1, <5>1 DEF WorkOf
          <5>3. QED BY <4>2, <5>2
        <4>3. QED BY <4>1, <4>2
      <3>3. QED BY <3>1, <3>2 DEF StepTo
    <2>4. StepTo(e, {Len(principal) + 1}) = x BY <2>1 DEF StepTo, LiquidStep, WorkOf
    <2>5. QED BY <2>1, <2>2, <2>3, <2>4 DEF e
  <1>3. /\ MoneyOut(x) \in Row /\ MoneyOut(x).tx = Len(principal) + 1 /\ ~IsOwnMove(MoneyOut(x))
        /\ StepTo(MoneyOut(x), {}) = -x
    <2> DEFINE e == MoneyOut(x)
    <2>1. e.kind = "out" /\ e.units = x /\ e.tx = Len(principal) + 1 /\ e \in Row
      BY <1>1 DEF MoneyOut, AccountEvent, Row
    <2> HIDE DEF e
    <2>2. QED BY <2>1 DEF e, IsOwnMove, StepTo, LiquidStep, WorkOf
  <1>4. ASSUME NEW into \in BOOLEAN, NEW asset \in {"usdc", "weth"}
        PROVE  /\ Moved(x, into, asset) \in Row /\ Moved(x, into, asset).tx = Len(principal) + 1
               /\ IsOwnMove(Moved(x, into, asset)) <=> ~into /\ asset = "usdc"
               /\ Moved(x, into, asset).kind = "moved" /\ Moved(x, into, asset).units = x
               /\ Moved(x, into, asset).into = into /\ Moved(x, into, asset).asset = asset
    BY <1>1 DEF Moved, AccountEvent, Row, IsOwnMove
  <1>5. ASSUME NEW own
        PROVE  /\ StepTo(Moved(x, TRUE, "usdc"), own) = x
               /\ StepTo(Moved(x, FALSE, "usdc"), own) = -x
               /\ StepTo(Moved(x, TRUE, "weth"), own) = 0
    <2>1. ASSUME NEW into \in BOOLEAN, NEW asset \in {"usdc", "weth"}
          PROVE  StepTo(Moved(x, into, asset), own)
                 = IF asset = "usdc" THEN (IF into THEN x ELSE -x) ELSE 0
      <3> DEFINE e == Moved(x, into, asset)
      <3>1. e.kind = "moved" /\ e.units = x /\ e.into = into /\ e.asset = asset BY <1>4
      <3> HIDE DEF e
      <3>2. LiquidStep(e) = 0 BY <3>1 DEF LiquidStep
      <3>3. WorkOf(e, own) = IF asset = "usdc" THEN (IF into THEN x ELSE -x) ELSE 0
        BY <3>1 DEF WorkOf
      <3>4. StepTo(e, own) = IF asset = "usdc" THEN (IF into THEN x ELSE -x) ELSE 0
        BY <3>2, <3>3 DEF StepTo
      <3>5. QED BY <3>4 DEF e
    <2>2. StepTo(Moved(x, TRUE, "usdc"), own) = x BY <2>1
    <2>3. StepTo(Moved(x, FALSE, "usdc"), own) = -x BY <2>1
    <2>4. StepTo(Moved(x, TRUE, "weth"), own) = 0 BY <2>1
    <2>5. QED BY <2>2, <2>3, <2>4
  <1>6. QED BY <1>2, <1>3, <1>4, <1>5

LEMMA TotalChanges ==
  ASSUME HistoryInv, NEW m \in Payers, NEW y \in Nat, atWork' = [atWork EXCEPT ![m] = y]
  PROVE  /\ atWork' \in [Payers -> Nat] /\ Total(atWork') = Total(atWork) + (y - atWork[m])
         /\ atWork[m] \in Nat
  <1>1. atWork \in [Payers -> Nat] BY DEF HistoryInv
  <1>2. atWork' \in [Payers -> Nat] /\ atWork'[m] = y BY <1>1
  <1>3. \A p \in Payers : atWork[p] \in Int /\ atWork'[p] \in Int BY <1>1, <1>2
  <1>4. \A p \in Payers : p # m => atWork'[p] = atWork[p] BY <1>1
  <1> DEFINE e == atWork'
  <1>5. e[m] = y /\ \A p \in Payers : e[p] \in Int /\ (p # m => e[p] = atWork[p])
    BY <1>2, <1>3, <1>4
  <1> HIDE DEF e
  <1>6. SumOf(e, Payers) = SumOf(atWork, Payers) + (e[m] - atWork[m])
    BY <1>3, <1>5, HistoryBounds, SumChanges
  <1>7. Total(e) = Total(atWork) + (y - atWork[m]) BY <1>5, <1>6 DEF Total
  <1>8. QED BY <1>1, <1>2, <1>7 DEF e

LEMMA TotalIsInt ==
  ASSUME HistoryInv
  PROVE  Total(atWork) \in Int /\ liquid \in Nat /\ earned \in Nat /\ escaped \in Nat /\ unseen \in Nat
  <1>1. \A m \in Payers : atWork[m] \in Int BY DEF HistoryInv
  <1>2. Total(atWork) \in Int BY <1>1, HistoryBounds, SumType DEF Total
  <1>3. QED BY <1>2, HistoryBounds DEF HistoryInv

-----------------------------------------------------------------------------
(* Steps. *)

LEMMA FundedStep ==
  ASSUME HistoryInv, NEW x \in MoneyMoved, Funded(x)
  PROVE  HistoryInv'
  <1> DEFINE e == MoneyIn(x, "nobody")
  <1>1. /\ liquid' = liquid + x /\ UNCHANGED <<atWork, earned, escaped, unseen>>
        /\ Transaction(<<e>>)
    BY DEF Funded
  <1>2. Len(principal) < MaxTransactions BY <1>1 DEF Transaction
  <1>3. x \in Nat /\ "nobody" \notin PAYS_FROM BY HistoryBounds
  <1>4. e \in Row /\ e.tx = Len(principal) + 1 /\ ~IsOwnMove(e) /\ StepTo(e, {}) = x
    BY <1>2, <1>3, EventsAre
  <1> HIDE DEF e
  <1>5. /\ <<e>> \in Seq(Row) /\ Len(<<e>>) \in 0..2
        /\ \A k \in DOMAIN <<e>> : <<e>>[k].tx = Len(principal) + 1
        /\ GainOf(<<e>>) = x
    BY <1>4, OneRow
  <1>6. Principal' = Principal + GainOf(<<e>>) BY SMTT(30), <1>1, <1>3, <1>5, TotalIsInt DEF Principal
  <1>7. /\ liquid' \in Nat /\ atWork' \in [Payers -> Nat] /\ earned' \in 0..MaxEarned
        /\ escaped' \in Nat /\ unseen' \in Nat
    BY <1>1, <1>3 DEF HistoryInv
  <1>8. QED BY <1>1, <1>5, <1>6, <1>7, TransactionStep

LEMMA PaidAwayStep ==
  ASSUME HistoryInv, NEW x \in MoneyMoved, PaidAway(x)
  PROVE  HistoryInv'
  <1> DEFINE e == MoneyOut(x)
  <1>1. /\ x =< liquid /\ liquid' = liquid - x /\ UNCHANGED <<atWork, earned, escaped, unseen>>
        /\ Transaction(<<e>>)
    BY DEF PaidAway
  <1>2. Len(principal) < MaxTransactions BY <1>1 DEF Transaction
  <1>3. x \in Nat BY HistoryBounds
  <1>4. e \in Row /\ e.tx = Len(principal) + 1 /\ ~IsOwnMove(e) /\ StepTo(e, {}) = -x
    BY <1>2, <1>3, EventsAre
  <1> HIDE DEF e
  <1>5. /\ <<e>> \in Seq(Row) /\ Len(<<e>>) \in 0..2
        /\ \A k \in DOMAIN <<e>> : <<e>>[k].tx = Len(principal) + 1
        /\ GainOf(<<e>>) = -x
    BY <1>4, OneRow
  <1>6. Principal' = Principal + GainOf(<<e>>) BY SMTT(30), <1>1, <1>3, <1>5, TotalIsInt DEF Principal
  <1>7. /\ liquid' \in Nat /\ atWork' \in [Payers -> Nat] /\ earned' \in 0..MaxEarned
        /\ escaped' \in Nat /\ unseen' \in Nat
    BY <1>1, <1>3 DEF HistoryInv
  <1>8. QED BY <1>1, <1>5, <1>6, <1>7, TransactionStep

LEMMA IdleSuppliedStep ==
  ASSUME HistoryInv, NEW m \in Payers, NEW x \in MoneyMoved, IdleSupplied(m, x)
  PROVE  HistoryInv'
  <1> DEFINE a == MoneyOut(x)  b == Moved(x, TRUE, "usdc")  y == atWork[m] + x
  <1>1. /\ x =< liquid /\ liquid' = liquid - x /\ atWork' = [atWork EXCEPT ![m] = y]
        /\ UNCHANGED <<earned, escaped, unseen>> /\ Transaction(<<a, b>>)
    BY DEF IdleSupplied
  <1>2. Len(principal) < MaxTransactions BY <1>1 DEF Transaction
  <1>3. x \in Nat BY HistoryBounds
  <1>4. /\ a \in Row /\ a.tx = Len(principal) + 1 /\ ~IsOwnMove(a) /\ StepTo(a, {}) = -x
        /\ b \in Row /\ b.tx = Len(principal) + 1 /\ ~IsOwnMove(b) /\ StepTo(b, {}) = x
    BY <1>2, <1>3, EventsAre
  <1> HIDE DEF a, b
  <1>5. /\ <<a, b>> \in Seq(Row) /\ Len(<<a, b>>) \in 0..2
        /\ \A k \in DOMAIN <<a, b>> : <<a, b>>[k].tx = Len(principal) + 1
        /\ GainOf(<<a, b>>) = 0
    <2>1. /\ <<a, b>> \in Seq(Row) /\ Len(<<a, b>>) \in 0..2
          /\ \A k \in DOMAIN <<a, b>> : <<a, b>>[k].tx = Len(principal) + 1
      BY <1>4, TwoRows
    <2>2. GainOf(<<a, b>>) = StepTo(a, {}) + StepTo(b, {}) BY <1>4, TwoRows
    <2>3. GainOf(<<a, b>>) = -x + x BY <1>4, <2>2
    <2>4. QED BY <1>3, <2>1, <2>3
  <1>6. atWork[m] \in Nat BY DEF HistoryInv
  <1>7. y \in Nat BY <1>3, <1>6
  <1>8. atWork' \in [Payers -> Nat] /\ Total(atWork') = Total(atWork) + (y - atWork[m])
    BY <1>1, <1>7, TotalChanges
  <1>9. Total(atWork') = Total(atWork) + x BY <1>3, <1>6, <1>8, TotalIsInt
  <1>10. Principal' = Principal + GainOf(<<a, b>>) BY SMTT(30), <1>1, <1>3, <1>5, <1>9, TotalIsInt DEF Principal
  <1>11. /\ liquid' \in Nat /\ earned' \in 0..MaxEarned /\ escaped' \in Nat /\ unseen' \in Nat
    BY <1>1, <1>3 DEF HistoryInv
  <1>12. QED BY <1>1, <1>5, <1>8, <1>10, <1>11, TransactionStep

LEMMA IdleWithdrawnStep ==
  ASSUME HistoryInv, NEW m \in Payers, NEW x \in MoneyMoved, IdleWithdrawn(m, x)
  PROVE  HistoryInv'
  <1> DEFINE a == MoneyIn(x, m)  b == Moved(x, FALSE, "usdc")  y == atWork[m] - x
             own == {Len(principal) + 1}
  <1>1. /\ x =< atWork[m] /\ liquid' = liquid + x /\ atWork' = [atWork EXCEPT ![m] = y]
        /\ UNCHANGED <<earned, escaped, unseen>> /\ Transaction(<<a, b>>)
    BY DEF IdleWithdrawn
  <1>2. Len(principal) < MaxTransactions BY <1>1 DEF Transaction
  <1>3. x \in Nat BY HistoryBounds
  <1>4. /\ a \in Row /\ a.tx = Len(principal) + 1 /\ StepTo(a, own) = x
        /\ b \in Row /\ b.tx = Len(principal) + 1 /\ IsOwnMove(b) /\ StepTo(b, own) = -x
    BY <1>2, <1>3, EventsAre
  <1> HIDE DEF a, b
  <1>5. /\ <<a, b>> \in Seq(Row) /\ Len(<<a, b>>) \in 0..2
        /\ \A k \in DOMAIN <<a, b>> : <<a, b>>[k].tx = Len(principal) + 1
    <2>1. a \in Row /\ b \in Row /\ a.tx = b.tx /\ a.tx = Len(principal) + 1 BY <1>4
    <2>2. /\ <<a, b>> \in Seq(Row) /\ Len(<<a, b>>) \in 0..2
          /\ \A k \in DOMAIN <<a, b>> : <<a, b>>[k].tx = a.tx
      BY <2>1, TwoRows
    <2>3. QED BY <2>1, <2>2
  <1>6. GainOf(<<a, b>>) = 0
    <2>1. a.tx = b.tx /\ own = {a.tx} BY <1>4
    <2>2. GainOf(<<a, b>>) = StepTo(a, {a.tx}) + StepTo(b, {a.tx}) BY <1>4, <2>1, TwoRows
    <2> HIDE DEF own
    <2>3. GainOf(<<a, b>>) = x + (-x) BY <1>4, <2>1, <2>2
    <2>4. QED BY <1>3, <2>3
  <1>7. atWork[m] \in Nat BY DEF HistoryInv
  <1>8. y \in Nat BY <1>1, <1>3, <1>7
  <1>9. atWork' \in [Payers -> Nat] /\ Total(atWork') = Total(atWork) + (y - atWork[m])
    BY <1>1, <1>8, TotalChanges
  <1>10. Total(atWork') = Total(atWork) - x BY <1>3, <1>7, <1>9, TotalIsInt
  <1>11. Principal' = Principal + GainOf(<<a, b>>) BY <1>1, <1>3, <1>6, <1>10, TotalIsInt DEF Principal
  <1>12. /\ liquid' \in Nat /\ earned' \in 0..MaxEarned /\ escaped' \in Nat /\ unseen' \in Nat
    BY <1>1, <1>3 DEF HistoryInv
  <1>13. QED BY <1>1, <1>5, <1>9, <1>11, <1>12, TransactionStep

LEMMA TakerPaidStep ==
  ASSUME HistoryInv, NEW m \in Payers, NEW x \in MoneyMoved, TakerPaid(m, x)
  PROVE  HistoryInv'
  <1> DEFINE z == x - liquid  a == MoneyIn(z, m)  b == MoneyOut(x)  y == atWork[m] - z
             more == IF m \in PAYS_FROM THEN 0 ELSE z
  <1>1. /\ x > liquid /\ z =< atWork[m] /\ liquid' = 0 /\ atWork' = [atWork EXCEPT ![m] = y]
        /\ unseen' = IF m \in PAYS_FROM THEN unseen ELSE unseen + z
        /\ UNCHANGED <<earned, escaped>> /\ Transaction(<<a, b>>)
    BY DEF TakerPaid
  <1>2. Len(principal) < MaxTransactions BY <1>1 DEF Transaction
  <1>3. x \in Nat /\ z \in Nat /\ liquid \in Nat /\ liquid + z = x BY <1>1, HistoryBounds, TotalIsInt
  <1> HIDE DEF z
  <1>4. /\ a \in Row /\ a.tx = Len(principal) + 1 /\ ~IsOwnMove(a)
        /\ StepTo(a, {}) = IF m \in PAYS_FROM THEN 0 ELSE z
    BY <1>2, <1>3, EventsAre
  <1>5. b \in Row /\ b.tx = Len(principal) + 1 /\ ~IsOwnMove(b) /\ StepTo(b, {}) = -x
    BY <1>2, <1>3, EventsAre
  <1> HIDE DEF a, b
  <1>6. /\ <<a, b>> \in Seq(Row) /\ Len(<<a, b>>) \in 0..2
        /\ \A k \in DOMAIN <<a, b>> : <<a, b>>[k].tx = Len(principal) + 1
        /\ GainOf(<<a, b>>) = StepTo(a, {}) + StepTo(b, {})
    BY <1>4, <1>5, TwoRows
  <1>7. unseen' = unseen + (IF m \in PAYS_FROM THEN 0 ELSE z) BY <1>1, TotalIsInt
  <1>8. atWork[m] \in Nat BY DEF HistoryInv
  <1>9. y \in Nat BY <1>1, <1>3, <1>8
  <1>10. atWork' \in [Payers -> Nat] /\ Total(atWork') = Total(atWork) + (y - atWork[m])
    BY <1>1, <1>9, TotalChanges
  <1>11. Total(atWork') = Total(atWork) - z BY <1>3, <1>8, <1>10, TotalIsInt
  <1>12. more \in Nat /\ unseen' = unseen + more /\ GainOf(<<a, b>>) = more + (-x)
    BY <1>3, <1>4, <1>5, <1>6, <1>7
  <1> HIDE DEF more
  <1>13. Principal' = Principal + GainOf(<<a, b>>) BY <1>1, <1>3, <1>11, <1>12, TotalIsInt DEF Principal
  <1>14. /\ liquid' \in Nat /\ earned' \in 0..MaxEarned /\ escaped' \in Nat /\ unseen' \in Nat
    BY <1>1, <1>3, <1>12, TotalIsInt DEF HistoryInv
  <1>15. QED BY <1>1, <1>6, <1>10, <1>13, <1>14, TransactionStep

LEMMA EscapedStep ==
  ASSUME HistoryInv, NEW markets \in SUBSET Payers, Escaped(markets)
  PROVE  HistoryInv'
  <1> DEFINE rows == IF liquid = 0 THEN <<>> ELSE <<MoneyOut(liquid)>>
             kept == [m \in Payers |-> IF m \in markets THEN 0 ELSE atWork[m]]
             gone == SumOf(atWork, markets)  rest == Payers \ markets
  <1>1. /\ liquid' = 0 /\ atWork' = kept /\ escaped' = escaped + gone
        /\ UNCHANGED <<earned, unseen>> /\ Transaction(rows)
    BY DEF Escaped
  <1>2. Len(principal) < MaxTransactions BY <1>1 DEF Transaction
  <1>3. liquid \in Nat /\ atWork \in [Payers -> Nat] BY DEF HistoryInv
  <1>4. IsFiniteSet(markets) /\ IsFiniteSet(rest) /\ markets \cap rest = {}
        /\ markets \cup rest = Payers
    BY HistoryBounds, FS_Subset
  <1>5. gone \in Nat
    <2>1. \A m \in markets : atWork[m] \in Nat BY <1>3
    <2>2. QED BY <1>4, <2>1, SumOfNaturals
  <1>6. kept \in [Payers -> Nat] BY <1>3
  <1>7. /\ \A m \in markets : kept[m] = 0
        /\ \A m \in rest : kept[m] = atWork[m] /\ atWork[m] \in Int
        /\ \A m \in Payers : atWork[m] \in Int /\ kept[m] \in Int
    BY <1>3
  <1> HIDE DEF kept, rest
  <1>8. Total(atWork) = gone + SumOf(atWork, rest)
    <2>1. \A m \in markets \cup rest : atWork[m] \in Int BY <1>4, <1>7
    <2>2. SumOf(atWork, markets \cup rest) = SumOf(atWork, markets) + SumOf(atWork, rest)
      BY <1>4, <2>1, SumOfBoth
    <2>3. QED BY <1>4, <2>2 DEF Total
  <1>9. Total(kept) = SumOf(atWork, rest)
    <2>1. \A m \in markets \cup rest : kept[m] \in Int BY <1>4, <1>7
    <2>2. SumOf(kept, markets \cup rest) = SumOf(kept, markets) + SumOf(kept, rest)
      BY <1>4, <2>1, SumOfBoth
    <2>3. SumOf(kept, markets) = 0 BY <1>4, <1>7, SumOfZeros
    <2>4. SumOf(kept, rest) = SumOf(atWork, rest) BY <1>4, <1>7, SumSame
    <2>5. SumOf(atWork, rest) \in Int BY <1>4, <1>7, SumType
    <2>6. SumOf(kept, Payers) = 0 + SumOf(atWork, rest) BY <1>4, <2>2, <2>3, <2>4
    <2>7. QED BY <2>5, <2>6 DEF Total
  <1> HIDE DEF gone
  <1>10. /\ rows \in Seq(Row) /\ Len(rows) \in 0..2
         /\ \A k \in DOMAIN rows : rows[k].tx = Len(principal) + 1
         /\ GainOf(rows) = -liquid
    <2>1. CASE liquid = 0
      <3>1. rows = <<>> BY <2>1
      <3>2. rows \in Seq(Row) /\ Len(rows) = 0 /\ DOMAIN rows = {} BY <3>1
      <3> HIDE DEF rows
      <3>3. GainOf(rows) = 0 BY <3>2 DEF GainOf
      <3>4. -liquid = 0
        <4>1. \A z \in Nat : z =< 0 => -z = 0 OBVIOUS
        <4>2. liquid =< 0 BY <2>1
        <4>3. QED BY <1>3, <4>1, <4>2
      <3>5. QED BY <3>2, <3>3, <3>4
    <2>2. CASE liquid # 0
      <3> DEFINE e == MoneyOut(liquid)
      <3>1. rows = <<e>> BY <2>2
      <3>2. e \in Row /\ e.tx = Len(principal) + 1 /\ ~IsOwnMove(e) /\ StepTo(e, {}) = -liquid
        BY <1>2, <1>3, EventsAre
      <3> HIDE DEF e, rows
      <3>3. /\ <<e>> \in Seq(Row) /\ Len(<<e>>) \in 0..2
            /\ \A k \in DOMAIN <<e>> : <<e>>[k].tx = Len(principal) + 1
            /\ GainOf(<<e>>) = -liquid
        BY <3>2, OneRow
      <3>4. QED BY <3>1, <3>3
    <2>3. QED BY <2>1, <2>2
  <1> HIDE DEF rows
  <1>11. Total(atWork') = Total(atWork) - gone
    <2>1. SumOf(atWork, rest) \in Int BY <1>4, <1>7, SumType
    <2>2. Total(kept) = Total(atWork) - gone BY <1>5, <1>8, <1>9, <2>1
    <2>3. QED BY <1>1, <2>2
  <1>12. Principal' = Principal + GainOf(rows) BY SMTT(30), <1>1, <1>3, <1>5, <1>10, <1>11, TotalIsInt DEF Principal
  <1>13. /\ liquid' \in Nat /\ atWork' \in [Payers -> Nat] /\ earned' \in 0..MaxEarned
         /\ escaped' \in Nat /\ unseen' \in Nat
    BY <1>1, <1>5, <1>6, TotalIsInt DEF HistoryInv
  <1>14. QED BY <1>1, <1>10, <1>12, <1>13, TransactionStep

LEMMA OtherRowStep ==
  ASSUME HistoryInv, OtherRow
  PROVE  HistoryInv'
  <1>1. PICK e \in {Moved(1, TRUE, "weth"), AccountEvent("venue", 0, FALSE, "none", FALSE)} :
           Transaction(<<e>>)
    BY DEF OtherRow
  <1>2. UNCHANGED <<liquid, atWork, earned, escaped, unseen>> BY DEF OtherRow
  <1>3. Len(principal) < MaxTransactions BY <1>1 DEF Transaction
  <1>4. e \in Row /\ e.tx = Len(principal) + 1 /\ ~IsOwnMove(e) /\ StepTo(e, {}) = 0
    <2>1. CASE e = Moved(1, TRUE, "weth")
      <3>1. 1 \in Nat OBVIOUS
      <3> DEFINE o == Moved(1, TRUE, "weth")
      <3>2. o \in Row /\ o.tx = Len(principal) + 1 /\ ~IsOwnMove(o) /\ StepTo(o, {}) = 0
        BY <1>3, <3>1, EventsAre
      <3>3. QED BY <2>1, <3>2
    <2>2. CASE e = AccountEvent("venue", 0, FALSE, "none", FALSE)
      <3>1. Len(principal) + 1 \in 1..MaxTransactions BY <1>3, HistoryBounds DEF HistoryInv
      <3>2. e.kind = "venue" /\ e.tx = Len(principal) + 1 /\ e \in Row
        BY <2>2, <3>1 DEF AccountEvent, Row
      <3>3. QED BY <3>2 DEF IsOwnMove, StepTo, LiquidStep, WorkOf
    <2>3. QED BY <1>1, <2>1, <2>2
  <1>5. /\ <<e>> \in Seq(Row) /\ Len(<<e>>) \in 0..2
        /\ \A k \in DOMAIN <<e>> : <<e>>[k].tx = Len(principal) + 1
        /\ GainOf(<<e>>) = 0
    BY <1>4, OneRow
  <1>6. Principal' = Principal + GainOf(<<e>>) BY <1>2, <1>5, TotalIsInt DEF Principal
  <1>7. /\ liquid' \in Nat /\ atWork' \in [Payers -> Nat] /\ earned' \in 0..MaxEarned
        /\ escaped' \in Nat /\ unseen' \in Nat
    BY <1>2 DEF HistoryInv
  <1>8. QED BY <1>1, <1>5, <1>6, <1>7, TransactionStep

LEMMA CreditedStep ==
  ASSUME HistoryInv, NEW m \in Payers, Credited(m)
  PROVE  HistoryInv'
  <1> DEFINE y == atWork[m] + 1
  <1>1. /\ earned < MaxEarned /\ earned' = earned + 1 /\ atWork' = [atWork EXCEPT ![m] = y]
        /\ UNCHANGED <<log, liquid, principal, escaped, unseen>>
    BY DEF Credited
  <1>2. atWork[m] \in Nat BY DEF HistoryInv
  <1>3. y \in Nat BY <1>2
  <1>4. atWork' \in [Payers -> Nat] /\ Total(atWork') = Total(atWork) + (y - atWork[m])
    BY <1>1, <1>3, TotalChanges
  <1>5. Total(atWork') = Total(atWork) + 1 BY <1>2, <1>4, TotalIsInt
  <1>6. Principal' = Principal BY <1>1, <1>5, TotalIsInt DEF Principal
  <1>7. earned' \in 0..MaxEarned BY <1>1, HistoryBounds DEF HistoryInv
  <1>8. QED BY <1>1, <1>4, <1>6, <1>7 DEF HistoryInv

LEMMA HistoryStarts == HistoryInit => HistoryInv
  <1> SUFFICES ASSUME HistoryInit PROVE HistoryInv
    OBVIOUS
  <1>1. /\ log = <<>> /\ principal = <<>> /\ liquid = 0 /\ atWork = [m \in Payers |-> 0]
        /\ earned = 0 /\ escaped = 0 /\ unseen = 0
    BY DEF HistoryInit
  <1>2. /\ log \in Seq(Row) /\ Len(log) = 0 /\ DOMAIN log = {} /\ principal \in Seq(Int)
        /\ Len(principal) = 0
    BY <1>1
  <1>3. Total(atWork) = 0
    <2>1. \A m \in Payers : atWork[m] = 0 BY <1>1
    <2>2. QED BY <2>1, HistoryBounds, SumOfZeros DEF Total
  <1>4. Principal = 0 BY <1>1, <1>3 DEF Principal
  <1>5. LineFits(log, principal)
    <2>1. \A j : UpTo(log, j) = {} BY <1>2 DEF UpTo
    <2>2. \A j : SumOf(RowSteps(log), UpTo(log, j)) = 0 BY <2>1, SumOfNone
    <2>3. \A j \in 0..Len(principal) : ValueOf(principal, j) = 0 BY <1>2 DEF ValueOf
    <2>4. QED BY <1>2, <2>2, <2>3 DEF LineFits
  <1>6. ValueOf(principal, Len(principal)) = 0 BY <1>2 DEF ValueOf
  <1>7. QED BY <1>1, <1>2, <1>4, <1>5, <1>6, HistoryBounds DEF HistoryInv

LEMMA HistoryStep == HistoryInv /\ [HistoryNext]_historyVars => HistoryInv'
  <1> SUFFICES ASSUME HistoryInv, [HistoryNext]_historyVars PROVE HistoryInv'
    OBVIOUS
  <1>1. CASE UNCHANGED historyVars
    <2>1. /\ log' = log /\ principal' = principal /\ liquid' = liquid /\ atWork' = atWork
          /\ earned' = earned /\ escaped' = escaped /\ unseen' = unseen
      BY <1>1 DEF historyVars
    <2>2. Principal' = Principal BY <2>1 DEF Principal
    <2>3. QED BY <2>1, <2>2 DEF HistoryInv
  <1>2. ASSUME NEW x \in MoneyMoved, Funded(x) PROVE HistoryInv' BY <1>2, FundedStep
  <1>3. ASSUME NEW x \in MoneyMoved, PaidAway(x) PROVE HistoryInv' BY <1>3, PaidAwayStep
  <1>4. ASSUME NEW m \in Payers, NEW x \in MoneyMoved, IdleSupplied(m, x) PROVE HistoryInv'
    BY <1>4, IdleSuppliedStep
  <1>5. ASSUME NEW m \in Payers, NEW x \in MoneyMoved, IdleWithdrawn(m, x) PROVE HistoryInv'
    BY <1>5, IdleWithdrawnStep
  <1>6. ASSUME NEW m \in Payers, NEW x \in MoneyMoved, TakerPaid(m, x) PROVE HistoryInv'
    BY <1>6, TakerPaidStep
  <1>7. ASSUME NEW markets \in SUBSET Payers, Escaped(markets) PROVE HistoryInv'
    BY <1>7, EscapedStep
  <1>8. CASE OtherRow BY <1>8, OtherRowStep
  <1>9. ASSUME NEW m \in Payers, Credited(m) PROVE HistoryInv' BY <1>9, CreditedStep
  <1>10. QED BY <1>1, <1>2, <1>3, <1>4, <1>5, <1>6, <1>7, <1>8, <1>9 DEF HistoryNext

LEMMA HistoryIsKept == HistorySpec => []HistoryInv
  BY HistoryStarts, HistoryStep, PTL DEF HistorySpec

-----------------------------------------------------------------------------
(* What is drawn. *)

\* Rows of the log between two transactions, the first of them drawn, are all in the answer.
LEMMA BetweenIsRead ==
  ASSUME HistoryInv, NEW i \in Nat, NEW j \in Nat, AllDated(i + 1, j),
         Len(log) =< RowLimit \/ i \in Drawn
  PROVE  \A k \in DOMAIN log : log[k].tx > i /\ log[k].tx =< j => k \in Dated
  <1>1. TAKE k \in DOMAIN log
  <1>2. SUFFICES ASSUME log[k].tx > i, log[k].tx =< j PROVE k \in Dated
    OBVIOUS
  <1>3. log \in Seq(Row) /\ LineFits(log, principal) BY DEF HistoryInv
  <1>4. /\ k \in 1..Len(log) /\ Len(log) \in Nat /\ RowLimit \in Nat
        /\ \A o \in DOMAIN log : o \in Nat /\ log[o].tx \in Nat
    BY <1>3, RowsAre, HistoryBounds
  <1>5. log[k].dated
    <2>1. log[k].tx \in (i + 1)..j BY <1>2, <1>4
    <2>2. QED BY <2>1 DEF AllDated
  <1>6. k > Len(log) - RowLimit
    <2>1. CASE Len(log) =< RowLimit BY <1>4, <2>1
    <2>2. CASE i \in Drawn
      <3>1. PICK o \in Dated : log[o].tx = i BY <2>2 DEF Drawn
      <3>2. o \in DOMAIN log /\ o > Len(log) - RowLimit BY <3>1 DEF Dated
      <3>3. ~ (k < o)
        <4>1. k < o => log[k].tx =< log[o].tx BY <1>3, <3>2 DEF LineFits
        <4>2. QED BY <1>2, <1>4, <3>1, <3>2, <4>1
      <3>4. QED BY <1>4, <3>2, <3>3
    <2>3. QED BY <2>1, <2>2
  <1>7. QED BY <1>5, <1>6 DEF Dated

\* So what is drawn between them is what the whole log adds up to.
LEMMA DrawnIsWorth ==
  ASSUME HistoryInv, NEW i \in 0..Len(principal), NEW j \in 0..Len(principal), i =< j,
         AllDated(i + 1, j), Len(log) =< RowLimit \/ i \in Drawn
  PROVE  ValueAt(j) - ValueAt(i) = ValueOf(principal, j) - ValueOf(principal, i)
  <1> DEFINE f == [k \in Dated |-> LiquidStep(log[k]) + WorkingStep(log[k])]
             g == RowSteps(log)
             A == {k \in Dated : log[k].tx =< i}
             B == {k \in DOMAIN log : log[k].tx > i /\ log[k].tx =< j}
             C == {k \in Dated : log[k].tx =< j}
  <1>1. log \in Seq(Row) /\ LineFits(log, principal) /\ Len(principal) \in Nat BY DEF HistoryInv
  <1>2. /\ IsFiniteSet(DOMAIN log) /\ \A k \in DOMAIN log : log[k] \in Row /\ log[k].tx \in Nat
        /\ \A k \in DOMAIN log : g[k] = StepTo(log[k], OwnOf(log)) /\ g[k] \in Int
    BY <1>1, RowsAre
  <1>3. Dated \subseteq DOMAIN log BY DEF Dated
  <1>4. i \in Nat /\ j \in Nat BY <1>1
  <1>5. B \subseteq Dated BY <1>4, BetweenIsRead
  <1>6. IsFiniteSet(A) /\ IsFiniteSet(B) /\ IsFiniteSet(C) BY <1>2, <1>3, FS_Subset
  <1>7. A \cup B = C /\ A \cap B = {}
    <2>1. \A k \in DOMAIN log : log[k].tx =< j <=> log[k].tx =< i \/ (log[k].tx > i /\ log[k].tx =< j)
      BY <1>2, <1>4
    <2>2. \A k \in DOMAIN log : ~ (log[k].tx =< i /\ log[k].tx > i) BY <1>2, <1>4
    <2>3. QED BY <1>3, <1>5, <2>1, <2>2
  <1>8. \A k \in Dated : f[k] = StepTo(log[k], OwnMoves) /\ f[k] \in Int
    <2>1. TAKE k \in Dated
    <2>2. log[k] \in Row BY <1>2, <1>3
    <2>3. f[k] = LiquidStep(log[k]) + WorkOf(log[k], OwnMoves) BY DEF WorkingStep, WorkOf
    <2>4. QED BY <2>2, <2>3, StepIsInt DEF StepTo
  <1>9. \A k \in B : f[k] = g[k]
    <2>1. TAKE k \in B
    <2>2. k \in Dated /\ k \in DOMAIN log BY <1>5
    <2>3. log[k].tx \in OwnMoves <=> log[k].tx \in OwnOf(log)
      <3>1. ASSUME log[k].tx \in OwnMoves PROVE log[k].tx \in OwnOf(log)
        <4>1. PICK o \in Dated : IsOwnMove(log[o]) /\ log[k].tx = log[o].tx
          BY <3>1 DEF OwnMoves, IsOwnMove
        <4>2. QED BY <1>3, <4>1 DEF OwnOf
      <3>2. ASSUME log[k].tx \in OwnOf(log) PROVE log[k].tx \in OwnMoves
        <4>1. PICK o \in DOMAIN log : IsOwnMove(log[o]) /\ log[k].tx = log[o].tx
          BY <3>2 DEF OwnOf
        <4>2. o \in Dated BY <1>5, <4>1
        <4>3. QED BY <4>1, <4>2 DEF OwnMoves, IsOwnMove
      <3>3. QED BY <3>1, <3>2
    <2>4. StepTo(log[k], OwnMoves) = StepTo(log[k], OwnOf(log)) BY <2>3, StepLooks
    <2>5. QED BY <1>2, <1>8, <2>2, <2>4
  <1> HIDE DEF f, g
  <1>10. ValueAt(j) = SumOf(f, C) /\ ValueAt(i) = SumOf(f, A) BY DEF ValueAt, f
  <1>11. C \subseteq Dated /\ A \subseteq Dated OBVIOUS
  <1>12. UpTo(log, j) = UpTo(log, i) \cup B /\ UpTo(log, i) \cap B = {}
    <2>1. \A k \in DOMAIN log : log[k].tx =< j <=> log[k].tx =< i \/ (log[k].tx > i /\ log[k].tx =< j)
      BY <1>2, <1>4
    <2>2. \A k \in DOMAIN log : ~ (log[k].tx =< i /\ log[k].tx > i) BY <1>2, <1>4
    <2>3. QED BY <2>1, <2>2 DEF UpTo
  <1>13. UpTo(log, i) \subseteq DOMAIN log /\ B \subseteq DOMAIN log BY DEF UpTo
  <1> HIDE DEF A, B, C
  <1>14. SumOf(f, C) = SumOf(f, A) + SumOf(f, B)
    <2>1. \A k \in A \cup B : f[k] \in Int BY <1>7, <1>8, <1>11
    <2>2. SumOf(f, A \cup B) = SumOf(f, A) + SumOf(f, B) BY <1>6, <1>7, <2>1, SumOfBoth
    <2>3. QED BY <1>7, <2>2
  <1>15. SumOf(f, B) = SumOf(g, B)
    <2>1. \A k \in B : g[k] \in Int /\ f[k] = g[k] BY <1>2, <1>9, <1>13
    <2>2. QED BY <1>6, <2>1, SumSame
  <1>16. SumOf(g, UpTo(log, j)) = SumOf(g, UpTo(log, i)) + SumOf(g, B)
    <2>1. \A k \in UpTo(log, i) \cup B : g[k] \in Int BY <1>2, <1>13
    <2>2. IsFiniteSet(UpTo(log, i)) BY <1>2, <1>13, FS_Subset
    <2>3. SumOf(g, UpTo(log, i) \cup B) = SumOf(g, UpTo(log, i)) + SumOf(g, B)
      BY <1>6, <1>12, <2>1, <2>2, SumOfBoth
    <2>4. QED BY <1>12, <2>3
  <1>17. SumOf(g, UpTo(log, j)) = ValueOf(principal, j) /\ SumOf(g, UpTo(log, i)) = ValueOf(principal, i)
    BY <1>1 DEF LineFits, g
  <1>18. SumOf(f, A) \in Int /\ SumOf(g, B) \in Int /\ SumOf(g, UpTo(log, i)) \in Int
    <2>1. \A k \in A : f[k] \in Int BY <1>8, <1>11
    <2>2. \A k \in B : g[k] \in Int BY <1>2, <1>13
    <2>3. \A k \in UpTo(log, i) : g[k] \in Int BY <1>2, <1>13
    <2>4. IsFiniteSet(UpTo(log, i)) BY <1>2, <1>13, FS_Subset
    <2>5. QED BY <1>6, <2>1, <2>2, <2>3, <2>4, SumType
  <1>19. QED BY <1>10, <1>14, <1>15, <1>16, <1>17, <1>18

LEMMA ExactThen == HistoryInv => LineIsExact
  <1> SUFFICES ASSUME HistoryInv PROVE LineIsExact
    OBVIOUS
  <1>1. ASSUME NEW j \in Drawn PROVE j \in 1..Len(principal) /\ Len(principal) \in Nat
    <2>1. log \in Seq(Row) /\ LineFits(log, principal) /\ principal \in Seq(Int) BY DEF HistoryInv
    <2>2. PICK k \in Dated : j = log[k].tx BY DEF Drawn
    <2>3. k \in DOMAIN log BY DEF Dated
    <2>4. log[k] \in Row /\ log[k].tx =< Len(principal) BY <2>1, <2>3 DEF LineFits
    <2>5. log[k].tx \in 1..MaxTransactions BY <2>4 DEF Row
    <2>6. Len(principal) \in Nat BY <2>1
    <2>7. QED BY <2>2, <2>4, <2>5, <2>6
  <1>2. ASSUME NEW j \in Drawn, AllDated(1, j), Len(log) =< RowLimit PROVE ValueAt(j) = principal[j]
    <2>1. j \in 0..Len(principal) /\ 0 \in 0..Len(principal) /\ 0 =< j /\ j # 0 BY <1>1
    <2>2. AllDated(0 + 1, j) BY <1>2
    <2>3. ValueAt(j) - ValueAt(0) = ValueOf(principal, j) - ValueOf(principal, 0)
      BY <1>2, <2>1, <2>2, DrawnIsWorth
    <2>4. ValueOf(principal, j) = principal[j] /\ ValueOf(principal, 0) = 0 BY <2>1 DEF ValueOf
    <2> DEFINE f == [k \in Dated |-> LiquidStep(log[k]) + WorkingStep(log[k])]
               C == {k \in Dated : log[k].tx =< j}
    <2>5. ValueAt(0) = 0
      <3>1. \A k \in DOMAIN log : log[k] \in Row BY RowsAre DEF HistoryInv
      <3>2. \A k \in Dated : k \in DOMAIN log BY DEF Dated
      <3>3. \A k \in Dated : ~ (log[k].tx =< 0) BY <3>1, <3>2 DEF Row
      <3>4. {k \in Dated : log[k].tx =< 0} = {} BY <3>3
      <3>5. QED BY <3>4, SumOfNone DEF ValueAt
    <2>6. ValueAt(j) \in Int
      <3>1. /\ IsFiniteSet(DOMAIN log) /\ \A k \in DOMAIN log : log[k] \in Row
        BY RowsAre DEF HistoryInv
      <3>2. Dated \subseteq DOMAIN log BY DEF Dated
      <3>3. IsFiniteSet(C) BY <3>1, <3>2, FS_Subset
      <3>4. \A k \in C : f[k] \in Int
        <4>1. TAKE k \in C
        <4>2. log[k] \in Row BY <3>1, <3>2
        <4>3. f[k] = LiquidStep(log[k]) + WorkOf(log[k], OwnMoves) BY DEF WorkingStep, WorkOf
        <4>4. QED BY <4>2, <4>3, StepIsInt
      <3>5. ValueAt(j) = SumOf(f, C) BY DEF ValueAt
      <3> HIDE DEF f, C
      <3>6. QED BY <3>3, <3>4, <3>5, SumType
    <2>7. principal[j] \in Int BY <1>1 DEF HistoryInv
    <2> HIDE DEF f, C
    <2>8. ValueAt(j) - 0 = principal[j] - 0 BY <2>3, <2>4, <2>5
    <2>9. QED BY <2>6, <2>7, <2>8
  <1>3. ASSUME NEW j \in Drawn, NEW i \in Drawn, i < j, AllDated(i + 1, j)
        PROVE  ValueAt(j) - ValueAt(i) = principal[j] - principal[i]
    <2>1. i \in 0..Len(principal) /\ j \in 0..Len(principal) /\ i =< j /\ i # 0 /\ j # 0
      BY <1>1, <1>3
    <2>2. ValueAt(j) - ValueAt(i) = ValueOf(principal, j) - ValueOf(principal, i)
      BY <1>3, <2>1, DrawnIsWorth
    <2>3. ValueOf(principal, j) = principal[j] /\ ValueOf(principal, i) = principal[i]
      BY <2>1 DEF ValueOf
    <2>4. QED BY <2>2, <2>3
  <1>4. QED BY <1>2, <1>3 DEF LineIsExact

\* Rows and positions have their types.
THEOREM HistoryTypeCorrect == HistorySpec => []HistoryTypeOK
  <1>1. HistoryInv => HistoryTypeOK BY DEF HistoryInv, HistoryTypeOK, Row
  <1>2. QED BY <1>1, HistoryIsKept, PTL

\* Between two points of the line whose rows are all dated the line moves by what the account's
\* principal did, and it is that principal while the answer holds every row.
THEOREM TheLineIsExact == HistorySpec => []LineIsExact
  <1>1. QED BY ExactThen, HistoryIsKept, PTL

(***************************************************************************)
(* The bot.  What it adds up while the account stands still is the sum of  *)
(* the receipts read so far, less the unread ones, and a receipt is worth  *)
(* at least its number; the rows kept are the log's first.                 *)
(***************************************************************************)
LogKinds == {"moved", "other"}
Texts == {"none", "direct-only", "help", "want-address", "no-answer", "holding", "nothing", "moves"}
JobStages == {"none", "account", "idle", "receipts", "log", "sending"}
Jobs == [stage : JobStages, idle : Nat, working : Nat, left : SUBSET BotReceipts, unread : BOOLEAN,
         still : BOOLEAN, sent : Texts, count : Nat, last : Nat]
LogRows == [kind : LogKinds, dated : BOOLEAN]

BotTyped ==
  /\ liquidUsdc \in Nat /\ receipts \in [BotReceipts -> Nat] /\ worthOf \in [BotReceipts -> Nat \ {0}]
  /\ botLog \in Seq(LogKinds) /\ scanned \in Seq(LogRows)
  /\ updates \in Seq([command : BotCommands, private : BOOLEAN, address : BOOLEAN])
  /\ deliveries \in 0..MaxDeliveries /\ job \in Jobs /\ posted \in Nat /\ overran \in Nat

WorthIsOne == \A r \in BotReceipts \ SharePriced : worthOf[r] = 1

JobIsOfMessage ==
  /\ (job.stage = "sending") = (job.sent # "none")
  /\ job.stage # "none" => updates # <<>>
  /\ job.stage # "none" /\ job.sent # "direct-only" => Message.private

HoldingIsRead ==
  /\ job.stage \in {"account", "idle"} => job.working = 0
  /\ job.sent \in {"holding", "nothing"} => job.left = {}
  /\ (job.stage = "receipts" \/ job.sent \in {"holding", "nothing"}) /\ job.still =>
       /\ job.idle = liquidUsdc
       /\ job.working =< SumOf(receipts, BotReceipts \ job.left)
       /\ ~job.unread => job.working = SumOf(receipts, BotReceipts \ job.left)

RowsAreKept ==
  /\ Len(scanned) =< Len(botLog)
  /\ \A i \in 1..Len(scanned) : scanned[i].kind = botLog[i]

MovesAreCounted ==
  job.sent = "moves" =>
    /\ job.count = Cardinality(MovesIn(scanned))
    /\ job.last # 0 => job.last \in MovesIn(scanned)

ReplyIsSo(r) ==
  /\ r.text \in {"holding", "nothing"} /\ r.still =>
       /\ r.idle = r.liquid /\ r.working =< r.worth
       /\ r.working < r.worth => r.unread \/ r.grown
  /\ r.text # "direct-only" => r.message.private
  /\ r.text = "moves" =>
       /\ r.count =< r.moves
       /\ r.count < r.moves => r.rows > Len(r.kept) \/ r.rows > LogLimit
       /\ r.last # 0 => r.kept[r.last].kind = "moved"

RepliesAreSo ==
  /\ (\E T : replies \in Seq(T)) /\ \A i \in 1..Len(replies) : ReplyIsSo(replies[i])
  /\ Len(replies) + Len(updates) =< posted + overran

BotInv ==
  /\ BotTyped /\ WorthIsOne /\ JobIsOfMessage /\ HoldingIsRead /\ RowsAreKept /\ MovesAreCounted
  /\ RepliesAreSo

\* What a job's fields are, one changed.
LEMMA JobFields ==
  ASSUME NEW j \in Jobs
  PROVE  /\ j.stage \in JobStages /\ j.idle \in Nat /\ j.working \in Nat /\ j.left \in SUBSET BotReceipts
         /\ j.unread \in BOOLEAN /\ j.still \in BOOLEAN /\ j.sent \in Texts /\ j.count \in Nat
         /\ j.last \in Nat
  BY DEF Jobs

LEMMA SaysFields ==
  ASSUME NEW text \in Texts \ {"none"}
  PROVE  /\ Says(text) \in Jobs /\ NoJob \in Jobs
         /\ Says(text).stage = "sending" /\ Says(text).sent = text
         /\ NoJob.stage = "none" /\ NoJob.sent = "none" /\ NoJob.working = 0
  BY DEF Says, NoJob, Jobs, JobStages, Texts

\* The rows the log gives are numbers up to its length, the dated ones have a last.
LEMMA MovesInAre ==
  ASSUME BotAssumption, NEW kept \in Seq(LogRows)
  PROVE  /\ MovesIn(kept) \in SUBSET (1..Len(kept)) /\ IsFiniteSet(MovesIn(kept))
         /\ Cardinality(MovesIn(kept)) \in Nat
         /\ \A i \in MovesIn(kept) : kept[i].kind = "moved"
         /\ DatedIn(kept) # {} => Max(DatedIn(kept)) \in MovesIn(kept)
  <1>1. Len(kept) \in Nat OBVIOUS
  <1>2. MovesIn(kept) \in SUBSET (1..Len(kept)) BY DEF MovesIn
  <1>3. IsFiniteSet(1..Len(kept))
    <2> DEFINE n == Len(kept)
    <2>1. 1 \in Int /\ n \in Int BY <1>1
    <2> HIDE DEF n
    <2>2. IsFiniteSet(1..n) BY <2>1, FS_Interval
    <2>3. QED BY <2>2 DEF n
  <1>4. IsFiniteSet(MovesIn(kept)) BY <1>2, <1>3, FS_Subset
  <1>5. DatedIn(kept) \in SUBSET (1..Len(kept)) /\ DatedIn(kept) \in SUBSET MovesIn(kept)
    BY <1>2 DEF DatedIn
  <1>6. DatedIn(kept) # {} => Max(DatedIn(kept)) \in DatedIn(kept) BY <1>1, <1>5, MaxMinOf
  <1>7. \A i \in MovesIn(kept) : kept[i].kind = "moved" BY DEF MovesIn, IsMove
  <1>8. QED BY <1>2, <1>4, <1>5, <1>6, <1>7, FS_CardinalityType

\* Reading on keeps what was kept and adds the log's next rows.
LEMMA ReadsOn ==
  ASSUME BotTyped, RowsAreKept, NEW dated \in BOOLEAN
  PROVE  /\ ReadOn(dated) \in Seq(LogRows) /\ Len(ReadOn(dated)) = Len(botLog)
         /\ \A i \in 1..Len(ReadOn(dated)) : ReadOn(dated)[i].kind = botLog[i]
  <1> DEFINE n == Len(scanned)
             m == Len(botLog) - n
             more == [i \in 1..m |-> [kind |-> botLog[n + i], dated |-> dated]]
  <1>1. n \in Nat /\ m \in Nat /\ n + m = Len(botLog) /\ scanned \in Seq(LogRows)
    BY DEF BotTyped, RowsAreKept
  <1>2. \A i \in 1..m : n + i \in 1..Len(botLog) BY <1>1
  <1>3. \A i \in 1..m : botLog[n + i] \in LogKinds
    <2> HIDE DEF n, m
    <2>1. botLog \in Seq(LogKinds) BY DEF BotTyped
    <2>2. QED BY <1>2, <2>1
  <1>4. more \in Seq(LogRows) /\ Len(more) = m /\ \A i \in 1..m : more[i].kind = botLog[n + i]
    <2> HIDE DEF n, m
    <2>1. \A i \in 1..m : more[i] \in LogRows /\ more[i].kind = botLog[n + i] BY <1>3 DEF LogRows
    <2>2. more = [i \in 1..m |-> more[i]] OBVIOUS
    <2> HIDE DEF more
    <2>3. QED BY <1>1, <2>1, <2>2
  <1>5. ReadOn(dated) = scanned \o more BY DEF ReadOn
  <1>6. \A i \in 1..n : scanned[i].kind = botLog[i] BY DEF RowsAreKept
  <1> HIDE DEF more, n, m
  <1>7. n = Len(scanned) BY DEF n
  <1>8. ReadOn(dated) \in Seq(LogRows) /\ Len(ReadOn(dated)) = n + m
    <2>1. scanned \in Seq(LogRows) /\ more \in Seq(LogRows) BY <1>1, <1>4
    <2>2. scanned \o more \in Seq(LogRows) /\ Len(scanned \o more) = Len(scanned) + Len(more)
      BY <2>1
    <2>3. QED BY <1>4, <1>5, <1>7, <2>2
  <1>9. ASSUME NEW i \in 1..(n + m) PROVE ReadOn(dated)[i].kind = botLog[i]
    <2>1. CASE i \in 1..n
      <3>1. ReadOn(dated)[i] = scanned[i] BY <1>1, <1>4, <1>5, <1>7, <2>1
      <3>2. QED BY <1>6, <2>1, <3>1
    <2>2. CASE i \notin 1..n
      <3>1. i - n \in 1..m /\ n + (i - n) = i BY <1>1, <2>2
      <3>2. ReadOn(dated)[i] = more[i - n] BY <1>1, <1>4, <1>5, <1>7, <2>2
      <3>3. more[i - n].kind = botLog[n + (i - n)] BY <1>4, <3>1
      <3>4. QED BY <3>1, <3>2, <3>3
    <2>3. QED BY <2>1, <2>2
  <1>10. QED BY <1>1, <1>8, <1>9

\* A job that is over, or that is only to say something, is a job.
LEMMA BotTypedInit ==
  ASSUME BotAssumption, BotInit
  PROVE  BotTyped
  <1>1. NoJob \in Jobs BY DEF NoJob, Jobs, JobStages, Texts
  <1>2. \A T : <<>> \in Seq(T) OBVIOUS
  <1>3. deliveries \in 0..MaxDeliveries /\ liquidUsdc \in Nat /\ posted \in Nat /\ overran \in Nat
    BY DEF BotInit, BotAssumption
  <1>4. receipts \in [BotReceipts -> Nat] /\ worthOf \in [BotReceipts -> Nat \ {0}] BY DEF BotInit
  <1>5. QED BY <1>1, <1>2, <1>3, <1>4 DEF BotInit, BotTyped

\* Telegram is done with the message.
LEMMA AcknowledgedTypes ==
  ASSUME BotAssumption, BotTyped, updates # <<>>, Acknowledged
  PROVE  /\ updates' \in Seq([command : BotCommands, private : BOOLEAN, address : BOOLEAN])
         /\ Len(updates') = Len(updates) - 1 /\ deliveries' \in 0..MaxDeliveries /\ job' \in Jobs
  <1>1. NoJob \in Jobs BY DEF NoJob, Jobs, JobStages, Texts
  <1>2. 0 \in 0..MaxDeliveries BY DEF BotAssumption
  <1> DEFINE M == [command : BotCommands, private : BOOLEAN, address : BOOLEAN]
  <1> HIDE DEF M
  <1>3. updates \in Seq(M) BY DEF BotTyped, M
  <1>4. Tail(updates) \in Seq(M) /\ Len(Tail(updates)) = Len(updates) - 1 BY <1>3
  <1>5. QED BY <1>1, <1>2, <1>4 DEF Acknowledged, M

LEMMA BotTypedStays ==
  ASSUME BotAssumption, BotTyped, RowsAreKept, JobIsOfMessage, [BotNext]_botVars
  PROVE  BotTyped'
  <1> USE DEF accountVars, ghostVars
  <1> DEFINE M == [command : BotCommands, private : BOOLEAN, address : BOOLEAN]
  <1> DEFINE accountTyped == /\ liquidUsdc \in Nat /\ receipts \in [BotReceipts -> Nat]
                             /\ worthOf \in [BotReceipts -> Nat \ {0}] /\ botLog \in Seq(LogKinds)
             postsTyped == updates \in Seq(M) /\ deliveries \in 0..MaxDeliveries
             ghostTyped == posted \in Nat /\ overran \in Nat
             rowsTyped == scanned \in Seq(LogRows)
  <1> HIDE DEF M
  <1>1. accountTyped /\ postsTyped /\ ghostTyped /\ rowsTyped /\ job \in Jobs BY DEF BotTyped, M
  <1>2. ASSUME accountTyped', postsTyped', ghostTyped', rowsTyped', job' \in Jobs PROVE BotTyped'
    BY <1>2 DEF BotTyped, M
  <1>3. \A text \in Texts \ {"none"} : Says(text) \in Jobs BY SaysFields
  <1>4. NoJob \in Jobs BY DEF NoJob, Jobs, JobStages, Texts
  <1>5. Sorry \in Jobs BY <1>3 DEF Sorry, Texts
  <1>a. CASE Messages
    <2>1. PICK command \in BotCommands, private \in BOOLEAN, address \in BOOLEAN :
            /\ updates' = <<[command |-> command, private |-> private, address |-> address]>>
            /\ posted' = posted + 1
      BY <1>a DEF Messages
    <2>2. updates' \in Seq(M) BY <2>1 DEF M
    <2>3. UNCHANGED <<accountVars, scanned, deliveries, job, overran>> BY <1>a DEF Messages
    <2>4. QED BY <1>1, <1>2, <2>1, <2>2, <2>3
  <1>b. CASE Delivered
    <2>1. UNCHANGED <<accountVars, scanned, ghostVars>> /\ updates # <<>> /\ deliveries < MaxDeliveries
      BY <1>b DEF Delivered
    <2>2. CASE Acknowledged
      <3>1. postsTyped' /\ job' \in Jobs BY <2>1, <2>2, AcknowledgedTypes DEF M
      <3>2. QED BY <1>1, <1>2, <2>1, <3>1
    <2>3. CASE ~Acknowledged
      <3>1. deliveries' = deliveries + 1 /\ UNCHANGED updates
            /\ job' \in {Says("direct-only"), Says("help"), Says("want-address"),
                         [NoJob EXCEPT !.stage = "account"]}
        BY <1>b, <2>3 DEF Delivered
      <3>2. [NoJob EXCEPT !.stage = "account"] \in Jobs BY <1>4 DEF Jobs, JobStages
      <3>3. job' \in Jobs BY <1>3, <3>1, <3>2 DEF Texts
      <3>4. deliveries' \in 0..MaxDeliveries BY <1>1, <2>1, <3>1 DEF BotAssumption
      <3>5. QED BY <1>1, <1>2, <2>1, <3>1, <3>3, <3>4
    <2>4. QED BY <2>2, <2>3
  <1>c. CASE ReadAccount
    <2>1. UNCHANGED <<accountVars, scanned, updates, deliveries, ghostVars>> BY <1>c DEF ReadAccount
    <2>2. job' \in Jobs
      <3>1. job' \in {Sorry, [job EXCEPT !.stage = "log"], [job EXCEPT !.stage = "idle"]}
        BY <1>c DEF ReadAccount
      <3>2. QED BY ZenonT(40), <1>1, <1>5, <3>1 DEF Jobs, JobStages
    <2>3. QED BY <1>1, <1>2, <2>1, <2>2
  <1>d. CASE ReadLiquid
    <2>1. UNCHANGED <<accountVars, scanned, updates, deliveries, ghostVars>> BY <1>d DEF ReadLiquid
    <2>2. job' \in Jobs BY ZenonT(40), <1>1, <1>5, <1>d DEF ReadLiquid, Jobs, JobStages
    <2>3. QED BY <1>1, <1>2, <2>1, <2>2
  <1>e. CASE ReadReceipt
    <2>1. UNCHANGED <<accountVars, scanned, updates, deliveries, ghostVars>> BY <1>e DEF ReadReceipt
    <2>2. job' \in Jobs
      <3>1. PICK r \in job.left, answers \in BOOLEAN :
               job' = [job EXCEPT !.left = @ \ {r}, !.unread = @ \/ ~answers,
                                  !.working = @ + IF answers THEN receipts[r] ELSE 0]
        BY <1>e DEF ReadReceipt
      <3>2. receipts[r] \in Nat /\ job.working \in Nat /\ job.left \in SUBSET BotReceipts
            /\ job.unread \in BOOLEAN
        BY <1>1, JobFields
      <3>3. (job.unread \/ ~answers) \in BOOLEAN OBVIOUS
      <3>4. (job.working + IF answers THEN receipts[r] ELSE 0) \in Nat BY <3>2
      <3>5. QED BY <1>1, <3>1, <3>2, <3>3, <3>4 DEF Jobs
    <2>3. QED BY <1>1, <1>2, <2>1, <2>2
  <1>f. CASE AddsUp
    <2>1. UNCHANGED <<accountVars, scanned, updates, deliveries, ghostVars>> BY <1>f DEF AddsUp
    <2>2. job' \in Jobs
      <3>1. \E sent \in {"nothing", "holding"} : job' = [job EXCEPT !.stage = "sending", !.sent = sent]
        BY <1>f DEF AddsUp
      <3>2. QED BY ZenonT(40), <1>1, <3>1 DEF Jobs, JobStages, Texts
    <2>3. QED BY <1>1, <1>2, <2>1, <2>2
  <1>g. CASE CountMoves
    <2>1. UNCHANGED <<accountVars, updates, deliveries, ghostVars>> BY <1>g DEF CountMoves
    <2>2. rowsTyped' BY <1>1, <1>g, ReadsOn DEF CountMoves
    <2>3. job' \in Jobs
      <3>1. \/ job' = Sorry
            \/ job' = [job EXCEPT !.stage = "sending", !.sent = "moves",
                                  !.count = Cardinality(MovesIn(scanned')),
                                  !.last = IF DatedIn(scanned') = {} THEN 0 ELSE Max(DatedIn(scanned'))]
        BY <1>g DEF CountMoves
      <3>2. Cardinality(MovesIn(scanned')) \in Nat
            /\ (IF DatedIn(scanned') = {} THEN 0 ELSE Max(DatedIn(scanned'))) \in Nat
        <4>1. /\ Cardinality(MovesIn(scanned')) \in Nat
              /\ DatedIn(scanned') # {} => Max(DatedIn(scanned')) \in 1..Len(scanned')
          BY <2>2, MovesInAre
        <4>2. QED BY <4>1
      <3>3. QED BY ZenonT(40), <1>1, <1>5, <3>1, <3>2 DEF Jobs, JobStages, Texts
    <2>4. QED BY <1>1, <1>2, <2>1, <2>2, <2>3
  <1>h. CASE Sends
    <2>1. UNCHANGED <<accountVars, scanned, ghostVars>> /\ Acknowledged BY <1>h DEF Sends
    <2>2. updates # <<>> BY <1>h DEF Sends, JobIsOfMessage
    <2>3. postsTyped' /\ job' \in Jobs BY <2>1, <2>2, AcknowledgedTypes DEF M
    <2>4. QED BY <1>1, <1>2, <2>1, <2>3
  <1>i. CASE Overruns
    <2>1. UNCHANGED <<accountVars, scanned, posted>> /\ overran' = overran + 1 /\ job' = NoJob
      BY <1>i DEF Overruns
    <2>2. updates # <<>> BY <1>i DEF Overruns, JobIsOfMessage
    <2>3. postsTyped'
      <3>1. \/ UNCHANGED <<updates, deliveries>>
            \/ updates' = Tail(updates) /\ deliveries' = 0
        BY <1>i DEF Overruns
      <3>2. 0 \in 0..MaxDeliveries BY DEF BotAssumption
      <3>3. Tail(updates) \in Seq(M) BY <1>1, <2>2
      <3>4. QED BY <1>1, <3>1, <3>2, <3>3
    <2>4. QED BY <1>1, <1>2, <1>4, <2>1, <2>3
  <1>j. ASSUME Happens, accountTyped' PROVE BotTyped'
    <2>1. UNCHANGED <<scanned, updates, deliveries, replies, ghostVars>> BY <1>j DEF Happens
    <2>2. job' \in Jobs
      <3> DEFINE still == job.stage = "none"
      <3>1. job' = [job EXCEPT !.still = still] BY <1>j DEF Happens
      <3>2. still \in BOOLEAN OBVIOUS
      <3> HIDE DEF still
      <3>3. QED BY <1>1, <3>1, <3>2 DEF Jobs
    <2>3. QED BY <1>1, <1>2, <1>j, <2>1, <2>2
  <1>k. CASE Opens
    <2>1. accountTyped' BY <1>1, <1>k DEF Opens, LogKinds
    <2>2. QED BY <1>j, <1>k, <2>1 DEF Opens
  <1>l. ASSUME NEW r \in BotReceipts, Supplied(r) PROVE BotTyped'
    <2>1. accountTyped' BY <1>1, <1>l DEF Supplied, LogKinds
    <2>2. QED BY <1>j, <1>l, <2>1 DEF Supplied
  <1>m. ASSUME NEW r \in BotReceipts, Withdrawn(r) PROVE BotTyped'
    <2>1. receipts[r] > 0 /\ receipts' = [receipts EXCEPT ![r] = @ - 1] BY <1>m DEF Withdrawn
    <2>2. receipts' \in [BotReceipts -> Nat] BY <1>1, <2>1
    <2>3. liquidUsdc' \in Nat BY SMTT(30), <1>1, <1>m DEF Withdrawn
    <2>4. accountTyped' BY SMTT(30), <1>1, <1>m, <2>2, <2>3 DEF Withdrawn, LogKinds
    <2>5. QED BY <1>j, <1>m, <2>4 DEF Withdrawn
  <1>n. ASSUME NEW r \in BotReceipts, Accrues(r) PROVE BotTyped'
    <2>0. worthOf[r] \in Nat \ {0} /\ receipts[r] \in Nat BY <1>1, <1>n
    <2>1. accountTyped'
      <3>1. \/ worthOf' = [worthOf EXCEPT ![r] = @ + 1] /\ UNCHANGED receipts
            \/ receipts' = [receipts EXCEPT ![r] = @ + 1] /\ UNCHANGED worthOf
        BY <1>n DEF Accrues
      <3>2. [worthOf EXCEPT ![r] = @ + 1] \in [BotReceipts -> Nat \ {0}] BY <1>1, <2>0
      <3>3. [receipts EXCEPT ![r] = @ + 1] \in [BotReceipts -> Nat] BY <1>1, <2>0
      <3>4. UNCHANGED <<liquidUsdc, botLog>> BY <1>n DEF Accrues
      <3>5. QED BY <1>1, <3>1, <3>2, <3>3, <3>4
    <2>2. QED BY <1>j, <1>n, <2>1 DEF Accrues
  <1>o. CASE UNCHANGED botVars BY <1>1, <1>2, <1>o DEF botVars
  <1> HIDE DEF accountTyped, postsTyped, ghostTyped, rowsTyped, accountVars, ghostVars
  <1>q. QED
    BY <1>a, <1>b, <1>c, <1>d, <1>e, <1>f, <1>g, <1>h, <1>i, <1>k, <1>l, <1>m, <1>n, <1>o
    DEF BotNext

-----------------------------------------------------------------------------
(* The other parts of the invariant. *)

\* What is outside the account and Telegram's queue, an event leaves alone but for job.still.
LEMMA HappensFields ==
  ASSUME BotTyped, Happens
  PROVE  /\ job'.stage = job.stage /\ job'.idle = job.idle /\ job'.working = job.working
         /\ job'.left = job.left /\ job'.unread = job.unread /\ job'.sent = job.sent
         /\ job'.count = job.count /\ job'.last = job.last
         /\ job'.still => job.stage = "none"
         /\ UNCHANGED <<scanned, updates, deliveries, replies, posted, overran>>
  <1> DEFINE still == job.stage = "none"
  <1>1. job' = [job EXCEPT !.still = still] BY DEF Happens
  <1>2. job \in Jobs BY DEF BotTyped
  <1>3. UNCHANGED <<scanned, updates, deliveries, replies, posted, overran>> BY DEF Happens, ghostVars
  <1> HIDE DEF still
  <1>4. /\ job'.stage = job.stage /\ job'.idle = job.idle /\ job'.working = job.working
        /\ job'.left = job.left /\ job'.unread = job.unread /\ job'.sent = job.sent
        /\ job'.count = job.count /\ job'.last = job.last /\ job'.still = still
    BY <1>1, <1>2 DEF Jobs
  <1>5. still => job.stage = "none" BY DEF still
  <1>6. QED BY <1>3, <1>4, <1>5

LEMMA BotEventsAre ==
  ASSUME NEW r \in BotReceipts
  PROVE  (Opens \/ Supplied(r) \/ Withdrawn(r) \/ Accrues(r)) => Happens
  BY DEF Opens, Supplied, Withdrawn, Accrues

LEMMA WorthStaysOne ==
  ASSUME BotAssumption, BotTyped, WorthIsOne, [BotNext]_botVars
  PROVE  WorthIsOne'
  <1> USE DEF accountVars, ghostVars
  <1>1. CASE UNCHANGED worthOf BY <1>1 DEF WorthIsOne
  <1>2. ASSUME NEW r \in BotReceipts, Accrues(r) PROVE WorthIsOne'
    <2>1. CASE r \in SharePriced
      <3>1. worthOf' = [worthOf EXCEPT ![r] = @ + 1] BY <1>2, <2>1 DEF Accrues
      <3>2. worthOf \in [BotReceipts -> Nat \ {0}] BY DEF BotTyped
      <3>3. QED BY <2>1, <3>1, <3>2 DEF WorthIsOne
    <2>2. CASE r \notin SharePriced BY <1>1, <1>2, <2>2 DEF Accrues
    <2>3. QED BY <2>1, <2>2
  <1>3. QED
    BY <1>1, <1>2
    DEF BotNext, botVars, Messages, Delivered, ReadAccount, ReadLiquid, ReadReceipt, AddsUp,
        CountMoves, Sends, Overruns, Opens, Supplied, Withdrawn

LEMMA RowsStayKept ==
  ASSUME BotAssumption, BotTyped, RowsAreKept, [BotNext]_botVars
  PROVE  RowsAreKept'
  <1> USE DEF accountVars, ghostVars
  <1>1. CASE UNCHANGED <<scanned, botLog>> BY <1>1 DEF RowsAreKept
  <1>2. CASE CountMoves
    <2>1. UNCHANGED botLog /\ scanned' \in {scanned, ReadOn(TRUE), ReadOn(FALSE)}
      BY <1>2 DEF CountMoves
    <2>2. CASE scanned' = scanned BY <1>1, <2>1, <2>2
    <2>3. ASSUME NEW dated \in BOOLEAN, scanned' = ReadOn(dated) PROVE RowsAreKept'
      <3>1. Len(ReadOn(dated)) = Len(botLog)
            /\ \A i \in 1..Len(ReadOn(dated)) : ReadOn(dated)[i].kind = botLog[i]
        BY ReadsOn
      <3>2. Len(botLog) \in Nat BY DEF BotTyped
      <3>3. QED BY <2>1, <2>3, <3>1, <3>2 DEF RowsAreKept
    <2>4. QED BY <2>1, <2>2, <2>3
  <1>3. ASSUME NEW row \in LogKinds, botLog' = Append(botLog, row), UNCHANGED scanned
        PROVE  RowsAreKept'
    <2>1. botLog \in Seq(LogKinds) /\ scanned \in Seq(LogRows) BY DEF BotTyped
    <2>2. Len(botLog') = Len(botLog) + 1 /\ \A i \in 1..Len(botLog) : botLog'[i] = botLog[i]
      BY <1>3, <2>1
    <2>3. Len(scanned) \in Nat /\ Len(botLog) \in Nat BY <2>1
    <2>4. QED BY <1>3, <2>2, <2>3 DEF RowsAreKept
  <1>4. CASE Opens BY <1>3, <1>4 DEF Opens, Happens, LogKinds
  <1>5. ASSUME NEW r \in BotReceipts, Supplied(r) \/ Withdrawn(r) PROVE RowsAreKept'
    BY <1>3, <1>5 DEF Supplied, Withdrawn, Happens, LogKinds
  <1>6. ASSUME NEW r \in BotReceipts, Accrues(r) PROVE RowsAreKept'
    BY <1>1, <1>6 DEF Accrues, Happens
  <1>7. QED
    BY <1>1, <1>2, <1>4, <1>5, <1>6
    DEF BotNext, botVars, Messages, Delivered, ReadAccount, ReadLiquid, ReadReceipt, AddsUp,
        Sends, Overruns

LEMMA JobsStayOfMessages ==
  ASSUME BotAssumption, BotTyped, JobIsOfMessage, [BotNext]_botVars
  PROVE  JobIsOfMessage'
  <1> USE DEF accountVars, ghostVars
  <1>0. NoJob.stage = "none" /\ NoJob.sent = "none" BY DEF NoJob
  <1>1. job \in Jobs BY DEF BotTyped
  <1>2. \A text \in Texts \ {"none"} : Says(text).stage = "sending" /\ Says(text).sent = text
    BY SaysFields
  <1>3. ASSUME job' = NoJob PROVE JobIsOfMessage'
    BY <1>0, <1>3 DEF JobIsOfMessage
  <1>4. ASSUME UNCHANGED updates, job.stage # "none", job.sent # "direct-only",
               job'.stage # "none", (job'.stage = "sending") = (job'.sent # "none")
        PROVE  JobIsOfMessage'
    BY <1>4 DEF JobIsOfMessage, Message
  <1>5. Sorry.stage = "sending" /\ Sorry.sent = "no-answer" BY <1>2 DEF Sorry, Texts
  <1>6. ASSUME job.stage \notin {"none", "sending"}, job' = Sorry, UNCHANGED updates PROVE JobIsOfMessage'
    <2>1. job.sent = "none" BY <1>1, <1>6 DEF JobIsOfMessage, Jobs
    <2>2. QED BY <1>4, <1>5, <1>6, <2>1
  <1>7. job.stage \notin {"none", "sending"} => job.sent = "none" BY <1>1 DEF JobIsOfMessage, Jobs
  <1>a. CASE Messages
    <2>1. updates = <<>> /\ UNCHANGED job BY <1>a DEF Messages
    <2>2. job.stage = "none" BY <2>1 DEF JobIsOfMessage
    <2>3. job'.stage = "none" /\ job'.sent = "none" BY <1>1, <2>1, <2>2 DEF JobIsOfMessage, Jobs
    <2>4. QED BY <2>3 DEF JobIsOfMessage
  <1>b. CASE Delivered
    <2>1. CASE Acknowledged BY <1>3, <2>1 DEF Acknowledged
    <2>2. CASE ~Acknowledged
      <3>1. /\ updates # <<>> /\ UNCHANGED updates
            /\ job' = CASE ~Message.private -> Says("direct-only")
                        [] Message.private /\ Message.command = "help" -> Says("help")
                        [] Message.private /\ Message.command # "help" /\ ~Message.address ->
                              Says("want-address")
                        [] OTHER -> [NoJob EXCEPT !.stage = "account"]
        BY <1>b, <2>2 DEF Delivered
      <3>2. Message.private \in BOOLEAN /\ Message.address \in BOOLEAN
        <4> DEFINE M == [command : BotCommands, private : BOOLEAN, address : BOOLEAN]
        <4>1. updates \in Seq(M) BY DEF BotTyped
        <4> HIDE DEF M
        <4>2. Head(updates) \in M BY <3>1, <4>1
        <4>3. QED BY <4>2 DEF M, Message
      <3>3. [NoJob EXCEPT !.stage = "account"].stage = "account"
            /\ [NoJob EXCEPT !.stage = "account"].sent = "none"
        BY DEF NoJob
      <3>4. CASE ~Message.private
        <4>1. job' = Says("direct-only") BY <3>1, <3>4
        <4>2. job'.stage = "sending" /\ job'.sent = "direct-only" BY <1>2, <4>1 DEF Texts
        <4>3. QED BY <3>1, <4>2 DEF JobIsOfMessage
      <3>5. CASE Message.private
        <4>1. job' \in {Says("help"), Says("want-address"), [NoJob EXCEPT !.stage = "account"]}
          BY <3>1, <3>5
        <4>2. job'.stage # "none" /\ (job'.stage = "sending") = (job'.sent # "none")
          <5>1. CASE job' \in {Says("help"), Says("want-address")}
            <6>1. job'.stage = "sending" /\ job'.sent # "none" BY <1>2, <5>1 DEF Texts
            <6>2. QED BY <6>1
          <5>2. CASE job' = [NoJob EXCEPT !.stage = "account"]
            <6>1. job'.stage = "account" /\ job'.sent = "none" BY <3>3, <5>2
            <6>2. QED BY <6>1
          <5>3. QED BY <4>1, <5>1, <5>2
        <4>3. QED BY <3>1, <3>5, <4>2 DEF JobIsOfMessage, Message
      <3>6. QED BY <3>2, <3>4, <3>5
    <2>3. QED BY <2>1, <2>2
  <1>c. CASE ReadAccount
    <2>1. job.stage = "account" /\ UNCHANGED updates
          /\ job' \in {Sorry, [job EXCEPT !.stage = "log"], [job EXCEPT !.stage = "idle"]}
      BY <1>c DEF ReadAccount
    <2>2. CASE job' = Sorry BY <1>6, <2>1, <2>2
    <2>3. CASE job' # Sorry
      <3>1. job'.stage \in {"log", "idle"} /\ job'.sent = job.sent BY <1>1, <2>1, <2>3 DEF Jobs
      <3>2. QED BY <1>4, <1>7, <2>1, <3>1
    <2>4. QED BY <2>2, <2>3
  <1>d. CASE ReadLiquid
    <2>1. job.stage = "idle" /\ UNCHANGED updates
          /\ job' \in {Sorry, [job EXCEPT !.stage = "receipts", !.idle = liquidUsdc,
                                          !.left = BotReceipts]}
      BY <1>d DEF ReadLiquid
    <2>2. CASE job' = Sorry BY <1>6, <2>1, <2>2
    <2>3. CASE job' # Sorry
      <3>1. job'.stage = "receipts" /\ job'.sent = job.sent BY <1>1, <2>1, <2>3 DEF Jobs
      <3>2. QED BY <1>4, <1>7, <2>1, <3>1
    <2>4. QED BY <2>2, <2>3
  <1>e. CASE ReadReceipt
    <2>1. job.stage = "receipts" /\ UNCHANGED updates /\ job'.stage = job.stage /\ job'.sent = job.sent
      BY <1>1, <1>e DEF ReadReceipt, Jobs
    <2>2. QED BY <1>4, <1>7, <2>1
  <1>f. CASE AddsUp
    <2>1. job.stage = "receipts" /\ UNCHANGED updates
          /\ \E sent \in {"nothing", "holding"} : job' = [job EXCEPT !.stage = "sending", !.sent = sent]
      BY <1>f DEF AddsUp
    <2>2. job'.stage = "sending" /\ job'.sent \in {"nothing", "holding"} BY <1>1, <2>1 DEF Jobs
    <2>3. QED BY <1>4, <1>7, <2>1, <2>2
  <1>g. CASE CountMoves
    <2>1. job.stage = "log" /\ UNCHANGED updates
          /\ job' \in {Sorry, [job EXCEPT !.stage = "sending", !.sent = "moves",
                                    !.count = Cardinality(MovesIn(scanned')),
                                    !.last = IF DatedIn(scanned') = {} THEN 0
                                             ELSE Max(DatedIn(scanned'))]}
      BY <1>g DEF CountMoves
    <2>2. CASE job' = Sorry BY <1>6, <2>1, <2>2
    <2>3. CASE job' # Sorry
      <3>1. job'.stage = "sending" /\ job'.sent = "moves" BY <1>1, <2>1, <2>3 DEF Jobs
      <3>2. QED BY <1>4, <1>7, <2>1, <3>1
    <2>4. QED BY <2>2, <2>3
  <1>h. CASE Sends BY <1>3, <1>h DEF Sends, Acknowledged
  <1>i. CASE Overruns BY <1>3, <1>i DEF Overruns
  <1>j. ASSUME Happens PROVE JobIsOfMessage'
    <2>1. job'.stage = job.stage /\ job'.sent = job.sent /\ UNCHANGED updates BY <1>j, HappensFields
    <2>2. QED BY <2>1 DEF JobIsOfMessage, Message
  <1>k. CASE UNCHANGED botVars BY <1>k DEF botVars, JobIsOfMessage, Message
  <1>l. CASE Opens BY <1>j, <1>l DEF Opens
  <1>m. ASSUME NEW r \in BotReceipts, Supplied(r) \/ Withdrawn(r) \/ Accrues(r) PROVE JobIsOfMessage'
    BY <1>j, <1>m, BotEventsAre
  <1>n. QED
    BY <1>a, <1>b, <1>c, <1>d, <1>e, <1>f, <1>g, <1>h, <1>i, <1>k, <1>l, <1>m DEF BotNext

LEMMA MovesStayCounted ==
  ASSUME BotAssumption, BotTyped, JobIsOfMessage, RowsAreKept, MovesAreCounted, [BotNext]_botVars
  PROVE  MovesAreCounted'
  <1> USE DEF accountVars, ghostVars
  <1>1. job \in Jobs BY DEF BotTyped
  <1>2. \A text \in Texts \ {"none"} : Says(text).sent = text BY SaysFields
  <1>3. ASSUME job'.sent # "moves" PROVE MovesAreCounted' BY <1>3 DEF MovesAreCounted
  <1>4. Sorry.sent = "no-answer" /\ NoJob.sent = "none" BY <1>2 DEF Sorry, Texts, NoJob
  <1>5. job.stage \notin {"none", "sending"} => job.sent = "none" BY <1>1 DEF JobIsOfMessage, Jobs
  <1>6. ASSUME job'.sent = job.sent, job'.count = job.count, job'.last = job.last, UNCHANGED scanned
        PROVE  MovesAreCounted'
    BY <1>6 DEF MovesAreCounted
  <1>a. CASE UNCHANGED <<job, scanned>> BY <1>6, <1>a
  <1>b. CASE Delivered
    <2>1. job' \in {NoJob, Says("direct-only"), Says("help"), Says("want-address"),
                    [NoJob EXCEPT !.stage = "account"]}
      BY <1>b DEF Delivered, Acknowledged
    <2>2. [NoJob EXCEPT !.stage = "account"].sent = "none" BY DEF NoJob
    <2>3. /\ Says("direct-only").sent = "direct-only" /\ Says("help").sent = "help"
          /\ Says("want-address").sent = "want-address"
      BY <1>2 DEF Texts
    <2>4. job'.sent \in {"none", "direct-only", "help", "want-address"} BY <1>4, <2>1, <2>2, <2>3
    <2>5. QED BY <1>3, <2>4
  <1>c. CASE ReadAccount \/ ReadLiquid \/ ReadReceipt \/ AddsUp
    <2>1. job.stage \notin {"none", "sending"} BY <1>c DEF ReadAccount, ReadLiquid, ReadReceipt, AddsUp
    <2>2. job.sent = "none" BY <1>5, <2>1
    <2>3. job'.sent # "moves"
      <3>1. CASE ReadAccount
        <4>1. job' \in {Sorry, [job EXCEPT !.stage = "log"], [job EXCEPT !.stage = "idle"]}
          BY <3>1 DEF ReadAccount
        <4>2. QED BY <1>1, <1>4, <2>2, <4>1 DEF Jobs
      <3>2. CASE ReadLiquid
        <4>1. job' \in {Sorry, [job EXCEPT !.stage = "receipts", !.idle = liquidUsdc,
                                           !.left = BotReceipts]}
          BY <3>2 DEF ReadLiquid
        <4>2. QED BY <1>1, <1>4, <2>2, <4>1 DEF Jobs
      <3>3. CASE ReadReceipt BY <1>1, <2>2, <3>3 DEF ReadReceipt, Jobs
      <3>4. CASE AddsUp
        <4>1. \E sent \in {"nothing", "holding"} : job' = [job EXCEPT !.stage = "sending", !.sent = sent]
          BY <3>4 DEF AddsUp
        <4>2. QED BY <1>1, <4>1 DEF Jobs
      <3>5. QED BY <1>c, <3>1, <3>2, <3>3, <3>4
    <2>4. QED BY <1>3, <2>3
  <1>d. CASE CountMoves
    <2> DEFINE count == Cardinality(MovesIn(scanned'))
               last == IF DatedIn(scanned') = {} THEN 0 ELSE Max(DatedIn(scanned'))
    <2>1. job' \in {Sorry, [job EXCEPT !.stage = "sending", !.sent = "moves", !.count = count,
                                       !.last = last]}
      BY <1>d DEF CountMoves
    <2>2. CASE job' = Sorry BY <1>3, <1>4, <2>2
    <2>3. CASE job' # Sorry
      <3>1. scanned' \in Seq(LogRows) BY <1>d, ReadsOn DEF CountMoves, BotTyped
      <3>2. last # 0 => last \in MovesIn(scanned') BY <3>1, MovesInAre
      <3> HIDE DEF count, last
      <3>3. job'.count = count /\ job'.last = last BY <1>1, <2>1, <2>3 DEF Jobs
      <3>4. QED BY <3>2, <3>3 DEF MovesAreCounted, count
    <2>4. QED BY <2>2, <2>3
  <1>e. CASE Sends \/ Overruns BY <1>3, <1>4, <1>e DEF Sends, Overruns, Acknowledged
  <1>f. ASSUME Happens PROVE MovesAreCounted'
    <2>1. job'.sent = job.sent /\ job'.count = job.count /\ job'.last = job.last /\ UNCHANGED scanned
      BY <1>f, HappensFields
    <2>2. QED BY <1>6, <2>1
  <1>g. ASSUME NEW r \in BotReceipts, Supplied(r) \/ Withdrawn(r) \/ Accrues(r) PROVE MovesAreCounted'
    BY <1>f, <1>g, BotEventsAre
  <1>h. CASE Opens BY <1>f, <1>h DEF Opens
  <1>i. CASE Messages BY <1>a, <1>i DEF Messages
  <1>j. QED BY <1>a, <1>b, <1>c, <1>d, <1>e, <1>g, <1>h, <1>i DEF BotNext, botVars

\* One more receipt, read or not.
LEMMA ReceiptAdds ==
  ASSUME BotAssumption, BotTyped, NEW rest \in SUBSET BotReceipts, NEW r \in rest
  PROVE  /\ SumOf(receipts, BotReceipts \ (rest \ {r})) = receipts[r] + SumOf(receipts, BotReceipts \ rest)
         /\ receipts[r] \in Nat /\ SumOf(receipts, BotReceipts \ rest) \in Nat
         /\ SumOf(receipts, BotReceipts \ (rest \ {r})) \in Nat
  <1> DEFINE S == BotReceipts \ rest
  <1>1. receipts \in [BotReceipts -> Nat] BY DEF BotTyped
  <1>2. IsFiniteSet(S) BY FS_Subset DEF BotAssumption
  <1>3. BotReceipts \ (rest \ {r}) = S \cup {r} /\ r \notin S OBVIOUS
  <1>4. (\A x \in S : receipts[x] \in Nat) /\ \A x \in S \cup {r} : receipts[x] \in Int BY <1>1
  <1>5. receipts[r] \in Nat BY <1>1
  <1> HIDE DEF S
  <1>6. SumOf(receipts, S \cup {r}) = receipts[r] + SumOf(receipts, S) BY <1>2, <1>3, <1>4, SumGrows
  <1>7. SumOf(receipts, S) \in Nat BY <1>2, <1>4, SumOfNaturals
  <1>8. receipts[r] + SumOf(receipts, S) \in Nat BY <1>5, <1>7
  <1>9. QED BY <1>3, <1>5, <1>6, <1>7, <1>8 DEF S

LEMMA HoldingStaysRead ==
  ASSUME BotAssumption, BotTyped, JobIsOfMessage, HoldingIsRead, [BotNext]_botVars
  PROVE  HoldingIsRead'
  <1> USE DEF accountVars, ghostVars
  <1>1. job \in Jobs BY DEF BotTyped
  <1>2. \A text \in Texts \ {"none"} : Says(text).stage = "sending" /\ Says(text).sent = text
    BY SaysFields
  <1>3. Sorry.stage = "sending" /\ Sorry.sent = "no-answer" BY <1>2 DEF Sorry, Texts
  <1>4. NoJob.stage = "none" /\ NoJob.sent = "none" BY DEF NoJob
  <1>5. job.stage \notin {"none", "sending"} => job.sent = "none" BY <1>1 DEF JobIsOfMessage, Jobs
  <1>6. ASSUME job'.stage \notin {"account", "idle", "receipts"},
               job'.sent \notin {"holding", "nothing"}
        PROVE  HoldingIsRead'
    BY <1>6 DEF HoldingIsRead
  <1>7. ASSUME job'.stage = job.stage, job'.idle = job.idle, job'.working = job.working,
               job'.left = job.left, job'.unread = job.unread, job'.sent = job.sent,
               job'.still => job.still, UNCHANGED <<liquidUsdc, receipts>>
        PROVE  HoldingIsRead'
    BY <1>7 DEF HoldingIsRead
  <1>8. UNCHANGED job => /\ job'.stage = job.stage /\ job'.idle = job.idle /\ job'.working = job.working
                         /\ job'.left = job.left /\ job'.unread = job.unread /\ job'.sent = job.sent
                         /\ job'.still => job.still
    OBVIOUS
  <1>a. CASE UNCHANGED <<job, liquidUsdc, receipts>> BY <1>7, <1>8, <1>a
  <1>b. CASE Delivered
    <2>1. job' \in {NoJob, Says("direct-only"), Says("help"), Says("want-address"),
                    [NoJob EXCEPT !.stage = "account"]}
      BY <1>b DEF Delivered, Acknowledged
    <2>2. /\ Says("direct-only").sent = "direct-only" /\ Says("help").sent = "help"
          /\ Says("want-address").sent = "want-address" /\ Says("direct-only").stage = "sending"
          /\ Says("help").stage = "sending" /\ Says("want-address").stage = "sending"
      BY <1>2 DEF Texts
    <2>3. CASE job' = [NoJob EXCEPT !.stage = "account"]
      <3>1. job'.stage = "account" /\ job'.sent = "none" /\ job'.working = 0 BY <2>3 DEF NoJob
      <3>2. QED BY <3>1 DEF HoldingIsRead
    <2>4. CASE job' # [NoJob EXCEPT !.stage = "account"]
      <3>1. job'.stage \in {"none", "sending"}
            /\ job'.sent \in {"none", "direct-only", "help", "want-address"}
        BY <1>4, <2>1, <2>2, <2>4
      <3>2. QED BY <1>6, <3>1
    <2>5. QED BY <2>3, <2>4
  <1>c. CASE ReadAccount
    <2>1. job.stage = "account" /\ UNCHANGED <<liquidUsdc, receipts>>
          /\ job' \in {Sorry, [job EXCEPT !.stage = "log"], [job EXCEPT !.stage = "idle"]}
      BY <1>c DEF ReadAccount
    <2>2. CASE job' = Sorry BY <1>3, <1>6, <2>2
    <2>3. CASE job' # Sorry
      <3>1. job.working = 0 /\ job.sent = "none" BY <1>5, <2>1 DEF HoldingIsRead
      <3>2. job'.stage \in {"log", "idle"} /\ job'.working = 0 /\ job'.sent = "none"
        BY <1>1, <2>1, <2>3, <3>1 DEF Jobs
      <3>3. QED BY <3>2 DEF HoldingIsRead
    <2>4. QED BY <2>2, <2>3
  <1>d. CASE ReadLiquid
    <2>1. job.stage = "idle" /\ UNCHANGED <<liquidUsdc, receipts>>
          /\ job' \in {Sorry, [job EXCEPT !.stage = "receipts", !.idle = liquidUsdc,
                                          !.left = BotReceipts]}
      BY <1>d DEF ReadLiquid
    <2>2. CASE job' = Sorry BY <1>3, <1>6, <2>2
    <2>3. CASE job' # Sorry
      <3>1. job.working = 0 /\ job.sent = "none" BY <1>5, <2>1 DEF HoldingIsRead
      <3>2. /\ job'.stage = "receipts" /\ job'.working = 0 /\ job'.sent = "none"
            /\ job'.idle = liquidUsdc' /\ job'.left = BotReceipts
        BY <1>1, <2>1, <2>3, <3>1 DEF Jobs
      <3>3. BotReceipts \ job'.left = {} BY <3>2
      <3>4. SumOf(receipts', BotReceipts \ job'.left) = 0 BY <3>3, SumOfNone
      <3>5. QED BY <3>2, <3>4 DEF HoldingIsRead
    <2>4. QED BY <2>2, <2>3
  <1>e. CASE ReadReceipt
    <2>1. PICK r \in job.left, answers \in BOOLEAN :
            /\ job.stage = "receipts"
            /\ job' = [job EXCEPT !.left = @ \ {r}, !.unread = @ \/ ~answers,
                                  !.working = @ + IF answers THEN receipts[r] ELSE 0]
      BY <1>e DEF ReadReceipt
    <2> DEFINE more == IF answers THEN receipts[r] ELSE 0
               sum == SumOf(receipts, BotReceipts \ job.left)
               sumAfter == SumOf(receipts, BotReceipts \ (job.left \ {r}))
               unreadAfter == job.unread \/ ~answers
    <2>2. UNCHANGED <<liquidUsdc, receipts>> BY <1>e DEF ReadReceipt
    <2>3. /\ job'.stage = job.stage /\ job'.sent = job.sent /\ job'.idle = job.idle
          /\ job'.still = job.still /\ job'.left = job.left \ {r} /\ job'.working = job.working + more
          /\ job'.unread = unreadAfter
      BY <1>1, <2>1 DEF Jobs
    <2>4. job.sent = "none" BY <1>5, <2>1
    <2>5. sumAfter = receipts[r] + sum /\ receipts[r] \in Nat /\ sum \in Nat /\ job.working \in Nat
      BY <1>1, <2>1, JobFields, ReceiptAdds
    <2>6. more \in Nat /\ more =< receipts[r] /\ (answers => more = receipts[r]) BY <2>5
    <2>7. SumOf(receipts', BotReceipts \ job'.left) = sumAfter BY <2>2, <2>3
    <2>8. job.still => /\ job.idle = liquidUsdc /\ job.working =< sum
                       /\ ~job.unread => job.working = sum
      BY <2>1 DEF HoldingIsRead
    <2> HIDE DEF more, sum, sumAfter
    <2>9. job'.still => /\ job'.idle = liquidUsdc' /\ job'.working =< sumAfter
                        /\ ~job'.unread => job'.working = sumAfter
      <3>1. job.still => job'.working =< sumAfter BY <2>3, <2>5, <2>6, <2>8
      <3>2. job.still /\ ~unreadAfter => job'.working = sumAfter
        <4>1. ~unreadAfter => ~job.unread /\ answers OBVIOUS
        <4> HIDE DEF unreadAfter
        <4>2. QED BY <2>3, <2>5, <2>6, <2>8, <4>1
      <3> HIDE DEF unreadAfter
      <3>3. QED BY <2>2, <2>3, <2>8, <3>1, <3>2
    <2>10. QED BY <2>1, <2>3, <2>4, <2>7, <2>9 DEF HoldingIsRead
  <1>f. CASE AddsUp
    <2>1. job.stage = "receipts" /\ job.left = {} /\ UNCHANGED <<liquidUsdc, receipts>>
          /\ \E sent \in {"nothing", "holding"} : job' = [job EXCEPT !.stage = "sending", !.sent = sent]
      BY <1>f DEF AddsUp
    <2>2. /\ job'.stage = "sending" /\ job'.idle = job.idle /\ job'.working = job.working
          /\ job'.left = job.left /\ job'.unread = job.unread /\ job'.still = job.still
      BY <1>1, <2>1 DEF Jobs
    <2>3. QED BY <2>1, <2>2 DEF HoldingIsRead
  <1>g. CASE CountMoves
    <2> DEFINE count == Cardinality(MovesIn(scanned'))
               last == IF DatedIn(scanned') = {} THEN 0 ELSE Max(DatedIn(scanned'))
    <2>1. job' \in {Sorry, [job EXCEPT !.stage = "sending", !.sent = "moves", !.count = count,
                                       !.last = last]}
      BY <1>g DEF CountMoves
    <2> HIDE DEF count, last
    <2>2. job'.stage = "sending" /\ job'.sent \in {"no-answer", "moves"} BY <1>1, <1>3, <2>1 DEF Jobs
    <2>3. QED BY <1>6, <2>2
  <1>h. CASE Sends \/ Overruns BY <1>4, <1>6, <1>h DEF Sends, Overruns, Acknowledged
  <1>i. ASSUME Happens PROVE HoldingIsRead'
    <2>1. CASE job.stage = "none"
      <3>1. job'.stage = "none" /\ job'.sent = job.sent BY <1>i, <2>1, HappensFields
      <3>2. job.sent = "none" BY <1>1, <2>1 DEF JobIsOfMessage, Jobs
      <3>3. QED BY <1>6, <3>1, <3>2
    <2>2. CASE job.stage # "none"
      <3>1. /\ job'.stage = job.stage /\ job'.working = job.working /\ job'.left = job.left
            /\ job'.sent = job.sent /\ ~job'.still
        BY <1>i, <2>2, HappensFields
      <3>2. QED BY <3>1 DEF HoldingIsRead
    <2>3. QED BY <2>1, <2>2
  <1>j. ASSUME NEW r \in BotReceipts, Supplied(r) \/ Withdrawn(r) \/ Accrues(r) PROVE HoldingIsRead'
    BY <1>i, <1>j, BotEventsAre
  <1>k. CASE Opens BY <1>i, <1>k DEF Opens
  <1>l. CASE Messages BY <1>a, <1>l DEF Messages
  <1>m. QED
    BY <1>a, <1>b, <1>c, <1>d, <1>e, <1>f, <1>g, <1>h, <1>j, <1>k, <1>l DEF BotNext, botVars

-----------------------------------------------------------------------------
(* What a reply says is so. *)

LEMMA WorthAtLeast ==
  ASSUME NEW a \in Nat, NEW w \in Nat \ {0}
  PROVE  a * w \in Nat /\ a =< a * w /\ (w = 1 => a * w = a)
  <1>1. w - 1 \in Nat /\ a * (w - 1) \in Nat OBVIOUS
  <1>2. a * w = a * (w - 1) + a OBVIOUS
  <1>3. QED BY <1>1, <1>2

\* The receipts are worth their number at least, and just that when none has grown in worth.
LEMMA NumbersAreWorth ==
  ASSUME BotAssumption, BotTyped, WorthIsOne
  PROVE  /\ SumOf(receipts, BotReceipts) =< WorthAtWork
         /\ SumOf(receipts, BotReceipts) < WorthAtWork =>
              \E r \in SharePriced : worthOf[r] > 1 /\ receipts[r] > 0
         /\ SumOf(receipts, BotReceipts) \in Nat /\ WorthAtWork \in Nat
  <1> DEFINE worth == [r \in BotReceipts |-> receipts[r] * worthOf[r]]
  <1>1. IsFiniteSet(BotReceipts) BY DEF BotAssumption
  <1>2. \A r \in BotReceipts : receipts[r] \in Nat /\ worthOf[r] \in Nat \ {0} BY DEF BotTyped
  <1>3. \A r \in BotReceipts : /\ receipts[r] * worthOf[r] \in Nat
                               /\ receipts[r] =< receipts[r] * worthOf[r]
                               /\ (worthOf[r] = 1 => receipts[r] * worthOf[r] = receipts[r])
    BY <1>2, WorthAtLeast
  <1>4. \A r \in BotReceipts : /\ receipts[r] \in Int /\ worth[r] \in Int /\ receipts[r] <= worth[r]
                               /\ receipts[r] \in Nat /\ worth[r] \in Nat
                               /\ (worthOf[r] = 1 \/ receipts[r] = 0 => worth[r] = receipts[r])
    <2>1. ASSUME NEW r \in BotReceipts
          PROVE  /\ receipts[r] \in Int /\ worth[r] \in Int /\ receipts[r] <= worth[r]
                 /\ receipts[r] \in Nat /\ worth[r] \in Nat
                 /\ (worthOf[r] = 1 \/ receipts[r] = 0 => worth[r] = receipts[r])
      <3>1. worth[r] = receipts[r] * worthOf[r] OBVIOUS
      <3> HIDE DEF worth
      <3>2. receipts[r] \in Nat /\ worthOf[r] \in Nat BY <1>2
      <3>3. receipts[r] = 0 => receipts[r] * worthOf[r] = 0 BY <3>2
      <3>4. QED BY <1>3, <3>1, <3>2, <3>3
    <2> HIDE DEF worth
    <2>2. QED BY <2>1
  <1>5. WorthAtWork = SumOf(worth, BotReceipts) BY DEF WorthAtWork
  <1> HIDE DEF worth
  <1>6. SumOf(receipts, BotReceipts) =< SumOf(worth, BotReceipts) BY <1>1, <1>4, SumRises
  <1>7. SumOf(receipts, BotReceipts) \in Nat /\ SumOf(worth, BotReceipts) \in Nat
    BY <1>1, <1>4, SumOfNaturals
  <1>8. ASSUME ~ \E r \in SharePriced : worthOf[r] > 1 /\ receipts[r] > 0
        PROVE  SumOf(worth, BotReceipts) = SumOf(receipts, BotReceipts)
    <2>1. \A r \in BotReceipts : worth[r] = receipts[r]
      <3>1. ASSUME NEW r \in BotReceipts PROVE worthOf[r] = 1 \/ receipts[r] = 0
        <4>1. CASE r \in SharePriced
          <5>1. worthOf[r] \in Nat \ {0} /\ receipts[r] \in Nat BY <1>2
          <5>2. ~ (worthOf[r] > 1 /\ receipts[r] > 0) BY <1>8, <4>1
          <5>3. QED BY <5>1, <5>2
        <4>2. CASE r \notin SharePriced BY <4>2 DEF WorthIsOne
        <4>3. QED BY <4>1, <4>2
      <3>2. QED BY <1>4, <3>1
    <2>2. QED BY <1>1, <1>4, <2>1, SumSame
  <1>9. QED BY <1>5, <1>6, <1>7, <1>8

LEMMA ReplyFields ==
  /\ Reply.text = job.sent /\ Reply.idle = job.idle /\ Reply.working = job.working
  /\ Reply.count = job.count /\ Reply.last = job.last /\ Reply.unread = job.unread
  /\ Reply.still = job.still /\ Reply.message = Message /\ Reply.liquid = liquidUsdc
  /\ Reply.worth = WorthAtWork /\ Reply.rows = Len(botLog) /\ Reply.kept = scanned
  /\ Reply.moves = Cardinality({i \in DOMAIN botLog : botLog[i] = "moved"})
  /\ (\E r \in SharePriced : worthOf[r] > 1 /\ receipts[r] > 0) => Reply.grown
  <1> DEFINE grown == \E r \in SharePriced : worthOf[r] > 1 /\ receipts[r] > 0
  <1>1. Reply.grown = grown BY DEF Reply
  <1> HIDE DEF grown
  <1>2. grown => Reply.grown BY <1>1
  <1>3. /\ Reply.text = job.sent /\ Reply.idle = job.idle /\ Reply.working = job.working
        /\ Reply.count = job.count /\ Reply.last = job.last /\ Reply.unread = job.unread
        /\ Reply.still = job.still /\ Reply.message = Message /\ Reply.liquid = liquidUsdc
        /\ Reply.worth = WorthAtWork /\ Reply.rows = Len(botLog) /\ Reply.kept = scanned
        /\ Reply.moves = Cardinality({i \in DOMAIN botLog : botLog[i] = "moved"})
    BY DEF Reply
  <1>4. QED BY <1>2, <1>3 DEF grown

LEMMA TheReplyIsSo ==
  ASSUME BotAssumption, BotTyped, WorthIsOne, JobIsOfMessage, HoldingIsRead, RowsAreKept,
         MovesAreCounted, job.stage = "sending"
  PROVE  ReplyIsSo(Reply)
  <1> DEFINE r == Reply
             grown == \E x \in SharePriced : worthOf[x] > 1 /\ receipts[x] > 0
             sum == SumOf(receipts, BotReceipts)
             moved == {i \in DOMAIN botLog : botLog[i] = "moved"}
  <1>1. /\ r.text = job.sent /\ r.idle = job.idle /\ r.working = job.working
        /\ r.count = job.count /\ r.last = job.last /\ r.unread = job.unread
        /\ r.still = job.still /\ r.message = Message /\ r.liquid = liquidUsdc
        /\ r.worth = WorthAtWork /\ r.rows = Len(botLog) /\ r.kept = scanned
        /\ r.moves = Cardinality(moved) /\ (grown => r.grown)
    BY ReplyFields
  <1>2. job \in Jobs BY DEF BotTyped
  <1>3. job.sent # "direct-only" => Message.private BY DEF JobIsOfMessage
  <1>4. ASSUME job.sent \in {"holding", "nothing"}, job.still
        PROVE  /\ job.idle = liquidUsdc /\ job.working =< WorthAtWork
               /\ job.working < WorthAtWork => job.unread \/ grown
    <2>1. BotReceipts \ job.left = BotReceipts BY <1>4 DEF HoldingIsRead
    <2>2. job.idle = liquidUsdc /\ job.working =< sum /\ (~job.unread => job.working = sum)
      BY <1>4, <2>1 DEF HoldingIsRead
    <2>3. sum =< WorthAtWork /\ (sum < WorthAtWork => grown) /\ sum \in Nat /\ WorthAtWork \in Nat
      BY NumbersAreWorth
    <2>4. job.working \in Nat BY <1>2, JobFields
    <2> HIDE DEF sum, grown
    <2>5. QED BY <2>2, <2>3, <2>4
  <1>5. ASSUME job.sent = "moves"
        PROVE  /\ job.count =< Cardinality(moved)
               /\ job.count < Cardinality(moved) => Len(botLog) > Len(scanned) \/ Len(botLog) > LogLimit
               /\ job.last # 0 => scanned[job.last].kind = "moved"
    <2>1. job.count = Cardinality(MovesIn(scanned)) /\ (job.last # 0 => job.last \in MovesIn(scanned))
      BY <1>5 DEF MovesAreCounted
    <2>2. scanned \in Seq(LogRows) /\ botLog \in Seq(LogKinds) /\ Len(botLog) \in Nat
          /\ Len(scanned) \in Nat /\ LogLimit \in Nat
      BY DEF BotTyped, BotAssumption
    <2>3. /\ MovesIn(scanned) \in SUBSET (1..Len(scanned)) /\ Cardinality(MovesIn(scanned)) \in Nat
          /\ \A i \in MovesIn(scanned) : scanned[i].kind = "moved"
      BY <2>2, MovesInAre
    <2>4. moved = {i \in 1..Len(botLog) : botLog[i] = "moved"} BY <2>2
    <2>5. \A i \in 1..Len(scanned) : i \in 1..Len(botLog) /\ scanned[i].kind = botLog[i]
      BY <2>2 DEF RowsAreKept
    <2>6. MovesIn(scanned) \in SUBSET moved BY <2>3, <2>4, <2>5
    <2>7. IsFiniteSet(moved) /\ Cardinality(moved) \in Nat
      <3>1. IsFiniteSet(1..Len(botLog)) BY <2>2, FS_Interval
      <3>2. moved \in SUBSET (1..Len(botLog)) BY <2>4
      <3> HIDE DEF moved
      <3>3. IsFiniteSet(moved) BY <3>1, <3>2, FS_Subset
      <3>4. QED BY <3>3, FS_CardinalityType
    <2>8. ASSUME Len(botLog) =< Len(scanned), Len(botLog) =< LogLimit PROVE moved = MovesIn(scanned)
      <3>1. ASSUME NEW i \in moved PROVE i \in MovesIn(scanned)
        <4>1. i \in 1..Len(botLog) /\ botLog[i] = "moved" BY <2>4, <3>1
        <4>2. i \in 1..Len(scanned) /\ i > Len(scanned) - LogLimit
          <5>1. Len(scanned) =< Len(botLog) BY DEF RowsAreKept
          <5>2. QED BY <2>2, <2>8, <4>1, <5>1
        <4>3. scanned[i].kind = "moved" BY <2>5, <4>1, <4>2
        <4>4. i \in DOMAIN scanned BY <2>2, <4>2
        <4>5. QED BY <4>2, <4>3, <4>4 DEF MovesIn, IsMove
      <3> HIDE DEF moved
      <3>2. QED BY <2>6, <3>1
    <2> HIDE DEF moved
    <2>9. Cardinality(MovesIn(scanned)) =< Cardinality(moved) BY <2>6, <2>7, FS_Subset
    <2>10. job.count < Cardinality(moved) => ~ (Len(botLog) =< Len(scanned) /\ Len(botLog) =< LogLimit)
      BY <2>1, <2>3, <2>7, <2>8
    <2>11. QED BY <2>1, <2>2, <2>3, <2>9, <2>10
  <1> HIDE DEF r, grown, moved
  <1>6. ReplyIsSo(r)
    <2>1. r.text \in {"holding", "nothing"} /\ r.still =>
            /\ r.idle = r.liquid /\ r.working =< r.worth
            /\ r.working < r.worth => r.unread \/ r.grown
      BY <1>1, <1>4
    <2>2. r.text # "direct-only" => r.message.private BY <1>1, <1>3
    <2>3. r.text = "moves" =>
            /\ r.count =< r.moves
            /\ r.count < r.moves => r.rows > Len(r.kept) \/ r.rows > LogLimit
            /\ r.last # 0 => r.kept[r.last].kind = "moved"
      BY <1>1, <1>5
    <2>4. QED BY <2>1, <2>2, <2>3 DEF ReplyIsSo
  <1>7. QED BY <1>6 DEF r

LEMMA RepliesStaySo ==
  ASSUME BotAssumption, BotInv, [BotNext]_botVars
  PROVE  RepliesAreSo'
  <1> USE DEF accountVars, ghostVars
  <1>1. PICK T : replies \in Seq(T) BY DEF BotInv, RepliesAreSo
  <1> DEFINE M == [command : BotCommands, private : BOOLEAN, address : BOOLEAN]
  <1> HIDE DEF M
  <1>2. updates \in Seq(M) /\ posted \in Nat /\ overran \in Nat /\ deliveries \in 0..MaxDeliveries
    BY DEF BotInv, BotTyped, M
  <1>3. Len(replies) \in Nat /\ Len(updates) \in Nat BY <1>1, <1>2
  <1>4. \A i \in 1..Len(replies) : ReplyIsSo(replies[i]) BY DEF BotInv, RepliesAreSo
  <1>5. Len(replies) + Len(updates) =< posted + overran BY DEF BotInv, RepliesAreSo
  <1>6. ASSUME UNCHANGED replies, Len(replies) + Len(updates') =< posted' + overran' PROVE RepliesAreSo'
    BY <1>1, <1>4, <1>6 DEF RepliesAreSo, ReplyIsSo
  <1>7. ASSUME job.stage = "sending", replies' = Append(replies, Reply),
               Len(replies) + 1 + Len(updates') =< posted' + overran'
        PROVE  RepliesAreSo'
    <2>1. ReplyIsSo(Reply) BY <1>7, TheReplyIsSo DEF BotInv
    <2> DEFINE e == Reply
    <2> HIDE DEF e
    <2>2. replies' = Append(replies, e) /\ ReplyIsSo(e) BY <1>7, <2>1 DEF e
    <2>3. replies \in Seq(T \cup {e}) BY <1>1
    <2>4. replies' \in Seq(T \cup {e}) /\ Len(replies') = Len(replies) + 1
          /\ replies'[Len(replies) + 1] = e
          /\ \A i \in 1..Len(replies) : replies'[i] = replies[i]
      BY <2>2, <2>3
    <2>5. \A i \in 1..Len(replies') : ReplyIsSo(replies'[i])
      <3>1. TAKE i \in 1..Len(replies')
      <3>2. i \in 1..Len(replies) \/ i = Len(replies) + 1 BY <1>3, <2>4
      <3>3. QED BY <1>4, <2>2, <2>4, <3>2
    <2>6. (\A i \in 1..Len(replies) : ReplyIsSo(replies[i]))' BY <2>5 DEF ReplyIsSo
    <2>7. Len(replies') + Len(updates') =< posted' + overran' BY <1>7, <2>4
    <2>8. QED BY <2>4, <2>6, <2>7 DEF RepliesAreSo
  <1>8. updates # <<>> => Len(Tail(updates)) = Len(updates) - 1 /\ Len(updates) > 0 BY <1>2
  <1>9. job.stage # "none" => updates # <<>> BY DEF BotInv, JobIsOfMessage
  <1>a. CASE Messages
    <2>1. /\ updates = <<>> /\ posted' = posted + 1 /\ UNCHANGED <<replies, overran>>
          /\ \E command \in BotCommands, private \in BOOLEAN, address \in BOOLEAN :
               updates' = <<[command |-> command, private |-> private, address |-> address]>>
      BY <1>a DEF Messages
    <2>2. Len(updates') = 1 /\ Len(updates) = 0 BY <2>1
    <2>3. QED BY <1>2, <1>3, <1>5, <1>6, <2>1, <2>2
  <1>b. CASE Delivered
    <2>1. updates # <<>> /\ UNCHANGED <<replies, posted, overran>>
          /\ (UNCHANGED updates \/ updates' = Tail(updates))
      BY <1>b DEF Delivered, Acknowledged
    <2>2. QED BY <1>2, <1>3, <1>5, <1>6, <1>8, <2>1
  <1>c. CASE UNCHANGED <<updates, replies, posted, overran>> BY <1>5, <1>6, <1>c
  <1>d. CASE Sends
    <2>1. /\ job.stage = "sending" /\ updates' = Tail(updates) /\ UNCHANGED <<posted, overran>>
          /\ replies' = replies \/ replies' = Append(replies, Reply)
      BY <1>d DEF Sends, Acknowledged
    <2>2. Len(replies) + 1 + Len(updates') =< posted' + overran'
      BY <1>2, <1>3, <1>5, <1>8, <1>9, <2>1
    <2>3. Len(updates') \in Nat
      <3>1. Len(updates') = Len(updates) - 1 /\ Len(updates) > 0 BY <1>8, <1>9, <2>1
      <3>2. QED BY <1>3, <3>1
    <2>4. Len(replies) + Len(updates') =< posted' + overran'
      <3>1. posted' + overran' \in Nat BY <1>2, <2>1
      <3>2. QED BY <1>3, <2>2, <2>3, <3>1
    <2>5. QED BY <1>6, <1>7, <2>1, <2>2, <2>4
  <1>e. CASE Overruns
    <2>1. /\ job.stage # "none" /\ overran' = overran + 1 /\ UNCHANGED posted
          /\ (UNCHANGED updates \/ updates' = Tail(updates))
          /\ replies' = replies \/ (job.stage = "sending" /\ replies' = Append(replies, Reply))
      BY <1>e DEF Overruns
    <2>2. Len(updates') \in Nat /\ Len(updates') =< Len(updates) BY <1>3, <1>8, <1>9, <2>1
    <2>3. Len(replies) + 1 + Len(updates') =< posted' + overran'
      BY <1>2, <1>3, <1>5, <2>1, <2>2
    <2>4. Len(replies) + Len(updates') =< posted' + overran' BY <1>2, <1>3, <2>1, <2>2, <2>3
    <2>5. QED BY <1>6, <1>7, <2>1, <2>3, <2>4
  <1>f. CASE Opens \/ \E r \in BotReceipts : Supplied(r) \/ Withdrawn(r) \/ Accrues(r)
    <2>1. Happens BY <1>f, BotEventsAre DEF Opens
    <2>2. QED BY <1>c, <2>1 DEF Happens
  <1>g. CASE ReadAccount \/ ReadLiquid \/ ReadReceipt \/ AddsUp \/ CountMoves
    BY <1>c, <1>g DEF ReadAccount, ReadLiquid, ReadReceipt, AddsUp, CountMoves
  <1>h. QED BY <1>a, <1>b, <1>c, <1>d, <1>e, <1>f, <1>g DEF BotNext, botVars

\* Every reachable state of the bot and the account beside it is of the invariant's kind.
LEMMA BotInvariant == BotSpec => []BotInv
  <1> USE BotAssumption
  <1>1. BotInit => BotInv
    <2> SUFFICES ASSUME BotInit PROVE BotInv
      OBVIOUS
    <2>1. BotTyped BY BotTypedInit
    <2>2. job.stage = "none" /\ job.sent = "none" /\ job.working = 0 BY DEF BotInit, NoJob
    <2>3. JobIsOfMessage /\ HoldingIsRead /\ MovesAreCounted
      BY <2>2 DEF JobIsOfMessage, HoldingIsRead, MovesAreCounted
    <2>4. WorthIsOne BY DEF BotInit, WorthIsOne
    <2>5. RowsAreKept BY DEF BotInit, RowsAreKept
    <2>6. RepliesAreSo
      <3>1. replies = <<>> /\ updates = <<>> /\ posted = 0 /\ overran = 0 BY DEF BotInit
      <3>2. replies \in Seq({}) /\ Len(replies) = 0 /\ Len(updates) = 0 BY <3>1
      <3>3. QED BY <3>1, <3>2 DEF RepliesAreSo
    <2>7. QED BY <2>1, <2>3, <2>4, <2>5, <2>6 DEF BotInv
  <1>2. BotInv /\ [BotNext]_botVars => BotInv'
    <2> SUFFICES ASSUME BotInv, [BotNext]_botVars PROVE BotInv'
      OBVIOUS
    <2>1. BotTyped /\ WorthIsOne /\ JobIsOfMessage /\ HoldingIsRead /\ RowsAreKept /\ MovesAreCounted
      BY DEF BotInv
    <2>2. BotTyped' /\ WorthIsOne' /\ JobIsOfMessage' /\ HoldingIsRead' /\ RowsAreKept'
          /\ MovesAreCounted'
      BY <2>1, BotTypedStays, WorthStaysOne, JobsStayOfMessages, HoldingStaysRead, RowsStayKept,
         MovesStayCounted
    <2>3. RepliesAreSo' BY RepliesStaySo
    <2>4. QED BY <2>2, <2>3 DEF BotInv
  <1>3. QED BY <1>1, <1>2, PTL DEF BotSpec

\* The account, Telegram's queue and the job are of their types.
THEOREM BotTypeCorrect == BotSpec => []BotTypeOK
  <1>1. BotInv => BotTypeOK
    BY DEF BotInv, BotTyped, BotTypeOK, RowsAreKept, JobIsOfMessage, Jobs, JobStages
  <1>2. QED BY <1>1, BotInvariant, PTL

\* What the bot says of an account is so, and but for handlings that overran it says it once.
THEOREM TheBotTellsTheTruth == BotSpec => []BotTellsTheTruth
  <1>1. BotInv => BotTellsTheTruth
    <2> SUFFICES ASSUME BotInv PROVE BotTellsTheTruth
      OBVIOUS
    <2>1. (\A i \in 1..Len(replies) : ReplyIsSo(replies[i])) /\ (\E T : replies \in Seq(T))
          /\ Len(replies) + Len(updates) =< posted + overran
      BY DEF BotInv, RepliesAreSo
    <2>2. DOMAIN replies = 1..Len(replies) /\ Len(replies) \in Nat BY <2>1
    <2>3. Len(updates) \in Nat /\ posted \in Nat /\ overran \in Nat
      <3> DEFINE M == [command : BotCommands, private : BOOLEAN, address : BOOLEAN]
      <3>1. updates \in Seq(M) /\ posted \in Nat /\ overran \in Nat BY DEF BotInv, BotTyped
      <3> HIDE DEF M
      <3>2. QED BY <3>1
    <2>4. AnsweredOnce BY <2>1, <2>2, <2>3 DEF AnsweredOnce
    <2>5. \A i \in DOMAIN replies : ReplyIsSo(replies[i]) BY <2>1, <2>2
    <2>6. HoldingsAreThere BY <2>5 DEF HoldingsAreThere, ReplyIsSo
    <2>7. MovesAreTheLogs BY <2>5 DEF MovesAreTheLogs, ReplyIsSo
    <2>8. QED BY <2>4, <2>6, <2>7 DEF BotTellsTheTruth
  <1>2. QED BY <1>1, BotInvariant, PTL

(***************************************************************************)
(* The swap card.  While nothing has disturbed a plan, its position can    *)
(* pay and each allowance it needs is there or among the steps to come;    *)
(* a step is laid in its place, so a swap pays with what its own wrap left *)
(* there; and what a plan was made for is what the card has read, as long  *)
(* as the card has read once or the sentence names no dollars.             *)
(***************************************************************************)
Routes == {"aqua", "oneinch", "uniswap"}
StepNames == {"wrap", "approve-token", "approve-permit2", "swap"}
Whys == {"none", "allowance", "funds", "maker", "other"}
Offers == [rate : Nat, ledger : Nat, held : Nat, approved : Nat]
Coins == {"ether", "wrapped", "token"}
Spenders == {"aqua", "oneinch", "permit2", "router"}
Plans == [amount : Sizes \cup {NoAmount}, route : Routes \cup {"none"}, position : Positions \cup {0},
          floor : Int, steps : Seq(StepNames), disturbed : BOOLEAN]
SwapPresses == [stage : {"running", "filled", "failed"}, at : Nat \ {0}, plan : Plans, shown : Sizes,
            why : Whys]

\* A plan that is one has an amount, and a position if it goes to Aqua.
IsMade(p) == IsPlan(p) => p.amount \in Sizes /\ (p.route = "aqua" => p.position \in Positions)

SwapTyped ==
  /\ units \in Sizes /\ sentence \in [dollars : BOOLEAN, ether : BOOLEAN]
  /\ book \in [Positions -> Offers] /\ purse \in [Coins -> Nat] /\ allowance \in [Spenders -> Nat]
  /\ sized \in Sizes \cup {NoAmount} /\ due \in SUBSET Reads /\ rereads \in Nat
  /\ planning \in Plans /\ plan \in Plans /\ IsMade(planning) /\ IsMade(plan)
  /\ tries \in Seq(SwapPresses) /\ latest \in 0..Len(tries)
  /\ \A i \in 1..Len(tries) : IsPlan(tries[i].plan) /\ IsMade(tries[i].plan)

\* The model's operators, of a given book, sentence and allowance.
CapIn(b, q) == Min({b[q].ledger, b[q].held, b[q].approved})
QuoteIn(b, q, amount) == amount * b[q].rate
PullsIn(s, route) == route = "aqua" \/ ~s.ether
PaidIn(s, route) == IF ~s.ether THEN "token" ELSE IF route = "aqua" THEN "wrapped" ELSE "ether"

CanPayIn(b, p) ==
  p.route = "aqua" /\ ~p.disturbed =>
    QuoteIn(b, p.position, p.amount) \in p.floor..CapIn(b, p.position)

ToCome(p, at, step) == \E k \in at..Len(p.steps) : p.steps[k] = step

AllowedIn(a, s, p, at) ==
  IsPlan(p) /\ ~p.disturbed /\ PullsIn(s, p.route) =>
    /\ a[Spender(p.route)] >= p.amount \/ ToCome(p, at, "approve-token")
    /\ p.route = "uniswap" => a["router"] >= p.amount \/ ToCome(p, at, "approve-permit2")

LaidIn(s, p) ==
  /\ Len(p.steps) > 0
  /\ \A k \in 1..Len(p.steps) : /\ p.steps[k] = "swap" <=> k = Len(p.steps)
                                /\ p.steps[k] = "wrap" => k = 1
                                /\ p.steps[k] = "approve-permit2" => p.route = "uniswap"
  /\ p.steps[1] = "wrap" <=> PaidIn(s, p.route) = "wrapped"

PlansAreSo ==
  /\ CanPayIn(book, planning) /\ CanPayIn(book, plan)
  /\ IsPlan(plan) => LaidIn(sentence, plan) /\ AllowedIn(allowance, sentence, plan, 1)

TryRuns(b, a, s, t) == t.stage = "running" => CanPayIn(b, t.plan) /\ AllowedIn(a, s, t.plan, t.at)
TryIsLaid(s, t) == LaidIn(s, t.plan) /\ t.at \in 1..Len(t.plan.steps)
TriesAreSo ==
  \A i \in 1..Len(tries) : TryIsLaid(sentence, tries[i])
                           /\ TryRuns(book, allowance, sentence, tries[i])

SizesAreRead ==
  /\ rereads = 0 =>
       /\ IsPlan(planning) => planning.amount = sized
       /\ IsPlan(plan) => plan.amount = sized
       /\ "sized" \in due => sized = NoAmount /\ ~IsPlan(planning) /\ ~IsPlan(plan)
  /\ ~sentence.dollars =>
       /\ sized # NoAmount => sized = units
       /\ IsPlan(planning) => planning.amount = units
       /\ IsPlan(plan) => plan.amount = units

SwapInv ==
  /\ SwapTyped /\ PlansAreSo /\ TriesAreSo /\ SizesAreRead
  /\ PlannedSwapsLand /\ WrapsAreAccountedFor /\ SignedIsShown

-----------------------------------------------------------------------------
(* The operators. *)

LEMMA InTheirTerms ==
  /\ \A q : Cap(q) = CapIn(book, q)
  /\ \A q, amount : Quote(q, amount) = QuoteIn(book, q, amount)
  /\ \A route : (Pulls(route) <=> PullsIn(sentence, route)) /\ Paid(route) = PaidIn(sentence, route)
  BY DEF Cap, CapIn, Quote, QuoteIn, Pulls, PullsIn, Paid, PaidIn

LEMMA CapIs ==
  ASSUME NEW b \in [Positions -> Offers], NEW q \in Positions
  PROVE  /\ CapIn(b, q) \in Nat /\ CapIn(b, q) =< b[q].ledger /\ CapIn(b, q) =< b[q].held
         /\ CapIn(b, q) =< b[q].approved
  <1> DEFINE S == {b[q].ledger, b[q].held, b[q].approved}
  <1>1. b[q].ledger \in Nat /\ b[q].held \in Nat /\ b[q].approved \in Nat BY DEF Offers
  <1>2. S \in SUBSET Nat /\ S # {} BY <1>1
  <1>3. b[q].ledger \in S /\ b[q].held \in S /\ b[q].approved \in S OBVIOUS
  <1>4. CapIn(b, q) = Min(S) BY DEF CapIn
  <1> HIDE DEF S
  <1>5. Min(S) \in S /\ \A y \in S : Min(S) =< y
    <2>1. \E x \in S : \A y \in S : x =< y BY <1>2, LeastOf
    <2>2. QED BY <2>1 DEF Min
  <1>6. QED BY <1>2, <1>3, <1>4, <1>5

LEMMA QuoteIs ==
  ASSUME SwapCardAssumption, NEW b \in [Positions -> Offers], NEW q \in Positions, NEW amount \in Sizes
  PROVE  QuoteIn(b, q, amount) \in Nat
  <1>1. amount \in Nat /\ b[q].rate \in Nat BY DEF SwapCardAssumption, Offers, Unlimited
  <1>2. amount * b[q].rate \in Nat BY <1>1
  <1>3. QED BY <1>2 DEF QuoteIn

LEMMA SizeIs ==
  ASSUME SwapCardAssumption, NEW amount \in Sizes
  PROVE  amount \in Nat /\ 0 < amount /\ amount < Unlimited /\ amount # NoAmount /\ Unlimited \in Nat
         /\ NoAmount \in Int
  BY DEF SwapCardAssumption, Unlimited, NoAmount

LEMMA PlanFields ==
  ASSUME NEW p \in Plans
  PROVE  /\ p.amount \in Sizes \cup {NoAmount} /\ p.route \in Routes \cup {"none"}
         /\ p.position \in Positions \cup {0} /\ p.floor \in Int /\ p.steps \in Seq(StepNames)
         /\ p.disturbed \in BOOLEAN /\ Len(p.steps) \in Nat
  BY DEF Plans

LEMMA NoPlanIs == NoPlan \in Plans /\ ~IsPlan(NoPlan) /\ IsMade(NoPlan) /\ NoPlan.route = "none"
  <1>1. <<>> \in Seq(StepNames) OBVIOUS
  <1>2. NoPlan \in Plans BY <1>1 DEF NoPlan, Plans
  <1>3. QED BY <1>2 DEF NoPlan, IsPlan, IsMade

\* A disturbed plan is the same plan.
LEMMA DisturbedIs ==
  ASSUME NEW p \in Plans, NEW routes, NEW above
  PROVE  LET q == Disturbed(p, routes, above) IN
         /\ q \in Plans /\ q.amount = p.amount /\ q.route = p.route /\ q.position = p.position
         /\ q.floor = p.floor /\ q.steps = p.steps
         /\ ~q.disturbed => ~p.disturbed /\ ~ (p.route \in routes /\ p.amount > above)
         /\ p.disturbed => q.disturbed
         /\ IsPlan(q) <=> IsPlan(p)
         /\ IsMade(p) => IsMade(q)
  <1> DEFINE e == p.disturbed \/ (p.route \in routes /\ p.amount > above)
             q == Disturbed(p, routes, above)
  <1>1. q = [p EXCEPT !.disturbed = e] BY DEF Disturbed
  <1>2. e \in BOOLEAN BY PlanFields
  <1>3. /\ ~e => ~p.disturbed /\ ~ (p.route \in routes /\ p.amount > above)
        /\ p.disturbed => e
    OBVIOUS
  <1> HIDE DEF e, q
  <1>4. /\ q \in Plans /\ q.amount = p.amount /\ q.route = p.route /\ q.position = p.position
        /\ q.floor = p.floor /\ q.steps = p.steps /\ q.disturbed = e
    BY <1>1, <1>2 DEF Plans
  <1>5. (IsPlan(q) <=> IsPlan(p)) /\ (IsMade(p) => IsMade(q)) BY <1>4 DEF IsPlan, IsMade
  <1>6. QED BY <1>3, <1>4, <1>5 DEF q

LEMMA PressFields ==
  ASSUME NEW t \in SwapPresses
  PROVE  /\ t.stage \in {"running", "filled", "failed"} /\ t.at \in Nat \ {0} /\ t.plan \in Plans
         /\ t.shown \in Sizes /\ t.why \in Whys
  BY DEF SwapPresses

LEMMA StirredIs ==
  ASSUME NEW t \in SwapPresses, NEW routes, NEW above
  PROVE  LET u == Stirred(t, routes, above) IN
         /\ u \in SwapPresses /\ u.stage = t.stage /\ u.at = t.at /\ u.shown = t.shown /\ u.why = t.why
         /\ t.stage = "running" => u.plan = Disturbed(t.plan, routes, above)
         /\ t.stage # "running" => u.plan = t.plan
  <1>1. t.plan \in Plans BY PressFields
  <1>2. CASE t.stage = "running"
    <2> DEFINE q == Disturbed(t.plan, routes, above)
    <2>1. Stirred(t, routes, above) = [t EXCEPT !.plan = q] BY <1>2 DEF Stirred
    <2>2. q \in Plans BY <1>1, DisturbedIs
    <2> HIDE DEF q
    <2>3. LET u == [t EXCEPT !.plan = q] IN
          /\ u \in SwapPresses /\ u.stage = t.stage /\ u.at = t.at /\ u.shown = t.shown /\ u.why = t.why
          /\ u.plan = q
      BY <2>2 DEF SwapPresses
    <2>4. QED BY <1>2, <2>1, <2>3 DEF q
  <1>3. CASE t.stage # "running" BY <1>3 DEF Stirred
  <1>4. QED BY <1>2, <1>3

LEMMA OnwardIs ==
  ASSUME NEW t \in SwapPresses
  PROVE  LET u == Onward(t) IN
         /\ u \in SwapPresses /\ u.plan = t.plan /\ u.shown = t.shown /\ u.why = t.why
         /\ t.plan.steps[t.at] = "swap" => u.stage = "filled" /\ u.at = t.at
         /\ t.plan.steps[t.at] # "swap" => u.stage = t.stage /\ u.at = t.at + 1
  <1>1. CASE t.plan.steps[t.at] = "swap"
    <2>1. Onward(t) = [t EXCEPT !.stage = "filled"] BY <1>1 DEF Onward
    <2>2. QED BY <1>1, <2>1 DEF SwapPresses
  <1>2. CASE t.plan.steps[t.at] # "swap"
    <2>1. Onward(t) = [t EXCEPT !.at = t.at + 1] BY <1>2 DEF Onward
    <2>2. t.at + 1 \in Nat \ {0} BY PressFields
    <2>3. QED BY <1>2, <2>1, <2>2 DEF SwapPresses
  <1>3. QED BY <1>1, <1>2

\* The presses, one of them gone on and the others perhaps disturbed.
LEMMA AdvancedTries ==
  ASSUME SwapTyped, NEW i \in 1..Len(tries), NEW routes, NEW above, Advances(i, routes, above)
  PROVE  /\ tries' \in Seq(SwapPresses) /\ Len(tries') = Len(tries)
         /\ tries'[i] = Onward(tries[i]) /\ tries[i] \in SwapPresses
         /\ \A j \in 1..Len(tries) : tries[j] \in SwapPresses
         /\ \A j \in 1..Len(tries) : j # i => tries'[j] = Stirred(tries[j], routes, above)
         /\ plan' = Disturbed(plan, routes, above) /\ planning' = Disturbed(planning, routes, above)
  <1> DEFINE n == Len(tries)
  <1>1. tries \in Seq(SwapPresses) /\ n \in Nat /\ DOMAIN tries = 1..n BY DEF SwapTyped
  <1>2. \A j \in 1..n : tries[j] \in SwapPresses BY <1>1
  <1>3. tries' = [j \in 1..n |-> IF j = i THEN Onward(tries[i]) ELSE Stirred(tries[j], routes, above)]
    BY <1>1 DEF Advances
  <1>4. \A j \in 1..n : (IF j = i THEN Onward(tries[i]) ELSE Stirred(tries[j], routes, above)) \in SwapPresses
    <2>1. \A j \in 1..n : Stirred(tries[j], routes, above) \in SwapPresses BY <1>2, StirredIs
    <2>2. Onward(tries[i]) \in SwapPresses BY <1>2, OnwardIs
    <2>3. QED BY <2>1, <2>2
  <1>5. tries' \in Seq(SwapPresses) /\ Len(tries') = n BY <1>1, <1>3, <1>4
  <1>6. \A j \in 1..n : tries'[j] = IF j = i THEN Onward(tries[i]) ELSE Stirred(tries[j], routes, above)
    BY <1>3
  <1>7. plan' = Disturbed(plan, routes, above) /\ planning' = Disturbed(planning, routes, above)
    BY DEF Advances, Disturbing
  <1>8. QED BY <1>2, <1>5, <1>6, <1>7

\* The steps of a plan: a wrap first, a swap last, and each approval that is wanting.
AreLaid(s, a, b, c) ==
  /\ s \in Seq(StepNames) /\ Len(s) > 0
  /\ \A k \in 1..Len(s) : /\ (s[k] = "swap" <=> k = Len(s)) /\ (s[k] = "wrap" => k = 1)
                          /\ s[k] = "approve-permit2" => c # <<>>
  /\ s[1] = "wrap" <=> a # <<>>
  /\ b # <<>> => \E k \in 1..Len(s) : s[k] = "approve-token"
  /\ c # <<>> => \E k \in 1..Len(s) : s[k] = "approve-permit2"

LEMMA StepsAre ==
  ASSUME NEW a \in {<<>>, <<"wrap">>}, NEW b \in {<<>>, <<"approve-token">>},
         NEW c \in {<<>>, <<"approve-permit2">>}
  PROVE  AreLaid(a \o b \o c \o <<"swap">>, a, b, c)
  <1> DEFINE na == Len(a) nb == Len(b) nc == Len(c)
             u == a \o b
             v == u \o c
             s == a \o b \o c \o <<"swap">>
  <1>1. /\ a \in Seq(StepNames) /\ b \in Seq(StepNames) /\ c \in Seq(StepNames)
        /\ <<"swap">> \in Seq(StepNames) /\ Len(<<"swap">>) = 1 /\ <<"swap">>[1] = "swap"
    <2>1. "wrap" \in StepNames /\ "approve-token" \in StepNames /\ "approve-permit2" \in StepNames
          /\ "swap" \in StepNames
      BY DEF StepNames
    <2> DEFINE Names == StepNames
    <2> HIDE DEF Names
    <2>a. /\ "wrap" \in Names /\ "approve-token" \in Names /\ "approve-permit2" \in Names
      BY <2>1 DEF Names
    <2>b. \A x \in Names : <<x>> \in Seq(Names) OBVIOUS
    <2>c. <<>> \in Seq(Names) OBVIOUS
    <2>d. a \in Seq(Names) BY <2>a, <2>b, <2>c
    <2>e. b \in Seq(Names) BY <2>a, <2>b, <2>c
    <2>f. c \in Seq(Names) BY <2>a, <2>b, <2>c
    <2>2. a \in Seq(StepNames) BY <2>d DEF Names
    <2>3. b \in Seq(StepNames) BY <2>e DEF Names
    <2>4. c \in Seq(StepNames) BY <2>f DEF Names
    <2>5. <<"swap">> \in Seq(StepNames) BY <2>1
    <2>6. QED BY <2>2, <2>3, <2>4, <2>5
  <1>2. /\ na \in {0, 1} /\ (na = 1 <=> a # <<>>) /\ (na = 1 => a[1] = "wrap")
        /\ nb \in {0, 1} /\ (nb = 1 <=> b # <<>>) /\ (nb = 1 => b[1] = "approve-token")
        /\ nc \in {0, 1} /\ (nc = 1 <=> c # <<>>) /\ (nc = 1 => c[1] = "approve-permit2")
    OBVIOUS
  <1>3. /\ u \in Seq(StepNames) /\ Len(u) = na + nb
        /\ \A k \in 1..(na + nb) : u[k] = IF k =< na THEN a[k] ELSE b[k - na]
    BY <1>1
  <1>4. /\ v \in Seq(StepNames) /\ Len(v) = na + nb + nc
        /\ \A k \in 1..(na + nb + nc) : v[k] = IF k =< na + nb THEN u[k] ELSE c[k - (na + nb)]
    <2>1. na + nb \in Nat /\ nc \in Nat BY <1>2
    <2> HIDE DEF u, na, nb
    <2>2. u \in Seq(StepNames) /\ Len(u) = na + nb /\ c \in Seq(StepNames) /\ nc = Len(c) BY <1>1, <1>3
    <2> HIDE DEF nc
    <2>3. Len(u \o c) = Len(u) + Len(c) /\ u \o c \in Seq(StepNames)
          /\ \A k \in 1..(Len(u) + Len(c)) : (u \o c)[k] = IF k =< Len(u) THEN u[k] ELSE c[k - Len(u)]
      BY <2>2
    <2>4. QED BY <2>2, <2>3
  <1>5. /\ s \in Seq(StepNames) /\ Len(s) = na + nb + nc + 1
        /\ \A k \in 1..(na + nb + nc + 1) :
             s[k] = IF k =< na + nb + nc THEN v[k] ELSE <<"swap">>[k - (na + nb + nc)]
    <2>1. s = v \o <<"swap">> OBVIOUS
    <2> DEFINE e == <<"swap">>
    <2>2. na + nb + nc \in Nat BY <1>2
    <2> HIDE DEF u, v, s, na, nb, nc, e
    <2>3. v \in Seq(StepNames) /\ Len(v) = na + nb + nc BY <1>4
    <2>4. e \in Seq(StepNames) /\ Len(e) = 1 BY <1>1 DEF e
    <2>5. Len(v \o e) = Len(v) + Len(e) /\ v \o e \in Seq(StepNames)
          /\ \A k \in 1..(Len(v) + Len(e)) : (v \o e)[k] = IF k =< Len(v) THEN v[k] ELSE e[k - Len(v)]
      <3> DEFINE N == StepNames
      <3>1. v \in Seq(N) /\ e \in Seq(N) BY <2>3, <2>4
      <3> HIDE DEF N
      <3>2. v \o e \in Seq(N) BY <3>1
      <3>3. Len(v \o e) = Len(v) + Len(e) BY <3>1
      <3>4. \A k \in 1..(Len(v) + Len(e)) : (v \o e)[k] = IF k =< Len(v) THEN v[k] ELSE e[k - Len(v)]
        BY <3>1
      <3>5. QED BY <3>2, <3>3, <3>4 DEF N
    <2>6. s = v \o e BY <2>1 DEF e
    <2>7. QED BY <2>2, <2>3, <2>4, <2>5, <2>6 DEF e
  <1> HIDE DEF u, v, s, na, nb, nc
  <1>6. \A k \in 1..Len(s) :
          /\ k =< na => s[k] = "wrap" /\ k = 1
          /\ na < k /\ k =< na + nb => s[k] = "approve-token"
          /\ na + nb < k /\ k =< na + nb + nc => s[k] = "approve-permit2"
          /\ k = Len(s) => s[k] = "swap"
    <2> SUFFICES ASSUME NEW k \in 1..Len(s)
                 PROVE  /\ k =< na => s[k] = "wrap" /\ k = 1
                        /\ na < k /\ k =< na + nb => s[k] = "approve-token"
                        /\ na + nb < k /\ k =< na + nb + nc => s[k] = "approve-permit2"
                        /\ k = Len(s) => s[k] = "swap"
      OBVIOUS
    <2>1. CASE k =< na
      <3>1. k = 1 /\ na = 1 BY <1>2, <2>1
      <3>2. s[k] = a[k] BY <1>2, <1>3, <1>4, <1>5, <2>1
      <3>3. ~ (na < k) /\ ~ (na + nb < k) /\ k # Len(s) BY <1>2, <1>5, <3>1
      <3>4. QED BY <1>2, <3>1, <3>2, <3>3
    <2>2. CASE na < k /\ k =< na + nb
      <3>1. k - na = 1 /\ nb = 1 BY <1>2, <2>2
      <3>2. s[k] = b[k - na]
        <4>1. k \in 1..(na + nb) /\ k \in 1..(na + nb + nc) /\ k \in 1..(na + nb + nc + 1)
              /\ k =< na + nb + nc /\ ~ (k =< na)
          BY <1>2, <2>2
        <4>2. s[k] = v[k] BY <1>5, <4>1
        <4>3. v[k] = u[k] BY <1>4, <2>2, <4>1
        <4>4. u[k] = b[k - na] BY <1>3, <4>1
        <4>5. QED BY <4>2, <4>3, <4>4
      <3>3. ~ (k =< na) /\ ~ (na + nb < k) /\ k # Len(s) BY <1>2, <1>5, <2>2
      <3>4. QED BY <1>2, <3>1, <3>2, <3>3
    <2>3. CASE na + nb < k /\ k =< na + nb + nc
      <3>1. k - (na + nb) = 1 /\ nc = 1 BY <1>2, <2>3
      <3>2. s[k] = c[k - (na + nb)] BY <1>2, <1>4, <1>5, <2>3
      <3>3. ~ (k =< na) /\ ~ (k =< na + nb) /\ k # Len(s) BY <1>2, <1>5, <2>3
      <3>4. QED BY <1>2, <3>1, <3>2, <3>3
    <2>4. CASE na + nb + nc < k
      <3>1. k = Len(s) /\ k - (na + nb + nc) = 1 BY <1>2, <1>5, <2>4
      <3>2. s[k] = <<"swap">>[1] BY <1>2, <1>5, <2>4, <3>1
      <3>3. ~ (k =< na) /\ ~ (k =< na + nb) /\ ~ (k =< na + nb + nc) BY <1>2, <2>4
      <3>4. QED BY <1>1, <3>1, <3>2, <3>3
    <2>5. QED BY <1>2, <2>1, <2>2, <2>3, <2>4
  <1>7. Len(s) \in Nat /\ Len(s) > 0 BY <1>2, <1>5
  <1>8. \A k \in 1..Len(s) : /\ (s[k] = "swap" <=> k = Len(s)) /\ (s[k] = "wrap" => k = 1)
                             /\ s[k] = "approve-permit2" => nc = 1
    <2>1. TAKE k \in 1..Len(s)
    <2>2. \/ k =< na \/ (na < k /\ k =< na + nb)
          \/ (na + nb < k /\ k =< na + nb + nc) \/ k = Len(s)
      BY <1>2, <1>5
    <2>3. k =< na + nb + nc => k # Len(s) BY <1>2, <1>5
    <2>4. (k =< na => k =< na + nb + nc) /\ (k =< na + nb => k =< na + nb + nc) BY <1>2
    <2>5. na + nb < k /\ k =< na + nb + nc => nc = 1 BY <1>2
    <2>6. QED BY <1>6, <2>2, <2>3, <2>4, <2>5
  <1>9. s[1] = "wrap" <=> na = 1
    <2>1. 1 \in 1..Len(s) BY <1>7
    <2>2. CASE na = 1 BY <1>6, <2>1, <2>2
    <2>3. CASE na = 0
      <3>1. nb = 1 => s[1] = "approve-token" BY <1>2, <1>6, <2>1, <2>3
      <3>2. nb = 0 /\ nc = 1 => s[1] = "approve-permit2" BY <1>2, <1>6, <2>1, <2>3
      <3>3. nb = 0 /\ nc = 0 => s[1] = "swap"
        <4>1. nb = 0 /\ nc = 0 => Len(s) = 1 BY <1>5, <2>3
        <4>2. QED BY <1>6, <2>1, <4>1
      <3>4. s[1] # "wrap" BY <1>2, <3>1, <3>2, <3>3
      <3>5. QED BY <2>3, <3>4
    <2>4. QED BY <1>2, <2>2, <2>3
  <1>10. nb = 1 => \E k \in 1..Len(s) : s[k] = "approve-token"
    <2>1. nb = 1 => na + 1 \in 1..Len(s) /\ na < na + 1 /\ na + 1 =< na + nb BY <1>2, <1>5
    <2>2. QED BY <1>6, <2>1
  <1>11. nc = 1 => \E k \in 1..Len(s) : s[k] = "approve-permit2"
    <2>1. nc = 1 => /\ na + nb + 1 \in 1..Len(s) /\ na + nb < na + nb + 1
                    /\ na + nb + 1 =< na + nb + nc
      BY <1>2, <1>5
    <2>2. QED BY <1>6, <2>1
  <1>12. AreLaid(s, a, b, c) BY <1>2, <1>5, <1>7, <1>8, <1>9, <1>10, <1>11 DEF AreLaid
  <1>13. QED BY <1>12 DEF s

LEMMA LaidSteps ==
  ASSUME NEW route, NEW amount
  PROVE  StepsFor(route, amount) \in Seq(StepNames)
  <1> DEFINE a == IfNeeded("wrap", route, amount)
             b == IfNeeded("approve-token", route, amount)
             c == IfNeeded("approve-permit2", route, amount)
  <1>1. /\ a \in {<<>>, <<"wrap">>} /\ b \in {<<>>, <<"approve-token">>}
        /\ c \in {<<>>, <<"approve-permit2">>} /\ StepsFor(route, amount) = a \o b \o c \o <<"swap">>
    BY DEF IfNeeded, StepsFor
  <1> HIDE DEF a, b, c
  <1>2. AreLaid(a \o b \o c \o <<"swap">>, a, b, c) BY <1>1, StepsAre
  <1>3. QED BY <1>1, <1>2 DEF AreLaid

LEMMA StepsForAre ==
  ASSUME SwapCardAssumption, SwapTyped, NEW p \in Plans, IsPlan(p), p.amount \in Sizes,
         NEW q, q \in Plans, q.steps = StepsFor(p.route, p.amount), q.route = p.route, q.amount = p.amount,
         IsPlan(q)
  PROVE  /\ StepsFor(p.route, p.amount) \in Seq(StepNames)
         /\ LaidIn(sentence, q) /\ AllowedIn(allowance, sentence, q, 1)
  <1> DEFINE a == IfNeeded("wrap", p.route, p.amount)
             b == IfNeeded("approve-token", p.route, p.amount)
             c == IfNeeded("approve-permit2", p.route, p.amount)
             s == StepsFor(p.route, p.amount)
  <1>1. /\ a \in {<<>>, <<"wrap">>} /\ b \in {<<>>, <<"approve-token">>}
        /\ c \in {<<>>, <<"approve-permit2">>} /\ s = a \o b \o c \o <<"swap">>
    BY DEF IfNeeded, StepsFor
  <1>2. (a # <<>> <=> PaidIn(sentence, p.route) = "wrapped")
    BY InTheirTerms DEF IfNeeded, Needs
  <1>3. b = <<>> /\ PullsIn(sentence, p.route) => ~ (allowance[Spender(p.route)] < p.amount)
    BY InTheirTerms DEF IfNeeded, Needs
  <1>4. /\ c = <<>> /\ PullsIn(sentence, p.route) /\ p.route = "uniswap" =>
             ~ (allowance["router"] < p.amount)
        /\ c # <<>> => p.route = "uniswap"
    BY InTheirTerms DEF IfNeeded, Needs
  <1>5. p.amount \in Nat BY SizeIs
  <1>6. allowance[Spender(p.route)] \in Nat /\ allowance["router"] \in Nat
    <2>1. p.route \in Routes BY PlanFields DEF IsPlan
    <2>2. Spender(p.route) \in Spenders BY <2>1 DEF Routes, Spenders, Spender
    <2>3. QED BY <2>2 DEF SwapTyped, Spenders
  <1> HIDE DEF a, b, c, s
  <1>7. /\ s \in Seq(StepNames) /\ Len(s) > 0
        /\ \A k \in 1..Len(s) : /\ (s[k] = "swap" <=> k = Len(s)) /\ (s[k] = "wrap" => k = 1)
                                /\ s[k] = "approve-permit2" => c # <<>>
        /\ s[1] = "wrap" <=> a # <<>>
        /\ b # <<>> => \E k \in 1..Len(s) : s[k] = "approve-token"
        /\ c # <<>> => \E k \in 1..Len(s) : s[k] = "approve-permit2"
    <2>1. AreLaid(s, a, b, c) BY <1>1, StepsAre
    <2>2. QED BY <2>1 DEF AreLaid
  <1>8. q.steps = s BY DEF s
  <1>9. LaidIn(sentence, q) BY <1>2, <1>4, <1>7, <1>8 DEF LaidIn
  <1>10. AllowedIn(allowance, sentence, q, 1)
    <2>1. PullsIn(sentence, q.route) =>
            allowance[Spender(q.route)] >= q.amount \/ ToCome(q, 1, "approve-token")
      BY <1>3, <1>5, <1>6, <1>7, <1>8 DEF ToCome
    <2>2. PullsIn(sentence, q.route) /\ q.route = "uniswap" =>
            allowance["router"] >= q.amount \/ ToCome(q, 1, "approve-permit2")
      BY <1>4, <1>5, <1>6, <1>7, <1>8 DEF ToCome
    <2>3. QED BY <2>1, <2>2 DEF AllowedIn
  <1>11. QED BY <1>7, <1>9, <1>10 DEF s

-----------------------------------------------------------------------------
(* Plans, while the book and the allowances change. *)

LEMMA KeepsPaying ==
  ASSUME SwapCardAssumption, NEW p \in Plans, IsMade(p), NEW b, NEW c, CanPayIn(b, p),
         NEW routes, NEW above, c = b \/ ("aqua" \in routes /\ above = 0)
  PROVE  CanPayIn(c, Disturbed(p, routes, above))
  <1> DEFINE q == Disturbed(p, routes, above)
  <1>1. /\ q.amount = p.amount /\ q.route = p.route /\ q.position = p.position /\ q.floor = p.floor
        /\ ~q.disturbed => ~p.disturbed /\ ~ (p.route \in routes /\ p.amount > above)
    BY DisturbedIs
  <1> HIDE DEF q
  <1>2. CASE c = b BY <1>1, <1>2 DEF CanPayIn, q
  <1>3. CASE "aqua" \in routes /\ above = 0
    <2>1. p.route = "aqua" => p.amount > above
      <3>1. p.route = "aqua" => p.amount \in Sizes BY DEF IsMade, IsPlan
      <3>2. QED BY <1>3, <3>1, SizeIs
    <2>2. QED BY <1>1, <1>3, <2>1 DEF CanPayIn, q
  <1>4. QED BY <1>2, <1>3

\* An allowance that is neither enough nor what it was is one the plan is disturbed for.
Spared(a, d, route, amount) ==
  /\ d[Spender(route)] >= amount \/ d[Spender(route)] >= a[Spender(route)]
  /\ route = "uniswap" => d["router"] >= amount \/ d["router"] >= a["router"]

LEMMA SpenderIs ==
  ASSUME NEW route \in Routes
  PROVE  /\ Spender(route) \in Spenders /\ Spender(route) # "router"
         /\ \A other \in Routes : Spender(other) = Spender(route) => other = route
  BY DEF Routes, Spenders, Spender

LEMMA StillAllowed ==
  ASSUME SwapCardAssumption, NEW p \in Plans, IsPlan(p), IsMade(p), NEW a \in [Spenders -> Nat],
         NEW d \in [Spenders -> Nat], NEW s, NEW at, AllowedIn(a, s, p, at),
         ~p.disturbed => Spared(a, d, p.route, p.amount)
  PROVE  AllowedIn(d, s, p, at)
  <1>1. p.amount \in Nat /\ p.route \in Routes BY PlanFields, SizeIs DEF IsMade, IsPlan
  <1> DEFINE spender == Spender(p.route)
  <1>2. spender \in Spenders /\ "router" \in Spenders BY <1>1, SpenderIs DEF Spenders
  <1> HIDE DEF spender
  <1>3. a[spender] \in Nat /\ d[spender] \in Nat /\ a["router"] \in Nat /\ d["router"] \in Nat
    BY <1>2
  <1>4. ASSUME ~p.disturbed, PullsIn(s, p.route)
        PROVE  /\ d[spender] >= p.amount \/ ToCome(p, at, "approve-token")
               /\ p.route = "uniswap" => d["router"] >= p.amount \/ ToCome(p, at, "approve-permit2")
    <2>1. /\ a[spender] >= p.amount \/ ToCome(p, at, "approve-token")
          /\ p.route = "uniswap" => a["router"] >= p.amount \/ ToCome(p, at, "approve-permit2")
      BY <1>4 DEF AllowedIn, spender
    <2>2. /\ d[spender] >= p.amount \/ d[spender] >= a[spender]
          /\ p.route = "uniswap" => d["router"] >= p.amount \/ d["router"] >= a["router"]
      BY <1>4 DEF Spared, spender
    <2>3. QED BY <1>1, <1>3, <2>1, <2>2
  <1>5. QED BY <1>4 DEF AllowedIn, spender

LEMMA KeepsAllowed ==
  ASSUME SwapCardAssumption, NEW p \in Plans, IsPlan(p), IsMade(p), NEW a \in [Spenders -> Nat],
         NEW d \in [Spenders -> Nat], NEW s, NEW at, AllowedIn(a, s, p, at), NEW routes, NEW above,
         (p.route \in routes /\ p.amount > above) \/ Spared(a, d, p.route, p.amount)
  PROVE  AllowedIn(d, s, Disturbed(p, routes, above), at)
  <1> DEFINE q == Disturbed(p, routes, above)
  <1>1. /\ q \in Plans /\ q.amount = p.amount /\ q.route = p.route /\ q.steps = p.steps
        /\ ~q.disturbed => ~p.disturbed /\ ~ (p.route \in routes /\ p.amount > above)
        /\ IsPlan(q) /\ IsMade(q)
    BY DisturbedIs
  <1> HIDE DEF q
  <1>2. AllowedIn(a, s, q, at) BY <1>1 DEF AllowedIn, ToCome
  <1>3. ~q.disturbed => Spared(a, d, q.route, q.amount) BY <1>1
  <1>4. AllowedIn(d, s, q, at) BY <1>1, <1>2, <1>3, StillAllowed
  <1>5. QED BY <1>4 DEF q

\* A step that is done is not to come, and has given what it was for.
LEMMA StepIsDone ==
  ASSUME SwapCardAssumption, NEW p \in Plans, IsPlan(p), IsMade(p), NEW a \in [Spenders -> Nat],
         NEW d \in [Spenders -> Nat], NEW s, NEW at \in 1..Len(p.steps), AllowedIn(a, s, p, at),
         Spared(a, d, p.route, p.amount),
         p.steps[at] = "approve-token" => d[Spender(p.route)] >= p.amount,
         p.steps[at] = "approve-permit2" => d["router"] >= p.amount
  PROVE  AllowedIn(d, s, p, at + 1)
  <1>1. AllowedIn(d, s, p, at) BY StillAllowed
  <1>2. at \in Nat /\ Len(p.steps) \in Nat BY PlanFields
  <1>3. ASSUME NEW step, ToCome(p, at, step), p.steps[at] # step PROVE ToCome(p, at + 1, step)
    <2>1. PICK k \in at..Len(p.steps) : p.steps[k] = step BY <1>3 DEF ToCome
    <2>2. k # at BY <1>3, <2>1
    <2>3. k \in (at + 1)..Len(p.steps) BY <1>2, <2>2
    <2>4. QED BY <2>1, <2>3 DEF ToCome
  <1>4. QED BY <1>1, <1>3 DEF AllowedIn

-----------------------------------------------------------------------------
(* A press goes on. *)

LEMMA LaidStays ==
  ASSUME NEW s, NEW p \in Plans, NEW q \in Plans, LaidIn(s, p), q.steps = p.steps, q.route = p.route
  PROVE  LaidIn(s, q)
  BY DEF LaidIn

LEMMA TryStirred ==
  ASSUME SwapCardAssumption, NEW t \in SwapPresses, IsPlan(t.plan), IsMade(t.plan),
         NEW b, NEW c, NEW a \in [Spenders -> Nat], NEW d \in [Spenders -> Nat], NEW s,
         NEW routes, NEW above, TryIsLaid(s, t), TryRuns(b, a, s, t),
         c = b \/ ("aqua" \in routes /\ above = 0),
         (t.plan.route \in routes /\ t.plan.amount > above)
           \/ Spared(a, d, t.plan.route, t.plan.amount)
  PROVE  /\ TryIsLaid(s, Stirred(t, routes, above)) /\ TryRuns(c, d, s, Stirred(t, routes, above))
         /\ IsPlan(Stirred(t, routes, above).plan) /\ IsMade(Stirred(t, routes, above).plan)
  <1> DEFINE u == Stirred(t, routes, above)
             q == Disturbed(t.plan, routes, above)
  <1>1. /\ u \in SwapPresses /\ u.stage = t.stage /\ u.at = t.at
        /\ t.stage = "running" => u.plan = q
        /\ t.stage # "running" => u.plan = t.plan
    BY StirredIs
  <1>2. t.plan \in Plans BY PressFields
  <1>3. /\ q \in Plans /\ q.steps = t.plan.steps /\ q.route = t.plan.route
        /\ IsPlan(q) /\ IsMade(q)
    BY <1>2, DisturbedIs
  <1>4. u.plan \in Plans /\ u.plan.steps = t.plan.steps /\ u.plan.route = t.plan.route
        /\ IsPlan(u.plan) /\ IsMade(u.plan)
    BY <1>1, <1>2, <1>3
  <1>5. TryIsLaid(s, u)
    <2> HIDE DEF u, q
    <2>1. LaidIn(s, t.plan) /\ t.at \in 1..Len(t.plan.steps) BY DEF TryIsLaid
    <2>2. LaidIn(s, u.plan) BY <1>2, <1>4, <2>1, LaidStays
    <2>3. QED BY <1>1, <1>4, <2>1, <2>2 DEF TryIsLaid
  <1>6. TryRuns(c, d, s, u)
    <2>1. CASE u.stage = "running"
      <3>1. CanPayIn(b, t.plan) /\ AllowedIn(a, s, t.plan, t.at) BY <1>1, <2>1 DEF TryRuns
      <3>2. CanPayIn(c, q) BY <1>2, <3>1, KeepsPaying
      <3>3. AllowedIn(d, s, q, t.at) BY <1>2, <3>1, KeepsAllowed
      <3> HIDE DEF u, q
      <3>4. QED BY <1>1, <2>1, <3>2, <3>3 DEF TryRuns
    <2>2. CASE u.stage # "running" BY <2>2 DEF TryRuns
    <2>3. QED BY <2>1, <2>2
  <1>7. QED BY <1>4, <1>5, <1>6

LEMMA TryOnward ==
  ASSUME NEW t \in SwapPresses, NEW b, NEW d, NEW s, TryIsLaid(s, t),
         t.plan.steps[t.at] # "swap" => CanPayIn(b, t.plan) /\ AllowedIn(d, s, t.plan, t.at + 1)
  PROVE  TryIsLaid(s, Onward(t)) /\ TryRuns(b, d, s, Onward(t)) /\ Onward(t).plan = t.plan
  <1> DEFINE u == Onward(t)
  <1>1. /\ u \in SwapPresses /\ u.plan = t.plan
        /\ t.plan.steps[t.at] = "swap" => u.stage = "filled" /\ u.at = t.at
        /\ t.plan.steps[t.at] # "swap" => u.stage = t.stage /\ u.at = t.at + 1
    BY OnwardIs
  <1> HIDE DEF u
  <1>2. LaidIn(s, t.plan) /\ t.at \in 1..Len(t.plan.steps) BY DEF TryIsLaid
  <1>3. t.plan.steps[t.at] = "swap" <=> t.at = Len(t.plan.steps) BY <1>2 DEF LaidIn
  <1>4. Len(t.plan.steps) \in Nat BY PressFields, PlanFields
  <1>5. u.at \in 1..Len(t.plan.steps) BY <1>1, <1>2, <1>3, <1>4
  <1>6. TryIsLaid(s, u) BY <1>1, <1>2, <1>5 DEF TryIsLaid
  <1>7. TryRuns(b, d, s, u) BY <1>1 DEF TryRuns
  <1>8. QED BY <1>1, <1>6, <1>7 DEF u

\* What a press does, it does to the book and the allowances, and what others had of them is
\* spared or they are disturbed.
LEMMA AdvancesSoundly ==
  ASSUME SwapCardAssumption, SwapTyped, PlansAreSo, TriesAreSo,
         NEW i \in 1..Len(tries), NEW routes, NEW above, Advances(i, routes, above),
         UNCHANGED sentence, book' = book \/ ("aqua" \in routes /\ above = 0),
         allowance' \in [Spenders -> Nat],
         \A r \in Routes, m \in Sizes :
            (r \in routes /\ m > above) \/ Spared(allowance, allowance', r, m),
         tries[i].plan.steps[tries[i].at] # "swap" =>
            /\ CanPayIn(book', tries[i].plan)
            /\ AllowedIn(allowance', sentence, tries[i].plan, tries[i].at + 1)
  PROVE  /\ PlansAreSo' /\ TriesAreSo'
         /\ tries' \in Seq(SwapPresses) /\ Len(tries') = Len(tries)
         /\ \A j \in 1..Len(tries) : IsPlan(tries'[j].plan) /\ IsMade(tries'[j].plan)
         /\ planning' \in Plans /\ plan' \in Plans /\ IsMade(planning') /\ IsMade(plan')
  <1>1. /\ tries' \in Seq(SwapPresses) /\ Len(tries') = Len(tries)
        /\ tries'[i] = Onward(tries[i]) /\ tries[i] \in SwapPresses
        /\ \A j \in 1..Len(tries) : tries[j] \in SwapPresses
        /\ \A j \in 1..Len(tries) : j # i => tries'[j] = Stirred(tries[j], routes, above)
        /\ plan' = Disturbed(plan, routes, above) /\ planning' = Disturbed(planning, routes, above)
    BY AdvancedTries
  <1>2. allowance \in [Spenders -> Nat] /\ planning \in Plans /\ plan \in Plans
        /\ IsMade(planning) /\ IsMade(plan)
        /\ \A j \in 1..Len(tries) : IsPlan(tries[j].plan) /\ IsMade(tries[j].plan)
    BY DEF SwapTyped
  <1>3. ASSUME NEW p \in Plans, IsPlan(p), IsMade(p)
        PROVE  (p.route \in routes /\ p.amount > above)
                 \/ Spared(allowance, allowance', p.route, p.amount)
    <2>1. p.route \in Routes /\ p.amount \in Sizes BY <1>3, PlanFields DEF IsPlan, IsMade
    <2>2. QED BY <2>1
  <1>4. PlansAreSo'
    <2>1. CanPayIn(book', planning') /\ CanPayIn(book', plan')
      <3>1. CanPayIn(book, planning) /\ CanPayIn(book, plan) BY DEF PlansAreSo
      <3>2. QED BY <1>1, <1>2, <3>1, KeepsPaying
    <2>2. ASSUME IsPlan(plan') PROVE LaidIn(sentence', plan') /\ AllowedIn(allowance', sentence', plan', 1)
      <3>1. /\ plan' \in Plans /\ plan'.steps = plan.steps /\ plan'.route = plan.route /\ IsPlan(plan)
        BY <1>1, <1>2, <2>2, DisturbedIs
      <3>2. LaidIn(sentence, plan) /\ AllowedIn(allowance, sentence, plan, 1) BY <3>1 DEF PlansAreSo
      <3>3. LaidIn(sentence, plan') BY <1>2, <3>1, <3>2, LaidStays
      <3>4. (plan.route \in routes /\ plan.amount > above)
              \/ Spared(allowance, allowance', plan.route, plan.amount)
        BY <1>2, <1>3, <3>1
      <3>5. AllowedIn(allowance', sentence, Disturbed(plan, routes, above), 1)
        BY <1>2, <3>1, <3>2, <3>4, KeepsAllowed
      <3>6. QED BY <1>1, <3>3, <3>5
    <2>3. QED BY <2>1, <2>2 DEF PlansAreSo
  <1>5. ASSUME NEW j \in 1..Len(tries)
        PROVE  /\ TryIsLaid(sentence, tries'[j]) /\ TryRuns(book', allowance', sentence, tries'[j])
               /\ IsPlan(tries'[j].plan) /\ IsMade(tries'[j].plan)
    <2>1. TryIsLaid(sentence, tries[j]) /\ TryRuns(book, allowance, sentence, tries[j])
      BY DEF TriesAreSo
    <2>2. tries[j] \in SwapPresses /\ tries[j].plan \in Plans /\ IsPlan(tries[j].plan) /\ IsMade(tries[j].plan)
      BY <1>1, <1>2, PressFields
    <2>3. CASE j = i
      <3>1. tries'[i] = Onward(tries[i]) BY <1>1
      <3>2. TryIsLaid(sentence, Onward(tries[i])) /\ TryRuns(book', allowance', sentence, Onward(tries[i]))
            /\ Onward(tries[i]).plan = tries[i].plan
        BY <2>1, <2>2, <2>3, TryOnward
      <3>3. QED BY <2>2, <2>3, <3>1, <3>2
    <2>4. CASE j # i
      <3>1. tries'[j] = Stirred(tries[j], routes, above) BY <1>1, <2>4
      <3>2. (tries[j].plan.route \in routes /\ tries[j].plan.amount > above)
              \/ Spared(allowance, allowance', tries[j].plan.route, tries[j].plan.amount)
        BY <1>3, <2>2
      <3>3. /\ TryIsLaid(sentence, Stirred(tries[j], routes, above))
            /\ TryRuns(book', allowance', sentence, Stirred(tries[j], routes, above))
            /\ IsPlan(Stirred(tries[j], routes, above).plan)
            /\ IsMade(Stirred(tries[j], routes, above).plan)
        BY <1>2, <2>1, <2>2, <3>2, TryStirred
      <3>4. QED BY <3>1, <3>3
    <2>5. QED BY <2>3, <2>4
  <1>6. TriesAreSo' BY <1>1, <1>5 DEF TriesAreSo
  <1>7. planning' \in Plans /\ plan' \in Plans /\ IsMade(planning') /\ IsMade(plan')
    BY <1>1, <1>2, DisturbedIs
  <1>8. QED BY <1>1, <1>4, <1>5, <1>6, <1>7

-----------------------------------------------------------------------------
(* Each step of a press. *)

LEMMA RunningIs ==
  ASSUME SwapCardAssumption, SwapTyped, TriesAreSo, NEW i \in DOMAIN tries, Running(i)
  PROVE  /\ i \in 1..Len(tries) /\ tries[i] \in SwapPresses /\ tries[i].stage = "running"
         /\ tries[i].plan \in Plans /\ IsPlan(tries[i].plan) /\ IsMade(tries[i].plan)
         /\ tries[i].plan.route \in Routes /\ tries[i].plan.amount \in Sizes
         /\ tries[i].plan.amount \in Nat /\ 0 < tries[i].plan.amount
         /\ tries[i].plan.amount < Unlimited
         /\ tries[i].at \in 1..Len(tries[i].plan.steps)
         /\ LaidIn(sentence, tries[i].plan) /\ CanPayIn(book, tries[i].plan)
         /\ AllowedIn(allowance, sentence, tries[i].plan, tries[i].at)
  <1>1. tries \in Seq(SwapPresses) BY DEF SwapTyped
  <1>2. i \in 1..Len(tries) /\ tries[i] \in SwapPresses /\ tries[i].stage = "running" BY <1>1 DEF Running
  <1>3. tries[i].plan \in Plans /\ IsPlan(tries[i].plan) /\ IsMade(tries[i].plan)
    BY <1>2, PressFields DEF SwapTyped
  <1>4. tries[i].plan.route \in Routes /\ tries[i].plan.amount \in Sizes
    BY <1>3, PlanFields DEF IsPlan, IsMade
  <1>5. /\ tries[i].at \in 1..Len(tries[i].plan.steps)
        /\ LaidIn(sentence, tries[i].plan) /\ CanPayIn(book, tries[i].plan)
        /\ AllowedIn(allowance, sentence, tries[i].plan, tries[i].at)
    BY <1>2 DEF TriesAreSo, TryIsLaid, TryRuns
  <1>6. QED BY <1>2, <1>3, <1>4, <1>5, SizeIs

LEMMA SparesAll ==
  ASSUME SwapCardAssumption, NEW a \in [Spenders -> Nat], NEW route \in Routes, NEW amount
  PROVE  Spared(a, a, route, amount)
  <1>1. Spender(route) \in Spenders /\ "router" \in Spenders BY SpenderIs DEF Spenders
  <1>2. a[Spender(route)] \in Nat /\ a["router"] \in Nat BY <1>1
  <1>3. a[Spender(route)] >= a[Spender(route)] /\ a["router"] >= a["router"] BY <1>2
  <1>4. QED BY <1>3 DEF Spared

\* What a step leaves as its premises: what AdvancesSoundly asks of it.
GoesSoundly(i, routes, above) ==
  /\ Advances(i, routes, above) /\ UNCHANGED sentence
  /\ book' = book \/ ("aqua" \in routes /\ above = 0)
  /\ book' \in [Positions -> Offers] /\ purse' \in [Coins -> Nat] /\ allowance' \in [Spenders -> Nat]
  /\ \A r \in Routes, m \in Sizes :
        (r \in routes /\ m > above) \/ Spared(allowance, allowance', r, m)
  /\ tries[i].plan.steps[tries[i].at] # "swap" =>
        /\ CanPayIn(book', tries[i].plan)
        /\ AllowedIn(allowance', sentence, tries[i].plan, tries[i].at + 1)
  /\ UNCHANGED <<units, shifts, sized, due, latest, rereads>>

LEMMA WrapIsSound ==
  ASSUME SwapCardAssumption, SwapTyped, TriesAreSo, NEW i \in DOMAIN tries, Wrap(i)
  PROVE  GoesSoundly(i, {}, 0)
  <1> DEFINE p == tries[i].plan
             at == tries[i].at
  <1>1. Running(i) /\ StepOf(i) = "wrap" /\ purse.ether >= p.amount BY DEF Wrap
  <1>2. /\ p \in Plans /\ IsPlan(p) /\ IsMade(p) /\ p.route \in Routes /\ p.amount \in Nat
        /\ at \in 1..Len(p.steps) /\ CanPayIn(book, p) /\ AllowedIn(allowance, sentence, p, at)
    BY <1>1, RunningIs
  <1>3. UNCHANGED <<sentence, units, book, shifts, allowance, sized, due, latest, rereads>>
        /\ Advances(i, {}, 0)
        /\ purse' = [purse EXCEPT !.ether = @ - p.amount, !.wrapped = @ + p.amount]
    BY DEF Wrap
  <1>4. p.steps[at] = "wrap" BY <1>1 DEF StepOf
  <1> HIDE DEF p, at
  <1>5. /\ allowance \in [Spenders -> Nat] /\ book \in [Positions -> Offers]
        /\ purse \in [Coins -> Nat]
    BY DEF SwapTyped
  <1>6. purse' \in [Coins -> Nat]
    <2>1. purse.ether \in Nat /\ purse.wrapped \in Nat BY <1>5 DEF Coins
    <2>2. purse.ether - p.amount \in Nat /\ purse.wrapped + p.amount \in Nat BY SMTT(30), <1>1, <1>2, <2>1 DEF p
    <2>3. QED BY <1>3, <1>5, <2>2 DEF Coins
  <1>7. Spared(allowance, allowance, p.route, p.amount) BY <1>2, <1>5, SparesAll
  <1>8. AllowedIn(allowance, sentence, p, at + 1) BY <1>2, <1>4, <1>5, <1>7, StepIsDone
  <1>9. \A r \in Routes, m \in Sizes : Spared(allowance, allowance, r, m) BY <1>5, SparesAll
  <1>10. QED BY <1>2, <1>3, <1>5, <1>6, <1>8, <1>9 DEF GoesSoundly, p, at

LEMMA ApproveIsSound ==
  ASSUME SwapCardAssumption, SwapTyped, TriesAreSo, NEW i \in DOMAIN tries, Approve(i)
  PROVE  \E above \in Nat : GoesSoundly(i, {tries[i].plan.route}, above)
  <1> DEFINE p == tries[i].plan
             at == tries[i].at
             route == p.route
             to == IF StepOf(i) = "approve-permit2" THEN "router" ELSE Spender(route)
             much == IF route = "uniswap" THEN Unlimited ELSE p.amount
  <1>1. /\ Running(i) /\ StepOf(i) \in {"approve-token", "approve-permit2"}
        /\ allowance' = [allowance EXCEPT ![to] = much]
        /\ Advances(i, {route}, much)
        /\ UNCHANGED <<sentence, units, book, shifts, purse, sized, due, latest, rereads>>
    BY DEF Approve
  <1>2. /\ p \in Plans /\ IsPlan(p) /\ IsMade(p) /\ route \in Routes /\ p.amount \in Sizes
        /\ p.amount \in Nat /\ p.amount < Unlimited
        /\ at \in 1..Len(p.steps) /\ LaidIn(sentence, p) /\ CanPayIn(book, p)
        /\ AllowedIn(allowance, sentence, p, at)
    BY <1>1, RunningIs
  <1>3. StepOf(i) = p.steps[at] BY DEF StepOf
  <1>4. StepOf(i) = "approve-permit2" => route = "uniswap" BY <1>2, <1>3 DEF LaidIn
  <1>5. /\ allowance \in [Spenders -> Nat] /\ book \in [Positions -> Offers]
        /\ purse \in [Coins -> Nat]
    BY DEF SwapTyped
  <1>6. Unlimited \in Nat BY DEF Unlimited
  <1>7. much \in Nat /\ p.amount =< much BY <1>2, <1>6
  <1>8. to \in Spenders /\ Spender(route) \in Spenders /\ "router" \in Spenders
        /\ Spender(route) # "router" /\ (to = "router" => route = "uniswap")
    BY <1>2, <1>4, SpenderIs DEF Spenders
  <1>9. (to = "router" <=> StepOf(i) = "approve-permit2") /\ (to # "router" => to = Spender(route))
    BY <1>8
  <1> HIDE DEF p, at, route, to, much
  <1>10. /\ allowance' \in [Spenders -> Nat] /\ allowance'[to] = much
         /\ \A x \in Spenders : x # to => allowance'[x] = allowance[x]
    BY <1>1, <1>5, <1>7, <1>8
  <1>11. \A x \in Spenders : allowance[x] \in Nat BY <1>5
  <1>12. ASSUME NEW r \in Routes, NEW m \in Sizes
         PROVE  (r \in {route} /\ m > much) \/ Spared(allowance, allowance', r, m)
    <2>1. Spender(r) \in Spenders /\ Spender(r) # "router"
          /\ (Spender(r) = Spender(route) => r = route)
      BY <1>2, SpenderIs
    <2>2. m \in Nat BY SizeIs
    <2>3. CASE r = route /\ ~ (m > much)
      <3>1. much >= m BY <1>7, <2>2, <2>3
      <3>2. allowance'[Spender(r)] >= m \/ allowance'[Spender(r)] >= allowance[Spender(r)]
        BY <1>10, <1>11, <2>1, <3>1
      <3>3. allowance'["router"] >= m \/ allowance'["router"] >= allowance["router"]
        BY <1>8, <1>10, <1>11, <3>1
      <3>4. QED BY <3>2, <3>3 DEF Spared
    <2>4. CASE r # route
      <3>1. Spender(r) # to BY <1>9, <2>1, <2>4
      <3>2. allowance'[Spender(r)] >= allowance[Spender(r)] BY <1>10, <1>11, <2>1, <3>1
      <3>3. r = "uniswap" => to # "router" BY <1>8, <2>4
      <3>4. r = "uniswap" => allowance'["router"] >= allowance["router"] BY <1>8, <1>10, <1>11, <3>3
      <3>5. QED BY <3>2, <3>4 DEF Spared
    <2>5. QED BY <2>3, <2>4
  <1>13. Spared(allowance, allowance', route, p.amount)
    <2>1. ~ (p.amount > much) BY <1>2, <1>7
    <2>2. QED BY <1>2, <1>12, <2>1
  <1>14. AllowedIn(allowance', sentence, p, at + 1)
    <2>1. p.steps[at] = "approve-token" => allowance'[Spender(p.route)] >= p.amount
      <3>1. p.steps[at] = "approve-token" => to = Spender(route) BY <1>3, <1>9
      <3>2. much >= p.amount BY <1>2, <1>7
      <3>3. QED BY <1>10, <3>1, <3>2 DEF route
    <2>2. p.steps[at] = "approve-permit2" => allowance'["router"] >= p.amount
      <3>1. much >= p.amount BY <1>2, <1>7
      <3>2. QED BY <1>3, <1>9, <1>10, <3>1
    <2>3. Spared(allowance, allowance', p.route, p.amount) BY <1>13 DEF route
    <2>4. QED BY <1>2, <1>5, <1>10, <2>1, <2>2, <2>3, StepIsDone
  <1>15. GoesSoundly(i, {route}, much) BY <1>1, <1>2, <1>5, <1>10, <1>12, <1>14 DEF GoesSoundly, p, at
  <1>16. QED BY <1>7, <1>15 DEF route, p

LEMMA FillIsSound ==
  ASSUME SwapCardAssumption, SwapTyped, TriesAreSo, NEW i \in DOMAIN tries, Fill(i)
  PROVE  GoesSoundly(i, {tries[i].plan.route}, 0)
  <1> DEFINE p == tries[i].plan
             at == tries[i].at
             route == p.route
  <1>1. /\ Running(i) /\ StepOf(i) = "swap" /\ Obstacles(p) = {}
        /\ purse' = [purse EXCEPT ![Paid(route)] = @ - p.amount]
        /\ allowance' = AllowanceLeft(route, p.amount)
        /\ book' = PaidOut(p)
        /\ Advances(i, {route}, 0)
        /\ UNCHANGED <<sentence, units, shifts, sized, due, latest, rereads>>
    BY DEF Fill
  <1>2. /\ p \in Plans /\ IsPlan(p) /\ IsMade(p) /\ route \in Routes /\ p.amount \in Sizes
        /\ p.amount \in Nat
    BY <1>1, RunningIs
  <1>3. p.steps[at] = "swap" BY <1>1 DEF StepOf
  <1>4. /\ allowance \in [Spenders -> Nat] /\ book \in [Positions -> Offers]
        /\ purse \in [Coins -> Nat]
    BY DEF SwapTyped
  <1>5. /\ Pulls(route) => ~ (allowance[Spender(route)] < p.amount)
        /\ ~ (purse[Paid(route)] < p.amount)
        /\ route = "aqua" => Quote(p.position, p.amount) \in p.floor..Cap(p.position)
    <2>1. /\ "allowance" \notin Obstacles(p) /\ "funds" \notin Obstacles(p)
          /\ "maker" \notin Obstacles(p)
      BY <1>1
    <2> HIDE DEF p
    <2>2. Pulls(p.route) => ~ (allowance[Spender(p.route)] < p.amount) BY <2>1 DEF Obstacles
    <2>3. ~ (purse[Paid(p.route)] < p.amount) BY <2>1 DEF Obstacles
    <2>4. p.route = "aqua" => Quote(p.position, p.amount) \in p.floor..Cap(p.position)
      BY <2>1 DEF Obstacles
    <2>5. QED BY <2>2, <2>3, <2>4
  <1>6. Paid(route) \in Coins BY DEF Paid, Coins
  <1>7. Spender(route) \in Spenders /\ Spender(route) # "router" /\ "router" \in Spenders
    BY <1>2, SpenderIs DEF Spenders
  <1>8. ASSUME route = "aqua"
        PROVE  /\ p.position \in Positions
               /\ LET out == QuoteIn(book, p.position, p.amount) IN
                  /\ out \in Nat /\ out =< book[p.position].ledger /\ out =< book[p.position].held
                  /\ out =< book[p.position].approved
    <2>1. p.position \in Positions BY <1>2, <1>8 DEF IsMade
    <2>2. QuoteIn(book, p.position, p.amount) \in Nat BY <1>2, <1>4, <2>1, QuoteIs
    <2>3. QuoteIn(book, p.position, p.amount) =< CapIn(book, p.position)
      <3>1. QuoteIn(book, p.position, p.amount) \in p.floor..CapIn(book, p.position)
        BY <1>5, <1>8, InTheirTerms
      <3>2. p.floor \in Int BY <1>2, PlanFields
      <3> HIDE DEF p
      <3>3. QED BY <3>1, <3>2
    <2>4. /\ CapIn(book, p.position) \in Nat
          /\ CapIn(book, p.position) =< book[p.position].ledger
          /\ CapIn(book, p.position) =< book[p.position].held
          /\ CapIn(book, p.position) =< book[p.position].approved
      BY <1>4, <2>1, CapIs
    <2>5. book[p.position].ledger \in Nat /\ book[p.position].held \in Nat
          /\ book[p.position].approved \in Nat
      BY <1>4, <2>1 DEF Offers
    <2> HIDE DEF p, route
    <2>6. QED BY <2>1, <2>2, <2>3, <2>4, <2>5
  <1>9. book' \in [Positions -> Offers] /\ (route # "aqua" => book' = book)
    <2>1. CASE route # "aqua" BY <1>1, <1>4, <2>1 DEF PaidOut
    <2>2. CASE route = "aqua"
      <3> DEFINE out == Quote(p.position, p.amount)
                 b == book[p.position]
      <3>1. out = QuoteIn(book, p.position, p.amount) BY InTheirTerms
      <3>2. /\ p.position \in Positions /\ b \in Offers /\ b.rate \in Nat
            /\ b.ledger - out \in Nat /\ b.held - out \in Nat /\ b.approved - out \in Nat
        <4>1. /\ p.position \in Positions /\ out \in Nat /\ out =< b.ledger /\ out =< b.held
              /\ out =< b.approved
          BY <1>8, <2>2, <3>1
        <4>2. b \in Offers BY <1>4, <4>1
        <4> HIDE DEF out, b, p
        <4>3. b.rate \in Nat /\ b.ledger \in Nat /\ b.held \in Nat /\ b.approved \in Nat
          BY <4>2 DEF Offers
        <4>4. QED BY <4>1, <4>2, <4>3
      <3>3. book' = [book EXCEPT ![p.position] = Less(b, out)] BY <1>1, <2>2 DEF PaidOut
      <3> HIDE DEF out, p, b
      <3>4. Less(b, out) \in Offers BY <3>2 DEF Less, Offers
      <3>5. QED BY <1>4, <2>2, <3>2, <3>3, <3>4
    <2>3. QED BY <2>1, <2>2
  <1>10. purse' \in [Coins -> Nat]
    <2>1. purse[Paid(route)] \in Nat BY <1>4, <1>6
    <2>2. purse[Paid(route)] - p.amount \in Nat BY <1>2, <1>5, <2>1
    <2> HIDE DEF p, route
    <2>3. QED BY <1>1, <1>4, <1>6, <2>2
  <1>11. /\ allowance' \in [Spenders -> Nat]
         /\ \A x \in Spenders : x # Spender(route) => allowance'[x] = allowance[x]
    <2>1. CASE ~Pulls(route) \/ allowance[Spender(route)] = Unlimited
      BY <1>1, <1>4, <2>1 DEF AllowanceLeft
    <2>2. CASE ~ (~Pulls(route) \/ allowance[Spender(route)] = Unlimited)
      <3>1. allowance' = [allowance EXCEPT ![Spender(route)] = @ - p.amount]
        BY <1>1, <2>2 DEF AllowanceLeft
      <3>2. allowance[Spender(route)] \in Nat BY <1>4, <1>7
      <3>3. allowance[Spender(route)] - p.amount \in Nat BY <1>2, <1>5, <2>2, <3>2
      <3> DEFINE less == allowance[Spender(route)] - p.amount
      <3>4. allowance' = [allowance EXCEPT ![Spender(route)] = less] BY <3>1
      <3> HIDE DEF p, route, less
      <3>5. QED BY <1>4, <1>7, <3>3, <3>4 DEF less
    <2>3. QED BY <2>1, <2>2
  <1> HIDE DEF p, at, route
  <1>12. \A x \in Spenders : allowance[x] \in Nat BY <1>4
  <1>13. ASSUME NEW r \in Routes, NEW m \in Sizes
         PROVE  (r \in {route} /\ m > 0) \/ Spared(allowance, allowance', r, m)
    <2>1. Spender(r) \in Spenders /\ (Spender(r) = Spender(route) => r = route)
      BY <1>2, SpenderIs
    <2>2. m > 0 BY SizeIs
    <2>3. CASE r # route
      <3>1. allowance'[Spender(r)] = allowance[Spender(r)] BY <1>11, <2>1, <2>3
      <3>2. allowance'["router"] = allowance["router"] BY <1>7, <1>11
      <3>3. allowance[Spender(r)] \in Nat /\ allowance["router"] \in Nat BY <1>7, <1>12, <2>1
      <3>4. allowance'[Spender(r)] >= allowance[Spender(r)]
            /\ allowance'["router"] >= allowance["router"]
        BY <3>1, <3>2, <3>3
      <3>5. QED BY <3>4 DEF Spared
    <2>4. QED BY <2>2, <2>3
  <1>14. book' = book \/ ("aqua" \in {route} /\ 0 = 0) BY <1>9
  <1>15. GoesSoundly(i, {route}, 0) BY <1>1, <1>3, <1>9, <1>10, <1>11, <1>13, <1>14 DEF GoesSoundly, p, at
  <1>16. QED BY <1>15 DEF route, p

-----------------------------------------------------------------------------
(* The invariant, but for the sums. *)

\* A step of a press keeps what is said of plans and presses.
LEMMA SoundKeeps ==
  ASSUME SwapCardAssumption, SwapTyped, PlansAreSo, TriesAreSo, NEW i \in 1..Len(tries),
         NEW routes, NEW above, GoesSoundly(i, routes, above)
  PROVE  SwapTyped' /\ PlansAreSo' /\ TriesAreSo'
  <1>1. /\ Advances(i, routes, above) /\ UNCHANGED sentence
        /\ book' = book \/ ("aqua" \in routes /\ above = 0)
        /\ book' \in [Positions -> Offers] /\ purse' \in [Coins -> Nat]
        /\ allowance' \in [Spenders -> Nat]
        /\ UNCHANGED <<units, shifts, sized, due, latest, rereads>>
    BY DEF GoesSoundly
  <1>2. /\ PlansAreSo' /\ TriesAreSo'
        /\ tries' \in Seq(SwapPresses) /\ Len(tries') = Len(tries)
        /\ \A j \in 1..Len(tries) : IsPlan(tries'[j].plan) /\ IsMade(tries'[j].plan)
        /\ planning' \in Plans /\ plan' \in Plans /\ IsMade(planning') /\ IsMade(plan')
    <2>1. \A r \in Routes, m \in Sizes :
            (r \in routes /\ m > above) \/ Spared(allowance, allowance', r, m)
      BY DEF GoesSoundly
    <2>2. tries[i].plan.steps[tries[i].at] # "swap" =>
            /\ CanPayIn(book', tries[i].plan)
            /\ AllowedIn(allowance', sentence, tries[i].plan, tries[i].at + 1)
      BY DEF GoesSoundly
    <2>3. QED BY <1>1, <2>1, <2>2, AdvancesSoundly
  <1>3. SwapTyped'
    <2>1. /\ units' \in Sizes /\ sentence' \in [dollars : BOOLEAN, ether : BOOLEAN]
          /\ sized' \in Sizes \cup {NoAmount} /\ due' \in SUBSET Reads /\ rereads' \in Nat
      BY <1>1 DEF SwapTyped
    <2>2. latest' \in 0..Len(tries') BY <1>1, <1>2 DEF SwapTyped
    <2>3. \A j \in 1..Len(tries') : IsPlan(tries'[j].plan) /\ IsMade(tries'[j].plan) BY <1>2
    <2>4. QED BY <1>1, <1>2, <2>1, <2>2, <2>3 DEF SwapTyped
  <1>4. QED BY <1>2, <1>3

\* What does not touch the plans, the presses or what they were made from.
LEMMA QuietKeeps ==
  ASSUME PlansAreSo, TriesAreSo, UNCHANGED <<sentence, book, allowance, planning, plan, tries>>
  PROVE  PlansAreSo' /\ TriesAreSo'
  BY DEF PlansAreSo, TriesAreSo

LEMMA PlanStartsSoundly ==
  ASSUME SwapCardAssumption, SwapTyped, PlanStarts
  PROVE  /\ planning' \in Plans /\ IsMade(planning') /\ CanPayIn(book, planning')
         /\ IsPlan(planning') /\ planning'.amount = sized
  <1>1. sized \in Sizes BY DEF SwapTyped, PlanStarts
  <1>2. NoPlan \in Plans /\ NoPlan.position = 0 /\ NoPlan.floor = 0 BY NoPlanIs DEF NoPlan
  <1>3. PICK silent \in SUBSET Positions :
          \/ \E q \in Best(sized, silent) :
               planning' = [NoPlan EXCEPT !.amount = sized, !.route = "aqua", !.position = q,
                                          !.floor = Quote(q, sized) - Slippage]
          \/ \E route \in {"oneinch", "uniswap"} :
               planning' = [NoPlan EXCEPT !.amount = sized, !.route = route]
    BY DEF PlanStarts
  <1>4. ASSUME NEW q \in Best(sized, silent),
               planning' = [NoPlan EXCEPT !.amount = sized, !.route = "aqua", !.position = q,
                                          !.floor = Quote(q, sized) - Slippage]
        PROVE  /\ planning' \in Plans /\ IsMade(planning') /\ CanPayIn(book, planning')
               /\ IsPlan(planning') /\ planning'.amount = sized
    <2> DEFINE out == QuoteIn(book, q, sized)
               low == out - Slippage
    <2>1. q \in Positions /\ Quote(q, sized) \in 1..Cap(q) BY DEF Best, Payable
    <2>2. Quote(q, sized) = out /\ Cap(q) = CapIn(book, q) BY InTheirTerms
    <2>3. book \in [Positions -> Offers] /\ Slippage \in Nat BY DEF SwapTyped, SwapCardAssumption
    <2>4. out \in Nat /\ CapIn(book, q) \in Nat BY <1>1, <2>1, <2>3, QuoteIs, CapIs
    <2> HIDE DEF out
    <2>5. low \in Int /\ out \in low..CapIn(book, q) BY <2>1, <2>2, <2>3, <2>4
    <2>6. planning' = [NoPlan EXCEPT !.amount = sized, !.route = "aqua", !.position = q, !.floor = low]
      BY <1>4, <2>2
    <2> HIDE DEF low
    <2>7. /\ planning' \in Plans /\ planning'.amount = sized /\ planning'.route = "aqua"
          /\ planning'.position = q /\ planning'.floor = low
      BY <1>1, <1>2, <2>1, <2>5, <2>6 DEF Plans, Routes
    <2>8. IsPlan(planning') /\ IsMade(planning') BY <1>1, <2>1, <2>7 DEF IsPlan, IsMade
    <2>9. CanPayIn(book, planning') BY <2>5, <2>7 DEF CanPayIn, out
    <2>10. QED BY <2>7, <2>8, <2>9
  <1>5. ASSUME NEW route \in {"oneinch", "uniswap"},
               planning' = [NoPlan EXCEPT !.amount = sized, !.route = route]
        PROVE  /\ planning' \in Plans /\ IsMade(planning') /\ CanPayIn(book, planning')
               /\ IsPlan(planning') /\ planning'.amount = sized
    <2>1. planning' \in Plans /\ planning'.amount = sized /\ planning'.route = route
      BY <1>1, <1>2, <1>5 DEF Plans, Routes
    <2>2. QED BY <1>1, <2>1 DEF IsPlan, IsMade, CanPayIn
  <1>6. QED BY <1>3, <1>4, <1>5

LEMMA PlanArrivesSoundly ==
  ASSUME SwapCardAssumption, SwapTyped, PlansAreSo, PlanArrives
  PROVE  /\ plan' \in Plans /\ IsMade(plan') /\ CanPayIn(book, plan') /\ IsPlan(plan')
         /\ LaidIn(sentence, plan') /\ AllowedIn(allowance, sentence, plan', 1)
         /\ plan'.amount = planning.amount
  <1> DEFINE s == StepsFor(planning.route, planning.amount)
  <1>1. /\ IsPlan(planning) /\ planning \in Plans /\ IsMade(planning) /\ planning.amount \in Sizes
        /\ plan' = [planning EXCEPT !.steps = s]
    BY DEF PlanArrives, SwapTyped, IsMade
  <1>2. \A q : q \in Plans /\ q.steps = s /\ q.route = planning.route /\ q.amount = planning.amount
                /\ IsPlan(q) =>
          LaidIn(sentence, q) /\ AllowedIn(allowance, sentence, q, 1)
    BY <1>1, StepsForAre
  <1>3. s \in Seq(StepNames) BY LaidSteps
  <1> HIDE DEF s
  <1>4. /\ plan' \in Plans /\ plan'.steps = s /\ plan'.route = planning.route
        /\ plan'.amount = planning.amount /\ plan'.position = planning.position
        /\ plan'.floor = planning.floor /\ plan'.disturbed = planning.disturbed
    BY <1>1, <1>3 DEF Plans
  <1>5. IsPlan(plan') /\ IsMade(plan') BY <1>1, <1>4 DEF IsPlan, IsMade
  <1>6. CanPayIn(book, plan')
    <2>1. CanPayIn(book, planning) BY DEF PlansAreSo
    <2>2. QED BY <1>4, <2>1 DEF CanPayIn
  <1>7. QED BY <1>2, <1>4, <1>5, <1>6

LEMMA FailedIs ==
  ASSUME NEW t \in SwapPresses, NEW why \in Whys
  PROVE  LET u == Failed(t, why) IN
         /\ u \in SwapPresses /\ u.stage = "failed" /\ u.at = t.at /\ u.plan = t.plan
         /\ u.shown = t.shown /\ u.why = why
  BY DEF Failed, SwapPresses

\* A press that fails is where it was.
LEMMA FailedTries ==
  ASSUME SwapTyped, NEW i \in DOMAIN tries, NEW why \in Whys, TryFails(i, why)
  PROVE  /\ i \in 1..Len(tries) /\ tries' \in Seq(SwapPresses) /\ Len(tries') = Len(tries)
         /\ tries'[i] = Failed(tries[i], why)
         /\ \A j \in 1..Len(tries) : j # i => tries'[j] = tries[j]
         /\ \A j \in 1..Len(tries) : tries[j] \in SwapPresses /\ tries'[j] \in SwapPresses
  <1> DEFINE u == Failed(tries[i], why)
  <1>1. tries \in Seq(SwapPresses) /\ i \in 1..Len(tries) BY DEF SwapTyped
  <1>2. tries[i] \in SwapPresses BY <1>1
  <1>3. u \in SwapPresses BY <1>2, FailedIs
  <1>4. tries' = [tries EXCEPT ![i] = u] BY DEF TryFails
  <1> HIDE DEF u
  <1>5. tries' \in Seq(SwapPresses) /\ Len(tries') = Len(tries) /\ tries'[i] = u
        /\ \A j \in 1..Len(tries) : j # i => tries'[j] = tries[j]
    BY <1>1, <1>3, <1>4
  <1>6. QED BY <1>1, <1>5 DEF u

LEMMA FailureKeeps ==
  ASSUME SwapCardAssumption, SwapTyped, PlansAreSo, TriesAreSo, NEW i \in DOMAIN tries,
         NEW why \in Whys, TryFails(i, why), UNCHANGED <<outsideVars, cardVars>>
  PROVE  SwapTyped' /\ PlansAreSo' /\ TriesAreSo'
  <1> USE DEF outsideVars, cardVars
  <1>1. /\ i \in 1..Len(tries) /\ tries' \in Seq(SwapPresses) /\ Len(tries') = Len(tries)
        /\ tries'[i] = Failed(tries[i], why)
        /\ \A j \in 1..Len(tries) : j # i => tries'[j] = tries[j]
        /\ \A j \in 1..Len(tries) : tries[j] \in SwapPresses /\ tries'[j] \in SwapPresses
    BY FailedTries
  <1>2. /\ tries'[i].stage = "failed" /\ tries'[i].at = tries[i].at /\ tries'[i].plan = tries[i].plan
    BY <1>1, FailedIs
  <1>3. \A j \in 1..Len(tries) : IsPlan(tries'[j].plan) /\ IsMade(tries'[j].plan)
    <2>1. \A j \in 1..Len(tries) : IsPlan(tries[j].plan) /\ IsMade(tries[j].plan) BY DEF SwapTyped
    <2>2. \A j \in 1..Len(tries) : tries'[j].plan = tries[j].plan BY <1>1, <1>2
    <2>3. QED BY <2>1, <2>2
  <1>4. SwapTyped' BY <1>1, <1>3 DEF SwapTyped
  <1>5. PlansAreSo' BY DEF PlansAreSo
  <1>6. \A j \in 1..Len(tries) : TryIsLaid(sentence, tries'[j])
                                 /\ TryRuns(book, allowance, sentence, tries'[j])
    <2>1. \A j \in 1..Len(tries) : TryIsLaid(sentence, tries[j])
                                   /\ TryRuns(book, allowance, sentence, tries[j])
      BY DEF TriesAreSo
    <2>2. TryIsLaid(sentence, tries'[i]) /\ TryRuns(book, allowance, sentence, tries'[i])
      BY <1>1, <1>2, <2>1 DEF TryIsLaid, TryRuns
    <2>3. QED BY <1>1, <2>1, <2>2
  <1>7. TriesAreSo' BY <1>1, <1>6 DEF TriesAreSo
  <1>8. QED BY <1>4, <1>5, <1>7

LEMMA PressKeeps ==
  ASSUME SwapCardAssumption, SwapTyped, PlansAreSo, TriesAreSo, PressSwap
  PROVE  SwapTyped' /\ PlansAreSo' /\ TriesAreSo'
  <1> USE DEF outsideVars, cardVars
  <1> DEFINE t == [stage |-> "running", at |-> 1, plan |-> plan, shown |-> sized, why |-> "none"]
  <1>1. sized # NoAmount /\ IsPlan(plan) /\ tries' = Append(tries, t) /\ latest' = Len(tries')
        /\ UNCHANGED <<outsideVars, sized, planning, plan, due, rereads>>
    BY DEF PressSwap
  <1>2. t \in SwapPresses /\ t.plan = plan /\ t.at = 1 BY <1>1 DEF SwapTyped, SwapPresses, Whys
  <1> HIDE DEF t
  <1>3. tries \in Seq(SwapPresses) BY DEF SwapTyped
  <1>4. tries' \in Seq(SwapPresses) /\ Len(tries') = Len(tries) + 1 /\ tries'[Len(tries) + 1] = t
        /\ \A j \in 1..Len(tries) : tries'[j] = tries[j]
    BY <1>1, <1>2, <1>3
  <1>5. \A j \in 1..Len(tries') : j \in 1..Len(tries) \/ j = Len(tries) + 1 BY <1>3, <1>4
  <1>6. \A j \in 1..Len(tries') : IsPlan(tries'[j].plan) /\ IsMade(tries'[j].plan)
    BY <1>1, <1>2, <1>4, <1>5 DEF SwapTyped
  <1>7. latest' \in 0..Len(tries') BY <1>1, <1>4
  <1>8. SwapTyped' BY <1>1, <1>4, <1>6, <1>7 DEF SwapTyped
  <1>9. PlansAreSo' BY <1>1 DEF PlansAreSo
  <1>10. TryIsLaid(sentence, t) /\ TryRuns(book, allowance, sentence, t)
    <2>1. CanPayIn(book, plan) /\ LaidIn(sentence, plan) /\ AllowedIn(allowance, sentence, plan, 1)
      BY <1>1 DEF PlansAreSo
    <2>2. 1 \in 1..Len(plan.steps)
      <3>1. Len(plan.steps) \in Nat BY PlanFields DEF SwapTyped
      <3>2. QED BY <2>1, <3>1 DEF LaidIn
    <2>3. QED BY <1>2, <2>1, <2>2 DEF TryIsLaid, TryRuns
  <1>11. TriesAreSo'
    <2>1. \A j \in 1..Len(tries') : TryIsLaid(sentence, tries'[j])
                                    /\ TryRuns(book, allowance, sentence, tries'[j])
      BY <1>4, <1>5, <1>10 DEF TriesAreSo
    <2>2. QED BY <1>1, <2>1 DEF TriesAreSo
  <1>12. QED BY <1>8, <1>9, <1>11

\* A moving position disturbs whatever is under way.
LEMMA PositionsKeep ==
  ASSUME SwapCardAssumption, SwapTyped, PlansAreSo, TriesAreSo, PositionsMove
  PROVE  SwapTyped' /\ PlansAreSo' /\ TriesAreSo'
  <1> DEFINE all == {"aqua", "oneinch", "uniswap"}
  <1>1. /\ book' \in Books /\ plan' = Disturbed(plan, all, 0) /\ planning' = Disturbed(planning, all, 0)
        /\ tries' = [j \in DOMAIN tries |-> Stirred(tries[j], all, 0)]
        /\ UNCHANGED <<sentence, units, purse, allowance, sized, due, latest, rereads>>
    BY DEF PositionsMove, Disturbing
  <1>2. book' \in [Positions -> Offers] BY <1>1 DEF SwapCardAssumption, Offers
  <1>3. tries \in Seq(SwapPresses) /\ planning \in Plans /\ plan \in Plans
        /\ IsMade(planning) /\ IsMade(plan) /\ allowance \in [Spenders -> Nat]
    BY DEF SwapTyped
  <1>4. "aqua" \in all OBVIOUS
  <1> HIDE DEF all
  <1>5. /\ tries' \in Seq(SwapPresses) /\ Len(tries') = Len(tries)
        /\ \A j \in 1..Len(tries) : tries'[j] = Stirred(tries[j], all, 0) /\ tries[j] \in SwapPresses
    <2>1. \A j \in 1..Len(tries) : tries[j] \in SwapPresses /\ Stirred(tries[j], all, 0) \in SwapPresses
      BY <1>3, StirredIs
    <2> DEFINE n == Len(tries)
    <2>2. n \in Nat /\ DOMAIN tries = 1..n BY <1>3
    <2>3. tries' = [j \in 1..n |-> Stirred(tries[j], all, 0)] BY <1>1, <2>2
    <2> HIDE DEF n
    <2>4. \A j \in 1..n : Stirred(tries[j], all, 0) \in SwapPresses BY <2>1 DEF n
    <2>5. tries' \in Seq(SwapPresses) /\ Len(tries') = n BY <2>2, <2>3, <2>4
    <2>6. \A j \in 1..n : tries'[j] = Stirred(tries[j], all, 0) BY <2>3
    <2>7. QED BY <2>1, <2>5, <2>6 DEF n
  <1>6. ASSUME NEW p \in Plans, IsPlan(p), IsMade(p)
        PROVE  Spared(allowance, allowance, p.route, p.amount)
    <2>1. p.route \in Routes BY <1>6, PlanFields DEF IsPlan
    <2>2. QED BY <1>3, <2>1, SparesAll
  <1>7. \A j \in 1..Len(tries) :
          /\ TryIsLaid(sentence, tries'[j]) /\ TryRuns(book', allowance, sentence, tries'[j])
          /\ IsPlan(tries'[j].plan) /\ IsMade(tries'[j].plan)
    <2> SUFFICES ASSUME NEW j \in 1..Len(tries)
                 PROVE  /\ TryIsLaid(sentence, tries'[j]) /\ TryRuns(book', allowance, sentence, tries'[j])
                        /\ IsPlan(tries'[j].plan) /\ IsMade(tries'[j].plan)
      OBVIOUS
    <2>1. tries[j] \in SwapPresses /\ tries[j].plan \in Plans BY <1>5, PressFields
    <2>2. IsPlan(tries[j].plan) /\ IsMade(tries[j].plan) BY DEF SwapTyped
    <2>3. TryIsLaid(sentence, tries[j]) /\ TryRuns(book, allowance, sentence, tries[j])
      BY DEF TriesAreSo
    <2>4. Spared(allowance, allowance, tries[j].plan.route, tries[j].plan.amount) BY <1>6, <2>1, <2>2
    <2>5. /\ TryIsLaid(sentence, Stirred(tries[j], all, 0))
          /\ TryRuns(book', allowance, sentence, Stirred(tries[j], all, 0))
          /\ IsPlan(Stirred(tries[j], all, 0).plan) /\ IsMade(Stirred(tries[j], all, 0).plan)
      BY <1>3, <1>4, <2>1, <2>2, <2>3, <2>4, TryStirred
    <2>6. tries'[j] = Stirred(tries[j], all, 0) BY <1>5
    <2>7. QED BY <2>5, <2>6
  <1>8. planning' \in Plans /\ plan' \in Plans /\ IsMade(planning') /\ IsMade(plan')
    BY <1>1, <1>3, DisturbedIs
  <1>9. SwapTyped' BY <1>1, <1>2, <1>5, <1>7, <1>8 DEF SwapTyped
  <1>10. TriesAreSo' BY <1>1, <1>5, <1>7 DEF TriesAreSo
  <1>11. PlansAreSo'
    <2>1. CanPayIn(book', planning') /\ CanPayIn(book', plan')
      <3>1. CanPayIn(book, planning) /\ CanPayIn(book, plan) BY DEF PlansAreSo
      <3>2. QED BY <1>1, <1>3, <1>4, <3>1, KeepsPaying
    <2>2. ASSUME IsPlan(plan') PROVE LaidIn(sentence', plan') /\ AllowedIn(allowance', sentence', plan', 1)
      <3>1. plan'.steps = plan.steps /\ plan'.route = plan.route /\ IsPlan(plan)
        BY <1>1, <1>3, <2>2, DisturbedIs
      <3>2. LaidIn(sentence, plan) /\ AllowedIn(allowance, sentence, plan, 1) BY <3>1 DEF PlansAreSo
      <3>3. LaidIn(sentence, plan') BY <1>3, <1>8, <3>1, <3>2, LaidStays
      <3>4. Spared(allowance, allowance, plan.route, plan.amount) BY <1>3, <1>6, <3>1
      <3>5. AllowedIn(allowance, sentence, Disturbed(plan, all, 0), 1)
        BY <1>3, <3>1, <3>2, <3>4, KeepsAllowed
      <3>6. QED BY <1>1, <3>3, <3>5
    <2>3. QED BY <2>1, <2>2 DEF PlansAreSo
  <1>12. QED BY <1>9, <1>10, <1>11

LEMMA SoundStays ==
  ASSUME SwapCardAssumption, SwapTyped, PlansAreSo, TriesAreSo, [SwapNext]_swapVars
  PROVE  SwapTyped' /\ PlansAreSo' /\ TriesAreSo'
  <1> USE DEF outsideVars, cardVars
  <1>a. CASE SizedArrives
    <2>1. UNCHANGED <<outsideVars, planning, plan, tries, latest, rereads>>
          /\ sized' \in {units, sized} /\ due' = due \ {"sized"}
      BY <1>a DEF SizedArrives
    <2>2. SwapTyped' BY <2>1 DEF SwapTyped
    <2>3. QED BY <2>1, <2>2, QuietKeeps
  <1>b. CASE PlanStarts
    <2>1. UNCHANGED <<outsideVars, sized, plan, tries, latest, rereads>> /\ due' = due \ {"plan"}
      BY <1>b DEF PlanStarts
    <2>2. planning' \in Plans /\ IsMade(planning') /\ CanPayIn(book, planning')
      BY <1>b, PlanStartsSoundly
    <2>3. SwapTyped' BY <2>1, <2>2 DEF SwapTyped
    <2>4. PlansAreSo' BY <2>1, <2>2 DEF PlansAreSo
    <2>5. TriesAreSo' BY <2>1 DEF TriesAreSo
    <2>6. QED BY <2>3, <2>4, <2>5
  <1>c. CASE PlanArrives \/ PlanFails
    <2>1. UNCHANGED <<outsideVars, sized, due, tries, latest, rereads>> /\ planning' = NoPlan
      BY <1>c DEF PlanArrives, PlanFails
    <2>2. NoPlan \in Plans /\ IsMade(NoPlan) /\ ~IsPlan(NoPlan) /\ CanPayIn(book, NoPlan)
      BY NoPlanIs DEF CanPayIn
    <2>3. /\ plan' \in Plans /\ IsMade(plan') /\ CanPayIn(book, plan')
          /\ IsPlan(plan') => LaidIn(sentence, plan') /\ AllowedIn(allowance, sentence, plan', 1)
      <3>1. CASE PlanArrives BY <3>1, PlanArrivesSoundly
      <3>2. CASE PlanFails BY <2>2, <3>2 DEF PlanFails
      <3>3. QED BY <1>c, <3>1, <3>2
    <2>4. SwapTyped' BY <2>1, <2>2, <2>3 DEF SwapTyped
    <2>5. PlansAreSo' BY <2>1, <2>2, <2>3 DEF PlansAreSo
    <2>6. TriesAreSo' BY <2>1 DEF TriesAreSo
    <2>7. QED BY <2>4, <2>5, <2>6
  <1>d. CASE ReadAgain
    <2>1. /\ UNCHANGED <<outsideVars, sized, planning, plan, tries>>
          /\ rereads' = rereads + 1 /\ latest' \in {0, latest}
          /\ \E stale \in SUBSET Reads : due' = due \cup stale
      BY <1>d DEF ReadAgain
    <2>2. latest' \in 0..Len(tries')
      <3>1. tries \in Seq(SwapPresses) /\ latest \in 0..Len(tries) BY DEF SwapTyped
      <3>2. QED BY <2>1, <3>1
    <2>3. SwapTyped' BY <2>1, <2>2 DEF SwapTyped
    <2>4. QED BY <2>1, <2>3, QuietKeeps
  <1>e. CASE PressSwap BY <1>e, PressKeeps
  <1>f. ASSUME NEW i \in DOMAIN tries, Wrap(i) \/ Approve(i) \/ Fill(i)
        PROVE  SwapTyped' /\ PlansAreSo' /\ TriesAreSo'
    <2>1. i \in 1..Len(tries) BY DEF SwapTyped
    <2>2. \E routes, above : GoesSoundly(i, routes, above)
      BY <1>f, WrapIsSound, ApproveIsSound, FillIsSound
    <2>3. QED BY <2>1, <2>2, SoundKeeps
  <1>g. ASSUME NEW i \in DOMAIN tries, StepReverts(i) \/ Declines(i)
        PROVE  SwapTyped' /\ PlansAreSo' /\ TriesAreSo'
    <2>1. UNCHANGED <<outsideVars, cardVars>> /\ \E why \in Whys : TryFails(i, why)
      BY <1>g DEF StepReverts, Declines, Obstacles, Whys
    <2>2. QED BY <2>1, FailureKeeps
  <1>h. CASE FeedMoves
    <2>1. units' \in Sizes /\ UNCHANGED <<sentence, book, purse, allowance, cardVars, tries>>
      BY <1>h DEF FeedMoves
    <2>2. SwapTyped' BY <2>1 DEF SwapTyped
    <2>3. QED BY <2>1, <2>2, QuietKeeps
  <1>i. CASE PositionsMove BY <1>i, PositionsKeep
  <1>j. CASE UNCHANGED swapVars
    <2>1. SwapTyped' BY <1>j DEF swapVars, SwapTyped
    <2>2. QED BY <1>j, <2>1, QuietKeeps DEF swapVars
  <1>k. QED
    BY <1>a, <1>b, <1>c, <1>d, <1>e, <1>f, <1>g, <1>h, <1>i, <1>j DEF SwapNext

-----------------------------------------------------------------------------
(* What was read, what lands, and what was wrapped. *)

\* The same press of the same plan, perhaps disturbed since.
Kin(t, u) ==
  /\ u.plan.amount = t.plan.amount /\ u.plan.route = t.plan.route /\ u.plan.steps = t.plan.steps
  /\ u.shown = t.shown /\ u.why = t.why /\ (t.plan.disturbed => u.plan.disturbed)

LEMMA StirredIsKin ==
  ASSUME NEW t \in SwapPresses, NEW routes, NEW above
  PROVE  /\ Kin(t, Stirred(t, routes, above)) /\ Stirred(t, routes, above).stage = t.stage
         /\ Stirred(t, routes, above).at = t.at
  <1> DEFINE u == Stirred(t, routes, above)
             q == Disturbed(t.plan, routes, above)
  <1>1. /\ u.stage = t.stage /\ u.at = t.at /\ u.shown = t.shown /\ u.why = t.why
        /\ (t.stage = "running" => u.plan = q) /\ (t.stage # "running" => u.plan = t.plan)
    BY StirredIs
  <1>2. /\ q.amount = t.plan.amount /\ q.route = t.plan.route /\ q.steps = t.plan.steps
        /\ t.plan.disturbed => q.disturbed
    BY PressFields, DisturbedIs
  <1> HIDE DEF u, q
  <1>3. Kin(t, u) BY <1>1, <1>2 DEF Kin
  <1>4. QED BY <1>1, <1>3 DEF u

LEMMA OnwardIsKin ==
  ASSUME NEW t \in SwapPresses
  PROVE  Kin(t, Onward(t))
  <1>1. Onward(t).plan = t.plan /\ Onward(t).shown = t.shown /\ Onward(t).why = t.why BY OnwardIs
  <1>2. QED BY <1>1 DEF Kin

LEMMA AdvancedAreKin ==
  ASSUME SwapTyped, NEW i \in 1..Len(tries), NEW routes, NEW above, Advances(i, routes, above)
  PROVE  /\ \A j \in 1..Len(tries) : Kin(tries[j], tries'[j])
         /\ \A j \in 1..Len(tries) :
              j # i => tries'[j].stage = tries[j].stage /\ tries'[j].at = tries[j].at
  <1>1. /\ tries'[i] = Onward(tries[i])
        /\ \A j \in 1..Len(tries) : tries[j] \in SwapPresses
        /\ \A j \in 1..Len(tries) : j # i => tries'[j] = Stirred(tries[j], routes, above)
    BY AdvancedTries
  <1>2. Kin(tries[i], tries'[i]) BY <1>1, OnwardIsKin
  <1>3. \A j \in 1..Len(tries) : j # i =>
          /\ Kin(tries[j], tries'[j]) /\ tries'[j].stage = tries[j].stage
          /\ tries'[j].at = tries[j].at
    BY <1>1, StirredIsKin
  <1>4. QED BY <1>2, <1>3

\* What is said of a press without the book, the allowances and the purse.
ShownIs(s, r, t) == t.plan.amount # t.shown => s.dollars /\ r > 0
LandsIs(s, t) ==
  /\ t.why \in {"allowance", "maker"} => t.plan.disturbed
  /\ t.why = "funds" => PaidIn(s, t.plan.route) # "wrapped"

LEMMA SaidOfEach ==
  /\ SignedIsShown <=> \A j \in DOMAIN tries : ShownIs(sentence, rereads, tries[j])
  /\ PlannedSwapsLand <=> \A j \in DOMAIN tries : LandsIs(sentence, tries[j])
  BY InTheirTerms DEF SignedIsShown, PlannedSwapsLand, ShownIs, LandsIs

LEMMA SaidOfEachNext ==
  /\ SignedIsShown' <=> \A j \in DOMAIN tries' : ShownIs(sentence', rereads', tries'[j])
  /\ PlannedSwapsLand' <=> \A j \in DOMAIN tries' : LandsIs(sentence', tries'[j])
  <1>1. \A route : Paid(route)' = PaidIn(sentence', route) BY DEF Paid, PaidIn
  <1>2. QED BY <1>1 DEF SignedIsShown, PlannedSwapsLand, ShownIs, LandsIs

LEMMA KinIsSaid ==
  ASSUME NEW s, NEW r, NEW t, NEW u, Kin(t, u)
  PROVE  (ShownIs(s, r, t) => ShownIs(s, r, u)) /\ (LandsIs(s, t) => LandsIs(s, u))
  BY DEF Kin, ShownIs, LandsIs

\* Presses all akin to what they were: what is said of each still holds.
LEMMA KinKeep ==
  ASSUME SwapTyped, SignedIsShown, PlannedSwapsLand, UNCHANGED <<sentence, rereads>>,
         tries' \in Seq(SwapPresses), Len(tries') = Len(tries),
         \A j \in 1..Len(tries) : Kin(tries[j], tries'[j])
  PROVE  SignedIsShown' /\ PlannedSwapsLand'
  <1>1. DOMAIN tries = 1..Len(tries) /\ DOMAIN tries' = 1..Len(tries) BY DEF SwapTyped
  <1>2. \A j \in 1..Len(tries) : ShownIs(sentence, rereads, tries[j]) /\ LandsIs(sentence, tries[j])
    BY <1>1, SaidOfEach
  <1>3. \A j \in 1..Len(tries) : ShownIs(sentence, rereads, tries'[j]) /\ LandsIs(sentence, tries'[j])
    BY <1>2, KinIsSaid
  <1>4. QED BY <1>1, <1>3, SaidOfEachNext

\* Presses that wrapped and have not filled, and what each swaps.
Owed(ts) == {i \in DOMAIN ts : ts[i].stage # "filled" /\ ts[i].at > 1 /\ ts[i].plan.steps[1] = "wrap"}
SwapAmounts(ts) == [i \in DOMAIN ts |-> ts[i].plan.amount]

LEMMA WrapsAre ==
  /\ WrapsAreAccountedFor <=> purse.wrapped = Purse + SumOf(SwapAmounts(tries), Owed(tries))
  /\ WrapsAreAccountedFor' <=> purse'.wrapped = Purse + SumOf(SwapAmounts(tries'), Owed(tries'))
  BY DEF WrapsAreAccountedFor, Owed, SwapAmounts

LEMMA OwedIs ==
  ASSUME SwapCardAssumption, NEW ts \in Seq(SwapPresses),
         \A j \in 1..Len(ts) : IsPlan(ts[j].plan) /\ IsMade(ts[j].plan)
  PROVE  /\ Owed(ts) \in SUBSET (1..Len(ts)) /\ IsFiniteSet(Owed(ts)) /\ IsFiniteSet(1..Len(ts))
         /\ \A j \in 1..Len(ts) : SwapAmounts(ts)[j] = ts[j].plan.amount /\ SwapAmounts(ts)[j] \in Nat
  <1> DEFINE n == Len(ts)
  <1>1. n \in Nat /\ DOMAIN ts = 1..n OBVIOUS
  <1>2. Owed(ts) \in SUBSET (1..n) BY <1>1 DEF Owed
  <1>3. \A j \in 1..n : ts[j].plan.amount \in Nat BY SizeIs DEF IsMade
  <1> HIDE DEF n
  <1>4. 1 \in Int /\ n \in Int BY <1>1
  <1>5. IsFiniteSet(1..n) BY <1>4, FS_Interval
  <1>6. IsFiniteSet(Owed(ts)) BY <1>2, <1>5, FS_Subset
  <1>7. \A j \in 1..n : SwapAmounts(ts)[j] = ts[j].plan.amount BY <1>1 DEF SwapAmounts
  <1>8. QED BY <1>2, <1>3, <1>5, <1>6, <1>7 DEF n

\* The same presses owe the same.
LEMMA SameOwed ==
  ASSUME SwapCardAssumption, NEW ts \in Seq(SwapPresses), NEW us \in Seq(SwapPresses),
         \A j \in 1..Len(ts) : IsPlan(ts[j].plan) /\ IsMade(ts[j].plan),
         Owed(us) = Owed(ts), \A j \in Owed(ts) : us[j].plan.amount = ts[j].plan.amount
  PROVE  SumOf(SwapAmounts(us), Owed(us)) = SumOf(SwapAmounts(ts), Owed(ts))
  <1>1. /\ Owed(ts) \in SUBSET (1..Len(ts)) /\ IsFiniteSet(Owed(ts))
        /\ \A j \in 1..Len(ts) : SwapAmounts(ts)[j] = ts[j].plan.amount /\ SwapAmounts(ts)[j] \in Nat
    BY OwedIs
  <1>2. Owed(us) \in SUBSET DOMAIN us BY DEF Owed
  <1>3. \A j \in Owed(ts) : SwapAmounts(us)[j] = SwapAmounts(ts)[j] BY <1>1, <1>2 DEF SwapAmounts
  <1>4. \A j \in Owed(ts) : SwapAmounts(ts)[j] \in Int /\ SwapAmounts(us)[j] = SwapAmounts(ts)[j]
    BY <1>1, <1>3
  <1> DEFINE f == SwapAmounts(ts) e == SwapAmounts(us) S == Owed(ts)
  <1> HIDE DEF f, e, S
  <1>5. IsFiniteSet(S) /\ \A j \in S : f[j] \in Int /\ e[j] = f[j] BY <1>1, <1>4 DEF f, e, S
  <1>6. SumOf(e, S) = SumOf(f, S) BY <1>5, SumSame
  <1>7. QED BY <1>6 DEF f, e, S

LEMMA OthersOwe ==
  ASSUME SwapTyped, NEW i \in 1..Len(tries), NEW routes, NEW above, Advances(i, routes, above)
  PROVE  /\ \A j \in 1..Len(tries) : j # i => (j \in Owed(tries') <=> j \in Owed(tries))
         /\ tries' \in Seq(SwapPresses) /\ Len(tries') = Len(tries)
         /\ \A j \in 1..Len(tries) : tries'[j].plan.amount = tries[j].plan.amount
         /\ tries'[i].plan.steps = tries[i].plan.steps
         /\ tries[i].plan.steps[tries[i].at] = "swap" => tries'[i].stage = "filled"
         /\ tries[i].plan.steps[tries[i].at] # "swap" =>
              tries'[i].stage = tries[i].stage /\ tries'[i].at = tries[i].at + 1
  <1>1. /\ tries' \in Seq(SwapPresses) /\ Len(tries') = Len(tries) /\ tries[i] \in SwapPresses
        /\ tries'[i] = Onward(tries[i])
    BY AdvancedTries
  <1>2. /\ \A j \in 1..Len(tries) : Kin(tries[j], tries'[j])
        /\ \A j \in 1..Len(tries) :
             j # i => tries'[j].stage = tries[j].stage /\ tries'[j].at = tries[j].at
    BY AdvancedAreKin
  <1>3. DOMAIN tries = 1..Len(tries) /\ DOMAIN tries' = 1..Len(tries) BY <1>1 DEF SwapTyped
  <1>4. \A j \in 1..Len(tries) : tries'[j].plan.amount = tries[j].plan.amount
                                 /\ tries'[j].plan.steps = tries[j].plan.steps
    BY <1>2 DEF Kin
  <1>5. \A j \in 1..Len(tries) : j # i => (j \in Owed(tries') <=> j \in Owed(tries))
    BY <1>2, <1>3, <1>4 DEF Owed
  <1>6. /\ tries[i].plan.steps[tries[i].at] = "swap" => tries'[i].stage = "filled"
        /\ tries[i].plan.steps[tries[i].at] # "swap" =>
             tries'[i].stage = tries[i].stage /\ tries'[i].at = tries[i].at + 1
    BY <1>1, OnwardIs
  <1>7. QED BY <1>1, <1>4, <1>5, <1>6

LEMMA WrapOwes ==
  ASSUME SwapCardAssumption, SwapTyped, TriesAreSo, WrapsAreAccountedFor,
         NEW i \in DOMAIN tries, Wrap(i)
  PROVE  WrapsAreAccountedFor'
  <1> DEFINE p == tries[i].plan
  <1>1. /\ i \in 1..Len(tries) /\ tries[i].stage = "running" /\ p.amount \in Nat
        /\ tries[i].at \in 1..Len(p.steps) /\ LaidIn(sentence, p)
    BY RunningIs DEF Wrap
  <1>2. /\ p.steps[tries[i].at] = "wrap" /\ Advances(i, {}, 0) /\ purse.ether >= p.amount
        /\ purse' = [purse EXCEPT !.ether = @ - p.amount, !.wrapped = @ + p.amount]
    BY DEF Wrap, StepOf
  <1>3. tries[i].at = 1 /\ p.steps[1] = "wrap" BY <1>1, <1>2 DEF LaidIn
  <1>4. /\ \A j \in 1..Len(tries) : j # i => (j \in Owed(tries') <=> j \in Owed(tries))
        /\ tries' \in Seq(SwapPresses) /\ Len(tries') = Len(tries)
        /\ \A j \in 1..Len(tries) : tries'[j].plan.amount = tries[j].plan.amount
        /\ tries'[i].plan.steps = p.steps /\ tries'[i].stage = "running" /\ tries'[i].at = 2
    BY SMTT(30), <1>1, <1>2, <1>3, OthersOwe
  <1>5. tries \in Seq(SwapPresses) /\ \A j \in 1..Len(tries) : IsPlan(tries[j].plan) /\ IsMade(tries[j].plan)
    BY DEF SwapTyped
  <1>6. /\ Owed(tries) \in SUBSET (1..Len(tries)) /\ IsFiniteSet(Owed(tries))
        /\ \A j \in 1..Len(tries) : SwapAmounts(tries)[j] = tries[j].plan.amount /\ SwapAmounts(tries)[j] \in Nat
    BY <1>5, OwedIs
  <1>7. i \notin Owed(tries) BY <1>3 DEF Owed
  <1>8. Owed(tries') = Owed(tries) \cup {i}
    <2>1. DOMAIN tries' = 1..Len(tries) BY <1>4
    <2>2. i \in Owed(tries') BY <1>1, <1>3, <1>4, <2>1 DEF Owed
    <2>3. Owed(tries') \in SUBSET (1..Len(tries)) BY <2>1 DEF Owed
    <2>4. QED BY <1>1, <1>4, <1>6, <2>2, <2>3
  <1>9. \A j \in 1..Len(tries) : SwapAmounts(tries')[j] = SwapAmounts(tries)[j]
    <2>1. DOMAIN tries' = 1..Len(tries) BY <1>4
    <2>2. QED BY <1>4, <1>6, <2>1 DEF SwapAmounts
  <1> DEFINE f == SwapAmounts(tries) e == SwapAmounts(tries') S == Owed(tries)
  <1> HIDE DEF f, e, S
  <1>10. /\ IsFiniteSet(S) /\ i \notin S /\ \A j \in S \cup {i} : f[j] \in Int /\ e[j] = f[j]
         /\ IsFiniteSet(S \cup {i})
    <2>1. /\ IsFiniteSet(S) /\ i \notin S /\ \A j \in S \cup {i} : f[j] \in Int /\ e[j] = f[j]
      BY <1>1, <1>6, <1>7, <1>9 DEF f, e, S
    <2>2. QED BY <2>1, FS_AddElement
  <1>11. SumOf(e, S \cup {i}) = SumOf(f, S \cup {i}) BY <1>10, SumSame
  <1>12. SumOf(f, S \cup {i}) = f[i] + SumOf(f, S) BY <1>10, SumGrows
  <1>13. SumOf(f, S) \in Int BY <1>10, SumType
  <1>14. f[i] = p.amount BY <1>1, <1>6 DEF f
  <1>15. purse'.wrapped = purse.wrapped + p.amount
    <2>1. purse \in [Coins -> Nat] BY DEF SwapTyped
    <2> HIDE DEF p
    <2>2. QED BY <1>2, <2>1 DEF Coins
  <1>16. purse.wrapped = Purse + SumOf(f, S) BY WrapsAre DEF f, S
  <1>17. purse'.wrapped = Purse + SumOf(e, S \cup {i})
    <2>1. Purse \in Int /\ p.amount \in Int BY <1>1 DEF SwapCardAssumption
    <2> HIDE DEF p
    <2>2. QED BY <1>11, <1>12, <1>13, <1>14, <1>15, <1>16, <2>1
  <1>18. QED BY <1>8, <1>17, WrapsAre DEF e, S

LEMMA ApproveOwes ==
  ASSUME SwapCardAssumption, SwapTyped, TriesAreSo, WrapsAreAccountedFor,
         NEW i \in DOMAIN tries, Approve(i)
  PROVE  WrapsAreAccountedFor'
  <1> DEFINE p == tries[i].plan
  <1>1. /\ i \in 1..Len(tries) /\ tries[i].stage = "running"
        /\ tries[i].at \in 1..Len(p.steps) /\ Len(p.steps) \in Nat
    BY RunningIs, PlanFields DEF Approve
  <1>2. /\ p.steps[tries[i].at] \in {"approve-token", "approve-permit2"}
        /\ \E routes, above : Advances(i, routes, above)
        /\ UNCHANGED purse
    BY DEF Approve, StepOf
  <1>3. /\ \A j \in 1..Len(tries) : j # i => (j \in Owed(tries') <=> j \in Owed(tries))
        /\ tries' \in Seq(SwapPresses) /\ Len(tries') = Len(tries)
        /\ \A j \in 1..Len(tries) : tries'[j].plan.amount = tries[j].plan.amount
        /\ tries'[i].plan.steps = p.steps /\ tries'[i].stage = "running"
        /\ tries'[i].at = tries[i].at + 1
    BY <1>1, <1>2, OthersOwe
  <1>4. tries \in Seq(SwapPresses) /\ \A j \in 1..Len(tries) : IsPlan(tries[j].plan) /\ IsMade(tries[j].plan)
    BY DEF SwapTyped
  <1>5. p.steps[1] = "wrap" => tries[i].at > 1
    <2>1. p.steps[1] = "wrap" => tries[i].at # 1 BY <1>2
    <2>2. QED BY <1>1, <2>1
  <1>6. DOMAIN tries = 1..Len(tries) /\ DOMAIN tries' = 1..Len(tries) BY <1>3, <1>4
  <1>7. i \in Owed(tries') <=> i \in Owed(tries)
    <2>1. p.steps[1] = "wrap" => tries'[i].at > 1 BY <1>1, <1>3, <1>5
    <2>2. QED BY <1>1, <1>3, <1>5, <1>6, <2>1 DEF Owed
  <1>8. Owed(tries') \in SUBSET (1..Len(tries)) /\ Owed(tries) \in SUBSET (1..Len(tries))
    BY <1>6 DEF Owed
  <1>9. Owed(tries') = Owed(tries)
    <2>1. \A j \in 1..Len(tries) : j \in Owed(tries') <=> j \in Owed(tries)
      <3>1. TAKE j \in 1..Len(tries)
      <3>2. CASE j = i BY <1>7, <3>2
      <3>3. CASE j # i BY <1>3, <3>3
      <3>4. QED BY <3>2, <3>3
    <2> DEFINE u == Owed(tries') v == Owed(tries)
    <2> HIDE DEF u, v
    <2>2. u \in SUBSET (1..Len(tries)) /\ v \in SUBSET (1..Len(tries))
          /\ \A j \in 1..Len(tries) : j \in u <=> j \in v
      BY <1>8, <2>1 DEF u, v
    <2>3. u = v BY <2>2
    <2>4. QED BY <2>3 DEF u, v
  <1>10. SumOf(SwapAmounts(tries'), Owed(tries')) = SumOf(SwapAmounts(tries), Owed(tries))
    BY <1>3, <1>4, <1>8, <1>9, SameOwed
  <1>11. QED BY <1>2, <1>10, WrapsAre

LEMMA FillOwes ==
  ASSUME SwapCardAssumption, SwapTyped, TriesAreSo, WrapsAreAccountedFor,
         NEW i \in DOMAIN tries, Fill(i)
  PROVE  WrapsAreAccountedFor'
  <1> DEFINE p == tries[i].plan
             asset == PaidIn(sentence, p.route)
  <1>1. /\ i \in 1..Len(tries) /\ tries[i].stage = "running" /\ p.amount \in Nat
        /\ tries[i].at \in 1..Len(p.steps) /\ Len(p.steps) \in Nat /\ LaidIn(sentence, p)
    BY RunningIs, PlanFields DEF Fill
  <1>2. /\ p.steps[tries[i].at] = "swap" /\ Advances(i, {p.route}, 0)
        /\ purse' = [purse EXCEPT ![asset] = @ - p.amount]
    BY InTheirTerms DEF Fill, StepOf
  <1>3. /\ \A j \in 1..Len(tries) : j # i => (j \in Owed(tries') <=> j \in Owed(tries))
        /\ tries' \in Seq(SwapPresses) /\ Len(tries') = Len(tries)
        /\ \A j \in 1..Len(tries) : tries'[j].plan.amount = tries[j].plan.amount
        /\ tries'[i].stage = "filled"
    BY <1>1, <1>2, OthersOwe
  <1>4. tries \in Seq(SwapPresses) /\ \A j \in 1..Len(tries) : IsPlan(tries[j].plan) /\ IsMade(tries[j].plan)
    BY DEF SwapTyped
  <1>5. /\ Owed(tries) \in SUBSET (1..Len(tries)) /\ IsFiniteSet(Owed(tries))
        /\ \A j \in 1..Len(tries) : SwapAmounts(tries)[j] = tries[j].plan.amount /\ SwapAmounts(tries)[j] \in Nat
    BY <1>4, OwedIs
  <1>6. DOMAIN tries = 1..Len(tries) /\ DOMAIN tries' = 1..Len(tries) BY <1>3, <1>4
  <1>7. Owed(tries') = Owed(tries) \ {i}
    <2>1. i \notin Owed(tries') BY <1>3 DEF Owed
    <2>2. Owed(tries') \in SUBSET (1..Len(tries)) BY <1>6 DEF Owed
    <2>3. QED BY <1>3, <1>5, <2>1, <2>2
  <1>8. i \in Owed(tries) <=> asset = "wrapped"
    <2>1. p.steps[1] = "wrap" <=> asset = "wrapped" BY <1>1 DEF LaidIn
    <2>2. p.steps[1] = "wrap" => tries[i].at > 1
      <3>1. p.steps[1] = "wrap" => tries[i].at # 1 BY <1>2
      <3>2. QED BY <1>1, <3>1
    <2>3. QED BY <1>1, <1>6, <2>1, <2>2 DEF Owed
  <1>9. \A j \in 1..Len(tries) : SwapAmounts(tries')[j] = SwapAmounts(tries)[j]
    BY <1>3, <1>5, <1>6 DEF SwapAmounts
  <1>10. asset \in Coins BY DEF PaidIn, Coins
  <1>11. purse \in [Coins -> Nat] BY DEF SwapTyped
  <1>12. purse.wrapped \in Nat /\ purse'.wrapped = IF asset = "wrapped" THEN purse.wrapped - p.amount ELSE purse.wrapped
    <2> HIDE DEF p, asset
    <2>1. QED BY <1>2, <1>10, <1>11 DEF Coins
  <1> DEFINE f == SwapAmounts(tries) e == SwapAmounts(tries') S == Owed(tries)
  <1> HIDE DEF f, e, S
  <1>13. /\ IsFiniteSet(S) /\ IsFiniteSet(S \ {i}) /\ \A j \in S : f[j] \in Int /\ e[j] = f[j]
    <2>1. IsFiniteSet(S) /\ \A j \in S : f[j] \in Int /\ e[j] = f[j] BY <1>5, <1>9 DEF f, e, S
    <2>2. QED BY <2>1, FS_RemoveElement
  <1>14. SumOf(e, S \ {i}) = SumOf(f, S \ {i}) BY <1>13, SumSame
  <1>15. purse.wrapped = Purse + SumOf(f, S) BY WrapsAre DEF f, S
  <1>16. CASE asset = "wrapped"
    <2>1. i \in S BY <1>8, <1>16 DEF S
    <2>2. SumOf(f, S) = f[i] + SumOf(f, S \ {i}) BY <1>13, <2>1, SumTakesOut
    <2>3. f[i] = p.amount BY <1>1, <1>5 DEF f
    <2>4. SumOf(f, S \ {i}) \in Int BY <1>13, SumType
    <2>5. Purse \in Int /\ p.amount \in Int BY <1>1 DEF SwapCardAssumption
    <2>6. purse'.wrapped = purse.wrapped - p.amount BY <1>12, <1>16
    <2> HIDE DEF p, asset
    <2>7. purse'.wrapped = Purse + SumOf(e, S \ {i}) BY <1>12, <1>14, <1>15, <2>2, <2>3, <2>4, <2>5, <2>6
    <2>8. QED BY <1>7, <2>7, WrapsAre DEF e, S
  <1>17. CASE asset # "wrapped"
    <2>1. S \ {i} = S BY <1>8, <1>17 DEF S
    <2>2. purse'.wrapped = Purse + SumOf(e, S \ {i}) BY <1>12, <1>14, <1>15, <1>17, <2>1
    <2>3. QED BY <1>7, <2>2, WrapsAre DEF e, S
  <1>18. QED BY <1>16, <1>17

\* Presses where each is akin to what it was and stands where it stood owe what they owed.
LEMMA KinOwe ==
  ASSUME SwapCardAssumption, SwapTyped, WrapsAreAccountedFor, UNCHANGED purse,
         tries' \in Seq(SwapPresses), Len(tries') = Len(tries),
         \A j \in 1..Len(tries) :
            /\ tries'[j].plan.amount = tries[j].plan.amount /\ tries'[j].plan.steps = tries[j].plan.steps
            /\ tries'[j].at = tries[j].at /\ (tries'[j].stage = "filled" <=> tries[j].stage = "filled")
  PROVE  WrapsAreAccountedFor'
  <1>1. tries \in Seq(SwapPresses) /\ \A j \in 1..Len(tries) : IsPlan(tries[j].plan) /\ IsMade(tries[j].plan)
    BY DEF SwapTyped
  <1>2. DOMAIN tries = 1..Len(tries) /\ DOMAIN tries' = 1..Len(tries) BY <1>1
  <1>3. Owed(tries') = Owed(tries) BY <1>2 DEF Owed
  <1>4. Owed(tries) \in SUBSET (1..Len(tries)) BY <1>2 DEF Owed
  <1>5. SumOf(SwapAmounts(tries'), Owed(tries')) = SumOf(SwapAmounts(tries), Owed(tries))
    BY <1>1, <1>3, <1>4, SameOwed
  <1>6. QED BY <1>5, WrapsAre

\* A press that has come to its swap with nothing disturbed finds the allowances, the position
\* and, where it wrapped, the money; so what stopped it was something else.
LEMMA RevertIsForeseen ==
  ASSUME SwapCardAssumption, SwapTyped, TriesAreSo, WrapsAreAccountedFor, NEW i \in DOMAIN tries,
         Running(i), StepOf(i) = "swap", NEW why \in Obstacles(tries[i].plan)
  PROVE  /\ why \in {"allowance", "maker"} => tries[i].plan.disturbed
         /\ why = "funds" => PaidIn(sentence, tries[i].plan.route) # "wrapped"
  <1> DEFINE p == tries[i].plan
             at == tries[i].at
             n == Len(p.steps)
  <1>1. /\ i \in 1..Len(tries) /\ tries[i].stage = "running" /\ p \in Plans /\ IsPlan(p) /\ IsMade(p)
        /\ p.route \in Routes /\ p.amount \in Nat /\ at \in 1..n /\ n \in Nat /\ LaidIn(sentence, p)
        /\ CanPayIn(book, p) /\ AllowedIn(allowance, sentence, p, at)
    BY RunningIs, PlanFields
  <1>2. p.steps[at] = "swap" BY DEF StepOf
  <1>3. at = n BY <1>1, <1>2 DEF LaidIn
  <1>4. allowance[Spender(p.route)] \in Nat /\ allowance["router"] \in Nat
    <2>1. Spender(p.route) \in Spenders /\ "router" \in Spenders BY <1>1, SpenderIs DEF Spenders
    <2>2. QED BY <2>1 DEF SwapTyped
  <1>5. ~ToCome(p, at, "approve-token") /\ ~ToCome(p, at, "approve-permit2")
    <2>1. \A k \in at..n : k = at BY <1>1, <1>3
    <2>2. QED BY <1>2, <2>1 DEF ToCome
  <1> HIDE DEF p, at, n
  <1>6. /\ why = "allowance" =>
             /\ Pulls(p.route)
             /\ \/ allowance[Spender(p.route)] < p.amount
                \/ p.route = "uniswap" /\ allowance["router"] < p.amount
        /\ why = "funds" => purse[Paid(p.route)] < p.amount
        /\ why = "maker" => /\ p.route = "aqua"
                            /\ Quote(p.position, p.amount) \notin p.floor..Cap(p.position)
    <2>1. why \in Obstacles(p) BY DEF p
    <2>2. why = "allowance" =>
             /\ Pulls(p.route)
             /\ \/ allowance[Spender(p.route)] < p.amount
                \/ p.route = "uniswap" /\ allowance["router"] < p.amount
      BY <2>1 DEF Obstacles
    <2>3. why = "funds" => purse[Paid(p.route)] < p.amount BY <2>1 DEF Obstacles
    <2>4. why = "maker" => /\ p.route = "aqua"
                           /\ Quote(p.position, p.amount) \notin p.floor..Cap(p.position)
      BY <2>1 DEF Obstacles
    <2>5. QED BY <2>2, <2>3, <2>4
  <1>7. why = "allowance" => p.disturbed
    <2>1. SUFFICES ASSUME why = "allowance", ~p.disturbed PROVE FALSE OBVIOUS
    <2>2. PullsIn(sentence, p.route) BY <1>6, <2>1, InTheirTerms
    <2>3. allowance[Spender(p.route)] >= p.amount
          /\ (p.route = "uniswap" => allowance["router"] >= p.amount)
      BY <1>1, <1>5, <2>1, <2>2 DEF AllowedIn
    <2>4. QED BY <1>1, <1>4, <1>6, <2>1, <2>3
  <1>8. why = "maker" => p.disturbed BY <1>1, <1>6, InTheirTerms DEF CanPayIn
  <1>9. why = "funds" => PaidIn(sentence, p.route) # "wrapped"
    <2>1. SUFFICES ASSUME why = "funds", PaidIn(sentence, p.route) = "wrapped" PROVE FALSE OBVIOUS
    <2>2. purse.wrapped < p.amount BY <1>6, <2>1, InTheirTerms
    <2>3. p.steps[1] = "wrap" BY <1>1, <2>1 DEF LaidIn
    <2>4. at > 1
      <3>1. at # 1 BY <1>2, <2>3
      <3>2. QED BY <1>1, <3>1
    <2>5. i \in Owed(tries) BY <1>1, <2>3, <2>4 DEF Owed, p, at
    <2>6. /\ IsFiniteSet(Owed(tries))
          /\ \A j \in Owed(tries) : SwapAmounts(tries)[j] = tries[j].plan.amount /\ SwapAmounts(tries)[j] \in Nat
      BY OwedIs DEF SwapTyped
    <2> DEFINE f == SwapAmounts(tries) S == Owed(tries)
    <2> HIDE DEF f, S
    <2>7. /\ IsFiniteSet(S) /\ i \in S /\ (\A j \in S : f[j] \in Nat) /\ f[i] = p.amount
          /\ IsFiniteSet(S \ {i})
      <3>1. IsFiniteSet(S) /\ i \in S /\ (\A j \in S : f[j] \in Nat) /\ f[i] = p.amount
        BY <2>5, <2>6 DEF f, S, p
      <3>2. QED BY <3>1, FS_RemoveElement
    <2>8. SumOf(f, S) = f[i] + SumOf(f, S \ {i}) BY <2>7, SumTakesOut
    <2>9. SumOf(f, S \ {i}) \in Nat BY <2>7, SumOfNaturals
    <2>10. purse.wrapped = Purse + SumOf(f, S) BY WrapsAre DEF f, S
    <2>11. Purse \in Nat BY DEF SwapCardAssumption
    <2>12. QED BY <1>1, <2>2, <2>7, <2>8, <2>9, <2>10, <2>11
  <1>10. QED BY <1>7, <1>8, <1>9 DEF p

LEMMA FailureIsSaid ==
  ASSUME SwapCardAssumption, SwapTyped, SignedIsShown, PlannedSwapsLand, WrapsAreAccountedFor,
         NEW i \in DOMAIN tries, NEW why \in Whys, TryFails(i, why),
         UNCHANGED <<outsideVars, cardVars>>,
         why \in {"allowance", "maker"} => tries[i].plan.disturbed,
         why = "funds" => PaidIn(sentence, tries[i].plan.route) # "wrapped",
         tries[i].stage = "running"
  PROVE  SignedIsShown' /\ PlannedSwapsLand' /\ WrapsAreAccountedFor'
  <1>1. UNCHANGED <<sentence, rereads, purse>> BY DEF outsideVars, cardVars
  <1>2. /\ i \in 1..Len(tries) /\ tries' \in Seq(SwapPresses) /\ Len(tries') = Len(tries)
        /\ tries'[i] = Failed(tries[i], why) /\ tries[i] \in SwapPresses
        /\ \A j \in 1..Len(tries) : j # i => tries'[j] = tries[j]
    BY FailedTries
  <1>3. /\ tries'[i].stage = "failed" /\ tries'[i].at = tries[i].at /\ tries'[i].plan = tries[i].plan
        /\ tries'[i].shown = tries[i].shown /\ tries'[i].why = why
    BY <1>2, FailedIs
  <1>4. DOMAIN tries = 1..Len(tries) /\ DOMAIN tries' = 1..Len(tries) BY <1>2 DEF SwapTyped
  <1>5. \A j \in 1..Len(tries) : ShownIs(sentence, rereads, tries[j]) /\ LandsIs(sentence, tries[j])
    BY <1>4, SaidOfEach
  <1>6. \A j \in 1..Len(tries) : ShownIs(sentence, rereads, tries'[j]) /\ LandsIs(sentence, tries'[j])
    <2>1. ShownIs(sentence, rereads, tries'[i]) BY <1>2, <1>3, <1>5 DEF ShownIs
    <2>2. LandsIs(sentence, tries'[i]) BY <1>3 DEF LandsIs
    <2>3. QED BY <1>2, <1>5, <2>1, <2>2
  <1>7. SignedIsShown' /\ PlannedSwapsLand' BY <1>1, <1>4, <1>6, SaidOfEachNext
  <1>8. \A j \in 1..Len(tries) :
            /\ tries'[j].plan.amount = tries[j].plan.amount /\ tries'[j].plan.steps = tries[j].plan.steps
            /\ tries'[j].at = tries[j].at /\ (tries'[j].stage = "filled" <=> tries[j].stage = "filled")
    BY <1>2, <1>3
  <1>9. WrapsAreAccountedFor' BY <1>1, <1>2, <1>8, KinOwe
  <1>10. QED BY <1>7, <1>9

LEMMA PressIsSaid ==
  ASSUME SwapCardAssumption, SwapTyped, SignedIsShown, PlannedSwapsLand, WrapsAreAccountedFor,
         SizesAreRead, PressSwap
  PROVE  SignedIsShown' /\ PlannedSwapsLand' /\ WrapsAreAccountedFor'
  <1> DEFINE t == [stage |-> "running", at |-> 1, plan |-> plan, shown |-> sized, why |-> "none"]
  <1>1. /\ sized # NoAmount /\ IsPlan(plan) /\ tries' = Append(tries, t)
        /\ UNCHANGED <<sentence, purse, rereads>>
    BY DEF PressSwap, outsideVars
  <1>2. t \in SwapPresses /\ t.plan = plan /\ t.at = 1 /\ t.shown = sized /\ t.why = "none"
    BY <1>1 DEF SwapTyped, SwapPresses, Whys
  <1> HIDE DEF t
  <1>3. tries \in Seq(SwapPresses) /\ rereads \in Nat
        /\ \A j \in 1..Len(tries) : IsPlan(tries[j].plan) /\ IsMade(tries[j].plan)
    BY DEF SwapTyped
  <1>4. tries' \in Seq(SwapPresses) /\ Len(tries') = Len(tries) + 1 /\ tries'[Len(tries) + 1] = t
        /\ \A j \in 1..Len(tries) : tries'[j] = tries[j]
    BY <1>1, <1>2, <1>3
  <1>5. \A j \in 1..Len(tries') : j \in 1..Len(tries) \/ j = Len(tries) + 1 BY <1>3, <1>4
  <1>6. DOMAIN tries = 1..Len(tries) /\ DOMAIN tries' = 1..Len(tries') BY <1>3, <1>4
  <1>7. ShownIs(sentence, rereads, t)
    <2>1. plan.amount # sized => sentence.dollars /\ rereads # 0
      BY <1>1 DEF SizesAreRead
    <2>2. QED BY <1>2, <1>3, <2>1 DEF ShownIs
  <1>8. LandsIs(sentence, t) BY <1>2 DEF LandsIs
  <1>9. \A j \in 1..Len(tries) : ShownIs(sentence, rereads, tries[j]) /\ LandsIs(sentence, tries[j])
    BY <1>6, SaidOfEach
  <1>10. \A j \in 1..Len(tries') : ShownIs(sentence, rereads, tries'[j]) /\ LandsIs(sentence, tries'[j])
    BY <1>4, <1>5, <1>7, <1>8, <1>9
  <1>11. SignedIsShown' /\ PlannedSwapsLand' BY <1>1, <1>6, <1>10, SaidOfEachNext
  <1>12. Owed(tries') = Owed(tries)
    <2>1. Len(tries) + 1 \notin Owed(tries') BY <1>2, <1>4 DEF Owed
    <2>2. Len(tries) + 1 \notin 1..Len(tries) BY <1>3
    <2>3. \A j \in 1..Len(tries) : j \in Owed(tries') <=> j \in Owed(tries)
      <3>1. \A j \in 1..Len(tries) : j \in 1..Len(tries') BY <1>3, <1>4
      <3>2. QED BY <1>4, <1>6, <3>1 DEF Owed
    <2>4. Owed(tries) \in SUBSET (1..Len(tries)) /\ Owed(tries') \in SUBSET (1..Len(tries'))
      BY <1>6 DEF Owed
    <2> DEFINE u == Owed(tries') v == Owed(tries)
    <2> HIDE DEF u, v
    <2>5. u \in SUBSET (1..Len(tries)) /\ v \in SUBSET (1..Len(tries))
          /\ \A j \in 1..Len(tries) : j \in u <=> j \in v
      BY <1>5, <2>1, <2>3, <2>4 DEF u, v
    <2>6. u = v BY <2>5
    <2>7. QED BY <2>6 DEF u, v
  <1>13. Owed(tries) \in SUBSET (1..Len(tries)) BY <1>6 DEF Owed
  <1>14. SumOf(SwapAmounts(tries'), Owed(tries')) = SumOf(SwapAmounts(tries), Owed(tries))
    BY <1>3, <1>4, <1>12, <1>13, SameOwed
  <1>15. WrapsAreAccountedFor' BY <1>1, <1>14, WrapsAre
  <1>16. QED BY <1>11, <1>15

LEMMA PositionsAreSaid ==
  ASSUME SwapCardAssumption, SwapTyped, SignedIsShown, PlannedSwapsLand, WrapsAreAccountedFor,
         PositionsMove
  PROVE  SignedIsShown' /\ PlannedSwapsLand' /\ WrapsAreAccountedFor'
  <1> DEFINE all == {"aqua", "oneinch", "uniswap"}
             n == Len(tries)
  <1>1. /\ tries' = [j \in DOMAIN tries |-> Stirred(tries[j], all, 0)]
        /\ UNCHANGED <<sentence, purse, rereads>>
    BY DEF PositionsMove
  <1> HIDE DEF all
  <1>2. tries \in Seq(SwapPresses) /\ n \in Nat /\ DOMAIN tries = 1..n BY DEF SwapTyped
  <1>3. tries' = [j \in 1..n |-> Stirred(tries[j], all, 0)] BY <1>1, <1>2
  <1>4. \A j \in 1..n : tries[j] \in SwapPresses BY <1>2
  <1>5. \A j \in 1..n : Stirred(tries[j], all, 0) \in SwapPresses BY <1>4, StirredIs
  <1> HIDE DEF n
  <1>6. tries' \in Seq(SwapPresses) /\ Len(tries') = n BY <1>2, <1>3, <1>5
  <1>7. \A j \in 1..n : tries'[j] = Stirred(tries[j], all, 0) BY <1>3
  <1>8. \A j \in 1..n : Kin(tries[j], tries'[j]) /\ tries'[j].stage = tries[j].stage
                        /\ tries'[j].at = tries[j].at
    BY <1>4, <1>7, StirredIsKin
  <1>9. SignedIsShown' /\ PlannedSwapsLand' BY <1>1, <1>6, <1>8, KinKeep DEF n
  <1>10. \A j \in 1..n :
            /\ tries'[j].plan.amount = tries[j].plan.amount /\ tries'[j].plan.steps = tries[j].plan.steps
            /\ tries'[j].at = tries[j].at /\ (tries'[j].stage = "filled" <=> tries[j].stage = "filled")
    BY <1>8 DEF Kin
  <1>11. WrapsAreAccountedFor' BY <1>1, <1>6, <1>10, KinOwe DEF n
  <1>12. QED BY <1>9, <1>11

\* Disturbing a plan changes nothing of what it was made for.
LEMMA DisturbingReads ==
  ASSUME SwapTyped, SizesAreRead, NEW routes, NEW above, Disturbing(routes, above),
         UNCHANGED <<sentence, units, sized, due, rereads>>
  PROVE  SizesAreRead'
  <1>1. /\ plan'.amount = plan.amount /\ (IsPlan(plan') <=> IsPlan(plan))
        /\ planning'.amount = planning.amount /\ (IsPlan(planning') <=> IsPlan(planning))
    BY DisturbedIs DEF SwapTyped, Disturbing
  <1>2. QED BY <1>1 DEF SizesAreRead

LEMMA ReadsKeep ==
  ASSUME SwapCardAssumption, SwapTyped, SizesAreRead, [SwapNext]_swapVars
  PROVE  SizesAreRead'
  <1> USE DEF outsideVars, cardVars
  <1>1. ~IsPlan(NoPlan) BY NoPlanIs
  <1>a. CASE SizedArrives
    <2>1. UNCHANGED <<outsideVars, planning, plan, tries, latest, rereads>>
          /\ sized' \in {units, sized} /\ due' = due \ {"sized"} /\ "sized" \in due
      BY <1>a DEF SizedArrives
    <2>2. "sized" \notin due' BY <2>1
    <2>3. QED BY <2>1, <2>2 DEF SizesAreRead
  <1>b. CASE PlanStarts
    <2>1. UNCHANGED <<outsideVars, sized, plan, tries, latest, rereads>> /\ due' = due \ {"plan"}
          /\ sized # NoAmount
      BY <1>b DEF PlanStarts
    <2>2. planning'.amount = sized /\ IsPlan(planning') BY <1>b, PlanStartsSoundly
    <2>3. "sized" \in due' => "sized" \in due BY <2>1
    <2>4. QED BY <2>1, <2>2, <2>3 DEF SizesAreRead
  <1>c. CASE PlanArrives
    <2>1. UNCHANGED <<outsideVars, sized, due, tries, latest, rereads>> /\ planning' = NoPlan
          /\ IsPlan(planning)
      BY <1>c DEF PlanArrives
    <2>2. plan' = [planning EXCEPT !.steps = StepsFor(planning.route, planning.amount)]
      BY <1>c DEF PlanArrives
    <2>3. plan'.amount = planning.amount
      <3> DEFINE s == StepsFor(planning.route, planning.amount)
      <3>1. plan' = [planning EXCEPT !.steps = s] /\ planning \in Plans BY <2>2 DEF SwapTyped
      <3> HIDE DEF s
      <3>2. QED BY <3>1 DEF Plans
    <2>4. QED BY <1>1, <2>1, <2>3 DEF SizesAreRead
  <1>d. CASE PlanFails
    <2>1. UNCHANGED <<outsideVars, sized, due, tries, latest, rereads>> /\ planning' = NoPlan
          /\ plan' = NoPlan
      BY <1>d DEF PlanFails
    <2>2. QED BY <1>1, <2>1 DEF SizesAreRead
  <1>e. CASE ReadAgain
    <2>1. UNCHANGED <<outsideVars, sized, planning, plan>> /\ rereads' = rereads + 1
      BY <1>e DEF ReadAgain
    <2>2. rereads' # 0 BY <2>1 DEF SwapTyped
    <2>3. QED BY <2>1, <2>2 DEF SizesAreRead
  <1>f. CASE PressSwap BY <1>f DEF PressSwap, SizesAreRead
  <1>g. ASSUME NEW i \in DOMAIN tries, Wrap(i) \/ Approve(i) \/ Fill(i)
        PROVE  SizesAreRead'
    <2>1. UNCHANGED <<sentence, units, sized, due, rereads>>
          /\ \E routes, above : Disturbing(routes, above)
      <3>1. CASE Wrap(i) BY <3>1 DEF Wrap, Advances
      <3>2. CASE Approve(i) BY <3>2 DEF Approve, Advances
      <3>3. CASE Fill(i) BY <3>3 DEF Fill, Advances
      <3>4. QED BY <1>g, <3>1, <3>2, <3>3
    <2>2. QED BY <2>1, DisturbingReads
  <1>h. ASSUME NEW i \in DOMAIN tries, StepReverts(i) \/ Declines(i)
        PROVE  SizesAreRead'
    BY <1>h DEF StepReverts, Declines, SizesAreRead
  <1>i. CASE FeedMoves
    <2>1. sentence.dollars /\ UNCHANGED <<sentence, sized, planning, plan, due, rereads>>
      BY <1>i DEF FeedMoves
    <2>2. QED BY <2>1 DEF SizesAreRead
  <1>j. CASE PositionsMove
    <2>1. UNCHANGED <<sentence, units, sized, due, rereads>>
          /\ Disturbing({"aqua", "oneinch", "uniswap"}, 0)
      BY <1>j DEF PositionsMove
    <2>2. QED BY <2>1, DisturbingReads
  <1>k. CASE UNCHANGED swapVars BY <1>k DEF swapVars, SizesAreRead
  <1>l. QED
    BY <1>a, <1>b, <1>c, <1>d, <1>e, <1>f, <1>g, <1>h, <1>i, <1>j, <1>k DEF SwapNext

LEMMA SaidKeeps ==
  ASSUME SwapCardAssumption, SwapInv, [SwapNext]_swapVars
  PROVE  SignedIsShown' /\ PlannedSwapsLand' /\ WrapsAreAccountedFor'
  <1> USE DEF outsideVars, cardVars
  <1>1. /\ SwapTyped /\ PlansAreSo /\ TriesAreSo /\ SizesAreRead
        /\ PlannedSwapsLand /\ WrapsAreAccountedFor /\ SignedIsShown
    BY DEF SwapInv
  <1>2. ASSUME UNCHANGED <<sentence, purse, tries>>, rereads' = rereads \/ rereads' = rereads + 1
        PROVE  SignedIsShown' /\ PlannedSwapsLand' /\ WrapsAreAccountedFor'
    <2>1. rereads > 0 => rereads' > 0 BY <1>1, <1>2 DEF SwapTyped
    <2>2. SignedIsShown' BY <1>1, <1>2, <2>1 DEF SignedIsShown
    <2>3. PlannedSwapsLand' BY <1>1, <1>2 DEF PlannedSwapsLand, Paid
    <2>4. WrapsAreAccountedFor' BY <1>1, <1>2 DEF WrapsAreAccountedFor
    <2>5. QED BY <2>2, <2>3, <2>4
  <1>a. CASE SizedArrives \/ PlanStarts \/ PlanArrives \/ PlanFails \/ ReadAgain \/ FeedMoves
             \/ UNCHANGED swapVars
    <2>1. UNCHANGED <<sentence, purse, tries>> /\ (rereads' = rereads \/ rereads' = rereads + 1)
      BY <1>a DEF SizedArrives, PlanStarts, PlanArrives, PlanFails, ReadAgain, FeedMoves, swapVars
    <2>2. QED BY <1>2, <2>1
  <1>b. CASE PressSwap BY <1>1, <1>b, PressIsSaid
  <1>c. ASSUME NEW i \in DOMAIN tries, Wrap(i) \/ Approve(i) \/ Fill(i)
        PROVE  SignedIsShown' /\ PlannedSwapsLand' /\ WrapsAreAccountedFor'
    <2>1. UNCHANGED <<sentence, rereads>> /\ \E routes, above : Advances(i, routes, above)
      <3>1. CASE Wrap(i) BY <3>1 DEF Wrap
      <3>2. CASE Approve(i) BY <3>2 DEF Approve
      <3>3. CASE Fill(i) BY <3>3 DEF Fill
      <3>4. QED BY <1>c, <3>1, <3>2, <3>3
    <2>2. i \in 1..Len(tries) BY <1>1 DEF SwapTyped
    <2>3. /\ tries' \in Seq(SwapPresses) /\ Len(tries') = Len(tries)
          /\ \A j \in 1..Len(tries) : Kin(tries[j], tries'[j])
      BY <1>1, <2>1, <2>2, AdvancedTries, AdvancedAreKin
    <2>4. SignedIsShown' /\ PlannedSwapsLand' BY <1>1, <2>1, <2>3, KinKeep
    <2>5. WrapsAreAccountedFor' BY <1>1, <1>c, WrapOwes, ApproveOwes, FillOwes
    <2>6. QED BY <2>4, <2>5
  <1>d. ASSUME NEW i \in DOMAIN tries, StepReverts(i) \/ Declines(i)
        PROVE  SignedIsShown' /\ PlannedSwapsLand' /\ WrapsAreAccountedFor'
    <2>1. Running(i) /\ UNCHANGED <<outsideVars, cardVars>>
          /\ \/ StepOf(i) = "swap" /\ \E why \in Obstacles(tries[i].plan) : TryFails(i, why)
             \/ TryFails(i, "other")
      BY <1>d DEF StepReverts, Declines
    <2>2. tries[i].stage = "running" BY <2>1 DEF Running
    <2>3. CASE TryFails(i, "other")
      <3>1. "other" \in Whys BY DEF Whys
      <3>2. QED BY <1>1, <2>1, <2>2, <2>3, <3>1, FailureIsSaid
    <2>4. CASE StepOf(i) = "swap" /\ \E why \in Obstacles(tries[i].plan) : TryFails(i, why)
      <3>1. PICK why \in Obstacles(tries[i].plan) : TryFails(i, why) BY <2>4
      <3>2. /\ why \in {"allowance", "maker"} => tries[i].plan.disturbed
            /\ why = "funds" => PaidIn(sentence, tries[i].plan.route) # "wrapped"
        BY <1>1, <2>1, <2>4, RevertIsForeseen
      <3>3. why \in Whys BY DEF Obstacles, Whys
      <3>4. QED BY <1>1, <2>1, <2>2, <3>1, <3>2, <3>3, FailureIsSaid
    <2>5. QED BY <2>1, <2>3, <2>4
  <1>e. CASE PositionsMove BY <1>1, <1>e, PositionsAreSaid
  <1>f. QED BY <1>a, <1>b, <1>c, <1>d, <1>e DEF SwapNext

LEMMA SwapBegins ==
  ASSUME SwapCardAssumption, SwapInit
  PROVE  SwapInv
  <1>1. /\ sentence \in [dollars : BOOLEAN, ether : BOOLEAN]
        /\ units \in Sizes /\ book \in Books
        /\ purse = [a \in Coins |-> Purse]
        /\ allowance = [s \in Spenders |-> IF s = "aqua" THEN 1 ELSE 0]
        /\ sized = NoAmount /\ planning = NoPlan /\ plan = NoPlan
        /\ due = Reads /\ tries = <<>> /\ latest = 0 /\ rereads = 0
    BY DEF SwapInit, Coins, Spenders
  <1>2. NoPlan \in Plans /\ ~IsPlan(NoPlan) /\ IsMade(NoPlan) /\ NoPlan.route = "none" BY NoPlanIs
  <1>3. Purse \in Nat /\ Books \subseteq [Positions -> Offers] BY DEF SwapCardAssumption, Offers
  <1>4. purse \in [Coins -> Nat] /\ purse.wrapped = Purse BY <1>1, <1>3 DEF Coins
  <1>5. allowance \in [Spenders -> Nat] BY <1>1
  <1>6. tries \in Seq(SwapPresses) /\ Len(tries) = 0 /\ DOMAIN tries = {} BY <1>1
  <1>7. SwapTyped BY <1>1, <1>2, <1>3, <1>4, <1>5, <1>6 DEF SwapTyped, Reads
  <1>8. PlansAreSo /\ TriesAreSo BY <1>1, <1>2, <1>6 DEF PlansAreSo, TriesAreSo, CanPayIn
  <1>9. SizesAreRead BY <1>1, <1>2 DEF SizesAreRead
  <1>10. PlannedSwapsLand /\ SignedIsShown BY <1>6 DEF PlannedSwapsLand, SignedIsShown
  <1>11. WrapsAreAccountedFor
    <2>1. Owed(tries) = {} BY <1>6 DEF Owed
    <2>2. SumOf(SwapAmounts(tries), {}) = 0 BY SumOfNone
    <2>3. QED BY <1>3, <1>4, <2>1, <2>2, WrapsAre
  <1>12. QED BY <1>7, <1>8, <1>9, <1>10, <1>11 DEF SwapInv

LEMMA SwapInvariant == SwapSpec => []SwapInv
  <1>1. SwapInit => SwapInv BY SwapCardAssumption, SwapBegins
  <1>2. SwapInv /\ [SwapNext]_swapVars => SwapInv'
    <2> SUFFICES ASSUME SwapInv, [SwapNext]_swapVars PROVE SwapInv' OBVIOUS
    <2>1. SwapTyped' /\ PlansAreSo' /\ TriesAreSo' BY SwapCardAssumption, SoundStays DEF SwapInv
    <2>2. SizesAreRead' BY SwapCardAssumption, ReadsKeep DEF SwapInv
    <2>3. SignedIsShown' /\ PlannedSwapsLand' /\ WrapsAreAccountedFor'
      BY SwapCardAssumption, SaidKeeps
    <2>4. QED BY <2>1, <2>2, <2>3 DEF SwapInv
  <1>3. QED BY <1>1, <1>2, PTL DEF SwapSpec

\* The state of the swap card keeps its type.
THEOREM SwapTypeCorrect == SwapSpec => []SwapTypeOK
  <1>1. SwapInv => SwapTypeOK
    <2> SUFFICES ASSUME SwapInv PROVE SwapTypeOK OBVIOUS
    <2>1. /\ units \in Sizes /\ sized \in Sizes \cup {NoAmount} /\ purse \in [Coins -> Nat]
          /\ allowance \in [Spenders -> Nat] /\ due \in SUBSET Reads /\ latest \in 0..Len(tries)
          /\ tries \in Seq(SwapPresses)
      BY DEF SwapInv, SwapTyped
    <2>2. \A i \in DOMAIN tries : tries[i].at \in 1..Len(tries[i].plan.steps)
      BY <2>1 DEF SwapInv, TriesAreSo, TryIsLaid
    <2>3. \A s \in DOMAIN allowance : allowance[s] \in Nat BY <2>1
    <2>4. QED BY <2>1, <2>2, <2>3 DEF SwapTypeOK, Coins
  <1>2. QED BY <1>1, SwapInvariant, PTL

\* A press of the swap card does what the card said: undisturbed, it finds the allowances and the
\* position its plan counted on, and never wants for ether it wrapped itself; the wrapped ether in
\* the wallet is what was there before and what presses under way left; and it swaps the amount
\* shown, unless dollars were read again.
THEOREM PressesDoAsPlanned == SwapSpec => []SwapsAreAsPlanned
  <1>1. SwapInv => SwapsAreAsPlanned BY DEF SwapInv, SwapsAreAsPlanned
  <1>2. QED BY <1>1, SwapInvariant, PTL
=============================================================================
