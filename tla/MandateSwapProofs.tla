------------------------- MODULE MandateSwapProofs -------------------------
(***************************************************************************)
(* Proofs about MandateSwap, for any mandates, venues and fees, any prices *)
(* of shares, any takers and any depth of swaps inside swaps.              *)
(*                                                                         *)
(* An open swap has lowered its mandate's product, or is about to, and is  *)
(* owed the price; what a failure would put back has to be as sound as     *)
(* what is there now.  So every state on the stack, and the present one,   *)
(* is compared with what was committed, given the swaps open further out.  *)
(***************************************************************************)
EXTENDS MandateSwap, SumsProofs, SequenceTheorems, TLAPS

LEMMA TwoTokens ==
  /\ \A t \in Tokens : Other(t) \in Tokens /\ Other(t) # t
  /\ \A t, u \in Tokens : u = t \/ u = Other(t)
  /\ \A t \in Tokens : Other(Other(t)) = t
  /\ Tokens # {}
  <1>1. PICK t, u \in Tokens : t # u /\ Tokens = {t, u} BY MandateAssumption DEF MandateAssumption
  <1>2. Other(t) = u /\ Other(u) = t BY <1>1 DEF Other
  <1>3. QED BY <1>1, <1>2

LEMMA Bounds ==
  /\ VenuesOf \in [Mandates -> Seq(Venues)]
  /\ BPS_BASE \in Nat \ {0}
  /\ \A m \in Mandates : Fee[m] \in Nat /\ BPS_BASE - Fee[m] \in Nat
  /\ Amounts \subseteq Nat /\ Par \in Nat \ {0}
  /\ \A v \in SharePriced : v \in Venues
  /\ \A y \in Prices : y \in Nat \ {0}
  /\ MaxDepth \in Nat /\ MaxTime \in Nat /\ MaxEntries \in Nat
  <1>1. BPS_BASE \in Nat \ {0} /\ Fee \in [Mandates -> 0..(BPS_BASE - 1)]
    BY MandateAssumption DEF MandateAssumption
  <1>2. \A m \in Mandates : Fee[m] \in Nat /\ BPS_BASE - Fee[m] \in Nat BY <1>1
  <1>3. QED BY <1>1, <1>2, MandateAssumption, BoundAssumption DEF MandateAssumption, BoundAssumption

-----------------------------------------------------------------------------
(* The price. *)

LEMMA Division ==
  ASSUME NEW a \in Nat, NEW b \in Nat \ {0}
  PROVE  a \div b \in Nat /\ b * (a \div b) =< a /\ a < b * (a \div b) + b
  OBVIOUS

LEMMA NetIsLess ==
  ASSUME NEW a \in Nat, NEW kept \in Nat, NEW base \in Nat \ {0}, kept =< base
  PROVE  (a * kept) \div base \in Nat /\ (a * kept) \div base =< a
  <1> DEFINE q == (a * kept) \div base
  <1>1. a * kept \in Nat /\ a * kept =< a * base BY SMT
  <1>2. q \in Nat /\ base * q =< a * kept BY <1>1, Division
  <1> HIDE DEF q
  <1>3. base * q =< base * a BY <1>1, <1>2
  <1>4. q =< a
    <2>1. SUFFICES ASSUME q >= a + 1 PROVE FALSE BY <1>2
    <2>2. base * q >= base * (a + 1) BY <1>2, <2>1
    <2>3. QED BY <1>2, <1>3, <2>2
  <1>5. QED BY <1>2, <1>4 DEF q

\* The pure arithmetic of the curve.
LEMMA CurveHolds ==
  ASSUME NEW bi \in Nat \ {0}, NEW bo \in Nat, NEW net \in Nat, NEW out \in Nat,
         (bi + net) * out =< net * bo,
         NEW li \in Nat, NEW lo \in Nat, li >= bi + net, lo >= bo - out
  PROVE  li * lo >= bi * bo
  <1>1. (bi + net) * (bo - out) >= bi * bo
    <2>1. (bi + net) * (bo - out) = bi * bo + (net * bo - (bi + net) * out) BY SMT
    <2>2. net * bo \in Int /\ (bi + net) * out \in Int /\ bi * bo \in Int OBVIOUS
    <2>3. QED BY <2>1, <2>2
  <1>2. (bi + net) * lo >= (bi + net) * (bo - out)
    <2>1. bi + net \in Nat /\ bo - out \in Int OBVIOUS
    <2>2. \A c \in Nat, x, y \in Int : x >= y => c * x >= c * y BY SMT
    <2>3. QED BY <2>1, <2>2
  <1>3. li * lo >= (bi + net) * lo
    <2>1. \A c \in Nat, x, y \in Nat : x >= y => x * c >= y * c BY SMT
    <2>2. bi + net \in Nat OBVIOUS
    <2>3. QED BY <2>1, <2>2
  <1>4. li * lo \in Int /\ (bi + net) * lo \in Int /\ bi * bo \in Int
        /\ (bi + net) * (bo - out) \in Int
    OBVIOUS
  <1>5. QED BY <1>1, <1>2, <1>3, <1>4

LEMMA QuoteHolds ==
  ASSUME NEW m \in Mandates, NEW bi \in Nat \ {0}, NEW bo \in Nat, NEW a \in Nat
  PROVE  /\ Quote(m, bi, bo, a) \in Nat
         /\ \A li, lo \in Nat : li >= bi + a /\ lo >= bo - Quote(m, bi, bo, a) => li * lo >= bi * bo
  <1> DEFINE net == (a * (BPS_BASE - Fee[m])) \div BPS_BASE
             out == (net * bo) \div (bi + net)
  <1>1. net \in Nat /\ net =< a
    <2>1. BPS_BASE - Fee[m] \in Nat /\ BPS_BASE - Fee[m] =< BPS_BASE BY Bounds
    <2>2. QED BY <2>1, Bounds, NetIsLess
  <1>2. Quote(m, bi, bo, a) = out BY DEF Quote
  <1> HIDE DEF net
  <1>3. net * bo \in Nat /\ bi + net \in Nat \ {0} BY <1>1
  <1>4. out \in Nat /\ (bi + net) * out =< net * bo BY <1>3, Division
  <1> HIDE DEF out
  <1>5. ASSUME NEW li \in Nat, NEW lo \in Nat, li >= bi + a, lo >= bo - out
        PROVE  li * lo >= bi * bo
    <2>1. li >= bi + net BY <1>1, <1>5
    <2>2. QED BY <1>1, <1>4, <1>5, <2>1, CurveHolds
  <1>6. QED BY <1>2, <1>4, <1>5
-----------------------------------------------------------------------------
(* What is kept. *)

Ledgers == [Mandates -> [Tokens -> Nat]]
Budgets == [Mandates -> [Venues -> [Tokens -> Nat]]]
Holdings == [Venues -> [Tokens -> Nat]]
Purses == [Tokens -> Nat]
Levels == [SharePriced -> [Tokens -> Prices]]
Gains == [Tokens -> Int]

Saved == [ledger : Ledgers, budget : Budgets, docked : SUBSET Mandates, wallet : Purses,
          shares : Holdings, held : Holdings, liquidity : Holdings, price : Levels, earned : Gains]
FrameType == [mandate : Mandates, out : Tokens, amountIn : Nat, amountOut : Nat,
              balanceIn : Nat, venue : Venues \cup {NoVenue}, deficit : Nat, cost : Nat,
              beforePull : Nat, saved : Saved]

\* A swap was quoted on a live mandate, on what is in its saved ledger.
Quoted(f) ==
    /\ f.mandate \notin f.saved.docked
    /\ f.balanceIn # 0
    /\ f.balanceIn = f.saved.ledger[f.mandate][Other(f.out)]
    /\ f.amountOut = Quote(f.mandate, f.balanceIn, f.saved.ledger[f.mandate][f.out], f.amountIn)
Frames == {f \in FrameType : Quoted(f)}

Typed ==
    /\ ledger \in Ledgers /\ budget \in Budgets /\ docked \in SUBSET Mandates
    /\ wallet \in Purses /\ shares \in Holdings /\ held \in Holdings /\ liquidity \in Holdings
    /\ price \in Levels /\ earned \in Gains
Counted == indebted \in SUBSET Venues /\ now \in 0..MaxTime /\ entries \in 0..MaxEntries

\* What an open swap has taken out of its mandate by now, and no more.
Ahead(l, f) ==
    /\ l[f.mandate][Other(f.out)] >= f.balanceIn
    /\ l[f.mandate][f.out] >= f.saved.ledger[f.mandate][f.out] - f.amountOut
    /\ Unwinding(f) => l[f.mandate][f.out] >= f.saved.ledger[f.mandate][f.out]

\* With the first k swaps open, a ledger is behind what was committed only where
\* one of them is.
Sound(l, d, fs, k, base) ==
    \A m \in Mandates \ d :
        /\ \A j \in 1..k : fs[j].mandate = m => Ahead(l, fs[j])
        /\ (\A j \in 1..k : fs[j].mandate # m) => Product(l, m) >= Product(base, m)

Base == IF Idle THEN ledger ELSE frames[1].saved.ledger

Distinct(fs) == \A i, j \in 1..Len(fs) : i # j => fs[i].mandate # fs[j].mandate

Stacked ==
    /\ frames \in Seq(Frames) /\ Len(frames) =< MaxDepth
    /\ Distinct(frames)

SwapInv ==
    /\ Typed /\ Counted /\ Stacked
    /\ \A i \in 1..Len(frames) :
          Sound(frames[i].saved.ledger, frames[i].saved.docked, frames, i - 1, Base)
    /\ Sound(ledger, docked, frames, Len(frames), Base)

Kept == \A m \in Mandates \ Committed'.docked :
          Product(Committed'.ledger, m) >= Product(Committed.ledger, m)

-----------------------------------------------------------------------------
(* Products. *)

LEMMA ProductIs ==
  ASSUME NEW l \in Ledgers, NEW m \in Mandates, NEW t \in Tokens
  PROVE  Product(l, m) = l[m][t] * l[m][Other(t)] /\ Product(l, m) \in Nat
  <1> DEFINE c == CHOOSE x \in Tokens : TRUE
  <1>1. c \in Tokens BY TwoTokens
  <1>2. Product(l, m) = l[m][c] * l[m][Other(c)] BY DEF Product
  <1> HIDE DEF c
  <1>3. l[m][t] \in Nat /\ l[m][Other(t)] \in Nat BY TwoTokens DEF Ledgers
  <1>4. c = t \/ (c = Other(t) /\ Other(c) = t) BY <1>1, TwoTokens
  <1>5. \A x, y \in Nat : x * y = y * x /\ x * y \in Nat BY SMT
  <1>6. CASE c = t BY <1>2, <1>3, <1>5, <1>6
  <1>7. CASE c = Other(t) /\ Other(c) = t BY <1>2, <1>3, <1>5, <1>7
  <1>8. QED BY <1>4, <1>6, <1>7

LEMMA ProductGrows ==
  ASSUME NEW l \in Ledgers, NEW k \in Ledgers, NEW m \in Mandates, \A t \in Tokens : k[m][t] >= l[m][t]
  PROVE  Product(k, m) >= Product(l, m)
  <1>1. PICK t \in Tokens : TRUE BY TwoTokens
  <1>2. Other(t) \in Tokens BY TwoTokens
  <1>3. /\ l[m][t] \in Nat /\ l[m][Other(t)] \in Nat
        /\ k[m][t] \in Nat /\ k[m][Other(t)] \in Nat BY <1>2 DEF Ledgers
  <1>4. k[m][t] >= l[m][t] /\ k[m][Other(t)] >= l[m][Other(t)] BY <1>2
  <1>5. \A a, b, x, y \in Nat : x >= a /\ y >= b => x * y >= a * b
    <2>1. SUFFICES ASSUME NEW a \in Nat, NEW b \in Nat, NEW x \in Nat, NEW y \in Nat, x >= a, y >= b
                   PROVE  x * y >= a * b OBVIOUS
    <2>2. x * y >= x * b
      <3>1. \A c \in Nat, p, q \in Int : p >= q => c * p >= c * q BY SMT
      <3>2. QED BY <2>1, <3>1
    <2>3. x * b >= a * b
      <3>1. \A c \in Nat, p, q \in Nat : p >= q => p * c >= q * c BY SMT
      <3>2. QED BY <2>1, <3>1
    <2>4. x * y \in Nat /\ x * b \in Nat /\ a * b \in Nat BY SMT
    <2>5. QED BY <2>2, <2>3, <2>4
  <1>6. k[m][t] * k[m][Other(t)] >= l[m][t] * l[m][Other(t)] BY <1>3, <1>4, <1>5
  <1>7. QED BY <1>6, ProductIs

\* A push, a dock or a supply leaves a sound ledger sound.
LEMMA SoundCarries ==
  ASSUME NEW l \in Ledgers, NEW k \in Ledgers, NEW base \in Ledgers,
         NEW d, NEW e, d \subseteq e,
         NEW fs \in Seq(Frames), NEW n \in 0..Len(fs), Sound(l, d, fs, n, base),
         \A m \in Mandates \ e, t \in Tokens : k[m][t] >= l[m][t]
  PROVE  Sound(k, e, fs, n, base)
  <1>1. SUFFICES ASSUME NEW m \in Mandates \ e
                 PROVE  /\ \A j \in 1..n : fs[j].mandate = m => Ahead(k, fs[j])
                        /\ (\A j \in 1..n : fs[j].mandate # m) => Product(k, m) >= Product(base, m)
    BY DEF Sound
  <1>2. /\ \A j \in 1..n : fs[j].mandate = m => Ahead(l, fs[j])
        /\ (\A j \in 1..n : fs[j].mandate # m) => Product(l, m) >= Product(base, m)
    BY DEF Sound
  <1>3. \A t \in Tokens : k[m][t] >= l[m][t] /\ k[m][t] \in Nat /\ l[m][t] \in Nat BY DEF Ledgers
  <1>4. ASSUME NEW j \in 1..n, fs[j].mandate = m PROVE Ahead(k, fs[j])
    <2> DEFINE f == fs[j]
    <2>1. f \in FrameType BY ElementOfSeq, LenProperties DEF Frames
    <2>2. f.out \in Tokens /\ Other(f.out) \in Tokens /\ f.amountOut \in Nat /\ f.balanceIn \in Nat
          /\ f.saved.ledger \in Ledgers
      BY <2>1, TwoTokens DEF FrameType, Saved
    <2>3. f.saved.ledger[m][f.out] \in Nat BY SMTT(30), <2>2 DEF Ledgers
    <2>4. Ahead(l, f) /\ f.mandate = m BY <1>2, <1>4
    <2> HIDE DEF f
    <2>5. Ahead(k, f)
      <3>1. k[m][f.out] >= l[m][f.out] /\ k[m][Other(f.out)] >= l[m][Other(f.out)]
            /\ k[m][f.out] \in Nat /\ l[m][f.out] \in Nat
            /\ k[m][Other(f.out)] \in Nat /\ l[m][Other(f.out)] \in Nat
        BY <1>3, <2>2
      <3>2. l[m][Other(f.out)] >= f.balanceIn
            /\ l[m][f.out] >= f.saved.ledger[m][f.out] - f.amountOut
            /\ (Unwinding(f) => l[m][f.out] >= f.saved.ledger[m][f.out])
        BY <2>4 DEF Ahead
      <3>3. k[m][Other(f.out)] >= f.balanceIn BY <3>1, <3>2, <2>2
      <3>4. k[m][f.out] >= f.saved.ledger[m][f.out] - f.amountOut BY <3>1, <3>2, <2>2, <2>3
      <3>5. Unwinding(f) => k[m][f.out] >= f.saved.ledger[m][f.out] BY <3>1, <3>2, <2>3
      <3>6. QED BY <2>4, <3>3, <3>4, <3>5 DEF Ahead
    <2>6. QED BY <2>5 DEF f
  <1>5. Product(k, m) >= Product(l, m) BY <1>3, ProductGrows
  <1>6. Product(k, m) \in Nat /\ Product(l, m) \in Nat /\ Product(base, m) \in Nat
    BY TwoTokens, ProductIs
  <1>7. QED BY <1>2, <1>4, <1>5, <1>6

\* Only the mandates and phases of the swaps further out matter.
LEMMA SoundLooksBelow ==
  ASSUME NEW l, NEW d, NEW fs, NEW gs, NEW n \in Nat, NEW base,
         Sound(l, d, fs, n, base), \A j \in 1..n : gs[j] = fs[j]
  PROVE  Sound(l, d, gs, n, base)
  BY DEF Sound
-----------------------------------------------------------------------------
(* The stack. *)

LEMMA StackFacts ==
  ASSUME SwapInv
  PROVE  /\ Len(frames) \in Nat /\ Len(frames) =< MaxDepth
         /\ \A i \in 1..Len(frames) : frames[i] \in Frames
         /\ Idle <=> Len(frames) = 0
         /\ ~Idle => Len(frames) \in 1..Len(frames) /\ 1 \in 1..Len(frames)
         /\ Base \in Ledgers
  <1>1. frames \in Seq(Frames) /\ Len(frames) =< MaxDepth BY DEF SwapInv, Stacked
  <1>2. Len(frames) \in Nat /\ \A i \in 1..Len(frames) : frames[i] \in Frames
    BY <1>1, LenProperties, ElementOfSeq
  <1>3. Idle <=> Len(frames) = 0 BY <1>1, EmptySeq DEF Idle
  <1>4. ~Idle => Len(frames) \in 1..Len(frames) /\ 1 \in 1..Len(frames) BY <1>2, <1>3
  <1>5. Base \in Ledgers
    <2>1. CASE Idle BY <2>1 DEF Base, SwapInv, Typed
    <2>2. CASE ~Idle
      <3>1. frames[1] \in FrameType BY <1>2, <1>4, <2>2 DEF Frames
      <3>2. frames[1].saved.ledger \in Ledgers BY <3>1 DEF FrameType, Saved
      <3>3. QED BY <2>2, <3>2 DEF Base
    <2>3. QED BY <2>1, <2>2
  <1>6. QED BY <1>1, <1>2, <1>3, <1>4, <1>5

LEMMA CommittedIs == Committed.ledger = Base
  BY DEF Committed, Base, Snapshot

LEMMA Steady ==
  ASSUME NEW l \in Ledgers, NEW d, NEW fs
  PROVE  Sound(l, d, fs, 0, l)
  <1>1. \A m \in Mandates : Product(l, m) \in Nat BY TwoTokens, ProductIs
  <1>2. \A m \in Mandates : Product(l, m) >= Product(l, m) BY <1>1
  <1>3. QED BY <1>2 DEF Sound

\* A step that opens and closes no swap, and takes nothing out of a live mandate.
LEMMA Beside ==
  ASSUME SwapInv, Typed', Counted', frames' = frames, docked \subseteq docked',
         \A m \in Mandates \ docked', t \in Tokens : ledger'[m][t] >= ledger[m][t]
  PROVE  SwapInv' /\ Kept
  <1>1. Stacked' BY DEF SwapInv, Stacked, Distinct
  <1>2. ledger \in Ledgers /\ ledger' \in Ledgers BY DEF SwapInv, Typed
  <1>3. CASE Idle
    <2>1. Len(frames) = 0 /\ Idle' BY <1>3, StackFacts DEF Idle
    <2>2. Base' = ledger' /\ Base = ledger BY <1>3, <2>1 DEF Base
    <2>3. Sound(ledger', docked', frames', 0, ledger') BY <1>2, Steady
    <2>4. 1..Len(frames') = {} /\ Len(frames') = 0 BY <2>1
    <2>5. SwapInv' BY <1>1, <2>2, <2>3, <2>4 DEF SwapInv
    <2>6. Committed'.ledger = ledger' /\ Committed.ledger = ledger /\ Committed'.docked = docked'
      BY <1>3, <2>1 DEF Committed, Snapshot
    <2>7. Kept BY <1>2, <2>6, ProductGrows DEF Kept
    <2>8. QED BY <2>5, <2>7
  <1>4. CASE ~Idle
    <2>1. Base' = Base /\ Committed' = Committed BY <1>4 DEF Base, Committed, Idle
    <2>2. Base \in Ledgers /\ Len(frames) \in 0..Len(frames) BY StackFacts
    <2>3. Sound(ledger', docked', frames, Len(frames), Base)
      <3>1. Sound(ledger, docked, frames, Len(frames), Base) /\ frames \in Seq(Frames)
        BY DEF SwapInv, Stacked
      <3>2. QED BY <1>2, <2>2, <3>1, SoundCarries
    <2>4. \A i \in 1..Len(frames) :
            Sound(frames[i].saved.ledger, frames[i].saved.docked, frames, i - 1, Base)
      BY DEF SwapInv
    <2>5. SwapInv' BY <1>1, <2>1, <2>3, <2>4 DEF SwapInv
    <2>6. \A m \in Mandates : Product(Base, m) \in Nat BY <2>2, TwoTokens, ProductIs
    <2>7. Kept BY <2>1, <2>6, CommittedIs DEF Kept
    <2>8. QED BY <2>5, <2>7
  <1>5. QED BY <1>3, <1>4

\* A swap begins: what it saves is what there is, and it has taken no more than
\* it may.
LEMMA Opens ==
  ASSUME SwapInv, Typed', Counted', NEW f \in Frames, frames' = Append(frames, f),
         Len(frames) < MaxDepth, ~Locked(f.mandate),
         f.saved = Snapshot, docked' = docked, Ahead(ledger', f),
         \A m \in Mandates : m # f.mandate => ledger'[m] = ledger[m]
  PROVE  SwapInv' /\ Kept
  <1> DEFINE n == Len(frames)
  <1>1. frames \in Seq(Frames) /\ Distinct(frames) BY DEF SwapInv, Stacked
  <1>2. n \in Nat /\ n =< MaxDepth /\ Base \in Ledgers BY StackFacts
  <1>3. /\ frames' \in Seq(Frames) /\ Len(frames') = n + 1
        /\ \A i \in 1..n : frames'[i] = frames[i]
        /\ frames'[n + 1] = f
    BY <1>1, AppendProperties
  <1>4. \A i \in 1..n : frames[i].mandate # f.mandate
    BY <1>1, LenProperties DEF Locked
  <1> HIDE DEF n
  <1>5. \A i \in 1..(n + 1) : i \in 1..n \/ i = n + 1 BY <1>2
  <1>6. Stacked'
    <2>1. Distinct(frames')
      <3>1. SUFFICES ASSUME NEW i \in 1..(n + 1), NEW j \in 1..(n + 1), i # j
                     PROVE  frames'[i].mandate # frames'[j].mandate
        BY <1>3 DEF Distinct
      <3>2. CASE i \in 1..n /\ j \in 1..n BY <1>1, <1>3, <3>1, <3>2 DEF Distinct, n
      <3>3. CASE i = n + 1 \/ j = n + 1 BY <1>3, <1>4, <1>5, <3>1, <3>3
      <3>4. QED BY <1>5, <3>2, <3>3
    <2>2. Len(frames') =< MaxDepth
      <3>1. MaxDepth \in Nat /\ n < MaxDepth BY Bounds DEF n
      <3>2. QED BY <1>2, <1>3, <3>1
    <2>3. QED BY <1>3, <2>1, <2>2 DEF Stacked
  <1>7. Base' = Base /\ Committed'.ledger = Base
    <2>1. frames' # <<>> BY <1>2, <1>3, EmptySeq
    <2>2. Base' = frames'[1].saved.ledger /\ Committed'.ledger = frames'[1].saved.ledger
      BY <2>1 DEF Base, Committed, Idle
    <2>3. CASE Idle
      <3>1. n = 0 BY <2>3, StackFacts DEF n
      <3>2. frames'[1] = f BY <1>3, <3>1
      <3>3. Base = ledger /\ f.saved.ledger = ledger BY <2>3 DEF Base, Snapshot
      <3>4. QED BY <2>2, <3>2, <3>3
    <2>4. CASE ~Idle
      <3>1. 1 \in 1..n BY <2>4, StackFacts DEF n
      <3>2. frames'[1] = frames[1] BY <1>3, <3>1
      <3>3. QED BY <2>2, <2>4, <3>2 DEF Base
    <2>5. QED BY <2>3, <2>4
  <1>8. Sound(ledger, docked, frames, n, Base) BY DEF SwapInv, n
  <1>9. \A i \in 1..(n + 1) :
          Sound(frames'[i].saved.ledger, frames'[i].saved.docked, frames', i - 1, Base)
    <2>1. SUFFICES ASSUME NEW i \in 1..(n + 1)
                   PROVE  Sound(frames'[i].saved.ledger, frames'[i].saved.docked, frames', i - 1, Base)
      OBVIOUS
    <2>2. i - 1 \in Nat /\ \A j \in 1..(i - 1) : frames'[j] = frames[j] BY <1>2, <1>3
    <2>3. CASE i \in 1..n
      <3>1. Sound(frames[i].saved.ledger, frames[i].saved.docked, frames, i - 1, Base)
        BY <2>3 DEF SwapInv, n
      <3>2. QED BY <1>3, <2>2, <2>3, <3>1, SoundLooksBelow
    <2>4. CASE i = n + 1
      <3>1. frames'[i].saved.ledger = ledger /\ frames'[i].saved.docked = docked /\ i - 1 = n
        BY <1>2, <1>3, <2>4 DEF Snapshot
      <3>2. QED BY <1>8, <2>2, <3>1, SoundLooksBelow
    <2>5. QED BY <1>5, <2>3, <2>4
  <1>10. Sound(ledger', docked', frames', n + 1, Base)
    <2>1. SUFFICES ASSUME NEW m \in Mandates \ docked
                   PROVE  /\ \A j \in 1..(n + 1) : frames'[j].mandate = m => Ahead(ledger', frames'[j])
                          /\ (\A j \in 1..(n + 1) : frames'[j].mandate # m)
                               => Product(ledger', m) >= Product(Base, m)
      BY DEF Sound
    <2>2. /\ \A j \in 1..n : frames[j].mandate = m => Ahead(ledger, frames[j])
          /\ (\A j \in 1..n : frames[j].mandate # m) => Product(ledger, m) >= Product(Base, m)
      BY <1>8 DEF Sound
    <2>3. ASSUME NEW j \in 1..(n + 1), frames'[j].mandate = m PROVE Ahead(ledger', frames'[j])
      <3>1. CASE j \in 1..n
        <4>1. frames'[j] = frames[j] /\ frames[j].mandate = m BY <1>3, <2>3, <3>1
        <4>2. ledger'[m] = ledger[m] BY <1>4, <3>1, <4>1
        <4>3. Ahead(ledger, frames[j]) BY <2>2, <3>1, <4>1
        <4>4. QED BY <4>1, <4>2, <4>3 DEF Ahead
      <3>2. CASE j = n + 1 BY <1>3, <3>2
      <3>3. QED BY <1>5, <3>1, <3>2
    <2>4. ASSUME \A j \in 1..(n + 1) : frames'[j].mandate # m
          PROVE  Product(ledger', m) >= Product(Base, m)
      <3>1. n + 1 \in 1..(n + 1) /\ \A j \in 1..n : j \in 1..(n + 1) BY <1>2
      <3>2. \A j \in 1..n : frames[j].mandate # m BY <1>3, <2>4, <3>1
      <3>3. m # f.mandate BY <1>3, <2>4, <3>1
      <3>4. Product(ledger', m) = Product(ledger, m) BY <3>3 DEF Product
      <3>5. QED BY <2>2, <3>2, <3>4
    <2>5. QED BY <2>3, <2>4
  <1>11. SwapInv' BY <1>3, <1>6, <1>7, <1>9, <1>10 DEF SwapInv
  <1>12. \A m \in Mandates : Product(Base, m) \in Nat BY <1>2, TwoTokens, ProductIs
  <1>13. Kept BY <1>7, <1>12, CommittedIs DEF Kept
  <1>14. QED BY <1>11, <1>13

LEMMA PopIs ==
  ASSUME SwapInv, ~Idle, frames' = Pop
  PROVE  /\ frames' \in Seq(Frames) /\ Len(frames') = Len(frames) - 1
         /\ \A i \in 1..(Len(frames) - 1) : frames'[i] = frames[i]
  <1> DEFINE n == Len(frames)
  <1>1. frames \in Seq(Frames) BY DEF SwapInv, Stacked
  <1>2. n \in Nat /\ n # 0 BY StackFacts
  <1>3. \A i \in 1..(n - 1) : frames[i] \in Frames BY <1>1, <1>2, ElementOfSeq
  <1>4. frames' = SubSeq(frames, 1, n - 1) BY DEF Pop
  <1> HIDE DEF n
  <1>5. n - 1 \in Int /\ 1 \in Int BY <1>2
  <1>6. /\ SubSeq(frames, 1, n - 1) \in Seq(Frames)
        /\ Len(SubSeq(frames, 1, n - 1)) = IF 1 <= n - 1 THEN (n - 1) - 1 + 1 ELSE 0
        /\ \A i \in 1..((n - 1) - 1 + 1) : SubSeq(frames, 1, n - 1)[i] = frames[1 + i - 1]
    BY <1>3, <1>5, SubSeqProperties
  <1>7. (n - 1) - 1 + 1 = n - 1 /\ \A i \in 1..(n - 1) : 1 + i - 1 = i BY <1>2
  <1>8. /\ frames' \in Seq(Frames) /\ Len(frames') = n - 1
        /\ \A i \in 1..(n - 1) : frames'[i] = frames[i]
    BY <1>2, <1>4, <1>6, <1>7
  <1>9. QED BY <1>8 DEF n

\* A swap ends, settled or failed, and leaves what is sound without it.
LEMMA Closes ==
  ASSUME SwapInv, Typed', Counted', ~Idle, frames' = Pop,
         Sound(ledger', docked', frames, Len(frames) - 1, Base)
  PROVE  SwapInv' /\ Kept
  <1> DEFINE n == Len(frames)
  <1>1. frames \in Seq(Frames) /\ Distinct(frames) BY DEF SwapInv, Stacked
  <1>2. n \in Nat /\ n # 0 /\ n =< MaxDepth /\ Base \in Ledgers BY StackFacts
  <1>3. /\ frames' \in Seq(Frames) /\ Len(frames') = n - 1
        /\ \A i \in 1..(n - 1) : frames'[i] = frames[i]
    BY PopIs
  <1> HIDE DEF n
  <1>4. \A i \in 1..(n - 1) : i \in 1..n BY <1>2
  <1>5. Stacked'
    <2>1. Distinct(frames') BY <1>1, <1>3, <1>4 DEF Distinct, n
    <2>2. Len(frames') =< MaxDepth BY <1>2, <1>3, Bounds
    <2>3. QED BY <1>3, <2>1, <2>2 DEF Stacked
  <1>6. \A i \in 1..(n - 1) :
          Sound(frames'[i].saved.ledger, frames'[i].saved.docked, frames', i - 1, Base)
    <2>1. SUFFICES ASSUME NEW i \in 1..(n - 1)
                   PROVE  Sound(frames'[i].saved.ledger, frames'[i].saved.docked, frames', i - 1, Base)
      OBVIOUS
    <2>2. i - 1 \in Nat /\ \A j \in 1..(i - 1) : frames'[j] = frames[j] BY <1>2, <1>3
    <2>3. Sound(frames[i].saved.ledger, frames[i].saved.docked, frames, i - 1, Base)
      BY <1>4 DEF SwapInv, n
    <2>4. QED BY <1>3, <2>2, <2>3, SoundLooksBelow
  <1>7. Sound(ledger', docked', frames', n - 1, Base)
    <2>1. n - 1 \in Nat BY <1>2
    <2>2. Sound(ledger', docked', frames, n - 1, Base) BY DEF n
    <2>3. QED BY <1>3, <2>1, <2>2, SoundLooksBelow
  <1>8. ledger' \in Ledgers BY DEF Typed
  <1>9. CASE n = 1
    <2>1. Len(frames') = 0 BY <1>3, <1>9
    <2>2. Idle' BY <1>3, <2>1, EmptySeq DEF Idle
    <2>3. Base' = ledger' /\ Committed'.ledger = ledger' /\ Committed'.docked = docked'
      BY <2>2 DEF Base, Committed, Snapshot
    <2>4. Sound(ledger', docked', frames', 0, ledger') BY <1>8, Steady
    <2>5. 1..Len(frames') = {} BY <2>1
    <2>6. SwapInv' BY <1>5, <2>1, <2>3, <2>4, <2>5 DEF SwapInv
    <2>7. 1..(n - 1) = {} BY <1>9
    <2>8. \A m \in Mandates \ docked' : Product(ledger', m) >= Product(Base, m)
      BY <1>7, <2>7 DEF Sound
    <2>9. Kept BY <2>3, <2>8, CommittedIs DEF Kept
    <2>10. QED BY <2>6, <2>9
  <1>10. CASE n # 1
    <2>1. 1 \in 1..(n - 1) /\ Len(frames') # 0 BY <1>2, <1>3, <1>10
    <2>2. frames' # <<>> BY <1>3, <2>1, EmptySeq
    <2>3. frames'[1] = frames[1] BY <1>3, <2>1
    <2>4. Base' = Base /\ Committed'.ledger = Base
      BY <2>2, <2>3 DEF Base, Committed, Idle
    <2>5. SwapInv' BY <1>3, <1>5, <1>6, <1>7, <2>4 DEF SwapInv
    <2>6. \A m \in Mandates : Product(Base, m) \in Nat BY <1>2, TwoTokens, ProductIs
    <2>7. Kept BY <2>4, <2>6, CommittedIs DEF Kept
    <2>8. QED BY <2>5, <2>7
  <1>11. QED BY <1>9, <1>10
-----------------------------------------------------------------------------
(* One action at a time. *)

LEMMA SetTwice ==
  ASSUME NEW S, NEW T, NEW g \in [S -> [T -> Nat]], NEW s \in S, NEW t \in T, NEW n \in Nat
  PROVE  /\ [g EXCEPT ![s][t] = n] \in [S -> [T -> Nat]]
         /\ [g EXCEPT ![s][t] = n][s][t] = n
         /\ \A u \in T : u # t => [g EXCEPT ![s][t] = n][s][u] = g[s][u]
         /\ \A r \in S : r # s => [g EXCEPT ![s][t] = n][r] = g[r]
  OBVIOUS

LEMMA SetThrice ==
  ASSUME NEW S, NEW T, NEW U, NEW g \in [S -> [T -> [U -> Nat]]],
         NEW s \in S, NEW t \in T, NEW u \in U, NEW n \in Nat
  PROVE  [g EXCEPT ![s][t][u] = n] \in [S -> [T -> [U -> Nat]]]
  <1>1. [g[s] EXCEPT ![t][u] = n] \in [T -> [U -> Nat]] BY SetTwice
  <1>2. [g EXCEPT ![s][t][u] = n] = [g EXCEPT ![s] = [g[s] EXCEPT ![t][u] = n]] OBVIOUS
  <1>3. QED BY <1>1, <1>2

LEMMA FrameIsTyped ==
  ASSUME Typed, NEW m \in Mandates, NEW t \in Tokens, NEW a \in Nat, NEW out \in Nat,
         NEW v \in Venues \cup {NoVenue}, NEW deficit \in Nat, NEW cost \in Nat,
         m \notin docked, ledger[m][Other(t)] # 0,
         out = Quote(m, ledger[m][Other(t)], ledger[m][t], a)
  PROVE  /\ Frame(m, t, a, out, v, deficit, cost) \in Frames
         /\ Frame(m, t, a, out, v, deficit, cost).mandate = m
         /\ Frame(m, t, a, out, v, deficit, cost).out = t
         /\ Frame(m, t, a, out, v, deficit, cost).amountOut = out
         /\ Frame(m, t, a, out, v, deficit, cost).balanceIn = ledger[m][Other(t)]
         /\ Frame(m, t, a, out, v, deficit, cost).venue = v
         /\ Frame(m, t, a, out, v, deficit, cost).cost = cost
         /\ Frame(m, t, a, out, v, deficit, cost).beforePull = IF v = NoVenue THEN 0 ELSE held[v][t]
         /\ Frame(m, t, a, out, v, deficit, cost).saved = Snapshot
  <1> DEFINE before == IF v = NoVenue THEN 0 ELSE held[v][t]
             f == Frame(m, t, a, out, v, deficit, cost)
  <1>1. before \in Nat
    <2>1. CASE v = NoVenue BY <2>1
    <2>2. CASE v # NoVenue
      <3>1. held[v][t] \in Nat BY <2>2 DEF Typed, Holdings
      <3>2. QED BY <2>2, <3>1
    <2>3. QED BY <2>1, <2>2
  <1>2. ledger[m][Other(t)] \in Nat BY TwoTokens DEF Typed, Ledgers
  <1>3. Snapshot \in Saved BY DEF Snapshot, Saved, Typed
  <1>4. f = [mandate |-> m, out |-> t, amountIn |-> a, amountOut |-> out,
             balanceIn |-> ledger[m][Other(t)], venue |-> v, deficit |-> deficit,
             cost |-> cost, beforePull |-> before, saved |-> Snapshot]
    BY DEF Frame
  <1> HIDE DEF before, f
  <1>5. /\ f.mandate = m /\ f.out = t /\ f.amountOut = out /\ f.amountIn = a
        /\ f.balanceIn = ledger[m][Other(t)] /\ f.venue = v /\ f.saved = Snapshot
        /\ f.cost = cost /\ f.beforePull = before
    BY <1>4
  <1>6. f \in FrameType BY <1>1, <1>2, <1>3, <1>4 DEF FrameType
  <1>7. f.saved.ledger = ledger /\ f.saved.docked = docked BY <1>5 DEF Snapshot
  <1>8. Quoted(f) BY <1>5, <1>7 DEF Quoted
  <1>9. f \in Frames BY <1>6, <1>8 DEF Frames
  <1>10. QED BY <1>5, <1>9 DEF f, before

\* What a receipt is worth, and what one conversion may leave to the market.
LEMMA PriceIs ==
  ASSUME NEW q \in Levels, NEW v \in Venues, NEW t \in Tokens
  PROVE  PriceAt(q, v, t) \in Nat \ {0}
  <1>1. CASE v \in SharePriced
    <2>1. q[v][t] \in Prices BY <1>1 DEF Levels
    <2>2. QED BY <1>1, <2>1, Bounds DEF PriceAt
  <1>2. CASE v \notin SharePriced BY <1>2, Bounds DEF PriceAt
  <1>3. QED BY <1>1, <1>2

LEMMA SharesAreWorth ==
  ASSUME Typed, NEW v \in Venues, NEW t \in Tokens, NEW x \in Nat
  PROVE  /\ SharesFor(v, t, x) \in Nat /\ Minted(v, t, x) \in Nat /\ Rounding(v, t) \in Nat
         /\ SharesFor(v, t, x) * PriceAt(price, v, t) =< Par * x + Rounding(v, t)
         /\ Minted(v, t, x) * PriceAt(price, v, t) >= Par * x - Rounding(v, t)
  <1>1. Par \in Nat /\ \A a, b \in Nat : a * b = b * a /\ a * b \in Nat BY Bounds
  <1>2. CASE v \in SharePriced
    <2>1. price[v][t] \in Nat \ {0}
      <3>1. price[v][t] \in Prices BY <1>2 DEF Typed, Levels
      <3>2. QED BY <3>1, Bounds
    <2>2. PICK q \in Nat \ {0} : q = price[v][t] BY <2>1
    <2>3. PICK y \in Nat : y = x * Par /\ y = Par * x BY <1>1
    <2>4. /\ SharesFor(v, t, x) = (y + q - 1) \div q /\ Minted(v, t, x) = y \div q
          /\ Rounding(v, t) = q - 1 /\ PriceAt(price, v, t) = q
      BY <1>2, <2>2, <2>3 DEF SharesFor, Minted, Rounding, PriceAt
    <2>5. y + q - 1 \in Nat /\ q - 1 \in Nat OBVIOUS
    <2>6. (y + q - 1) \div q \in Nat /\ q * ((y + q - 1) \div q) =< y + q - 1 BY <2>5, Division
    <2>7. y \div q \in Nat /\ y < q * (y \div q) + q BY Division
    <2>8. PICK a \in Nat, b \in Nat : a = (y + q - 1) \div q /\ b = y \div q BY <2>6, <2>7
    <2>9. q * a =< y + q - 1 /\ y < q * b + q BY <2>6, <2>7, <2>8
    <2>10. PICK c \in Nat, d \in Nat : c = q * a /\ d = q * b /\ c = a * q /\ d = b * q BY <1>1
    <2>11. c =< y + (q - 1) /\ d >= y - (q - 1) BY <2>9, <2>10
    <2>12. QED BY <2>3, <2>4, <2>5, <2>8, <2>10, <2>11
  <1>3. CASE v \notin SharePriced
    <2>1. /\ SharesFor(v, t, x) = x /\ Minted(v, t, x) = x /\ Rounding(v, t) = 0
          /\ PriceAt(price, v, t) = Par
      BY <1>3 DEF SharesFor, Minted, Rounding, PriceAt
    <2>2. PICK y \in Nat : y = x * Par /\ y = Par * x BY <1>1
    <2>3. QED BY <2>1, <2>2
  <1>4. QED BY <1>2, <1>3

LEMMA ConvertsIs ==
  ASSUME Typed, NEW v \in Venues, NEW t \in Tokens, Converts(v, t)
  PROVE  /\ earned' \in Gains
         /\ \A u \in Tokens : earned'[u] = earned[u] - (IF u = t THEN Rounding(v, t) ELSE 0)
  <1>1. PICK n \in Nat : n = Rounding(v, t) BY SharesAreWorth
  <1>2. earned \in [Tokens -> Int] BY DEF Typed, Gains
  <1>3. earned' = [earned EXCEPT ![t] = earned[t] - n] BY <1>1 DEF Converts
  <1>4. earned[t] - n \in Int BY <1>2
  <1>5. \A u \in Tokens : earned[u] \in Int BY <1>2
  <1>6. QED BY <1>1, <1>2, <1>3, <1>4, <1>5 DEF Gains

LEMMA VenueForPays ==
  ASSUME NEW m \in Mandates, NEW t, NEW deficit, NEW v \in VenueFor(m, t, deficit)
  PROVE  v \in Venues /\ CanPay(m, v, t, deficit)
  <1> DEFINE list == VenuesOf[m]
             able == {i \in DOMAIN list : CanPay(m, list[i], t, deficit)}
  <1>1. able # {} /\ v = list[Min(able)] BY DEF VenueFor
  <1>2. list \in Seq(Venues) BY Bounds
  <1>3. DOMAIN list \subseteq Nat /\ \A i \in DOMAIN list : list[i] \in Venues
    BY <1>2, LenProperties, SeqDef
  <1>4. \E i \in able : \A j \in able : i =< j
    <2>1. able \in SUBSET Nat BY <1>3
    <2> HIDE DEF able
    <2>2. QED BY <1>1, <2>1, LeastOf
  <1>5. Min(able) \in able
    <2> HIDE DEF able
    <2>1. QED BY <1>4 DEF Min
  <1>6. QED BY <1>1, <1>3, <1>5

LEMMA SwapTypes ==
  ASSUME SwapInv, NEW m \in Mandates, NEW t \in Tokens, NEW x \in Amounts, Tradable(m)
  PROVE  /\ m \notin docked /\ x \in Nat
         /\ ledger[m][t] \in Nat /\ ledger[m][Other(t)] \in Nat \ {0}
         /\ Quote(m, ledger[m][Other(t)], ledger[m][t], x) \in Nat
         /\ wallet[t] \in Nat
  <1>1. Typed /\ x \in Nat BY Bounds DEF SwapInv
  <1>2. Other(t) \in Tokens BY TwoTokens
  <1>3. ledger[m][t] \in Nat /\ ledger[m][Other(t)] \in Nat /\ wallet[t] \in Nat
    BY <1>1, <1>2 DEF Typed, Ledgers, Purses
  <1>4. ledger[m][Other(t)] > 0 /\ m \notin docked BY <1>2 DEF Tradable
  <1>5. ledger[m][Other(t)] \in Nat \ {0} BY <1>3, <1>4
  <1>6. QED BY <1>1, <1>3, <1>4, <1>5, QuoteHolds

LEMMA SwapFromWalletKeeps ==
  ASSUME SwapInv, Counted', NEW m \in Mandates, NEW t \in Tokens, NEW x \in Amounts, NEW out \in Nat,
         out = Quote(m, ledger[m][Other(t)], ledger[m][t], x),
         CanEnter, ~Locked(m), Tradable(m), SwapFromWallet(m, t, x, out)
  PROVE  SwapInv' /\ Kept
  <1> DEFINE f == Frame(m, t, x, out, NoVenue, 0, 0)
  <1>1. Typed BY DEF SwapInv
  <1>2. /\ m \notin docked /\ x \in Nat
        /\ ledger[m][t] \in Nat /\ ledger[m][Other(t)] \in Nat \ {0} /\ wallet[t] \in Nat
    BY SwapTypes
  <1>3. /\ f \in Frames /\ f.mandate = m /\ f.out = t /\ f.amountOut = out
        /\ f.balanceIn = ledger[m][Other(t)] /\ f.venue = NoVenue /\ f.saved = Snapshot
    BY <1>1, <1>2, FrameIsTyped
  <1>4. /\ wallet[t] >= out /\ ledger[m][t] >= out
        /\ ledger' = [ledger EXCEPT ![m][t] = ledger[m][t] - out]
        /\ wallet' = [wallet EXCEPT ![t] = wallet[t] - out]
        /\ frames' = Append(frames, f)
        /\ UNCHANGED <<budget, docked, shares, held, liquidity, price, earned>>
    BY DEF SwapFromWallet, PullOut, market
  <1>5. ledger[m][t] - out \in Nat /\ wallet[t] - out \in Nat BY <1>2, <1>4
  <1>6. /\ ledger' \in Ledgers /\ ledger'[m][t] = ledger[m][t] - out
        /\ ledger'[m][Other(t)] = ledger[m][Other(t)]
        /\ \A r \in Mandates : r # m => ledger'[r] = ledger[r]
    BY <1>1, <1>4, <1>5, SetTwice, TwoTokens DEF Typed, Ledgers
  <1>7. wallet' \in Purses BY <1>1, <1>4, <1>5 DEF Typed, Purses
  <1>8. Typed' BY <1>1, <1>4, <1>6, <1>7 DEF Typed
  <1> HIDE DEF f
  <1>9. Ahead(ledger', f)
    <2>1. f.saved.ledger = ledger BY <1>3 DEF Snapshot
    <2>2. ~Unwinding(f) BY <1>3 DEF Unwinding
    <2>3. ledger'[m][Other(t)] >= ledger[m][Other(t)] /\ ledger'[m][t] >= ledger[m][t] - out
      BY <1>2, <1>6
    <2>4. QED BY <1>3, <2>1, <2>2, <2>3 DEF Ahead
  <1>10. Len(frames) < MaxDepth BY DEF CanEnter
  <1>11. QED BY <1>3, <1>4, <1>6, <1>8, <1>9, <1>10, Opens

LEMMA SwapByUnwindingKeeps ==
  ASSUME SwapInv, Counted', NEW m \in Mandates, NEW t \in Tokens, NEW x \in Amounts, NEW out \in Nat,
         out = Quote(m, ledger[m][Other(t)], ledger[m][t], x),
         CanEnter, ~Locked(m), Tradable(m), SwapByUnwinding(m, t, x, out)
  PROVE  SwapInv' /\ Kept
  <1> DEFINE deficit == out - wallet[t]
  <1>1. Typed BY DEF SwapInv
  <1>2. /\ m \notin docked /\ x \in Nat
        /\ ledger[m][t] \in Nat /\ ledger[m][Other(t)] \in Nat \ {0} /\ wallet[t] \in Nat
    BY SwapTypes
  <1>3. /\ deficit > 0
        /\ \E v \in VenueFor(m, t, deficit) \ indebted :
              /\ frames' = Append(frames, Frame(m, t, x, out, v, deficit, SharesFor(v, t, deficit)))
              /\ budget' = [budget EXCEPT ![m][v][t] = budget[m][v][t] - SharesFor(v, t, deficit)]
              /\ shares' = [shares EXCEPT ![v][t] = shares[v][t] - SharesFor(v, t, deficit)]
              /\ held' = [held EXCEPT ![v][t] = held[v][t] + SharesFor(v, t, deficit)]
        /\ UNCHANGED <<ledger, docked, wallet, liquidity, price, earned>>
    BY DEF SwapByUnwinding
  <1>4. deficit \in Nat BY <1>2, <1>3
  <1> HIDE DEF deficit
  <1>5. PICK v \in VenueFor(m, t, deficit) :
              /\ frames' = Append(frames, Frame(m, t, x, out, v, deficit, SharesFor(v, t, deficit)))
              /\ budget' = [budget EXCEPT ![m][v][t] = budget[m][v][t] - SharesFor(v, t, deficit)]
              /\ shares' = [shares EXCEPT ![v][t] = shares[v][t] - SharesFor(v, t, deficit)]
              /\ held' = [held EXCEPT ![v][t] = held[v][t] + SharesFor(v, t, deficit)]
    BY <1>3
  <1> DEFINE cost == SharesFor(v, t, deficit)
  <1>6. v \in Venues /\ budget[m][v][t] >= cost /\ shares[v][t] >= cost /\ cost \in Nat
    <2>1. v \in Venues /\ CanPay(m, v, t, deficit) BY VenueForPays
    <2>2. QED BY <1>1, <1>4, <2>1, SharesAreWorth DEF CanPay
  <1> HIDE DEF cost
  <1> DEFINE f == Frame(m, t, x, out, v, deficit, cost)
  <1>7. /\ f \in Frames /\ f.mandate = m /\ f.out = t /\ f.amountOut = out
        /\ f.balanceIn = ledger[m][Other(t)] /\ f.saved = Snapshot
    BY <1>1, <1>2, <1>4, <1>6, FrameIsTyped
  <1>8. budget[m][v][t] \in Nat /\ shares[v][t] \in Nat /\ held[v][t] \in Nat
    BY <1>1, <1>6 DEF Typed, Budgets, Holdings
  <1>9. budget[m][v][t] - cost \in Nat /\ shares[v][t] - cost \in Nat /\ held[v][t] + cost \in Nat
    BY <1>6, <1>8
  <1>10. budget' \in Budgets
    <2>1. budget \in [Mandates -> [Venues -> [Tokens -> Nat]]] BY <1>1 DEF Typed, Budgets
    <2>2. \A n \in Nat : [budget EXCEPT ![m][v][t] = n] \in [Mandates -> [Venues -> [Tokens -> Nat]]]
      BY <1>6, <2>1, SetThrice
    <2>3. QED BY <1>5, <1>9, <2>2 DEF Budgets, cost
  <1>11. shares' \in Holdings /\ held' \in Holdings
    BY <1>1, <1>5, <1>6, <1>9, SetTwice DEF Typed, Holdings, cost
  <1>12. Typed' BY <1>1, <1>3, <1>10, <1>11 DEF Typed
  <1> HIDE DEF f
  <1>13. Ahead(ledger', f)
    <2>1. f.saved.ledger = ledger /\ ledger' = ledger BY <1>3, <1>7 DEF Snapshot
    <2>2. ledger[m][Other(t)] >= ledger[m][Other(t)] /\ ledger[m][t] >= ledger[m][t] - out
          /\ ledger[m][t] >= ledger[m][t]
      BY <1>2
    <2>3. QED BY <1>7, <2>1, <2>2 DEF Ahead
  <1>14. Len(frames) < MaxDepth BY DEF CanEnter
  <1>15. frames' = Append(frames, f) BY <1>5 DEF f, cost
  <1>16. QED BY <1>3, <1>7, <1>12, <1>13, <1>14, <1>15, Opens

LEMMA TopFacts ==
  ASSUME SwapInv, ~Idle
  PROVE  /\ Top \in Frames /\ Top \in FrameType
         /\ Top.mandate \in Mandates /\ Top.out \in Tokens /\ Other(Top.out) \in Tokens
         /\ Other(Top.out) # Top.out
         /\ Top.amountIn \in Nat /\ Top.amountOut \in Nat /\ Top.balanceIn \in Nat \ {0}
         /\ Top.deficit \in Nat /\ Top.cost \in Nat /\ Top.beforePull \in Nat
         /\ Top.saved \in Saved /\ Top.saved.ledger \in Ledgers
         /\ Top.venue \in Venues \cup {NoVenue}
  <1>1. Top \in Frames BY StackFacts DEF Top
  <1>2. Top \in FrameType /\ Quoted(Top) BY <1>1 DEF Frames
  <1> DEFINE f == Top
  <1> HIDE DEF f
  <1>3. f \in FrameType /\ Quoted(f) BY <1>2 DEF f
  <1>4. /\ f.mandate \in Mandates /\ f.out \in Tokens /\ f.amountIn \in Nat /\ f.amountOut \in Nat
        /\ f.balanceIn \in Nat /\ f.deficit \in Nat /\ f.cost \in Nat /\ f.beforePull \in Nat
        /\ f.saved \in Saved /\ f.venue \in Venues \cup {NoVenue}
    BY <1>3 DEF FrameType
  <1>5. f.saved.ledger \in Ledgers BY <1>4 DEF Saved
  <1>6. f.balanceIn # 0 BY <1>3 DEF Quoted
  <1>7. QED BY <1>1, <1>2, <1>4, <1>5, <1>6, TwoTokens DEF f

\* What the market burns for a swap that waits for it.
Burnt(f) == SharesFor(f.venue, f.out, f.deficit)

LEMMA MarketReturnsIs ==
  ASSUME MarketReturns
  PROVE  /\ ~Idle /\ Unwinding(Top) /\ liquidity[Top.venue][Top.out] >= Top.deficit
         /\ held[Top.venue][Top.out] - Burnt(Top) >= Top.beforePull
         /\ wallet[Top.out] + Top.deficit >= Top.amountOut /\ ledger[Top.mandate][Top.out] >= Top.amountOut
         /\ ledger' = [ledger EXCEPT ![Top.mandate][Top.out] = ledger[Top.mandate][Top.out] - Top.amountOut]
         /\ wallet' = [wallet EXCEPT ![Top.out] = (wallet[Top.out] + Top.deficit) - Top.amountOut]
         /\ liquidity' = [liquidity EXCEPT ![Top.venue][Top.out] = liquidity[Top.venue][Top.out] - Top.deficit]
         /\ shares' = [shares EXCEPT ![Top.venue][Top.out] = shares[Top.venue][Top.out]
                        + (held[Top.venue][Top.out] - Burnt(Top) - Top.beforePull)]
         /\ held' = [held EXCEPT ![Top.venue][Top.out] = Top.beforePull]
         /\ frames' = [frames EXCEPT ![Len(frames)].venue = NoVenue]
         /\ Converts(Top.venue, Top.out)
         /\ UNCHANGED <<budget, docked, price>>
  <1> DEFINE f == Top
             v == f.venue
             t == f.out
             m == f.mandate
  <1>1. ~Idle /\ Unwinding(f) /\ liquidity[v][t] >= f.deficit /\ HeldNow(f) >= f.beforePull
        /\ PullOut(m, t, f.amountOut, wallet[t] + f.deficit)
    BY DEF MarketReturns
  <1>2. /\ liquidity' = [liquidity EXCEPT ![v][t] = liquidity[v][t] - f.deficit]
        /\ shares' = [shares EXCEPT ![v][t] = shares[v][t] + BackToMaker(f)]
        /\ held' = [held EXCEPT ![v][t] = HeldInTheEnd(f)]
        /\ frames' = [frames EXCEPT ![Len(frames)].venue = NoVenue]
        /\ Converts(v, t) /\ UNCHANGED <<budget, docked, price>>
    BY DEF MarketReturns
  <1>3. /\ wallet[t] + f.deficit >= f.amountOut /\ ledger[m][t] >= f.amountOut
        /\ ledger' = [ledger EXCEPT ![m][t] = ledger[m][t] - f.amountOut]
        /\ wallet' = [wallet EXCEPT ![t] = (wallet[t] + f.deficit) - f.amountOut]
    <2> HIDE DEF f, m, t
    <2>1. QED BY <1>1 DEF PullOut
  <1>4. HeldNow(f) = held[v][t] - Burnt(f) /\ HeldInTheEnd(f) = f.beforePull
        /\ BackToMaker(f) = held[v][t] - Burnt(f) - f.beforePull
    BY DEF HeldNow, BackToMaker, HeldInTheEnd, Burnt
  <1>5. QED BY <1>1, <1>2, <1>3, <1>4

LEMMA MarketReturnsKeeps ==
  ASSUME SwapInv, Counted', MarketReturns
  PROVE  SwapInv' /\ Kept
  <1> DEFINE n == Len(frames)
             f == Top
             v == f.venue
             t == f.out
             m == f.mandate
  <1>1. Typed /\ Stacked BY DEF SwapInv
  <1>2. /\ ~Idle /\ Unwinding(f) /\ liquidity[v][t] >= f.deficit
        /\ held[v][t] - Burnt(f) >= f.beforePull
        /\ wallet[t] + f.deficit >= f.amountOut /\ ledger[m][t] >= f.amountOut
        /\ ledger' = [ledger EXCEPT ![m][t] = ledger[m][t] - f.amountOut]
        /\ wallet' = [wallet EXCEPT ![t] = (wallet[t] + f.deficit) - f.amountOut]
        /\ liquidity' = [liquidity EXCEPT ![v][t] = liquidity[v][t] - f.deficit]
        /\ shares' = [shares EXCEPT ![v][t] = shares[v][t] + (held[v][t] - Burnt(f) - f.beforePull)]
        /\ held' = [held EXCEPT ![v][t] = f.beforePull]
        /\ frames' = [frames EXCEPT ![Len(frames)].venue = NoVenue]
        /\ Converts(v, t) /\ UNCHANGED <<budget, docked, price>>
    BY MarketReturnsIs
  <1>3. /\ f \in Frames /\ f \in FrameType /\ m \in Mandates /\ t \in Tokens /\ Other(t) \in Tokens
        /\ Other(t) # t /\ f.amountOut \in Nat /\ f.balanceIn \in Nat /\ f.deficit \in Nat
        /\ f.beforePull \in Nat /\ f.saved.ledger \in Ledgers
    BY <1>2, TopFacts
  <1>4. v \in Venues /\ Burnt(f) \in Nat
    <2>1. v \in Venues BY <1>2, TopFacts DEF Unwinding
    <2>2. QED BY <1>1, <1>3, <2>1, SharesAreWorth DEF Burnt
  <1>5. /\ n \in Nat /\ n \in 1..n /\ 1 \in 1..n /\ frames \in Seq(Frames) /\ f = frames[n]
        /\ Distinct(frames) /\ Base \in Ledgers /\ n =< MaxDepth
    BY <1>1, <1>2, StackFacts DEF Stacked, Top
  <1> DEFINE g == [f EXCEPT !.venue = NoVenue]
  <1>6. frames' = [frames EXCEPT ![n] = g] BY <1>2 DEF Top
  <1> HIDE DEF f, n
  <1>7. /\ g \in FrameType /\ g.mandate = m /\ g.out = t /\ g.amountOut = f.amountOut
        /\ g.balanceIn = f.balanceIn /\ g.saved = f.saved /\ g.venue = NoVenue
        /\ g.amountIn = f.amountIn
    BY <1>3 DEF FrameType
  <1>8. g \in Frames
    <2>1. Quoted(f) BY <1>3 DEF Frames
    <2>2. Quoted(g) BY <1>7, <2>1 DEF Quoted
    <2>3. QED BY <1>7, <2>2 DEF Frames
  <1> HIDE DEF g
  <1>9. /\ frames' \in Seq(Frames) /\ Len(frames') = n
        /\ \A j \in 1..n : frames'[j] = IF j = n THEN g ELSE frames[j]
    BY <1>5, <1>6, <1>8, ExceptSeq DEF n
  <1>10. /\ liquidity[v][t] \in Nat /\ held[v][t] \in Nat /\ shares[v][t] \in Nat
         /\ ledger[m][t] \in Nat /\ ledger[m][Other(t)] \in Nat /\ wallet[t] \in Nat
         /\ f.saved.ledger[m][t] \in Nat
    BY <1>1, <1>3, <1>4 DEF Typed, Holdings, Ledgers, Purses
  <1>11. /\ liquidity[v][t] - f.deficit \in Nat
         /\ shares[v][t] + (held[v][t] - Burnt(f) - f.beforePull) \in Nat
         /\ ledger[m][t] - f.amountOut \in Nat
         /\ (wallet[t] + f.deficit) - f.amountOut \in Nat
    <2>1. \A a, b \in Nat : a >= b => a - b \in Nat OBVIOUS
    <2>2. \A a, h, d, b \in Nat : h - d >= b => a + (h - d - b) \in Nat OBVIOUS
    <2>3. \A w, d, a \in Nat : w + d >= a => (w + d) - a \in Nat OBVIOUS
    <2> HIDE DEF t, v, m
    <2>4. QED BY <1>2, <1>3, <1>4, <1>10, <2>1, <2>2, <2>3
  <1>12. /\ ledger' \in Ledgers /\ ledger'[m][t] = ledger[m][t] - f.amountOut
         /\ ledger'[m][Other(t)] = ledger[m][Other(t)]
         /\ \A r \in Mandates : r # m => ledger'[r] = ledger[r]
    <2>1. \A k \in Nat : /\ [ledger EXCEPT ![m][t] = k] \in Ledgers
                         /\ [ledger EXCEPT ![m][t] = k][m][t] = k
                         /\ [ledger EXCEPT ![m][t] = k][m][Other(t)] = ledger[m][Other(t)]
                         /\ \A r \in Mandates : r # m => [ledger EXCEPT ![m][t] = k][r] = ledger[r]
      BY <1>1, <1>3, SetTwice DEF Typed, Ledgers
    <2>2. QED BY <1>2, <1>11, <2>1
  <1>13. Typed'
    <2>1. \A h \in Holdings, k \in Nat : [h EXCEPT ![v][t] = k] \in Holdings
      BY <1>3, <1>4, SetTwice DEF Holdings
    <2>2. liquidity' \in Holdings BY <1>1, <1>2, <1>11, <2>1 DEF Typed
    <2>3. shares' \in Holdings BY <1>1, <1>2, <1>11, <2>1 DEF Typed
    <2>4. held' \in Holdings BY <1>1, <1>2, <1>3, <2>1 DEF Typed
    <2>5. wallet' \in Purses BY <1>1, <1>2, <1>3, <1>11 DEF Typed, Purses
    <2>6. earned' \in Gains BY <1>1, <1>2, <1>3, <1>4, ConvertsIs
    <2>7. QED BY <1>1, <1>2, <1>12, <2>2, <2>3, <2>4, <2>5, <2>6 DEF Typed
  <1>14. \A j \in 1..n : frames'[j].mandate = frames[j].mandate /\ frames'[j].saved = frames[j].saved
    BY <1>5, <1>7, <1>9
  <1>15. Stacked'
    <2>1. Distinct(frames') BY <1>5, <1>9, <1>14 DEF Distinct, n
    <2>2. QED BY <1>5, <1>9, <2>1 DEF Stacked
  <1>16. Base' = Base /\ Committed'.ledger = Base
    <2>1. frames' # <<>> BY <1>5, <1>9, EmptySeq
    <2>2. frames'[1].saved = frames[1].saved BY <1>5, <1>14
    <2>3. QED BY <1>2, <2>1, <2>2 DEF Base, Committed, Idle
  <1>17. \A i \in 1..n :
            Sound(frames'[i].saved.ledger, frames'[i].saved.docked, frames', i - 1, Base)
    <2>1. SUFFICES ASSUME NEW i \in 1..n
                   PROVE  Sound(frames'[i].saved.ledger, frames'[i].saved.docked, frames', i - 1, Base)
      OBVIOUS
    <2>2. i - 1 \in Nat /\ \A j \in 1..(i - 1) : frames'[j] = frames[j] BY <1>5, <1>9
    <2>3. Sound(frames[i].saved.ledger, frames[i].saved.docked, frames, i - 1, Base)
      BY DEF SwapInv, n
    <2>4. QED BY <1>14, <2>2, <2>3, SoundLooksBelow
  <1>18. Sound(ledger', docked', frames', n, Base)
    <2>1. SUFFICES ASSUME NEW r \in Mandates \ docked
                   PROVE  /\ \A j \in 1..n : frames'[j].mandate = r => Ahead(ledger', frames'[j])
                          /\ (\A j \in 1..n : frames'[j].mandate # r)
                               => Product(ledger', r) >= Product(Base, r)
      BY <1>2 DEF Sound
    <2>2. /\ \A j \in 1..n : frames[j].mandate = r => Ahead(ledger, frames[j])
          /\ (\A j \in 1..n : frames[j].mandate # r) => Product(ledger, r) >= Product(Base, r)
      BY DEF SwapInv, Sound, n
    <2>3. ASSUME NEW j \in 1..n, frames'[j].mandate = r PROVE Ahead(ledger', frames'[j])
      <3>1. CASE j = n
        <4>1. r = m /\ frames'[j] = g BY <1>7, <1>9, <2>3, <3>1
        <4>2. Ahead(ledger, f) BY <1>5, <2>2, <3>1, <4>1
        <4>3. ledger[m][Other(t)] >= f.balanceIn /\ ledger[m][t] >= f.saved.ledger[m][t]
          BY <1>2, <4>2 DEF Ahead
        <4>4. ledger'[m][Other(t)] >= f.balanceIn
              /\ ledger'[m][t] >= f.saved.ledger[m][t] - f.amountOut
          BY <1>3, <1>10, <1>12, <4>3
        <4>5. ~Unwinding(g) BY <1>7 DEF Unwinding
        <4>6. QED BY <1>7, <4>1, <4>4, <4>5 DEF Ahead
      <3>2. CASE j # n
        <4>1. frames'[j] = frames[j] BY <1>9, <3>2
        <4>2. r # m
          <5>1. frames[j].mandate # frames[n].mandate BY <1>5, <3>2 DEF Distinct, n
          <5>2. QED BY <1>5, <2>3, <4>1, <5>1
        <4>3. Ahead(ledger, frames[j]) BY <2>2, <2>3, <4>1
        <4>4. ledger'[r] = ledger[r] BY <1>12, <4>2
        <4>5. QED BY <2>3, <4>1, <4>3, <4>4 DEF Ahead
      <3>3. QED BY <3>1, <3>2
    <2>4. ASSUME \A j \in 1..n : frames'[j].mandate # r
          PROVE  Product(ledger', r) >= Product(Base, r)
      <3>1. \A j \in 1..n : frames[j].mandate # r BY <1>14, <2>4
      <3>2. r # m BY <1>5, <3>1
      <3>3. Product(ledger', r) = Product(ledger, r) BY <1>12, <3>2 DEF Product
      <3>4. QED BY <2>2, <3>1, <3>3
    <2>5. QED BY <2>3, <2>4
  <1>19. SwapInv' BY <1>9, <1>13, <1>15, <1>16, <1>17, <1>18 DEF SwapInv
  <1>20. \A r \in Mandates : Product(Base, r) \in Nat BY <1>5, TwoTokens, ProductIs
  <1>21. Kept BY <1>16, <1>20, CommittedIs DEF Kept
  <1>22. QED BY <1>19, <1>21

\* The price was pushed, so the mandate is no worse off than when it was quoted.
LEMMA TakerReturnsKeeps ==
  ASSUME SwapInv, Counted', TakerReturns
  PROVE  SwapInv' /\ Kept
  <1> DEFINE n == Len(frames)
             f == Top
             m == f.mandate
             t == f.out
  <1>1. Typed BY DEF SwapInv
  <1>2. /\ ~Idle /\ m \notin docked /\ ledger[m][Other(t)] >= f.balanceIn + f.amountIn
        /\ frames' = Pop
        /\ UNCHANGED <<ledger, budget, docked, wallet, shares, held, liquidity, price, earned>>
    BY DEF TakerReturns, Pushed, aqua, maker, market
  <1>3. /\ f \in Frames /\ m \in Mandates /\ t \in Tokens /\ Other(t) \in Tokens
        /\ f.amountIn \in Nat /\ f.amountOut \in Nat /\ f.balanceIn \in Nat \ {0}
        /\ f.saved.ledger \in Ledgers
    BY <1>2, TopFacts
  <1>4. /\ n \in Nat /\ n \in 1..n /\ f = frames[n] /\ Distinct(frames) /\ Base \in Ledgers
    BY <1>2, StackFacts DEF SwapInv, Stacked, Top
  <1>5. Typed' BY <1>1, <1>2 DEF Typed
  <1>6. Sound(ledger, docked, frames, n, Base) BY DEF SwapInv
  <1>7. Sound(f.saved.ledger, f.saved.docked, frames, n - 1, Base) BY <1>4 DEF SwapInv
  <1> HIDE DEF f, n
  <1>8. Quoted(f) BY <1>3 DEF Frames
  <1>9. \A j \in 1..(n - 1) : j \in 1..n /\ j # n BY <1>4
  <1>10. \A j \in 1..n : j \in 1..(n - 1) \/ j = n BY <1>4
  <1>11. Product(ledger, m) >= Product(Base, m)
    <2> DEFINE bi == f.balanceIn
               bo == f.saved.ledger[m][t]
               li == ledger[m][Other(t)]
               lo == ledger[m][t]
    <2>1. bi \in Nat \ {0} /\ bo \in Nat /\ li \in Nat /\ lo \in Nat
      BY <1>1, <1>3 DEF Typed, Ledgers
    <2>2. li >= bi + f.amountIn BY <1>2
    <2>3. lo >= bo - Quote(m, bi, bo, f.amountIn)
      <3>1. Ahead(ledger, f) BY <1>2, <1>3, <1>4, <1>6 DEF Sound
      <3>2. QED BY <1>8, <3>1 DEF Ahead, Quoted
    <2> HIDE DEF bi, bo, li, lo
    <2>4. li * lo >= bi * bo BY <1>3, <2>1, <2>2, <2>3, QuoteHolds
    <2>5. Product(f.saved.ledger, m) >= Product(Base, m)
      <3>1. m \in Mandates \ f.saved.docked BY <1>3, <1>8 DEF Quoted
      <3>2. \A j \in 1..(n - 1) : frames[j].mandate # m
        BY <1>4, <1>9 DEF Distinct, n
      <3>3. QED BY <1>7, <3>1, <3>2 DEF Sound
    <2>6. Product(ledger, m) = lo * li /\ Product(ledger, m) \in Nat
      BY <1>1, <1>3, ProductIs DEF Typed, li, lo
    <2>7. Product(f.saved.ledger, m) = bo * bi /\ Product(f.saved.ledger, m) \in Nat
      <3>1. bi = f.saved.ledger[m][Other(t)] BY <1>8 DEF Quoted, bi
      <3>2. QED BY <1>3, <3>1, ProductIs DEF bo
    <2>8. Product(Base, m) \in Nat BY <1>3, <1>4, ProductIs
    <2>9. lo * li >= bo * bi
      <3>1. \A x, y \in Nat : x * y = y * x BY SMT
      <3>2. lo * li = li * lo /\ bo * bi = bi * bo BY <2>1, <3>1
      <3>3. QED BY <2>4, <3>2
    <2>10. Product(ledger, m) >= Product(f.saved.ledger, m) BY <2>6, <2>7, <2>9
    <2>11. QED BY <2>5, <2>6, <2>7, <2>8, <2>10
  <1>12. Sound(ledger, docked, frames, n - 1, Base)
    <2>1. SUFFICES ASSUME NEW r \in Mandates \ docked
                   PROVE  /\ \A j \in 1..(n - 1) : frames[j].mandate = r => Ahead(ledger, frames[j])
                          /\ (\A j \in 1..(n - 1) : frames[j].mandate # r)
                               => Product(ledger, r) >= Product(Base, r)
      BY DEF Sound
    <2>2. /\ \A j \in 1..n : frames[j].mandate = r => Ahead(ledger, frames[j])
          /\ (\A j \in 1..n : frames[j].mandate # r) => Product(ledger, r) >= Product(Base, r)
      BY <1>6 DEF Sound
    <2>3. CASE r = m BY <1>9, <1>11, <2>2, <2>3
    <2>4. CASE r # m
      <3>1. frames[n].mandate # r BY <1>4, <2>4
      <3>2. (\A j \in 1..(n - 1) : frames[j].mandate # r) => \A j \in 1..n : frames[j].mandate # r
        BY <1>10, <3>1
      <3>3. QED BY <1>9, <2>2, <3>2
    <2>5. QED BY <2>3, <2>4
  <1>13. ledger' = ledger /\ docked' = docked BY <1>2
  <1>14. QED BY <1>2, <1>5, <1>12, <1>13, Closes DEF n

LEMMA SwapFailsKeeps ==
  ASSUME SwapInv, Counted', SwapFails
  PROVE  SwapInv' /\ Kept
  <1> DEFINE f == Top
  <1>1. /\ ~Idle /\ frames' = Pop
        /\ ledger' = f.saved.ledger /\ budget' = f.saved.budget /\ docked' = f.saved.docked
        /\ wallet' = f.saved.wallet /\ shares' = f.saved.shares
        /\ held' = f.saved.held /\ liquidity' = f.saved.liquidity
        /\ price' = f.saved.price /\ earned' = f.saved.earned
    BY DEF SwapFails, Revert
  <1>2. f.saved \in Saved /\ f = frames[Len(frames)] /\ Len(frames) \in 1..Len(frames)
    BY <1>1, TopFacts, StackFacts DEF Top
  <1> HIDE DEF f
  <1>3. /\ f.saved.ledger \in Ledgers /\ f.saved.budget \in Budgets /\ f.saved.docked \in SUBSET Mandates
        /\ f.saved.wallet \in Purses /\ f.saved.shares \in Holdings /\ f.saved.held \in Holdings
        /\ f.saved.liquidity \in Holdings /\ f.saved.price \in Levels /\ f.saved.earned \in Gains
    BY <1>2 DEF Saved
  <1>4. Typed' BY <1>1, <1>3 DEF Typed
  <1>5. Sound(f.saved.ledger, f.saved.docked, frames, Len(frames) - 1, Base)
    BY <1>2 DEF SwapInv
  <1>6. Sound(ledger', docked', frames, Len(frames) - 1, Base) BY <1>1, <1>5
  <1>7. QED BY <1>1, <1>4, <1>6, Closes
LEMMA PushKeeps ==
  ASSUME SwapInv, Counted', NEW m \in Mandates, NEW t \in Tokens, NEW x \in Amounts, Push(m, t, x)
  PROVE  SwapInv' /\ Kept
  <1>1. Typed /\ x \in Nat BY Bounds DEF SwapInv
  <1>2. /\ ledger' = [ledger EXCEPT ![m][t] = ledger[m][t] + x]
        /\ wallet' = [wallet EXCEPT ![t] = wallet[t] + x]
        /\ UNCHANGED <<budget, docked, shares, held, liquidity, price, earned, frames>>
    BY DEF Push, market
  <1>3. ledger[m][t] \in Nat /\ wallet[t] \in Nat BY <1>1 DEF Typed, Ledgers, Purses
  <1>4. ledger[m][t] + x \in Nat /\ wallet[t] + x \in Nat BY <1>1, <1>3
  <1>5. /\ ledger' \in Ledgers /\ ledger'[m][t] = ledger[m][t] + x
        /\ \A u \in Tokens : u # t => ledger'[m][u] = ledger[m][u]
        /\ \A r \in Mandates : r # m => ledger'[r] = ledger[r]
    BY <1>1, <1>2, <1>4, SetTwice DEF Typed, Ledgers
  <1>6. wallet' \in Purses BY <1>1, <1>2, <1>4 DEF Typed, Purses
  <1>7. Typed' BY <1>1, <1>2, <1>5, <1>6 DEF Typed
  <1>8. \A r \in Mandates, u \in Tokens : ledger[r][u] \in Nat BY <1>1 DEF Typed, Ledgers
  <1>9. \A r \in Mandates, u \in Tokens : ledger'[r][u] >= ledger[r][u]
    <2>1. SUFFICES ASSUME NEW r \in Mandates, NEW u \in Tokens PROVE ledger'[r][u] >= ledger[r][u]
      OBVIOUS
    <2>2. CASE r = m /\ u = t BY <1>1, <1>3, <1>5, <2>2
    <2>3. CASE r # m \/ u # t
      <3>1. ledger'[r][u] = ledger[r][u] BY <1>5, <2>3
      <3>2. QED BY <1>8, <3>1
    <2>4. QED BY <2>2, <2>3
  <1>10. QED BY <1>2, <1>7, <1>9, Beside

LEMMA DockKeeps ==
  ASSUME SwapInv, Counted', NEW m \in Mandates, Dock(m)
  PROVE  SwapInv' /\ Kept
  <1>1. Typed BY DEF SwapInv
  <1>2. /\ docked' = docked \cup {m}
        /\ ledger' = [ledger EXCEPT ![m] = [t \in Tokens |-> 0]]
        /\ budget' = [budget EXCEPT ![m] = [v \in Venues |-> [t \in Tokens |-> 0]]]
        /\ UNCHANGED <<wallet, shares, held, liquidity, price, earned, frames>>
    BY DEF Dock, maker, market
  <1>3. ledger' \in Ledgers /\ \A r \in Mandates : r # m => ledger'[r] = ledger[r]
    BY <1>1, <1>2 DEF Typed, Ledgers
  <1>4. budget' \in Budgets
    <2>1. [v \in Venues |-> [t \in Tokens |-> 0]] \in [Venues -> [Tokens -> Nat]] OBVIOUS
    <2>2. QED BY <1>1, <1>2, <2>1 DEF Typed, Budgets
  <1>5. Typed' BY <1>1, <1>2, <1>3, <1>4 DEF Typed
  <1>6. \A r \in Mandates \ docked', u \in Tokens : ledger'[r][u] >= ledger[r][u]
    <2>1. \A r \in Mandates, u \in Tokens : ledger[r][u] \in Nat BY <1>1 DEF Typed, Ledgers
    <2>2. \A r \in Mandates \ docked' : ledger'[r] = ledger[r] BY <1>2, <1>3
    <2>3. \A r \in Mandates, u \in Tokens : ledger[r][u] >= ledger[r][u] BY <2>1
    <2>4. QED BY <2>2, <2>3
  <1>7. docked \subseteq docked' BY <1>2
  <1>8. QED BY <1>2, <1>5, <1>6, <1>7, Beside

\* Idle capital, prices, debts and time touch no ledger.
LEMMA LedgerStands ==
  ASSUME SwapInv, Counted', Typed', UNCHANGED <<ledger, docked, frames>>
  PROVE  SwapInv' /\ Kept
  <1>1. \A r \in Mandates, u \in Tokens : ledger[r][u] \in Nat BY DEF SwapInv, Typed, Ledgers
  <1>2. \A r \in Mandates, u \in Tokens : ledger'[r][u] >= ledger[r][u] BY <1>1
  <1>3. QED BY <1>2, Beside

LEMMA SupplyIdleKeeps ==
  ASSUME SwapInv, Counted', NEW v \in Venues, NEW t \in Tokens, NEW x \in Amounts, SupplyIdle(v, t, x)
  PROVE  SwapInv' /\ Kept
  <1>1. Typed /\ x \in Nat BY Bounds DEF SwapInv
  <1>2. PICK k \in Nat : k = Minted(v, t, x) BY <1>1, SharesAreWorth
  <1>3. /\ x =< wallet[t]
        /\ wallet' = [wallet EXCEPT ![t] = wallet[t] - x]
        /\ shares' = [shares EXCEPT ![v][t] = shares[v][t] + k]
        /\ liquidity' = [liquidity EXCEPT ![v][t] = liquidity[v][t] + x]
        /\ Converts(v, t) /\ UNCHANGED <<ledger, budget, docked, held, price, frames>>
    BY <1>2 DEF SupplyIdle, aqua
  <1>4. wallet[t] \in Nat /\ shares[v][t] \in Nat /\ liquidity[v][t] \in Nat
    BY <1>1 DEF Typed, Purses, Holdings
  <1>5. wallet[t] - x \in Nat /\ shares[v][t] + k \in Nat /\ liquidity[v][t] + x \in Nat
    BY <1>1, <1>3, <1>4
  <1>6. wallet' \in Purses BY <1>1, <1>3, <1>5 DEF Typed, Purses
  <1>7. \A h \in Holdings, y \in Nat : [h EXCEPT ![v][t] = y] \in Holdings BY SetTwice DEF Holdings
  <1>8. shares' \in Holdings /\ liquidity' \in Holdings BY <1>1, <1>3, <1>5, <1>7 DEF Typed
  <1>9. earned' \in Gains BY <1>1, <1>3, ConvertsIs
  <1>10. Typed' BY <1>1, <1>3, <1>6, <1>8, <1>9 DEF Typed
  <1>11. QED BY <1>3, <1>10, LedgerStands

LEMMA WithdrawIdleKeeps ==
  ASSUME SwapInv, Counted', NEW v \in Venues, NEW t \in Tokens, NEW x \in Amounts, WithdrawIdle(v, t, x)
  PROVE  SwapInv' /\ Kept
  <1>1. Typed /\ x \in Nat BY Bounds DEF SwapInv
  <1>2. PICK k \in Nat : k = SharesFor(v, t, x) BY <1>1, SharesAreWorth
  <1>3. /\ k =< shares[v][t] /\ x =< liquidity[v][t]
        /\ wallet' = [wallet EXCEPT ![t] = wallet[t] + x]
        /\ shares' = [shares EXCEPT ![v][t] = shares[v][t] - k]
        /\ liquidity' = [liquidity EXCEPT ![v][t] = liquidity[v][t] - x]
        /\ Converts(v, t) /\ UNCHANGED <<ledger, budget, docked, held, price, frames>>
    BY <1>2 DEF WithdrawIdle, aqua
  <1>4. wallet[t] \in Nat /\ shares[v][t] \in Nat /\ liquidity[v][t] \in Nat
    BY <1>1 DEF Typed, Purses, Holdings
  <1>5. wallet[t] + x \in Nat /\ shares[v][t] - k \in Nat /\ liquidity[v][t] - x \in Nat
    BY <1>1, <1>3, <1>4
  <1>6. wallet' \in Purses BY <1>1, <1>3, <1>5 DEF Typed, Purses
  <1>7. \A h \in Holdings, y \in Nat : [h EXCEPT ![v][t] = y] \in Holdings BY SetTwice DEF Holdings
  <1>8. shares' \in Holdings /\ liquidity' \in Holdings BY <1>1, <1>3, <1>5, <1>7 DEF Typed
  <1>9. earned' \in Gains BY <1>1, <1>3, ConvertsIs
  <1>10. Typed' BY <1>1, <1>3, <1>6, <1>8, <1>9 DEF Typed
  <1>11. QED BY <1>3, <1>10, LedgerStands

\* A share's price moves, and nothing else of the maker's but what it is worth.
LEMMA RepricesIs ==
  ASSUME Typed, NEW v \in SharePriced, NEW t \in Tokens, NEW y \in Prices, Reprices(v, t, y)
  PROVE  /\ price' \in Levels /\ price'[v][t] = y /\ v \in Venues
         /\ \A q \in SharePriced, u \in Tokens : q # v \/ u # t => price'[q][u] = price[q][u]
         /\ earned' \in Gains
         /\ \A u \in Tokens : earned'[u] = earned[u]
              + (IF u = t THEN (y - price[v][t]) * (shares[v][t] + held[v][t]) ELSE 0)
         /\ UNCHANGED <<ledger, budget, docked, wallet, shares, held, liquidity, frames>>
  <1>1. /\ price' = [price EXCEPT ![v][t] = y]
        /\ earned' = [earned EXCEPT ![t] = earned[t] + (y - price[v][t]) * (shares[v][t] + held[v][t])]
        /\ UNCHANGED <<ledger, budget, docked, wallet, shares, held, liquidity, frames>>
    BY DEF Reprices, aqua, maker
  <1>2. price \in [SharePriced -> [Tokens -> Prices]] /\ earned \in [Tokens -> Int]
    BY DEF Typed, Levels, Gains
  <1>3. v \in Venues /\ y \in Int /\ price[v][t] \in Int
    <2>1. price[v][t] \in Prices BY <1>2
    <2>2. y \in Nat \ {0} /\ price[v][t] \in Nat \ {0} /\ v \in Venues BY <2>1, Bounds
    <2>3. QED BY <2>2
  <1>4. PICK g \in Int : g = (y - price[v][t]) * (shares[v][t] + held[v][t])
    <2>1. shares[v][t] \in Int /\ held[v][t] \in Int BY <1>3 DEF Typed, Holdings
    <2>2. y - price[v][t] \in Int /\ shares[v][t] + held[v][t] \in Int BY <1>3, <2>1
    <2>3. QED BY <2>2
  <1>5. earned' = [earned EXCEPT ![t] = earned[t] + g] BY <1>1, <1>4
  <1>6. \A u \in Tokens : earned[u] \in Int BY <1>2
  <1>7. earned' \in Gains BY <1>2, <1>5, <1>6 DEF Gains
  <1>8. \A u \in Tokens : earned'[u] = earned[u] + (IF u = t THEN g ELSE 0) BY <1>2, <1>5, <1>6
  <1>9. price' \in Levels BY <1>1, <1>2 DEF Levels
  <1>10. /\ price'[v][t] = y
         /\ \A q \in SharePriced, u \in Tokens : q # v \/ u # t => price'[q][u] = price[q][u]
    BY <1>1, <1>2
  <1>11. QED BY <1>1, <1>3, <1>4, <1>7, <1>8, <1>9, <1>10

LEMMA RepricesKeeps ==
  ASSUME SwapInv, Counted', NEW v \in SharePriced, NEW t \in Tokens, NEW y \in Prices, Reprices(v, t, y)
  PROVE  SwapInv' /\ Kept
  <1>1. Typed BY DEF SwapInv
  <1>2. /\ price' \in Levels /\ earned' \in Gains
        /\ UNCHANGED <<ledger, budget, docked, wallet, shares, held, liquidity, frames>>
    BY <1>1, RepricesIs
  <1>3. Typed' BY <1>1, <1>2 DEF Typed
  <1>4. QED BY <1>2, <1>3, LedgerStands

LEMMA SwapKeeps ==
  ASSUME SwapInv, Counted', NEW m \in Mandates, NEW t \in Tokens, NEW x \in Amounts, NEW k \in Takers,
         Swap(m, t, x, k)
  PROVE  SwapInv' /\ Kept
  <1> DEFINE out == Quote(m, ledger[m][Other(t)], ledger[m][t], x)
  <1>1. /\ CanEnter /\ ~Locked(m) /\ Tradable(m)
        /\ SwapFromWallet(m, t, x, out) \/ SwapByUnwinding(m, t, x, out)
    BY DEF Swap
  <1>2. out \in Nat BY <1>1, SwapTypes
  <1>3. \E o \in Nat : /\ o = Quote(m, ledger[m][Other(t)], ledger[m][t], x)
                       /\ SwapFromWallet(m, t, x, o) \/ SwapByUnwinding(m, t, x, o)
    BY <1>1, <1>2
  <1>4. PICK o \in Nat : /\ o = Quote(m, ledger[m][Other(t)], ledger[m][t], x)
                         /\ SwapFromWallet(m, t, x, o) \/ SwapByUnwinding(m, t, x, o)
    BY <1>3
  <1>5. CASE SwapFromWallet(m, t, x, o) BY <1>1, <1>4, <1>5, SwapFromWalletKeeps
  <1>6. CASE SwapByUnwinding(m, t, x, o) BY <1>1, <1>4, <1>6, SwapByUnwindingKeeps
  <1>7. QED BY <1>4, <1>5, <1>6

-----------------------------------------------------------------------------
(* The counters, and the whole step. *)

LEMMA Counts ==
  ASSUME SwapInv, Next
  PROVE  Counted'
  <1>1. indebted \in SUBSET Venues /\ now \in 0..MaxTime /\ entries \in 0..MaxEntries
        /\ MaxTime \in Nat /\ MaxEntries \in Nat
    BY Bounds DEF SwapInv, Counted
  <1>2. entries' \in 0..MaxEntries
    <2>1. CASE entries < MaxEntries /\ entries' = entries + 1 BY <1>1, <2>1
    <2>2. CASE entries' = entries BY <1>1, <2>2
    <2>3. QED BY <2>1, <2>2 DEF Next
  <1>3. CASE FromOutside
    <2>1. now' = now BY <1>3 DEF FromOutside, Swap, Push, Dock, SupplyIdle, WithdrawIdle, Reprices, DebtChanges
    <2>2. indebted' = indebted \/ \E v \in Venues : DebtChanges(v)
      BY <1>3 DEF FromOutside, Swap, Push, Dock, SupplyIdle, WithdrawIdle, Reprices
    <2>3. ASSUME NEW v \in Venues, DebtChanges(v) PROVE indebted' \in SUBSET Venues
      BY <1>1, <2>3 DEF DebtChanges
    <2>4. indebted' \in SUBSET Venues BY <1>1, <2>2, <2>3
    <2>5. QED BY <1>1, <1>2, <2>1, <2>4 DEF Counted
  <1>4. CASE Returns
    <2>1. UNCHANGED <<indebted, now>>
      BY <1>4 DEF Returns, MarketReturns, TakerReturns, SwapFails, Revert
    <2>2. QED BY <1>1, <1>2, <2>1 DEF Counted
  <1>5. CASE Tick
    <2>1. now < MaxTime /\ now' = now + 1 /\ indebted' = indebted BY <1>5 DEF Tick
    <2>2. now' \in 0..MaxTime BY <1>1, <2>1
    <2>3. QED BY <1>1, <1>2, <2>1, <2>2 DEF Counted
  <1>6. QED BY <1>3, <1>4, <1>5 DEF Next

LEMMA InitIsSound == Init => SwapInv
  <1>1. SUFFICES ASSUME Init PROVE SwapInv OBVIOUS
  <1>2. PICK start \in Starts :
          /\ ledger = start.ledger /\ budget = start.budget
          /\ wallet = start.wallet /\ shares = start.shares /\ liquidity = start.liquidity
          /\ price = start.price
    BY <1>1 DEF Init
  <1>3. /\ start.ledger \in [Mandates -> [Tokens -> Nat]]
        /\ start.budget \in [Mandates -> [Venues -> [Tokens -> Nat]]]
        /\ start.wallet \in [Tokens -> Nat]
        /\ start.shares \in [Venues -> [Tokens -> Nat]]
        /\ start.liquidity \in [Venues -> [Tokens -> Nat]]
        /\ start.price \in [SharePriced -> [Tokens -> Prices]]
    BY StartsAssumption DEF StartsAssumption
  <1>4. held \in Holdings /\ earned \in Gains
    <2>1. held = [v \in Venues |-> [t \in Tokens |-> 0]] /\ earned = [t \in Tokens |-> 0]
      BY <1>1 DEF Init
    <2>2. QED BY <2>1 DEF Holdings, Gains
  <1>5. /\ ledger \in Ledgers /\ budget \in Budgets /\ wallet \in Purses
        /\ shares \in Holdings /\ liquidity \in Holdings /\ price \in Levels
    BY <1>2, <1>3 DEF Ledgers, Budgets, Purses, Holdings, Levels
  <1>6. /\ docked = {} /\ indebted = {} /\ frames = <<>> /\ now = 0 /\ entries = 0
    BY <1>1 DEF Init
  <1>7. Typed BY <1>4, <1>5, <1>6 DEF Typed
  <1>8. Counted BY <1>6, Bounds DEF Counted
  <1>9. frames \in Seq(Frames) /\ Len(frames) = 0 BY <1>6, EmptySeq
  <1>10. 1..Len(frames) = {} /\ Len(frames) =< MaxDepth BY <1>9, Bounds
  <1>11. Stacked BY <1>9, <1>10 DEF Stacked, Distinct
  <1>12. Base = ledger BY <1>6 DEF Base, Idle
  <1>13. Sound(ledger, docked, frames, 0, ledger) BY <1>5, Steady
  <1>14. QED BY <1>7, <1>8, <1>9, <1>10, <1>11, <1>12, <1>13 DEF SwapInv

LEMMA StepIsSound == SwapInv /\ [Next]_vars => SwapInv' /\ Kept
  <1>1. SUFFICES ASSUME SwapInv, [Next]_vars PROVE SwapInv' /\ Kept OBVIOUS
  <1>2. CASE UNCHANGED vars
    <2>1. UNCHANGED <<ledger, budget, docked, wallet, shares, held, liquidity, price, earned,
                   indebted, frames, now, entries>>
      BY <1>2 DEF vars, aqua, maker, market
    <2>2. Typed' /\ Counted' BY <1>1, <2>1 DEF SwapInv, Typed, Counted
    <2>3. QED BY <1>1, <2>1, <2>2, LedgerStands
  <1>3. CASE Next
    <2>1. Counted' BY <1>1, <1>3, Counts
    <2>2. ASSUME NEW m \in Mandates, NEW t \in Tokens, NEW x \in Amounts, NEW k \in Takers,
                 Swap(m, t, x, k)
          PROVE  SwapInv' /\ Kept
      BY <1>1, <2>1, <2>2, SwapKeeps
    <2>3. ASSUME NEW m \in Mandates, NEW t \in Tokens, NEW x \in Amounts, Push(m, t, x)
          PROVE  SwapInv' /\ Kept
      BY <1>1, <2>1, <2>3, PushKeeps
    <2>4. ASSUME NEW m \in Mandates, Dock(m) PROVE SwapInv' /\ Kept BY <1>1, <2>1, <2>4, DockKeeps
    <2>5. ASSUME NEW v \in Venues, NEW t \in Tokens, NEW x \in Amounts, SupplyIdle(v, t, x)
          PROVE  SwapInv' /\ Kept
      BY <1>1, <2>1, <2>5, SupplyIdleKeeps
    <2>6. ASSUME NEW v \in Venues, NEW t \in Tokens, NEW x \in Amounts, WithdrawIdle(v, t, x)
          PROVE  SwapInv' /\ Kept
      BY <1>1, <2>1, <2>6, WithdrawIdleKeeps
    <2>7. ASSUME Tick \/ \E v \in Venues : DebtChanges(v) PROVE SwapInv' /\ Kept
      <3>1. UNCHANGED <<ledger, budget, docked, wallet, shares, held, liquidity, price, earned, frames>>
        BY <2>7 DEF Tick, DebtChanges, aqua, maker, market
      <3>2. Typed' BY <1>1, <3>1 DEF SwapInv, Typed
      <3>3. QED BY <1>1, <2>1, <3>1, <3>2, LedgerStands
    <2>8. CASE MarketReturns BY <1>1, <2>1, <2>8, MarketReturnsKeeps
    <2>9. CASE TakerReturns BY <1>1, <2>1, <2>9, TakerReturnsKeeps
    <2>10. CASE SwapFails BY <1>1, <2>1, <2>10, SwapFailsKeeps
    <2>11. ASSUME NEW v \in SharePriced, NEW t \in Tokens, NEW y \in Prices, Reprices(v, t, y)
           PROVE  SwapInv' /\ Kept
      BY <1>1, <2>1, <2>11, RepricesKeeps
    <2>12. QED
      BY <1>3, <2>2, <2>3, <2>4, <2>5, <2>6, <2>7, <2>8, <2>9, <2>10, <2>11
      DEF Next, FromOutside, Returns
  <1>4. QED BY <1>1, <1>2, <1>3

-----------------------------------------------------------------------------
(* Theorems. *)

\* Every ledger on the stack, and the present one, is behind what was committed
\* only where an open swap is owed its price.
THEOREM StacksAreSound == Spec => []SwapInv
  BY InitIsSound, StepIsSound, PTL DEF Spec

\* The state keeps its types whatever the calls inside calls do: no balance,
\* budget, share or liquidity ever goes below zero.
THEOREM TypeCorrect == Spec => []TypeOK
  <1>1. SwapInv => TypeOK
    <2>1. SUFFICES ASSUME SwapInv PROVE TypeOK OBVIOUS
    <2>2. Len(frames) \in 0..MaxDepth BY <2>1, StackFacts, Bounds
    <2>3. QED BY <2>1, <2>2 DEF SwapInv, Typed, Counted, TypeOK, Ledgers, Budgets, Holdings, Purses, Levels, Gains
  <1>2. QED BY <1>1, StacksAreSound, PTL

\* No transaction leaves a live mandate with a smaller product than it found,
\* however swaps, pushes, docks and moves of capital nest inside one another.
THEOREM ProductsAreKept == Spec => ProductNeverFalls
  <1>1. SwapInv /\ [Next]_vars =>
          [\A m \in Mandates \ Committed'.docked :
              Product(Committed'.ledger, m) >= Product(Committed.ledger, m)]_vars
    BY StepIsSound DEF Kept
  <1>2. QED BY <1>1, StacksAreSound, PTL DEF Spec, ProductNeverFalls

-----------------------------------------------------------------------------
(***************************************************************************)
(* The books.  What the contract holds is what its open swaps that wait    *)
(* for a market have pulled in, at every level of the stack; and counting  *)
(* that, and setting aside what prices have moved, no state on the stack   *)
(* is poorer than what was committed.                                      *)
(***************************************************************************)

Costs(fs, n, v, t) == SumOf([i \in 1..n |-> fs[i].cost], {i \in 1..n : fs[i].venue = v /\ fs[i].out = t})

HoldsWhatWaits(h, fs, n) == \A v \in Venues, t \in Tokens : h[v][t] = Costs(fs, n, v, t)

HeldInv ==
    /\ HoldsWhatWaits(held, frames, Len(frames))
    /\ \A i \in 1..Len(frames) : HoldsWhatWaits(frames[i].saved.held, frames, i - 1)
    /\ \A i \in 1..Len(frames) : Unwinding(frames[i]) =>
          frames[i].beforePull = frames[i].saved.held[frames[i].venue][frames[i].out]

\* What the maker has of a token beyond its ledgers, the receipts in flight included, and
\* but for what prices have brought it.
Whole(c, t) == (Beyond(c, t) + AtMarkets(c.held, c.price, t)) - c.earned[t]
Due(c, t) == Beyond(c, t) - c.earned[t]

WholeInv == \A t \in Tokens :
    /\ Whole(Snapshot, t) >= Whole(Committed, t)
    /\ \A i \in 1..Len(frames) : Whole(frames[i].saved, t) >= Whole(Committed, t)

Books == HeldInv /\ WholeInv

\* What a step may do to the stack's bottom, and to what is compared with it.
Accounted ==
    /\ \A t \in Tokens : Whole(Snapshot', t) >= Whole(Committed, t)
    /\ ~Idle' => Committed' = Committed
    /\ \A i \in 1..Len(frames') :
          frames'[i].saved = Snapshot \/ \E j \in 1..Len(frames) : frames'[i].saved = frames[j].saved

-----------------------------------------------------------------------------
(* Sums at the markets and in the ledgers. *)

LEMMA FinitelyMany ==
  /\ IsFiniteSet(Venues) /\ IsFiniteSet(Mandates) /\ NoVenue \notin Venues
  BY MandateAssumption DEF MandateAssumption

LEMMA MarketsType ==
  ASSUME NEW h \in Holdings, NEW q \in Levels, NEW t \in Tokens
  PROVE  AtMarkets(h, q, t) \in Int
  <1> DEFINE f == [v \in Venues |-> h[v][t] * PriceAt(q, v, t)]
  <1>1. \A v \in Venues : f[v] \in Int
    <2>1. \A v \in Venues : h[v][t] \in Nat /\ PriceAt(q, v, t) \in Nat BY PriceIs DEF Holdings
    <2>2. \A a, b \in Nat : a * b \in Int OBVIOUS
    <2>3. QED BY <2>1, <2>2
  <1> HIDE DEF f
  <1>2. SumOf(f, Venues) \in Int BY <1>1, FinitelyMany, SumType
  <1>3. QED BY <1>2 DEF AtMarkets, f

LEMMA PromisedType ==
  ASSUME NEW l \in Ledgers, NEW t \in Tokens
  PROVE  Promised(l, t) \in Int
  <1> DEFINE f == [m \in Mandates |-> l[m][t]]
  <1>1. \A m \in Mandates : f[m] \in Int BY DEF Ledgers
  <1> HIDE DEF f
  <1>2. SumOf(f, Mandates) \in Int BY <1>1, FinitelyMany, SumType
  <1>3. QED BY <1>2 DEF Promised, f

\* One position changes, or what one receipt is worth.
Worth(h, q, v, t) == h[v][t] * PriceAt(q, v, t)

LEMMA MarketsMove ==
  ASSUME NEW g \in Holdings, NEW h \in Holdings, NEW p \in Levels, NEW q \in Levels,
         NEW v \in Venues, NEW t \in Tokens, NEW x \in Int,
         \A r \in Venues, u \in Tokens : r # v \/ u # t =>
            h[r][u] = g[r][u] /\ PriceAt(q, r, u) = PriceAt(p, r, u),
         Worth(h, q, v, t) = Worth(g, p, v, t) + x
  PROVE  \A u \in Tokens : AtMarkets(h, q, u) = AtMarkets(g, p, u) + (IF u = t THEN x ELSE 0)
  <1>1. SUFFICES ASSUME NEW u \in Tokens
                 PROVE  AtMarkets(h, q, u) = AtMarkets(g, p, u) + (IF u = t THEN x ELSE 0)
    OBVIOUS
  <1> DEFINE f == [r \in Venues |-> g[r][u] * PriceAt(p, r, u)]
             e == [r \in Venues |-> h[r][u] * PriceAt(q, r, u)]
  <1>2. \A r \in Venues : f[r] \in Int /\ e[r] \in Int
    <2>1. \A r \in Venues : /\ g[r][u] \in Nat /\ h[r][u] \in Nat
                            /\ PriceAt(p, r, u) \in Nat /\ PriceAt(q, r, u) \in Nat
      BY PriceIs DEF Holdings
    <2>2. \A a, b \in Nat : a * b \in Int OBVIOUS
    <2>3. QED BY <2>1, <2>2
  <1>3. \A r \in Venues \ {v} : e[r] = f[r] OBVIOUS
  <1>4. e[v] - f[v] = IF u = t THEN x ELSE 0
    <2>1. f[v] \in Int /\ e[v] \in Int BY <1>2
    <2>2. CASE u = t
      <3>1. e[v] = f[v] + x BY <2>2 DEF Worth
      <3> HIDE DEF e, f
      <3>2. QED BY <2>1, <2>2, <3>1
    <2>3. CASE u # t
      <3>1. e[v] = f[v] BY <2>3
      <3> HIDE DEF e, f
      <3>2. QED BY <2>1, <2>3, <3>1
    <2>4. QED BY <2>2, <2>3
  <1>5. AtMarkets(h, q, u) = SumOf(e, Venues) /\ AtMarkets(g, p, u) = SumOf(f, Venues) BY DEF AtMarkets
  <1> HIDE DEF e, f
  <1>6. SumOf(e, Venues) = SumOf(f, Venues) + (e[v] - f[v]) BY <1>2, <1>3, FinitelyMany, SumChanges
  <1>7. QED BY <1>4, <1>5, <1>6

\* So many receipts more, at the same prices.
LEMMA PositionMoves ==
  ASSUME NEW g \in Holdings, NEW h \in Holdings, NEW p \in Levels, NEW v \in Venues, NEW t \in Tokens,
         NEW x \in Int, \A r \in Venues, u \in Tokens : r # v \/ u # t => h[r][u] = g[r][u],
         h[v][t] = g[v][t] + x
  PROVE  \A u \in Tokens : AtMarkets(h, p, u) = AtMarkets(g, p, u) + (IF u = t THEN x * PriceAt(p, v, t) ELSE 0)
  <1>1. PICK y \in Int : y = PriceAt(p, v, t) BY PriceIs
  <1>2. g[v][t] \in Int BY DEF Holdings
  <1>3. PICK a \in Int, b \in Int : a = g[v][t] /\ b = h[v][t] /\ b = a + x BY <1>2
  <1>4. (a + x) * y = a * y + x * y /\ x * y \in Int BY SMT
  <1>5. Worth(h, p, v, t) = Worth(g, p, v, t) + x * y BY <1>1, <1>3, <1>4 DEF Worth
  <1>6. PICK z \in Int : z = x * y BY <1>4
  <1>7. \A u \in Tokens : AtMarkets(h, p, u) = AtMarkets(g, p, u) + (IF u = t THEN z ELSE 0)
    BY <1>5, <1>6, MarketsMove
  <1>8. QED BY <1>1, <1>6, <1>7

LEMMA PromisedMoves ==
  ASSUME NEW k \in Ledgers, NEW l \in Ledgers, NEW m \in Mandates, NEW t \in Tokens,
         \A r \in Mandates, u \in Tokens : r # m \/ u # t => l[r][u] = k[r][u]
  PROVE  \A u \in Tokens : Promised(l, u) = Promised(k, u) + (IF u = t THEN l[m][t] - k[m][t] ELSE 0)
  <1>1. SUFFICES ASSUME NEW u \in Tokens
                 PROVE  Promised(l, u) = Promised(k, u) + (IF u = t THEN l[m][t] - k[m][t] ELSE 0)
    OBVIOUS
  <1> DEFINE f == [r \in Mandates |-> k[r][u]]
             e == [r \in Mandates |-> l[r][u]]
  <1>2. \A r \in Mandates : f[r] \in Int /\ e[r] \in Int BY DEF Ledgers
  <1>3. \A r \in Mandates \ {m} : e[r] = f[r] OBVIOUS
  <1>4. e[m] - f[m] = IF u = t THEN l[m][t] - k[m][t] ELSE 0
    <2>1. l[m][u] \in Nat /\ k[m][u] \in Nat BY DEF Ledgers
    <2>2. u # t => l[m][u] = k[m][u] OBVIOUS
    <2>3. QED BY <2>1, <2>2
  <1>5. Promised(l, u) = SumOf(e, Mandates) /\ Promised(k, u) = SumOf(f, Mandates) BY DEF Promised
  <1> HIDE DEF e, f
  <1>6. SumOf(e, Mandates) = SumOf(f, Mandates) + (e[m] - f[m])
    BY <1>2, <1>3, FinitelyMany, SumChanges
  <1>7. QED BY <1>4, <1>5, <1>6

\* Docking only takes promises away.
LEMMA PromisedFalls ==
  ASSUME NEW k \in Ledgers, NEW l \in Ledgers, NEW t \in Tokens, \A m \in Mandates : l[m][t] =< k[m][t]
  PROVE  Promised(l, t) =< Promised(k, t)
  <1> DEFINE f == [r \in Mandates |-> k[r][t]]
             e == [r \in Mandates |-> l[r][t]]
  <1>1. \A r \in Mandates : f[r] \in Int /\ e[r] \in Int /\ e[r] =< f[r] BY DEF Ledgers
  <1> HIDE DEF e, f
  <1>2. SumOf(e, Mandates) =< SumOf(f, Mandates) BY <1>1, FinitelyMany, SumRises
  <1>3. QED BY <1>2 DEF Promised, e, f

\* Nothing held, nothing in flight.
LEMMA NothingAtMarkets ==
  ASSUME NEW h \in Holdings, NEW q \in Levels, NEW t \in Tokens, \A v \in Venues : h[v][t] = 0
  PROVE  AtMarkets(h, q, t) = 0
  <1> DEFINE f == [v \in Venues |-> h[v][t] * PriceAt(q, v, t)]
  <1>1. \A v \in Venues : f[v] = 0
    <2>1. \A v \in Venues : PriceAt(q, v, t) \in Nat BY PriceIs
    <2>2. \A a \in Nat : 0 * a = 0 OBVIOUS
    <2>3. QED BY <2>1, <2>2
  <1> HIDE DEF f
  <1>2. SumOf(f, Venues) = 0 BY <1>1, FinitelyMany, SumOfZeros
  <1>3. QED BY <1>2 DEF AtMarkets, f

\* What a state is worth, part by part.
LEMMA WholeIs ==
  ASSUME NEW c \in Saved, NEW t \in Tokens
  PROVE  /\ c.wallet[t] \in Int /\ AtMarkets(c.shares, c.price, t) \in Int
         /\ Promised(c.ledger, t) \in Int /\ AtMarkets(c.held, c.price, t) \in Int
         /\ c.earned[t] \in Int /\ Whole(c, t) \in Int /\ Due(c, t) \in Int
         /\ Due(c, t) = ((Par * c.wallet[t] + AtMarkets(c.shares, c.price, t))
                            - Par * Promised(c.ledger, t)) - c.earned[t]
         /\ Whole(c, t) = Due(c, t) + AtMarkets(c.held, c.price, t)
  <1>1. /\ c.wallet \in Purses /\ c.shares \in Holdings /\ c.held \in Holdings /\ c.ledger \in Ledgers
        /\ c.price \in Levels /\ c.earned \in Gains
    BY DEF Saved
  <1>2. /\ AtMarkets(c.shares, c.price, t) \in Int /\ AtMarkets(c.held, c.price, t) \in Int
        /\ Promised(c.ledger, t) \in Int
    BY <1>1, MarketsType, PromisedType
  <1>3. c.wallet[t] \in Int /\ c.earned[t] \in Int BY <1>1 DEF Purses, Gains
  <1>4. Par * c.wallet[t] \in Int /\ Par * Promised(c.ledger, t) \in Int
    <2>1. Par \in Int /\ \A a, b \in Int : a * b \in Int BY Bounds
    <2>2. QED BY <1>2, <1>3, <2>1
  <1>5. Beyond(c, t) = (Par * c.wallet[t] + AtMarkets(c.shares, c.price, t)) - Par * Promised(c.ledger, t)
    BY DEF Beyond
  <1>6. Beyond(c, t) \in Int BY <1>2, <1>4, <1>5
  <1>7. QED BY <1>2, <1>3, <1>4, <1>5, <1>6 DEF Whole, Due

LEMMA SnapshotIs ==
  ASSUME Typed
  PROVE  /\ Snapshot \in Saved /\ Snapshot.ledger = ledger /\ Snapshot.wallet = wallet
         /\ Snapshot.shares = shares /\ Snapshot.held = held
         /\ Snapshot.price = price /\ Snapshot.earned = earned
  BY DEF Snapshot, Saved, Typed

-----------------------------------------------------------------------------
(* Receipts in flight. *)

LEMMA CostsLookBelow ==
  ASSUME NEW fs, NEW gs, NEW n \in Nat, \A j \in 1..n : gs[j] = fs[j]
  PROVE  \A v, t : Costs(gs, n, v, t) = Costs(fs, n, v, t)
  <1>1. TAKE v, t
  <1>2. [i \in 1..n |-> gs[i].cost] = [i \in 1..n |-> fs[i].cost] OBVIOUS
  <1>3. {i \in 1..n : gs[i].venue = v /\ gs[i].out = t} = {i \in 1..n : fs[i].venue = v /\ fs[i].out = t}
    OBVIOUS
  <1>4. QED BY <1>2, <1>3 DEF Costs

LEMMA NoCosts == \A fs, v, t : Costs(fs, 0, v, t) = 0
  <1>1. TAKE fs, v, t
  <1>2. {i \in 1..0 : fs[i].venue = v /\ fs[i].out = t} = {} OBVIOUS
  <1>3. QED BY <1>2, SumOfNone DEF Costs

\* One more swap adds what it waits for, or nothing.
LEMMA CostsGrow ==
  ASSUME NEW fs, NEW n \in Nat, \A i \in 1..(n + 1) : fs[i].cost \in Nat, NEW v, NEW t
  PROVE  Costs(fs, n + 1, v, t) = Costs(fs, n, v, t)
           + (IF fs[n + 1].venue = v /\ fs[n + 1].out = t THEN fs[n + 1].cost ELSE 0)
  <1> DEFINE f == [i \in 1..n |-> fs[i].cost]
             e == [i \in 1..(n + 1) |-> fs[i].cost]
             S == {i \in 1..n : fs[i].venue = v /\ fs[i].out = t}
             R == {i \in 1..(n + 1) : fs[i].venue = v /\ fs[i].out = t}
             here == fs[n + 1].venue = v /\ fs[n + 1].out = t
  <1>1. /\ Costs(fs, n, v, t) = SumOf(f, S) /\ Costs(fs, n + 1, v, t) = SumOf(e, R) BY DEF Costs
  <1>2. n + 1 \in 1..(n + 1) /\ n + 1 \notin S /\ \A i \in 1..n : i \in 1..(n + 1) OBVIOUS
  <1>3. \A i \in 1..(n + 1) : i \in 1..n \/ i = n + 1 OBVIOUS
  <1>4. R = IF here THEN S \cup {n + 1} ELSE S BY <1>2, <1>3
  <1>5. \A i \in S : f[i] \in Int /\ e[i] = f[i] BY <1>2
  <1>6. \A i \in S \cup {n + 1} : e[i] \in Int BY <1>2
  <1>7. IsFiniteSet(S)
    <2>1. IsFiniteSet(1..n) BY FS_Interval
    <2>2. QED BY <2>1, FS_Subset
  <1>8. e[n + 1] = fs[n + 1].cost BY <1>2
  <1> HIDE DEF S, R, e, f
  <1>9. SumOf(e, S) = SumOf(f, S) /\ SumOf(f, S) \in Int BY <1>5, <1>7, SumSame, SumType
  <1>10. SumOf(e, S \cup {n + 1}) = e[n + 1] + SumOf(e, S) BY <1>2, <1>6, <1>7, SumGrows
  <1>11. fs[n + 1].cost \in Nat BY <1>2
  <1>12. QED BY <1>1, <1>4, <1>8, <1>9, <1>10, <1>11

LEMMA StacksAreSaved ==
  ASSUME SwapInv
  PROVE  /\ Committed \in Saved /\ Snapshot \in Saved
         /\ \A i \in 1..Len(frames) : frames[i].saved \in Saved /\ frames[i].cost \in Nat
  <1>1. \A i \in 1..Len(frames) : frames[i] \in FrameType BY StackFacts DEF Frames
  <1>2. \A i \in 1..Len(frames) : frames[i].saved \in Saved /\ frames[i].cost \in Nat
    BY <1>1 DEF FrameType
  <1>3. Snapshot \in Saved BY SnapshotIs DEF SwapInv
  <1>4. QED BY <1>2, <1>3, StackFacts DEF Committed

\* Between transactions nothing is held, and what is committed was taken then.
LEMMA CommittedHoldsNothing ==
  SwapInv /\ HeldInv => \A t \in Tokens :
      Whole(Committed, t) = Due(Committed, t) /\ Due(Committed, t) \in Int
  <1> SUFFICES ASSUME SwapInv, HeldInv, NEW t \in Tokens
               PROVE  Whole(Committed, t) = Due(Committed, t) /\ Due(Committed, t) \in Int
    OBVIOUS
  <1>1. Committed \in Saved BY StacksAreSaved
  <1>2. HoldsWhatWaits(Committed.held, frames, 0)
    <2>1. CASE Idle
      <3>1. Committed.held = held BY <2>1 DEF Committed, Snapshot
      <3>2. Len(frames) = 0 BY <2>1, StackFacts
      <3>3. QED BY <3>1, <3>2 DEF HeldInv
    <2>2. CASE ~Idle
      <3>1. Committed = frames[1].saved /\ 1 \in 1..Len(frames) BY <2>2, StackFacts DEF Committed
      <3>2. QED BY <3>1 DEF HeldInv
    <2>3. QED BY <2>1, <2>2
  <1>3. \A v \in Venues : Committed.held[v][t] = 0 BY <1>2, NoCosts DEF HoldsWhatWaits
  <1>4. \A c \in Saved : (\A v \in Venues : c.held[v][t] = 0) =>
          Whole(c, t) = Due(c, t) /\ Due(c, t) \in Int
    <2>1. SUFFICES ASSUME NEW c \in Saved, \A v \in Venues : c.held[v][t] = 0
                   PROVE  Whole(c, t) = Due(c, t) /\ Due(c, t) \in Int
      OBVIOUS
    <2>2. c.held \in Holdings /\ c.price \in Levels BY DEF Saved
    <2>3. AtMarkets(c.held, c.price, t) = 0 BY <2>1, <2>2, NothingAtMarkets
    <2>4. Due(c, t) \in Int /\ Whole(c, t) = Due(c, t) + AtMarkets(c.held, c.price, t) BY WholeIs
    <2>5. QED BY <2>3, <2>4
  <1>5. QED BY <1>1, <1>3, <1>4

LEMMA BooksFollow ==
  ASSUME SwapInv, SwapInv', Books, HeldInv', Accounted
  PROVE  Books' /\ \A t \in Tokens : Due(Committed', t) >= Due(Committed, t)
  <1>0. \A t \in Tokens :
            Whole(Committed', t) = Due(Committed', t) /\ Due(Committed', t) \in Int
    <2>1. (SwapInv /\ HeldInv => \A t \in Tokens :
             Whole(Committed, t) = Due(Committed, t) /\ Due(Committed, t) \in Int)'
      BY CommittedHoldsNothing, PTL
    <2>2. QED BY <2>1
  <1>1. ASSUME NEW t \in Tokens
        PROVE  /\ Whole(Snapshot', t) >= Whole(Committed, t) /\ Whole(Snapshot, t) >= Whole(Committed, t)
               /\ Whole(Committed, t) = Due(Committed, t) /\ Due(Committed, t) \in Int
               /\ Whole(Committed', t) = Due(Committed', t) /\ Due(Committed', t) \in Int
               /\ \A j \in 1..Len(frames) : Whole(frames[j].saved, t) >= Whole(Committed, t)
    <2>1. Whole(Committed, t) = Due(Committed, t) /\ Due(Committed, t) \in Int
      BY CommittedHoldsNothing DEF Books
    <2>2. Whole(Committed', t) = Due(Committed', t) /\ Due(Committed', t) \in Int
      BY <1>0
    <2>3. QED BY <2>1, <2>2 DEF Books, WholeInv, Accounted
  <1>2. CASE ~Idle'
    <2>1. Committed' = Committed BY <1>2 DEF Accounted
    <2>2. \A t \in Tokens, i \in 1..Len(frames') : Whole(frames'[i].saved, t) >= Whole(Committed, t)
      <3>1. SUFFICES ASSUME NEW t \in Tokens, NEW i \in 1..Len(frames')
                     PROVE  Whole(frames'[i].saved, t) >= Whole(Committed, t)
        OBVIOUS
      <3>2. CASE frames'[i].saved = Snapshot BY <1>1, <3>2
      <3>3. CASE \E j \in 1..Len(frames) : frames'[i].saved = frames[j].saved BY <1>1, <3>3
      <3>4. QED BY <3>2, <3>3 DEF Accounted
    <2>3. WholeInv' BY <1>1, <2>1, <2>2 DEF WholeInv
    <2>4. \A t \in Tokens : Due(Committed', t) >= Due(Committed, t) BY <1>1, <2>1
    <2>5. QED BY <2>3, <2>4 DEF Books
  <1>3. CASE Idle'
    <2>1. Committed' = Snapshot' BY <1>3 DEF Committed
    <2>2. 1..Len(frames') = {}
      <3>1. Len(frames') = 0 BY <1>3, EmptySeq DEF Idle
      <3>2. QED BY <3>1
    <2>3. WholeInv' BY <1>1, <2>1, <2>2 DEF WholeInv
    <2>4. \A t \in Tokens : Due(Committed', t) >= Due(Committed, t) BY <1>1, <2>1
    <2>5. QED BY <2>3, <2>4 DEF Books
  <1>4. QED BY <1>2, <1>3

-----------------------------------------------------------------------------
(* What each step does to the books. *)

LEMMA WholeNow ==
  Typed => \A t \in Tokens :
      /\ wallet[t] \in Nat /\ AtMarkets(shares, price, t) \in Int /\ AtMarkets(held, price, t) \in Int
      /\ Promised(ledger, t) \in Int /\ earned[t] \in Int /\ Whole(Snapshot, t) \in Int
      /\ Whole(Snapshot, t) = (((Par * wallet[t] + AtMarkets(shares, price, t))
            - Par * Promised(ledger, t)) - earned[t]) + AtMarkets(held, price, t)
  <1> SUFFICES ASSUME Typed, NEW t \in Tokens
               PROVE  /\ wallet[t] \in Nat /\ AtMarkets(shares, price, t) \in Int
                      /\ AtMarkets(held, price, t) \in Int /\ Promised(ledger, t) \in Int
                      /\ earned[t] \in Int /\ Whole(Snapshot, t) \in Int
                      /\ Whole(Snapshot, t) = (((Par * wallet[t] + AtMarkets(shares, price, t))
                            - Par * Promised(ledger, t)) - earned[t]) + AtMarkets(held, price, t)
    OBVIOUS
  <1>1. /\ Snapshot \in Saved /\ Snapshot.ledger = ledger /\ Snapshot.wallet = wallet
        /\ Snapshot.shares = shares /\ Snapshot.held = held
        /\ Snapshot.price = price /\ Snapshot.earned = earned
    BY SnapshotIs
  <1>2. wallet[t] \in Nat BY DEF Typed, Purses
  <1>3. /\ AtMarkets(Snapshot.shares, Snapshot.price, t) \in Int
        /\ Promised(Snapshot.ledger, t) \in Int /\ AtMarkets(Snapshot.held, Snapshot.price, t) \in Int
        /\ Snapshot.earned[t] \in Int /\ Whole(Snapshot, t) \in Int
        /\ Due(Snapshot, t) = ((Par * Snapshot.wallet[t] + AtMarkets(Snapshot.shares, Snapshot.price, t))
             - Par * Promised(Snapshot.ledger, t)) - Snapshot.earned[t]
        /\ Whole(Snapshot, t) = Due(Snapshot, t) + AtMarkets(Snapshot.held, Snapshot.price, t)
    BY <1>1, WholeIs
  <1>4. QED BY <1>1, <1>2, <1>3

LEMMA WholeNext ==
  ASSUME Typed'
  PROVE  \A t \in Tokens :
      /\ wallet'[t] \in Nat /\ AtMarkets(shares', price', t) \in Int /\ AtMarkets(held', price', t) \in Int
      /\ Promised(ledger', t) \in Int /\ earned'[t] \in Int /\ Whole(Snapshot', t) \in Int
      /\ Whole(Snapshot', t) = (((Par * wallet'[t] + AtMarkets(shares', price', t))
            - Par * Promised(ledger', t)) - earned'[t]) + AtMarkets(held', price', t)
  <1>1. (Typed => \A t \in Tokens :
          /\ wallet[t] \in Nat /\ AtMarkets(shares, price, t) \in Int /\ AtMarkets(held, price, t) \in Int
          /\ Promised(ledger, t) \in Int /\ earned[t] \in Int /\ Whole(Snapshot, t) \in Int
          /\ Whole(Snapshot, t) = (((Par * wallet[t] + AtMarkets(shares, price, t))
                - Par * Promised(ledger, t)) - earned[t]) + AtMarkets(held, price, t))'
    BY WholeNow, PTL
  <1>2. QED BY <1>1

LEMMA WholeMoves ==
  ASSUME Typed, Typed', NEW u \in Tokens,
         NEW w \in Int, NEW s \in Int, NEW h \in Int, NEW p \in Int, NEW e \in Int,
         wallet'[u] = wallet[u] + w, AtMarkets(shares', price', u) = AtMarkets(shares, price, u) + s,
         AtMarkets(held', price', u) = AtMarkets(held, price, u) + h,
         Promised(ledger', u) = Promised(ledger, u) + p, earned'[u] = earned[u] + e
  PROVE  /\ Whole(Snapshot, u) \in Int /\ Whole(Snapshot', u) \in Int
         /\ Whole(Snapshot', u) = Whole(Snapshot, u) + (((Par * w + s) + h) - (Par * p + e))
  <1>1. PICK a \in Int, b \in Int, c \in Int, d \in Int, g \in Int :
          /\ a = wallet[u] /\ b = AtMarkets(shares, price, u) /\ c = AtMarkets(held, price, u)
          /\ d = Promised(ledger, u) /\ g = earned[u] /\ Whole(Snapshot, u) \in Int
          /\ Whole(Snapshot, u) = (((Par * a + b) - Par * d) - g) + c
    <2>1. wallet[u] \in Int BY WholeNow
    <2>2. QED BY <2>1, WholeNow
  <1>2. /\ Whole(Snapshot', u) \in Int
        /\ Whole(Snapshot', u) = (((Par * (a + w) + (b + s)) - Par * (d + p)) - (g + e)) + (c + h)
    BY <1>1, WholeNext
  <1>3. Par \in Int BY Bounds
  <1>4. Par * (a + w) = Par * a + Par * w /\ Par * (d + p) = Par * d + Par * p BY <1>3, SMT
  <1>5. Par * a \in Int /\ Par * w \in Int /\ Par * d \in Int /\ Par * p \in Int BY <1>3
  <1>6. PICK i \in Int, j \in Int, k \in Int, l \in Int :
          i = Par * a /\ j = Par * w /\ k = Par * d /\ l = Par * p
    BY <1>5
  <1>7. /\ Whole(Snapshot, u) = (((i + b) - k) - g) + c
        /\ Whole(Snapshot', u) = ((((i + j) + (b + s)) - (k + l)) - (g + e)) + (c + h)
    BY <1>1, <1>2, <1>4, <1>6
  <1>8. Whole(Snapshot', u) = Whole(Snapshot, u) + (((j + s) + h) - (l + e)) BY <1>7
  <1>9. QED BY <1>1, <1>2, <1>6, <1>8

\* A step beside the open swaps that leaves the maker no poorer.
LEMMA BesideBooks ==
  ASSUME SwapInv, Books, Typed', frames' = frames, held' = held,
         \A t \in Tokens : Whole(Snapshot', t) >= Whole(Snapshot, t)
  PROVE  HeldInv' /\ Accounted
  <1>1. HeldInv' BY DEF Books, HeldInv
  <1>2. \A t \in Tokens : Whole(Snapshot', t) >= Whole(Committed, t)
    <2>1. SUFFICES ASSUME NEW t \in Tokens PROVE Whole(Snapshot', t) >= Whole(Committed, t) OBVIOUS
    <2>2. Whole(Snapshot', t) \in Int /\ Whole(Snapshot, t) \in Int BY WholeNow, WholeNext DEF SwapInv
    <2>3. Whole(Committed, t) \in Int BY StacksAreSaved, WholeIs
    <2>4. Whole(Snapshot', t) >= Whole(Snapshot, t) /\ Whole(Snapshot, t) >= Whole(Committed, t)
      BY DEF Books, WholeInv
    <2>5. QED BY <2>2, <2>3, <2>4
  <1>3. ~Idle' => Committed' = Committed BY DEF Idle, Committed
  <1>4. QED BY <1>1, <1>2, <1>3 DEF Accounted

LEMMA PushBooks ==
  ASSUME SwapInv, Books, SwapInv', NEW m \in Mandates, NEW t \in Tokens, NEW x \in Amounts, Push(m, t, x)
  PROVE  HeldInv' /\ Accounted
  <1>1. Typed /\ Typed' /\ x \in Nat BY Bounds DEF SwapInv
  <1>2. /\ ledger' = [ledger EXCEPT ![m][t] = ledger[m][t] + x]
        /\ wallet' = [wallet EXCEPT ![t] = wallet[t] + x]
        /\ UNCHANGED <<shares, held, price, earned, frames>>
    BY DEF Push, market
  <1>3. ledger \in Ledgers /\ ledger' \in Ledgers BY <1>1 DEF Typed
  <1>4. \A r \in Mandates, u \in Tokens : r # m \/ u # t => ledger'[r][u] = ledger[r][u]
    BY <1>2, <1>3 DEF Ledgers
  <1>5. ledger'[m][t] - ledger[m][t] = x
    <2>1. ledger'[m][t] = ledger[m][t] + x /\ ledger[m][t] \in Nat BY <1>2, <1>3 DEF Ledgers
    <2>2. QED BY <1>1, <2>1
  <1>6. \A u \in Tokens : Promised(ledger', u) = Promised(ledger, u) + (IF u = t THEN x ELSE 0)
    BY <1>3, <1>4, <1>5, PromisedMoves
  <1>7. \A u \in Tokens : wallet'[u] = wallet[u] + (IF u = t THEN x ELSE 0)
    BY <1>1, <1>2 DEF Typed, Purses
  <1>8. \A u \in Tokens : Whole(Snapshot', u) >= Whole(Snapshot, u)
    <2>1. SUFFICES ASSUME NEW u \in Tokens PROVE Whole(Snapshot', u) >= Whole(Snapshot, u) OBVIOUS
    <2> DEFINE d == IF u = t THEN x ELSE 0
    <2>2. d \in Int BY <1>1
    <2>3. wallet'[u] = wallet[u] + d /\ Promised(ledger', u) = Promised(ledger, u) + d BY <1>6, <1>7
    <2> HIDE DEF d
    <2>4. /\ AtMarkets(shares', price', u) = AtMarkets(shares, price, u) + 0
          /\ AtMarkets(held', price', u) = AtMarkets(held, price, u) + 0 /\ earned'[u] = earned[u] + 0
      BY <1>1, <1>2, WholeNow
    <2>5. /\ Whole(Snapshot', u) = Whole(Snapshot, u) + (((Par * d + 0) + 0) - (Par * d + 0))
          /\ Whole(Snapshot, u) \in Int
      BY <1>1, <2>2, <2>3, <2>4, WholeMoves
    <2>6. Par * d \in Int BY <2>2, Bounds
    <2>7. QED BY <2>5, <2>6
  <1>9. QED BY <1>1, <1>2, <1>8, BesideBooks

LEMMA DockBooks ==
  ASSUME SwapInv, Books, SwapInv', NEW m \in Mandates, Dock(m)
  PROVE  HeldInv' /\ Accounted
  <1>1. Typed /\ Typed' BY DEF SwapInv
  <1>2. /\ ledger' = [ledger EXCEPT ![m] = [t \in Tokens |-> 0]]
        /\ UNCHANGED <<wallet, shares, held, price, earned, frames>>
    BY DEF Dock, maker, market
  <1>3. ledger \in Ledgers /\ ledger' \in Ledgers BY <1>1 DEF Typed
  <1>4. \A r \in Mandates, u \in Tokens : ledger'[r][u] =< ledger[r][u]
    <2>1. \A r \in Mandates, u \in Tokens : ledger[r][u] \in Nat BY <1>3 DEF Ledgers
    <2>2. \A r \in Mandates, u \in Tokens : ledger'[r][u] = 0 \/ ledger'[r][u] = ledger[r][u]
      BY <1>2, <1>3 DEF Ledgers
    <2>3. QED BY <2>1, <2>2
  <1>5. \A u \in Tokens : Promised(ledger', u) =< Promised(ledger, u) BY <1>3, <1>4, PromisedFalls
  <1>6. \A u \in Tokens : Whole(Snapshot', u) >= Whole(Snapshot, u)
    <2>1. SUFFICES ASSUME NEW u \in Tokens PROVE Whole(Snapshot', u) >= Whole(Snapshot, u) OBVIOUS
    <2> DEFINE p == Promised(ledger', u) - Promised(ledger, u)
    <2>2. Promised(ledger', u) \in Int /\ Promised(ledger, u) \in Int BY <1>1, WholeNow, WholeNext
    <2>3. p \in Int /\ p =< 0 /\ Promised(ledger', u) = Promised(ledger, u) + p BY <1>5, <2>2
    <2> HIDE DEF p
    <2>4. /\ wallet'[u] = wallet[u] + 0 /\ AtMarkets(shares', price', u) = AtMarkets(shares, price, u) + 0
          /\ AtMarkets(held', price', u) = AtMarkets(held, price, u) + 0 /\ earned'[u] = earned[u] + 0
      BY <1>1, <1>2, WholeNow
    <2>5. /\ Whole(Snapshot', u) = Whole(Snapshot, u) + (((Par * 0 + 0) + 0) - (Par * p + 0))
          /\ Whole(Snapshot, u) \in Int
      BY <1>1, <2>3, <2>4, WholeMoves
    <2>6. Par * 0 = 0 /\ Par * p \in Int /\ Par * p =< 0
      <3>1. \A a \in Nat, b \in Int : b =< 0 => a * b =< 0 /\ a * b \in Int /\ a * 0 = 0 BY SMT
      <3>2. QED BY <2>3, <3>1, Bounds
    <2>7. QED BY <2>5, <2>6
  <1>7. QED BY <1>1, <1>2, <1>6, BesideBooks

\* The wallet, the receipts and what prices brought change, and nothing else.
LEMMA PaysForItself ==
  ASSUME Typed, Typed', NEW u \in Tokens, NEW w \in Int, NEW s \in Int, NEW e \in Int, NEW i \in Int,
         wallet'[u] = wallet[u] + w, AtMarkets(shares', price', u) = AtMarkets(shares, price, u) + s,
         AtMarkets(held', price', u) = AtMarkets(held, price, u) + 0,
         Promised(ledger', u) = Promised(ledger, u) + 0, earned'[u] = earned[u] + e,
         i = Par * w, (i + s) - e >= 0
  PROVE  Whole(Snapshot', u) >= Whole(Snapshot, u)
  <1>1. /\ Whole(Snapshot, u) \in Int
        /\ Whole(Snapshot', u) = Whole(Snapshot, u) + (((Par * w + s) + 0) - (Par * 0 + e))
    BY WholeMoves
  <1>2. Par * 0 = 0 BY Bounds
  <1>3. QED BY <1>1, <1>2

\* Idle capital moves, d of it out of the wallet for k receipts: a rounding apart.
Fair(k, d, v, t) == k * PriceAt(price, v, t) >= Par * d - Rounding(v, t)

LEMMA MovesBooks ==
  ASSUME SwapInv, Books, SwapInv', NEW v \in Venues, NEW t \in Tokens, NEW d \in Int, NEW k \in Int,
         UNCHANGED <<ledger, held, price, frames>>, Converts(v, t),
         \A u \in Tokens : wallet'[u] = wallet[u] - (IF u = t THEN d ELSE 0),
         \A r \in Venues, u \in Tokens : r # v \/ u # t => shares'[r][u] = shares[r][u],
         shares'[v][t] = shares[v][t] + k,
         Fair(k, d, v, t)
  PROVE  HeldInv' /\ Accounted
  <1>1. Typed /\ Typed' BY DEF SwapInv
  <1>2. shares \in Holdings /\ shares' \in Holdings /\ price \in Levels BY <1>1 DEF Typed
  <1>3. PICK y \in Int, n \in Int, z \in Int :
          y = k * PriceAt(price, v, t) /\ n = Rounding(v, t) /\ z = Par * d /\ y >= z - n
    <2>1. PriceAt(price, v, t) \in Int /\ Par \in Int BY <1>2, PriceIs, Bounds
    <2>2. Rounding(v, t) \in Int
      <3>1. 0 \in Nat OBVIOUS
      <3>2. QED BY <1>1, <3>1, SharesAreWorth
    <2>3. \A a, b \in Int : a * b \in Int OBVIOUS
    <2>4. QED BY <2>1, <2>2, <2>3 DEF Fair
  <1>4. \A u \in Tokens :
          AtMarkets(shares', price, u) = AtMarkets(shares, price, u) + (IF u = t THEN y ELSE 0)
    BY <1>2, <1>3, PositionMoves
  <1>5. \A u \in Tokens : earned'[u] = earned[u] - (IF u = t THEN n ELSE 0) BY <1>1, <1>3, ConvertsIs
  <1>6. \A u \in Tokens : Whole(Snapshot', u) >= Whole(Snapshot, u)
    <2>1. SUFFICES ASSUME NEW u \in Tokens PROVE Whole(Snapshot', u) >= Whole(Snapshot, u) OBVIOUS
    <2> DEFINE w == IF u = t THEN -d ELSE 0
               s == IF u = t THEN y ELSE 0
               e == IF u = t THEN -n ELSE 0
    <2>2. w \in Int /\ s \in Int /\ e \in Int /\ 0 \in Int OBVIOUS
    <2>3. /\ wallet'[u] = wallet[u] + w /\ AtMarkets(shares', price', u) = AtMarkets(shares, price, u) + s
          /\ AtMarkets(held', price', u) = AtMarkets(held, price, u) + 0
          /\ Promised(ledger', u) = Promised(ledger, u) + 0 /\ earned'[u] = earned[u] + e
      BY <1>1, <1>4, <1>5, WholeNow
    <2>4. Par * w = (IF u = t THEN -z ELSE 0) /\ Par * 0 = 0
      <3>1. Par * (-d) = -(Par * d) /\ Par * 0 = 0 BY SMT, Bounds
      <3>2. QED BY <1>3, <3>1
    <2>5. (Par * w + s) - e >= 0 BY <1>3, <2>4
    <2>6. PICK i \in Int : i = Par * w BY <2>4
    <2> HIDE DEF w, s, e
    <2>7. QED BY <1>1, <2>2, <2>3, <2>4, <2>5, <2>6, PaysForItself
  <1>7. QED BY <1>1, <1>6, BesideBooks

LEMMA SupplyIdleBooks ==
  ASSUME SwapInv, Books, SwapInv', NEW v \in Venues, NEW t \in Tokens, NEW x \in Amounts,
         SupplyIdle(v, t, x)
  PROVE  HeldInv' /\ Accounted
  <1>1. Typed /\ x \in Nat /\ wallet \in Purses /\ shares \in Holdings BY Bounds DEF SwapInv, Typed
  <1>2. PICK k \in Nat : k = Minted(v, t, x) /\ k * PriceAt(price, v, t) >= Par * x - Rounding(v, t)
    BY <1>1, SharesAreWorth
  <1>3. /\ wallet' = [wallet EXCEPT ![t] = wallet[t] - x]
        /\ shares' = [shares EXCEPT ![v][t] = shares[v][t] + k]
        /\ Converts(v, t) /\ UNCHANGED <<ledger, held, price, frames>>
    BY <1>2 DEF SupplyIdle, aqua
  <1>4. \A u \in Tokens : wallet[u] \in Nat BY <1>1 DEF Purses
  <1>5. \A u \in Tokens : wallet'[u] = wallet[u] - (IF u = t THEN x ELSE 0)
    BY <1>1, <1>3, <1>4 DEF Purses
  <1>6. /\ \A r \in Venues, u \in Tokens : r # v \/ u # t => shares'[r][u] = shares[r][u]
        /\ shares'[v][t] = shares[v][t] + k
    BY <1>1, <1>3 DEF Holdings
  <1>7. Fair(k, x, v, t) BY <1>2 DEF Fair
  <1>8. QED BY <1>1, <1>2, <1>3, <1>5, <1>6, <1>7, MovesBooks

LEMMA WithdrawIdleBooks ==
  ASSUME SwapInv, Books, SwapInv', NEW v \in Venues, NEW t \in Tokens, NEW x \in Amounts,
         WithdrawIdle(v, t, x)
  PROVE  HeldInv' /\ Accounted
  <1>1. Typed /\ x \in Nat /\ wallet \in Purses /\ shares \in Holdings /\ price \in Levels
    BY Bounds DEF SwapInv, Typed
  <1>2. PICK k \in Nat : k = SharesFor(v, t, x) /\ k * PriceAt(price, v, t) =< Par * x + Rounding(v, t)
    BY <1>1, SharesAreWorth
  <1>3. /\ wallet' = [wallet EXCEPT ![t] = wallet[t] + x]
        /\ shares' = [shares EXCEPT ![v][t] = shares[v][t] - k]
        /\ Converts(v, t) /\ UNCHANGED <<ledger, held, price, frames>>
    BY <1>2 DEF WithdrawIdle, aqua
  <1>4. /\ \A u \in Tokens : wallet[u] \in Nat
        /\ \A u \in Tokens : u # t => wallet'[u] = wallet[u]
        /\ wallet'[t] = wallet[t] + x
    BY <1>1, <1>3 DEF Purses
  <1> DEFINE d == -x
             y == -k
  <1>5. d \in Int /\ y \in Int /\ d = -x /\ y = -k BY <1>1
  <1> HIDE DEF d, y
  <1>6. \A u \in Tokens : wallet'[u] = wallet[u] - (IF u = t THEN d ELSE 0) BY <1>1, <1>4, <1>5
  <1>7. /\ \A r \in Venues, u \in Tokens : r # v \/ u # t => shares'[r][u] = shares[r][u]
        /\ shares'[v][t] = shares[v][t] - k /\ shares[v][t] \in Nat
    BY <1>1, <1>3 DEF Holdings
  <1>8. shares'[v][t] = shares[v][t] + y BY <1>5, <1>7
  <1>9. Fair(y, d, v, t)
    <2>1. PICK q \in Int, n \in Int : q = PriceAt(price, v, t) /\ n = Rounding(v, t)
      BY <1>1, PriceIs, SharesAreWorth
    <2>2. y * q = -(k * q) /\ Par * d = -(Par * x) BY <1>1, <1>5, Bounds, SMT
    <2>3. k * q \in Int /\ Par * x \in Int BY <1>1, Bounds
    <2>4. k * q =< Par * x + n BY <1>2, <2>1
    <2>5. QED BY <2>1, <2>2, <2>3, <2>4 DEF Fair
  <1>10. QED BY <1>1, <1>3, <1>5, <1>6, <1>7, <1>8, <1>9, MovesBooks

\* What a share gains or loses is set against what prices have brought, in flight too.
LEMMA RepricesBooks ==
  ASSUME SwapInv, Books, SwapInv', NEW v \in SharePriced, NEW t \in Tokens, NEW y \in Prices,
         Reprices(v, t, y)
  PROVE  HeldInv' /\ Accounted
  <1>1. Typed /\ Typed' BY DEF SwapInv
  <1>2. /\ price' \in Levels /\ price'[v][t] = y /\ v \in Venues
        /\ \A r \in SharePriced, u \in Tokens : r # v \/ u # t => price'[r][u] = price[r][u]
        /\ \A u \in Tokens : earned'[u] = earned[u]
             + (IF u = t THEN (y - price[v][t]) * (shares[v][t] + held[v][t]) ELSE 0)
        /\ UNCHANGED <<ledger, wallet, shares, held, frames>>
    BY <1>1, RepricesIs
  <1>3. shares \in Holdings /\ held \in Holdings /\ price \in Levels BY <1>1 DEF Typed
  <1>4. \A r \in Venues, u \in Tokens : r # v \/ u # t => PriceAt(price', r, u) = PriceAt(price, r, u)
    BY <1>2 DEF PriceAt
  <1>5. PICK q \in Int, a \in Int, b \in Int, x \in Int :
          q = price[v][t] /\ a = shares[v][t] /\ b = held[v][t] /\ x = y
    <2>1. y \in Int
      <3>1. y \in Nat \ {0} BY Bounds
      <3>2. QED BY <3>1
    <2>2. price[v][t] \in Int
      <3>1. price[v][t] \in Prices BY <1>3 DEF Levels
      <3>2. price[v][t] \in Nat \ {0} BY <3>1, Bounds
      <3>3. QED BY <3>2
    <2>3. shares[v][t] \in Int /\ held[v][t] \in Int BY <1>2, <1>3 DEF Holdings
    <2>4. QED BY <2>1, <2>2, <2>3
  <1>6. PriceAt(price', v, t) = x /\ PriceAt(price, v, t) = q BY <1>2, <1>5 DEF PriceAt
  <1>7. /\ a * x = a * q + a * (x - q) /\ b * x = b * q + b * (x - q)
        /\ (x - q) * (a + b) = a * (x - q) + b * (x - q)
    BY SMT
  <1>8. PICK i \in Int, j \in Int : i = a * (x - q) /\ j = b * (x - q)
    <2>1. x - q \in Int OBVIOUS
    <2>2. QED BY <2>1
  <1>9. Worth(shares, price', v, t) = Worth(shares, price, v, t) + i
    BY <1>5, <1>6, <1>7, <1>8 DEF Worth
  <1>10. Worth(held, price', v, t) = Worth(held, price, v, t) + j
    BY <1>5, <1>6, <1>7, <1>8 DEF Worth
  <1>11. \A u \in Tokens :
           AtMarkets(shares, price', u) = AtMarkets(shares, price, u) + (IF u = t THEN i ELSE 0)
    BY <1>2, <1>3, <1>4, <1>9, MarketsMove
  <1>12. \A u \in Tokens :
           AtMarkets(held, price', u) = AtMarkets(held, price, u) + (IF u = t THEN j ELSE 0)
    BY <1>2, <1>3, <1>4, <1>10, MarketsMove
  <1>13. \A u \in Tokens : earned'[u] = earned[u] + (IF u = t THEN i + j ELSE 0)
    BY <1>2, <1>5, <1>7, <1>8
  <1>14. \A u \in Tokens : Whole(Snapshot', u) >= Whole(Snapshot, u)
    <2>1. SUFFICES ASSUME NEW u \in Tokens PROVE Whole(Snapshot', u) >= Whole(Snapshot, u) OBVIOUS
    <2> DEFINE s == IF u = t THEN i ELSE 0
               h == IF u = t THEN j ELSE 0
               e == IF u = t THEN i + j ELSE 0
    <2>2. s \in Int /\ h \in Int /\ e \in Int /\ s + h = e OBVIOUS
    <2>3. /\ AtMarkets(shares', price', u) = AtMarkets(shares, price, u) + s
          /\ AtMarkets(held', price', u) = AtMarkets(held, price, u) + h /\ earned'[u] = earned[u] + e
      BY <1>2, <1>11, <1>12, <1>13
    <2> HIDE DEF s, h, e
    <2>4. wallet'[u] = wallet[u] + 0 /\ Promised(ledger', u) = Promised(ledger, u) + 0
      BY <1>1, <1>2, WholeNow
    <2>5. /\ Whole(Snapshot', u) = Whole(Snapshot, u) + (((Par * 0 + s) + h) - (Par * 0 + e))
          /\ Whole(Snapshot, u) \in Int
      BY <1>1, <2>2, <2>3, <2>4, WholeMoves
    <2>6. Par * 0 = 0 BY Bounds
    <2>7. QED BY <2>2, <2>5, <2>6
  <1>15. QED BY <1>1, <1>2, <1>14, BesideBooks

LEMMA StillBooks ==
  ASSUME SwapInv, Books, SwapInv', UNCHANGED <<ledger, wallet, shares, held, price, earned, frames>>
  PROVE  HeldInv' /\ Accounted
  <1>1. Typed /\ Typed' BY DEF SwapInv
  <1>2. \A u \in Tokens : Whole(Snapshot', u) >= Whole(Snapshot, u) BY <1>1, WholeNow, WholeNext
  <1>3. QED BY <1>1, <1>2, BesideBooks

\* A swap begins: it pulls in what it waits for, out of the maker's receipts.
LEMMA OpensBooks ==
  ASSUME SwapInv, Books, SwapInv', NEW f \in Frames, f.saved = Snapshot,
         Len(frames') = Len(frames) + 1, frames'[Len(frames) + 1] = f,
         \A i \in 1..Len(frames) : frames'[i] = frames[i],
         \A v \in Venues, t \in Tokens :
            held'[v][t] = held[v][t] + (IF f.venue = v /\ f.out = t THEN f.cost ELSE 0),
         Unwinding(f) => f.beforePull = held[f.venue][f.out],
         \A t \in Tokens : Whole(Snapshot', t) = Whole(Snapshot, t)
  PROVE  HeldInv' /\ Accounted
  <1> DEFINE n == Len(frames)
  <1>1. frames \in Seq(Frames) /\ n \in Nat BY StackFacts DEF SwapInv, Stacked
  <1>2. /\ Len(frames') = n + 1 /\ frames'[n + 1] = f /\ \A i \in 1..n : frames'[i] = frames[i]
    OBVIOUS
  <1>3. Snapshot.held = held BY DEF Snapshot
  <1>4. HeldInv BY DEF Books
  <1> HIDE DEF n
  <1>5. \A i \in 1..(n + 1) : i \in 1..n \/ i = n + 1 BY <1>1
  <1>6. \A k \in 0..n : \A v, t : Costs(frames', k, v, t) = Costs(frames, k, v, t)
    <2>1. SUFFICES ASSUME NEW k \in 0..n
                   PROVE  \A v, t : Costs(frames', k, v, t) = Costs(frames, k, v, t)
      OBVIOUS
    <2>2. k \in Nat /\ \A j \in 1..k : frames'[j] = frames[j] BY <1>1, <1>2
    <2>3. QED BY <2>2, CostsLookBelow
  <1>7. HoldsWhatWaits(held', frames', n + 1)
    <2>1. SUFFICES ASSUME NEW v \in Venues, NEW t \in Tokens PROVE held'[v][t] = Costs(frames', n + 1, v, t)
      BY DEF HoldsWhatWaits
    <2>2. \A i \in 1..(n + 1) : frames'[i].cost \in Nat
      <3>1. f.cost \in Nat BY DEF Frames, FrameType
      <3>2. \A i \in 1..n : frames[i].cost \in Nat BY StacksAreSaved DEF n
      <3>3. QED BY <1>2, <1>5, <3>1, <3>2
    <2>3. Costs(frames', n + 1, v, t)
            = Costs(frames', n, v, t) + (IF f.venue = v /\ f.out = t THEN f.cost ELSE 0)
      <3>1. \A fs, g : (\A i \in 1..(n + 1) : fs[i].cost \in Nat) /\ g = fs[n + 1] =>
              Costs(fs, n + 1, v, t) = Costs(fs, n, v, t) + (IF g.venue = v /\ g.out = t THEN g.cost ELSE 0)
        BY SMTT(30), <1>1, CostsGrow
      <3>2. QED BY <1>2, <2>2, <3>1
    <2>4. Costs(frames', n, v, t) = Costs(frames, n, v, t) BY <1>1, <1>6
    <2>5. held[v][t] = Costs(frames, n, v, t) BY <1>4 DEF HeldInv, HoldsWhatWaits, n
    <2>6. QED BY <1>2, <2>3, <2>4, <2>5
  <1>8. \A i \in 1..(n + 1) : HoldsWhatWaits(frames'[i].saved.held, frames', i - 1)
    <2>1. SUFFICES ASSUME NEW i \in 1..(n + 1) PROVE HoldsWhatWaits(frames'[i].saved.held, frames', i - 1)
      OBVIOUS
    <2>2. i - 1 \in 0..n BY <1>1
    <2>3. HoldsWhatWaits(frames'[i].saved.held, frames, i - 1)
      <3>1. CASE i \in 1..n BY <1>2, <1>4, <3>1 DEF HeldInv, n
      <3>2. CASE i = n + 1
        <4>1. frames'[i].saved.held = held BY <1>2, <1>3, <3>2
        <4>2. i - 1 = n BY <1>1, <3>2
        <4>3. HoldsWhatWaits(held, frames, n) BY <1>4 DEF HeldInv, n
        <4>4. QED BY <4>1, <4>2, <4>3
      <3>3. QED BY <1>5, <3>1, <3>2
    <2>4. QED BY <1>6, <2>2, <2>3 DEF HoldsWhatWaits
  <1>9. \A i \in 1..(n + 1) : Unwinding(frames'[i]) =>
          frames'[i].beforePull = frames'[i].saved.held[frames'[i].venue][frames'[i].out]
    <2>1. SUFFICES ASSUME NEW i \in 1..(n + 1), Unwinding(frames'[i])
                   PROVE  frames'[i].beforePull = frames'[i].saved.held[frames'[i].venue][frames'[i].out]
      OBVIOUS
    <2>2. CASE i \in 1..n
      <3>1. frames'[i] = frames[i] /\ Unwinding(frames[i]) BY <1>2, <2>1, <2>2
      <3>2. frames[i].beforePull = frames[i].saved.held[frames[i].venue][frames[i].out]
        BY <1>4, <2>2, <3>1 DEF HeldInv, n
      <3>3. QED BY <3>1, <3>2
    <2>3. CASE i = n + 1
      <3>1. frames'[i] = f /\ Unwinding(f) BY <1>2, <2>1, <2>3
      <3>2. f.saved.held = held BY <1>3
      <3>3. QED BY <3>1, <3>2
    <2>4. QED BY <1>5, <2>2, <2>3
  <1>10. HeldInv' BY <1>2, <1>7, <1>8, <1>9 DEF HeldInv
  <1>11. \A t \in Tokens : Whole(Snapshot', t) >= Whole(Committed, t) BY DEF Books, WholeInv
  <1>12. ~Idle' => Committed' = Committed
    <2>1. CASE Idle
      <3>1. n = 0 /\ frames'[1] = f BY <1>2, <2>1, StackFacts DEF n
      <3>2. Committed = Snapshot BY <2>1 DEF Committed
      <3>3. QED BY <3>1, <3>2 DEF Committed
    <2>2. CASE ~Idle
      <3>1. frames'[1] = frames[1] BY <1>2, <2>2, StackFacts DEF n
      <3>2. QED BY <2>2, <3>1 DEF Committed
    <2>3. QED BY <2>1, <2>2
  <1>13. \A i \in 1..(n + 1) :
            frames'[i].saved = Snapshot \/ \E j \in 1..n : frames'[i].saved = frames[j].saved
    BY <1>2, <1>5
  <1>14. QED BY <1>2, <1>10, <1>11, <1>12, <1>13 DEF Accounted, n

\* The books when a swap is over: the top of the stack goes.
LEMMA ClosesBooks ==
  ASSUME SwapInv, Books, SwapInv', ~Idle, frames' = Pop,
         HoldsWhatWaits(held', frames, Len(frames) - 1),
         \A t \in Tokens : Whole(Snapshot', t) >= Whole(Committed, t)
  PROVE  HeldInv' /\ Accounted
  <1> DEFINE n == Len(frames)
  <1>1. /\ Len(frames') = n - 1 /\ \A i \in 1..(n - 1) : frames'[i] = frames[i]
    BY PopIs
  <1>2. n \in Nat \ {0} BY StackFacts
  <1>3. HeldInv BY DEF Books
  <1>4. HoldsWhatWaits(held', frames, n - 1) OBVIOUS
  <1> HIDE DEF n
  <1>5. \A k \in 0..(n - 1) : \A v, t : Costs(frames', k, v, t) = Costs(frames, k, v, t)
    <2>1. SUFFICES ASSUME NEW k \in 0..(n - 1)
                   PROVE  \A v, t : Costs(frames', k, v, t) = Costs(frames, k, v, t)
      OBVIOUS
    <2>2. k \in Nat /\ \A j \in 1..k : frames'[j] = frames[j] BY <1>1, <1>2
    <2>3. QED BY <2>2, CostsLookBelow
  <1>6. \A i \in 1..(n - 1) : i \in 1..n /\ i - 1 \in 0..(n - 1) BY <1>2
  <1>7. n - 1 \in 0..(n - 1) BY <1>2
  <1>8. HoldsWhatWaits(held', frames', n - 1) BY <1>4, <1>5, <1>7 DEF HoldsWhatWaits
  <1>9. \A i \in 1..(n - 1) : HoldsWhatWaits(frames'[i].saved.held, frames', i - 1)
    <2>1. \A i \in 1..(n - 1) : HoldsWhatWaits(frames[i].saved.held, frames, i - 1)
      BY <1>3, <1>6 DEF HeldInv, n
    <2>2. QED BY <1>1, <1>5, <1>6, <2>1 DEF HoldsWhatWaits
  <1>10. \A i \in 1..(n - 1) : Unwinding(frames'[i]) =>
          frames'[i].beforePull = frames'[i].saved.held[frames'[i].venue][frames'[i].out]
    <2>1. SUFFICES ASSUME NEW i \in 1..(n - 1), Unwinding(frames'[i])
                   PROVE  frames'[i].beforePull = frames'[i].saved.held[frames'[i].venue][frames'[i].out]
      OBVIOUS
    <2>2. frames'[i] = frames[i] /\ i \in 1..n BY <1>1, <1>6
    <2>3. QED BY <1>3, <2>1, <2>2 DEF HeldInv, n
  <1>11. HeldInv' BY <1>1, <1>8, <1>9, <1>10 DEF HeldInv
  <1>12. ~Idle' => Committed' = Committed
    <2>1. ~Idle' => n - 1 # 0
      <3>1. frames' \in Seq(Frames) BY PopIs
      <3>2. QED BY <1>1, <3>1, EmptySeq DEF Idle
    <2>2. n - 1 # 0 => 1 \in 1..(n - 1) BY <1>2
    <2>3. ~Idle' => frames'[1] = frames[1] BY <1>1, <2>1, <2>2
    <2>4. QED BY <2>3 DEF Committed
  <1>13. \A i \in 1..(n - 1) : \E j \in 1..n : frames'[i].saved = frames[j].saved BY <1>1, <1>6
  <1>14. QED BY <1>1, <1>11, <1>12, <1>13 DEF Accounted, n

LEMMA TakerReturnsBooks ==
  ASSUME SwapInv, Books, SwapInv', TakerReturns
  PROVE  HeldInv' /\ Accounted
  <1> DEFINE n == Len(frames)
  <1>1. /\ ~Idle /\ ~Unwinding(Top) /\ frames' = Pop
        /\ UNCHANGED <<ledger, budget, docked, wallet, shares, held, liquidity, price, earned>>
    BY DEF TakerReturns, aqua, maker, market
  <1>2. n \in Nat \ {0} BY <1>1, StackFacts
  <1>3. HoldsWhatWaits(held', frames, n - 1)
    <2>1. SUFFICES ASSUME NEW v \in Venues, NEW t \in Tokens PROVE held[v][t] = Costs(frames, n - 1, v, t)
      BY <1>1 DEF HoldsWhatWaits
    <2>2. held[v][t] = Costs(frames, n, v, t) BY DEF Books, HeldInv, HoldsWhatWaits
    <2>3. \A i \in 1..n : frames[i].cost \in Nat BY StacksAreSaved
    <2>4. frames[n].venue # v BY <1>1, FinitelyMany DEF Unwinding, Top
    <2>5. held[v][t] \in Nat BY DEF SwapInv, Typed, Holdings
    <2>6. Costs(frames, n - 1, v, t) \in Int
      <3> DEFINE f == [i \in 1..(n - 1) |-> frames[i].cost]
                 S == {i \in 1..(n - 1) : frames[i].venue = v /\ frames[i].out = t}
      <3>1. IsFiniteSet(1..(n - 1)) BY <1>2, FS_Interval
      <3>2. IsFiniteSet(S) BY <3>1, FS_Subset
      <3>3. \A i \in S : f[i] \in Int BY <1>2, <2>3
      <3>4. Costs(frames, n - 1, v, t) = SumOf(f, S) BY DEF Costs
      <3> HIDE DEF f, S
      <3>5. QED BY <3>2, <3>3, <3>4, SumType
    <2> HIDE DEF n
    <2>7. n - 1 \in Nat /\ (n - 1) + 1 = n BY <1>2
    <2>8. Costs(frames, (n - 1) + 1, v, t) = Costs(frames, n - 1, v, t)
            + (IF frames[(n - 1) + 1].venue = v /\ frames[(n - 1) + 1].out = t
               THEN frames[(n - 1) + 1].cost ELSE 0)
      BY <2>3, <2>7, CostsGrow
    <2>9. QED BY <2>2, <2>4, <2>6, <2>7, <2>8
  <1>4. \A t \in Tokens : Whole(Snapshot', t) >= Whole(Committed, t)
    <2>1. Snapshot' = Snapshot BY <1>1 DEF Snapshot
    <2>2. QED BY <2>1 DEF Books, WholeInv
  <1>5. QED BY <1>1, <1>3, <1>4, ClosesBooks

LEMMA SwapFailsBooks ==
  ASSUME SwapInv, Books, SwapInv', SwapFails
  PROVE  HeldInv' /\ Accounted
  <1> DEFINE n == Len(frames)
             c == Top.saved
  <1>1. /\ ~Idle /\ frames' = Pop
        /\ ledger' = c.ledger /\ budget' = c.budget /\ docked' = c.docked
        /\ wallet' = c.wallet /\ shares' = c.shares /\ held' = c.held /\ liquidity' = c.liquidity
        /\ price' = c.price /\ earned' = c.earned
    BY DEF SwapFails, Revert
  <1>2. n \in 1..n /\ c \in Saved /\ c = frames[n].saved BY <1>1, StackFacts, TopFacts DEF Top
  <1> HIDE DEF c
  <1>3. HoldsWhatWaits(held', frames, n - 1)
    <2>1. HoldsWhatWaits(frames[n].saved.held, frames, n - 1) BY <1>2 DEF Books, HeldInv
    <2>2. QED BY <1>1, <1>2, <2>1
  <1>4. Snapshot' = c BY <1>1, <1>2 DEF Snapshot, Saved
  <1>5. \A t \in Tokens : Whole(c, t) >= Whole(Committed, t) BY <1>2 DEF Books, WholeInv
  <1>6. \A t \in Tokens : Whole(Snapshot', t) >= Whole(Committed, t) BY <1>4, <1>5
  <1>7. QED BY <1>1, <1>3, <1>6, ClosesBooks

LEMMA SwapFromWalletBooks ==
  ASSUME SwapInv, Books, SwapInv', NEW m \in Mandates, NEW t \in Tokens, NEW x \in Amounts,
         NEW out \in Nat, out = Quote(m, ledger[m][Other(t)], ledger[m][t], x),
         Tradable(m), SwapFromWallet(m, t, x, out)
  PROVE  HeldInv' /\ Accounted
  <1>1. Typed /\ Typed' BY DEF SwapInv
  <1>2. /\ m \notin docked /\ x \in Nat
        /\ ledger[m][t] \in Nat /\ ledger[m][Other(t)] \in Nat \ {0} /\ wallet[t] \in Nat
    BY SwapTypes
  <1>3. PICK f \in Frames : /\ frames' = Append(frames, f) /\ f.saved = Snapshot
                            /\ f.venue = NoVenue /\ f.cost = 0
    <2>1. frames' = Append(frames, Frame(m, t, x, out, NoVenue, 0, 0)) BY DEF SwapFromWallet
    <2> DEFINE f == Frame(m, t, x, out, NoVenue, 0, 0)
    <2>2. f \in Frames /\ f.saved = Snapshot /\ f.venue = NoVenue /\ f.cost = 0
      BY <1>1, <1>2, FrameIsTyped
    <2> HIDE DEF f
    <2>3. frames' = Append(frames, f) BY <2>1 DEF f
    <2>4. QED BY <2>2, <2>3
  <1>4. /\ ledger' = [ledger EXCEPT ![m][t] = ledger[m][t] - out]
        /\ wallet' = [wallet EXCEPT ![t] = wallet[t] - out]
        /\ UNCHANGED <<shares, held, price, earned>>
    BY DEF SwapFromWallet, PullOut, market
  <1>5. ledger \in Ledgers /\ ledger' \in Ledgers BY <1>1 DEF Typed
  <1>6. /\ \A r \in Mandates, u \in Tokens : r # m \/ u # t => ledger'[r][u] = ledger[r][u]
        /\ ledger'[m][t] = ledger[m][t] - out
    BY <1>4, <1>5 DEF Ledgers
  <1>7. ledger'[m][t] - ledger[m][t] = -out BY <1>2, <1>6
  <1>8. \A u \in Tokens : Promised(ledger', u) = Promised(ledger, u) + (IF u = t THEN -out ELSE 0)
    BY <1>5, <1>6, <1>7, PromisedMoves
  <1>9. \A u \in Tokens : wallet'[u] = wallet[u] + (IF u = t THEN -out ELSE 0)
    <2>1. /\ \A u \in Tokens : wallet[u] \in Nat
          /\ \A u \in Tokens : u # t => wallet'[u] = wallet[u]
          /\ wallet'[t] = wallet[t] - out
      BY <1>1, <1>4 DEF Typed, Purses
    <2>2. QED BY <2>1
  <1>10. \A u \in Tokens : Whole(Snapshot', u) = Whole(Snapshot, u)
    <2>1. SUFFICES ASSUME NEW u \in Tokens PROVE Whole(Snapshot', u) = Whole(Snapshot, u) OBVIOUS
    <2> DEFINE d == IF u = t THEN -out ELSE 0
    <2>2. d \in Int OBVIOUS
    <2>3. wallet'[u] = wallet[u] + d /\ Promised(ledger', u) = Promised(ledger, u) + d BY <1>8, <1>9
    <2> HIDE DEF d
    <2>4. /\ AtMarkets(shares', price', u) = AtMarkets(shares, price, u) + 0
          /\ AtMarkets(held', price', u) = AtMarkets(held, price, u) + 0 /\ earned'[u] = earned[u] + 0
      BY <1>1, <1>4, WholeNow
    <2>5. /\ Whole(Snapshot', u) = Whole(Snapshot, u) + (((Par * d + 0) + 0) - (Par * d + 0))
          /\ Whole(Snapshot, u) \in Int
      BY <1>1, <2>2, <2>3, <2>4, WholeMoves
    <2>6. Par * d \in Int BY <2>2, Bounds
    <2>7. QED BY <2>5, <2>6
  <1>11. /\ Len(frames') = Len(frames) + 1 /\ frames'[Len(frames) + 1] = f
         /\ \A i \in 1..Len(frames) : frames'[i] = frames[i]
    <2>1. frames \in Seq(Frames) BY DEF SwapInv, Stacked
    <2>2. QED BY <1>3, <2>1, AppendProperties
  <1>12. \A v \in Venues, u \in Tokens :
            held'[v][u] = held[v][u] + (IF f.venue = v /\ f.out = u THEN f.cost ELSE 0)
    <2>1. \A v \in Venues, u \in Tokens : held[v][u] \in Nat BY <1>1 DEF Typed, Holdings
    <2>2. QED BY <1>3, <1>4, <2>1
  <1>13. ~Unwinding(f) BY <1>3 DEF Unwinding
  <1>14. f.saved = Snapshot BY <1>3
  <1>15. QED BY <1>10, <1>11, <1>12, <1>13, <1>14, OpensBooks

LEMMA SwapByUnwindingBooks ==
  ASSUME SwapInv, Books, SwapInv', NEW m \in Mandates, NEW t \in Tokens, NEW x \in Amounts,
         NEW out \in Nat, out = Quote(m, ledger[m][Other(t)], ledger[m][t], x),
         Tradable(m), SwapByUnwinding(m, t, x, out)
  PROVE  HeldInv' /\ Accounted
  <1> DEFINE deficit == out - wallet[t]
  <1>1. Typed /\ Typed' BY DEF SwapInv
  <1>2. /\ m \notin docked /\ x \in Nat
        /\ ledger[m][t] \in Nat /\ ledger[m][Other(t)] \in Nat \ {0} /\ wallet[t] \in Nat
    BY SwapTypes
  <1>3. /\ deficit > 0
        /\ \E v \in VenueFor(m, t, deficit) \ indebted :
              /\ frames' = Append(frames, Frame(m, t, x, out, v, deficit, SharesFor(v, t, deficit)))
              /\ shares' = [shares EXCEPT ![v][t] = shares[v][t] - SharesFor(v, t, deficit)]
              /\ held' = [held EXCEPT ![v][t] = held[v][t] + SharesFor(v, t, deficit)]
        /\ UNCHANGED <<ledger, wallet, price, earned>>
    BY DEF SwapByUnwinding
  <1>4. deficit \in Nat BY <1>2, <1>3
  <1> HIDE DEF deficit
  <1>5. PICK v \in VenueFor(m, t, deficit) :
              /\ frames' = Append(frames, Frame(m, t, x, out, v, deficit, SharesFor(v, t, deficit)))
              /\ shares' = [shares EXCEPT ![v][t] = shares[v][t] - SharesFor(v, t, deficit)]
              /\ held' = [held EXCEPT ![v][t] = held[v][t] + SharesFor(v, t, deficit)]
    BY <1>3
  <1>6. v \in Venues /\ v # NoVenue BY VenueForPays, FinitelyMany
  <1>7. PICK c \in Nat : c = SharesFor(v, t, deficit) BY <1>1, <1>4, <1>6, SharesAreWorth
  <1>8. PICK f \in Frames : /\ frames' = Append(frames, f) /\ f.saved = Snapshot /\ f.out = t
                            /\ f.venue = v /\ f.cost = c /\ f.beforePull = held[v][t]
    <2>1. /\ Frame(m, t, x, out, v, deficit, c) \in Frames
          /\ Frame(m, t, x, out, v, deficit, c).saved = Snapshot
          /\ Frame(m, t, x, out, v, deficit, c).out = t
          /\ Frame(m, t, x, out, v, deficit, c).venue = v
          /\ Frame(m, t, x, out, v, deficit, c).cost = c
          /\ Frame(m, t, x, out, v, deficit, c).beforePull = IF v = NoVenue THEN 0 ELSE held[v][t]
      BY <1>1, <1>2, <1>4, <1>6, FrameIsTyped
    <2>2. QED BY <1>5, <1>6, <1>7, <2>1
  <1>9. /\ shares \in Holdings /\ shares' \in Holdings /\ held \in Holdings /\ held' \in Holdings
        /\ price \in Levels /\ price' = price
    BY <1>1, <1>3 DEF Typed
  <1>10. /\ \A r \in Venues, u \in Tokens : r # v \/ u # t => shares'[r][u] = shares[r][u]
         /\ shares'[v][t] = shares[v][t] - c
    BY <1>5, <1>6, <1>7, <1>9 DEF Holdings
  <1>11. /\ \A r \in Venues, u \in Tokens : r # v \/ u # t => held'[r][u] = held[r][u]
         /\ held'[v][t] = held[v][t] + c
    BY <1>5, <1>6, <1>7, <1>9 DEF Holdings
  <1>12. \A r \in Venues, u \in Tokens : shares[r][u] \in Nat /\ held[r][u] \in Nat BY <1>9 DEF Holdings
  <1>13. PICK y \in Int, z \in Int : /\ y = c * PriceAt(price, v, t) /\ z = (-c) * PriceAt(price, v, t)
                                    /\ y + z = 0
    <2>1. PriceAt(price, v, t) \in Int BY <1>6, <1>9, PriceIs
    <2>2. \A a, b \in Int : a * b \in Int /\ (-a) * b \in Int /\ a * b + (-a) * b = 0 BY SMT
    <2>3. QED BY <2>1, <2>2
  <1>14. \A u \in Tokens :
           AtMarkets(shares', price, u) = AtMarkets(shares, price, u) + (IF u = t THEN z ELSE 0)
    <2>1. PICK b \in Int : b = -c OBVIOUS
    <2>2. shares'[v][t] = shares[v][t] + b BY <1>6, <1>10, <1>12, <2>1
    <2>3. QED BY <1>6, <1>9, <1>10, <1>13, <2>1, <2>2, PositionMoves
  <1>15. \A u \in Tokens :
           AtMarkets(held', price, u) = AtMarkets(held, price, u) + (IF u = t THEN y ELSE 0)
    BY <1>6, <1>9, <1>11, <1>13, PositionMoves
  <1>16. \A u \in Tokens : Whole(Snapshot', u) = Whole(Snapshot, u)
    <2>1. SUFFICES ASSUME NEW u \in Tokens PROVE Whole(Snapshot', u) = Whole(Snapshot, u) OBVIOUS
    <2> DEFINE s == IF u = t THEN z ELSE 0
               h == IF u = t THEN y ELSE 0
    <2>2. s \in Int /\ h \in Int /\ s + h = 0 BY <1>13
    <2>3. /\ AtMarkets(shares', price', u) = AtMarkets(shares, price, u) + s
          /\ AtMarkets(held', price', u) = AtMarkets(held, price, u) + h
      BY <1>9, <1>14, <1>15
    <2> HIDE DEF s, h
    <2>4. /\ wallet'[u] = wallet[u] + 0 /\ Promised(ledger', u) = Promised(ledger, u) + 0
          /\ earned'[u] = earned[u] + 0
      BY <1>1, <1>3, WholeNow
    <2>5. /\ Whole(Snapshot', u) = Whole(Snapshot, u) + (((Par * 0 + s) + h) - (Par * 0 + 0))
          /\ Whole(Snapshot, u) \in Int
      BY <1>1, <2>2, <2>3, <2>4, WholeMoves
    <2>6. Par * 0 = 0 BY Bounds
    <2>7. QED BY <2>2, <2>5, <2>6
  <1>17. /\ Len(frames') = Len(frames) + 1 /\ frames'[Len(frames) + 1] = f
         /\ \A i \in 1..Len(frames) : frames'[i] = frames[i]
    <2>1. frames \in Seq(Frames) BY DEF SwapInv, Stacked
    <2>2. QED BY <1>8, <2>1, AppendProperties
  <1>18. \A r \in Venues, u \in Tokens :
            held'[r][u] = held[r][u] + (IF f.venue = r /\ f.out = u THEN f.cost ELSE 0)
    BY <1>8, <1>11, <1>12
  <1>19. f.beforePull = held[f.venue][f.out] /\ f.saved = Snapshot BY <1>8
  <1>20. QED BY <1>16, <1>17, <1>18, <1>19, OpensBooks

LEMMA SwapBooks ==
  ASSUME SwapInv, Books, SwapInv', NEW m \in Mandates, NEW t \in Tokens, NEW x \in Amounts, NEW k \in Takers,
         Swap(m, t, x, k)
  PROVE  HeldInv' /\ Accounted
  <1> DEFINE out == Quote(m, ledger[m][Other(t)], ledger[m][t], x)
  <1>1. /\ Tradable(m)
        /\ SwapFromWallet(m, t, x, out) \/ SwapByUnwinding(m, t, x, out)
    BY DEF Swap
  <1>2. out \in Nat BY <1>1, SwapTypes
  <1>3. \E o \in Nat : /\ o = Quote(m, ledger[m][Other(t)], ledger[m][t], x)
                       /\ SwapFromWallet(m, t, x, o) \/ SwapByUnwinding(m, t, x, o)
    BY <1>1, <1>2
  <1>4. PICK o \in Nat : /\ o = Quote(m, ledger[m][Other(t)], ledger[m][t], x)
                         /\ SwapFromWallet(m, t, x, o) \/ SwapByUnwinding(m, t, x, o)
    BY <1>3
  <1>5. CASE SwapFromWallet(m, t, x, o) BY <1>1, <1>4, <1>5, SwapFromWalletBooks
  <1>6. CASE SwapByUnwinding(m, t, x, o) BY <1>1, <1>4, <1>6, SwapByUnwindingBooks
  <1>7. QED BY <1>4, <1>5, <1>6

\* The market burns what it pays for, what is left over goes home, and the
\* contract holds again what it held before.
LEMMA MarketReturnsBooks ==
  ASSUME SwapInv, Books, SwapInv', MarketReturns
  PROVE  HeldInv' /\ Accounted
  <1>1. Typed /\ Typed' /\ ~Idle /\ Unwinding(Top) BY MarketReturnsIs DEF SwapInv
  <1>2. PICK f \in Frames, n \in Nat : f = Top /\ n = Len(frames) /\ f = frames[n]
    BY <1>1, TopFacts, StackFacts DEF Top
  <1>3. PICK v \in Venues, t \in Tokens, m \in Mandates : v = f.venue /\ t = f.out /\ m = f.mandate
    BY <1>1, <1>2, TopFacts DEF Unwinding
  <1>4. PICK out \in Nat, deficit \in Nat, before \in Nat :
          out = f.amountOut /\ deficit = f.deficit /\ before = f.beforePull
    BY <1>1, <1>2, TopFacts
  <1>5. PICK burnt \in Nat : burnt = SharesFor(v, t, deficit) /\ burnt = Burnt(Top)
    BY <1>1, <1>2, <1>3, <1>4, SharesAreWorth DEF Burnt
  <1>5a. /\ ledger' = [ledger EXCEPT ![m][t] = ledger[m][t] - out]
         /\ wallet' = [wallet EXCEPT ![t] = (wallet[t] + deficit) - out]
         /\ shares' = [shares EXCEPT ![v][t] = shares[v][t] + (held[v][t] - burnt - before)]
         /\ held' = [held EXCEPT ![v][t] = before]
         /\ frames' = [frames EXCEPT ![n].venue = NoVenue]
         /\ Converts(v, t) /\ price' = price
    BY <1>2, <1>3, <1>4, <1>5, MarketReturnsIs
  <1>6. /\ n \in 1..n /\ 1 \in 1..n /\ frames \in Seq(Frames)
    BY <1>1, <1>2, StackFacts DEF SwapInv, Stacked
  <1> DEFINE g == [f EXCEPT !.venue = NoVenue]
  <1>7. g.venue = NoVenue /\ g.saved = f.saved /\ g.cost = f.cost
    <2>1. f \in FrameType BY DEF Frames
    <2>2. QED BY <2>1 DEF FrameType
  <1>8. /\ Len(frames') = n /\ frames'[n] = g
        /\ \A j \in 1..(n - 1) : frames'[j] = frames[j]
    <2>1. frames' = [frames EXCEPT ![n] = g] BY <1>2, <1>5a
    <2> HIDE DEF g
    <2>2. DOMAIN frames = 1..n /\ DOMAIN frames' = 1..n BY <1>2, <1>6, <2>1, LenProperties
    <2>3. Len(frames') = n
      <3>1. frames' \in Seq(Frames) BY DEF SwapInv, Stacked
      <3>2. DOMAIN frames' = 1..Len(frames') /\ Len(frames') \in Nat BY <3>1, LenProperties
      <3>3. \A a, b \in Nat : 1..a = 1..b => a = b
        <4>1. \A a, b \in Nat : 1..a = 1..b /\ a < b => FALSE
          <5>1. SUFFICES ASSUME NEW a \in Nat, NEW b \in Nat, 1..a = 1..b, a < b PROVE FALSE OBVIOUS
          <5>2. b \in 1..b /\ b \notin 1..a BY <5>1
          <5>3. QED BY <5>1, <5>2
        <4>2. SUFFICES ASSUME NEW a \in Nat, NEW b \in Nat, 1..a = 1..b PROVE a = b OBVIOUS
        <4>3. ~ (a < b) /\ ~ (b < a) BY <4>1, <4>2
        <4>4. QED BY <4>3
      <3>4. QED BY <2>2, <3>2, <3>3
    <2>4. \A j \in 1..n : frames'[j] = IF j = n THEN g ELSE frames[j] BY <2>1, <2>2
    <2>5. \A j \in 1..(n - 1) : j \in 1..n /\ j # n OBVIOUS
    <2>6. QED BY <1>6, <2>3, <2>4, <2>5
  <1> HIDE DEF g
  <1>9. HeldInv BY DEF Books
  <1>10. /\ HoldsWhatWaits(held, frames, n)
         /\ \A i \in 1..n : HoldsWhatWaits(frames[i].saved.held, frames, i - 1)
         /\ \A i \in 1..n : Unwinding(frames[i]) =>
              frames[i].beforePull = frames[i].saved.held[frames[i].venue][frames[i].out]
    BY <1>2, <1>9 DEF HeldInv
  <1>11. \A i \in 1..n : frames[i].cost \in Nat BY <1>2, StacksAreSaved
  <1>12. before = Costs(frames, n - 1, v, t)
    <2>1. before = f.saved.held[v][t]
      <3>1. Unwinding(f) => f.beforePull = f.saved.held[f.venue][f.out] BY <1>2, <1>6, <1>10
      <3>2. QED BY <1>1, <1>2, <1>3, <1>4, <3>1
    <2>2. HoldsWhatWaits(f.saved.held, frames, n - 1) BY <1>2, <1>6, <1>10
    <2>3. QED BY <2>1, <2>2 DEF HoldsWhatWaits
  <1>13. \A k \in 0..(n - 1) : \A r, u : Costs(frames', k, r, u) = Costs(frames, k, r, u)
    <2>1. SUFFICES ASSUME NEW k \in 0..(n - 1)
                   PROVE  \A r, u : Costs(frames', k, r, u) = Costs(frames, k, r, u)
      OBVIOUS
    <2>2. k \in Nat /\ \A j \in 1..k : frames'[j] = frames[j] BY <1>8
    <2>3. ASSUME NEW r, NEW u PROVE Costs(frames', k, r, u) = Costs(frames, k, r, u)
      <3>1. [i \in 1..k |-> frames'[i].cost] = [i \in 1..k |-> frames[i].cost] BY <2>2
      <3>2. {i \in 1..k : frames'[i].venue = r /\ frames'[i].out = u}
              = {i \in 1..k : frames[i].venue = r /\ frames[i].out = u}
        BY <2>2
      <3>3. QED BY <3>1, <3>2 DEF Costs
    <2>4. QED BY <2>3
  <1>14. \A i \in 1..n : i - 1 \in 0..(n - 1) OBVIOUS
  <1>15. n - 1 \in Nat /\ (n - 1) + 1 = n BY <1>6
  <1>16. /\ held \in Holdings /\ held' \in Holdings /\ shares \in Holdings /\ shares' \in Holdings
         /\ ledger \in Ledgers /\ ledger' \in Ledgers /\ wallet \in Purses
         /\ price \in Levels
    BY <1>1 DEF Typed
  <1>17. /\ \A r \in Venues, u \in Tokens : r # v \/ u # t => held'[r][u] = held[r][u]
         /\ held'[v][t] = before
    BY <1>5a, <1>16 DEF Holdings
  <1>18. HoldsWhatWaits(held', frames', n)
    <2>1. SUFFICES ASSUME NEW r \in Venues, NEW u \in Tokens PROVE held'[r][u] = Costs(frames', n, r, u)
      BY DEF HoldsWhatWaits
    <2>2. \A fs, h : (\A i \in 1..n : fs[i].cost \in Nat) /\ h = fs[n] =>
            Costs(fs, n, r, u) = Costs(fs, n - 1, r, u) + (IF h.venue = r /\ h.out = u THEN h.cost ELSE 0)
      <3>1. \A fs, h : (\A i \in 1..((n - 1) + 1) : fs[i].cost \in Nat) /\ h = fs[(n - 1) + 1] =>
            Costs(fs, (n - 1) + 1, r, u)
              = Costs(fs, n - 1, r, u) + (IF h.venue = r /\ h.out = u THEN h.cost ELSE 0)
        BY <1>15, CostsGrow
      <3>2. QED BY <1>15, <3>1
    <2>3. \A i \in 1..n : frames'[i].cost \in Nat
      <3>1. \A i \in 1..n : i = n \/ i \in 1..(n - 1) OBVIOUS
      <3>2. g.cost \in Nat BY <1>2, <1>6, <1>7, <1>11
      <3>3. \A i \in 1..(n - 1) : i \in 1..n OBVIOUS
      <3>4. QED BY <1>8, <1>11, <3>1, <3>2, <3>3
    <2>4. held'[r][u] \in Nat /\ held[r][u] \in Nat BY <1>16 DEF Holdings
    <2>5. Costs(frames, n - 1, r, u) \in Int
      <3>1. held[r][u] = Costs(frames, n, r, u) BY <1>10 DEF HoldsWhatWaits
      <3>2. frames[n].saved.held[r][u] = Costs(frames, n - 1, r, u) BY <1>6, <1>10 DEF HoldsWhatWaits
      <3>3. frames[n].saved \in Saved BY <1>2, <1>6, StacksAreSaved
      <3>4. \A c \in Saved : c.held[r][u] \in Nat BY DEF Saved, Holdings
      <3>5. QED BY <3>2, <3>3, <3>4
    <2>6. Costs(frames', n, r, u) = Costs(frames, n - 1, r, u)
      <3>1. Costs(frames', n, r, u) = Costs(frames', n - 1, r, u)
              + (IF g.venue = r /\ g.out = u THEN g.cost ELSE 0)
        BY <1>8, <2>2, <2>3
      <3>2. g.venue # r BY <1>7, FinitelyMany
      <3>3. Costs(frames', n - 1, r, u) = Costs(frames, n - 1, r, u) BY <1>6, <1>13, <1>14
      <3>4. QED BY <2>5, <3>1, <3>2, <3>3
    <2>7. CASE r = v /\ u = t BY <1>12, <1>17, <2>6, <2>7
    <2>8. CASE r # v \/ u # t
      <3>1. held[r][u] = Costs(frames, n, r, u) /\ held'[r][u] = held[r][u]
        BY <1>10, <1>17, <2>8 DEF HoldsWhatWaits
      <3>2. Costs(frames, n, r, u) = Costs(frames, n - 1, r, u)
              + (IF f.venue = r /\ f.out = u THEN f.cost ELSE 0)
        BY <1>2, <1>11, <2>2
      <3>3. ~ (f.venue = r /\ f.out = u) BY <1>3, <2>8
      <3>4. QED BY <2>5, <2>6, <3>1, <3>2, <3>3
    <2>9. QED BY <2>7, <2>8
  <1>19. \A i \in 1..n : frames'[i].saved = frames[i].saved /\ (i # n => frames'[i] = frames[i])
    <2>1. \A i \in 1..n : i = n \/ i \in 1..(n - 1) OBVIOUS
    <2>2. g.saved = frames[n].saved BY <1>2, <1>7
    <2>3. QED BY <1>8, <2>1, <2>2
  <1>20. \A i \in 1..n : HoldsWhatWaits(frames'[i].saved.held, frames', i - 1)
    <2>1. SUFFICES ASSUME NEW i \in 1..n PROVE HoldsWhatWaits(frames'[i].saved.held, frames', i - 1)
      OBVIOUS
    <2>2. HoldsWhatWaits(frames'[i].saved.held, frames, i - 1) BY <1>10, <1>19
    <2>3. QED BY <1>13, <1>14, <2>2 DEF HoldsWhatWaits
  <1>21. \A i \in 1..n : Unwinding(frames'[i]) =>
           frames'[i].beforePull = frames'[i].saved.held[frames'[i].venue][frames'[i].out]
    <2>1. SUFFICES ASSUME NEW i \in 1..n, Unwinding(frames'[i])
                   PROVE  frames'[i].beforePull = frames'[i].saved.held[frames'[i].venue][frames'[i].out]
      OBVIOUS
    <2>2. i # n BY <1>7, <1>8, <2>1 DEF Unwinding
    <2>3. frames'[i] = frames[i] BY <1>19, <2>2
    <2>4. QED BY <1>10, <2>1, <2>3
  <1>22. HeldInv' BY <1>8, <1>18, <1>20, <1>21 DEF HeldInv
  <1>23. \A u \in Tokens : Whole(Snapshot', u) >= Whole(Snapshot, u) /\ Whole(Snapshot, u) \in Int
                          /\ Whole(Snapshot', u) \in Int
    <2>1. SUFFICES ASSUME NEW u \in Tokens
                   PROVE  /\ Whole(Snapshot', u) >= Whole(Snapshot, u) /\ Whole(Snapshot, u) \in Int
                          /\ Whole(Snapshot', u) \in Int
      OBVIOUS
    <2>2. held[v][t] \in Nat /\ shares[v][t] \in Nat /\ ledger[m][t] \in Nat /\ wallet[t] \in Nat
      BY <1>16 DEF Holdings, Ledgers, Purses
    <2>3. PICK q \in Int, i \in Int, y \in Int :
            q = PriceAt(price, v, t) /\ i = Rounding(v, t) /\ y = burnt * q /\ y =< Par * deficit + i
      <3>1. PriceAt(price, v, t) \in Int /\ Rounding(v, t) \in Int BY <1>1, <1>16, PriceIs, SharesAreWorth
      <3>2. burnt * PriceAt(price, v, t) =< Par * deficit + Rounding(v, t) BY <1>1, <1>5, SharesAreWorth
      <3>3. \A a, b \in Int : a * b \in Int OBVIOUS
      <3>4. QED BY <3>1, <3>2, <3>3
    <2>4. PICK k \in Int, c \in Int : k = held[v][t] - burnt - before /\ c = before - held[v][t] BY <2>2
    <2>5. PICK kq \in Int, cq \in Int : kq = k * q /\ cq = c * q /\ kq + cq = -y
      <3>1. k + c = -burnt BY <2>2, <2>4
      <3>2. k * q \in Int /\ c * q \in Int /\ k * q + c * q = (k + c) * q /\ (-burnt) * q = -(burnt * q)
        BY SMT
      <3>3. QED BY <2>3, <3>1, <3>2
    <2> DEFINE w == IF u = t THEN deficit - out ELSE 0
               s == IF u = t THEN kq ELSE 0
               h == IF u = t THEN cq ELSE 0
               p == IF u = t THEN -out ELSE 0
               e == IF u = t THEN -i ELSE 0
    <2>6. w \in Int /\ s \in Int /\ h \in Int /\ p \in Int /\ e \in Int OBVIOUS
    <2>7. wallet'[u] = wallet[u] + w
      <3>1. wallet[u] \in Nat /\ (u # t => wallet'[u] = wallet[u])
            /\ wallet'[t] = (wallet[t] + deficit) - out
        BY <1>5a, <1>16 DEF Purses
      <3>2. QED BY <2>2, <3>1
    <2>8. AtMarkets(shares', price', u) = AtMarkets(shares, price, u) + s
      <3>1. /\ \A r \in Venues, x \in Tokens : r # v \/ x # t => shares'[r][x] = shares[r][x]
            /\ shares'[v][t] = shares[v][t] + k
        BY <1>5a, <1>16, <2>4 DEF Holdings
      <3>2. AtMarkets(shares', price, u) = AtMarkets(shares, price, u) + (IF u = t THEN k * PriceAt(price, v, t) ELSE 0)
        BY <1>16, <3>1, PositionMoves
      <3>3. QED BY <1>5a, <2>3, <2>5, <3>2
    <2>9. AtMarkets(held', price', u) = AtMarkets(held, price, u) + h
      <3>1. held'[v][t] = held[v][t] + c BY <1>17, <2>2, <2>4
      <3>2. AtMarkets(held', price, u) = AtMarkets(held, price, u) + (IF u = t THEN c * PriceAt(price, v, t) ELSE 0)
        BY <1>16, <1>17, <3>1, PositionMoves
      <3>3. QED BY <1>5a, <2>3, <2>5, <3>2
    <2>10. Promised(ledger', u) = Promised(ledger, u) + p
      <3>1. /\ \A r \in Mandates, x \in Tokens : r # m \/ x # t => ledger'[r][x] = ledger[r][x]
            /\ ledger'[m][t] = ledger[m][t] - out
        BY <1>5a, <1>16 DEF Ledgers
      <3>2. ledger'[m][t] - ledger[m][t] = -out BY <2>2, <3>1
      <3>3. QED BY <1>16, <3>1, <3>2, PromisedMoves
    <2>11. earned'[u] = earned[u] + e
      <3>1. earned'[u] = earned[u] - (IF u = t THEN i ELSE 0) BY <1>1, <1>5a, <2>3, ConvertsIs
      <3>2. earned[u] \in Int BY <1>1 DEF Typed, Gains
      <3>3. QED BY <3>1, <3>2
    <2>12. /\ Par * w \in Int /\ Par * p \in Int
           /\ ((Par * w + s) + h) - (Par * p + e) >= 0
      <3>1. PICK a \in Int, b \in Int : a = Par * deficit /\ b = Par * out BY Bounds
      <3>2. Par * (deficit - out) = a - b /\ Par * (-out) = -b /\ Par * 0 = 0 BY <3>1, Bounds, SMT
      <3>3. Par * w = (IF u = t THEN a - b ELSE 0) /\ Par * p = (IF u = t THEN -b ELSE 0) BY <3>2
      <3>4. a - y + i >= 0 BY <2>3, <3>1
      <3>5. CASE u = t BY <2>5, <3>3, <3>4, <3>5
      <3>6. CASE u # t BY <3>3, <3>6
      <3>7. QED BY <3>5, <3>6
    <2>13. PICK x \in Int : x = ((Par * w + s) + h) - (Par * p + e) BY <2>6, <2>12
    <2> HIDE DEF w, s, h, p, e
    <2>14. /\ Whole(Snapshot, u) \in Int /\ Whole(Snapshot', u) \in Int
           /\ Whole(Snapshot', u) = Whole(Snapshot, u) + (((Par * w + s) + h) - (Par * p + e))
      BY <1>1, <2>6, <2>7, <2>8, <2>9, <2>10, <2>11, WholeMoves
    <2>15. QED BY <2>12, <2>13, <2>14
  <1>24. \A u \in Tokens : Whole(Snapshot', u) >= Whole(Committed, u)
    <2>1. SUFFICES ASSUME NEW u \in Tokens PROVE Whole(Snapshot', u) >= Whole(Committed, u) OBVIOUS
    <2>2. Whole(Committed, u) \in Int BY StacksAreSaved, WholeIs
    <2>3. Whole(Snapshot, u) >= Whole(Committed, u) BY DEF Books, WholeInv
    <2>4. QED BY <1>23, <2>2, <2>3
  <1>25. ~Idle' => Committed' = Committed
    <2>1. frames'[1].saved = frames[1].saved BY <1>6, <1>19
    <2>2. QED BY <1>1, <2>1 DEF Committed
  <1>26. QED BY <1>2, <1>8, <1>19, <1>22, <1>24, <1>25 DEF Accounted

LEMMA InitBooks == Init => Books
  <1>1. SUFFICES ASSUME Init PROVE Books OBVIOUS
  <1>2. SwapInv /\ Typed /\ Idle BY <1>1, InitIsSound DEF SwapInv, Init, Idle
  <1>3. Len(frames) = 0 /\ 1..Len(frames) = {} BY <1>2, StackFacts
  <1>4. \A v \in Venues, t \in Tokens : held[v][t] = 0 BY <1>1 DEF Init
  <1>5. HeldInv BY <1>3, <1>4, NoCosts DEF HeldInv, HoldsWhatWaits
  <1>6. Committed = Snapshot BY <1>2 DEF Committed
  <1>7. WholeInv BY <1>2, <1>3, <1>6, WholeNow DEF WholeInv
  <1>8. QED BY <1>5, <1>7 DEF Books

LEMMA StepBooks ==
  SwapInv /\ SwapInv' /\ Books /\ [Next]_vars =>
    Books' /\ \A t \in Tokens : Due(Committed', t) >= Due(Committed, t)
  <1> SUFFICES ASSUME SwapInv, SwapInv', Books, [Next]_vars PROVE HeldInv' /\ Accounted
    BY BooksFollow
  <1>1. CASE UNCHANGED vars
    <2>1. UNCHANGED <<ledger, wallet, shares, held, price, earned, frames>> BY <1>1 DEF vars, aqua, maker, market
    <2>2. QED BY <2>1, StillBooks
  <1>2. CASE Next
    <2>1. ASSUME NEW m \in Mandates, NEW t \in Tokens, NEW x \in Amounts, NEW k \in Takers,
                 Swap(m, t, x, k)
          PROVE  HeldInv' /\ Accounted
      BY <2>1, SwapBooks
    <2>2. ASSUME NEW m \in Mandates, NEW t \in Tokens, NEW x \in Amounts, Push(m, t, x)
          PROVE  HeldInv' /\ Accounted
      BY <2>2, PushBooks
    <2>3. ASSUME NEW m \in Mandates, Dock(m) PROVE HeldInv' /\ Accounted BY <2>3, DockBooks
    <2>4. ASSUME NEW v \in Venues, NEW t \in Tokens, NEW x \in Amounts, SupplyIdle(v, t, x)
          PROVE  HeldInv' /\ Accounted
      BY <2>4, SupplyIdleBooks
    <2>5. ASSUME NEW v \in Venues, NEW t \in Tokens, NEW x \in Amounts, WithdrawIdle(v, t, x)
          PROVE  HeldInv' /\ Accounted
      BY <2>5, WithdrawIdleBooks
    <2>6. ASSUME Tick \/ \E v \in Venues : DebtChanges(v) PROVE HeldInv' /\ Accounted
      <3>1. UNCHANGED <<ledger, wallet, shares, held, price, earned, frames>>
        BY <2>6 DEF Tick, DebtChanges, aqua, maker, market
      <3>2. QED BY <3>1, StillBooks
    <2>7. CASE MarketReturns BY <2>7, MarketReturnsBooks
    <2>8. CASE TakerReturns BY <2>8, TakerReturnsBooks
    <2>9. CASE SwapFails BY <2>9, SwapFailsBooks
    <2>10. ASSUME NEW v \in SharePriced, NEW t \in Tokens, NEW y \in Prices, Reprices(v, t, y)
           PROVE  HeldInv' /\ Accounted
      BY <2>10, RepricesBooks
    <2>11. QED
      BY <1>2, <2>1, <2>2, <2>3, <2>4, <2>5, <2>6, <2>7, <2>8, <2>9, <2>10 DEF Next, FromOutside, Returns
  <1>3. QED BY <1>1, <1>2

\* What the contract holds is what its open swaps have pulled in, at every level
\* of the stack, and no level of it is poorer than what was committed.
THEOREM BooksAreKept == Spec => []Books
  <1>1. SwapInv /\ Books /\ [Next]_vars => Books' BY StepIsSound, StepBooks
  <1>2. QED BY <1>1, InitBooks, StacksAreSound, PTL DEF Spec

\* The contract holds the receipts of the swaps that wait for a market, to the
\* unit, however swaps nest and whatever the receipts round; between
\* transactions it holds none, so nothing one maker left can be swept up.
THEOREM OnlyInFlightIsHeld == Spec => []HeldIsInFlight
  <1>1. SwapInv /\ Books => HeldIsInFlight
    <2>1. SUFFICES ASSUME SwapInv, Books PROVE HeldIsInFlight OBVIOUS
    <2>2. frames \in Seq(Frames) BY <2>1 DEF SwapInv, Stacked
    <2>3. DOMAIN frames = 1..Len(frames) BY <2>2, LenProperties
    <2>4. HoldsWhatWaits(held, frames, Len(frames)) BY <2>1 DEF Books, HeldInv
    <2>5. QED BY <2>3, <2>4 DEF HoldsWhatWaits, Costs, HeldIsInFlight
  <1>2. QED BY <1>1, BooksAreKept, StacksAreSound, PTL

\* No transaction costs the maker more than its ledgers give up: what it has in the wallet and
\* at every market, at the prices of the end, falls by no more than the promises do, but for what
\* prices themselves took and less than one share for each conversion, whichever market, taker or
\* sibling was given control on the way and whenever a price moved.
THEOREM EverythingIsAccountedFor == Spec => LedgersAccountForEverything
  <1>1. SwapInv /\ SwapInv' /\ Books /\ [Next]_vars =>
          [\A t \in Tokens : Beyond(Committed', t) - Committed'.earned[t]
                                >= Beyond(Committed, t) - Committed.earned[t]]_vars
    BY StepBooks DEF Due
  <1>2. QED BY <1>1, BooksAreKept, StacksAreSound, PTL DEF Spec, LedgersAccountForEverything
=============================================================================
