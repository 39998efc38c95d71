------------------------ MODULE HelicoAccountProofs ------------------------
(***************************************************************************)
(* Proofs about HelicoAccount, for every set of venues, agents, batches    *)
(* and amounts, every depth of nesting and every bound.                    *)
(*                                                                         *)
(* The hard case is always the revert, which brings back a state recorded  *)
(* some calls ago: an invariant survives it only if every recorded state   *)
(* satisfied it too.  Each inductive invariant below therefore speaks of   *)
(* the current state and of every `saved` state on the stack.              *)
(***************************************************************************)
EXTENDS HelicoAccount, SumsProofs, SequenceTheorems, TLAPS

-----------------------------------------------------------------------------
(* The money in a recorded state. *)

\* All the money of a recorded state.
Money(s) == s.wallet + SumOf(s.position, Venues) + s.paid

\* The sum of natural positions is a natural number.
LEMMA MoneyType ==
    ASSUME NEW s \in SavedState
    PROVE  /\ SumOf(s.position, Venues) \in Int /\ Money(s) \in Int
           /\ s.wallet \in Nat /\ s.paid \in Int /\ s.nonce \in Nat
           /\ \A v \in Venues : s.position[v] \in Nat
  <1>1. /\ s.wallet \in Nat /\ s.paid \in Int /\ s.nonce \in Nat
        /\ \A v \in Venues : s.position[v] \in Nat
    BY DEF SavedState, Nonces
  <1>2. SumOf(s.position, Venues) \in Int
    <2>1. \A v \in Venues : s.position[v] \in Int
      BY <1>1
    <2>2. QED
      BY <2>1, SumType, VenuesAssumption
  <1>3. QED
    BY <1>1, <1>2 DEF Money

\* All the money changes by what the wallet, what was paid and one venue's position do.
LEMMA MoneyMoves ==
    ASSUME NEW s \in SavedState, NEW t \in SavedState, NEW v \in Venues,
           \A y \in Venues \ {v} : t.position[y] = s.position[y]
    PROVE  Money(t) = Money(s) + (t.wallet - s.wallet) + (t.paid - s.paid)
                        + (t.position[v] - s.position[v])
  <1> DEFINE f == s.position
             e == t.position
  <1>1. \A y \in Venues : f[y] \in Int /\ e[y] \in Int
    BY DEF SavedState
  <1>2. Money(s) = s.wallet + SumOf(f, Venues) + s.paid /\ Money(t) = t.wallet + SumOf(e, Venues) + t.paid
    BY DEF Money
  <1>3. /\ SumOf(f, Venues) \in Int /\ SumOf(e, Venues) \in Int
        /\ s.wallet \in Nat /\ s.paid \in Int /\ t.wallet \in Nat /\ t.paid \in Int
    BY MoneyType
  <1>4. \A y \in Venues \ {v} : e[y] = f[y]
    OBVIOUS
  <1> HIDE DEF f, e
  <1>5. SumOf(e, Venues) = SumOf(f, Venues) + (e[v] - f[v])
    BY <1>1, <1>4, SumChanges, VenuesAssumption
  <1>6. f[v] \in Int /\ e[v] \in Int
    BY <1>1
  <1>7. Money(t) = Money(s) + (t.wallet - s.wallet) + (t.paid - s.paid) + (e[v] - f[v])
    BY <1>2, <1>3, <1>5, <1>6
  <1>8. QED
    BY <1>7 DEF f, e

-----------------------------------------------------------------------------
(* The stack of open calls. *)

\* The length of a sequence's first n elements, as SubSeqProperties puts it.
LEMMA UpToLength ==
    ASSUME NEW n \in Nat
    PROVE  (IF 1 <= n THEN n - 1 + 1 ELSE 0) = n /\ n - 1 + 1 = n /\ \A i \in 1..n : 1 + i - 1 = i
  OBVIOUS

\* Taking the innermost frame off leaves the others as they were.
LEMMA PopFrame ==
    ASSUME NEW S, NEW s \in Seq(S), s # <<>>
    PROVE  /\ SubSeq(s, 1, Len(s) - 1) \in Seq(S)
           /\ Len(SubSeq(s, 1, Len(s) - 1)) = Len(s) - 1
           /\ \A i \in 1..(Len(s) - 1) : SubSeq(s, 1, Len(s) - 1)[i] = s[i]
           /\ Len(s) \in 1..Len(s)
           /\ s[Len(s)] \in S
  <1> DEFINE n == Len(s) - 1
  <1>1. n \in Nat /\ Len(s) \in 1..Len(s) /\ (\A i \in 1..Len(s) : s[i] \in S)
        /\ \A i \in 1..n : i \in 1..Len(s)
    OBVIOUS
  <1>2. s[Len(s)] \in S /\ \A i \in 1..n : s[i] \in S
    BY <1>1
  <1> HIDE DEF n
  <1>3. /\ SubSeq(s, 1, n) \in Seq(S)
        /\ Len(SubSeq(s, 1, n)) = IF 1 <= n THEN n - 1 + 1 ELSE 0
        /\ \A i \in 1..(n - 1 + 1) : SubSeq(s, 1, n)[i] = s[1 + i - 1]
    BY <1>1, <1>2, SubSeqProperties
  <1>4. Len(SubSeq(s, 1, n)) = n /\ \A i \in 1..n : SubSeq(s, 1, n)[i] = s[i]
    BY ONLY <1>1, <1>3, UpToLength
  <1>5. QED
    BY <1>1, <1>2, <1>3, <1>4 DEF n

\* Opening a call keeps the frames below it.
LEMMA PushFrame ==
    ASSUME NEW S, NEW s \in Seq(S), NEW e \in S
    PROVE  /\ Append(s, e) \in Seq(S)
           /\ Len(Append(s, e)) = Len(s) + 1
           /\ \A i \in 1..Len(s) : Append(s, e)[i] = s[i]
           /\ Append(s, e)[Len(s) + 1] = e
  OBVIOUS

\* Progress inside the innermost call touches no other frame.
LEMMA ReplaceFrame ==
    ASSUME NEW S, NEW s \in Seq(S), s # <<>>, NEW e \in S
    PROVE  /\ [s EXCEPT ![Len(s)] = e] \in Seq(S)
           /\ Len([s EXCEPT ![Len(s)] = e]) = Len(s)
           /\ \A i \in 1..Len(s) : [s EXCEPT ![Len(s)] = e][i] = IF i = Len(s) THEN e ELSE s[i]
  <1>1. Len(s) \in 1..Len(s)
    BY PopFrame
  <1>2. QED
    BY <1>1, ExceptSeq

\* Crediting an account of a ledger keeps it a ledger.
LEMMA CreditType ==
    ASSUME NEW f \in [Venues -> Nat], NEW v, NEW x \in Nat
    PROVE  [f EXCEPT ![v] = @ + x] \in [Venues -> Nat]
  <1>1. CASE v \in Venues
    <2>1. f[v] + x \in Nat
      BY <1>1
    <2>2. QED
      BY <1>1, <2>1
  <1>2. CASE v \notin Venues
    BY <1>2, [f EXCEPT ![v] = @ + x] = f
  <1>3. QED
    BY <1>1, <1>2

USE AddressAssumption, ImplementationAssumption, BatchAssumption, BoundAssumption

\* The open calls are a sequence of frames.
LEMMA FramesType == ASSUME TypeOK PROVE frames \in Seq(Frame)
  BY DEF TypeOK

\* What a frame would go back to is a state of the account.
LEMMA SnapshotType == ASSUME TypeOK PROVE Snapshot \in SavedState
  BY DEF TypeOK, Snapshot, SavedState

\* The innermost frame is a frame, and so is what is left of it as its calls are made.
LEMMA TopType ==
    ASSUME TypeOK, ~Idle
    PROVE  /\ Top \in Frame
           /\ Top.saved \in SavedState
           /\ Pop \in Seq(Frame)
  <1>1. frames \in Seq(Frame) /\ frames # <<>>
    BY DEF TypeOK, Idle
  <1>2. Top \in Frame /\ Pop \in Seq(Frame)
    BY <1>1, PopFrame DEF Top, Pop
  <1>3. QED
    BY <1>2 DEF Frame

\* A batch going on: its next call is made, or is over.
Progress == \/ MakeCall \/ Approve \/ CallReturns \/ VenueGives
            \/ \E x \in Amounts \cup {0} : VenueTakesDirectly(x)

\* The call a batch makes next, or waits for.
LEMMA NextCall ==
    ASSUME TypeOK, ~Idle, Top.calls # <<>>
    PROVE  /\ Head(Top.calls) \in Calls /\ Top.calls \in Seq(Calls)
           /\ Head(Top.calls).kind \in CallKinds /\ Head(Top.calls).to \in Spenders
           /\ Head(Top.calls).amount \in Nat
           /\ Head(Top.calls).kind \in {"lend", "supply", "withdraw"} => Head(Top.calls).to \in Venues
  <1>1. Top.calls \in Seq(Calls)
    BY TopType DEF Frame
  <1>2. Head(Top.calls) \in Calls
    BY <1>1
  <1>3. QED
    BY <1>1, <1>2 DEF Calls

\* What a batch going on is, and what it leaves alone.
LEMMA ProgressIs ==
    ASSUME Progress
    PROVE  /\ ~Idle /\ Top.kind = "batch" /\ Top.calls # <<>>
           /\ \E e \in {Waiting(Top), Resumed(Top)} : frames' = [frames EXCEPT ![Len(frames)] = e]
           /\ UNCHANGED <<settings, code, outside, nonce, runs, by, ownerHolds, gifted>>
  BY DEF Progress, MakeCall, Approve, CallReturns, VenueGives, VenueTakesDirectly, Running, Calling, money

\* It changes how far its batch has come and nothing else on the stack.
LEMMA WithinTop ==
    ASSUME TypeOK, Progress
    PROVE  /\ frames' \in Seq(Frame)
           /\ Len(frames') = Len(frames)
           /\ \A i \in 1..Len(frames) : /\ frames'[i].saved = frames[i].saved
                                       /\ frames'[i].kind = frames[i].kind
                                       /\ frames'[i].venue = frames[i].venue
  <1>1. /\ ~Idle /\ Top \in Frame
        /\ Top.calls \in Seq(Calls) /\ Top.calls # <<>>
        /\ frames \in Seq(Frame) /\ frames # <<>>
    BY TopType, ProgressIs DEF Frame, TypeOK, Idle
  <1>2. /\ Waiting(Top) \in Frame
        /\ Waiting(Top).saved = Top.saved /\ Waiting(Top).kind = Top.kind
        /\ Waiting(Top).venue = Top.venue
    BY <1>1 DEF Waiting, Frame
  <1>3. /\ Resumed(Top) \in Frame
        /\ Resumed(Top).saved = Top.saved /\ Resumed(Top).kind = Top.kind
        /\ Resumed(Top).venue = Top.venue
    <2>1. Tail(Top.calls) \in Seq(Calls)
      BY <1>1
    <2>2. QED
      BY <1>1, <2>1 DEF Resumed, Frame
  <1>4. PICK e \in {Waiting(Top), Resumed(Top)} : frames' = [frames EXCEPT ![Len(frames)] = e]
    BY ProgressIs
  <1>5. QED
    BY <1>1, <1>2, <1>3, <1>4, ReplaceFrame DEF Top

\* A revert lands in a well-formed state.
LEMMA RevertType == ASSUME TypeOK, ~Idle, Revert PROVE TypeOK'
  <1>1. Top.saved \in SavedState /\ Pop \in Seq(Frame)
    BY TopType
  <1>2. QED
    BY <1>1 DEF TypeOK, Revert, SavedState, settings, code, outside

-----------------------------------------------------------------------------
(* Type correctness. *)

\* Every reachable state has the shape TypeOK says.
THEOREM TypeCorrect == Spec => []TypeOK
  <1>1. Init => TypeOK
    <2> SUFFICES ASSUME Init PROVE TypeOK
      OBVIOUS
    <2>1. /\ position \in [Venues -> Nat] /\ gifted \in [Venues -> Nat]
          /\ allowance \in [Spenders -> Nat] /\ receiptAllowance \in [Venues -> Nat]
          /\ runs \in [Nonces -> Nat]
      BY DEF Init
    <2>2. /\ frames \in Seq(Frame) /\ nonce \in Nonces /\ now \in Times /\ by \in Senders
          /\ wallet \in Nat /\ paid \in Int /\ ownerHolds \in Nat
      BY DEF Init, Nonces, Times, Senders
    <2>3. QED
      BY <2>1, <2>2 DEF Init, TypeOK
  <1>2. TypeOK /\ [Next]_vars => TypeOK'
    <2> SUFFICES ASSUME TypeOK, [Next]_vars PROVE TypeOK'
      OBVIOUS
    <2>1. Snapshot \in SavedState
      BY SnapshotType
    <2>2. ASSUME NEW x \in Agents \cup {Nobody}, SetAgent(x) PROVE TypeOK'
      BY <2>2 DEF SetAgent, SentBy, Senders, TypeOK, code, money, approvals, outside
    <2>3. ASSUME NEW v \in Venues, NEW allowed \in BOOLEAN, OwnerPermitsVenue(v, allowed) PROVE TypeOK'
      BY <2>3 DEF OwnerPermitsVenue, PermitVenue, SentBy, Senders, TypeOK, code, money, approvals, outside
    <2>4. CASE InvalidateSignatures
      <3>1. nonce' \in Nonces
        BY <2>4 DEF InvalidateSignatures, InvalidatedNonce, TypeOK, Nonces
      <3>2. takenBack' \subseteq [auth : Authorisations, reached : BOOLEAN]
        <4>1. ASSUME NEW a \in signed
              PROVE  [auth |-> a, reached |-> a.nonce <= nonce] \in [auth : Authorisations, reached : BOOLEAN]
          BY <4>1 DEF TypeOK
        <4>2. QED
          BY <4>1, <2>4 DEF InvalidateSignatures, TypeOK
      <3>3. QED
        BY <2>4, <3>1, <3>2 DEF InvalidateSignatures, SentBy, Senders, TypeOK, settings, code, money, approvals
    <2>5. CASE RefuseAutoUpgrade
      BY <2>5 DEF RefuseAutoUpgrade, SentBy, Senders, TypeOK, settings, money, approvals, outside
    <2>6. ASSUME NEW sender \in Keys \cup {Owner}, NEW i \in Implementations, Upgrade(sender, i) PROVE TypeOK'
      BY <2>6 DEF Upgrade, SentBy, Senders, TypeOK, settings, money, approvals, outside
    <2>7. ASSUME NEW a \in Authorisations, Sign(a) PROVE TypeOK'
      BY <2>7 DEF Sign, TypeOK, settings, code, money, approvals
    <2>8. ASSUME NEW a \in Authorisations, ExecuteBatchWithSignature(a) PROVE TypeOK'
      <3>1. BatchFrame(a.calls) \in Frame
        BY <2>1 DEF BatchFrame, Frame, Authorisations
      <3>2. frames' \in Seq(Frame)
        BY <3>1, <2>8, PushFrame DEF ExecuteBatchWithSignature, TypeOK
      <3>3. nonce' \in Nonces /\ runs' \in [Nonces -> Nat]
        BY <2>8 DEF ExecuteBatchWithSignature, TypeOK, Nonces, Authorisations
      <3>4. QED
        BY <2>8, <3>2, <3>3 DEF ExecuteBatchWithSignature, SentBy, Senders, TypeOK, settings, code, money,
                             approvals, outside
    <2>9. ASSUME NEW calls \in Batches, ExecuteBatch(calls) PROVE TypeOK'
      <3>1. BatchFrame(calls) \in Frame
        BY <2>1 DEF BatchFrame, Frame
      <3>2. frames' \in Seq(Frame)
        BY <3>1, <2>9 DEF ExecuteBatch
      <3>3. QED
        BY <2>9, <3>2 DEF ExecuteBatch, SentBy, Senders, TypeOK, settings, code, money, approvals, outside
    <2>10. CASE MakeCall
      <3>1. frames' \in Seq(Frame) /\ Head(Top.calls).amount \in Nat
        BY <2>10, WithinTop, NextCall, ProgressIs DEF Progress
      <3>2. wallet' \in Nat /\ paid' \in Int
        <4>1. wallet \in Nat /\ paid \in Int
          BY DEF TypeOK
        <4>2. \/ /\ wallet >= Head(Top.calls).amount
                 /\ wallet' = wallet - Head(Top.calls).amount /\ paid' = paid + Head(Top.calls).amount
              \/ wallet' = wallet /\ paid' = paid
          BY <2>10 DEF MakeCall
        <4>3. QED
          BY <3>1, <4>1, <4>2
      <3>3. QED
        BY <2>10, <3>1, <3>2 DEF MakeCall, TypeOK, settings, code, approvals, outside
    <2>11. ASSUME NEW v \in Venues, CallSelf(v) PROVE TypeOK'
      <3>1. ~IsOwner(Account) /\ ~Idle
        BY <2>11 DEF IsOwner, CallSelf, Running
      <3>2. QED
        BY <2>11, <3>1, RevertType DEF CallSelf
    <2>12. CASE CallReturns
      <3>1. frames' \in Seq(Frame)
        BY <2>12, WithinTop DEF Progress
      <3>2. QED
        BY <2>12, <3>1 DEF CallReturns, TypeOK, settings, code, money, approvals, outside
    <2>13. CASE BatchReturns
      BY <2>13, TopType DEF BatchReturns, TypeOK, settings, code, money, approvals, outside
    <2>14. CASE CallFails
      BY <2>14, RevertType DEF CallFails
    <2>15. ASSUME NEW sender \in Agents \cup {Owner}, NEW v \in Venues, NEW x \in Amounts, SupplyIdle(sender, v, x)
           PROVE  TypeOK'
      <3>1. SupplyFrame(v) \in Frame
        BY <2>1 DEF SupplyFrame, Frame
      <3>2. frames' \in Seq(Frame)
        BY <3>1, <2>15, PushFrame DEF SupplyIdle, TypeOK
      <3>3. QED
        BY <2>15, <3>2 DEF SupplyIdle, SentBy, Senders, Spenders, TypeOK, settings, code, outside
    <2>16. ASSUME NEW x \in Amounts \cup {0}, VenueTakes(x) PROVE TypeOK'
      <3>1. Pop \in Seq(Frame) /\ ~Idle
        BY <2>16, TopType DEF VenueTakes
      <3>2. x \in Nat /\ x <= wallet /\ wallet \in Nat
        BY <2>16 DEF VenueTakes, TypeOK
      <3>3. wallet' \in Nat
        BY <2>16, <3>2 DEF VenueTakes
      <3>4. position' \in [Venues -> Nat]
        BY <2>16, <3>2, CreditType DEF VenueTakes, TypeOK
      <3>5. allowance' \in [Spenders -> Nat]
        BY <2>16 DEF VenueTakes, AllowanceAfterSupply, TypeOK
      <3>6. QED
        BY <2>16, <3>1, <3>3, <3>4, <3>5 DEF VenueTakes, TypeOK, settings, code, outside
    <2>17. ASSUME NEW sender \in Agents \cup {Owner}, NEW v \in Venues, NEW x \in Amounts, WithdrawIdle(sender, v, x)
           PROVE  TypeOK'
      BY <2>17 DEF WithdrawIdle, Owes, SentBy, Senders, TypeOK, settings, code, approvals, outside
    <2>18. CASE Escape
      BY <2>18 DEF Escape, SentBy, Senders, TypeOK, settings, code, approvals, outside
    <2>19. ASSUME NEW x \in Amounts, Fund(x) PROVE TypeOK'
      BY <2>19 DEF Fund, SentBy, Senders, TypeOK, settings, code, approvals, outside
    <2>20. ASSUME NEW v \in Venues, NEW x \in Amounts, OwnerDepositsFor(v, x) PROVE TypeOK'
      BY <2>20 DEF OwnerDepositsFor, SentBy, Senders, TypeOK, settings, code, approvals, outside
    <2>21. CASE Tick
      BY <2>21 DEF Tick, TypeOK, Times, settings, code, money, approvals
    <2>22. CASE UNCHANGED vars
      BY <2>22 DEF vars, TypeOK
    <2>23. CASE Approve
      <3>1. frames' \in Seq(Frame) /\ Head(Top.calls).amount \in Nat /\ Head(Top.calls).to \in Spenders
        BY <2>23, WithinTop, NextCall, ProgressIs DEF Progress
      <3>2. /\ allowance' \in [Spenders -> Nat] /\ receiptAllowance' \in [Venues -> Nat]
            /\ approved' \subseteq Spenders
        BY <2>23, <3>1 DEF Approve, TypeOK
      <3>3. QED
        BY <2>23, <3>1, <3>2 DEF Approve, TypeOK, settings, code, outside
    <2>24. ASSUME NEW x \in Amounts \cup {0}, VenueTakesDirectly(x) PROVE TypeOK'
      <3> DEFINE v == Head(Top.calls).to
      <3>1. Progress
        BY <2>24 DEF Progress
      <3>2. /\ Head(Top.calls).kind = "supply" /\ x <= wallet /\ x <= allowance[v]
            /\ wallet' = wallet - x /\ position' = [position EXCEPT ![v] = @ + x]
            /\ allowance' = [allowance EXCEPT ![v] = @ - x]
        BY <2>24 DEF VenueTakesDirectly, Calling
      <3>3. v \in Venues /\ v \in Spenders
        BY <3>1, <3>2, NextCall, ProgressIs DEF Spenders
      <3>4. /\ x \in Nat /\ wallet \in Nat /\ allowance \in [Spenders -> Nat]
            /\ position \in [Venues -> Nat]
        BY DEF TypeOK
      <3> HIDE DEF v
      <3>5. wallet' \in Nat /\ position' \in [Venues -> Nat] /\ allowance' \in [Spenders -> Nat]
        BY <3>2, <3>3, <3>4
      <3>6. QED
        <4>1. UNCHANGED <<settings, code, receiptAllowance, approved, paid, gifted, ownerHolds, outside,
                          nonce, runs, by>>
          BY <2>24 DEF VenueTakesDirectly
        <4>2. frames' \in Seq(Frame)
          BY <3>1, WithinTop
        <4>3. QED
          BY <3>5, <4>1, <4>2 DEF TypeOK, settings, code, outside
    <2>25. CASE VenueGives
      <3> DEFINE v == Head(Top.calls).to
                 x == Head(Top.calls).amount
      <3>1. Progress
        BY <2>25 DEF Progress
      <3>2. /\ Head(Top.calls).kind = "withdraw" /\ x <= position[v]
            /\ wallet' = wallet + x /\ position' = [position EXCEPT ![v] = @ - x]
        BY <2>25 DEF VenueGives, Calling, Owes
      <3>3. frames' \in Seq(Frame) /\ v \in Venues /\ x \in Nat
        BY <3>1, <3>2, WithinTop, NextCall, ProgressIs
      <3>4. wallet \in Nat /\ position \in [Venues -> Nat]
        BY DEF TypeOK
      <3> HIDE DEF v, x
      <3>5. wallet' \in Nat /\ position' \in [Venues -> Nat]
        BY <3>2, <3>3, <3>4
      <3>6. QED
        BY <2>25, <3>3, <3>5 DEF VenueGives, TypeOK, settings, code, approvals, outside
    <2>26. ASSUME NEW x \in Amounts, Draw(x) PROVE TypeOK'
      BY <2>26 DEF Draw, SentBy, Senders, Spenders, TypeOK, settings, code, outside
    <2>27. ASSUME NEW v \in Venues, NEW x \in Amounts, DrawReceipts(v, x) PROVE TypeOK'
      BY <2>27 DEF DrawReceipts, Owes, SentBy, Senders, TypeOK, settings, code, outside
    <2>28. ASSUME NEW v \in Venues, NEW x \in Amounts, DepositFor(v, x) PROVE TypeOK'
      BY <2>28 DEF DepositFor, SentBy, Senders, TypeOK, settings, code, approvals, outside
    <2>29. QED
      BY <2>2, <2>3, <2>4, <2>5, <2>6, <2>7, <2>8, <2>9, <2>10, <2>11, <2>12, <2>13, <2>14, <2>15,
         <2>16, <2>17, <2>18, <2>19, <2>20, <2>21, <2>22, <2>23, <2>24, <2>25, <2>26, <2>27, <2>28
      DEF Next
  <1>3. QED
    BY <1>1, <1>2, PTL DEF Spec

-----------------------------------------------------------------------------
(* One run per nonce. *)

\* Nothing has run under a nonce from k on, and no nonce has carried two batches.
FreshFrom(r, k) == \A n \in Nonces : r[n] <= 1 /\ (n >= k => r[n] = 0)

NonceInv ==
    /\ FreshFrom(runs, nonce)
    /\ \A i \in 1..Len(frames) : FreshFrom(frames[i].saved.runs, frames[i].saved.nonce)

\* An open call's frame holds its own recorded state at every place of the stack.
LEMMA StackAfterPop ==
    ASSUME TypeOK, ~Idle, frames' = Pop
    PROVE  /\ Len(frames') = Len(frames) - 1
           /\ \A i \in 1..Len(frames') : i \in 1..Len(frames) /\ frames'[i] = frames[i]
           /\ Len(frames) \in 1..Len(frames)
  BY PopFrame DEF TypeOK, Idle, Pop

\* The nonce invariant survives every step.
LEMMA NonceStep == TypeOK /\ NonceInv /\ [Next]_vars => NonceInv'
  <1> SUFFICES ASSUME TypeOK, NonceInv, [Next]_vars PROVE NonceInv'
    OBVIOUS
  <1>1. ASSUME NEW a \in Authorisations, ExecuteBatchWithSignature(a) PROVE NonceInv'
    <2>1. frames' = Append(frames, BatchFrame(a.calls)) /\ BatchFrame(a.calls).saved = Snapshot
      BY <1>1 DEF ExecuteBatchWithSignature, BatchFrame
    <2>2. Snapshot.runs = runs /\ Snapshot.nonce = nonce
      BY DEF Snapshot
    <2>3. BatchFrame(a.calls) \in Frame
      BY SnapshotType DEF BatchFrame, Frame, Authorisations
    <2>4. FreshFrom(runs', nonce')
      BY <1>1 DEF NonceInv, FreshFrom, ExecuteBatchWithSignature, NamesNonce, TypeOK, Nonces
    <2>5. \A i \in 1..Len(frames') : FreshFrom(frames'[i].saved.runs, frames'[i].saved.nonce)
      BY <2>1, <2>2, <2>3, PushFrame DEF NonceInv, TypeOK
    <2>6. QED
      BY <2>4, <2>5 DEF NonceInv
  <1>2. ASSUME NEW calls \in Batches, ExecuteBatch(calls) PROVE NonceInv'
    <2>1. /\ frames' = <<BatchFrame(calls)>> /\ BatchFrame(calls).saved = Snapshot
          /\ runs' = runs /\ nonce' = nonce
      BY <1>2 DEF ExecuteBatch, BatchFrame
    <2>2. Snapshot.runs = runs /\ Snapshot.nonce = nonce
      BY DEF Snapshot
    <2>3. QED
      BY <2>1, <2>2 DEF NonceInv
  <1>3. ASSUME NEW sender, NEW v, NEW x, SupplyIdle(sender, v, x), v \in Venues PROVE NonceInv'
    <2>1. /\ frames' = Append(frames, SupplyFrame(v)) /\ SupplyFrame(v).saved = Snapshot
          /\ runs' = runs /\ nonce' = nonce
      BY <1>3 DEF SupplyIdle, SupplyFrame
    <2>2. Snapshot.runs = runs /\ Snapshot.nonce = nonce
      BY DEF Snapshot
    <2>3. SupplyFrame(v) \in Frame
      BY <1>3, SnapshotType DEF SupplyFrame, Frame
    <2>4. QED
      BY <2>1, <2>2, <2>3, PushFrame DEF NonceInv, TypeOK
  <1>4. CASE Progress
    <2>1. runs' = runs /\ nonce' = nonce
      BY <1>4, ProgressIs
    <2>2. QED
      BY <1>4, <2>1, WithinTop DEF NonceInv
  <1>5. ASSUME Revert, ~Idle PROVE NonceInv'
    <2>1. frames' = Pop /\ runs' = Top.saved.runs /\ nonce' = Top.saved.nonce
      BY <1>5 DEF Revert
    <2>2. QED
      BY <1>5, <2>1, StackAfterPop DEF NonceInv, Top
  <1>6. ASSUME frames' = Pop, ~Idle, runs' = runs, nonce' = nonce PROVE NonceInv'
    BY <1>6, StackAfterPop DEF NonceInv
  <1>7. CASE InvalidateSignatures
    <2>1. nonce' = nonce + 1 /\ runs' = runs /\ frames' = frames
      BY <1>7 DEF InvalidateSignatures, InvalidatedNonce
    <2>2. nonce \in Nat
      BY DEF TypeOK, Nonces
    <2>3. QED
      BY <2>1, <2>2 DEF NonceInv, FreshFrom, Nonces
  <1>8. ASSUME UNCHANGED <<frames, nonce, runs>> PROVE NonceInv'
    BY <1>8 DEF NonceInv
  <1>9. ASSUME NEW v \in Venues, CallSelf(v) PROVE NonceInv'
    BY <1>9, <1>5 DEF CallSelf, IsOwner, Running
  <1>10. CASE CallFails
    BY <1>10, <1>5 DEF CallFails
  <1>11. CASE BatchReturns
    BY <1>11, <1>6 DEF BatchReturns
  <1>12. ASSUME NEW x \in Amounts \cup {0}, VenueTakes(x) PROVE NonceInv'
    BY <1>12, <1>6 DEF VenueTakes
  <1>13. QED
    BY <1>1, <1>2, <1>3, <1>4, <1>7, <1>8, <1>9, <1>10, <1>11, <1>12
    DEF Next, Progress, vars, SetAgent, OwnerPermitsVenue, PermitVenue, RefuseAutoUpgrade, Upgrade,
        Sign, WithdrawIdle, Draw, DrawReceipts, DepositFor, Escape, Fund, OwnerDepositsFor, Tick

\* One nonce never carries two batches, however calls nest and revert.
THEOREM NonceSingleUse == Spec => []OneRunPerNonce
  <1>1. Init => NonceInv
    BY DEF Init, NonceInv, FreshFrom
  <1>2. NonceInv => OneRunPerNonce
    BY DEF NonceInv, FreshFrom, OneRunPerNonce
  <1>3. QED
    BY <1>1, <1>2, NonceStep, TypeCorrect, PTL DEF Spec

-----------------------------------------------------------------------------
(* No standing allowance. *)

\* One of the i outermost calls is a supply to venue v.
SuppliedBelow(v, i) == \E j \in 1..i : frames[j].kind = "supply" /\ frames[j].venue = v

\* Allowances al that batches approved, or that a supply among the i outermost calls gave.
Explained(al, ap, i) == \A v \in Venues : al[v] # 0 => v \in ap \/ SuppliedBelow(v, i)

\* A venue no batch has approved has an allowance only while a supply to it is open, and
\* would get one back in a revert only from a supply that is open further out.
AllowanceInv ==
    /\ Explained(allowance, approved, Len(frames))
    /\ \A i \in 1..Len(frames) :
           Explained(frames[i].saved.allowance, frames[i].saved.approved, i - 1)

\* A batch going on gives a venue an allowance by approving it.
LEMMA ApprovedOrKept ==
    ASSUME TypeOK, Progress
    PROVE  \A v \in Venues : allowance'[v] # 0 =>
               v \in approved' \/ (allowance[v] # 0 /\ (v \in approved => v \in approved'))
  <1>1. CASE Approve
    BY <1>1 DEF Approve, TypeOK, Spenders
  <1>2. CASE \E x \in Amounts \cup {0} : VenueTakesDirectly(x)
    <2>1. PICK x \in Amounts \cup {0} : VenueTakesDirectly(x)
      BY <1>2
    <2>2. x \in Nat /\ allowance \in [Spenders -> Nat] /\ approved' = approved
      BY <2>1 DEF TypeOK, VenueTakesDirectly
    <2>3. x <= allowance[Head(Top.calls).to] /\ allowance' = [allowance EXCEPT ![Head(Top.calls).to] = @ - x]
      BY <2>1 DEF VenueTakesDirectly
    <2>4. QED
      BY <2>2, <2>3 DEF Spenders
  <1>3. CASE MakeCall \/ CallReturns \/ VenueGives
    BY <1>3 DEF MakeCall, CallReturns, VenueGives, money, approvals
  <1>4. QED
    BY <1>1, <1>2, <1>3 DEF Progress

\* The allowance invariant survives every step.
LEMMA AllowanceStep == TypeOK /\ AllowanceInv /\ [Next]_vars => AllowanceInv'
  <1> SUFFICES ASSUME TypeOK, AllowanceInv, [Next]_vars PROVE AllowanceInv'
    OBVIOUS
  <1>1. Snapshot.allowance = allowance /\ Snapshot.approved = approved /\ Len(frames) \in Nat
    BY DEF Snapshot, TypeOK
  <1>2. ASSUME NEW e \in Frame, frames' = Append(frames, e), e.saved = Snapshot, approved' = approved,
               \A v \in Venues : allowance'[v] # 0 =>
                   allowance[v] # 0 \/ (e.kind = "supply" /\ e.venue = v)
        PROVE  AllowanceInv'
    <2>1. /\ Len(frames') = Len(frames) + 1
          /\ \A i \in 1..Len(frames) : frames'[i] = frames[i]
          /\ frames'[Len(frames) + 1] = e
      BY <1>2, PushFrame DEF TypeOK
    <2>2. Explained(allowance, approved, Len(frames))'
      BY <1>1, <1>2, <2>1 DEF AllowanceInv, Explained, SuppliedBelow
    <2>3. \A i \in 1..Len(frames') :
             Explained(frames[i].saved.allowance, frames[i].saved.approved, i - 1)'
      BY <1>1, <1>2, <2>1 DEF AllowanceInv, Explained, SuppliedBelow
    <2>4. QED
      BY <2>2, <2>3 DEF AllowanceInv, Explained, SuppliedBelow
  <1>3. ASSUME NEW a \in Authorisations, ExecuteBatchWithSignature(a) PROVE AllowanceInv'
    <2>1. BatchFrame(a.calls) \in Frame /\ BatchFrame(a.calls).saved = Snapshot
      BY SnapshotType DEF BatchFrame, Frame, Authorisations
    <2>2. QED
      BY <1>2, <1>3, <2>1 DEF ExecuteBatchWithSignature, money, approvals
  <1>4. ASSUME NEW calls \in Batches, ExecuteBatch(calls) PROVE AllowanceInv'
    <2>1. BatchFrame(calls) \in Frame /\ BatchFrame(calls).saved = Snapshot
      BY SnapshotType DEF BatchFrame, Frame
    <2>2. frames' = Append(frames, BatchFrame(calls))
      BY <1>4 DEF ExecuteBatch, Idle
    <2>3. QED
      BY <1>2, <1>4, <2>1, <2>2 DEF ExecuteBatch, money, approvals
  <1>5. ASSUME NEW sender, NEW v \in Venues, NEW x \in Amounts, SupplyIdle(sender, v, x) PROVE AllowanceInv'
    <2>1. /\ SupplyFrame(v) \in Frame /\ SupplyFrame(v).saved = Snapshot
          /\ SupplyFrame(v).kind = "supply" /\ SupplyFrame(v).venue = v
      BY SnapshotType DEF SupplyFrame, Frame
    <2>2. allowance' = [allowance EXCEPT ![v] = x] /\ allowance \in [Spenders -> Nat]
      BY <1>5 DEF SupplyIdle, TypeOK
    <2>3. QED
      BY <1>2, <1>5, <2>1, <2>2 DEF SupplyIdle, Spenders
  <1>6. CASE Progress
    <2>1. Explained(allowance', approved', Len(frames))
      BY <1>6, ApprovedOrKept DEF AllowanceInv, Explained
    <2>2. /\ Len(frames') = Len(frames)
          /\ \A i \in 1..Len(frames) : /\ frames'[i].saved = frames[i].saved
                                      /\ frames'[i].kind = frames[i].kind
                                      /\ frames'[i].venue = frames[i].venue
      BY <1>6, WithinTop
    <2>3. ASSUME NEW v, NEW i \in 0..Len(frames), SuppliedBelow(v, i) PROVE SuppliedBelow(v, i)'
      BY <1>1, <2>2, <2>3 DEF SuppliedBelow
    <2>4. Explained(allowance, approved, Len(frames))'
      BY <1>1, <2>1, <2>2, <2>3 DEF Explained
    <2>5. ASSUME NEW i \in 1..Len(frames')
          PROVE  Explained(frames[i].saved.allowance, frames[i].saved.approved, i - 1)'
      <3>1. /\ i \in 1..Len(frames) /\ i - 1 \in 0..Len(frames) /\ frames'[i].saved = frames[i].saved
            /\ Explained(frames[i].saved.allowance, frames[i].saved.approved, i - 1)
        BY <1>1, <2>2 DEF AllowanceInv
      <3>2. QED
        BY <2>3, <3>1 DEF Explained
    <2>6. QED
      BY <2>4, <2>5 DEF AllowanceInv
  <1>7. ASSUME Revert, ~Idle PROVE AllowanceInv'
    <2>1. frames' = Pop /\ allowance' = Top.saved.allowance /\ approved' = Top.saved.approved
      BY <1>7 DEF Revert
    <2>2. QED
      BY <1>1, <1>7, <2>1, StackAfterPop DEF AllowanceInv, Explained, SuppliedBelow, Top
  <1>8. CASE BatchReturns
    <2>1. ~Idle /\ frames' = Pop /\ Top.kind = "batch" /\ UNCHANGED <<allowance, approved>>
      BY <1>8 DEF BatchReturns, money, approvals
    <2>2. \A v \in Venues : SuppliedBelow(v, Len(frames)) => SuppliedBelow(v, Len(frames) - 1)
      BY <1>1, <2>1 DEF SuppliedBelow, Top
    <2>3. QED
      BY <1>1, <2>1, <2>2, StackAfterPop DEF AllowanceInv, Explained, SuppliedBelow
  <1>9. ASSUME NEW x \in Amounts \cup {0}, VenueTakes(x) PROVE AllowanceInv'
    <2>1. /\ ~Idle /\ frames' = Pop /\ approved' = approved
          /\ allowance' = [allowance EXCEPT ![Top.venue] = 0]
      BY <1>9 DEF VenueTakes, AllowanceAfterSupply
    <2>2. \A v \in Venues : allowance'[v] # 0 => allowance[v] # 0 /\ v # Top.venue
      BY <2>1 DEF TypeOK, Spenders
    <2>3. \A v \in Venues : SuppliedBelow(v, Len(frames)) /\ v # Top.venue =>
             SuppliedBelow(v, Len(frames) - 1)
      BY <1>1 DEF SuppliedBelow, Top
    <2>4. \A v \in Venues, i \in 0..(Len(frames) - 1) : SuppliedBelow(v, i) => SuppliedBelow(v, i)'
      BY <1>1, <2>1, StackAfterPop DEF SuppliedBelow
    <2>5. Explained(allowance, approved, Len(frames))'
      BY <1>1, <2>1, <2>2, <2>3, <2>4, StackAfterPop DEF AllowanceInv, Explained
    <2>6. \A i \in 1..Len(frames') :
             Explained(frames[i].saved.allowance, frames[i].saved.approved, i - 1)'
      BY <1>1, <2>1, <2>4, StackAfterPop DEF AllowanceInv, Explained
    <2>7. QED
      BY <2>5, <2>6 DEF AllowanceInv
  <1>10. ASSUME UNCHANGED <<frames, approved>>, \A v \in Venues : allowance'[v] = allowance[v]
         PROVE  AllowanceInv'
    BY <1>10 DEF AllowanceInv, Explained, SuppliedBelow
  <1>11. ASSUME NEW v \in Venues, CallSelf(v) PROVE AllowanceInv'
    BY <1>11, <1>7 DEF CallSelf, IsOwner, Running
  <1>12. CASE CallFails
    BY <1>12, <1>7 DEF CallFails
  <1>13. ASSUME NEW x, Draw(x) PROVE AllowanceInv'
    <2>1. UNCHANGED <<frames, approved>> /\ \A v \in Venues : allowance'[v] = allowance[v]
      BY <1>13, VenuesAssumption DEF Draw, TypeOK, Spenders
    <2>2. QED
      BY <1>10, <2>1
  <1>14. ASSUME UNCHANGED <<frames, approvals>> PROVE AllowanceInv'
    BY <1>10, <1>14 DEF approvals
  <1>15. ASSUME NEW v, NEW x, DrawReceipts(v, x) PROVE AllowanceInv'
    BY <1>10, <1>15 DEF DrawReceipts
  <1>16. QED
    BY <1>3, <1>4, <1>5, <1>6, <1>8, <1>9, <1>11, <1>12, <1>13, <1>14, <1>15
    DEF Next, Progress, vars, approvals, money, SetAgent, OwnerPermitsVenue, PermitVenue,
        InvalidateSignatures, RefuseAutoUpgrade, Upgrade, Sign, WithdrawIdle, DepositFor, Escape,
        Fund, OwnerDepositsFor, Tick

\* Between transactions no venue holds an allowance over the account that no batch gave it.
THEOREM AllowanceEnds == Spec => []NoStandingAllowance
  <1>1. Init => AllowanceInv
    BY DEF Init, AllowanceInv, Explained, SuppliedBelow, Spenders
  <1>2. AllowanceInv => NoStandingAllowance
    BY DEF AllowanceInv, Explained, SuppliedBelow, NoStandingAllowance, Idle
  <1>3. QED
    BY <1>1, <1>2, AllowanceStep, TypeCorrect, PTL DEF Spec

-----------------------------------------------------------------------------
(* Settings and code. *)

\* No step inside a transaction touches a setting or the code.
THEOREM SettingsAreTheOwners == Spec => SettingsNeedTheOwnersTransaction
  <1>1. [Next]_vars => [~Idle => UNCHANGED <<settings, code>>]_vars
    <2> SUFFICES ASSUME [Next]_vars, ~Idle PROVE UNCHANGED <<settings, code>>
      OBVIOUS
    <2>1. ASSUME NEW v \in Venues, CallSelf(v) PROVE UNCHANGED <<settings, code>>
      BY <2>1 DEF CallSelf, IsOwner, Revert
    <2>2. CASE CallFails
      BY <2>2 DEF CallFails, Revert
    <2>3. CASE UNCHANGED vars
      BY <2>3 DEF vars, settings, code
    <2>4. QED
      BY <2>1, <2>2, <2>3
      DEF Next, SetAgent, OwnerPermitsVenue, InvalidateSignatures, RefuseAutoUpgrade, Upgrade, Sign,
          ExecuteBatchWithSignature, ExecuteBatch, MakeCall, Approve, CallReturns, VenueTakesDirectly,
          VenueGives, BatchReturns, SupplyIdle, VenueTakes, WithdrawIdle, Draw, DrawReceipts,
          DepositFor, Escape, Fund, OwnerDepositsFor, Tick
  <1>2. QED
    BY <1>1, PTL DEF Spec, SettingsNeedTheOwnersTransaction

\* The code changes in an upgrade and nowhere else: no call, revert or setting reaches it.
LEMMA CodeIsUpgraded ==
    [Next]_vars /\ implementation' # implementation =>
        \E sender \in Keys \cup {Owner}, i \in Implementations : Upgrade(sender, i)
  <1> SUFFICES ASSUME [Next]_vars, implementation' # implementation,
                      ~\E sender \in Keys \cup {Owner}, i \in Implementations : Upgrade(sender, i)
               PROVE  FALSE
    OBVIOUS
  <1>1. ~CallFails /\ \A v \in Venues : ~CallSelf(v)
    BY DEF CallSelf, CallFails, PermitVenue, Revert, code
  <1>2. ~RefuseAutoUpgrade /\ ~(UNCHANGED vars)
    BY DEF RefuseAutoUpgrade, vars
  <1>3. QED
    BY <1>1, <1>2
    DEF Next, code, SetAgent, OwnerPermitsVenue, PermitVenue, InvalidateSignatures, Sign,
        ExecuteBatchWithSignature, ExecuteBatch, MakeCall, Approve, CallReturns, VenueTakesDirectly,
        VenueGives, BatchReturns, SupplyIdle, VenueTakes, WithdrawIdle, Draw, DrawReceipts,
        DepositFor, Escape, Fund, OwnerDepositsFor, Tick

\* After the refusal only the owner changes the code.
THEOREM RefusalHolds == Spec => RefusalIsFinal
  <1>1. [Next]_vars => [autoUpgradeRefused /\ implementation' # implementation => by' = Owner]_vars
    <2> SUFFICES ASSUME [Next]_vars, autoUpgradeRefused, implementation' # implementation
                 PROVE  by' = Owner
      OBVIOUS
    <2>1. PICK sender \in Keys \cup {Owner}, i \in Implementations : Upgrade(sender, i)
      BY CodeIsUpgraded
    <2>2. QED
      BY <2>1 DEF Upgrade, MayUpgrade, IsOwner, SentBy
  <1>2. QED
    BY <1>1, PTL DEF Spec, RefusalIsFinal

\* Settings and code are the owner's to decide: OnlyTheOwnerDecides, in every behaviour.
THEOREM OwnerDecides == Spec => OnlyTheOwnerDecides
  BY SettingsAreTheOwners, RefusalHolds DEF OnlyTheOwnerDecides

-----------------------------------------------------------------------------
(* Revocation. *)

\* What a revocation reached is behind the nonce, and behind every nonce a revert
\* could bring back; and a revert only ever takes runs away.
LeftBehind(k) == \A t \in takenBack : t.reached => t.auth.nonce < k
NoMoreThan(r1, r2) == \A n \in Nonces : r1[n] <= r2[n]

RevocationInv ==
    /\ LeftBehind(nonce)
    /\ \A i \in 1..Len(frames) : /\ LeftBehind(frames[i].saved.nonce)
                                /\ NoMoreThan(frames[i].saved.runs, runs)
    /\ \A i, j \in 1..Len(frames) :
           i < j => NoMoreThan(frames[i].saved.runs, frames[j].saved.runs)

\* The revocation invariant survives every step.
LEMMA RevocationStep == TypeOK /\ RevocationInv /\ [Next]_vars => RevocationInv'
  <1> SUFFICES ASSUME TypeOK, RevocationInv, [Next]_vars PROVE RevocationInv'
    OBVIOUS
  <1>1. /\ Snapshot.runs = runs /\ Snapshot.nonce = nonce /\ Len(frames) \in Nat
        /\ nonce \in Nat /\ runs \in [Nonces -> Nat]
        /\ \A t \in takenBack : t.auth.nonce \in Nat
    BY DEF Snapshot, TypeOK, Nonces, Authorisations
  <1>2. ASSUME NEW e \in Frame, frames' = Append(frames, e), e.saved = Snapshot,
               takenBack' = takenBack, nonce' \in {nonce, nonce + 1},
               NoMoreThan(runs, runs'), runs' \in [Nonces -> Nat]
        PROVE  RevocationInv'
    <2>1. /\ Len(frames') = Len(frames) + 1
          /\ \A i \in 1..Len(frames) : frames'[i] = frames[i]
          /\ frames'[Len(frames) + 1] = e
      BY <1>2, PushFrame DEF TypeOK
    <2>2. \A i \in 1..Len(frames) : frames[i].saved.runs \in [Nonces -> Nat]
      <3>1. \A i \in 1..Len(frames) : frames[i] \in Frame
        BY ElementOfSeq DEF TypeOK
      <3>2. QED
        BY <3>1 DEF Frame, SavedState
    <2>3. e.saved.runs = runs /\ e.saved.nonce = nonce
      BY <1>1, <1>2
    <2>4. LeftBehind(nonce')
      BY <1>1, <1>2 DEF RevocationInv, LeftBehind
    <2>5. ASSUME NEW i \in 1..Len(frames')
          PROVE  LeftBehind(frames'[i].saved.nonce) /\ NoMoreThan(frames'[i].saved.runs, runs')
      <3>1. CASE i \in 1..Len(frames)
        BY <1>1, <1>2, <2>1, <2>2, <3>1 DEF RevocationInv, NoMoreThan
      <3>2. CASE i = Len(frames) + 1
        BY <1>2, <2>1, <2>3, <3>2 DEF RevocationInv
      <3>3. QED
        BY <1>1, <2>1, <3>1, <3>2
    <2>6. ASSUME NEW i \in 1..Len(frames'), NEW j \in 1..Len(frames'), i < j
          PROVE  NoMoreThan(frames'[i].saved.runs, frames'[j].saved.runs)
      <3>1. CASE j \in 1..Len(frames)
        BY <1>1, <2>1, <2>6, <3>1 DEF RevocationInv
      <3>2. CASE j = Len(frames) + 1
        BY <1>1, <2>1, <2>3, <2>6, <3>2 DEF RevocationInv
      <3>3. QED
        BY <1>1, <2>1, <3>1, <3>2
    <2>7. QED
      BY <1>2, <2>4, <2>5, <2>6 DEF RevocationInv, LeftBehind
  <1>3. ASSUME NEW a \in Authorisations, ExecuteBatchWithSignature(a) PROVE RevocationInv'
    <2>1. BatchFrame(a.calls) \in Frame /\ BatchFrame(a.calls).saved = Snapshot
      BY SnapshotType DEF BatchFrame, Frame, Authorisations
    <2>2. runs' \in [Nonces -> Nat] /\ NoMoreThan(runs, runs')
      BY <1>1, <1>3 DEF ExecuteBatchWithSignature, NoMoreThan, Authorisations
    <2>3. QED
      BY <1>2, <1>3, <2>1, <2>2 DEF ExecuteBatchWithSignature, outside
  <1>4. ASSUME NEW calls \in Batches, ExecuteBatch(calls) PROVE RevocationInv'
    <2>1. BatchFrame(calls) \in Frame /\ BatchFrame(calls).saved = Snapshot
      BY SnapshotType DEF BatchFrame, Frame
    <2>2. frames' = Append(frames, BatchFrame(calls)) /\ runs' = runs /\ nonce' = nonce
      BY <1>4 DEF ExecuteBatch, Idle
    <2>3. NoMoreThan(runs, runs')
      BY <1>1, <2>2 DEF NoMoreThan
    <2>4. QED
      BY <1>1, <1>2, <1>4, <2>1, <2>2, <2>3 DEF ExecuteBatch, outside
  <1>5. ASSUME NEW sender, NEW v \in Venues, NEW x \in Amounts, SupplyIdle(sender, v, x) PROVE RevocationInv'
    <2>1. SupplyFrame(v) \in Frame /\ SupplyFrame(v).saved = Snapshot
      BY SnapshotType DEF SupplyFrame, Frame
    <2>2. frames' = Append(frames, SupplyFrame(v)) /\ runs' = runs /\ nonce' = nonce
      BY <1>5 DEF SupplyIdle
    <2>3. NoMoreThan(runs, runs')
      BY <1>1, <2>2 DEF NoMoreThan
    <2>4. QED
      BY <1>1, <1>2, <1>5, <2>1, <2>2, <2>3 DEF SupplyIdle, outside
  <1>6. CASE Progress
    <2>1. runs' = runs /\ nonce' = nonce /\ takenBack' = takenBack
      BY <1>6, ProgressIs DEF outside
    <2>2. QED
      BY <1>6, <2>1, WithinTop DEF RevocationInv, LeftBehind
  <1>7. ASSUME Revert, ~Idle PROVE RevocationInv'
    <2>1. frames' = Pop /\ runs' = Top.saved.runs /\ nonce' = Top.saved.nonce /\ takenBack' = takenBack
      BY <1>7 DEF Revert, outside
    <2>2. /\ Len(frames') = Len(frames) - 1
          /\ \A i \in 1..Len(frames') : i \in 1..Len(frames) /\ frames'[i] = frames[i]
          /\ Len(frames) \in 1..Len(frames) /\ Len(frames) \in Nat
      BY <1>1, <1>7, <2>1, StackAfterPop
    <2>3. LeftBehind(nonce)'
      BY <2>1, <2>2 DEF RevocationInv, LeftBehind, Top
    <2>4. (\A i \in 1..Len(frames) : LeftBehind(frames[i].saved.nonce))'
      BY <2>1, <2>2 DEF RevocationInv, LeftBehind
    <2>5. \A i \in 1..Len(frames') : NoMoreThan(frames'[i].saved.runs, runs')
      <3>1. TAKE i \in 1..Len(frames')
      <3>2. i < Len(frames) /\ i \in 1..Len(frames) /\ frames'[i] = frames[i]
        BY <2>2
      <3>3. NoMoreThan(frames[i].saved.runs, frames[Len(frames)].saved.runs)
        BY <2>2, <3>2 DEF RevocationInv
      <3>4. QED
        BY <2>1, <3>2, <3>3 DEF Top
    <2>6. \A i, j \in 1..Len(frames') :
              i < j => NoMoreThan(frames'[i].saved.runs, frames'[j].saved.runs)
      BY <2>2 DEF RevocationInv
    <2>7. QED
      BY <2>3, <2>4, <2>5, <2>6 DEF RevocationInv, LeftBehind, NoMoreThan
  <1>8. ASSUME frames' = Pop, ~Idle, runs' = runs, nonce' = nonce, takenBack' = takenBack
        PROVE  RevocationInv'
    BY <1>8, StackAfterPop DEF RevocationInv, LeftBehind
  <1>9. CASE InvalidateSignatures
    <2>1. /\ nonce' = nonce + 1 /\ frames = <<>> /\ frames' = frames
          /\ takenBack' = takenBack \cup {[auth |-> a, reached |-> a.nonce <= nonce] : a \in signed}
      BY <1>9 DEF InvalidateSignatures, InvalidatedNonce, Idle
    <2>2. \A a \in signed : a.nonce \in Nat
      BY DEF TypeOK, Authorisations, Nonces
    <2>3. ASSUME NEW t \in takenBack', t.reached PROVE t.auth.nonce < nonce'
      <3>1. CASE t \in takenBack
        BY <1>1, <2>1, <2>3, <3>1 DEF RevocationInv, LeftBehind
      <3>2. CASE t \notin takenBack
        <4>1. PICK a \in signed : t = [auth |-> a, reached |-> a.nonce <= nonce]
          BY <2>1, <3>2
        <4>2. t.auth.nonce = a.nonce /\ a.nonce <= nonce
          BY <4>1, <2>3
        <4>3. QED
          BY <1>1, <2>1, <2>2, <4>2
      <3>3. QED
        BY <3>1, <3>2
    <2>4. QED
      BY <2>1, <2>3 DEF RevocationInv, LeftBehind
  <1>10. ASSUME UNCHANGED <<frames, nonce, runs, takenBack>> PROVE RevocationInv'
    BY <1>10 DEF RevocationInv, LeftBehind
  <1>11. ASSUME NEW v \in Venues, CallSelf(v) PROVE RevocationInv'
    BY <1>11, <1>7 DEF CallSelf, IsOwner, Running
  <1>12. CASE CallFails
    BY <1>12, <1>7 DEF CallFails
  <1>13. CASE BatchReturns
    BY <1>13, <1>8 DEF BatchReturns, outside
  <1>14. ASSUME NEW x \in Amounts \cup {0}, VenueTakes(x) PROVE RevocationInv'
    BY <1>14, <1>8 DEF VenueTakes, outside
  <1>15. QED
    BY <1>3, <1>4, <1>5, <1>6, <1>9, <1>10, <1>11, <1>12, <1>13, <1>14
    DEF Next, Progress, vars, outside, SetAgent, OwnerPermitsVenue, PermitVenue, RefuseAutoUpgrade,
        Upgrade, Sign, WithdrawIdle, Draw, DrawReceipts, DepositFor, Escape, Fund, OwnerDepositsFor, Tick

\* What the invariant gives at the step: no run is added under a nonce left behind.
LEMMA NoLateRun ==
    TypeOK /\ RevocationInv /\ [Next]_vars
      => [\A t \in takenBack : t.reached => runs'[t.auth.nonce] <= runs[t.auth.nonce]]_vars
  <1> SUFFICES ASSUME TypeOK, RevocationInv, [Next]_vars, NEW t \in takenBack, t.reached
               PROVE  runs'[t.auth.nonce] <= runs[t.auth.nonce]
    OBVIOUS
  <1>1. /\ t.auth.nonce \in Nonces /\ t.auth.nonce \in Nat /\ nonce \in Nat
        /\ t.auth.nonce < nonce /\ runs \in [Nonces -> Nat]
    BY DEF TypeOK, Authorisations, Nonces, RevocationInv, LeftBehind
  <1>2. ASSUME NEW a \in Authorisations, ExecuteBatchWithSignature(a)
        PROVE  runs'[t.auth.nonce] <= runs[t.auth.nonce]
    BY <1>1, <1>2 DEF ExecuteBatchWithSignature, NamesNonce
  <1>3. ASSUME Revert, ~Idle PROVE runs'[t.auth.nonce] <= runs[t.auth.nonce]
    BY <1>1, <1>3, StackAfterPop DEF Revert, RevocationInv, NoMoreThan, Top
  <1>4. ASSUME runs' = runs PROVE runs'[t.auth.nonce] <= runs[t.auth.nonce]
    BY <1>1, <1>4
  <1>5. ASSUME NEW v \in Venues, CallSelf(v) PROVE runs'[t.auth.nonce] <= runs[t.auth.nonce]
    BY <1>5, <1>3 DEF CallSelf, IsOwner, Running
  <1>6. CASE CallFails
    BY <1>6, <1>3 DEF CallFails
  <1>7. QED
    BY <1>2, <1>4, <1>5, <1>6
    DEF Next, vars, SetAgent, OwnerPermitsVenue, PermitVenue, InvalidateSignatures, RefuseAutoUpgrade,
        Upgrade, Sign, ExecuteBatch, MakeCall, Approve, CallReturns, VenueTakesDirectly, VenueGives,
        BatchReturns, SupplyIdle, VenueTakes, WithdrawIdle, Draw, DrawReceipts, DepositFor, Escape,
        Fund, OwnerDepositsFor, Tick

\* A revocation is final for every authorisation whose nonce had been reached.
THEOREM RevocationIsFinal == Spec => RevocationHolds
  <1>1. Init => RevocationInv
    BY DEF Init, RevocationInv, LeftBehind
  <1>2. QED
    BY <1>1, RevocationStep, NoLateRun, TypeCorrect, PTL DEF Spec, RevocationHolds
-----------------------------------------------------------------------------
(* Custody: the account refines AccountCustody.                            *)
(*                                                                         *)
(* A transaction is seen from outside only when its outermost call is      *)
(* over, so what matters is how far the state has moved from the one that  *)
(* call would go back to.  The invariant is that the current state, and    *)
(* every state an inner call would go back to, are Within custody of it.   *)

\* The owner has been asked: the transaction is a batch of the owner's, or has spent a
\* signature since `base`.
Licensed(who, base, n) == who = Account \/ n > base.nonce

\* From s to t nobody needed to be asked.  Spenders in X, which a supply under way has approved,
\* may have more than before.
Means(who, p, e, X, s, t) ==
    /\ t.paid - s.paid <= s.allowance[Aqua] - t.allowance[Aqua]
    /\ \A a \in Spenders \ X : t.allowance[a] <= s.allowance[a]
    /\ \A v \in Venues : t.receiptAllowance[v] <= s.receiptAllowance[v]
    /\ \A v \in Venues \ p : t.position[v] - s.position[v] <= t.gifted[v] - s.gifted[v]
    /\ who # Owner => \A v \in Venues \ e :
           s.position[v] - t.position[v] <= s.receiptAllowance[v] - t.receiptAllowance[v]

\* One transaction may go from `base` to `s`, with venues p permitted and e ever named.
Within(who, p, e, X, base, s) ==
    /\ s.nonce >= base.nonce
    /\ Money(s) = Money(base)
    /\ Licensed(who, base, s.nonce) \/ Means(who, p, e, X, base, s)

\* The venues that the i outermost calls supply.
Supplied(i) == {v \in Venues : SuppliedBelow(v, i)}

\* As far as the transaction in hand may have come, inside its i outermost calls.
Reached(s, i) == Within(by, permittedVenue, venueEverPermitted, Supplied(i), frames[1].saved, s)

\* Frame k, with the state behind it: its own venue is permitted, and if it is a batch
\* the owner has been asked, now and in every state a call it made would go back to.
FrameInv(k) ==
    /\ Reached(frames[k].saved, k - 1)
    /\ frames[k].kind = "supply" => frames[k].venue \in permittedVenue
    /\ frames[k].kind = "batch" => Licensed(by, frames[1].saved, nonce)
    /\ frames[k].kind = "batch" =>
           \A m \in (k + 1)..Len(frames) : Licensed(by, frames[1].saved, frames[m].saved.nonce)

CustodyInv ==
    /\ permittedVenue \subseteq venueEverPermitted
    /\ \A k \in 1..Len(frames) : FrameInv(k)
    /\ ~Idle => Reached(Snapshot, Len(frames))

\* Both modules' sums are the same.
LEMMA SameSum ==
    ASSUME NEW f, NEW S
    PROVE  Custody!SumOf(f, S) = SumOf(f, S)
  BY DEF Custody!SumOf, SumOf, Custody!MapThenSumSet, MapThenSumSet, Custody!MapThenFoldSet, MapThenFoldSet

\* What custody counts is the money of the committed state and the owner's own.
LEMMA WorthNow == Custody!Worth = Money(Committed) + ownerHolds
  BY SameSum DEF Custody!Worth, Money

\* The same, after a step.
LEMMA WorthNext == Custody!Worth' = Money(Committed') + ownerHolds'
  BY SameSum DEF Custody!Worth, Money

\* Every amount in a recorded state is one.
LEMMA StateTypes ==
    ASSUME NEW s \in SavedState
    PROVE  /\ s.paid \in Int /\ s.allowance[Aqua] \in Nat
           /\ \A a \in Spenders : s.allowance[a] \in Nat
           /\ \A v \in Venues : /\ s.position[v] \in Nat /\ s.gifted[v] \in Nat
                                /\ s.receiptAllowance[v] \in Nat
  BY DEF SavedState, Spenders

\* The state a transaction starts from is within reach of it.
LEMMA WithinItself ==
    ASSUME NEW s \in SavedState, NEW who, NEW p, NEW e, NEW X
    PROVE  Within(who, p, e, X, s, s)
  <1>1. /\ s.paid \in Int /\ s.allowance[Aqua] \in Nat /\ s.nonce \in Nat
        /\ \A a \in Spenders : s.allowance[a] \in Nat
        /\ \A v \in Venues : /\ s.position[v] \in Nat /\ s.gifted[v] \in Nat
                             /\ s.receiptAllowance[v] \in Nat
    BY MoneyType, StateTypes
  <1>2. Means(who, p, e, X, s, s)
    BY ONLY <1>1 DEF Means
  <1>3. QED
    BY <1>1, <1>2 DEF Within

\* What two stretches of a transaction do adds up.
LEMMA MeansAdd ==
    ASSUME NEW base \in SavedState, NEW s \in SavedState, NEW t \in SavedState,
           NEW who, NEW p, NEW e, NEW X, NEW Y,
           Means(who, p, e, X, base, s), Means(who, p, e, Y, s, t)
    PROVE  Means(who, p, e, X \cup Y, base, t)
  <1>1. t.paid - base.paid <= base.allowance[Aqua] - t.allowance[Aqua]
    <2>1. /\ base.paid \in Int /\ s.paid \in Int /\ t.paid \in Int
          /\ base.allowance[Aqua] \in Nat /\ s.allowance[Aqua] \in Nat /\ t.allowance[Aqua] \in Nat
      BY StateTypes
    <2>2. /\ s.paid - base.paid <= base.allowance[Aqua] - s.allowance[Aqua]
          /\ t.paid - s.paid <= s.allowance[Aqua] - t.allowance[Aqua]
      BY DEF Means
    <2>3. QED
      BY ONLY <2>1, <2>2
  <1>2. ASSUME NEW a \in Spenders \ (X \cup Y) PROVE t.allowance[a] <= base.allowance[a]
    <2>1. t.allowance[a] <= s.allowance[a] /\ s.allowance[a] <= base.allowance[a]
      BY DEF Means
    <2>2. QED
      BY <2>1, StateTypes
  <1>3. ASSUME NEW v \in Venues
        PROVE  /\ t.receiptAllowance[v] <= base.receiptAllowance[v]
               /\ v \notin p => t.position[v] - base.position[v] <= t.gifted[v] - base.gifted[v]
               /\ who # Owner /\ v \notin e =>
                      base.position[v] - t.position[v] <= base.receiptAllowance[v] - t.receiptAllowance[v]
    <2>1. /\ s.position[v] \in Nat /\ s.gifted[v] \in Nat /\ s.receiptAllowance[v] \in Nat
          /\ t.position[v] \in Nat /\ t.gifted[v] \in Nat /\ t.receiptAllowance[v] \in Nat
          /\ base.position[v] \in Nat /\ base.gifted[v] \in Nat /\ base.receiptAllowance[v] \in Nat
      BY StateTypes
    <2>2. /\ s.receiptAllowance[v] <= base.receiptAllowance[v] /\ t.receiptAllowance[v] <= s.receiptAllowance[v]
          /\ v \notin p => /\ s.position[v] - base.position[v] <= s.gifted[v] - base.gifted[v]
                           /\ t.position[v] - s.position[v] <= t.gifted[v] - s.gifted[v]
          /\ who # Owner /\ v \notin e =>
                 /\ base.position[v] - s.position[v] <= base.receiptAllowance[v] - s.receiptAllowance[v]
                 /\ s.position[v] - t.position[v] <= s.receiptAllowance[v] - t.receiptAllowance[v]
      BY DEF Means
    <2>3. QED
      BY ONLY <2>1, <2>2
  <1>4. QED
    BY <1>1, <1>2, <1>3 DEF Means

\* A stretch that needs nobody goes on from wherever the transaction has come.
LEMMA GoesOn ==
    ASSUME NEW base \in SavedState, NEW s \in SavedState, NEW t \in SavedState,
           NEW who, NEW p, NEW e, NEW X, NEW Y,
           Within(who, p, e, X, base, s), Means(who, p, e, Y, s, t),
           t.nonce = s.nonce, Money(t) = Money(s)
    PROVE  Within(who, p, e, X \cup Y, base, t) /\ (Y = {} => Within(who, p, e, X, base, t))
  <1>1. t.nonce >= base.nonce /\ Money(t) = Money(base)
    BY DEF Within
  <1>2. Licensed(who, base, t.nonce) \/ Means(who, p, e, X \cup Y, base, t)
    BY MeansAdd DEF Within
  <1>3. Y = {} => X \cup Y = X
    OBVIOUS
  <1>4. QED
    BY <1>1, <1>2, <1>3 DEF Within

\* A spender left with nothing has no more than before.
LEMMA MeansShed ==
    ASSUME NEW base \in SavedState, NEW t \in SavedState, NEW v,
           NEW who, NEW p, NEW e, NEW X, NEW Y,
           Means(who, p, e, X, base, t), t.allowance[v] = 0, X \ {v} \subseteq Y
    PROVE  Means(who, p, e, Y, base, t)
  <1>1. ASSUME NEW a \in Spenders \ Y PROVE t.allowance[a] <= base.allowance[a]
    <2>1. CASE a = v
      BY <2>1, StateTypes
    <2>2. CASE a # v
      BY <2>2 DEF Means
    <2>3. QED
      BY <2>1, <2>2
  <1>2. QED
    BY <1>1 DEF Means

\* Custody looks at the money of a state, and at its nonce.
LEMMA WithinAlike ==
    ASSUME NEW who, NEW p, NEW e, NEW X, NEW base, NEW s, NEW t,
           /\ t.nonce = s.nonce /\ t.wallet = s.wallet /\ t.position = s.position
           /\ t.allowance = s.allowance /\ t.receiptAllowance = s.receiptAllowance
           /\ t.paid = s.paid /\ t.gifted = s.gifted,
           Within(who, p, e, X, base, s)
    PROVE  Within(who, p, e, X, base, t)
  BY DEF Within, Means, Money

\* A position credited, or debited, at one venue.
LEMMA CreditOne ==
    ASSUME NEW f \in [Venues -> Nat], NEW v \in Venues, NEW x
    PROVE  /\ [f EXCEPT ![v] = @ + x][v] = f[v] + x
           /\ [f EXCEPT ![v] = @ - x][v] = f[v] - x
           /\ \A y \in Venues \ {v} : [f EXCEPT ![v] = @ + x][y] = f[y] /\ [f EXCEPT ![v] = @ - x][y] = f[y]
  OBVIOUS

\* The recorded state is what the account holds.
LEMMA SnapshotFields ==
    /\ Snapshot.nonce = nonce /\ Snapshot.wallet = wallet /\ Snapshot.position = position
    /\ Snapshot.allowance = allowance /\ Snapshot.receiptAllowance = receiptAllowance
    /\ Snapshot.paid = paid /\ Snapshot.gifted = gifted /\ Snapshot.by = by
    /\ Snapshot'.nonce = nonce' /\ Snapshot'.wallet = wallet' /\ Snapshot'.position = position'
    /\ Snapshot'.allowance = allowance' /\ Snapshot'.receiptAllowance = receiptAllowance'
    /\ Snapshot'.paid = paid' /\ Snapshot'.gifted = gifted' /\ Snapshot'.by = by'
  BY DEF Snapshot

\* What a well-formed state says of the amounts in it, and the next one.
LEMMA AmountTypes ==
    ASSUME TypeOK, TypeOK'
    PROVE  /\ nonce \in Nat /\ wallet \in Nat /\ paid \in Int /\ ownerHolds \in Nat
           /\ wallet' \in Nat /\ paid' \in Int /\ ownerHolds' \in Nat
           /\ position \in [Venues -> Nat] /\ gifted \in [Venues -> Nat]
           /\ receiptAllowance \in [Venues -> Nat] /\ allowance \in [Spenders -> Nat]
           /\ \A y \in Venues : position[y] \in Nat /\ position'[y] \in Nat
           /\ Snapshot \in SavedState /\ Snapshot' \in SavedState
  <1>1. Snapshot \in SavedState /\ Snapshot' \in SavedState
    BY SnapshotType DEF TypeOK, Snapshot, SavedState
  <1>2. QED
    BY <1>1 DEF TypeOK, Nonces

-----------------------------------------------------------------------------
(* The parts of a transaction. *)

\* What the outermost call would go back to is a state of the account.
LEMMA FirstType ==
    ASSUME TypeOK, ~Idle
    PROVE  /\ Len(frames) \in Nat /\ Len(frames) >= 1
           /\ \A k \in 1..Len(frames) : frames[k] \in Frame /\ frames[k].saved \in SavedState
           /\ Committed = frames[1].saved
  <1>1. frames \in Seq(Frame) /\ frames # <<>>
    BY DEF TypeOK, Idle
  <1>2. \A k \in 1..Len(frames) : frames[k] \in Frame
    BY <1>1
  <1>3. QED
    BY <1>1, <1>2 DEF Frame, Committed

\* A state recorded before a step is as far within reach after it, if the calls below it stay.
LEMMA ReachedStays ==
    ASSUME NEW s, NEW i \in Nat, Reached(s, i),
           UNCHANGED <<settings, by>>, frames'[1].saved = frames[1].saved,
           \A k \in 1..i : frames'[k].kind = frames[k].kind /\ frames'[k].venue = frames[k].venue
    PROVE  Within(by', permittedVenue', venueEverPermitted', Supplied(i)', frames'[1].saved, s)
  <1>1. Supplied(i)' = Supplied(i)
    BY DEF Supplied, SuppliedBelow
  <1>2. QED
    BY <1>1 DEF Reached, settings

\* A step of a transaction that opens and closes no call.
LEMMA InsideKept ==
    ASSUME TypeOK, CustodyInv, ~Idle, Len(frames') = Len(frames), ~Idle',
           \A k \in 1..Len(frames) : /\ frames'[k].saved = frames[k].saved
                                     /\ frames'[k].kind = frames[k].kind
                                     /\ frames'[k].venue = frames[k].venue,
           UNCHANGED <<settings, by, nonce, ownerHolds>>,
           Reached(Snapshot', Len(frames))
    PROVE  CustodyInv' /\ UNCHANGED Custody!custody
  <1>1. /\ Len(frames) \in Nat /\ 1 \in 1..Len(frames)
        /\ permittedVenue' = permittedVenue /\ venueEverPermitted' = venueEverPermitted
        /\ agent' = agent /\ by' = by /\ nonce' = nonce /\ ownerHolds' = ownerHolds
    BY FirstType DEF settings
  <1>2. frames'[1].saved = frames[1].saved
    BY <1>1
  <1>3. ASSUME NEW k \in 1..Len(frames') PROVE FrameInv(k)'
    <2>1. k \in 1..Len(frames) /\ FrameInv(k) /\ k - 1 \in Nat
      BY <1>1 DEF CustodyInv
    <2>2. \A m \in (k + 1)..Len(frames) : frames'[m].saved = frames[m].saved
      BY <1>1, <2>1
    <2>3. \A m \in 1..(k - 1) : frames'[m].kind = frames[m].kind /\ frames'[m].venue = frames[m].venue
      BY <1>1, <2>1
    <2>4. Reached(frames[k].saved, k - 1)'
      <3>1. Within(by', permittedVenue', venueEverPermitted', Supplied(k - 1)', frames'[1].saved,
                   frames[k].saved)
        BY <1>1, <1>2, <2>1, <2>3, ReachedStays DEF FrameInv
      <3>2. QED
        BY <2>1, <3>1 DEF Reached
    <2>5. QED
      BY <1>1, <1>2, <2>1, <2>2, <2>4 DEF FrameInv
  <1>4. Reached(Snapshot, Len(frames))'
    <2>1. Within(by', permittedVenue', venueEverPermitted', Supplied(Len(frames))', frames'[1].saved, Snapshot')
      <3>1. Supplied(Len(frames))' = Supplied(Len(frames))
        BY <1>1 DEF Supplied, SuppliedBelow
      <3>2. QED
        BY <1>1, <1>2, <3>1 DEF Reached
    <2>2. QED
      BY <2>1 DEF Reached
  <1>5. CustodyInv'
    BY <1>1, <1>3, <1>4 DEF CustodyInv
  <1>6. Committed' = Committed
    BY <1>2 DEF Committed
  <1>7. QED
    BY <1>1, <1>5, <1>6 DEF Custody!custody, Custody!approvals

\* An allowance given to one venue.
LEMMA AllowOne ==
    ASSUME TypeOK, TypeOK', NEW v \in Venues, NEW x \in Nat, NEW who, NEW p, NEW e,
           allowance' = [allowance EXCEPT ![v] = x],
           UNCHANGED <<position, paid, gifted, receiptAllowance>>
    PROVE  Means(who, p, e, {v}, Snapshot, Snapshot')
  <1>1. /\ allowance'[Aqua] = allowance[Aqua]
        /\ \A a \in Spenders \ {v} : allowance'[a] = allowance[a]
    BY VenuesAssumption, AmountTypes DEF Spenders
  <1>2. /\ paid \in Int /\ allowance[Aqua] \in Nat
        /\ \A a \in Spenders : allowance[a] \in Nat
        /\ \A y \in Venues : position[y] \in Nat /\ gifted[y] \in Nat /\ receiptAllowance[y] \in Nat
    BY AmountTypes DEF Spenders
  <1>3. /\ paid' = paid /\ position' = position /\ gifted' = gifted
        /\ receiptAllowance' = receiptAllowance
    OBVIOUS
  <1>4. QED
    BY ONLY <1>1, <1>2, <1>3, SnapshotFields DEF Means

\* What the calls open now supply, when one more opens.
LEMMA SuppliedMore ==
    ASSUME TypeOK, NEW e \in Frame, frames' = Append(frames, e)
    PROVE  /\ \A i \in 0..Len(frames) : Supplied(i)' = Supplied(i)
           /\ e.kind = "supply" /\ e.venue \in Venues
                  => Supplied(Len(frames))' = Supplied(Len(frames)) \cup {e.venue}
  <1>1. /\ Len(frames) \in Nat /\ Len(frames') = Len(frames) + 1
        /\ \A k \in 1..Len(frames) : frames'[k] = frames[k]
        /\ frames'[Len(frames) + 1] = e
    BY PushFrame DEF TypeOK
  <1>2. ASSUME NEW i \in 0..Len(frames) PROVE Supplied(i)' = Supplied(i)
    <2>1. \A k \in 1..i : frames'[k] = frames[k]
      BY <1>1
    <2>2. QED
      BY <2>1 DEF Supplied, SuppliedBelow
  <1>3. ASSUME e.kind = "supply", e.venue \in Venues
        PROVE  Supplied(Len(frames))' = Supplied(Len(frames)) \cup {e.venue}
    <2>1. 1..Len(frames') = 1..Len(frames) \cup {Len(frames) + 1}
      BY <1>1
    <2>2. QED
      BY <1>1, <1>3, <2>1 DEF Supplied, SuppliedBelow
  <1>4. QED
    BY <1>2, <1>3

\* A call opens: what it would go back to is the state now.
LEMMA OpenKept ==
    ASSUME TypeOK, TypeOK', CustodyInv, NEW e \in Frame, frames' = Append(frames, e), e.saved = Snapshot,
           UNCHANGED <<settings, wallet, position, paid, gifted, receiptAllowance, ownerHolds>>,
           ~Idle => by' = by,
           \/ /\ e.kind = "batch" /\ allowance' = allowance
              /\ nonce' \in {nonce, nonce + 1} /\ Licensed(by', Committed, nonce')
           \/ /\ e.kind = "supply" /\ e.venue \in permittedVenue /\ nonce' = nonce
              /\ \E x \in Nat : allowance' = [allowance EXCEPT ![e.venue] = x]
    PROVE  CustodyInv' /\ UNCHANGED Custody!custody
  <1>1. /\ Len(frames) \in Nat /\ nonce \in Nat /\ permittedVenue \subseteq Venues
        /\ permittedVenue' = permittedVenue /\ venueEverPermitted' = venueEverPermitted
        /\ agent' = agent /\ ownerHolds' = ownerHolds
        /\ nonce' \in {nonce, nonce + 1}
    BY DEF TypeOK, Nonces, settings
  <1>2. /\ Len(frames') = Len(frames) + 1
        /\ \A k \in 1..Len(frames) : frames'[k] = frames[k]
        /\ frames'[Len(frames) + 1] = e
        /\ frames' # <<>>
    BY FramesType, PushFrame
  <1>3. frames'[1].saved = Committed /\ Committed \in SavedState
    <2>1. CASE Idle
      BY <1>2, <2>1, SnapshotType DEF Idle, Committed
    <2>2. CASE ~Idle
      BY <1>2, <2>2, FirstType
    <2>3. QED
      BY <2>1, <2>2
  <1>4. Committed' = Committed
    BY <1>2, <1>3 DEF Committed, Idle
  <1>5. Within(by', permittedVenue, venueEverPermitted, Supplied(Len(frames)), Committed, Snapshot)
    <2>1. CASE Idle
      <3>1. Committed = Snapshot
        BY <2>1 DEF Committed
      <3>2. QED
        BY <3>1, SnapshotType, WithinItself
    <2>2. CASE ~Idle
      BY <2>2, FirstType DEF CustodyInv, Reached
    <2>3. QED
      BY <2>1, <2>2
  <1>6. /\ Snapshot'.nonce = nonce' /\ Snapshot.nonce = nonce
        /\ Money(Snapshot') = Money(Snapshot)
    BY SnapshotFields DEF Money
  <1>7. /\ \A i \in 0..Len(frames) : Supplied(i)' = Supplied(i)
        /\ e.kind = "supply" => Supplied(Len(frames))' = Supplied(Len(frames)) \cup {e.venue}
    BY <1>1, SuppliedMore
  <1>8. Snapshot.nonce >= Committed.nonce /\ Money(Snapshot) = Money(Committed) /\ Committed.nonce \in Nat
    BY <1>3, <1>5, MoneyType DEF Within
  <1>9. Within(by', permittedVenue, venueEverPermitted, Supplied(Len(frames))', Committed, Snapshot')
    <2>1. CASE e.kind = "batch"
      <3>1. Licensed(by', Committed, Snapshot'.nonce)
        BY <1>6, <2>1
      <3>2. QED
        BY <1>1, <1>6, <1>8, <3>1 DEF Within
    <2>2. CASE e.kind = "supply"
      <3>1. PICK x \in Nat : allowance' = [allowance EXCEPT ![e.venue] = x]
        BY <2>2
      <3>2. Means(by', permittedVenue, venueEverPermitted, {e.venue}, Snapshot, Snapshot')
        BY <1>1, <2>2, <3>1, AllowOne
      <3>3. Snapshot \in SavedState /\ Snapshot' \in SavedState
        BY AmountTypes
      <3>4. Within(by', permittedVenue, venueEverPermitted, Supplied(Len(frames)) \cup {e.venue},
                   Committed, Snapshot')
        BY <1>3, <1>5, <1>6, <2>2, <3>2, <3>3, GoesOn
      <3>5. QED
        BY <1>7, <2>2, <3>4
    <2>3. QED
      BY <2>1, <2>2
  <1>10. ASSUME NEW k \in 1..Len(frames') PROVE FrameInv(k)'
    <2>1. CASE k = Len(frames) + 1
      <3>1. /\ frames'[k] = e /\ Supplied(k - 1)' = Supplied(Len(frames))
            /\ \A m \in (k + 1)..Len(frames') : FALSE
        BY <1>1, <1>2, <1>7, <2>1
      <3>2. Reached(frames[k].saved, k - 1)'
        BY <1>1, <1>3, <1>5, <3>1 DEF Reached
      <3>3. QED
        BY <1>1, <1>3, <3>1, <3>2 DEF FrameInv
    <2>2. CASE k # Len(frames) + 1
      <3>1. k \in 1..Len(frames) /\ ~Idle /\ k - 1 \in 0..Len(frames)
        BY <1>1, <1>2, <2>2 DEF Idle
      <3>2. by' = by /\ Committed = frames[1].saved /\ FrameInv(k) /\ frames'[k] = frames[k]
        BY <1>2, <3>1, FirstType DEF CustodyInv
      <3>3. Licensed(by, Committed, nonce) => Licensed(by, Committed, nonce')
        BY <1>1, <1>8 DEF Licensed
      <3>4. ASSUME NEW m \in (k + 1)..Len(frames'), frames[k].kind = "batch"
            PROVE  Licensed(by, Committed, frames'[m].saved.nonce)
        <4>1. CASE m = Len(frames) + 1
          BY <1>2, <1>6, <3>2, <3>4, <4>1 DEF FrameInv
        <4>2. CASE m # Len(frames) + 1
          <5>1. m \in 1..Len(frames) /\ m \in (k + 1)..Len(frames)
            BY <1>1, <1>2, <3>1, <4>2
          <5>2. QED
            BY <1>2, <3>2, <3>4, <5>1 DEF FrameInv
        <4>3. QED
          BY <4>1, <4>2
      <3>5. Reached(frames[k].saved, k - 1)'
        BY <1>1, <1>3, <1>7, <3>1, <3>2 DEF FrameInv, Reached
      <3>6. QED
        BY <1>1, <1>3, <3>2, <3>3, <3>4, <3>5 DEF FrameInv
    <2>3. QED
      BY <2>1, <2>2
  <1>11. Reached(Snapshot, Len(frames))'
    BY <1>1, <1>3, <1>9 DEF Reached
  <1>12. CustodyInv'
    BY <1>1, <1>10, <1>11 DEF CustodyInv
  <1>13. QED
    BY <1>1, <1>4, <1>12 DEF Custody!custody, Custody!approvals

\* A call is over, kept or undone: with the outermost one the whole transaction is committed.
LEMMA CloseKept ==
    ASSUME TypeOK, CustodyInv, ~Idle, frames' = Pop,
           UNCHANGED <<settings, by, ownerHolds>>,
           nonce' \in {nonce, Top.saved.nonce},
           Reached(Snapshot', Len(frames) - 1)
    PROVE  CustodyInv' /\ (Custody!Transact \/ UNCHANGED Custody!custody)
  <1>1. /\ Len(frames) \in Nat /\ 1 \in 1..Len(frames) /\ Len(frames) \in 1..Len(frames)
        /\ Committed = frames[1].saved
        /\ permittedVenue' = permittedVenue /\ venueEverPermitted' = venueEverPermitted
        /\ agent' = agent /\ by' = by /\ ownerHolds' = ownerHolds
    BY FirstType DEF settings
  <1>2. /\ Len(frames') = Len(frames) - 1
        /\ \A k \in 1..Len(frames') : k \in 1..Len(frames) /\ frames'[k] = frames[k]
    BY StackAfterPop
  <1>3. ASSUME NEW i \in 0..(Len(frames) - 1) PROVE Supplied(i)' = Supplied(i)
    <2>1. \A k \in 1..i : frames'[k] = frames[k]
      BY <1>1, <1>2
    <2>2. QED
      BY <2>1 DEF Supplied, SuppliedBelow
  <1>4. ASSUME NEW k \in 1..Len(frames') PROVE FrameInv(k)'
    <2>1. /\ k \in 1..Len(frames) /\ frames'[k] = frames[k] /\ FrameInv(k) /\ frames'[1] = frames[1]
          /\ k - 1 \in 0..(Len(frames) - 1)
      BY <1>1, <1>2 DEF CustodyInv
    <2>2. frames[k].kind = "batch" => Licensed(by, frames[1].saved, nonce')
      <3>1. Len(frames) \in (k + 1)..Len(frames)
        BY <1>1, <1>2
      <3>2. QED
        BY <2>1, <3>1 DEF FrameInv, Top
    <2>3. \A m \in (k + 1)..Len(frames') : m \in (k + 1)..Len(frames) /\ frames'[m] = frames[m]
      BY <1>1, <1>2
    <2>4. Reached(frames[k].saved, k - 1)'
      BY <1>1, <1>3, <2>1 DEF FrameInv, Reached
    <2>5. QED
      BY <1>1, <2>1, <2>2, <2>3, <2>4 DEF FrameInv
  <1>5. CASE Len(frames) = 1
    <2>1. Idle' /\ Len(frames') = 0
      BY <1>2, <1>5, TopType DEF Idle
    <2>2. CustodyInv'
      BY <1>1, <2>1 DEF CustodyInv
    <2>3. Committed' = Snapshot' /\ Committed'.by = by'
      BY <2>1 DEF Committed, Snapshot
    <2>4. Supplied(Len(frames) - 1) = {}
      BY <1>5 DEF Supplied, SuppliedBelow
    <2>5. Within(by, permittedVenue, venueEverPermitted, {}, Committed, Committed')
      BY <1>1, <2>3, <2>4 DEF Reached
    <2>6. Custody!Worth' = Custody!Worth
      BY <1>1, <2>5, WorthNow, WorthNext DEF Within
    <2>7. Means(by, permittedVenue, venueEverPermitted, {}, Committed, Committed') => Custody!WithinMeans
      BY <1>1, <2>3 DEF Means, Custody!WithinMeans, Spenders
    <2>8. Licensed(by, Committed, Committed'.nonce) => Custody!Decided
      BY <1>1, <2>3 DEF Licensed, Custody!Decided
    <2>9. Custody!Transact
      BY <1>1, <2>5, <2>6, <2>7, <2>8 DEF Custody!Transact, Within
    <2>10. QED
      BY <2>2, <2>9
  <1>6. CASE Len(frames) # 1
    <2>1. 1 \in 1..Len(frames') /\ frames'[1] = frames[1] /\ Len(frames') \in 0..(Len(frames) - 1)
      BY <1>1, <1>2, <1>6
    <2>2. ~Idle'
      BY <1>1, <1>2, <1>6 DEF Idle
    <2>3. Reached(Snapshot, Len(frames))'
      BY <1>1, <1>2, <1>3, <2>1 DEF Reached
    <2>4. CustodyInv'
      BY <1>1, <1>4, <2>3 DEF CustodyInv
    <2>5. Committed' = Committed
      BY <2>1, <2>2 DEF Committed
    <2>6. QED
      BY <1>1, <2>4, <2>5 DEF Custody!custody, Custody!approvals
  <1>7. QED
    BY <1>5, <1>6

\* A call that is undone goes back to a state within reach.
LEMMA UndoKept ==
    ASSUME TypeOK, CustodyInv, ~Idle, Revert
    PROVE  CustodyInv' /\ (Custody!Transact \/ UNCHANGED Custody!custody)
  <1>1. /\ frames' = Pop /\ UNCHANGED <<settings, by, ownerHolds>> /\ nonce' = Top.saved.nonce
        /\ wallet' = Top.saved.wallet /\ position' = Top.saved.position /\ paid' = Top.saved.paid
        /\ allowance' = Top.saved.allowance /\ receiptAllowance' = Top.saved.receiptAllowance
        /\ gifted' = Top.saved.gifted
    BY DEF Revert
  <1>2. Reached(Top.saved, Len(frames) - 1)
    BY StackAfterPop, <1>1 DEF CustodyInv, FrameInv, Top
  <1>3. Reached(Snapshot', Len(frames) - 1)
    BY <1>1, <1>2, SnapshotFields, WithinAlike DEF Reached
  <1>4. QED
    BY <1>1, <1>3, CloseKept

-----------------------------------------------------------------------------
(* Steps of the account and steps of custody. *)

\* A step keeps the invariant and is one of custody, or none.
CustodyStep == CustodyInv' /\ (\/ Custody!Configure \/ Custody!OwnerTransfers \/ Custody!Transact
                               \/ UNCHANGED Custody!custody)

\* Between transactions, the committed state is the state.
LEMMA BetweenCalls ==
    ASSUME TypeOK, Idle, frames' = frames
    PROVE  /\ Committed = Snapshot /\ Committed' = Snapshot'
           /\ (permittedVenue' \subseteq venueEverPermitted') => CustodyInv'
  <1>1. Idle' /\ Len(frames') = 0
    BY DEF Idle
  <1>2. QED
    BY <1>1 DEF Committed, CustodyInv

\* What the owner decides between transactions.
LEMMA SettingsKept ==
    ASSUME TypeOK, CustodyInv, Idle, frames' = frames, UNCHANGED <<nonce, money>>,
           by' = Owner, venueEverPermitted' = venueEverPermitted \cup permittedVenue'
    PROVE  CustodyStep
  <1>1. Committed = Snapshot /\ Committed' = Snapshot' /\ CustodyInv'
    BY BetweenCalls
  <1>2. Custody!Configure
    BY <1>1, SnapshotFields DEF Custody!Configure, money, approvals, Custody!approvals
  <1>3. QED
    BY <1>1, <1>2 DEF CustodyStep

\* Money the owner moves between the account and their own.
LEMMA TransferKept ==
    ASSUME TypeOK, CustodyInv, Idle, frames' = frames,
           UNCHANGED <<settings, nonce, paid, gifted, approvals>>,
           by' = Owner,
           Money(Snapshot') + ownerHolds' = Money(Snapshot) + ownerHolds,
           \A v \in Venues : position'[v] >= position[v]
    PROVE  CustodyStep
  <1>1. Committed = Snapshot /\ Committed' = Snapshot' /\ CustodyInv'
    BY BetweenCalls DEF settings, CustodyInv
  <1>2. Custody!Worth' = Custody!Worth
    BY <1>1, WorthNow, WorthNext
  <1>3. Custody!OwnerTransfers
    BY <1>1, <1>2, SnapshotFields DEF Custody!OwnerTransfers, Custody!approvals, approvals, settings
  <1>4. QED
    BY <1>1, <1>3 DEF CustodyStep

\* A step that needs nobody, in a transaction of its own or inside another.
LEMMA StepKept ==
    ASSUME TypeOK, TypeOK', CustodyInv, frames' = frames, UNCHANGED <<settings, ownerHolds>>,
           nonce' >= nonce, ~Idle => nonce' = nonce /\ by' = by,
           Money(Snapshot') = Money(Snapshot),
           Means(by', permittedVenue, venueEverPermitted, {}, Snapshot, Snapshot')
    PROVE  CustodyStep
  <1>1. CASE Idle
    <2>1. Committed = Snapshot /\ Committed' = Snapshot' /\ CustodyInv'
      BY <1>1, BetweenCalls DEF settings, CustodyInv
    <2>2. Custody!Worth' = Custody!Worth
      BY <2>1, WorthNow, WorthNext
    <2>3. Custody!WithinMeans
      BY <2>1, SnapshotFields DEF Means, Custody!WithinMeans, Spenders
    <2>4. Custody!Transact
      BY <2>1, <2>2, <2>3, SnapshotFields DEF Custody!Transact, settings
    <2>5. QED
      BY <2>1, <2>4 DEF CustodyStep
  <1>2. CASE ~Idle
    <2>1. Reached(Snapshot, Len(frames)) /\ frames[1].saved \in SavedState /\ by' = by /\ nonce' = nonce
      BY <1>2, FirstType DEF CustodyInv
    <2>2. Snapshot \in SavedState /\ Snapshot' \in SavedState /\ Snapshot'.nonce = Snapshot.nonce
      BY <2>1, AmountTypes, SnapshotFields
    <2>3. Reached(Snapshot', Len(frames))
      BY <2>1, <2>2, GoesOn DEF Reached
    <2>4. CustodyInv' /\ UNCHANGED Custody!custody
      BY <1>2, <2>1, <2>3, InsideKept DEF Idle
    <2>5. QED
      BY <2>4 DEF CustodyStep
  <1>3. QED
    BY <1>1, <1>2

\* A transaction that moves no money.
LEMMA NoMoneyKept ==
    ASSUME TypeOK, TypeOK', CustodyInv, Idle, frames' = frames, UNCHANGED <<settings, money>>,
           nonce' >= nonce
    PROVE  CustodyStep
  <1>1. /\ wallet' = wallet /\ position' = position /\ paid' = paid /\ gifted' = gifted
        /\ allowance' = allowance /\ receiptAllowance' = receiptAllowance /\ ownerHolds' = ownerHolds
    BY DEF money, approvals
  <1>2. Money(Snapshot') = Money(Snapshot)
    BY <1>1, SnapshotFields DEF Money
  <1>3. Means(by', permittedVenue, venueEverPermitted, {}, Snapshot, Snapshot')
    BY <1>1, SnapshotFields, AmountTypes, StateTypes DEF Means
  <1>4. QED
    BY <1>1, <1>2, <1>3, StepKept

\* A step that moves money at one venue and creates none.
LEMMA MoneyStays ==
    ASSUME TypeOK, TypeOK', NEW v \in Venues, \A y \in Venues \ {v} : position'[y] = position[y],
           (wallet' - wallet) + (paid' - paid) + (position'[v] - position[v]) = 0
    PROVE  Money(Snapshot') = Money(Snapshot)
  <1>1. Snapshot \in SavedState /\ Snapshot' \in SavedState
    BY AmountTypes
  <1>2. Money(Snapshot') = Money(Snapshot) + (wallet' - wallet) + (paid' - paid)
                               + (position'[v] - position[v])
    BY <1>1, MoneyMoves, SnapshotFields
  <1>3. /\ Money(Snapshot) \in Int /\ position[v] \in Nat /\ position'[v] \in Nat
        /\ wallet \in Nat /\ wallet' \in Nat /\ paid \in Int /\ paid' \in Int
    BY <1>1, MoneyType, AmountTypes
  <1>4. QED
    BY ONLY <1>2, <1>3, (wallet' - wallet) + (paid' - paid) + (position'[v] - position[v]) = 0

\* A step that touches one venue, within the means.
LEMMA MeansAt ==
    ASSUME TypeOK, TypeOK', NEW v \in Venues, NEW who, NEW p, NEW e,
           paid' - paid <= allowance[Aqua] - allowance'[Aqua],
           \A a \in Spenders : allowance'[a] <= allowance[a],
           \A y \in Venues \ {v} : /\ position'[y] = position[y] /\ gifted'[y] = gifted[y]
                                  /\ receiptAllowance'[y] = receiptAllowance[y],
           receiptAllowance'[v] <= receiptAllowance[v],
           v \in p \/ position'[v] - position[v] <= gifted'[v] - gifted[v],
           who # Owner /\ v \notin e =>
               position[v] - position'[v] <= receiptAllowance[v] - receiptAllowance'[v]
    PROVE  Means(who, p, e, {}, Snapshot, Snapshot')
  <1>1. \A y \in Venues : position[y] \in Nat /\ gifted[y] \in Nat /\ receiptAllowance[y] \in Nat
    BY AmountTypes
  <1>2. ASSUME NEW y \in Venues
        PROVE  /\ receiptAllowance'[y] <= receiptAllowance[y]
               /\ y \notin p => position'[y] - position[y] <= gifted'[y] - gifted[y]
               /\ who # Owner /\ y \notin e =>
                      position[y] - position'[y] <= receiptAllowance[y] - receiptAllowance'[y]
    <2>1. CASE y = v
      BY <2>1
    <2>2. CASE y # v
      <3>1. /\ position'[y] = position[y] /\ gifted'[y] = gifted[y]
            /\ receiptAllowance'[y] = receiptAllowance[y]
            /\ position[y] \in Nat /\ gifted[y] \in Nat /\ receiptAllowance[y] \in Nat
        BY <1>1, <2>2
      <3>2. QED
        BY ONLY <3>1
    <2>3. QED
      BY <2>1, <2>2
  <1>3. QED
    BY <1>2, SnapshotFields DEF Means

\* Money a venue gives back, in the caller's own transaction or inside another.
LEMMA WithdrawKept ==
    ASSUME TypeOK, CustodyInv, TypeOK', NEW sender, NEW v \in Venues, NEW x \in Amounts,
           WithdrawIdle(sender, v, x)
    PROVE  CustodyStep
  <1>1. /\ x \in Nat /\ position \in [Venues -> Nat] /\ wallet \in Nat /\ paid \in Int /\ nonce \in Nat
        /\ \A y \in Venues : position[y] \in Nat
        /\ \A a \in Spenders : allowance[a] \in Nat
    BY AmountTypes
  <1>2. /\ position' = [position EXCEPT ![v] = @ - x] /\ wallet' = wallet + x /\ paid' = paid
        /\ allowance' = allowance /\ receiptAllowance' = receiptAllowance /\ gifted' = gifted
        /\ frames' = frames /\ nonce' = nonce /\ UNCHANGED <<settings, ownerHolds>>
        /\ (sender = Owner \/ v \in venueEverPermitted)
        /\ (sender = Owner => Idle) /\ by' = IF Idle THEN sender ELSE by
    BY DEF WithdrawIdle, SentBy, MayStart, IsOwner, approvals
  <1>3. position'[v] = position[v] - x /\ \A y \in Venues \ {v} : position'[y] = position[y]
    BY <1>1, <1>2, CreditOne
  <1>4. Money(Snapshot') = Money(Snapshot)
    BY <1>1, <1>2, <1>3, MoneyStays
  <1>5. by' # Owner => v \in venueEverPermitted
    BY <1>2
  <1>6. /\ receiptAllowance'[v] <= receiptAllowance[v]
        /\ position'[v] - position[v] <= gifted'[v] - gifted[v]
        /\ paid' - paid <= allowance[Aqua] - allowance'[Aqua]
        /\ \A a \in Spenders : allowance'[a] <= allowance[a]
    <2>1. gifted[v] \in Nat /\ receiptAllowance[v] \in Nat /\ allowance[Aqua] \in Nat
      BY AmountTypes DEF Spenders
    <2>2. QED
      BY <1>1, <1>2, <1>3, <2>1
  <1>7. Means(by', permittedVenue, venueEverPermitted, {}, Snapshot, Snapshot')
    BY <1>2, <1>3, <1>5, <1>6, MeansAt
  <1>8. QED
    BY <1>1, <1>2, <1>4, <1>7, StepKept

\* A taker's draw on what Aqua was approved for.
LEMMA DrawKept ==
    ASSUME TypeOK, CustodyInv, TypeOK', NEW x \in Amounts, Draw(x)
    PROVE  CustodyStep
  <1>1. /\ x \in Nat /\ wallet \in Nat /\ paid \in Int /\ nonce \in Nat
        /\ SumOf(position, Venues) \in Int
        /\ allowance \in [Spenders -> Nat] /\ Aqua \in Spenders
        /\ \A y \in Venues : position[y] \in Nat /\ gifted[y] \in Nat /\ receiptAllowance[y] \in Nat
    <2>1. SumOf(position, Venues) \in Int
      BY AmountTypes, MoneyType, SnapshotFields
    <2>2. QED
      BY <2>1, AmountTypes DEF Spenders
  <1>2. /\ position' = position /\ wallet' = wallet - x /\ paid' = paid + x
        /\ allowance' = [allowance EXCEPT ![Aqua] = @ - x]
        /\ receiptAllowance' = receiptAllowance /\ gifted' = gifted
        /\ frames' = frames /\ nonce' = nonce /\ UNCHANGED <<settings, ownerHolds>>
        /\ (~Idle => by' = by)
    BY DEF Draw, SentBy
  <1>3. /\ allowance'[Aqua] = allowance[Aqua] - x
        /\ \A a \in Spenders \ {Aqua} : allowance'[a] = allowance[a]
        /\ \A a \in Spenders : allowance[a] \in Nat
    BY <1>1, <1>2
  <1>4. Money(Snapshot') = Money(Snapshot)
    BY <1>1, <1>2, SnapshotFields DEF Money
  <1>5. \A a \in Spenders : allowance'[a] <= allowance[a]
    <2>1. ASSUME NEW a \in Spenders PROVE allowance'[a] <= allowance[a]
      BY <1>1, <1>3, a = Aqua \/ a \in Spenders \ {Aqua}
    <2>2. QED
      BY <2>1
  <1>6. paid' - paid <= allowance[Aqua] - allowance'[Aqua]
    BY <1>1, <1>2, <1>3
  <1>7. Means(by', permittedVenue, venueEverPermitted, {}, Snapshot, Snapshot')
    <2>1. \A y \in Venues : /\ position'[y] = position[y] /\ gifted'[y] = gifted[y]
                            /\ receiptAllowance'[y] = receiptAllowance[y]
      BY <1>2
    <2>2. QED
      BY ONLY <1>1, <1>5, <1>6, <2>1, SnapshotFields DEF Means
  <1>8. QED
    BY <1>1, <1>2, <1>4, <1>7, StepKept

\* Receipts drawn, and redeemed to the account.
LEMMA DrawReceiptsKept ==
    ASSUME TypeOK, CustodyInv, TypeOK', NEW v \in Venues, NEW x \in Amounts, DrawReceipts(v, x)
    PROVE  CustodyStep
  <1>1. /\ x \in Nat /\ position \in [Venues -> Nat] /\ receiptAllowance \in [Venues -> Nat]
        /\ wallet \in Nat /\ paid \in Int /\ nonce \in Nat /\ gifted[v] \in Nat
        /\ \A y \in Venues : position[y] \in Nat
        /\ \A a \in Spenders : allowance[a] \in Nat
    BY AmountTypes
  <1>2. /\ position' = [position EXCEPT ![v] = @ - x] /\ wallet' = wallet + x /\ paid' = paid
        /\ receiptAllowance' = [receiptAllowance EXCEPT ![v] = @ - x]
        /\ allowance' = allowance /\ gifted' = gifted
        /\ frames' = frames /\ nonce' = nonce /\ UNCHANGED <<settings, ownerHolds>>
        /\ (~Idle => by' = by)
    BY DEF DrawReceipts, SentBy
  <1>3. /\ position'[v] = position[v] - x /\ receiptAllowance'[v] = receiptAllowance[v] - x
        /\ \A y \in Venues \ {v} : /\ position'[y] = position[y]
                                  /\ receiptAllowance'[y] = receiptAllowance[y]
    BY <1>1, <1>2, CreditOne
  <1>4. Money(Snapshot') = Money(Snapshot)
    BY <1>1, <1>2, <1>3, MoneyStays
  <1>5. /\ receiptAllowance'[v] <= receiptAllowance[v]
        /\ position'[v] - position[v] <= gifted'[v] - gifted[v]
        /\ position[v] - position'[v] <= receiptAllowance[v] - receiptAllowance'[v]
        /\ paid' - paid <= allowance[Aqua] - allowance'[Aqua]
        /\ \A a \in Spenders : allowance'[a] <= allowance[a]
    <2>1. receiptAllowance[v] \in Nat /\ allowance[Aqua] \in Nat /\ position[v] \in Nat
      BY <1>1 DEF Spenders
    <2>2. QED
      BY <1>1, <1>2, <1>3, <2>1
  <1>6. Means(by', permittedVenue, venueEverPermitted, {}, Snapshot, Snapshot')
    BY <1>2, <1>3, <1>5, MeansAt
  <1>7. QED
    BY <1>1, <1>2, <1>4, <1>6, StepKept

\* What a stranger puts in, at any venue.
LEMMA GiftKept ==
    ASSUME TypeOK, CustodyInv, TypeOK', NEW v \in Venues, NEW x \in Amounts, DepositFor(v, x)
    PROVE  CustodyStep
  <1>1. /\ x \in Nat /\ position \in [Venues -> Nat] /\ gifted \in [Venues -> Nat]
        /\ wallet \in Nat /\ paid \in Int /\ nonce \in Nat
        /\ \A y \in Venues : position[y] \in Nat /\ receiptAllowance[y] \in Nat
        /\ \A a \in Spenders : allowance[a] \in Nat
    BY AmountTypes
  <1>2. /\ position' = [position EXCEPT ![v] = @ + x] /\ wallet' = wallet /\ paid' = paid - x
        /\ gifted' = [gifted EXCEPT ![v] = @ + x]
        /\ allowance' = allowance /\ receiptAllowance' = receiptAllowance
        /\ frames' = frames /\ nonce' = nonce /\ UNCHANGED <<settings, ownerHolds>>
        /\ (~Idle => by' = by)
    BY DEF DepositFor, SentBy, approvals
  <1>3. /\ position'[v] = position[v] + x /\ gifted'[v] = gifted[v] + x
        /\ \A y \in Venues \ {v} : position'[y] = position[y] /\ gifted'[y] = gifted[y]
    BY <1>1, <1>2, CreditOne
  <1>4. Money(Snapshot') = Money(Snapshot)
    BY <1>1, <1>2, <1>3, MoneyStays
  <1>5. /\ receiptAllowance'[v] <= receiptAllowance[v]
        /\ position'[v] - position[v] <= gifted'[v] - gifted[v]
        /\ position[v] - position'[v] <= receiptAllowance[v] - receiptAllowance'[v]
        /\ paid' - paid <= allowance[Aqua] - allowance'[Aqua]
        /\ \A a \in Spenders : allowance'[a] <= allowance[a]
    <2>1. receiptAllowance[v] \in Nat /\ allowance[Aqua] \in Nat /\ position[v] \in Nat /\ gifted[v] \in Nat
      BY <1>1 DEF Spenders
    <2>2. QED
      BY <1>1, <1>2, <1>3, <2>1
  <1>6. Means(by', permittedVenue, venueEverPermitted, {}, Snapshot, Snapshot')
    BY <1>2, <1>3, <1>5, MeansAt
  <1>7. QED
    BY <1>1, <1>2, <1>4, <1>6, StepKept

\* A batch going on moves money and creates none.
LEMMA ProgressMoney ==
    ASSUME TypeOK, TypeOK', Progress
    PROVE  Money(Snapshot') = Money(Snapshot)
  <1>1. /\ wallet \in Nat /\ paid \in Int /\ SumOf(position, Venues) \in Int
        /\ position \in [Venues -> Nat] /\ \A y \in Venues : position[y] \in Nat
    <2>1. SumOf(position, Venues) \in Int
      BY AmountTypes, MoneyType, SnapshotFields
    <2>2. QED
      BY <2>1, AmountTypes
  <1> DEFINE c == Head(Top.calls)
  <1>2. c.amount \in Nat /\ (c.kind \in {"supply", "withdraw"} => c.to \in Venues)
    BY ProgressIs, NextCall
  <1>3. CASE MakeCall
    <2>1. /\ position' = position
          /\ \/ wallet' = wallet - c.amount /\ paid' = paid + c.amount
             \/ wallet' = wallet /\ paid' = paid
      BY <1>3 DEF MakeCall
    <2> HIDE DEF c
    <2>2. QED
      BY <1>1, <1>2, <2>1, SnapshotFields DEF Money
  <1>4. CASE Approve \/ CallReturns
    <2>1. position' = position /\ wallet' = wallet /\ paid' = paid
      BY <1>4 DEF Approve, CallReturns, money
    <2>2. QED
      BY <2>1, SnapshotFields DEF Money
  <1>5. CASE VenueGives
    <2>1. /\ c.to \in Venues /\ position' = [position EXCEPT ![c.to] = @ - c.amount]
          /\ wallet' = wallet + c.amount /\ paid' = paid
      BY <1>2, <1>5 DEF VenueGives, Calling
    <2> HIDE DEF c
    <2>2. /\ position'[c.to] = position[c.to] - c.amount
          /\ \A y \in Venues \ {c.to} : position'[y] = position[y]
      BY <1>1, <2>1, CreditOne
    <2>3. QED
      BY <1>1, <1>2, <2>1, <2>2, MoneyStays
  <1>6. ASSUME NEW x \in Amounts \cup {0}, VenueTakesDirectly(x) PROVE Money(Snapshot') = Money(Snapshot)
    <2>1. /\ c.to \in Venues /\ position' = [position EXCEPT ![c.to] = @ + x]
          /\ wallet' = wallet - x /\ paid' = paid /\ x \in Nat
      BY <1>2, <1>6 DEF VenueTakesDirectly, Calling
    <2> HIDE DEF c
    <2>2. /\ position'[c.to] = position[c.to] + x
          /\ \A y \in Venues \ {c.to} : position'[y] = position[y]
      BY <1>1, <2>1, CreditOne
    <2>3. QED
      BY <1>1, <2>1, <2>2, MoneyStays
  <1>7. QED
    BY <1>3, <1>4, <1>5, <1>6 DEF Progress

\* A batch going on, with what its calls move: the owner has been asked.
LEMMA CallKept ==
    ASSUME TypeOK, TypeOK', CustodyInv, Progress
    PROVE  CustodyStep
  <1>1. ~Idle /\ Top.kind = "batch" /\ UNCHANGED <<settings, by, nonce, ownerHolds>>
    BY ProgressIs
  <1>2. frames # <<>> /\ Len(frames) \in 1..Len(frames) /\ Top = frames[Len(frames)]
    BY <1>1, FramesType, PopFrame DEF Idle, Top
  <1>3. ~Idle'
    <2>1. Len(frames') = Len(frames) /\ Len(frames) >= 1 /\ frames' \in Seq(Frame)
      BY <1>2, WithinTop
    <2>2. QED
      BY <2>1 DEF Idle
  <1>4. Reached(Snapshot, Len(frames)) /\ Licensed(by, frames[1].saved, nonce)
    BY <1>1, <1>2 DEF CustodyInv, FrameInv
  <1>5. Reached(Snapshot', Len(frames))
    <2>1. Money(Snapshot') = Money(Snapshot)
      BY ProgressMoney
    <2>2. QED
      BY <1>1, <1>4, <2>1, SnapshotFields DEF Reached, Within
  <1>6. CustodyInv' /\ UNCHANGED Custody!custody
    BY <1>1, <1>3, <1>5, WithinTop, InsideKept
  <1>7. QED
    BY <1>6 DEF CustodyStep

\* The venue takes what it was allowed: its frame says it is permitted, and it is left with nothing.
LEMMA TakeKept ==
    ASSUME TypeOK, TypeOK', CustodyInv, NEW x \in Amounts \cup {0}, VenueTakes(x)
    PROVE  CustodyStep
  <1> DEFINE v == Top.venue
  <1>1. /\ x \in Nat /\ position \in [Venues -> Nat] /\ wallet \in Nat /\ paid \in Int
        /\ allowance \in [Spenders -> Nat]
        /\ \A y \in Venues : position[y] \in Nat /\ gifted[y] \in Nat /\ receiptAllowance[y] \in Nat
    BY AmountTypes
  <1>2. /\ ~Idle /\ Top.kind = "supply" /\ frames' = Pop /\ nonce' = nonce
        /\ UNCHANGED <<settings, by, ownerHolds>>
        /\ position' = [position EXCEPT ![v] = @ + x] /\ wallet' = wallet - x /\ paid' = paid
        /\ allowance' = [allowance EXCEPT ![v] = 0]
        /\ receiptAllowance' = receiptAllowance /\ gifted' = gifted
    BY DEF VenueTakes, AllowanceAfterSupply
  <1>3. /\ v \in permittedVenue /\ permittedVenue \subseteq venueEverPermitted /\ v \in Venues
        /\ Top = frames[Len(frames)] /\ Len(frames) \in Nat
    <2>1. Len(frames) \in 1..Len(frames) /\ Top = frames[Len(frames)]
      BY <1>2, StackAfterPop DEF Top
    <2>2. v \in permittedVenue /\ permittedVenue \subseteq venueEverPermitted
      BY <1>2, <2>1 DEF CustodyInv, FrameInv
    <2>3. permittedVenue \subseteq Venues /\ Len(frames) \in Nat
      BY <1>2, FirstType DEF TypeOK
    <2>4. QED
      BY <2>1, <2>2, <2>3
  <1>4. Supplied(Len(frames)) \ {v} \subseteq Supplied(Len(frames) - 1)
    <2>1. ASSUME NEW y \in Venues, y # v, NEW j \in 1..Len(frames), frames[j].venue = y
          PROVE  j \in 1..(Len(frames) - 1)
      BY <1>3, <2>1
    <2>2. QED
      BY <2>1 DEF Supplied, SuppliedBelow
  <1> HIDE DEF v
  <1>5. position'[v] = position[v] + x /\ \A y \in Venues \ {v} : position'[y] = position[y]
    BY <1>1, <1>2, <1>3, CreditOne
  <1>6. /\ allowance'[v] = 0 /\ \A a \in Spenders \ {v} : allowance'[a] = allowance[a]
        /\ allowance'[Aqua] = allowance[Aqua] /\ allowance[Aqua] \in Nat
        /\ \A a \in Spenders : allowance[a] \in Nat /\ allowance'[a] <= allowance[a]
    <2>1. v \in Spenders /\ Aqua \in Spenders /\ v # Aqua
      BY <1>3, VenuesAssumption DEF Spenders
    <2>2. QED
      BY <1>1, <1>2, <2>1
  <1>7. Money(Snapshot') = Money(Snapshot)
    BY <1>1, <1>2, <1>3, <1>5, MoneyStays
  <1>8. Means(by, permittedVenue, venueEverPermitted, {}, Snapshot, Snapshot')
    <2>1. /\ paid' - paid <= allowance[Aqua] - allowance'[Aqua]
          /\ receiptAllowance'[v] <= receiptAllowance[v]
      BY <1>1, <1>2, <1>3, <1>6
    <2>2. QED
      BY <1>2, <1>3, <1>5, <1>6, <2>1, MeansAt
  <1>9. /\ Reached(Snapshot, Len(frames)) /\ frames[1].saved \in SavedState
        /\ Snapshot \in SavedState /\ Snapshot' \in SavedState /\ Snapshot'.nonce = Snapshot.nonce
    BY <1>2, FirstType, AmountTypes, SnapshotFields DEF CustodyInv
  <1>10. Within(by, permittedVenue, venueEverPermitted, Supplied(Len(frames)), frames[1].saved, Snapshot')
    BY <1>7, <1>8, <1>9, GoesOn DEF Reached
  <1>11. Reached(Snapshot', Len(frames) - 1)
    <2>1. Snapshot'.allowance[v] = 0
      BY <1>6, SnapshotFields
    <2>2. Means(by, permittedVenue, venueEverPermitted, Supplied(Len(frames)), frames[1].saved, Snapshot')
            => Means(by, permittedVenue, venueEverPermitted, Supplied(Len(frames) - 1), frames[1].saved,
                     Snapshot')
      BY <1>4, <1>9, <2>1, MeansShed
    <2>3. QED
      BY <1>10, <2>2 DEF Reached, Within
  <1>12. QED
    BY <1>2, <1>11, CloseKept DEF CustodyStep

\* Every step of the account keeps the invariant and is a step of custody or none.
LEMMA EveryStepKept ==
    ASSUME TypeOK, TypeOK', CustodyInv, [Next]_vars
    PROVE  CustodyStep
  <1>1. /\ nonce \in Nat /\ wallet \in Nat /\ paid \in Int /\ ownerHolds \in Nat
        /\ position \in [Venues -> Nat] /\ Snapshot \in SavedState /\ Snapshot' \in SavedState
        /\ permittedVenue \subseteq venueEverPermitted
    BY AmountTypes DEF CustodyInv
  <1>2. ASSUME NEW y \in Agents \cup {Nobody}, SetAgent(y) PROVE CustodyStep
    BY <1>1, <1>2, SettingsKept DEF SetAgent, SentBy
  <1>3. ASSUME NEW v \in Venues, NEW allowed \in BOOLEAN, OwnerPermitsVenue(v, allowed) PROVE CustodyStep
    <2>1. venueEverPermitted' = venueEverPermitted \cup permittedVenue'
      BY <1>1, <1>3 DEF OwnerPermitsVenue, PermitVenue
    <2>2. QED
      BY <1>3, <2>1, SettingsKept DEF OwnerPermitsVenue, PermitVenue, SentBy
  <1>4. CASE InvalidateSignatures
    <2>1. nonce' >= nonce
      BY <1>1, <1>4 DEF InvalidateSignatures, InvalidatedNonce
    <2>2. QED
      BY <1>4, <2>1, NoMoneyKept DEF InvalidateSignatures
  <1>5. CASE RefuseAutoUpgrade
    BY <1>1, <1>5, SettingsKept DEF RefuseAutoUpgrade, SentBy, settings
  <1>6. ASSUME NEW sender, NEW i, Upgrade(sender, i) PROVE CustodyStep
    BY <1>1, <1>6, NoMoneyKept DEF Upgrade
  <1>7. ASSUME NEW a \in Authorisations, ExecuteBatchWithSignature(a) PROVE CustodyStep
    <2>1. /\ BatchFrame(a.calls) \in Frame /\ BatchFrame(a.calls).saved = Snapshot
          /\ BatchFrame(a.calls).kind = "batch"
      BY <1>1 DEF BatchFrame, Frame, Authorisations
    <2>2. nonce >= Committed.nonce /\ Committed.nonce \in Nat
      <3>1. CASE Idle
        BY <1>1, <3>1 DEF Committed, Snapshot
      <3>2. CASE ~Idle
        BY <3>2, FirstType, MoneyType DEF CustodyInv, Reached, Within, Snapshot
      <3>3. QED
        BY <3>1, <3>2
    <2>3. nonce' = nonce + 1 /\ frames' = Append(frames, BatchFrame(a.calls))
      BY <1>7 DEF ExecuteBatchWithSignature
    <2>4. Licensed(by', Committed, nonce')
      BY <1>1, <2>2, <2>3 DEF Licensed
    <2>5. /\ UNCHANGED <<settings, wallet, position, paid, gifted, receiptAllowance, ownerHolds>>
          /\ (~Idle => by' = by) /\ allowance' = allowance
      BY <1>7 DEF ExecuteBatchWithSignature, money, approvals, SentBy
    <2>6. CustodyInv' /\ UNCHANGED Custody!custody
      BY <2>1, <2>3, <2>4, <2>5, OpenKept
    <2>7. QED
      BY <2>6 DEF CustodyStep
  <1>8. ASSUME NEW calls \in Batches, ExecuteBatch(calls) PROVE CustodyStep
    <2>1. /\ BatchFrame(calls) \in Frame /\ BatchFrame(calls).saved = Snapshot
          /\ BatchFrame(calls).kind = "batch"
      BY <1>1 DEF BatchFrame, Frame
    <2>2. /\ Idle /\ by' = Account /\ nonce' = nonce /\ frames' = Append(frames, BatchFrame(calls))
          /\ UNCHANGED <<settings, wallet, position, paid, gifted, receiptAllowance, ownerHolds>>
          /\ allowance' = allowance
      BY <1>8 DEF ExecuteBatch, SentBy, money, approvals, Idle
    <2>3. Licensed(by', Committed, nonce')
      BY <2>2 DEF Licensed
    <2>4. CustodyInv' /\ UNCHANGED Custody!custody
      BY <2>1, <2>2, <2>3, OpenKept
    <2>5. QED
      BY <2>4 DEF CustodyStep
  <1>9. ASSUME NEW v \in Venues, CallSelf(v) PROVE CustodyStep
    BY <1>9, UndoKept DEF CallSelf, IsOwner, Running, CustodyStep
  <1>10. CASE BatchReturns
    <2>1. /\ ~Idle /\ Top.kind = "batch" /\ frames' = Pop
          /\ UNCHANGED <<settings, by, ownerHolds>> /\ nonce' = nonce
          /\ wallet' = wallet /\ position' = position /\ paid' = paid
      BY <1>10 DEF BatchReturns, money
    <2>2. /\ Reached(Snapshot, Len(frames)) /\ Licensed(by, frames[1].saved, nonce)
      BY <2>1, StackAfterPop DEF CustodyInv, FrameInv, Top
    <2>3. Money(Snapshot') = Money(Snapshot)
      BY <2>1, SnapshotFields DEF Money
    <2>4. Reached(Snapshot', Len(frames) - 1)
      BY <2>1, <2>2, <2>3, SnapshotFields DEF Reached, Within
    <2>5. QED
      BY <2>1, <2>4, CloseKept DEF CustodyStep
  <1>11. CASE CallFails
    BY <1>11, UndoKept DEF CallFails, CustodyStep
  <1>12. ASSUME NEW sender, NEW v \in Venues, NEW x \in Amounts, SupplyIdle(sender, v, x) PROVE CustodyStep
    <2>1. /\ SupplyFrame(v) \in Frame /\ SupplyFrame(v).saved = Snapshot
          /\ SupplyFrame(v).kind = "supply" /\ SupplyFrame(v).venue = v
      BY <1>1 DEF SupplyFrame, Frame
    <2>2. /\ v \in permittedVenue /\ nonce' = nonce /\ frames' = Append(frames, SupplyFrame(v))
          /\ UNCHANGED <<settings, wallet, position, paid, gifted, receiptAllowance, ownerHolds>>
          /\ (~Idle => by' = by) /\ allowance' = [allowance EXCEPT ![v] = x] /\ x \in Nat
      BY <1>12 DEF SupplyIdle, MayReceive, SentBy
    <2>3. CustodyInv' /\ UNCHANGED Custody!custody
      BY <2>1, <2>2, OpenKept
    <2>4. QED
      BY <2>3 DEF CustodyStep
  <1>13. CASE Escape
    <2>1. /\ Snapshot'.wallet = 0 /\ Snapshot'.position = Snapshot.position /\ Snapshot'.paid = Snapshot.paid
          /\ Snapshot.wallet = wallet /\ ownerHolds' = ownerHolds + wallet
          /\ \A y \in Venues : position'[y] >= position[y]
      BY <1>1, <1>13 DEF Escape, Snapshot
    <2>2. Money(Snapshot') + ownerHolds' = Money(Snapshot) + ownerHolds
      BY <1>1, <2>1, MoneyType DEF Money
    <2>3. QED
      BY <1>1, <1>13, <2>1, <2>2, TransferKept DEF Escape, SentBy
  <1>14. ASSUME NEW x \in Amounts, Fund(x) PROVE CustodyStep
    <2>1. /\ Snapshot'.wallet = wallet + x /\ Snapshot'.position = position /\ Snapshot'.paid = paid
          /\ Snapshot.wallet = wallet /\ Snapshot.position = position /\ Snapshot.paid = paid
          /\ ownerHolds' = ownerHolds - x /\ x \in Nat
      BY <1>14, SnapshotFields DEF Fund
    <2>2. SumOf(position, Venues) \in Int
      BY <1>1, <2>1, MoneyType
    <2>3. Money(Snapshot') + ownerHolds' = Money(Snapshot) + ownerHolds
      BY <1>1, <2>1, <2>2 DEF Money
    <2>4. \A y \in Venues : position'[y] >= position[y]
      BY <1>1, <1>14 DEF Fund
    <2>5. QED
      BY <1>1, <1>14, <2>3, <2>4, TransferKept DEF Fund, SentBy
  <1>15. ASSUME NEW v \in Venues, NEW x \in Amounts, OwnerDepositsFor(v, x) PROVE CustodyStep
    <2>1. /\ wallet' = wallet /\ paid' = paid /\ ownerHolds' = ownerHolds - x /\ x \in Nat
          /\ position' = [position EXCEPT ![v] = @ + x]
      BY <1>15 DEF OwnerDepositsFor
    <2>2. /\ position'[v] = position[v] + x /\ \A y \in Venues \ {v} : position'[y] = position[y]
          /\ \A y \in Venues : position[y] \in Nat /\ position'[y] \in Nat
      BY <1>1, <2>1, CreditOne, AmountTypes
    <2>3. Money(Snapshot') = Money(Snapshot) + (wallet' - wallet) + (paid' - paid)
                               + (position'[v] - position[v])
      BY <1>1, <2>2, MoneyMoves, SnapshotFields
    <2>4. Money(Snapshot) \in Int
      BY <1>1, MoneyType
    <2>5. Money(Snapshot') + ownerHolds' = Money(Snapshot) + ownerHolds
      BY <1>1, <2>1, <2>2, <2>3, <2>4
    <2>6. \A y \in Venues : position'[y] >= position[y]
      BY <2>1, <2>2
    <2>7. QED
      BY <1>15, <2>5, <2>6, TransferKept DEF OwnerDepositsFor, SentBy
  <1>16. ASSUME UNCHANGED <<settings, nonce, money, frames, runs, by>> PROVE CustodyStep
    <2>1. Snapshot' = Snapshot /\ Idle' = Idle
      BY <1>16 DEF Snapshot, money, approvals, Idle
    <2>2. Committed' = Committed
      BY <1>16, <2>1 DEF Committed
    <2>3. CustodyInv'
      BY <1>16, <2>1 DEF CustodyInv, FrameInv, Reached, Supplied, SuppliedBelow, settings
    <2>4. QED
      BY <1>16, <2>2, <2>3 DEF CustodyStep, Custody!custody, Custody!approvals, settings, money
  <1>17. ASSUME NEW a, Sign(a) PROVE CustodyStep
    BY <1>16, <1>17 DEF Sign
  <1>18. CASE Tick
    BY <1>16, <1>18 DEF Tick
  <1>19. CASE UNCHANGED vars
    BY <1>16, <1>19 DEF vars, settings, money, approvals
  <1>20. CASE Progress
    BY <1>20, CallKept
  <1>21. QED
    BY <1>2, <1>3, <1>4, <1>5, <1>6, <1>7, <1>8, <1>9, <1>10, <1>11, <1>12, <1>13, <1>14, <1>15,
       <1>17, <1>18, <1>19, <1>20, TakeKept, WithdrawKept, DrawKept, DrawReceiptsKept, GiftKept
    DEF Next, Progress

\* Seen one committed transaction at a time, the account only does what AccountCustody allows,
\* however its calls nest, re-enter and revert.
THEOREM CustodyIsKept == Spec => KeepsCustody
  <1>1. Init => CustodyInv /\ Custody!CustodyInit
    <2> SUFFICES ASSUME Init PROVE CustodyInv /\ Custody!CustodyInit
      OBVIOUS
    <2>1. Idle /\ Len(frames) = 0
      BY DEF Init, Idle
    <2>2. QED
      BY <2>1 DEF Init, CustodyInv, Custody!CustodyInit, Committed, Snapshot, Spenders
  <1>2. TypeOK /\ TypeOK' /\ CustodyInv /\ [Next]_vars
          => CustodyInv' /\ [Custody!Configure \/ Custody!OwnerTransfers \/ Custody!Transact]_(Custody!custody)
    BY EveryStepKept DEF CustodyStep
  <1>3. QED
    BY <1>1, <1>2, TypeCorrect, PTL DEF Spec, KeepsCustody, Custody!CustodySpec
=============================================================================
