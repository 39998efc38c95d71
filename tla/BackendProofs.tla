--------------------------- MODULE BackendProofs ----------------------------
(***************************************************************************)
(* Proofs about what the services keep, in memory, in their store and in   *)
(* the subgraph's rows, and about what they answer.                        *)
(*                                                                         *)
(* AskIndex, for any number of queries and of turns wasted. Two counts     *)
(* carry it. A query and its call share a number, which the server hands   *)
(* back, so whatever is on the stream names the query it answers. And a    *)
(* turn is spent by a query read, a query never sent or the nudge, by      *)
(* nothing else.                                                           *)
(*                                                                         *)
(* GraphCache, for any number of requests and questions, any lifetime and  *)
(* any timeout. Why overlapping answers do no more harm than they do:      *)
(* whatever arrives was computed after it was asked for, and that is at    *)
(* most a timeout ago; and what is filed for a question was filed after    *)
(* everything its readers were told from elsewhere.                        *)
(*                                                                         *)
(* Chats, for any number of clients. A limit is passed only by writes that *)
(* read their count before the one that reached it, so what is over and    *)
(* what still waits are together fewer than the clients.                   *)
(*                                                                         *)
(* RateLimit, for any rate, day and number of restarts. An address pays    *)
(* for each call out of its bucket, so what it called and what is left in  *)
(* the bucket never outgrow one full bucket for each life of the process   *)
(* and the refill of the time between; a sweep forgets only buckets that   *)
(* have filled up again.                                                   *)
(*                                                                         *)
(* Session, for any number of wallets, challenges, deliveries and changes  *)
(* of wallet. A nonce still filed has bought nothing. As long as no other  *)
(* page moved the cookie and no wallet was changed under a sign-in, every  *)
(* sign-in under way is for the connected wallet, and a question that      *)
(* still counts was asked with the cookie of now or one that a sign-in or  *)
(* a sign-out has replaced.                                                *)
(*                                                                         *)
(* AquaIndex, for any chain of ships, moves and docks, however they fall   *)
(* into blocks. A row and the movements that wait for it add up to the     *)
(* ledger, unless a dock that waits will read it anew.                     *)
(*                                                                         *)
(* PriceSearch, for any number of requests, windows and phases, and any    *)
(* rounds of theirs. What is cached is a round or nothing, so bounds only  *)
(* close in and stay on their sides of the sample; and unless a probe was  *)
(* empty, a level takes off what the levels left allow for.                *)
(*                                                                         *)
(* SwapTurn, for any settings, patience and delays, and whatever a model   *)
(* drafts. The budget is as long as all the models together, so one more   *)
(* fits while one is left; and an intent is made only where no check       *)
(* refused.                                                                *)
(*                                                                         *)
(* ActivityScan, for any number of requests, any chain and any number of   *)
(* failures. A request saves what it found above the cursor it read some   *)
(* time ago, and by then the cursor may be anywhere. What makes that safe  *)
(* is not where the cursor is but that whatever it has ever said was true: *)
(* every request carries a block below which nothing is missing, and       *)
(* together with what it has found since, so is the block it would save.   *)
(***************************************************************************)
EXTENDS AskIndex, GraphCache, Chats, RateLimit, Session, AquaIndex, PriceSearch, SwapTurn,
        ActivityScan, SumsProofs, SequenceTheorems, TLAPS

-----------------------------------------------------------------------------
(* AskIndex. *)

LEMMA AskBounds == MaxQueries \in Nat /\ MaxUnsent \in Nat
  BY AskAssumption DEF AskAssumption

USE AskBounds

Loops == {"model", "call", "answered", "failed", "out-of-turns", "out-of-queries"}

\* A reply on its way carries the number of the query it answers.
Replies == {r \in [id : Nat \ {0}, query : Nat \ {0}] : r.id = r.query}

-----------------------------------------------------------------------------
(* The inductive invariant. *)

AskFlags == owner \in BOOLEAN /\ nudged \in BOOLEAN /\ closed \in BOOLEAN

AskCounts ==
    /\ turn \in 0..LastTurn /\ queries \in 0..MaxQueries /\ unsent \in 0..MaxUnsent
    /\ loop \in Loops

AskMessages ==
    /\ call \in [id : 0..MaxQueries, reply : Seq(Nat)]
    /\ server \in Seq(Replies) /\ stream \in Seq(Replies) /\ read \in Seq(Nat)

\* Exactly while a call is under way is something waited for, and it is the last query.
AskWaits ==
    /\ loop = "call" => call.id = queries /\ queries > 0 /\ Len(read) = queries - 1
    /\ loop # "call" => call.id = 0 /\ call.reply = <<>>
    /\ loop = "model" => Len(read) = queries
    /\ Len(read) =< queries
    /\ call.reply # <<>> => call.reply = <<call.id>>

Nudges == IF nudged THEN 1 ELSE 0

TurnsSpent ==
    /\ loop = "model" => turn = queries + unsent + Nudges
    /\ loop = "call" => turn = queries - 1 + unsent + Nudges

AskInv ==
    /\ AskCounts /\ AskMessages /\ AskWaits /\ TurnsSpent
    /\ RepliesAreTheirOwn /\ TurnsSuffice

-----------------------------------------------------------------------------

LEMMA FlagsHold == AskSpec => []AskFlags
  <1>1. AskInit => AskFlags BY DEF AskInit, AskFlags
  <1>2. AskFlags /\ [AskNext]_askVars => AskFlags'
    <2> SUFFICES ASSUME AskFlags, [AskNext]_askVars PROVE AskFlags'
      OBVIOUS
    <2> USE DEF AskFlags, callVars, askVars
    <2>1. CASE ModelAnswers BY <2>1 DEF ModelAnswers
    <2>2. CASE StreamEnds BY <2>2 DEF StreamEnds
    <2>3. CASE UNCHANGED <<owner, nudged, closed>> BY <2>3
    <2>4. QED
      BY <2>1, <2>2, <2>3
      DEF AskNext, ModelFails, OutOfQueries, SelectsNoFields, Query, GetsReply, GetsError, Told,
          TimesOut, ReplyRead, ServerReplies
  <1>3. QED BY <1>1, <1>2, PTL DEF AskSpec

LEMMA AskStart == AskInit => AskInv
  <1> SUFFICES ASSUME AskInit PROVE AskInv
    OBVIOUS
  <1>1. NoCall \in [id : 0..MaxQueries, reply : Seq(Nat)]
    <2>1. << >> \in Seq(Nat) OBVIOUS
    <2>2. QED BY <2>1 DEF NoCall
  <1>2. AskCounts /\ AskMessages BY <1>1 DEF AskInit, AskCounts, AskMessages, Loops, LastTurn
  <1>3. AskWaits /\ TurnsSpent BY DEF AskInit, AskWaits, TurnsSpent, Nudges, NoCall
  <1>5. QED BY <1>2, <1>3 DEF AskInit, AskInv, RepliesAreTheirOwn, TurnsSuffice

\* A turn is taken, or there is none to take.
LEMMA TurnTaken ==
  ASSUME AskCounts, NextTurn
  PROVE  /\ turn' \in 0..LastTurn /\ loop' \in {"model", "out-of-turns"}
         /\ loop' = "model" => turn' = turn + 1
         /\ loop' = "out-of-turns" => turn = LastTurn
  <1>1. CASE turn = LastTurn /\ loop' = "out-of-turns" /\ turn' = turn
    BY <1>1 DEF AskCounts, LastTurn
  <1>2. CASE turn # LastTurn /\ loop' = "model" /\ turn' = turn + 1
    BY <1>2 DEF AskCounts, LastTurn
  <1>3. QED BY <1>1, <1>2 DEF NextTurn

\* What the loop does between calls.
LEMMA ModelStep ==
  ASSUME AskInv, ModelAnswers \/ ModelFails \/ OutOfQueries \/ SelectsNoFields
  PROVE  AskInv'
  <1>1. AskCounts /\ AskWaits /\ TurnsSpent /\ Nudges \in 0..1 BY DEF AskInv, Nudges
  <1>2. loop = "model" /\ UNCHANGED <<queries, read, callVars>>
    BY DEF ModelAnswers, ModelFails, OutOfQueries, SelectsNoFields
  <1>3. AskMessages' /\ RepliesAreTheirOwn'
    BY <1>2 DEF callVars, AskInv, AskMessages, RepliesAreTheirOwn
  <1>4. ASSUME loop' # "call" PROVE AskWaits'
    BY <1>1, <1>2, <1>4 DEF AskWaits, callVars
  <1>5. CASE NextTurn /\ unsent' = unsent /\ queries = 0 /\ Nudges = 0 /\ Nudges' = 1
    <2>1. AskCounts' BY <1>1, <1>2, <1>5, TurnTaken DEF AskCounts, Loops
    <2>2. turn = queries + unsent + Nudges BY <1>1, <1>2 DEF TurnsSpent
    <2>3. CASE loop' = "model" /\ turn' = turn + 1
      <3>1. TurnsSpent' BY <1>1, <1>2, <1>5, <2>2, <2>3 DEF TurnsSpent, AskCounts
      <3>2. QED BY <1>3, <1>4, <2>1, <2>3, <3>1 DEF AskInv, TurnsSuffice
    <2>4. CASE loop' = "out-of-turns" /\ turn = LastTurn
      <3>1. unsent' > 0 BY <1>1, <1>5, <2>2, <2>4 DEF AskCounts, LastTurn
      <3>2. QED BY <1>3, <1>4, <2>1, <2>4, <3>1 DEF AskInv, TurnsSpent, TurnsSuffice
    <2>5. QED BY <1>1, <1>5, <2>3, <2>4, TurnTaken
  <1>6. CASE NextTurn /\ unsent' = unsent + 1 /\ unsent < MaxUnsent /\ Nudges' = Nudges
    <2>1. AskCounts' BY <1>1, <1>2, <1>6, TurnTaken DEF AskCounts, Loops
    <2>2. turn = queries + unsent + Nudges BY <1>1, <1>2 DEF TurnsSpent
    <2>3. CASE loop' = "model" /\ turn' = turn + 1
      <3>1. TurnsSpent' BY <1>1, <1>2, <1>6, <2>2, <2>3 DEF TurnsSpent, AskCounts
      <3>2. QED BY <1>3, <1>4, <2>1, <2>3, <3>1 DEF AskInv, TurnsSuffice
    <2>4. CASE loop' = "out-of-turns" /\ turn = LastTurn
      <3>1. unsent' > 0 BY <1>1, <1>6, <2>2, <2>4 DEF AskCounts, LastTurn
      <3>2. QED BY <1>3, <1>4, <2>1, <2>4, <3>1 DEF AskInv, TurnsSpent, TurnsSuffice
    <2>5. QED BY <1>1, <1>6, <2>3, <2>4, TurnTaken
  <1>7. CASE loop' \in {"answered", "failed", "out-of-queries"} /\ UNCHANGED <<turn, unsent>>
    <2>1. AskCounts' BY <1>1, <1>2, <1>7 DEF AskCounts, Loops
    <2>2. TurnsSpent' /\ TurnsSuffice' BY <1>7 DEF TurnsSpent, TurnsSuffice
    <2>3. QED BY <1>3, <1>4, <1>7, <2>1, <2>2 DEF AskInv
  <1>8. QED
    <2>1. CASE ModelAnswers BY <1>5, <1>7, <2>1 DEF ModelAnswers, Nudges
    <2>2. CASE ModelFails BY <1>7, <2>2 DEF ModelFails
    <2>3. CASE OutOfQueries BY <1>7, <2>3 DEF OutOfQueries
    <2>4. CASE SelectsNoFields BY <1>6, <2>4 DEF SelectsNoFields, Nudges
    <2>5. QED BY <2>1, <2>2, <2>3, <2>4

LEMMA QueryStep ==
  ASSUME AskInv, Query
  PROVE  AskInv'
  <1> DEFINE r == [id |-> queries + 1, query |-> queries + 1]
  <1>1. /\ loop = "model" /\ queries < MaxQueries /\ queries' = queries + 1
        /\ call' = [id |-> queries + 1, reply |-> <<>>]
        /\ server' \in {server, Append(server, r)}
        /\ loop' = "call" /\ UNCHANGED <<turn, nudged, stream, read, unsent>>
    BY DEF Query, NextId
  <1>2. AskCounts /\ AskWaits /\ TurnsSpent BY DEF AskInv
  <1>3. server \in Seq(Replies) /\ queries + 1 \in 1..MaxQueries
    BY <1>1 DEF AskInv, AskMessages, AskCounts
  <1>4. r \in Replies /\ r.id = r.query BY <1>3 DEF Replies
  <1>5. AskCounts' BY <1>1, <1>3 DEF AskCounts, AskInv, Loops
  <1>6. server' \in Seq(Replies)
    <2>1. CASE server' = server BY <1>3, <2>1
    <2>2. CASE server' = Append(server, r) BY <1>3, <1>4, <2>2
    <2>3. QED BY <1>1, <2>1, <2>2
  <1>7. call' \in [id : 0..MaxQueries, reply : Seq(Nat)]
    <2>1. << >> \in Seq(Nat) OBVIOUS
    <2>2. QED BY <1>1, <1>3, <2>1
  <1>8. AskMessages' BY <1>1, <1>6, <1>7 DEF AskInv, AskMessages
  <1>9. AskWaits'
    <2>1. call'.id = queries' /\ call'.reply = <<>> BY <1>1
    <2>2. queries' > 0 /\ Len(read) = queries /\ read' = read /\ queries \in Nat
      BY <1>1, <1>2 DEF AskWaits, AskCounts
    <2>3. QED BY <1>1, <2>1, <2>2 DEF AskWaits
  <1>10. TurnsSpent' BY <1>1, <1>2 DEF TurnsSpent, AskCounts, Nudges
  <1>11. QED
    BY <1>1, <1>5, <1>6, <1>8, <1>9, <1>10 DEF AskInv, RepliesAreTheirOwn, TurnsSuffice

LEMMA ToldStep ==
  ASSUME AskInv, NEW what \in Nat, what \in {Error, call.id}, Told(what)
  PROVE  AskInv'
  <1>1. /\ loop = "call" /\ read' = Append(read, what) /\ call' = NoCall /\ NextTurn
        /\ UNCHANGED <<queries, nudged, unsent, server, stream>>
    BY DEF Told
  <1>2. AskCounts /\ AskWaits /\ TurnsSpent BY DEF AskInv
  <1>3. read \in Seq(Nat) /\ call.id = queries /\ Len(read) = queries - 1 /\ queries \in Nat
    BY <1>1, <1>2 DEF AskInv, AskMessages, AskWaits, AskCounts
  <1>4. read' \in Seq(Nat) /\ Len(read') = queries BY <1>1, <1>3
  <1>5. AskCounts' BY <1>1, <1>2, TurnTaken DEF AskCounts, Loops
  <1>6. NoCall \in [id : 0..MaxQueries, reply : Seq(Nat)]
    <2>1. << >> \in Seq(Nat) OBVIOUS
    <2>2. QED BY <2>1 DEF NoCall
  <1>7. AskMessages'
    BY <1>1, <1>4, <1>6 DEF AskInv, AskMessages
  <1>8. AskWaits'
    <2>1. call'.id = 0 /\ call'.reply = <<>> BY <1>1 DEF NoCall
    <2>2. loop' \in {"model", "out-of-turns"} BY <1>1, <1>2, TurnTaken
    <2>3. QED BY <1>1, <1>3, <1>4, <2>1, <2>2 DEF AskWaits
  <1>9. Nudges' = Nudges /\ Nudges \in 0..1 BY <1>1 DEF Nudges
  <1>10. turn = queries - 1 + unsent + Nudges BY <1>1, <1>2 DEF TurnsSpent
  <1>11. TurnsSpent' /\ TurnsSuffice'
    <2>1. CASE loop' = "model" /\ turn' = turn + 1
      BY <1>1, <1>2, <1>9, <1>10, <2>1 DEF TurnsSpent, TurnsSuffice, AskCounts
    <2>2. CASE loop' = "out-of-turns" /\ turn = LastTurn
      <3>1. unsent > 0 BY <1>2, <1>9, <1>10, <2>2 DEF AskCounts, LastTurn
      <3>2. QED BY <1>1, <2>2, <3>1 DEF TurnsSpent, TurnsSuffice
    <2>3. QED BY <1>1, <1>2, <2>1, <2>2, TurnTaken
  <1>12. RepliesAreTheirOwn'
    <2> SUFFICES ASSUME NEW q \in DOMAIN read' PROVE read'[q] \in {Error, q}
      BY DEF RepliesAreTheirOwn
    <2>1. CASE q \in DOMAIN read
      <3>1. read'[q] = read[q] BY <1>1, <1>3, <2>1
      <3>2. QED BY <2>1, <3>1 DEF AskInv, RepliesAreTheirOwn
    <2>2. CASE q = queries
      <3>1. read'[q] = what BY <1>1, <1>3, <2>2
      <3>2. QED BY <1>3, <2>2, <3>1
    <2>3. QED BY <1>1, <1>3, <2>1, <2>2
  <1>13. QED BY <1>5, <1>7, <1>8, <1>11, <1>12 DEF AskInv

LEMMA CallStep ==
  ASSUME AskInv, GetsReply \/ GetsError \/ TimesOut
  PROVE  AskInv'
  <1>1. CASE GetsReply
    <2>1. call.reply = <<call.id>> /\ call.id \in Nat
      BY <1>1 DEF GetsReply, AskInv, AskWaits, AskMessages
    <2>2. call.reply[1] = call.id BY <2>1
    <2>3. QED BY <1>1, <2>1, <2>2, ToldStep DEF GetsReply
  <1>2. CASE GetsError BY <1>2, ToldStep DEF GetsError, Error
  <1>3. CASE TimesOut
    <2>1. /\ loop \in {"model", "call"} /\ loop' = "failed" /\ call' = NoCall
          /\ UNCHANGED <<turn, queries, nudged, read, unsent, server, stream>>
      BY <1>3 DEF TimesOut
    <2>2. NoCall \in [id : 0..MaxQueries, reply : Seq(Nat)] /\ NoCall.id = 0 /\ NoCall.reply = <<>>
      <3>1. << >> \in Seq(Nat) OBVIOUS
      <3>2. QED BY <3>1 DEF NoCall
    <2>3. AskCounts' BY <2>1 DEF AskInv, AskCounts, Loops
    <2>4. AskMessages'
      BY <2>1, <2>2 DEF AskInv, AskMessages
    <2>5. AskWaits' /\ TurnsSpent' BY <2>1, <2>2 DEF AskInv, AskWaits, TurnsSpent
    <2>6. QED BY <2>1, <2>3, <2>4, <2>5 DEF AskInv, RepliesAreTheirOwn, TurnsSuffice
  <1>4. QED BY <1>1, <1>2, <1>3

LEMMA ServerStep ==
  ASSUME AskInv, NEW i \in DOMAIN server, ServerReplies(i)
  PROVE  AskInv'
  <1>1. server \in Seq(Replies) /\ stream \in Seq(Replies) BY DEF AskInv, AskMessages
  <1>2. stream' \in Seq(Replies) BY <1>1 DEF ServerReplies
  <1>3. server' \in Seq(Replies)
    <2>1. SubSeq(server, 1, i - 1) \in Seq(Replies) BY <1>1
    <2>2. SubSeq(server, i + 1, Len(server)) \in Seq(Replies) BY <1>1
    <2>3. QED BY <2>1, <2>2 DEF ServerReplies
  <1>4. QED
    BY <1>2, <1>3
    DEF ServerReplies, AskInv, AskCounts, AskMessages, AskWaits, TurnsSpent, Nudges, RepliesAreTheirOwn,
        TurnsSuffice

LEMMA ReadStep ==
  ASSUME AskInv, ReplyRead \/ StreamEnds
  PROVE  AskInv'
  <1>1. UNCHANGED <<turn, queries, nudged, loop, server, read, unsent>>
    BY DEF ReplyRead, StreamEnds
  <1>2. stream' \in Seq(Replies)
    <2>1. stream \in Seq(Replies) BY DEF AskInv, AskMessages
    <2>2. CASE stream # <<>> /\ stream' = Tail(stream) BY <2>1, <2>2
    <2>3. CASE stream' = <<>> BY <2>3
    <2>4. QED BY <2>2, <2>3 DEF ReplyRead, StreamEnds
  <1>3. call' \in [id : 0..MaxQueries, reply : Seq(Nat)] /\ AskWaits'
    <2>1. call \in [id : 0..MaxQueries, reply : Seq(Nat)] /\ AskWaits BY DEF AskInv, AskMessages
    <2>2. CASE call' = call BY <1>1, <2>1, <2>2 DEF AskWaits
    <2>3. CASE ReplyRead /\ WaitedFor(Head(stream))
      <3> DEFINE r == Head(stream)
      <3>1. r \in Replies /\ r.id = r.query /\ r.id = call.id
        <4>1. stream \in Seq(Replies) /\ stream # <<>> BY <2>3 DEF AskInv, AskMessages, ReplyRead
        <4>2. r \in Replies BY <4>1
        <4>3. QED BY <2>3, <4>2 DEF Replies, WaitedFor
      <3>2. call' = [call EXCEPT !.reply = <<r.query>>] BY <2>3 DEF ReplyRead
      <3>3. call'.id = call.id /\ call'.reply = <<call.id>> BY <2>1, <3>1, <3>2
      <3>4. call.id \in Nat \ {0} BY <3>1 DEF Replies
      <3>5. <<r.query>> \in Seq(Nat) BY <3>1 DEF Replies
      <3>6. QED BY <1>1, <2>1, <3>2, <3>3, <3>4, <3>5 DEF AskWaits
    <2>4. QED BY <2>2, <2>3 DEF ReplyRead, StreamEnds
  <1>4. QED
    BY <1>1, <1>2, <1>3
    DEF AskInv, AskCounts, AskMessages, TurnsSpent, Nudges, RepliesAreTheirOwn, TurnsSuffice

LEMMA AskStep == AskInv /\ [AskNext]_askVars => AskInv'
  <1> SUFFICES ASSUME AskInv, [AskNext]_askVars PROVE AskInv'
    OBVIOUS
  <1>1. CASE AskNext
    BY <1>1, ModelStep, QueryStep, CallStep, ServerStep, ReadStep DEF AskNext
  <1>2. CASE UNCHANGED askVars
    BY <1>2 DEF askVars, AskInv, AskCounts, AskMessages, AskWaits, TurnsSpent, Nudges, RepliesAreTheirOwn,
                TurnsSuffice
  <1>3. QED BY <1>1, <1>2

LEMMA AskInvariant == AskSpec => []AskInv
  BY AskStart, AskStep, PTL DEF AskSpec

-----------------------------------------------------------------------------
(* The results. *)

\* The loop's and the session's state is well typed, and no query beyond the limit is sent.
THEOREM AskTypeCorrect == AskSpec => []AskTypeOK
  <1>1. AskFlags /\ AskInv => AskTypeOK
    <2>1. AskInv => /\ turn \in 0..(MaxQueries + 1) /\ queries \in 0..MaxQueries
                  /\ loop \in Loops /\ call.id \in 0..MaxQueries
                  /\ Len(read) =< queries /\ unsent \in 0..MaxUnsent
      BY DEF AskInv, AskCounts, AskMessages, AskWaits, LastTurn
    <2>2. QED BY <2>1 DEF AskFlags, AskTypeOK, Loops
  <1>2. QED BY FlagsHold, AskInvariant, <1>1, PTL

\* Whatever the model is told of a query came in answer to it, in any order and however posts fail,
\* and no question runs out of turns without having spent one on a query that was not sent.
THEOREM QuestionsGetTheirDue == AskSpec => []QuestionsAreServed
  <1>1. AskInv => QuestionsAreServed BY DEF AskInv, QuestionsAreServed
  <1>2. QED BY AskInvariant, <1>1, PTL

HIDE AskBounds

-----------------------------------------------------------------------------
(* GraphCache. *)

LEMMA CacheBounds ==
    CacheTtl \in Nat /\ UpstreamTimeout \in Nat /\ CacheEntries \in Nat \ {0} /\ MaxCacheTime \in Nat
  BY CacheAssumption DEF CacheAssumption

USE CacheBounds

-----------------------------------------------------------------------------
(* The inductive invariant. *)

Asked == [q : Questions \cup {"none"}, since : Nat, answer : Int]

CacheTypes ==
    /\ clock \in Nat /\ clock =< MaxCacheTime
    /\ cached \in [DOMAIN cached -> [answer : Nat, at : Nat]] /\ DOMAIN cached \subseteq Questions
    /\ asking \in [Requests -> Asked]
    /\ told \in [Questions -> [last : Nat, newest : Nat]]

FewAreKept == IsFiniteSet(DOMAIN cached) /\ Cardinality(DOMAIN cached) =< CacheEntries

\* What is filed was computed at most a timeout before, and after it nobody was told more.
FiledInv(filed, newest) ==
    /\ filed.answer =< filed.at /\ filed.at =< clock
    /\ filed.at - filed.answer =< UpstreamTimeout
    /\ newest =< filed.at

\* A request under way was made at most a timeout ago, and its answer computed since.
AskedInv(a) ==
    a # Resting => /\ a.q \in Questions /\ a.since =< clock
                   /\ clock - a.since =< UpstreamTimeout
                   /\ a.answer # Unanswered => a.answer >= a.since /\ a.answer =< clock

ToldInv(t) == t.newest =< clock /\ t.last =< t.newest /\ t.newest - t.last =< UpstreamTimeout

CacheInv ==
    /\ CacheTypes /\ FewAreKept
    /\ \A q \in DOMAIN cached : FiledInv(cached[q], told[q].newest)
    /\ \A r \in Requests : AskedInv(asking[r])
    /\ \A q \in Questions : ToldInv(told[q])

-----------------------------------------------------------------------------

LEMMA CacheStart == CacheInit => CacheInv
  <1> SUFFICES ASSUME CacheInit PROVE CacheInv
    OBVIOUS
  <1>1. DOMAIN cached = {} BY DEF CacheInit
  <1>2. CacheTypes BY <1>1 DEF CacheInit, CacheTypes, Asked, Resting, Unanswered
  <1>3. FewAreKept BY <1>1, FS_EmptySet DEF FewAreKept
  <1>4. QED BY <1>1, <1>2, <1>3 DEF CacheInit, CacheInv, AskedInv, ToldInv

\* Serving an answer at most a timeout older than the clock, and than what was told before.
LEMMA CacheServed ==
  ASSUME CacheInv, NEW q \in Questions, NEW answer \in Nat, Serve(q, answer),
         answer =< clock, told[q].newest - answer =< UpstreamTimeout
  PROVE  /\ told' \in [Questions -> [last : Nat, newest : Nat]]
         /\ \A k \in Questions : k # q => told'[k] = told[k]
         /\ told'[q].newest =< clock /\ told'[q].last =< told'[q].newest
         /\ told'[q].newest - told'[q].last =< UpstreamTimeout
         /\ told'[q].newest \in {told[q].newest, answer}
  <1> DEFINE t == [last |-> answer,
                   newest |-> IF answer > told[q].newest THEN answer ELSE told[q].newest]
  <1>1. told \in [Questions -> [last : Nat, newest : Nat]] /\ told[q].newest =< clock /\ clock \in Nat
    BY DEF CacheInv, CacheTypes, ToldInv
  <1>2. told' = [told EXCEPT ![q] = t] BY DEF Serve
  <1>3. told'[q] = t /\ t \in [last : Nat, newest : Nat] BY <1>1, <1>2
  <1>4. QED BY <1>1, <1>2, <1>3

LEMMA HitStep ==
  ASSUME CacheInv, NEW r \in Requests, NEW q \in Questions, Hit(r, q)
  PROVE  CacheInv'
  <1>1. /\ q \in DOMAIN cached /\ Serve(q, cached[q].answer)
        /\ clock' = clock /\ cached' = cached /\ asking' = asking
    BY DEF Hit, Fresh
  <1>2. /\ cached[q].answer \in Nat /\ cached[q].at \in Nat /\ told[q].newest \in Nat
        /\ FiledInv(cached[q], told[q].newest) /\ clock \in Nat
    BY <1>1 DEF CacheInv, CacheTypes
  <1>3. cached[q].answer =< clock /\ told[q].newest - cached[q].answer =< UpstreamTimeout
    BY <1>2 DEF FiledInv
  <1>4. told'[q].newest \in {told[q].newest, cached[q].answer} BY <1>1, <1>2, <1>3, CacheServed
  <1>5. \A k \in DOMAIN cached' : FiledInv(cached[k], told[k].newest)'
    <2> SUFFICES ASSUME NEW k \in DOMAIN cached PROVE FiledInv(cached[k], told'[k].newest)
      BY <1>1 DEF FiledInv
    <2>1. CASE k = q BY <1>2, <1>4, <2>1 DEF FiledInv
    <2>2. CASE k # q
      <3>1. told'[k] = told[k] BY <1>1, <1>2, <1>3, <2>2, CacheServed DEF CacheInv, CacheTypes
      <3>2. QED BY <3>1 DEF CacheInv
    <2>3. QED BY <2>1, <2>2
  <1>6. \A k \in Questions : ToldInv(told[k])'
    BY <1>1, <1>2, <1>3, CacheServed DEF CacheInv, ToldInv
  <1>7. CacheTypes' /\ FewAreKept' BY <1>1, <1>2, <1>3, CacheServed DEF CacheInv, CacheTypes, FewAreKept
  <1>8. QED BY <1>1, <1>5, <1>6, <1>7 DEF CacheInv, AskedInv

\* A request's own record changes and nothing that readers see.
LEMMA AskingStep ==
  ASSUME CacheInv, NEW r \in Requests, NEW a \in Asked, AskedInv(a),
         asking' = [asking EXCEPT ![r] = a], UNCHANGED <<clock, cached, told>>
  PROVE  CacheInv'
  <1>1. asking' \in [Requests -> Asked] /\ \A k \in Requests : asking'[k] \in {asking[k], a}
    BY DEF CacheInv, CacheTypes
  <1>2. \A k \in Requests : AskedInv(asking[k])' BY <1>1 DEF CacheInv, AskedInv
  <1>3. CacheTypes' /\ FewAreKept' BY <1>1 DEF CacheInv, CacheTypes, FewAreKept
  <1>4. QED BY <1>2, <1>3 DEF CacheInv, FiledInv, ToldInv

LEMMA MissStep ==
  ASSUME CacheInv, NEW r \in Requests, NEW q \in Questions, Miss(r, q)
  PROVE  CacheInv'
  <1> DEFINE a == [q |-> q, since |-> clock, answer |-> Unanswered]
  <1>1. a \in Asked /\ AskedInv(a) BY DEF CacheInv, CacheTypes, Asked, AskedInv, Unanswered
  <1>2. QED BY <1>1, AskingStep DEF Miss

LEMMA ComputesStep ==
  ASSUME CacheInv, NEW r \in Requests, UpstreamComputes(r)
  PROVE  CacheInv'
  <1> DEFINE a == [asking[r] EXCEPT !.answer = clock]
  <1>1. asking[r] \in Asked /\ AskedInv(asking[r]) /\ asking[r] # Resting /\ clock \in Nat
    BY DEF UpstreamComputes, CacheInv, CacheTypes
  <1>2. a \in Asked BY <1>1 DEF Asked
  <1>3. a.q = asking[r].q /\ a.since = asking[r].since /\ a.answer = clock BY <1>1 DEF Asked
  <1>4. AskedInv(a) BY <1>1, <1>3 DEF AskedInv
  <1>5. QED BY <1>2, <1>4, AskingStep DEF UpstreamComputes

LEMMA RestIsAsked == Resting \in Asked /\ AskedInv(Resting) /\ Resting.answer = Unanswered
  BY DEF Resting, Asked, AskedInv, Unanswered

LEMMA FailsStep ==
  ASSUME CacheInv, NEW r \in Requests, Fails(r)
  PROVE  CacheInv'
  BY RestIsAsked, AskingStep DEF Fails

\* Room is made for one more.
LEMMA RoomIsMade ==
  ASSUME FewAreKept, NEW kept \in Survivors, NEW q
  PROVE  kept \subseteq DOMAIN cached
         /\ IsFiniteSet(kept \cup {q}) /\ Cardinality(kept \cup {q}) =< CacheEntries
  <1> DEFINE live == {k \in DOMAIN cached : Fresh(k)}
  <1>1. IsFiniteSet(DOMAIN cached) BY DEF FewAreKept
  <1>2. kept \subseteq DOMAIN cached BY DEF Survivors
  <1>3. IsFiniteSet(kept) BY <1>1, <1>2, FS_Subset
  <1>4. Cardinality(kept) < CacheEntries
    <2>1. CASE kept = DOMAIN cached /\ Cardinality(DOMAIN cached) < CacheEntries BY <2>1
    <2>2. CASE kept = live /\ Cardinality(live) < CacheEntries BY <2>2
    <2>3. CASE Cardinality(kept) = CacheEntries - 1 BY <2>3
    <2>4. QED BY <2>1, <2>2, <2>3 DEF Survivors
  <1>5. Cardinality(kept) \in Nat BY <1>3, FS_CardinalityType
  <1>6. /\ IsFiniteSet(kept \cup {q})
        /\ Cardinality(kept \cup {q}) \in {Cardinality(kept), Cardinality(kept) + 1}
    BY <1>3, FS_AddElement
  <1>7. QED BY <1>2, <1>4, <1>5, <1>6

LEMMA ArrivesStep ==
  ASSUME CacheInv, NEW r \in Requests, Arrives(r)
  PROVE  CacheInv'
  <1> DEFINE q == asking[r].q
             filed == [answer |-> asking[r].answer, at |-> clock]
  <1>1. PICK kept \in Survivors :
          cached' = [k \in kept \cup {q} |-> IF k = q THEN filed ELSE cached[k]]
    BY DEF Arrives
  <1>2. /\ asking[r] \in Asked /\ asking[r].answer # Unanswered /\ clock' = clock /\ clock \in Nat
        /\ Serve(q, asking[r].answer) /\ asking' = [asking EXCEPT ![r] = Resting]
    BY DEF Arrives, CacheInv, CacheTypes
  <1>3. /\ q \in Questions /\ asking[r].since =< clock /\ clock - asking[r].since =< UpstreamTimeout
        /\ asking[r].since =< asking[r].answer /\ asking[r].answer =< clock
        /\ asking[r].since \in Nat /\ asking[r].answer \in Nat
    <2>1. asking[r] # Resting BY <1>2, RestIsAsked
    <2>2. AskedInv(asking[r]) BY DEF CacheInv
    <2>3. QED BY <1>2, <2>1, <2>2 DEF AskedInv, Asked
  <1>4. told[q].newest \in Nat /\ told[q].newest =< clock BY <1>3 DEF CacheInv, CacheTypes, ToldInv
  <1>5. told[q].newest - asking[r].answer =< UpstreamTimeout BY <1>2, <1>3, <1>4
  <1>6. /\ told' \in [Questions -> [last : Nat, newest : Nat]]
        /\ \A k \in Questions : k # q => told'[k] = told[k]
        /\ told'[q].newest =< clock /\ told'[q].last =< told'[q].newest
        /\ told'[q].newest - told'[q].last =< UpstreamTimeout
    BY <1>2, <1>3, <1>5, CacheServed
  <1>7. kept \subseteq DOMAIN cached /\ DOMAIN cached' = kept \cup {q}
    BY <1>1, RoomIsMade DEF CacheInv
  <1>8. FewAreKept' BY <1>7, RoomIsMade DEF FewAreKept, CacheInv
  <1>9. filed \in [answer : Nat, at : Nat] BY <1>2, <1>3
  <1>10. \A k \in DOMAIN cached' : cached'[k] = IF k = q THEN filed ELSE cached[k]
    BY <1>1
  <1>11. CacheTypes'
    <2>1. cached' \in [DOMAIN cached' -> [answer : Nat, at : Nat]] /\ DOMAIN cached' \subseteq Questions
      BY <1>1, <1>3, <1>7, <1>9 DEF CacheInv, CacheTypes
    <2>2. asking' \in [Requests -> Asked] BY <1>2, RestIsAsked DEF CacheInv, CacheTypes
    <2>3. QED BY <1>2, <1>6, <2>1, <2>2 DEF CacheInv, CacheTypes
  <1>12. \A k \in DOMAIN cached' : FiledInv(cached[k], told[k].newest)'
    <2> SUFFICES ASSUME NEW k \in DOMAIN cached' PROVE FiledInv(cached'[k], told'[k].newest)
      BY <1>2 DEF FiledInv
    <2>1. CASE k = q
      <3>1. cached'[k] = filed BY <1>10, <2>1
      <3>2. FiledInv(filed, told'[q].newest) BY <1>2, <1>3, <1>6 DEF FiledInv
      <3>3. QED BY <2>1, <3>1, <3>2
    <2>2. CASE k # q
      <3>1. k \in DOMAIN cached /\ k \in Questions /\ cached'[k] = cached[k]
        BY <1>7, <1>10, <2>2 DEF CacheInv, CacheTypes
      <3>2. told'[k] = told[k] BY <1>6, <2>2, <3>1
      <3>3. QED BY <3>1, <3>2 DEF CacheInv
    <2>3. QED BY <2>1, <2>2
  <1>13. \A k \in Questions : ToldInv(told[k])' BY <1>2, <1>6 DEF CacheInv, ToldInv
  <1>14. \A k \in Requests : AskedInv(asking[k])'
    <2>1. \A k \in Requests : asking'[k] \in {asking[k], Resting} BY <1>2 DEF CacheInv, CacheTypes
    <2>2. QED BY <1>2, <2>1 DEF CacheInv, AskedInv
  <1>15. QED BY <1>8, <1>11, <1>12, <1>13, <1>14 DEF CacheInv

\* The clock waits for nobody but a request whose time is up.
LEMMA CacheTickStep ==
  ASSUME CacheInv, CacheTicks
  PROVE  CacheInv'
  <1>1. clock' = clock + 1 /\ clock < MaxCacheTime /\ UNCHANGED <<cached, asking, told>>
    BY DEF CacheTicks
  <1>2. CacheTypes' /\ FewAreKept' BY <1>1 DEF CacheInv, CacheTypes, FewAreKept
  <1>3. \A q \in DOMAIN cached : cached[q].at \in Nat /\ clock \in Nat BY DEF CacheInv, CacheTypes
  <1>4. \A q \in DOMAIN cached' : FiledInv(cached[q], told[q].newest)'
    BY <1>1, <1>3 DEF CacheInv, FiledInv
  <1>5. \A r \in Requests : AskedInv(asking[r])'
    <2> SUFFICES ASSUME NEW r \in Requests, asking[r] # Resting PROVE AskedInv(asking[r])'
      BY <1>1 DEF AskedInv
    <2>1. AskedInv(asking[r]) /\ asking[r] \in Asked /\ clock \in Nat BY DEF CacheInv, CacheTypes
    <2>2. clock - asking[r].since < UpstreamTimeout BY <2>1 DEF CacheTicks, OutOfTime, Asked
    <2>3. QED BY <1>1, <2>1, <2>2 DEF AskedInv, Asked
  <1>6. \A q \in Questions : ToldInv(told[q])' BY <1>1 DEF CacheInv, CacheTypes, ToldInv
  <1>7. QED BY <1>2, <1>4, <1>5, <1>6 DEF CacheInv

LEMMA CacheStep == CacheInv /\ [CacheNext]_cacheVars => CacheInv'
  <1> SUFFICES ASSUME CacheInv, [CacheNext]_cacheVars PROVE CacheInv'
    OBVIOUS
  <1>1. CASE UNCHANGED cacheVars
    BY <1>1 DEF cacheVars, CacheInv, CacheTypes, FewAreKept, FiledInv, AskedInv, ToldInv
  <1>2. CASE CacheNext
    BY <1>2, HitStep, MissStep, ComputesStep, FailsStep, ArrivesStep, CacheTickStep DEF CacheNext
  <1>3. QED BY <1>1, <1>2

LEMMA CacheInvariant == CacheSpec => []CacheInv
  BY CacheStart, CacheStep, PTL DEF CacheSpec

-----------------------------------------------------------------------------
(* The results. *)

\* Well typed, and never more kept than there is room for.
THEOREM CacheTypeCorrect == CacheSpec => []CacheTypeOK
  <1>1. CacheInv => CacheTypeOK
    <2> SUFFICES ASSUME CacheInv PROVE CacheTypeOK
      OBVIOUS
    <2>1. clock \in 0..MaxCacheTime /\ Cardinality(DOMAIN cached) =< CacheEntries
      BY DEF CacheInv, CacheTypes, FewAreKept
    <2>2. \A q \in DOMAIN cached : q \in Questions /\ cached[q] \in [answer : 0..clock, at : 0..clock]
      BY DEF CacheInv, CacheTypes, FiledInv
    <2>3. \A r \in Requests : asking[r].q \in Questions \cup {"none"} BY DEF CacheInv, CacheTypes, Asked
    <2>4. told \in [Questions -> [last : 0..clock, newest : 0..clock]]
      BY DEF CacheInv, CacheTypes, ToldInv
    <2>5. QED BY <2>1, <2>2, <2>3, <2>4 DEF CacheTypeOK
  <1>2. QED BY CacheInvariant, <1>1, PTL

\* No reader is sent back past what a reader was told before by more than one timeout.
THEOREM NobodyGoesFarBack == CacheSpec => []ReadersGoBackLittle
  <1>1. CacheInv => ReadersGoBackLittle BY DEF CacheInv, FiledInv, ToldInv, ReadersGoBackLittle
  <1>2. QED BY CacheInvariant, <1>1, PTL

HIDE CacheBounds

-----------------------------------------------------------------------------
(* Chats. *)

LEMMA ChatsBounds ==
    /\ IsFiniteSet(Clients)
    /\ MaxConversations \in Nat \ {0} /\ MaxMessages \in Nat \ {0} /\ MaxStarted \in Nat
  BY ChatsAssumption DEF ChatsAssumption

Writes == [kind : {"none", "start", "append"}, chat : Nat]

\* Nobody holds a conversation that has not been started.
ChatsTypes ==
    /\ started \in Nat /\ started =< MaxStarted
    /\ chats \in [Existing -> Nat] /\ Existing \subseteq 1..started
    /\ doing \in [Clients -> Writes]
    /\ \A u \in Clients : /\ doing[u].chat =< started
                          /\ doing[u].kind = "start" => doing[u] = Through("start", 0)

ChatsInv == ChatsTypes /\ LimitsNearlyHold

\* Who waits for a write.
WaitersOf(kind, c) == {u \in Clients : doing[u] = Through(kind, c)}

LEMMA WaitingCounts ==
  ASSUME NEW kind, NEW c
  PROVE  /\ Waiting(kind, c) = Cardinality(WaitersOf(kind, c)) /\ IsFiniteSet(WaitersOf(kind, c))
         /\ Waiting(kind, c) \in Nat /\ Waiting(kind, c) =< Cardinality(Clients)
         /\ Cardinality(Clients) \in Nat
  <1>1. WaitersOf(kind, c) \in SUBSET Clients BY DEF WaitersOf
  <1>2. QED
    BY <1>1, ChatsBounds, FS_Subset, FS_CardinalityType DEF Waiting, WaitersOf

LEMMA ExistingIsFinite ==
  ASSUME ChatsTypes
  PROVE  IsFiniteSet(Existing) /\ Cardinality(Existing) \in Nat
  <1>1. IsFiniteSet(1..started) BY FS_Interval DEF ChatsTypes
  <1>2. QED BY <1>1, FS_Subset, FS_CardinalityType DEF ChatsTypes

LEMMA ChatsStart == ChatsInit => ChatsInv
  <1> SUFFICES ASSUME ChatsInit PROVE ChatsInv
    OBVIOUS
  <1>1. Existing = {} BY DEF ChatsInit, Existing
  <1>2. ChatsTypes BY <1>1, ChatsBounds DEF ChatsInit, ChatsTypes, Existing, Writes, NoWrite, Through
  <1>3. WaitersOf("start", 0) = {} BY DEF ChatsInit, WaitersOf, NoWrite, Through
  <1>4. Waiting("start", 0) = 0 /\ Cardinality(Existing) = 0 /\ Cardinality(Clients) \in Nat
    BY <1>1, <1>3, WaitingCounts, FS_EmptySet
  <1>5. QED BY <1>1, <1>2, <1>4, ChatsBounds DEF ChatsInv, LimitsNearlyHold

\* Waiting falls by one when one who waits is through, and never rises by another's write.
LEMMA WaitingFalls ==
  ASSUME doing \in [Clients -> Writes], NEW u \in Clients, NEW kind, NEW c,
         kind # "none", doing' = [doing EXCEPT ![u] = NoWrite]
  PROVE  /\ Waiting(kind, c)' =< Waiting(kind, c)
         /\ doing[u] = Through(kind, c) => Waiting(kind, c)' = Waiting(kind, c) - 1
  <1>1. NoWrite # Through(kind, c) BY DEF NoWrite, Through
  <1>2. WaitersOf(kind, c)' = WaitersOf(kind, c) \ {u}
    <2> DEFINE t == Through(kind, c)
    <2>1. {k \in Clients : doing'[k] = t} = {k \in Clients : doing[k] = t} \ {u}
      <3> HIDE DEF t
      <3>1. NoWrite # t BY <1>1 DEF t
      <3>2. QED BY <3>1
    <2>2. QED BY <2>1 DEF WaitersOf, Through
  <1>3. /\ Waiting(kind, c) = Cardinality(WaitersOf(kind, c)) /\ IsFiniteSet(WaitersOf(kind, c))
        /\ Waiting(kind, c) \in Nat
    BY WaitingCounts
  <1>4. Waiting(kind, c)' = Cardinality(WaitersOf(kind, c)') BY DEF Waiting, WaitersOf
  <1>5. doing[u] = Through(kind, c) => u \in WaitersOf(kind, c) BY DEF WaitersOf
  <1>6. QED BY SMTT(30), <1>2, <1>3, <1>4, <1>5, FS_RemoveElement

\* Another's counting lets nobody else through.
LEMMA WaitingStays ==
  ASSUME NEW u \in Clients, doing[u] = NoWrite, \A k \in Clients \ {u} : doing'[k] = doing[k],
         NEW kind, NEW c, kind # "none", doing'[u] # Through(kind, c)
  PROVE  Waiting(kind, c)' = Waiting(kind, c)
  <1> DEFINE t == Through(kind, c)
  <1>1. doing[u] # t BY DEF NoWrite, Through
  <1>2. WaitersOf(kind, c)' = WaitersOf(kind, c)
    <2>1. {k \in Clients : doing'[k] = t} = {k \in Clients : doing[k] = t}
      <3> HIDE DEF t
      <3>1. doing'[u] # t BY DEF t
      <3>2. QED BY <1>1, <3>1
    <2>2. QED BY <2>1 DEF WaitersOf, Through
  <1>3. QED BY <1>2 DEF Waiting, WaitersOf

LEMMA CountConversationsStep ==
  ASSUME ChatsInv, NEW u \in Clients, CountConversations(u)
  PROVE  ChatsInv'
  <1> DEFINE w == Through("start", 0)
  <1>1. /\ doing[u] = NoWrite /\ Cardinality(Existing) < MaxConversations
        /\ doing' = [doing EXCEPT ![u] = w] /\ UNCHANGED <<chats, started>>
    BY DEF CountConversations
  <1>2. ChatsTypes BY DEF ChatsInv
  <1>3. ChatsTypes' BY <1>1, <1>2 DEF ChatsTypes, Existing, Writes, Through
  <1>4. Cardinality(Existing)' = Cardinality(Existing) /\ Cardinality(Existing) \in Nat
    BY <1>1, <1>2, ExistingIsFinite DEF Existing
  <1>5. Waiting("start", 0)' =< Cardinality(Clients) /\ Waiting("start", 0)' \in Nat
    <2>1. WaitersOf("start", 0)' \in SUBSET Clients BY DEF WaitersOf
    <2>2. Waiting("start", 0)' = Cardinality(WaitersOf("start", 0)') BY DEF Waiting, WaitersOf
    <2>3. QED BY <2>1, <2>2, ChatsBounds, FS_Subset, FS_CardinalityType
  <1>6. \A c \in Existing : Waiting("append", c)' = Waiting("append", c)
    <2> SUFFICES ASSUME NEW c \in Existing PROVE Waiting("append", c)' = Waiting("append", c)
      OBVIOUS
    <2>1. w # Through("append", c) BY DEF Through
    <2> HIDE DEF w
    <2>2. doing'[u] = w /\ \A k \in Clients \ {u} : doing'[k] = doing[k]
      BY <1>1, <1>2 DEF ChatsTypes
    <2>3. QED BY <1>1, <2>1, <2>2, WaitingStays
  <1>7. Cardinality(Clients) \in Nat BY ChatsBounds, FS_CardinalityType
  <1>8. Cardinality(Existing)' + Waiting("start", 0)' =< MaxConversations + (Cardinality(Clients) - 1)
    BY <1>1, <1>4, <1>5, <1>7, ChatsBounds
  <1>9. LimitsNearlyHold'
    BY <1>1, <1>6, <1>8 DEF ChatsInv, LimitsNearlyHold, Existing
  <1>10. QED BY <1>3, <1>9 DEF ChatsInv

LEMMA CreateConversationStep ==
  ASSUME ChatsInv, NEW u \in Clients, CreateConversation(u)
  PROVE  ChatsInv'
  <1> DEFINE new == started + 1
  <1>1. /\ doing[u].kind = "start" /\ started < MaxStarted /\ started' = new
        /\ chats' = [c \in Existing \cup {new} |-> IF c \in Existing THEN chats[c] ELSE 0]
        /\ doing' = [doing EXCEPT ![u] = NoWrite]
    BY DEF CreateConversation
  <1>2. ChatsTypes BY DEF ChatsInv
  <1>3. Existing' = Existing \cup {new} /\ new \notin Existing
    BY <1>1, <1>2 DEF Existing, ChatsTypes
  <1>4. ChatsTypes'
    BY <1>1, <1>2, <1>3, ChatsBounds DEF ChatsTypes, Writes, NoWrite, Through, Existing
  <1>5. Cardinality(Existing)' = Cardinality(Existing) + 1 /\ Cardinality(Existing) \in Nat
    BY <1>2, <1>3, ExistingIsFinite, FS_AddElement
  <1>6. \A c : /\ Waiting("append", c)' =< Waiting("append", c)
               /\ Waiting("append", c) \in Nat /\ Waiting("append", c)' \in Nat
    <2>1. \A c : Waiting("append", c)' =< Waiting("append", c)
      BY <1>1, <1>2, WaitingFalls DEF ChatsTypes
    <2>2. \A c : WaitersOf("append", c)' \in SUBSET Clients BY DEF WaitersOf
    <2>3. \A c : Waiting("append", c)' = Cardinality(WaitersOf("append", c)')
      BY DEF Waiting, WaitersOf
    <2>4. QED BY <2>1, <2>2, <2>3, ChatsBounds, WaitingCounts, FS_Subset, FS_CardinalityType
  <1>7. Waiting("append", new) = 0
    <2>1. WaitersOf("append", new) = {} BY <1>2 DEF ChatsTypes, WaitersOf, Through
    <2>2. QED BY <2>1, WaitingCounts, FS_EmptySet
  <1>8. \A c \in Existing' : chats'[c] + Waiting("append", c)' =< MaxMessages + (Cardinality(Clients) - 1)
    <2> SUFFICES ASSUME NEW c \in Existing'
                 PROVE  chats'[c] + Waiting("append", c)' =< MaxMessages + (Cardinality(Clients) - 1)
      OBVIOUS
    <2>1. Cardinality(Clients) \in Nat BY ChatsBounds, FS_CardinalityType
    <2>2. CASE c = new
      <3>1. chats'[c] = 0 /\ Waiting("append", c)' = 0 BY <1>1, <1>3, <1>6, <1>7, <2>2
      <3>2. QED BY <2>1, <3>1, ChatsBounds
    <2>3. CASE c \in Existing
      <3>1. chats'[c] = chats[c] /\ chats[c] \in Nat BY <1>1, <1>2, <2>3 DEF ChatsTypes
      <3>2. chats[c] + Waiting("append", c) =< MaxMessages + (Cardinality(Clients) - 1)
        BY <2>3 DEF ChatsInv, LimitsNearlyHold
      <3>3. QED BY <1>6, <2>1, <3>1, <3>2, ChatsBounds
    <2>4. QED BY <1>3, <2>2, <2>3
  <1>9. Cardinality(Existing)' + Waiting("start", 0)' =< MaxConversations + (Cardinality(Clients) - 1)
    <2>1. CASE doing[u] = Through("start", 0)
      <3>1. Waiting("start", 0)' = Waiting("start", 0) - 1
        BY <1>1, <1>2, <2>1, WaitingFalls DEF ChatsTypes
      <3>2. Waiting("start", 0) \in Nat /\ Cardinality(Clients) \in Nat BY WaitingCounts
      <3>3. QED BY <1>5, <3>1, <3>2, ChatsBounds DEF ChatsInv, LimitsNearlyHold
    <2>2. QED BY <1>1, <1>2, <2>1 DEF ChatsTypes
  <1>10. LimitsNearlyHold' BY <1>8, <1>9 DEF LimitsNearlyHold
  <1>11. QED BY <1>4, <1>10 DEF ChatsInv

LEMMA CountMessagesStep ==
  ASSUME ChatsInv, NEW u \in Clients, NEW c \in Existing, CountMessages(u, c)
  PROVE  ChatsInv'
  <1> DEFINE w == Through("append", c)
  <1>1. /\ doing[u] = NoWrite /\ chats[c] < MaxMessages
        /\ doing' = [doing EXCEPT ![u] = w] /\ UNCHANGED <<chats, started>>
    BY DEF CountMessages, HasRoom
  <1>2. ChatsTypes /\ c \in Nat /\ c =< started /\ chats[c] \in Nat
    BY DEF ChatsInv, ChatsTypes
  <1>3. ChatsTypes' BY <1>1, <1>2 DEF ChatsTypes, Existing, Writes, Through
  <1>4. doing'[u] = w /\ \A k \in Clients \ {u} : doing'[k] = doing[k]
    BY <1>1, <1>2 DEF ChatsTypes
  <1>5. Waiting("start", 0)' = Waiting("start", 0)
    <2>1. doing'[u] # Through("start", 0) BY <1>4 DEF Through
    <2>2. QED BY <1>1, <1>4, <2>1, WaitingStays
  <1>6. \A d \in Existing : chats[d] + Waiting("append", d)' =< MaxMessages + (Cardinality(Clients) - 1)
    <2> SUFFICES ASSUME NEW d \in Existing
                 PROVE  chats[d] + Waiting("append", d)' =< MaxMessages + (Cardinality(Clients) - 1)
      OBVIOUS
    <2>1. CASE d = c
      <3>1. Waiting("append", c)' =< Cardinality(Clients) /\ Waiting("append", c)' \in Nat
            /\ Cardinality(Clients) \in Nat
        <4>1. WaitersOf("append", c)' \in SUBSET Clients BY DEF WaitersOf
        <4>2. Waiting("append", c)' = Cardinality(WaitersOf("append", c)') BY DEF Waiting, WaitersOf
        <4>3. QED BY <4>1, <4>2, ChatsBounds, FS_Subset, FS_CardinalityType
      <3>2. QED BY <1>1, <1>2, <2>1, <3>1, ChatsBounds
    <2>2. CASE d # c
      <3>1. doing'[u] # Through("append", d) BY <1>4, <2>2 DEF Through
      <3>2. Waiting("append", d)' = Waiting("append", d) BY <1>1, <1>4, <3>1, WaitingStays
      <3>3. QED BY <3>2 DEF ChatsInv, LimitsNearlyHold
    <2>3. QED BY <2>1, <2>2
  <1>7. LimitsNearlyHold' BY <1>1, <1>5, <1>6 DEF ChatsInv, LimitsNearlyHold, Existing
  <1>8. QED BY <1>3, <1>7 DEF ChatsInv

LEMMA AppendMessageStep ==
  ASSUME ChatsInv, NEW u \in Clients, AppendMessage(u)
  PROVE  ChatsInv'
  <1> DEFINE c == doing[u].chat
  <1>1. /\ doing[u].kind = "append"
        /\ chats' = [d \in Existing |-> IF d = c THEN chats[d] + 1 ELSE chats[d]]
        /\ doing' = [doing EXCEPT ![u] = NoWrite] /\ started' = started
    BY DEF AppendMessage
  <1>2. ChatsTypes BY DEF ChatsInv
  <1>3. doing[u] = Through("append", c) BY <1>1, <1>2 DEF ChatsTypes, Writes, Through
  <1>4. Existing' = Existing BY <1>1 DEF Existing
  <1>5. ChatsTypes'
    BY <1>1, <1>2, <1>4 DEF ChatsTypes, Writes, NoWrite, Through, Existing
  <1> HIDE DEF c
  <1>6. Waiting("start", 0)' =< Waiting("start", 0) /\ Waiting("start", 0)' \in Nat
    <2>1. Waiting("start", 0)' =< Waiting("start", 0) BY <1>1, <1>2, WaitingFalls DEF ChatsTypes
    <2>2. WaitersOf("start", 0)' \in SUBSET Clients BY DEF WaitersOf
    <2>3. Waiting("start", 0)' = Cardinality(WaitersOf("start", 0)') BY DEF Waiting, WaitersOf
    <2>4. QED BY <2>1, <2>2, <2>3, ChatsBounds, FS_Subset, FS_CardinalityType
  <1>7. \A d \in Existing : chats'[d] + Waiting("append", d)' =< MaxMessages + (Cardinality(Clients) - 1)
    <2> SUFFICES ASSUME NEW d \in Existing
                 PROVE  chats'[d] + Waiting("append", d)' =< MaxMessages + (Cardinality(Clients) - 1)
      OBVIOUS
    <2>1. /\ Waiting("append", d)' =< Waiting("append", d)
          /\ d = c => Waiting("append", d)' = Waiting("append", d) - 1
      <3>1. doing \in [Clients -> Writes] BY <1>2 DEF ChatsTypes
      <3>2. d = c => doing[u] = Through("append", d) BY <1>3
      <3>3. /\ Waiting("append", d)' =< Waiting("append", d)
            /\ doing[u] = Through("append", d) => Waiting("append", d)' = Waiting("append", d) - 1
        BY <1>1, <3>1, WaitingFalls
      <3>4. QED BY <3>2, <3>3
    <2>2. WaitersOf("append", d)' \in SUBSET Clients BY DEF WaitersOf
    <2>3. Waiting("append", d)' = Cardinality(WaitersOf("append", d)') BY DEF Waiting, WaitersOf
    <2>4. Waiting("append", d)' \in Nat /\ Waiting("append", d) \in Nat /\ Cardinality(Clients) \in Nat
      BY <2>2, <2>3, ChatsBounds, WaitingCounts, FS_Subset, FS_CardinalityType
    <2>5. /\ chats[d] \in Nat /\ chats'[d] = IF d = c THEN chats[d] + 1 ELSE chats[d]
      BY <1>1, <1>2 DEF ChatsTypes
    <2>6. chats[d] + Waiting("append", d) =< MaxMessages + (Cardinality(Clients) - 1)
      BY DEF ChatsInv, LimitsNearlyHold
    <2>7. QED BY <2>1, <2>4, <2>5, <2>6, ChatsBounds
  <1>8. Cardinality(Existing)' + Waiting("start", 0)' =< MaxConversations + (Cardinality(Clients) - 1)
    <2>1. Cardinality(Existing)' = Cardinality(Existing) /\ Cardinality(Existing) \in Nat
      BY <1>2, <1>4, ExistingIsFinite
    <2>2. Waiting("start", 0) \in Nat /\ Cardinality(Clients) \in Nat BY WaitingCounts
    <2>3. QED BY <1>6, <2>1, <2>2, ChatsBounds DEF ChatsInv, LimitsNearlyHold
  <1>9. LimitsNearlyHold' BY <1>4, <1>7, <1>8 DEF LimitsNearlyHold
  <1>10. QED BY <1>5, <1>9 DEF ChatsInv

LEMMA DeleteConversationsStep ==
  ASSUME ChatsInv, NEW cs, DeleteConversations(cs)
  PROVE  ChatsInv'
  <1>1. chats' = [c \in Existing \ cs |-> chats[c]] /\ UNCHANGED <<started, doing>>
    BY DEF DeleteConversations
  <1>2. ChatsTypes BY DEF ChatsInv
  <1>3. Existing' = Existing \ cs BY <1>1 DEF Existing
  <1>4. ChatsTypes' BY <1>1, <1>2, <1>3 DEF ChatsTypes, Existing
  <1>5. \A kind, c : Waiting(kind, c)' = Waiting(kind, c) BY <1>1 DEF Waiting, Through
  <1>6. /\ Cardinality(Existing)' =< Cardinality(Existing)
        /\ Cardinality(Existing) \in Nat /\ Cardinality(Existing)' \in Nat
    <2>1. Existing' \in SUBSET Existing BY <1>3
    <2>2. QED BY <1>2, <2>1, ExistingIsFinite, FS_Subset, FS_CardinalityType
  <1>7. \A c \in Existing' : c \in Existing /\ chats'[c] = chats[c] BY <1>1, <1>3
  <1>8. Waiting("start", 0) \in Nat /\ Cardinality(Clients) \in Nat BY WaitingCounts
  <1>9. Cardinality(Existing)' + Waiting("start", 0)' =< MaxConversations + (Cardinality(Clients) - 1)
    BY <1>5, <1>6, <1>8, ChatsBounds DEF ChatsInv, LimitsNearlyHold
  <1>10. LimitsNearlyHold' BY <1>5, <1>7, <1>9 DEF ChatsInv, LimitsNearlyHold
  <1>11. QED BY <1>4, <1>10 DEF ChatsInv

LEMMA ChatsStep == ChatsInv /\ [ChatsNext]_chatsVars => ChatsInv'
  <1> SUFFICES ASSUME ChatsInv, [ChatsNext]_chatsVars PROVE ChatsInv'
    OBVIOUS
  <1>1. CASE ChatsNext
    BY <1>1, CountConversationsStep, CreateConversationStep, CountMessagesStep, AppendMessageStep,
       DeleteConversationsStep
    DEF ChatsNext
  <1>2. CASE UNCHANGED chatsVars
    BY <1>2 DEF chatsVars, ChatsInv, ChatsTypes, LimitsNearlyHold, Existing, Waiting, Through
  <1>3. QED BY <1>1, <1>2

LEMMA ChatsInvariant == ChatsSpec => []ChatsInv
  BY ChatsStart, ChatsStep, PTL DEF ChatsSpec

\* A conversation's id has been given out, and nobody writes to one that has not.
THEOREM ChatsTypeCorrect == ChatsSpec => []ChatsTypeOK
  <1>1. ChatsInv => ChatsTypeOK
    BY ChatsBounds DEF ChatsInv, ChatsTypes, Writes, ChatsTypeOK
  <1>2. QED BY ChatsInvariant, <1>1, PTL

\* However many requests stand between a count and its write, a limit is passed by no more than
\* the others of them.
THEOREM LimitsAreNearlyKept == ChatsSpec => []LimitsNearlyHold
  <1>1. ChatsInv => LimitsNearlyHold BY DEF ChatsInv
  <1>2. QED BY ChatsInvariant, <1>1, PTL

-----------------------------------------------------------------------------
(* RateLimit. *)

LEMMA LimitBounds ==
    /\ PerMinute \in Nat \ {0} /\ DailyMax \in Nat \ {0} /\ Day \in Nat \ {0}
    /\ Minute \in Nat \ {0} /\ Quiet \in Nat /\ Quiet >= Minute
    /\ MaxLimitTime \in Nat /\ MaxRestarts \in Nat
    /\ Full \in Nat /\ Full = PerMinute * Minute
  BY LimitAssumption DEF LimitAssumption, Full

Moments == 0..(MaxLimitTime + 1)
Buckets == [tokens : Nat, last : Nat]

LimitTypes ==
    /\ hour \in Nat /\ hour =< MaxLimitTime /\ restarts \in Nat /\ restarts =< MaxRestarts
    /\ buckets \in [DOMAIN buckets -> Buckets] /\ DOMAIN buckets \subseteq Addresses
    /\ \A a \in DOMAIN buckets : buckets[a].tokens =< Full /\ buckets[a].last =< hour
    /\ swept \in Int /\ today \in [day : Int, calls : Nat] /\ today.calls =< DailyMax
    /\ passed \in [Moments -> [Addresses -> Nat]] /\ passedInAll \in [Moments -> Nat]

\* What an address could call at once, sweep or no sweep.
BucketNow(a) ==
    IF a \in DOMAIN buckets
    THEN Lesser(Full, buckets[a].tokens + (hour - buckets[a].last) * PerMinute)
    ELSE Full

\* Nothing has been let through after now.
GhostsAreCurrent ==
    \A t \in Moments : t > hour =>
        passed[t] = passed[hour + 1] /\ passedInAll[t] = passedInAll[hour + 1]

\* What an address may still call comes out of what it has not called.
RoomIsLeft ==
    \A a \in Addresses, from \in 0..hour :
        Calls(a, from, hour) * Minute + BucketNow(a) =< (1 + restarts) * Full + (hour - from) * PerMinute

\* Nothing comes back to a stretch of time that has passed.
BurstsWere ==
    \A a \in Addresses, from, to \in 0..hour :
        from =< to => Calls(a, from, to) * Minute =< (1 + restarts) * Full + (to - from) * PerMinute

\* The lives before this one had a day's calls each; this one has made those it counts.
TodayCounts ==
    CallsInAll((hour \div Day) * Day, hour) =< restarts * DailyMax + CountToday

DaysWere ==
    \A d \in 0..(hour \div Day) :
        CallsInAll(d * Day, Lesser(hour, d * Day + Day - 1)) =< (1 + restarts) * DailyMax

LimitInv == LimitTypes /\ GhostsAreCurrent /\ RoomIsLeft /\ BurstsWere /\ TodayCounts /\ DaysWere

-----------------------------------------------------------------------------
(* Arithmetic of refills and of days. *)

LEMMA Products ==
  ASSUME NEW x \in Int, NEW y \in Int, NEW z \in Int
  PROVE  /\ x * y \in Int /\ (x + 1) * y = x * y + y /\ (x - z) * y = x * y - z * y
         /\ (x + z) * y = x * y + z * y
         /\ x >= z /\ y >= 0 => x * y >= z * y
  BY SMT

\* The day that `t` falls in.
LEMMA DayOf ==
  ASSUME NEW t \in Nat
  PROVE  LET d == t \div Day IN d \in Nat /\ d * Day \in Nat /\ d * Day =< t /\ t < d * Day + Day
  BY LimitBounds

LEMMA NextDay ==
  ASSUME NEW t \in Nat
  PROVE  LET d == t \div Day
             e == (t + 1) \div Day
         IN e = d \/ (e = d + 1 /\ e * Day = t + 1)
  <1> DEFINE d == t \div Day
             e == (t + 1) \div Day
             D == d * Day
             E == e * Day
  <1>1. /\ d \in Nat /\ D \in Nat /\ D =< t /\ t < D + Day BY DayOf
  <1>2. /\ e \in Nat /\ E \in Nat /\ E =< t + 1 /\ t + 1 < E + Day BY DayOf
  <1>3. Day \in Nat \ {0} BY LimitBounds
  <1>4. e + 1 =< d => E + Day =< D BY <1>1, <1>2, <1>3, Products
  <1>5. d + 2 =< e => D + Day + Day =< E
    <2>1. (d + 2) * Day = D + Day + Day BY <1>1, <1>3
    <2>2. d + 2 =< e => (d + 2) * Day =< E BY <1>1, <1>2, <1>3, Products
    <2>3. QED BY <2>1, <2>2
  <1>6. (d + 1) * Day = D + Day BY <1>1, <1>3, Products
  <1> HIDE DEF d, D, E
  <1>7. e = d \/ e = d + 1 BY <1>1, <1>2, <1>3, <1>4, <1>5
  <1>8. e = d + 1 => E = t + 1 BY <1>1, <1>2, <1>3, <1>6 DEF E
  <1>9. QED BY <1>7, <1>8 DEF d, E

\* An earlier day is over before this one begins.
LEMMA EarlierDay ==
  ASSUME NEW t \in Nat, NEW d \in Nat, d < t \div Day
  PROVE  d * Day \in Nat /\ d * Day + Day =< t /\ Lesser(t, d * Day + Day - 1) = d * Day + Day - 1
  <1> DEFINE e == t \div Day
  <1>1. e \in Nat /\ e * Day \in Nat /\ e * Day =< t BY DayOf
  <1>2. Day \in Nat \ {0} /\ d + 1 =< e BY <1>1, LimitBounds
  <1> HIDE DEF e
  <1>3. (d + 1) * Day = d * Day + Day /\ (d + 1) * Day =< e * Day /\ d * Day \in Nat
    BY <1>1, <1>2, Products
  <1>4. QED BY <1>1, <1>2, <1>3 DEF Lesser

LEMMA TodayIsToday ==
  ASSUME LimitTypes
  PROVE  /\ CountToday \in Nat /\ CountToday =< DailyMax
         /\ Lesser(hour, (hour \div Day) * Day + Day - 1) = hour
  <1>1. CountToday \in Nat /\ CountToday =< DailyMax BY LimitBounds DEF LimitTypes, CountToday
  <1>2. Lesser(hour, (hour \div Day) * Day + Day - 1) = hour
    BY DayOf, LimitBounds DEF LimitTypes, Lesser
  <1>3. QED BY <1>1, <1>2

\* A bucket nobody has touched for so long is full again, so forgetting it gives nothing away.
LEMMA RoomIsRefilled ==
  ASSUME LimitTypes, NEW a \in Addresses
  PROVE  BucketNow(a) = Refilled(a) /\ BucketNow(a) \in Nat /\ BucketNow(a) =< Full
  <1>1. CASE a \notin DOMAIN buckets
    BY <1>1, LimitBounds DEF BucketNow, Refilled, Swept
  <1>2. CASE a \in DOMAIN buckets
    <2> DEFINE n == buckets[a].tokens
               quiet == hour - buckets[a].last
    <2>1. n \in Nat /\ quiet \in Nat BY <1>2 DEF LimitTypes, Buckets
    <2>2. BucketNow(a) = Lesser(Full, n + quiet * PerMinute) BY <1>2 DEF BucketNow
    <2> HIDE DEF n
    <2>3. quiet * PerMinute \in Nat BY <2>1, LimitBounds
    <2>4. BucketNow(a) \in Nat /\ BucketNow(a) =< Full BY <2>1, <2>2, <2>3, LimitBounds DEF Lesser
    <2>5. CASE a \in Swept BY <2>2, <2>4, <2>5 DEF Refilled, n
    <2>6. CASE a \notin Swept
      <3>1. quiet > Quiet BY <1>2, <2>6 DEF Swept, GoneQuiet
      <3>2. quiet >= Minute BY <2>1, <3>1, LimitBounds
      <3>3. quiet * PerMinute >= Minute * PerMinute BY <2>1, <3>2, LimitBounds, Products
      <3>4. Minute * PerMinute = Full BY LimitBounds
      <3>5. BucketNow(a) = Full BY <2>1, <2>2, <2>3, <3>3, <3>4, LimitBounds DEF Lesser
      <3>6. QED BY <2>4, <2>6, <3>5 DEF Refilled
    <2>7. QED BY <2>5, <2>6
  <1>3. QED BY <1>1, <1>2

-----------------------------------------------------------------------------
(* The limiter's steps. *)

LEMMA LimitStart == LimitInit => LimitInv
  <1> SUFFICES ASSUME LimitInit PROVE LimitInv
    OBVIOUS
  <1>1. /\ hour = 0 /\ restarts = 0 /\ DOMAIN buckets = {} /\ swept \in Int
        /\ today = [day |-> -1, calls |-> 0]
        /\ passed = [t \in Moments |-> [a \in Addresses |-> 0]]
        /\ passedInAll = [t \in Moments |-> 0]
        /\ buckets = [a \in {} |-> 0]
    BY LimitBounds DEF LimitInit, Moments
  <1>2. LimitTypes BY <1>1, LimitBounds DEF LimitTypes
  <1>3. 0 \in Moments /\ 1 \in Moments BY LimitBounds DEF Moments
  <1>4. GhostsAreCurrent BY <1>1, <1>3 DEF GhostsAreCurrent
  <1>5. \A a \in Addresses : BucketNow(a) = Full BY <1>1 DEF BucketNow
  <1>6. \A a \in Addresses : Calls(a, 0, 0) = 0 BY <1>1, <1>3 DEF Calls
  <1>7. RoomIsLeft /\ BurstsWere
    <2>1. \A a \in Addresses : Calls(a, 0, 0) * Minute = 0 /\ (0 - 0) * PerMinute = 0
      BY <1>6, LimitBounds
    <2>2. 0..hour = {0} /\ (1 + restarts) * Full = Full BY <1>1, LimitBounds
    <2>3. QED BY <1>1, <1>5, <2>1, <2>2, LimitBounds DEF RoomIsLeft, BurstsWere
  <1>8. hour \div Day = 0 BY <1>1, LimitBounds
  <1>9. CallsInAll(0, 0) = 0 BY <1>1, <1>3 DEF CallsInAll
  <1>10. 0 * Day = 0 /\ Lesser(0, 0 * Day + Day - 1) = 0 BY LimitBounds DEF Lesser
  <1>11. CountToday = 0
    <2>1. today.day # hour \div Day BY <1>1, <1>8
    <2>2. QED BY <2>1 DEF CountToday
  <1>12. TodayCounts BY <1>1, <1>8, <1>9, <1>10, <1>11, LimitBounds DEF TodayCounts
  <1>13. DaysWere
    <2>1. 0..(hour \div Day) = {0} BY <1>8
    <2>2. (1 + restarts) * DailyMax \in Nat BY <1>1, LimitBounds
    <2>3. QED BY <1>1, <1>9, <1>10, <2>1, <2>2 DEF DaysWere
  <1>14. QED BY <1>2, <1>4, <1>7, <1>12, <1>13 DEF LimitInv

\* What a call let through does to the counts.
LEMMA CallIsCounted ==
  ASSUME LimitTypes, GhostsAreCurrent, NEW a \in Addresses, LetThrough(a), hour' = hour
  PROVE  /\ passed' \in [Moments -> [Addresses -> Nat]] /\ passedInAll' \in [Moments -> Nat]
         /\ GhostsAreCurrent'
         /\ \A b \in Addresses, from \in 0..hour :
               Calls(b, from, hour)' = IF b = a THEN Calls(b, from, hour) + 1 ELSE Calls(b, from, hour)
         /\ \A from \in 0..hour : CallsInAll(from, hour)' = CallsInAll(from, hour) + 1
         /\ \A b \in Addresses, from, to \in 0..hour : to < hour => Calls(b, from, to)' = Calls(b, from, to)
         /\ \A from, to \in 0..hour : to < hour => CallsInAll(from, to)' = CallsInAll(from, to)
  <1>1. /\ hour \in Nat /\ hour =< MaxLimitTime
        /\ passed \in [Moments -> [Addresses -> Nat]] /\ passedInAll \in [Moments -> Nat]
    BY DEF LimitTypes
  <1>2. /\ passed' = [t \in Moments |->
                        IF t > hour THEN [passed[t] EXCEPT ![a] = @ + 1] ELSE passed[t]]
        /\ passedInAll' = [t \in Moments |-> IF t > hour THEN passedInAll[t] + 1 ELSE passedInAll[t]]
    BY <1>1 DEF LetThrough
  <1>3. \A t \in Moments, b \in Addresses :
          passed'[t][b] = IF t > hour /\ b = a THEN passed[t][b] + 1 ELSE passed[t][b]
    BY <1>1, <1>2
  <1>4. \A t \in Moments : passedInAll'[t] = IF t > hour THEN passedInAll[t] + 1 ELSE passedInAll[t]
    BY <1>2
  <1>5. \A t \in 0..hour : t \in Moments /\ t + 1 \in Moments /\ ~ (t > hour)
    BY <1>1, LimitBounds DEF Moments
  <1>6. hour + 1 \in Moments /\ hour + 1 > hour /\ hour \in 0..hour BY <1>1, <1>5
  <1>7. passed' \in [Moments -> [Addresses -> Nat]]
    <2>1. \A t \in Moments : [passed[t] EXCEPT ![a] = @ + 1] \in [Addresses -> Nat] BY <1>1
    <2>2. QED BY <1>1, <1>2, <2>1
  <1>8. passedInAll' \in [Moments -> Nat] BY <1>1, <1>2
  <1>9. GhostsAreCurrent'
    BY <1>1, <1>2, <1>6 DEF GhostsAreCurrent
  <1>10. \A b \in Addresses, from \in 0..hour :
            Calls(b, from, hour)' = IF b = a THEN Calls(b, from, hour) + 1 ELSE Calls(b, from, hour)
    <2>1. \A b \in Addresses, from \in 0..hour :
             passed[from][b] \in Nat /\ passed[hour + 1][b] \in Nat
      BY <1>1, <1>5, <1>6
    <2>2. QED BY <1>3, <1>5, <1>6, <2>1 DEF Calls
  <1>11. \A from \in 0..hour : CallsInAll(from, hour)' = CallsInAll(from, hour) + 1
    <2>1. \A from \in 0..hour : passedInAll[from] \in Nat /\ passedInAll[hour + 1] \in Nat
      BY <1>1, <1>5, <1>6
    <2>2. QED BY <1>4, <1>5, <1>6, <2>1 DEF CallsInAll
  <1>12. \A to \in 0..hour : to < hour => to + 1 \in Moments /\ ~ (to + 1 > hour) BY <1>1, <1>5
  <1>13. \A b \in Addresses, from, to \in 0..hour : to < hour => Calls(b, from, to)' = Calls(b, from, to)
    BY <1>3, <1>5, <1>12 DEF Calls
  <1>14. \A from, to \in 0..hour : to < hour => CallsInAll(from, to)' = CallsInAll(from, to)
    BY <1>4, <1>5, <1>12 DEF CallsInAll
  <1>15. QED BY <1>7, <1>8, <1>9, <1>10, <1>11, <1>13, <1>14

\* The counts, whether the call was let through or not.
LEMMA CallIsCountedOrNot ==
  ASSUME LimitTypes, GhostsAreCurrent, NEW a \in Addresses, NEW ok \in BOOLEAN, hour' = hour,
         IF ok THEN LetThrough(a) ELSE UNCHANGED ghosts
  PROVE  LET n == IF ok THEN 1 ELSE 0 IN
         /\ passed' \in [Moments -> [Addresses -> Nat]] /\ passedInAll' \in [Moments -> Nat]
         /\ GhostsAreCurrent'
         /\ \A b \in Addresses, from \in 0..hour :
               Calls(b, from, hour)' = IF b = a THEN Calls(b, from, hour) + n ELSE Calls(b, from, hour)
         /\ \A from \in 0..hour : CallsInAll(from, hour)' = CallsInAll(from, hour) + n
         /\ \A b \in Addresses, from, to \in 0..hour : to < hour => Calls(b, from, to)' = Calls(b, from, to)
         /\ \A from, to \in 0..hour : to < hour => CallsInAll(from, to)' = CallsInAll(from, to)
  <1>1. CASE ok BY <1>1, CallIsCounted
  <1>2. CASE ~ok
    <2>1. passed' = passed /\ passedInAll' = passedInAll BY <1>2 DEF ghosts
    <2>2. /\ hour \in Nat /\ hour =< MaxLimitTime
          /\ passed \in [Moments -> [Addresses -> Nat]] /\ passedInAll \in [Moments -> Nat]
      BY DEF LimitTypes
    <2>3. \A t \in 0..hour : t \in Moments /\ t + 1 \in Moments
      BY <2>2, LimitBounds DEF Moments
    <2>4. hour \in 0..hour BY <2>2
    <2>5. \A b \in Addresses, from, to \in 0..hour :
             /\ Calls(b, from, to)' = Calls(b, from, to) /\ Calls(b, from, to) \in Int
             /\ CallsInAll(from, to)' = CallsInAll(from, to) /\ CallsInAll(from, to) \in Int
      BY <2>1, <2>2, <2>3 DEF Calls, CallsInAll
    <2>6. \A from, to \in 0..hour :
             CallsInAll(from, to)' = CallsInAll(from, to) /\ CallsInAll(from, to) \in Int
      BY <2>1, <2>2, <2>3 DEF CallsInAll
    <2>7. GhostsAreCurrent' BY <2>1 DEF GhostsAreCurrent
    <2>8. QED BY <1>2, <2>1, <2>2, <2>4, <2>5, <2>6, <2>7
  <1>3. QED BY <1>1, <1>2

LEMMA CountsAreNumbers ==
  ASSUME LimitTypes
  PROVE  /\ \A b \in Addresses, from, to \in 0..hour : Calls(b, from, to) \in Int
         /\ \A from, to \in 0..hour : CallsInAll(from, to) \in Int
         /\ \A from, to \in 0..hour : (to - from) * PerMinute \in Int
         /\ (1 + restarts) * Full \in Nat /\ restarts * DailyMax \in Nat
         /\ (1 + restarts) * DailyMax = restarts * DailyMax + DailyMax
  <1>1. /\ hour \in Nat /\ hour =< MaxLimitTime /\ restarts \in Nat
        /\ passed \in [Moments -> [Addresses -> Nat]] /\ passedInAll \in [Moments -> Nat]
    BY DEF LimitTypes
  <1>2. \A t \in 0..hour : t \in Moments /\ t + 1 \in Moments BY <1>1, LimitBounds DEF Moments
  <1>3. \A b \in Addresses, from, to \in 0..hour : Calls(b, from, to) \in Int
    BY <1>1, <1>2 DEF Calls
  <1>4. \A from, to \in 0..hour : CallsInAll(from, to) \in Int
    <2>1. \A t \in 0..hour : passedInAll[t] \in Int /\ passedInAll[t + 1] \in Int BY <1>1, <1>2
    <2>2. QED BY <2>1 DEF CallsInAll
  <1>5. \A from, to \in 0..hour : (to - from) * PerMinute \in Int BY LimitBounds
  <1>6. (1 + restarts) * Full \in Nat /\ restarts * DailyMax \in Nat BY <1>1, LimitBounds
  <1>7. (restarts + 1) * DailyMax = restarts * DailyMax + DailyMax BY <1>1, LimitBounds, Products
  <1>8. 1 + restarts = restarts + 1 BY <1>1
  <1>9. QED BY <1>3, <1>4, <1>5, <1>6, <1>7, <1>8

\* What a question leaves in the buckets.
LEMMA TokensAreTaken ==
  ASSUME LimitTypes, NEW a \in Addresses, Allow(a)
  PROVE  LET ok == Refilled(a) >= Minute IN
         /\ buckets' \in [DOMAIN buckets' -> Buckets] /\ DOMAIN buckets' \subseteq Addresses
         /\ \A b \in DOMAIN buckets' : buckets'[b].tokens =< Full /\ buckets'[b].last =< hour
         /\ BucketNow(a)' = IF ok THEN BucketNow(a) - Minute ELSE BucketNow(a)
         /\ \A b \in Addresses \ {a} : BucketNow(b)' = BucketNow(b)
  <1> DEFINE ok == Refilled(a) >= Minute
             left == IF ok THEN Refilled(a) - Minute ELSE Refilled(a)
  <1>1. /\ hour \in Nat /\ buckets \in [DOMAIN buckets -> Buckets] /\ DOMAIN buckets \subseteq Addresses
        /\ \A b \in DOMAIN buckets : buckets[b].tokens =< Full /\ buckets[b].last =< hour
    BY DEF LimitTypes
  <1>2. Refilled(a) = BucketNow(a) /\ Refilled(a) \in Nat /\ Refilled(a) =< Full BY RoomIsRefilled
  <1>3. left \in Nat /\ left =< Full BY <1>2, LimitBounds
  <1>4. Swept \subseteq DOMAIN buckets BY DEF Swept
  <1>5. buckets' = [b \in Swept \cup {a} |->
                      IF b = a THEN [tokens |-> left, last |-> hour] ELSE buckets[b]]
        /\ hour' = hour
    BY DEF Allow
  <1> HIDE DEF left
  <1>6. DOMAIN buckets' = Swept \cup {a} BY <1>5
  <1>7. buckets'[a] = [tokens |-> left, last |-> hour] BY <1>5
  <1>8. \A b \in Swept \ {a} : buckets'[b] = buckets[b] BY <1>5
  <1>9. [tokens |-> left, last |-> hour] \in Buckets BY <1>1, <1>3 DEF Buckets
  <1>10. \A b \in Swept : buckets[b] \in Buckets BY <1>1, <1>4
  <1>11. buckets' \in [DOMAIN buckets' -> Buckets]
    <2>1. \A b \in Swept \cup {a} :
             (IF b = a THEN [tokens |-> left, last |-> hour] ELSE buckets[b]) \in Buckets
      BY <1>9, <1>10
    <2>2. QED BY <1>5, <1>6, <2>1
  <1>12. \A b \in DOMAIN buckets' : buckets'[b].tokens =< Full /\ buckets'[b].last =< hour
    <2>1. buckets'[a].tokens =< Full /\ buckets'[a].last =< hour BY <1>1, <1>3, <1>7
    <2>2. QED BY <1>1, <1>4, <1>6, <1>8, <2>1
  <1>13. BucketNow(a)' = left
    <2>1. BucketNow(a)' = Lesser(Full, left + (hour - hour) * PerMinute) BY <1>5, <1>6, <1>7 DEF BucketNow
    <2>2. left + (hour - hour) * PerMinute = left BY <1>1, <1>3, LimitBounds
    <2>3. QED BY <1>3, <2>1, <2>2, LimitBounds DEF Lesser
  <1>14. ASSUME NEW b \in Addresses \ {a} PROVE BucketNow(b)' = BucketNow(b)
    <2>1. BucketNow(b) = Refilled(b) BY RoomIsRefilled
    <2>2. CASE b \in Swept BY <1>4, <1>5, <1>6, <1>8, <2>2 DEF BucketNow
    <2>3. CASE b \notin Swept
      <3>1. BucketNow(b)' = Full BY <1>6, <2>3 DEF BucketNow
      <3>2. QED BY <2>1, <2>3, <3>1 DEF Refilled
    <2>4. QED BY <2>2, <2>3
  <1>15. QED BY <1>1, <1>2, <1>4, <1>6, <1>11, <1>12, <1>13, <1>14 DEF left

LEMMA AllowStep ==
  ASSUME LimitInv, NEW a \in Addresses, Allow(a)
  PROVE  LimitInv'
  <1> DEFINE ok == Refilled(a) >= Minute
             n == IF ok THEN 1 ELSE 0
  <1>1. LimitTypes /\ GhostsAreCurrent /\ RoomIsLeft /\ BurstsWere /\ TodayCounts /\ DaysWere
    BY DEF LimitInv
  <1>2. /\ hour \in Nat /\ hour =< MaxLimitTime /\ restarts \in Nat /\ restarts =< MaxRestarts
        /\ swept \in Int
    BY <1>1 DEF LimitTypes
  <1>3. /\ CountToday < DailyMax /\ hour' = hour /\ restarts' = restarts
        /\ swept' = IF hour - swept > Quiet THEN hour ELSE swept
        /\ today' = [day |-> hour \div Day, calls |-> CountToday + n]
        /\ IF ok THEN LetThrough(a) ELSE UNCHANGED ghosts
    BY DEF Allow
  <1>4. CountToday \in Nat /\ CountToday =< DailyMax
        /\ Lesser(hour, (hour \div Day) * Day + Day - 1) = hour
    BY <1>1, TodayIsToday
  <1>5. /\ passed' \in [Moments -> [Addresses -> Nat]] /\ passedInAll' \in [Moments -> Nat]
        /\ GhostsAreCurrent'
        /\ \A b \in Addresses, from \in 0..hour :
              Calls(b, from, hour)' = IF b = a THEN Calls(b, from, hour) + n ELSE Calls(b, from, hour)
        /\ \A from \in 0..hour : CallsInAll(from, hour)' = CallsInAll(from, hour) + n
        /\ \A b \in Addresses, from, to \in 0..hour : to < hour => Calls(b, from, to)' = Calls(b, from, to)
        /\ \A from, to \in 0..hour : to < hour => CallsInAll(from, to)' = CallsInAll(from, to)
    <2>1. ok \in BOOLEAN OBVIOUS
    <2> HIDE DEF ok
    <2>2. QED BY <1>1, <1>3, <2>1, CallIsCountedOrNot
  <1>6. /\ buckets' \in [DOMAIN buckets' -> Buckets] /\ DOMAIN buckets' \subseteq Addresses
        /\ \A b \in DOMAIN buckets' : buckets'[b].tokens =< Full /\ buckets'[b].last =< hour
        /\ BucketNow(a)' = IF ok THEN BucketNow(a) - Minute ELSE BucketNow(a)
        /\ \A b \in Addresses \ {a} : BucketNow(b)' = BucketNow(b)
    BY <1>1, TokensAreTaken
  <1>7. /\ \A b \in Addresses : BucketNow(b) = Refilled(b) /\ BucketNow(b) \in Nat
    BY <1>1, RoomIsRefilled
  <1>8. n \in {0, 1} /\ (n = 1 => BucketNow(a) >= Minute /\ BucketNow(a)' = BucketNow(a) - Minute)
        /\ (n = 0 => BucketNow(a)' = BucketNow(a))
    BY <1>6, <1>7
  <1> HIDE DEF n, ok
  <1>9. /\ \A b \in Addresses, from, to \in 0..hour : Calls(b, from, to) \in Int
        /\ \A from, to \in 0..hour : CallsInAll(from, to) \in Int
        /\ \A from, to \in 0..hour : (to - from) * PerMinute \in Int
        /\ (1 + restarts) * Full \in Nat /\ restarts * DailyMax \in Nat
        /\ (1 + restarts) * DailyMax = restarts * DailyMax + DailyMax
    BY <1>1, CountsAreNumbers
  <1>10. hour \in 0..hour /\ hour \div Day \in Nat /\ (hour \div Day) * Day \in 0..hour
    BY <1>2, DayOf
  <1>11. LimitTypes'
    <2>1. swept' \in Int BY <1>2, <1>3
    <2>2. today' \in [day : Int, calls : Nat] /\ today'.calls =< DailyMax
      BY <1>3, <1>4, <1>8, <1>10, LimitBounds
    <2>3. QED BY <1>2, <1>3, <1>5, <1>6, <2>1, <2>2 DEF LimitTypes
  <1>12. \A b \in Addresses, from \in 0..hour :
            /\ BucketNow(b)' \in Nat
            /\ Calls(b, from, hour)' * Minute + BucketNow(b)' = Calls(b, from, hour) * Minute + BucketNow(b)
    <2> SUFFICES ASSUME NEW b \in Addresses, NEW from \in 0..hour
                 PROVE  /\ BucketNow(b)' \in Nat
                        /\ Calls(b, from, hour)' * Minute + BucketNow(b)'
                             = Calls(b, from, hour) * Minute + BucketNow(b)
      OBVIOUS
    <2> DEFINE c == Calls(b, from, hour)
               d == Calls(b, from, hour)'
               room == BucketNow(b)
               after == BucketNow(b)'
    <2>1. c \in Int /\ room \in Nat /\ Minute \in Nat BY <1>7, <1>9, <1>10, LimitBounds
    <2>2. \/ (d = c /\ after = room)
          \/ (d = c + 1 /\ after = room - Minute /\ room >= Minute)
      BY <1>5, <1>6, <1>8, <2>1
    <2>3. c * Minute \in Int /\ (c + 1) * Minute = c * Minute + Minute BY <2>1, Products
    <2> HIDE DEF c, d, room, after
    <2>4. after \in Nat /\ d * Minute + after = c * Minute + room
      <3>1. CASE d = c /\ after = room BY <2>1, <3>1
      <3>2. CASE d = c + 1 /\ after = room - Minute /\ room >= Minute
        <4>1. d * Minute = c * Minute + Minute BY <2>3, <3>2
        <4>2. QED BY <2>1, <2>3, <3>2, <4>1
      <3>3. QED BY <2>2, <3>1, <3>2
    <2>5. QED BY <2>4 DEF c, d, room, after
  <1>13. RoomIsLeft'
    <2> SUFFICES ASSUME NEW b \in Addresses, NEW from \in 0..hour
                 PROVE  Calls(b, from, hour)' * Minute + BucketNow(b)'
                          =< (1 + restarts) * Full + (hour - from) * PerMinute
      BY <1>3 DEF RoomIsLeft, Calls
    <2>1. QED BY <1>1, <1>12 DEF RoomIsLeft
  <1>14. BurstsWere'
    <2> SUFFICES ASSUME NEW b \in Addresses, NEW from \in 0..hour, NEW to \in 0..hour, from =< to
                 PROVE  Calls(b, from, to)' * Minute =< (1 + restarts) * Full + (to - from) * PerMinute
      BY <1>3 DEF BurstsWere, Calls
    <2>1. CASE to = hour
      <3> DEFINE d == Calls(b, from, hour)' * Minute
                 m == (1 + restarts) * Full + (hour - from) * PerMinute
      <3>1. d + BucketNow(b)' =< m BY <1>1, <1>12 DEF RoomIsLeft
      <3>2. Calls(b, from, hour)' \in Int /\ m \in Int
        <4>1. Calls(b, from, hour) \in Int /\ (hour - from) * PerMinute \in Int BY <1>9, <1>10
        <4>2. QED BY <1>5, <1>8, <1>9, <4>1
      <3>3. d \in Int /\ BucketNow(b)' \in Nat BY <1>12, <3>2, LimitBounds
      <3>4. d =< m
        <4> HIDE DEF d, m
        <4>1. QED BY <3>1, <3>2, <3>3
      <3>5. Calls(b, from, to)' = Calls(b, from, hour)' BY <1>3, <2>1 DEF Calls
      <3>6. QED BY <2>1, <3>4, <3>5
    <2>2. CASE to # hour
      <3>1. to < hour BY <1>2, <2>2
      <3>2. QED BY <1>1, <1>5, <3>1 DEF BurstsWere
    <2>3. QED BY <2>1, <2>2
  <1>15. CountToday' = CountToday + n BY <1>3 DEF CountToday
  <1>16. CallsInAll((hour \div Day) * Day, hour)' =< restarts * DailyMax + CountToday'
         /\ CallsInAll((hour \div Day) * Day, hour)' \in Int
    <2>1. PICK from \in 0..hour : from = (hour \div Day) * Day BY <1>10
    <2>2. CallsInAll(from, hour) \in Int /\ CallsInAll(from, hour) =< restarts * DailyMax + CountToday
      BY <1>1, <1>9, <1>10, <2>1 DEF TodayCounts
    <2>3. CallsInAll(from, hour)' = CallsInAll(from, hour) + n BY <1>5
    <2>4. CallsInAll((hour \div Day) * Day, hour)' = CallsInAll(from, hour)'
      BY <1>3, <2>1 DEF CallsInAll
    <2>5. QED BY <1>4, <1>8, <1>9, <1>15, <2>2, <2>3, <2>4
  <1>17. TodayCounts' BY <1>3, <1>16 DEF TodayCounts, CallsInAll
  <1>18. DaysWere'
    <2> SUFFICES ASSUME NEW d \in 0..(hour \div Day)
                 PROVE  CallsInAll(d * Day, Lesser(hour, d * Day + Day - 1))'
                          =< (1 + restarts) * DailyMax
      BY <1>3 DEF DaysWere, CallsInAll, Lesser
    <2>1. CASE d = hour \div Day
      <3>1. CountToday' \in Nat /\ CountToday' =< DailyMax
        BY <1>3, <1>4, <1>8, <1>15, LimitBounds
      <3>2. CallsInAll((hour \div Day) * Day, hour)' =< (1 + restarts) * DailyMax
        BY <1>9, <1>16, <3>1, LimitBounds
      <3>3. QED BY <1>3, <1>4, <2>1, <3>2 DEF CallsInAll
    <2>2. CASE d # hour \div Day
      <3>1. d \in Nat /\ d < hour \div Day BY <1>10, <2>2
      <3>2. d * Day \in Nat /\ d * Day + Day =< hour
            /\ Lesser(hour, d * Day + Day - 1) = d * Day + Day - 1
        BY <1>2, <3>1, EarlierDay
      <3>3. d * Day \in 0..hour /\ d * Day + Day - 1 \in 0..hour /\ d * Day + Day - 1 < hour
        BY <1>2, <3>2, LimitBounds
      <3>4. CallsInAll(d * Day, d * Day + Day - 1)' = CallsInAll(d * Day, d * Day + Day - 1)
        BY <1>5, <3>3
      <3>5. CallsInAll(d * Day, d * Day + Day - 1) =< (1 + restarts) * DailyMax
        BY <1>1, <3>2 DEF DaysWere
      <3>6. QED BY <1>3, <3>2, <3>4, <3>5 DEF CallsInAll
    <2>3. QED BY <2>1, <2>2
  <1>19. QED BY <1>5, <1>11, <1>13, <1>14, <1>17, <1>18 DEF LimitInv

LEMMA RefuseStep ==
  ASSUME LimitInv, RefuseForToday
  PROVE  LimitInv'
  <1>1. LimitTypes /\ GhostsAreCurrent /\ RoomIsLeft /\ BurstsWere /\ TodayCounts /\ DaysWere
    BY DEF LimitInv
  <1>2. CountToday \in Nat /\ CountToday =< DailyMax BY <1>1, TodayIsToday
  <1>3. /\ hour' = hour /\ buckets' = buckets /\ swept' = swept /\ restarts' = restarts
        /\ passed' = passed /\ passedInAll' = passedInAll
        /\ today' = [day |-> hour \div Day, calls |-> CountToday]
    BY DEF RefuseForToday, ghosts
  <1>4. hour \div Day \in Int BY <1>1, DayOf DEF LimitTypes
  <1>5. today' \in [day : Int, calls : Nat] /\ today'.calls =< DailyMax BY <1>2, <1>3, <1>4
  <1>6. LimitTypes' BY <1>1, <1>3, <1>5 DEF LimitTypes
  <1>7. GhostsAreCurrent' BY <1>1, <1>3 DEF GhostsAreCurrent
  <1>8. RoomIsLeft' BY <1>1, <1>3 DEF RoomIsLeft, BucketNow, Calls
  <1>9. BurstsWere' BY <1>1, <1>3 DEF BurstsWere, Calls
  <1>10. CountToday' = CountToday BY <1>3 DEF CountToday
  <1>11. TodayCounts' BY <1>1, <1>3, <1>10 DEF TodayCounts, CallsInAll
  <1>12. DaysWere' BY <1>1, <1>3 DEF DaysWere, CallsInAll, Lesser
  <1>13. QED BY <1>6, <1>7, <1>8, <1>9, <1>11, <1>12 DEF LimitInv

LEMMA TickStep ==
  ASSUME LimitInv, LimitTicks
  PROVE  LimitInv'
  <1>1. LimitTypes /\ GhostsAreCurrent /\ RoomIsLeft /\ BurstsWere /\ TodayCounts /\ DaysWere
    BY DEF LimitInv
  <1>2. /\ hour \in Nat /\ restarts \in Nat /\ hour < MaxLimitTime
        /\ buckets \in [DOMAIN buckets -> Buckets]
        /\ \A b \in DOMAIN buckets : buckets[b].tokens =< Full /\ buckets[b].last =< hour
        /\ passed \in [Moments -> [Addresses -> Nat]] /\ passedInAll \in [Moments -> Nat]
    BY <1>1 DEF LimitTypes, LimitTicks
  <1>3. /\ hour' = hour + 1 /\ buckets' = buckets /\ swept' = swept /\ restarts' = restarts
        /\ passed' = passed /\ passedInAll' = passedInAll /\ today' = today
    BY DEF LimitTicks, ghosts
  <1>4. /\ hour + 1 \in Moments /\ hour + 2 \in Moments
        /\ \A t \in 0..(hour + 1) : t \in Moments /\ t + 1 \in Moments
    <2>1. MaxLimitTime \in Nat BY LimitBounds
    <2>2. QED BY <1>2, <2>1 DEF Moments
  <1>5. passed[hour + 2] = passed[hour + 1] /\ passedInAll[hour + 2] = passedInAll[hour + 1]
    BY <1>1, <1>2, <1>4 DEF GhostsAreCurrent
  <1>6. LimitTypes'
    <2>1. \A b \in DOMAIN buckets : buckets[b].last \in Nat BY <1>2 DEF Buckets
    <2>2. \A b \in DOMAIN buckets : buckets[b].last =< hour + 1 BY <1>2, <2>1
    <2>3. QED BY <1>1, <1>2, <1>3, <2>2, LimitBounds DEF LimitTypes
  <1>7. GhostsAreCurrent'
    <2>1. \A t \in Moments : t > hour + 1 => t > hour BY <1>2, LimitBounds DEF Moments
    <2>2. (hour + 1) + 1 = hour + 2 BY <1>2
    <2>3. QED BY <1>1, <1>3, <1>5, <2>1, <2>2 DEF GhostsAreCurrent
  <1>8. /\ \A b \in Addresses, from \in 0..hour : Calls(b, from, hour)' = Calls(b, from, hour)
        /\ \A b \in Addresses : Calls(b, hour, hour)' = 0
        /\ \A from \in 0..hour : CallsInAll(from, hour)' = CallsInAll(from, hour)
        /\ CallsInAll(hour, hour)' = 0
    <2>1. hour' + 1 = hour + 2 BY <1>2, <1>3
    <2>2. passed[hour + 1] \in [Addresses -> Nat] /\ passedInAll[hour + 1] \in Nat BY <1>2, <1>4
    <2>3. \A b \in Addresses : passed[hour + 1][b] - passed[hour + 1][b] = 0 BY <2>2
    <2>4. passedInAll[hour + 1] - passedInAll[hour + 1] = 0 BY <2>2
    <2>5. QED BY <1>3, <1>5, <2>1, <2>3, <2>4 DEF Calls, CallsInAll
  <1>9. /\ \A b \in Addresses, from, to \in 0..hour : Calls(b, from, to)' = Calls(b, from, to)
        /\ \A from, to \in 0..hour : CallsInAll(from, to)' = CallsInAll(from, to)
    BY <1>3 DEF Calls, CallsInAll
  <1>10. /\ \A b \in Addresses, from, to \in 0..hour : Calls(b, from, to) \in Int
         /\ \A from, to \in 0..hour : CallsInAll(from, to) \in Int
         /\ \A from, to \in 0..hour : (to - from) * PerMinute \in Int
         /\ (1 + restarts) * Full \in Nat /\ restarts * DailyMax \in Nat
         /\ (1 + restarts) * DailyMax = restarts * DailyMax + DailyMax
    BY <1>1, CountsAreNumbers
  <1>11. (1 + restarts) * Full >= Full
    <2>1. (restarts + 1) * Full = restarts * Full + Full /\ restarts * Full \in Nat
      BY <1>2, LimitBounds, Products
    <2>2. 1 + restarts = restarts + 1 BY <1>2
    <2>3. QED BY <2>1, <2>2, LimitBounds
  <1>12. ASSUME NEW b \in Addresses
         PROVE  BucketNow(b) \in Nat /\ BucketNow(b)' \in Nat /\ BucketNow(b)' =< Full /\ BucketNow(b)' =< BucketNow(b) + PerMinute
    <2>1. BucketNow(b) \in Nat /\ BucketNow(b) =< Full BY <1>1, RoomIsRefilled
    <2>2. CASE b \notin DOMAIN buckets BY <1>3, <2>1, <2>2, LimitBounds DEF BucketNow
    <2>3. CASE b \in DOMAIN buckets
      <3> DEFINE had == buckets[b].tokens
                 quiet == hour - buckets[b].last
      <3>1. had \in Nat /\ quiet \in Nat /\ buckets[b].last \in Nat BY <1>2, <2>3 DEF Buckets
      <3>2. BucketNow(b) = Lesser(Full, had + quiet * PerMinute) BY <2>3 DEF BucketNow
      <3>3. BucketNow(b)' = Lesser(Full, had + (quiet + 1) * PerMinute)
        <4>1. hour' - buckets'[b].last = quiet + 1
          <5>1. PICK last \in Nat : last = buckets[b].last BY <3>1
          <5>2. hour' - buckets'[b].last = (hour + 1) - last /\ quiet = hour - last BY <1>3, <5>1
          <5>3. hour \in Nat BY <1>2
          <5>4. (hour + 1) - last = (hour - last) + 1 BY <5>3
          <5>5. QED BY <5>2, <5>4
        <4>2. BucketNow(b)' = Lesser(Full, buckets'[b].tokens + (hour' - buckets'[b].last) * PerMinute)
          BY <1>3, <2>3 DEF BucketNow, Lesser
        <4>3. QED BY <1>3, <4>1, <4>2
      <3>4. (quiet + 1) * PerMinute = quiet * PerMinute + PerMinute /\ quiet * PerMinute \in Nat
        BY <3>1, LimitBounds, Products
      <3> HIDE DEF had, quiet
      <3>5. QED BY <3>1, <3>2, <3>3, <3>4, LimitBounds DEF Lesser
    <2>4. QED BY <2>2, <2>3
  <1>13. ASSUME NEW b \in Addresses, NEW from \in 0..(hour + 1)
         PROVE  /\ Calls(b, from, hour)' \in Int
                /\ Calls(b, from, hour)' * Minute + BucketNow(b)'
                     =< (1 + restarts) * Full + ((hour + 1) - from) * PerMinute
    <2>1. BucketNow(b) \in Nat /\ BucketNow(b)' \in Nat /\ BucketNow(b)' =< Full /\ BucketNow(b)' =< BucketNow(b) + PerMinute
      BY <1>12
    <2>2. CASE from \in 0..hour
      <3>1. Calls(b, from, hour) * Minute + BucketNow(b) =< (1 + restarts) * Full + (hour - from) * PerMinute
        BY <1>1, <2>2 DEF RoomIsLeft
      <3>2. Calls(b, from, hour) \in Int /\ Calls(b, from, hour)' = Calls(b, from, hour)
        BY <1>2, <1>8, <1>10, <2>2
      <3>3. ((hour - from) + 1) * PerMinute = (hour - from) * PerMinute + PerMinute
            /\ (hour - from) * PerMinute \in Int
        <4>1. hour - from \in Int BY <1>2, <2>2
        <4>2. QED BY <4>1, LimitBounds, Products
      <3>4. (hour + 1) - from = (hour - from) + 1 BY <1>2, <2>2
      <3>5. Calls(b, from, hour) * Minute \in Int BY <3>2, LimitBounds
      <3>6. QED BY <1>10, <2>1, <3>1, <3>2, <3>3, <3>4, <3>5, LimitBounds
    <2>3. CASE from = hour + 1
      <3>1. Calls(b, from, hour)' = 0
        <4>1. Calls(b, from, hour)' = Calls(b, hour, hour)' BY <1>3, <2>3 DEF Calls
        <4>2. QED BY <1>8, <4>1
      <3>2. ((hour + 1) - from) * PerMinute = 0 /\ 0 * Minute = 0 BY <1>2, <2>3, LimitBounds
      <3>3. QED BY <1>10, <1>11, <2>1, <3>1, <3>2, LimitBounds
    <2>4. QED BY <1>2, <2>2, <2>3
  <1>14. RoomIsLeft'
    <2> SUFFICES ASSUME NEW b \in Addresses, NEW from \in 0..hour'
                 PROVE  Calls(b, from, hour)' * Minute + BucketNow(b)'
                          =< (1 + restarts') * Full + (hour' - from) * PerMinute
      BY DEF RoomIsLeft
    <2>1. QED BY <1>3, <1>13
  <1>15. BurstsWere'
    <2> SUFFICES ASSUME NEW b \in Addresses, NEW from \in 0..(hour + 1), NEW to \in 0..(hour + 1),
                        from =< to
                 PROVE  Calls(b, from, to)' * Minute =< (1 + restarts) * Full + (to - from) * PerMinute
      BY <1>3 DEF BurstsWere, Calls
    <2>1. CASE to = hour + 1
      <3> DEFINE d == Calls(b, from, hour)' * Minute
                 m == (1 + restarts) * Full + ((hour + 1) - from) * PerMinute
      <3>1. d + BucketNow(b)' =< m /\ Calls(b, from, hour)' \in Int BY <1>13
      <3>2. m \in Int
        <4>1. ((hour + 1) - from) * PerMinute \in Int BY <1>2, LimitBounds
        <4>2. QED BY <1>10, <4>1
      <3>3. d \in Int /\ BucketNow(b)' \in Nat BY <1>12, <3>1, LimitBounds
      <3>4. d =< m
        <4> HIDE DEF d, m
        <4>1. QED BY <3>1, <3>2, <3>3
      <3>5. Calls(b, from, to)' = Calls(b, from, hour)' BY <1>3, <2>1 DEF Calls
      <3>6. (hour + 1) - from = to - from BY <2>1
      <3>7. d =< (1 + restarts) * Full + (to - from) * PerMinute BY <3>4, <3>6
      <3>8. QED BY <3>5, <3>7
    <2>2. CASE to # hour + 1
      <3>1. from \in 0..hour /\ to \in 0..hour BY <1>2, <2>2
      <3>2. QED BY <1>1, <1>9, <3>1 DEF BurstsWere
    <2>3. QED BY <2>1, <2>2
  <1>16. LimitTypes' => CountToday' \in Nat /\ CountToday' =< DailyMax
    BY LimitBounds DEF LimitTypes, CountToday
  <1>17. TodayCounts'
    <2> DEFINE d == hour \div Day
               e == (hour + 1) \div Day
    <2>1. e = d \/ (e = d + 1 /\ e * Day = hour + 1) BY <1>2, NextDay
    <2>2. d * Day \in 0..hour BY <1>2, DayOf
    <2>3. CASE e = d
      <3>1. CountToday' = CountToday BY <1>3, <2>3 DEF CountToday
      <3>2. CallsInAll(d * Day, hour) =< restarts * DailyMax + CountToday BY <1>1 DEF TodayCounts
      <3>3. passedInAll'[hour' + 1] - passedInAll'[d * Day] = CallsInAll(d * Day, hour)
        <4>1. hour' + 1 = hour + 2 BY <1>2, <1>3
        <4>2. QED BY <1>3, <1>5, <4>1 DEF CallsInAll
      <3>4. QED BY <1>3, <2>3, <3>1, <3>2, <3>3 DEF TodayCounts, CallsInAll
    <2>4. CASE e = d + 1 /\ e * Day = hour + 1
      <3>1. CallsInAll((hour \div Day) * Day, hour)' = CallsInAll(hour, hour)'
        BY <1>3, <2>4 DEF CallsInAll
      <3>2. QED BY <1>3, <1>6, <1>8, <1>10, <1>16, <3>1 DEF TodayCounts
    <2>5. QED BY <2>1, <2>3, <2>4
  <1>18. DaysWere'
    <2> SUFFICES ASSUME NEW d \in 0..((hour + 1) \div Day)
                 PROVE  passedInAll'[Lesser(hour + 1, d * Day + Day - 1) + 1] - passedInAll'[d * Day]
                          =< (1 + restarts) * DailyMax
      BY <1>3 DEF DaysWere, CallsInAll, Lesser
    <2>1. hour + 1 \in Nat /\ (hour + 1) \div Day \in Nat BY <1>2, DayOf
    <2>2. CASE d = (hour + 1) \div Day
      <3>1. Lesser(hour + 1, d * Day + Day - 1) = hour + 1
        <4>1. d * Day \in Nat /\ hour + 1 < d * Day + Day BY <2>1, <2>2, DayOf
        <4>2. QED BY <1>2, <4>1, LimitBounds DEF Lesser
      <3>2. CallsInAll((hour \div Day) * Day, hour)' =< restarts * DailyMax + CountToday'
        BY <1>3, <1>17 DEF TodayCounts
      <3>3. CallsInAll((hour \div Day) * Day, hour)'
              = passedInAll'[Lesser(hour + 1, d * Day + Day - 1) + 1] - passedInAll'[d * Day]
        BY <1>3, <2>2, <3>1 DEF CallsInAll
      <3>4. passedInAll'[Lesser(hour + 1, d * Day + Day - 1) + 1] - passedInAll'[d * Day] \in Int
        <4>1. d * Day \in Moments /\ hour + 2 \in Moments /\ (hour + 1) + 1 = hour + 2
          <5>1. d * Day \in Nat /\ d * Day =< hour + 1 BY <2>1, <2>2, DayOf
          <5>2. d * Day \in 0..(hour + 1) BY <1>2, <5>1
          <5>3. QED BY <1>2, <1>4, <5>2
        <4>2. passedInAll[d * Day] \in Nat /\ passedInAll[hour + 2] \in Nat BY <1>2, <4>1
        <4>3. QED BY <1>3, <3>1, <4>1, <4>2
      <3>5. CountToday' \in Nat /\ CountToday' =< DailyMax BY <1>6, <1>16
      <3> DEFINE calls == passedInAll'[Lesser(hour + 1, d * Day + Day - 1) + 1] - passedInAll'[d * Day]
      <3>6. calls \in Int /\ calls =< restarts * DailyMax + CountToday' BY <3>2, <3>3, <3>4
      <3> HIDE DEF calls
      <3>7. calls =< (1 + restarts) * DailyMax BY <1>10, <3>5, <3>6, LimitBounds
      <3>8. QED BY <3>7 DEF calls
    <2>3. CASE d # (hour + 1) \div Day
      <3>1. d \in Nat /\ d < (hour + 1) \div Day BY <2>1, <2>3
      <3> DEFINE end == d * Day + Day - 1
      <3>2. d * Day \in Nat /\ d * Day + Day =< hour + 1 /\ Lesser(hour + 1, end) = end
        BY <2>1, <3>1, EarlierDay
      <3>3. end \in 0..hour /\ d * Day \in 0..hour BY <1>2, <3>2, LimitBounds
      <3>4. Lesser(hour, end) = end
        <4>1. PICK e \in 0..hour : e = end BY <3>3
        <4>2. hour \in Nat BY <1>2
        <4>3. Lesser(hour, e) = e BY <4>2 DEF Lesser
        <4>4. QED BY <4>1, <4>3
      <3>5. d \in 0..(hour \div Day)
        <4>1. hour \div Day \in Nat BY <1>2, DayOf
        <4>2. (hour + 1) \div Day = hour \div Day \/ (hour + 1) \div Day = hour \div Day + 1
          BY <1>2, NextDay
        <4>3. QED BY <3>1, <4>1, <4>2
      <3>6. CallsInAll(d * Day, end) =< (1 + restarts) * DailyMax BY <1>1, <3>4, <3>5 DEF DaysWere
      <3>7. QED BY <1>3, <3>2, <3>6 DEF CallsInAll
    <2>4. QED BY <2>2, <2>3
  <1>19. QED BY <1>6, <1>7, <1>14, <1>15, <1>17, <1>18 DEF LimitInv

\* A new life of the process gives everyone a full bucket, and a day's calls, once more.
LEMMA RestartStep ==
  ASSUME LimitInv, Restart
  PROVE  LimitInv'
  <1>1. LimitTypes /\ GhostsAreCurrent /\ RoomIsLeft /\ BurstsWere /\ TodayCounts /\ DaysWere
    BY DEF LimitInv
  <1>2. /\ hour \in Nat /\ restarts \in Nat /\ restarts < MaxRestarts
    BY <1>1 DEF LimitTypes, Restart
  <1>3. /\ hour' = hour /\ restarts' = restarts + 1 /\ passed' = passed /\ passedInAll' = passedInAll
        /\ buckets' = [b \in {} |-> 0] /\ DOMAIN buckets' = {}
        /\ swept' = -(Quiet + 1) /\ today' = [day |-> -1, calls |-> 0]
    BY DEF Restart, Emptied, ghosts
  <1>4. /\ \A b \in Addresses, from, to \in 0..hour : Calls(b, from, to) \in Int
        /\ \A from, to \in 0..hour : CallsInAll(from, to) \in Int
        /\ \A from, to \in 0..hour : (to - from) * PerMinute \in Int
        /\ (1 + restarts) * Full \in Nat /\ restarts * DailyMax \in Nat
        /\ (1 + restarts) * DailyMax = restarts * DailyMax + DailyMax
    BY <1>1, CountsAreNumbers
  <1>5. CountToday \in Nat /\ CountToday =< DailyMax BY <1>1, TodayIsToday
  <1>6. (1 + restarts') * Full = (1 + restarts) * Full + Full
        /\ (1 + restarts') * DailyMax = (1 + restarts) * DailyMax + DailyMax
    <2>1. 1 + restarts' = (1 + restarts) + 1 BY <1>2, <1>3
    <2>2. (1 + restarts) \in Int BY <1>2
    <2>3. QED BY <2>1, <2>2, LimitBounds, Products
  <1>7. hour \div Day \in Nat /\ (hour \div Day) * Day \in 0..hour /\ hour \in 0..hour
    BY <1>2, DayOf
  <1>8. LimitTypes'
    <2>1. swept' \in Int /\ today' \in [day : Int, calls : Nat] /\ today'.calls =< DailyMax
      BY <1>3, LimitBounds
    <2>2. buckets' \in [DOMAIN buckets' -> Buckets] /\ DOMAIN buckets' \subseteq Addresses BY <1>3
    <2>3. \A b \in DOMAIN buckets' : buckets'[b].tokens =< Full /\ buckets'[b].last =< hour' BY <1>3
    <2>4. restarts' \in Nat /\ restarts' =< MaxRestarts BY <1>2, <1>3, LimitBounds
    <2>5. hour' \in Nat /\ hour' =< MaxLimitTime BY <1>1, <1>3 DEF LimitTypes
    <2>6. passed' \in [Moments -> [Addresses -> Nat]] /\ passedInAll' \in [Moments -> Nat]
      BY <1>1, <1>3 DEF LimitTypes
    <2>7. QED BY <2>1, <2>2, <2>3, <2>4, <2>5, <2>6 DEF LimitTypes
  <1>9. GhostsAreCurrent' BY <1>1, <1>3 DEF GhostsAreCurrent
  <1>10. \A b \in Addresses : BucketNow(b)' = Full BY <1>3 DEF BucketNow
  <1>11. RoomIsLeft'
    <2> SUFFICES ASSUME NEW b \in Addresses, NEW from \in 0..hour
                 PROVE  Calls(b, from, hour) * Minute + Full
                          =< (1 + restarts') * Full + (hour - from) * PerMinute
      BY <1>3, <1>10 DEF RoomIsLeft, Calls
    <2>1. Calls(b, from, hour) * Minute + BucketNow(b) =< (1 + restarts) * Full + (hour - from) * PerMinute
      BY <1>1 DEF RoomIsLeft
    <2>2. BucketNow(b) \in Nat BY <1>1, RoomIsRefilled
    <2>3. Calls(b, from, hour) \in Int /\ (hour - from) * PerMinute \in Int BY <1>4, <1>7
    <2>4. Calls(b, from, hour) * Minute \in Int BY <2>3, LimitBounds
    <2>5. QED BY <1>4, <1>6, <2>1, <2>2, <2>3, <2>4, LimitBounds
  <1>12. BurstsWere'
    <2> SUFFICES ASSUME NEW b \in Addresses, NEW from \in 0..hour, NEW to \in 0..hour, from =< to
                 PROVE  Calls(b, from, to) * Minute =< (1 + restarts') * Full + (to - from) * PerMinute
      BY <1>3 DEF BurstsWere, Calls
    <2>1. Calls(b, from, to) * Minute =< (1 + restarts) * Full + (to - from) * PerMinute
      BY <1>1 DEF BurstsWere
    <2>2. Calls(b, from, to) \in Int /\ (to - from) * PerMinute \in Int BY <1>4
    <2>3. Calls(b, from, to) * Minute \in Int BY <2>2, LimitBounds
    <2>4. QED BY <1>4, <1>6, <2>1, <2>2, <2>3, LimitBounds
  <1>13. TodayCounts'
    <2>1. CallsInAll((hour \div Day) * Day, hour)' = CallsInAll((hour \div Day) * Day, hour)
      BY <1>3 DEF CallsInAll
    <2>2. CallsInAll((hour \div Day) * Day, hour) =< restarts * DailyMax + CountToday
          /\ CallsInAll((hour \div Day) * Day, hour) \in Int
      BY <1>1, <1>4, <1>7 DEF TodayCounts
    <2>3. CountToday' = 0 BY <1>3, <1>7 DEF CountToday
    <2>4. restarts' * DailyMax = restarts * DailyMax + DailyMax BY <1>2, <1>3, LimitBounds, Products
    <2>5. QED BY <1>4, <1>5, <2>1, <2>2, <2>3, <2>4, LimitBounds DEF TodayCounts
  <1>14. DaysWere'
    <2> SUFFICES ASSUME NEW d \in 0..(hour \div Day)
                 PROVE  CallsInAll(d * Day, Lesser(hour, d * Day + Day - 1)) =< (1 + restarts') * DailyMax
      BY <1>3 DEF DaysWere, CallsInAll, Lesser
    <2>1. CallsInAll(d * Day, Lesser(hour, d * Day + Day - 1)) =< (1 + restarts) * DailyMax
      BY <1>1 DEF DaysWere
    <2>2. d * Day \in 0..hour /\ Lesser(hour, d * Day + Day - 1) \in 0..hour
      <3>1. CASE d = hour \div Day BY <1>1, <1>7, <3>1, TodayIsToday
      <3>2. CASE d # hour \div Day
        <4>1. d \in Nat /\ d < hour \div Day BY <1>7, <3>2
        <4>2. d * Day \in Nat /\ d * Day + Day =< hour
              /\ Lesser(hour, d * Day + Day - 1) = d * Day + Day - 1
          BY <1>2, <4>1, EarlierDay
        <4>3. QED BY <1>2, <4>2, LimitBounds
      <3>3. QED BY <3>1, <3>2
    <2>3. CallsInAll(d * Day, Lesser(hour, d * Day + Day - 1)) \in Int BY <1>4, <2>2
    <2>4. QED BY <1>4, <1>6, <2>1, <2>3, LimitBounds
  <1>15. QED BY <1>8, <1>9, <1>11, <1>12, <1>13, <1>14 DEF LimitInv

LEMMA LimitStep == LimitInv /\ [LimitNext]_limitVars => LimitInv'
  <1> SUFFICES ASSUME LimitInv, [LimitNext]_limitVars PROVE LimitInv'
    OBVIOUS
  <1>1. ASSUME NEW a \in Addresses, Allow(a) PROVE LimitInv' BY <1>1, AllowStep
  <1>2. CASE RefuseForToday BY <1>2, RefuseStep
  <1>3. CASE LimitTicks BY <1>3, TickStep
  <1>4. CASE Restart BY <1>4, RestartStep
  <1>5. CASE UNCHANGED limitVars
    <2>1. /\ hour' = hour /\ buckets' = buckets /\ swept' = swept /\ restarts' = restarts
          /\ passed' = passed /\ passedInAll' = passedInAll /\ today' = today
      BY <1>5 DEF limitVars, ghosts
    <2>2. LimitTypes' /\ GhostsAreCurrent' BY <2>1 DEF LimitInv, LimitTypes, GhostsAreCurrent
    <2>3. RoomIsLeft' /\ BurstsWere' BY <2>1 DEF LimitInv, RoomIsLeft, BurstsWere, BucketNow, Calls
    <2>4. TodayCounts' /\ DaysWere'
      BY <2>1 DEF LimitInv, TodayCounts, DaysWere, CallsInAll, CountToday, Lesser
    <2>5. QED BY <2>2, <2>3, <2>4 DEF LimitInv
  <1>6. QED BY <1>1, <1>2, <1>3, <1>4, <1>5 DEF LimitNext

LEMMA LimitInvariant == LimitSpec => []LimitInv
  <1>1. QED BY LimitStart, LimitStep, PTL DEF LimitSpec

\* The limiter's state keeps its types: no bucket above its rim, none counted in the future, and no
\* day's count above the ceiling.
THEOREM LimitTypeCorrect == LimitSpec => []LimitTypeOK
  <1>1. LimitInv => LimitTypeOK
    <2> SUFFICES ASSUME LimitInv PROVE LimitTypeOK
      OBVIOUS
    <2>1. LimitTypes BY DEF LimitInv
    <2>2. \A a \in DOMAIN buckets : buckets[a] \in [tokens : 0..Full, last : 0..hour]
      <3> SUFFICES ASSUME NEW a \in DOMAIN buckets
                   PROVE  buckets[a] \in [tokens : 0..Full, last : 0..hour]
        OBVIOUS
      <3>1. buckets[a] \in Buckets /\ buckets[a].tokens =< Full /\ buckets[a].last =< hour
            /\ hour \in Nat
        BY <2>1 DEF LimitTypes
      <3>2. QED BY <3>1, LimitBounds DEF Buckets
    <2>3. hour \in 0..MaxLimitTime /\ restarts \in 0..MaxRestarts BY <2>1, LimitBounds DEF LimitTypes
    <2>4. today.calls \in 0..DailyMax /\ DOMAIN buckets \subseteq Addresses
      BY <2>1, LimitBounds DEF LimitTypes
    <2>5. QED BY <2>2, <2>3, <2>4 DEF LimitTypeOK
  <1>2. QED BY LimitInvariant, <1>1, PTL

\* However calls, sweeps and restarts interleave, a stretch of time lets an address through no more
\* than its buckets held and what refilled, and a day no more than its ceiling for each life.
THEOREM BurstsAreBounded == LimitSpec => []BurstBounded
  <1>1. LimitInv => BurstBounded BY DEF LimitInv, BurstsWere, DaysWere, BurstBounded
  <1>2. QED BY LimitInvariant, <1>1, PTL

-----------------------------------------------------------------------------
(* Session. *)

LEMMA SessionBounds == Nobody \notin Wallets /\ NonceTtl \in Nat /\ MaxSkew \in Nat /\ MaxMinutes \in Nat
  BY SessionAssumption DEF SessionAssumption

USE SessionBounds

-----------------------------------------------------------------------------
(* The inductive invariant. *)

People == Wallets \cup {Nobody}
FlowStages == {"signing", "posted", "stored", "over"}
Flow == [wallet : Wallets, issuedAt : Nat, stage : FlowStages]
Delivery == [n : Nat, stage : {"arrived", "verified", "refused", "minted"}, at : Nat]
Question == [answer : People, live : BOOLEAN, done : BOOLEAN]
Page == [address : People, signedInAs : People,
         state : {"unknown", "signed-out", "signing", "signed-in"}]

ServerTypes ==
    /\ minute \in Nat /\ minute =< MaxMinutes
    /\ flows \in Seq(Flow) /\ posts \in Seq(Delivery)
    /\ bought \in Seq(Nat) /\ Len(bought) = Len(flows)
    /\ nonces \in [DOMAIN nonces -> Nat] /\ DOMAIN nonces \subseteq 1..Len(flows)

PageTypes == cookie \in People /\ page \in Page /\ whoamis \in Seq(Question)

ServerInv ==
    /\ \A i \in 1..Len(posts) : posts[i].n \in 1..Len(flows)
    /\ \A n \in DOMAIN nonces : bought[n] = 0 /\ nonces[n] = flows[n].issuedAt + NonceTtl
    /\ \A n \in 1..Len(flows) : bought[n] =< 1
    /\ \A i \in 1..Len(posts) :
          posts[i].stage = "minted" => posts[i].at =< flows[posts[i].n].issuedAt + NonceTtl

OursOrNone == cookie \in {page.address, Nobody}

PageInv ==
    ~foreign /\ ~switched /\ page.address # Nobody =>
        /\ \A n \in 1..Len(flows) : Underway(n) => flows[n].wallet = page.address
        /\ \A n \in 1..Len(flows) : flows[n].stage = "stored" => OursOrNone
        /\ \A i \in 1..Len(whoamis) : whoamis[i].live => OursOrNone \/ cookie = whoamis[i].answer
        /\ Ready => OursOrNone

SessionInv == ServerTypes /\ PageTypes /\ ServerInv /\ PageInv

-----------------------------------------------------------------------------

LEMMA SessionStarts == SessionInit => SessionInv
  <1> SUFFICES ASSUME SessionInit PROVE SessionInv
    OBVIOUS
  <1>1. /\ minute = 0 /\ flows = <<>> /\ posts = <<>> /\ bought = <<>> /\ whoamis = <<>>
        /\ DOMAIN nonces = {} /\ nonces = [n \in {} |-> 0]
        /\ cookie \in People /\ page.address = Nobody
        /\ page = [address |-> Nobody, state |-> "signed-out", signedInAs |-> Nobody]
    BY DEF SessionInit, People
  <1>2. ServerTypes BY <1>1, EmptySeq DEF ServerTypes
  <1>3. PageTypes BY <1>1, EmptySeq DEF PageTypes, Page, People
  <1>4. ServerInv /\ PageInv BY <1>1 DEF ServerInv, PageInv
  <1>5. QED BY <1>2, <1>3, <1>4 DEF SessionInv

-----------------------------------------------------------------------------
(* The server. *)

\* A delivery gets on, and the rest of the server with it, or the page stays as it is.
LEMMA DeliveryMoves ==
  ASSUME ServerTypes, NEW i \in 1..Len(posts), NEW d \in Delivery, posts' = [posts EXCEPT ![i] = d]
  PROVE  /\ posts' \in Seq(Delivery) /\ Len(posts') = Len(posts)
         /\ \A j \in 1..Len(posts) : posts'[j] = IF j = i THEN d ELSE posts[j]
  BY ExceptSeq DEF ServerTypes

LEMMA VerifyStep ==
  ASSUME SessionInv, NEW i \in 1..Len(posts), Verify(i)
  PROVE  SessionInv'
  <1>1. UNCHANGED <<minute, nonces, flows, cookie, page, whoamis, bought, foreign, switched>>
    BY DEF Verify
  <1>2. posts[i] \in Delivery /\ minute \in Nat BY DEF SessionInv, ServerTypes
  <1>3. PICK d \in Delivery :
          posts' = [posts EXCEPT ![i] = d] /\ d.n = posts[i].n /\ d.stage \in {"verified", "refused"}
    <2> DEFINE fresh == minute - flows[posts[i].n].issuedAt =< MaxSkew
               d == [posts[i] EXCEPT !.stage = IF fresh THEN "verified" ELSE "refused",
                                     !.at = IF fresh THEN minute ELSE 0]
    <2>1. d \in Delivery /\ d.n = posts[i].n /\ d.stage \in {"verified", "refused"}
      BY <1>2 DEF Delivery
    <2>2. posts' = [posts EXCEPT ![i] = d] BY DEF Verify
    <2>3. QED BY <2>1, <2>2
  <1>4. /\ posts' \in Seq(Delivery) /\ Len(posts') = Len(posts)
        /\ \A j \in 1..Len(posts) : posts'[j] = IF j = i THEN d ELSE posts[j]
    BY <1>3, DeliveryMoves DEF SessionInv
  <1>5. ServerTypes' BY <1>1, <1>4 DEF SessionInv, ServerTypes
  <1>6. ServerInv' BY <1>1, <1>3, <1>4 DEF SessionInv, ServerInv
  <1>7. QED
    BY <1>1, <1>5, <1>6 DEF SessionInv, PageTypes, PageInv, Underway, Ready, OursOrNone

\* What is spent is no longer filed, and had bought nothing.
LEMMA SpendStep ==
  ASSUME SessionInv, NEW i \in 1..Len(posts), Spend(i)
  PROVE  SessionInv'
  <1> DEFINE n == posts[i].n
             live == Unexpired(posts[i].at)
             ok == n \in live
             d == [posts[i] EXCEPT !.stage = IF ok THEN "minted" ELSE "refused",
                                   !.at = IF ok THEN @ ELSE 0]
  <1>1. /\ posts' = [posts EXCEPT ![i] = d]
        /\ nonces' = [k \in IF ok THEN live \ {n} ELSE live |-> nonces[k]]
        /\ bought' = IF ok THEN [bought EXCEPT ![n] = @ + 1] ELSE bought
        /\ UNCHANGED <<minute, flows, cookie, page, whoamis, foreign, switched>>
    BY DEF Spend, Spent
  <1>2. posts[i] \in Delivery /\ n \in 1..Len(flows) /\ live \subseteq DOMAIN nonces
    BY DEF SessionInv, ServerTypes, ServerInv, Unexpired
  <1>3. d \in Delivery /\ d.n = n BY <1>2 DEF Delivery
  <1>4. /\ posts' \in Seq(Delivery) /\ Len(posts') = Len(posts)
        /\ \A j \in 1..Len(posts) : posts'[j] = IF j = i THEN d ELSE posts[j]
    BY <1>1, <1>3, DeliveryMoves DEF SessionInv
  <1>5. /\ bought' \in Seq(Nat) /\ Len(bought') = Len(flows)
        /\ \A m \in 1..Len(flows) :
              bought'[m] = IF ok /\ m = n THEN bought[m] + 1 ELSE bought[m]
    <2>1. bought \in Seq(Nat) /\ Len(bought) = Len(flows) /\ bought[n] + 1 \in Nat
      BY <1>2 DEF SessionInv, ServerTypes
    <2>2. QED BY SMTT(30), <1>1, <1>2, <2>1, ExceptSeq
  <1>6. /\ DOMAIN nonces' \subseteq DOMAIN nonces
        /\ \A k \in DOMAIN nonces' : nonces'[k] = nonces[k] /\ (ok => k # n)
    BY <1>1, <1>2
  <1>7. ServerTypes'
    <2>1. nonces' \in [DOMAIN nonces' -> Nat] BY <1>1, <1>6 DEF SessionInv, ServerTypes
    <2>2. QED BY <1>1, <1>4, <1>5, <1>6, <2>1 DEF SessionInv, ServerTypes
  <1>8. ASSUME ok PROVE bought[n] = 0 /\ posts[i].at =< flows[n].issuedAt + NonceTtl
    BY <1>2, <1>8 DEF SessionInv, ServerInv, Unexpired
  <1>9. d.stage = "minted" => ok /\ d.at = posts[i].at BY <1>2 DEF Delivery
  <1>10. ServerInv'
    <2>1. \A j \in 1..Len(posts') : posts'[j].n \in 1..Len(flows)'
      BY <1>1, <1>2, <1>3, <1>4 DEF SessionInv, ServerInv
    <2>2. \A m \in DOMAIN nonces' : bought'[m] = 0 /\ nonces'[m] = flows'[m].issuedAt + NonceTtl
      BY SMTT(30), <1>1, <1>5, <1>6 DEF SessionInv, ServerTypes, ServerInv
    <2>3. \A m \in 1..Len(flows') : bought'[m] =< 1
      BY SMTT(30), <1>1, <1>5, <1>8 DEF SessionInv, ServerInv
    <2>4. \A j \in 1..Len(posts') :
             posts'[j].stage = "minted" => posts'[j].at =< flows'[posts'[j].n].issuedAt + NonceTtl
      BY <1>1, <1>3, <1>4, <1>8, <1>9 DEF SessionInv, ServerInv
    <2>5. QED BY <2>1, <2>2, <2>3, <2>4 DEF ServerInv
  <1>11. QED
    BY <1>1, <1>7, <1>10 DEF SessionInv, PageTypes, PageInv, Underway, Ready, OursOrNone

-----------------------------------------------------------------------------
(* Sign-ins. *)

\* A sign-in gets on: its wallet and time stay, and so do all the others.
LEMMA FlowMoves ==
  ASSUME ServerTypes, NEW n \in 1..Len(flows), NEW stage \in FlowStages, Reaches(n, stage)
  PROVE  /\ flows' \in Seq(Flow) /\ Len(flows') = Len(flows)
         /\ \A m \in 1..Len(flows) : /\ flows'[m].wallet = flows[m].wallet
                                     /\ flows'[m].issuedAt = flows[m].issuedAt
                                     /\ flows'[m].stage = IF m = n THEN stage ELSE flows[m].stage
  <1> DEFINE f == [flows[n] EXCEPT !.stage = stage]
  <1>1. flows[n] \in Flow BY DEF ServerTypes
  <1>2. /\ f \in Flow /\ f.wallet = flows[n].wallet /\ f.issuedAt = flows[n].issuedAt
        /\ f.stage = stage
    BY <1>1 DEF Flow
  <1>3. flows' = [flows EXCEPT ![n] = f] BY DEF Reaches
  <1>4. QED BY <1>2, <1>3, ExceptSeq DEF ServerTypes

\* Then the server's part holds on, if it changes nothing else.
LEMMA ServerUntouched ==
  ASSUME ServerTypes, ServerInv, NEW n \in 1..Len(flows), NEW stage \in FlowStages,
         Reaches(n, stage), UNCHANGED <<minute, nonces, posts, bought>>
  PROVE  ServerTypes' /\ ServerInv'
  <1>1. ServerTypes' BY FlowMoves DEF ServerTypes
  <1>2. ServerInv' BY FlowMoves DEF ServerTypes, ServerInv
  <1>3. QED BY <1>1, <1>2

LEMMA PostStep ==
  ASSUME SessionInv, NEW n \in 1..Len(flows), Post(n)
  PROVE  SessionInv'
  <1> DEFINE d == [n |-> n, stage |-> "arrived", at |-> 0]
  <1>1. /\ posts' = Append(posts, d)
        /\ UNCHANGED <<minute, nonces, cookie, page, whoamis, bought, foreign, switched>>
    BY DEF Post
  <1>2. /\ flows' \in Seq(Flow) /\ Len(flows') = Len(flows)
        /\ \A m \in 1..Len(flows) : /\ flows'[m].wallet = flows[m].wallet
                                    /\ flows'[m].issuedAt = flows[m].issuedAt
                                    /\ flows'[m].stage = "stored" => flows[m].stage = "stored"
                                    /\ flows'[m].stage = "over" <=> flows[m].stage = "over"
    <2>1. CASE flows[n].stage = "signing" /\ Reaches(n, "posted")
      BY <2>1, FlowMoves DEF SessionInv, FlowStages
    <2>2. CASE UNCHANGED flows BY <2>2 DEF SessionInv, ServerTypes
    <2>3. QED BY <2>1, <2>2 DEF Post
  <1>3. d \in Delivery BY DEF Delivery
  <1>4. /\ posts' \in Seq(Delivery) /\ Len(posts') = Len(posts) + 1
        /\ \A j \in 1..Len(posts') : posts'[j] = IF j = Len(posts) + 1 THEN d ELSE posts[j]
    BY <1>1, <1>3 DEF SessionInv, ServerTypes
  <1>5. ServerTypes' BY <1>1, <1>2, <1>4 DEF SessionInv, ServerTypes
  <1>6. ServerInv'
    <2>1. Len(posts) \in Nat BY LenProperties DEF SessionInv, ServerTypes
    <2>2. \A j \in 1..Len(posts') :
            posts'[j] = d \/ (j \in 1..Len(posts) /\ posts'[j] = posts[j])
      BY <1>4, <2>1
    <2>3. \A j \in 1..Len(posts') : posts'[j].n \in 1..Len(flows')
      BY <1>2, <2>2 DEF SessionInv, ServerInv
    <2>4. \A m \in DOMAIN nonces' : bought'[m] = 0 /\ nonces'[m] = flows'[m].issuedAt + NonceTtl
      BY <1>1, <1>2 DEF SessionInv, ServerTypes, ServerInv
    <2>5. \A m \in 1..Len(flows') : bought'[m] =< 1 BY <1>1, <1>2 DEF SessionInv, ServerInv
    <2>6. \A j \in 1..Len(posts') :
             posts'[j].stage = "minted" => posts'[j].at =< flows'[posts'[j].n].issuedAt + NonceTtl
      <3> SUFFICES ASSUME NEW j \in 1..Len(posts'), posts'[j].stage = "minted"
                   PROVE  posts'[j].at =< flows'[posts'[j].n].issuedAt + NonceTtl
        OBVIOUS
      <3>1. j \in 1..Len(posts) /\ posts'[j] = posts[j] BY <2>2
      <3>2. posts[j].n \in 1..Len(flows) BY <3>1 DEF SessionInv, ServerInv
      <3>3. QED BY SMTT(30), <1>2, <3>1, <3>2 DEF SessionInv, ServerInv
    <2>7. QED BY <2>3, <2>4, <2>5, <2>6 DEF ServerInv
  <1>7. \A m \in 1..Len(flows) : flows[m] \in Flow /\ flows'[m] \in Flow
    BY <1>2 DEF SessionInv, ServerTypes
  <1>8. \A m \in 1..Len(flows) : Underway(m)' => Underway(m)
    BY <1>2, <1>7 DEF Underway, Flow, FlowStages
  <1>9. PageInv' BY <1>1, <1>2, <1>8 DEF SessionInv, PageInv, Ready, OursOrNone
  <1>10. QED BY <1>1, <1>5, <1>6, <1>9 DEF SessionInv, PageTypes

LEMMA CookieStoredStep ==
  ASSUME SessionInv, NEW i \in 1..Len(posts), CookieStored(i)
  PROVE  SessionInv'
  <1> DEFINE n == posts[i].n
  <1>1. /\ flows[n].stage = "posted" /\ cookie' = flows[n].wallet /\ Reaches(n, "stored")
        /\ UNCHANGED <<minute, nonces, posts, page, whoamis, bought, foreign, switched>>
    BY DEF CookieStored
  <1>2. n \in 1..Len(flows) /\ flows[n] \in Flow BY DEF SessionInv, ServerInv, ServerTypes
  <1>3. ServerTypes' /\ ServerInv' BY <1>1, <1>2, ServerUntouched DEF SessionInv, FlowStages
  <1>4. /\ Len(flows') = Len(flows)
        /\ \A m \in 1..Len(flows) :
              /\ flows'[m].wallet = flows[m].wallet
              /\ flows'[m].stage = IF m = n THEN "stored" ELSE flows[m].stage
    BY <1>1, <1>2, FlowMoves DEF SessionInv, FlowStages
  <1>5. PageInv'
    <2> SUFFICES ASSUME ~foreign, ~switched, page.address # Nobody
                 PROVE  /\ \A m \in 1..Len(flows') : Underway(m)' => flows'[m].wallet = page.address
                        /\ cookie' = page.address
      BY <1>1, <1>4 DEF PageInv, OursOrNone
    <2>1. \A m \in 1..Len(flows) : Underway(m) => flows[m].wallet = page.address
      BY DEF SessionInv, PageInv
    <2>2. Underway(n) BY <1>1 DEF Underway
    <2>3. \A m \in 1..Len(flows) : Underway(m)' => Underway(m) BY <1>2, <1>4, <2>2 DEF Underway
    <2>4. cookie' = page.address BY <1>1, <1>2, <2>1, <2>2
    <2>5. QED BY <1>4, <2>1, <2>3, <2>4
  <1>6. PageTypes' BY <1>1, <1>2 DEF SessionInv, PageTypes, Flow, People
  <1>7. QED BY <1>3, <1>5, <1>6 DEF SessionInv

LEMMA ResumeStep ==
  ASSUME SessionInv, NEW n \in 1..Len(flows), Resume(n)
  PROVE  SessionInv'
  <1>1. /\ flows[n].stage = "stored" /\ Knows("signed-in", flows[n].wallet) /\ Reaches(n, "over")
        /\ UNCHANGED <<minute, nonces, posts, cookie, whoamis, bought, foreign, switched>>
    BY DEF Resume
  <1>2. flows[n] \in Flow /\ page \in Page BY DEF SessionInv, ServerTypes, PageTypes
  <1>3. ServerTypes' /\ ServerInv' BY <1>1, ServerUntouched DEF SessionInv, FlowStages
  <1>4. /\ Len(flows') = Len(flows)
        /\ \A m \in 1..Len(flows) :
              /\ flows'[m].wallet = flows[m].wallet
              /\ flows'[m].stage = IF m = n THEN "over" ELSE flows[m].stage
    BY <1>1, FlowMoves DEF SessionInv, FlowStages
  <1>5. page' \in Page /\ page'.address = page.address
    BY <1>1, <1>2 DEF Knows, Page, People, Flow
  <1>6. PageInv' BY <1>1, <1>4, <1>5 DEF SessionInv, PageInv, Underway, OursOrNone
  <1>7. PageTypes' BY <1>1, <1>5 DEF SessionInv, PageTypes
  <1>8. QED BY <1>3, <1>6, <1>7 DEF SessionInv

LEMMA SignInFailsStep ==
  ASSUME SessionInv, NEW n \in 1..Len(flows), SignInFails(n)
  PROVE  SessionInv'
  <1>1. /\ Knows("signed-out", page.signedInAs) /\ Reaches(n, "over")
        /\ UNCHANGED <<minute, nonces, posts, cookie, whoamis, bought, foreign, switched>>
    BY DEF SignInFails
  <1>2. page \in Page BY DEF SessionInv, PageTypes
  <1>3. ServerTypes' /\ ServerInv' BY <1>1, ServerUntouched DEF SessionInv, FlowStages
  <1>4. /\ Len(flows') = Len(flows)
        /\ \A m \in 1..Len(flows) :
              /\ flows'[m].wallet = flows[m].wallet
              /\ flows'[m].stage = IF m = n THEN "over" ELSE flows[m].stage
    BY <1>1, FlowMoves DEF SessionInv, FlowStages
  <1>5. page' \in Page /\ page'.address = page.address /\ page'.state = "signed-out"
    BY <1>1, <1>2 DEF Knows, Page
  <1>6. PageInv' BY <1>1, <1>4, <1>5 DEF SessionInv, PageInv, Underway, OursOrNone, Ready
  <1>7. PageTypes' BY <1>1, <1>5 DEF SessionInv, PageTypes
  <1>8. QED BY <1>3, <1>6, <1>7 DEF SessionInv

-----------------------------------------------------------------------------
(* The page. *)

\* The server's part holds on when nothing of it changes.
LEMMA ServerSleeps ==
  ASSUME ServerTypes, ServerInv, UNCHANGED <<minute, nonces, flows, posts, bought>>
  PROVE  ServerTypes' /\ ServerInv'
  BY DEF ServerTypes, ServerInv

LEMMA SignInStep ==
  ASSUME SessionInv, SignIn
  PROVE  SessionInv'
  <1> DEFINE f == [wallet |-> page.address, issuedAt |-> minute, stage |-> "signing"]
             n == Len(flows) + 1
  <1>1. /\ page.address # Nobody /\ Knows("signing", page.signedInAs)
        /\ flows' = Append(flows, f) /\ bought' = Append(bought, 0)
        /\ nonces' = [k \in Unexpired(minute) \cup {n} |-> IF k = n THEN minute + NonceTtl ELSE nonces[k]]
        /\ UNCHANGED <<minute, posts, cookie, whoamis, foreign, switched>>
    BY DEF SignIn
  <1>2. page \in Page /\ page.address \in Wallets /\ minute \in Nat /\ n \in Nat
    BY <1>1, LenProperties DEF SessionInv, PageTypes, ServerTypes, Page, People
  <1>3. f \in Flow BY <1>2 DEF Flow, FlowStages
  <1>4. /\ flows' \in Seq(Flow) /\ Len(flows') = n /\ flows'[n] = f
        /\ \A m \in 1..Len(flows) : flows'[m] = flows[m]
    BY <1>1, <1>3 DEF SessionInv, ServerTypes
  <1>5. /\ bought' \in Seq(Nat) /\ Len(bought') = n /\ bought'[n] = 0
        /\ \A m \in 1..Len(flows) : bought'[m] = bought[m]
    BY <1>1 DEF SessionInv, ServerTypes
  <1>6. /\ DOMAIN nonces' = Unexpired(minute) \cup {n} /\ nonces'[n] = minute + NonceTtl
        /\ Unexpired(minute) \subseteq DOMAIN nonces
        /\ \A k \in DOMAIN nonces' : k # n => k \in DOMAIN nonces /\ nonces'[k] = nonces[k]
    BY <1>1 DEF Unexpired
  <1>7. \A m \in 1..n : m = n \/ m \in 1..Len(flows) BY <1>2, LenProperties DEF SessionInv, ServerTypes
  <1>8. ServerTypes'
    <2>1. DOMAIN nonces' \subseteq 1..n BY <1>2, <1>6, LenProperties DEF SessionInv, ServerTypes
    <2>2. \A k \in DOMAIN nonces' : nonces'[k] \in Nat
      BY <1>2, <1>6 DEF SessionInv, ServerTypes
    <2>3. nonces' \in [DOMAIN nonces' -> Nat] BY <1>1, <1>6, <2>2
    <2>4. QED BY <1>1, <1>4, <1>5, <2>1, <2>3 DEF SessionInv, ServerTypes
  <1>9. ServerInv'
    <2>1. \A j \in 1..Len(posts') : posts'[j].n \in 1..Len(flows') /\ posts'[j].n \in 1..Len(flows)
      BY <1>1, <1>2, <1>4, LenProperties DEF SessionInv, ServerInv, ServerTypes
    <2>2. \A m \in DOMAIN nonces' : bought'[m] = 0 /\ nonces'[m] = flows'[m].issuedAt + NonceTtl
      <3> SUFFICES ASSUME NEW m \in DOMAIN nonces'
                   PROVE  bought'[m] = 0 /\ nonces'[m] = flows'[m].issuedAt + NonceTtl
        OBVIOUS
      <3>1. CASE m = n BY <1>4, <1>5, <1>6, <3>1
      <3>2. CASE m # n
        <4>1. m \in DOMAIN nonces /\ nonces'[m] = nonces[m] /\ m \in 1..Len(flows)
          BY <1>6, <3>2 DEF SessionInv, ServerTypes
        <4>2. QED BY <1>4, <1>5, <4>1 DEF SessionInv, ServerInv
      <3>3. QED BY <3>1, <3>2
    <2>3. \A m \in 1..Len(flows') : bought'[m] =< 1 BY <1>4, <1>5, <1>7 DEF SessionInv, ServerInv
    <2>4. \A j \in 1..Len(posts') :
             posts'[j].stage = "minted" => posts'[j].at =< flows'[posts'[j].n].issuedAt + NonceTtl
      BY <1>1, <1>4, <2>1 DEF SessionInv, ServerInv
    <2>5. QED BY <2>1, <2>2, <2>3, <2>4 DEF ServerInv
  <1>10. page' \in Page /\ page'.address = page.address /\ page'.state = "signing"
    BY <1>1, <1>2 DEF Knows, Page
  <1>11. f.wallet = page.address /\ f.stage = "signing" OBVIOUS
  <1>12. PageInv'
    <2> SUFFICES ASSUME ~foreign, ~switched
                 PROVE  /\ \A m \in 1..n : Underway(m)' => flows'[m].wallet = page.address
                        /\ \A m \in 1..n : flows'[m].stage = "stored" => OursOrNone
                        /\ \A i \in 1..Len(whoamis) :
                              whoamis[i].live => OursOrNone \/ cookie = whoamis[i].answer
      BY <1>1, <1>4, <1>10 DEF PageInv, OursOrNone, Ready
    <2>1. \A m \in 1..Len(flows) : Underway(m)' => flows'[m].wallet = page.address
      BY <1>1, <1>4 DEF SessionInv, PageInv, Underway
    <2>2. \A m \in 1..Len(flows) : flows'[m].stage = "stored" => OursOrNone
      BY <1>1, <1>4 DEF SessionInv, PageInv
    <2>3. QED BY <1>1, <1>4, <1>7, <1>11, <2>1, <2>2 DEF SessionInv, PageInv
  <1>13. PageTypes' BY <1>1, <1>10 DEF SessionInv, PageTypes
  <1>14. QED BY <1>8, <1>9, <1>12, <1>13 DEF SessionInv

\* No question asked before counts.
LEMMA AllDisowned ==
  ASSUME PageTypes, NEW ws, ws = [i \in DOMAIN whoamis |-> [whoamis[i] EXCEPT !.live = FALSE]]
  PROVE  ws \in Seq(Question) /\ Len(ws) = Len(whoamis) /\ \A i \in 1..Len(ws) : ~ws[i].live
  <1>1. whoamis \in Seq(Question) /\ Len(whoamis) \in Nat /\ DOMAIN whoamis = 1..Len(whoamis)
    BY LenProperties DEF PageTypes
  <1>2. \A q \in Question : [q EXCEPT !.live = FALSE] \in Question /\ ~[q EXCEPT !.live = FALSE].live
    BY DEF Question
  <1>3. \A i \in 1..Len(whoamis) : whoamis[i] \in Question BY <1>1
  <1>4. ws \in [1..Len(whoamis) -> Question] BY <1>1, <1>2, <1>3
  <1>5. ws \in Seq(Question) BY <1>1, <1>4, SeqDef
  <1>6. Len(ws) = Len(whoamis) BY <1>1, <1>4, <1>5, LenProperties
  <1>7. \A i \in 1..Len(whoamis) : ws[i] = [whoamis[i] EXCEPT !.live = FALSE] BY <1>1
  <1>8. QED BY <1>2, <1>3, <1>5, <1>6, <1>7

LEMMA ConnectStep ==
  ASSUME SessionInv, NEW w \in Wallets, Connect(w)
  PROVE  SessionInv'
  <1> DEFINE ws == [i \in DOMAIN whoamis |-> [whoamis[i] EXCEPT !.live = FALSE]]
             asked == [answer |-> cookie, live |-> TRUE, done |-> FALSE]
  <1>1. /\ page' = [address |-> w, state |-> "unknown", signedInAs |-> page.signedInAs]
        /\ whoamis' = Append(ws, asked)
        /\ switched' = (\E n \in Nonces : Underway(n))
        /\ UNCHANGED <<minute, nonces, flows, posts, cookie, bought>>
    BY DEF Connect
  <1>2. ServerTypes' /\ ServerInv' BY <1>1, ServerSleeps DEF SessionInv
  <1>3. ws \in Seq(Question) /\ Len(ws) = Len(whoamis) /\ \A i \in 1..Len(ws) : ~ws[i].live
    <2> HIDE DEF ws
    <2>1. ws = [i \in DOMAIN whoamis |-> [whoamis[i] EXCEPT !.live = FALSE]] BY DEF ws
    <2>2. QED BY <2>1, AllDisowned DEF SessionInv
  <1>4. asked \in Question BY DEF SessionInv, PageTypes, Question
  <1> HIDE DEF ws
  <1>5. /\ whoamis' \in Seq(Question)
        /\ \A i \in 1..Len(whoamis') : whoamis'[i] = asked \/ ~whoamis'[i].live
    <2>1. /\ Len(whoamis') = Len(ws) + 1 /\ whoamis'[Len(ws) + 1] = asked
          /\ whoamis' \in Seq(Question) /\ \A i \in 1..Len(ws) : whoamis'[i] = ws[i]
      BY <1>1, <1>3, <1>4
    <2>2. \A i \in 1..Len(whoamis') : i = Len(ws) + 1 \/ i \in 1..Len(ws)
      BY <1>3, <2>1, LenProperties
    <2>3. QED BY <1>3, <2>1, <2>2
  <1>6. page' \in Page /\ page'.state = "unknown" BY <1>1 DEF SessionInv, PageTypes, Page, People
  <1>7. PageTypes' BY <1>1, <1>5, <1>6 DEF SessionInv, PageTypes
  <1>8. PageInv'
    <2> SUFFICES ASSUME ~switched' PROVE PageInv'
      BY DEF PageInv
    <2>1. \A n \in 1..Len(flows) : ~Underway(n) BY <1>1 DEF Nonces
    <2>2. \A n \in 1..Len(flows) : flows[n].stage # "stored" BY <2>1 DEF Underway
    <2>3. \A i \in 1..Len(whoamis') : whoamis'[i].live => cookie = whoamis'[i].answer BY <1>5
    <2>4. QED BY <1>1, <1>6, <2>1, <2>2, <2>3 DEF PageInv, Underway, Ready
  <1>9. QED BY <1>2, <1>7, <1>8 DEF SessionInv

LEMMA DisconnectStep ==
  ASSUME SessionInv, Disconnect
  PROVE  SessionInv'
  <1> DEFINE ws == [i \in DOMAIN whoamis |-> [whoamis[i] EXCEPT !.live = FALSE]]
  <1>1. /\ page' = [address |-> Nobody, state |-> "signed-out", signedInAs |-> Nobody]
        /\ whoamis' = ws /\ UNCHANGED <<minute, nonces, flows, posts, cookie, bought>>
    BY DEF Disconnect
  <1>2. ServerTypes' /\ ServerInv' BY <1>1, ServerSleeps DEF SessionInv
  <1>3. ws \in Seq(Question)
    <2> HIDE DEF ws
    <2>1. ws = [i \in DOMAIN whoamis |-> [whoamis[i] EXCEPT !.live = FALSE]] BY DEF ws
    <2>2. QED BY <2>1, AllDisowned DEF SessionInv
  <1>4. PageTypes' BY <1>1, <1>3 DEF SessionInv, PageTypes, Page, People
  <1>5. PageInv' BY <1>1 DEF PageInv
  <1>6. QED BY <1>2, <1>4, <1>5 DEF SessionInv

LEMMA WhoamiStep ==
  ASSUME SessionInv, NEW i \in 1..Len(whoamis), WhoamiAnswers(i)
  PROVE  SessionInv'
  <1> DEFINE over == [answer |-> Nobody, live |-> FALSE, done |-> TRUE]
             who == whoamis[i].answer
  <1>1. /\ whoamis' = [whoamis EXCEPT ![i] = over]
        /\ UNCHANGED <<minute, nonces, flows, posts, cookie, bought, foreign, switched>>
    BY DEF WhoamiAnswers
  <1>2. ServerTypes' /\ ServerInv' BY <1>1, ServerSleeps DEF SessionInv
  <1>3. over \in Question /\ who \in People /\ page \in Page
    <2>1. whoamis[i] \in Question /\ page \in Page BY DEF SessionInv, PageTypes
    <2>2. over \in Question BY DEF Question, People
    <2>3. QED BY <2>1, <2>2 DEF Question
  <1>4. /\ whoamis' \in Seq(Question) /\ Len(whoamis') = Len(whoamis)
        /\ \A j \in 1..Len(whoamis) : whoamis'[j] = IF j = i THEN over ELSE whoamis[j]
    BY <1>1, <1>3, ExceptSeq DEF SessionInv, PageTypes
  <1>5. \A j \in 1..Len(whoamis') : whoamis'[j].live => whoamis[j].live /\ whoamis'[j] = whoamis[j]
    BY <1>4
  <1>6. CASE page' = page
    <2>1. PageTypes' BY <1>1, <1>4, <1>6 DEF SessionInv, PageTypes
    <2>2. PageInv' BY <1>1, <1>4, <1>5, <1>6 DEF SessionInv, PageInv, Underway, OursOrNone, Ready
    <2>3. QED BY <1>2, <2>1, <2>2 DEF SessionInv
  <1>7. CASE Counts(i)
    <2>1. Knows(IF who = Nobody THEN "signed-out" ELSE "signed-in", who)
      BY <1>7 DEF WhoamiAnswers
    <2>2. page' \in Page /\ page'.address = page.address /\ page'.signedInAs = who
      BY <1>3, <2>1 DEF Knows, Page
    <2>3. PageTypes' BY <1>1, <1>4, <2>2 DEF SessionInv, PageTypes
    <2>4. PageInv'
      <3> SUFFICES ASSUME ~foreign, ~switched, page.address # Nobody
                   PROVE  /\ \A n \in 1..Len(flows) : Underway(n) => flows[n].wallet = page.address
                          /\ \A n \in 1..Len(flows) : flows[n].stage = "stored" => OursOrNone
                          /\ \A j \in 1..Len(whoamis') :
                                whoamis'[j].live => OursOrNone \/ cookie = whoamis'[j].answer
                          /\ who = page.address => OursOrNone
        BY <1>1, <2>2 DEF PageInv, Underway, OursOrNone, Ready
      <3>1. OursOrNone \/ cookie = who BY <1>7 DEF SessionInv, PageInv, Counts
      <3>2. QED BY <1>4, <1>5, <3>1 DEF SessionInv, PageInv, OursOrNone
    <2>5. QED BY <1>2, <2>3, <2>4 DEF SessionInv
  <1>8. QED BY <1>6, <1>7 DEF WhoamiAnswers

LEMMA CookieLeavesStep ==
  ASSUME SessionInv, SignOut \/ AnotherPage
  PROVE  SessionInv'
  <1>1. UNCHANGED <<minute, nonces, flows, posts, whoamis, bought, switched>>
    BY DEF SignOut, AnotherPage
  <1>2. ServerTypes' /\ ServerInv' BY <1>1, ServerSleeps DEF SessionInv
  <1>3. CASE SignOut
    <2>1. cookie' \in {cookie, Nobody} /\ Knows("signed-out", Nobody) /\ foreign' = foreign
      BY <1>3 DEF SignOut
    <2>2. page' \in Page /\ page'.address = page.address /\ page'.state = "signed-out"
      BY <2>1 DEF Knows, SessionInv, PageTypes, Page, People
    <2>3. PageTypes' BY <1>1, <2>1, <2>2 DEF SessionInv, PageTypes, People
    <2>4. PageInv' BY <1>1, <2>1, <2>2 DEF SessionInv, PageInv, Underway, OursOrNone, Ready
    <2>5. QED BY <1>2, <2>3, <2>4 DEF SessionInv
  <1>4. CASE AnotherPage
    <2>1. cookie' \in Wallets /\ foreign' = TRUE /\ page' = page BY <1>4 DEF AnotherPage
    <2>2. PageTypes' BY <1>1, <2>1 DEF SessionInv, PageTypes, People
    <2>3. PageInv' BY <2>1 DEF PageInv
    <2>4. QED BY <1>2, <2>2, <2>3 DEF SessionInv
  <1>5. QED BY <1>3, <1>4

LEMMA SessionStep == SessionInv /\ [SessionNext]_sessionVars => SessionInv'
  <1> SUFFICES ASSUME SessionInv, [SessionNext]_sessionVars PROVE SessionInv'
    OBVIOUS
  <1>1. /\ DOMAIN posts = 1..Len(posts) /\ DOMAIN whoamis = 1..Len(whoamis)
        /\ Nonces = 1..Len(flows)
    BY LenProperties DEF SessionInv, ServerTypes, PageTypes, Nonces
  <1>2. CASE SessionTicks
    <2>1. /\ minute < MaxMinutes /\ minute' = minute + 1
          /\ UNCHANGED <<nonces, flows, posts, cookie, page, whoamis, bought, foreign, switched>>
      BY <1>2 DEF SessionTicks
    <2>2. ServerTypes' /\ ServerInv' BY <2>1 DEF SessionInv, ServerTypes, ServerInv
    <2>3. QED
      BY <2>1, <2>2 DEF SessionInv, PageTypes, PageInv, Underway, Ready, OursOrNone
  <1>3. CASE UNCHANGED sessionVars
    BY <1>3
    DEF sessionVars, SessionInv, ServerTypes, ServerInv, PageTypes, PageInv, Underway, Ready, OursOrNone
  <1>4. CASE SessionNext
    BY <1>1, <1>2, <1>4, VerifyStep, SpendStep, CookieStoredStep, ConnectStep, WhoamiStep, PostStep,
       ResumeStep, SignInFailsStep, DisconnectStep, SignInStep, CookieLeavesStep
    DEF SessionNext
  <1>5. QED BY <1>3, <1>4

LEMMA SessionInvariant == SessionSpec => []SessionInv
  BY SessionStarts, SessionStep, PTL DEF SessionSpec

-----------------------------------------------------------------------------
(* The results. *)

\* Nonces, sign-ins, deliveries, the cookie and the page are well typed.
THEOREM SessionTypeCorrect == SessionSpec => []SessionTypeOK
  <1>1. SessionInv => SessionTypeOK
    <2> SUFFICES ASSUME SessionInv PROVE SessionTypeOK
      OBVIOUS
    <2>1. minute \in 0..MaxMinutes /\ DOMAIN nonces \subseteq Nonces
      BY DEF SessionInv, ServerTypes, Nonces
    <2>2. \A n \in Nonces : flows[n].wallet \in Wallets
      <3>1. \A n \in Nonces : flows[n] \in Flow BY DEF SessionInv, ServerTypes, Nonces
      <3>2. QED BY <3>1 DEF Flow
    <2>3. \A i \in DOMAIN posts : posts[i].n \in Nonces
      <3>1. DOMAIN posts = 1..Len(posts) BY LenProperties DEF SessionInv, ServerTypes
      <3>2. QED BY <3>1 DEF SessionInv, ServerInv, Nonces
    <2>4. cookie \in Wallets \cup {Nobody} /\
          page \in [address : Wallets \cup {Nobody}, signedInAs : Wallets \cup {Nobody},
                    state : {"unknown", "signed-out", "signing", "signed-in"}]
      BY DEF SessionInv, PageTypes, Page, People
    <2>5. QED BY <2>1, <2>2, <2>3, <2>4 DEF SessionTypeOK
  <1>2. QED BY SessionInvariant, <1>1, PTL

\* A nonce mints one session, in time, however often its body is delivered.
THEOREM OneSessionPerNonce == SessionSpec => []NonceBuysOneSession
  <1>1. SessionInv => NonceBuysOneSession
    BY LenProperties DEF SessionInv, ServerTypes, ServerInv, NonceBuysOneSession, Nonces
  <1>2. QED BY SessionInvariant, <1>1, PTL

\* A ready page holds no other wallet's cookie, but for what another page or a wallet changed
\* under a sign-in may have done.
THEOREM ReadyPagesAreTrue == SessionSpec => []ReadyMeansOwnCookie
  <1>1. SessionInv => ReadyMeansOwnCookie BY DEF SessionInv, PageInv, OursOrNone, Ready, ReadyMeansOwnCookie
  <1>2. QED BY SessionInvariant, <1>1, PTL

HIDE SessionBounds

-----------------------------------------------------------------------------
(***************************************************************************)
(* AquaIndex.  What is still to be handled is part of every claim: a row    *)
(* and the movements that wait for it add up to the ledger, unless a dock  *)
(* that waits will read the row anew.  The claims are about one pair of a  *)
(* mandate and a token, given the ledger, the events that wait, the        *)
(* Mandate rows and the Balance rows.                                      *)
(***************************************************************************)

EventKinds == {"Shipped", "Pushed", "Pulled", "Docked"}
BlockEvents == [kind : EventKinds, mandate : Mandates, token : Tokens, amount : 0..MaxAmount]

IsOf(kind, b, i, m) == b[i].kind = kind /\ b[i].mandate = m
Pushes(b, i, m, t) == IsOf("Pushed", b, i, m) /\ b[i].token = t
PullsOut(b, i, m, t) == IsOf("Pulled", b, i, m) /\ b[i].token = t
MovesPair(b, i, m, t) == Pushes(b, i, m, t) \/ PullsOut(b, i, m, t)
StepBy(b, i, m, t) ==
    IF Pushes(b, i, m, t) THEN b[i].amount ELSE IF PullsOut(b, i, m, t) THEN -b[i].amount ELSE 0

Rowed(r, m, t) == <<m, t>> \in DOMAIN r
\* There is a row by the time the first i events are handled.
Coming(r, b, i, m, t) == Rowed(r, m, t) \/ \E j \in 1..i : Pushes(b, j, m, t)
RowNow(r, m, t) == IF Rowed(r, m, t) THEN r[<<m, t>>].amount ELSE 0

\* Nothing waits for a pair that was never shipped.
NeverShipped(a, b, r, m, t) ==
    a[m][t].count = 0 =>
        ~Rowed(r, m, t) /\ a[m][t].amount = 0 /\ \A i \in 1..Len(b) : ~MovesPair(b, i, m, t)
ShippedComes(a, b, r, m, t) == a[m][t].count # 0 => Coming(r, b, Len(b), m, t)
ShipFirst(b, s, i, m, t) == MovesPair(b, i, m, t) =>
    s[m].known \/ \E j \in 1..(i - 1) : IsOf("Shipped", b, j, m)
PushFirst(b, r, i, m, t) == PullsOut(b, i, m, t) => Coming(r, b, i, m, t)
\* A dock finds the rows of what was shipped before it.
DocksRead(a, b, r, i, m, t) == IsOf("Docked", b, i, m) /\ a[m][t].count # 0 =>
    Coming(r, b, i, m, t) \/ \E j \in (i + 1)..Len(b) : IsOf("Shipped", b, j, m)
CountsAgree(a, b, r, m, t) == Rowed(r, m, t) =>
    r[<<m, t>>].count = a[m][t].count \/ \E i \in 1..Len(b) : IsOf("Docked", b, i, m)
\* The first push of a pair finds its mandate active.
Undisturbed(b, from, to, m) == \A k \in from..to : ~IsOf("Docked", b, k, m)
FirstPushIsActive(b, s, r, i, m, t) == Pushes(b, i, m, t) /\ ~Coming(r, b, i - 1, m, t) =>
    \/ s[m].active /\ Undisturbed(b, 1, i - 1, m)
    \/ \E j \in 1..(i - 1) : IsOf("Shipped", b, j, m) /\ Undisturbed(b, j, i - 1, m)
InactiveIsSpent(a, s, r, m, t) == Rowed(r, m, t) /\ ~s[m].active => ~Live(a[m][t].count)

\* A dock that waits reads the row, and nothing waits after it.
ReadAnew(b, r, m, t) == \E i \in 1..Len(b) :
    /\ IsOf("Docked", b, i, m) /\ Coming(r, b, i, m, t)
    /\ \A k \in (i + 1)..Len(b) : ~MovesPair(b, k, m, t)
\* No dock reads the row, and what waits makes up the difference.
AddsUpTo(b, from, to, m, t) ==
    \E g \in [0..Len(b) -> Int] : /\ g[0] = from /\ g[Len(b)] = to
                                  /\ \A i \in 1..Len(b) : g[i] = g[i - 1] + StepBy(b, i, m, t)
NeverRead(b, r, m, t) == \A i \in 1..Len(b) : IsOf("Docked", b, i, m) => ~Coming(r, b, i, m, t)
RowsAddUp(a, b, r, m, t) ==
    \/ ReadAnew(b, r, m, t)
    \/ NeverRead(b, r, m, t) /\ AddsUpTo(b, RowNow(r, m, t), a[m][t].amount, m, t)

EventOk(a, b, s, r, i, m, t) ==
    /\ ShipFirst(b, s, i, m, t) /\ PushFirst(b, r, i, m, t)
    /\ DocksRead(a, b, r, i, m, t) /\ FirstPushIsActive(b, s, r, i, m, t)
PairOk(a, b, s, r, m, t) ==
    /\ NeverShipped(a, b, r, m, t) /\ ShippedComes(a, b, r, m, t)
    /\ CountsAgree(a, b, r, m, t) /\ InactiveIsSpent(a, s, r, m, t)
    /\ \A i \in 1..Len(b) : EventOk(a, b, s, r, i, m, t)

-----------------------------------------------------------------------------
(* The chain adds to what waits. *)

Grows(b, c) == Len(b) <= Len(c) /\ \A i \in 1..Len(b) : c[i] = b[i]

LEMMA GrownEvents ==
  ASSUME NEW b \in Seq(BlockEvents), NEW c \in Seq(BlockEvents), Grows(b, c), NEW r, NEW m, NEW t,
         NEW i \in 1..Len(b)
  PROVE  /\ i \in 1..Len(c) /\ Len(b) \in Nat /\ Len(c) \in Nat
         /\ \A kind : IsOf(kind, c, i, m) <=> IsOf(kind, b, i, m)
         /\ Pushes(c, i, m, t) <=> Pushes(b, i, m, t)
         /\ PullsOut(c, i, m, t) <=> PullsOut(b, i, m, t)
         /\ MovesPair(c, i, m, t) <=> MovesPair(b, i, m, t)
         /\ StepBy(c, i, m, t) = StepBy(b, i, m, t)
         /\ Coming(r, c, i, m, t) <=> Coming(r, b, i, m, t)
         /\ Coming(r, c, i - 1, m, t) <=> Coming(r, b, i - 1, m, t)
  <1>1. Len(b) \in Nat /\ Len(c) \in Nat /\ i \in 1..Len(c) BY DEF Grows
  <1>2. \A j \in 1..i : c[j] = b[j] BY <1>1 DEF Grows
  <1>3. i \in 1..i /\ \A j \in 1..(i - 1) : j \in 1..i BY <1>1
  <1>4. \A j \in 1..i : Pushes(c, j, m, t) <=> Pushes(b, j, m, t) BY <1>2 DEF Pushes, IsOf
  <1>5. c[i] = b[i] BY <1>2, <1>3
  <1>6. /\ \A kind : IsOf(kind, c, i, m) <=> IsOf(kind, b, i, m)
        /\ Pushes(c, i, m, t) <=> Pushes(b, i, m, t)
        /\ PullsOut(c, i, m, t) <=> PullsOut(b, i, m, t)
    BY <1>5 DEF Pushes, PullsOut, IsOf
  <1>7. StepBy(c, i, m, t) = StepBy(b, i, m, t) BY <1>5, <1>6 DEF StepBy
  <1>8. Coming(r, c, i, m, t) <=> Coming(r, b, i, m, t) BY <1>4 DEF Coming
  <1>9. Coming(r, c, i - 1, m, t) <=> Coming(r, b, i - 1, m, t) BY <1>3, <1>4 DEF Coming
  <1>10. QED BY <1>1, <1>6, <1>7, <1>8, <1>9 DEF MovesPair

LEMMA GrownAll ==
  ASSUME NEW b \in Seq(BlockEvents), NEW c \in Seq(BlockEvents), Grows(b, c), NEW r, NEW m, NEW t
  PROVE  \A i \in 1..Len(b) :
           /\ MovesPair(c, i, m, t) <=> MovesPair(b, i, m, t)
           /\ Pushes(c, i, m, t) <=> Pushes(b, i, m, t)
           /\ IsOf("Shipped", c, i, m) <=> IsOf("Shipped", b, i, m)
           /\ IsOf("Docked", c, i, m) <=> IsOf("Docked", b, i, m)
           /\ StepBy(c, i, m, t) = StepBy(b, i, m, t)
           /\ Coming(r, c, i, m, t) <=> Coming(r, b, i, m, t)
  <1>1. TAKE i \in 1..Len(b)
  <1>2. \A kind : IsOf(kind, c, i, m) <=> IsOf(kind, b, i, m) BY GrownEvents
  <1>3. /\ IsOf("Shipped", c, i, m) <=> IsOf("Shipped", b, i, m)
        /\ IsOf("Docked", c, i, m) <=> IsOf("Docked", b, i, m)
    BY <1>2
  <1>4. /\ MovesPair(c, i, m, t) <=> MovesPair(b, i, m, t)
        /\ Pushes(c, i, m, t) <=> Pushes(b, i, m, t)
        /\ StepBy(c, i, m, t) = StepBy(b, i, m, t)
        /\ Coming(r, c, i, m, t) <=> Coming(r, b, i, m, t)
    BY GrownEvents
  <1>5. QED BY <1>3, <1>4

\* What was waiting is as it was.
LEMMA OldEventsOk ==
  ASSUME NEW b \in Seq(BlockEvents), NEW c \in Seq(BlockEvents), Grows(b, c), NEW a, NEW e, NEW s, NEW r,
         NEW m, NEW t, NEW i \in 1..Len(b), EventOk(a, b, s, r, i, m, t),
         \/ e[m][t].count # 0 => a[m][t].count # 0
         \/ \E j \in (Len(b) + 1)..Len(c) : IsOf("Shipped", c, j, m)
  PROVE  EventOk(e, c, s, r, i, m, t)
  <1>1. Len(b) \in Nat /\ Len(c) \in Nat /\ Len(b) <= Len(c) BY DEF Grows
  <1>2. \A j \in 1..Len(b) :
          /\ j \in 1..Len(c)
          /\ \A kind : IsOf(kind, c, j, m) <=> IsOf(kind, b, j, m)
          /\ Pushes(c, j, m, t) <=> Pushes(b, j, m, t)
          /\ PullsOut(c, j, m, t) <=> PullsOut(b, j, m, t)
          /\ MovesPair(c, j, m, t) <=> MovesPair(b, j, m, t)
          /\ Coming(r, c, j, m, t) <=> Coming(r, b, j, m, t)
          /\ Coming(r, c, j - 1, m, t) <=> Coming(r, b, j - 1, m, t)
    BY GrownEvents
  <1>3. \A j \in 1..(i - 1) : j \in 1..Len(b) BY <1>1
  <1>4. ShipFirst(c, s, i, m, t)
    <2>1. SUFFICES ASSUME MovesPair(c, i, m, t), ~s[m].known
                   PROVE  \E j \in 1..(i - 1) : IsOf("Shipped", c, j, m)
      BY DEF ShipFirst
    <2>2. PICK j \in 1..(i - 1) : IsOf("Shipped", b, j, m) BY <1>2, <2>1 DEF EventOk, ShipFirst
    <2>3. QED BY <1>2, <1>3, <2>2
  <1>5. PushFirst(c, r, i, m, t) BY <1>2 DEF EventOk, PushFirst
  <1>6. DocksRead(e, c, r, i, m, t)
    <2>1. SUFFICES ASSUME IsOf("Docked", c, i, m), e[m][t].count # 0, ~Coming(r, c, i, m, t)
                   PROVE  \E j \in (i + 1)..Len(c) : IsOf("Shipped", c, j, m)
      BY DEF DocksRead
    <2>2. IsOf("Docked", b, i, m) /\ ~Coming(r, b, i, m, t) BY <1>2, <2>1
    <2>3. CASE \E j \in (Len(b) + 1)..Len(c) : IsOf("Shipped", c, j, m)
      <3>1. \A j \in (Len(b) + 1)..Len(c) : j \in (i + 1)..Len(c) BY <1>1
      <3>2. QED BY <2>3, <3>1
    <2>4. CASE a[m][t].count # 0
      <3>1. PICK j \in (i + 1)..Len(b) : IsOf("Shipped", b, j, m)
        BY <2>2, <2>4 DEF EventOk, DocksRead
      <3>2. j \in 1..Len(b) /\ j \in (i + 1)..Len(c) BY <1>1
      <3>3. QED BY <1>2, <3>1, <3>2
    <2>5. QED BY <2>1, <2>3, <2>4
  <1>7. FirstPushIsActive(c, s, r, i, m, t)
    <2>1. SUFFICES ASSUME Pushes(c, i, m, t), ~Coming(r, c, i - 1, m, t)
                   PROVE  \/ s[m].active /\ Undisturbed(c, 1, i - 1, m)
                          \/ \E j \in 1..(i - 1) : IsOf("Shipped", c, j, m) /\ Undisturbed(c, j, i - 1, m)
      BY DEF FirstPushIsActive
    <2>2. Pushes(b, i, m, t) /\ ~Coming(r, b, i - 1, m, t) BY <1>2, <2>1
    <2>3. \A j \in 1..(i - 1) : Undisturbed(b, j, i - 1, m) => Undisturbed(c, j, i - 1, m)
      <3>1. TAKE j \in 1..(i - 1)
      <3>2. \A k \in j..(i - 1) : k \in 1..Len(b) BY <1>1
      <3>3. QED BY <1>2, <3>2 DEF Undisturbed
    <2>4. Undisturbed(b, 1, i - 1, m) => Undisturbed(c, 1, i - 1, m)
      BY <1>2, <1>3 DEF Undisturbed
    <2>5. \/ s[m].active /\ Undisturbed(b, 1, i - 1, m)
          \/ \E j \in 1..(i - 1) : IsOf("Shipped", b, j, m) /\ Undisturbed(b, j, i - 1, m)
      BY <2>2 DEF EventOk, FirstPushIsActive
    <2>6. QED BY <1>2, <1>3, <2>3, <2>4, <2>5
  <1>8. QED BY <1>4, <1>5, <1>6, <1>7 DEF EventOk

\* An event that neither moves the pair nor docks its mandate asks for nothing.
LEMMA IdleEventOk ==
  ASSUME NEW a, NEW c, NEW s, NEW r, NEW i, NEW m, NEW t,
         ~MovesPair(c, i, m, t), ~IsOf("Docked", c, i, m)
  PROVE  EventOk(a, c, s, r, i, m, t)
  BY DEF EventOk, ShipFirst, PushFirst, DocksRead, FirstPushIsActive, MovesPair

\* What waits is lengthened by nothing of the pair's.
LEMMA LongerSum ==
  ASSUME NEW b \in Seq(BlockEvents), NEW c \in Seq(BlockEvents), Grows(b, c), NEW m, NEW t,
         \A i \in (Len(b) + 1)..Len(c) : ~MovesPair(c, i, m, t),
         NEW from, NEW to, AddsUpTo(b, from, to, m, t)
  PROVE  AddsUpTo(c, from, to, m, t)
  <1>1. Len(b) \in Nat /\ Len(c) \in Nat /\ Len(b) <= Len(c) BY DEF Grows
  <1>2. \A i \in 1..Len(b) : StepBy(c, i, m, t) = StepBy(b, i, m, t) BY GrownEvents
  <1>3. PICK g \in [0..Len(b) -> Int] :
          /\ g[0] = from /\ g[Len(b)] = to
          /\ \A i \in 1..Len(b) : g[i] = g[i - 1] + StepBy(b, i, m, t)
    BY DEF AddsUpTo
  <1> DEFINE h == [i \in 0..Len(c) |-> IF i <= Len(b) THEN g[i] ELSE g[Len(b)]]
  <1>4. h \in [0..Len(c) -> Int] BY <1>1
  <1>5. h[0] = g[0] /\ h[Len(c)] = g[Len(b)] BY <1>1
  <1>6. \A i \in 1..Len(c) : h[i] = h[i - 1] + StepBy(c, i, m, t)
    <2>1. TAKE i \in 1..Len(c)
    <2>2. CASE i \in 1..Len(b)
      <3>1. h[i] = g[i] /\ h[i - 1] = g[i - 1] BY <1>1, <2>2
      <3>2. QED BY <1>2, <1>3, <2>2, <3>1
    <2>3. CASE i \notin 1..Len(b)
      <3>1. i \in (Len(b) + 1)..Len(c) BY <1>1, <2>3
      <3>2. StepBy(c, i, m, t) = 0 BY <3>1 DEF StepBy, MovesPair
      <3>3. h[i] = g[Len(b)] /\ h[i - 1] = g[Len(b)] /\ g[Len(b)] \in Int BY SMTT(30), <1>1, <2>3
      <3>4. QED BY <3>2, <3>3
    <2>4. QED BY <2>2, <2>3
  <1> HIDE DEF h
  <1>7. QED BY <1>3, <1>4, <1>5, <1>6 DEF AddsUpTo

\* What is added neither moves the pair nor docks its mandate.
LEMMA QuietGrowth ==
  ASSUME NEW b \in Seq(BlockEvents), NEW c \in Seq(BlockEvents), Grows(b, c), NEW a, NEW e, NEW s, NEW r,
         NEW m, NEW t, e[m][t] = a[m][t],
         \A i \in (Len(b) + 1)..Len(c) : ~MovesPair(c, i, m, t) /\ ~IsOf("Docked", c, i, m)
  PROVE  /\ PairOk(a, b, s, r, m, t) => PairOk(e, c, s, r, m, t)
         /\ RowsAddUp(a, b, r, m, t) => RowsAddUp(e, c, r, m, t)
  <1>1. Len(b) \in Nat /\ Len(c) \in Nat /\ Len(b) <= Len(c) BY DEF Grows
  <1>2. \A i \in 1..Len(c) : i \in 1..Len(b) \/ i \in (Len(b) + 1)..Len(c) BY <1>1
  <1>3. \A i \in 1..Len(b) :
          /\ i \in 1..Len(c)
          /\ \A kind : IsOf(kind, c, i, m) <=> IsOf(kind, b, i, m)
          /\ Pushes(c, i, m, t) <=> Pushes(b, i, m, t)
          /\ PullsOut(c, i, m, t) <=> PullsOut(b, i, m, t)
          /\ MovesPair(c, i, m, t) <=> MovesPair(b, i, m, t)
          /\ StepBy(c, i, m, t) = StepBy(b, i, m, t)
          /\ Coming(r, c, i, m, t) <=> Coming(r, b, i, m, t)
          /\ Coming(r, c, i - 1, m, t) <=> Coming(r, b, i - 1, m, t)
    BY GrownEvents
  <1>4. \A i \in 1..Len(c) :
          /\ IsOf("Docked", c, i, m) => i \in 1..Len(b) /\ IsOf("Docked", b, i, m)
          /\ MovesPair(c, i, m, t) => i \in 1..Len(b) /\ MovesPair(b, i, m, t)
          /\ Pushes(c, i, m, t) => i \in 1..Len(b) /\ Pushes(b, i, m, t)
          /\ PullsOut(c, i, m, t) => i \in 1..Len(b) /\ PullsOut(b, i, m, t)
    BY <1>2, <1>3 DEF MovesPair
  <1>5. ASSUME PairOk(a, b, s, r, m, t) PROVE PairOk(e, c, s, r, m, t)
    <2>1. NeverShipped(e, c, r, m, t) BY <1>4, <1>5 DEF PairOk, NeverShipped
    <2>2. ShippedComes(e, c, r, m, t) BY <1>3, <1>5 DEF PairOk, ShippedComes, Coming
    <2>3. \A i \in 1..Len(c) : EventOk(e, c, s, r, i, m, t)
      <3>1. TAKE i \in 1..Len(c)
      <3>2. CASE i \in 1..Len(b) BY <1>5, <3>2, OldEventsOk DEF PairOk
      <3>3. CASE i \notin 1..Len(b) BY <1>4, <3>3, IdleEventOk
      <3>4. QED BY <3>2, <3>3
    <2>4. CountsAgree(e, c, r, m, t) BY <1>3, <1>5 DEF PairOk, CountsAgree
    <2>5. InactiveIsSpent(e, s, r, m, t) BY <1>5 DEF PairOk, InactiveIsSpent
    <2>6. QED BY <2>1, <2>2, <2>3, <2>4, <2>5 DEF PairOk
  <1>6. ASSUME RowsAddUp(a, b, r, m, t) PROVE RowsAddUp(e, c, r, m, t)
    <2>1. CASE ReadAnew(b, r, m, t)
      <3>1. PICK i \in 1..Len(b) : /\ IsOf("Docked", b, i, m) /\ Coming(r, b, i, m, t)
                                   /\ \A k \in (i + 1)..Len(b) : ~MovesPair(b, k, m, t)
        BY <2>1 DEF ReadAnew
      <3>2. \A k \in (i + 1)..Len(c) : k \in 1..Len(c) /\ (k \in 1..Len(b) => k \in (i + 1)..Len(b))
        BY <1>1
      <3>3. \A k \in (i + 1)..Len(c) : ~MovesPair(c, k, m, t) BY <1>4, <3>1, <3>2
      <3>4. ReadAnew(c, r, m, t) BY <1>3, <3>1, <3>3 DEF ReadAnew
      <3>5. QED BY <3>4 DEF RowsAddUp
    <2>2. CASE NeverRead(b, r, m, t) /\ AddsUpTo(b, RowNow(r, m, t), a[m][t].amount, m, t)
      <3>1. NeverRead(c, r, m, t) BY <1>3, <1>4, <2>2 DEF NeverRead
      <3>2. AddsUpTo(c, RowNow(r, m, t), e[m][t].amount, m, t) BY <2>2, LongerSum
      <3>3. QED BY <3>1, <3>2 DEF RowsAddUp
    <2>3. QED BY <1>6, <2>1, <2>2 DEF RowsAddUp
  <1>7. QED BY <1>5, <1>6

\* A dock is added, which takes the pair out of the ledger if it is of those docked.
LEMMA DockGrowth ==
  ASSUME NEW b \in Seq(BlockEvents), NEW c \in Seq(BlockEvents), Grows(b, c), NEW a, NEW e, NEW s, NEW r,
         NEW m, NEW t, PairOk(a, b, s, r, m, t), Len(c) = Len(b) + 1,
         IsOf("Docked", c, Len(b) + 1, m), a[m][t].amount \in Int,
         e[m][t] = a[m][t] \/ (a[m][t].count # 0 /\ e[m][t].count = Docked)
  PROVE  PairOk(e, c, s, r, m, t) /\ RowsAddUp(e, c, r, m, t)
  <1>1. Len(b) \in Nat /\ Len(c) \in Nat /\ Len(b) + 1 \in 1..Len(c) BY DEF Grows
  <1>2. \A i \in 1..Len(c) : i \in 1..Len(b) \/ i = Len(b) + 1 BY <1>1
  <1>3. ~MovesPair(c, Len(b) + 1, m, t) BY DEF MovesPair, Pushes, PullsOut, IsOf
  <1>4. \A i \in 1..Len(b) : /\ MovesPair(c, i, m, t) <=> MovesPair(b, i, m, t)
                             /\ Pushes(c, i, m, t) <=> Pushes(b, i, m, t)
    BY GrownEvents
  <1>5. e[m][t].count # 0 => a[m][t].count # 0 OBVIOUS
  <1>6. a[m][t].count # 0 => Coming(r, c, Len(b) + 1, m, t)
    <2>1. SUFFICES ASSUME a[m][t].count # 0 PROVE Coming(r, c, Len(b) + 1, m, t) OBVIOUS
    <2>2. Coming(r, b, Len(b), m, t) BY <2>1 DEF PairOk, ShippedComes
    <2>3. \A j \in 1..Len(b) : j \in 1..(Len(b) + 1) BY <1>1
    <2>4. QED BY <1>4, <2>2, <2>3 DEF Coming
  <1>7. NeverShipped(e, c, r, m, t)
    <2>1. SUFFICES ASSUME e[m][t].count = 0 PROVE NeverShipped(e, c, r, m, t) BY DEF NeverShipped
    <2>2. e[m][t] = a[m][t] BY <2>1 DEF Docked
    <2>3. QED BY <1>2, <1>3, <1>4, <2>1, <2>2 DEF PairOk, NeverShipped
  <1>8. ShippedComes(e, c, r, m, t) BY <1>5, <1>6 DEF ShippedComes
  <1>9. CountsAgree(e, c, r, m, t) BY <1>1 DEF CountsAgree
  <1>10. InactiveIsSpent(e, s, r, m, t)
    <2>1. ~Live(Docked) BY DEF Live, Docked
    <2>2. QED BY <2>1 DEF PairOk, InactiveIsSpent
  <1>11. \A i \in 1..Len(c) : EventOk(e, c, s, r, i, m, t)
    <2>1. TAKE i \in 1..Len(c)
    <2>2. CASE i \in 1..Len(b) BY <1>5, <2>2, OldEventsOk DEF PairOk
    <2>3. CASE i = Len(b) + 1
      <3>1. ~MovesPair(c, i, m, t) BY <1>3, <2>3
      <3>2. DocksRead(e, c, r, i, m, t) BY <1>5, <1>6, <2>3 DEF DocksRead
      <3>3. QED BY <3>1, <3>2 DEF EventOk, ShipFirst, PushFirst, FirstPushIsActive, MovesPair
    <2>4. QED BY <1>2, <2>2, <2>3
  <1>12. RowsAddUp(e, c, r, m, t)
    <2>1. CASE Coming(r, c, Len(b) + 1, m, t)
      <3>1. \A k \in (Len(b) + 1 + 1)..Len(c) : FALSE BY <1>1
      <3>2. ReadAnew(c, r, m, t) BY <1>1, <2>1, <3>1 DEF ReadAnew
      <3>3. QED BY <3>2 DEF RowsAddUp
    <2>2. CASE ~Coming(r, c, Len(b) + 1, m, t)
      <3>1. a[m][t].count = 0 /\ e[m][t] = a[m][t] BY <1>6, <2>2
      <3>2. ~Rowed(r, m, t) /\ a[m][t].amount = 0 /\ \A i \in 1..Len(b) : ~MovesPair(b, i, m, t)
        BY <3>1 DEF PairOk, NeverShipped
      <3>3. \A i \in 1..Len(c) : ~MovesPair(c, i, m, t) BY <1>2, <1>3, <1>4, <3>2
      <3>4. \A i \in 1..Len(c) : StepBy(c, i, m, t) = 0 BY <3>3 DEF StepBy, MovesPair
      <3>5. NeverRead(c, r, m, t)
        <4>1. \A i \in 1..Len(c) : \A j \in 1..i : j \in 1..Len(c) BY <1>1
        <4>2. QED BY <3>2, <3>3, <4>1 DEF NeverRead, Coming, MovesPair
      <3> DEFINE h == [i \in 0..Len(c) |-> 0]
      <3>6. /\ h \in [0..Len(c) -> Int] /\ h[0] = 0 /\ h[Len(c)] = 0
            /\ \A i \in 1..Len(c) : h[i] = 0 /\ h[i - 1] = 0
        BY <1>1
      <3> HIDE DEF h
      <3>7. \A i \in 1..Len(c) : h[i] = h[i - 1] + StepBy(c, i, m, t) BY <3>4, <3>6
      <3>8. AddsUpTo(c, 0, 0, m, t) BY <3>6, <3>7 DEF AddsUpTo
      <3>9. RowNow(r, m, t) = 0 /\ e[m][t].amount = 0 BY <3>1, <3>2 DEF RowNow
      <3>10. QED BY <3>5, <3>8, <3>9 DEF RowsAddUp
    <2>3. QED BY <2>1, <2>2
  <1>13. QED BY <1>7, <1>8, <1>9, <1>10, <1>11, <1>12 DEF PairOk

\* The pair moves, and the ledger by as much.
LEMMA MoveGrowth ==
  ASSUME NEW b \in Seq(BlockEvents), NEW c \in Seq(BlockEvents), Grows(b, c), NEW a, NEW e, NEW s, NEW r,
         NEW m, NEW t, PairOk(a, b, s, r, m, t), Len(c) = Len(b) + 1,
         MovesPair(c, Len(b) + 1, m, t), a[m][t].amount \in Int,
         a[m][t].count # 0, e[m][t].count = a[m][t].count,
         e[m][t].amount = a[m][t].amount + StepBy(c, Len(b) + 1, m, t),
         StepBy(c, Len(b) + 1, m, t) \in Int,
         Rowed(r, m, t) => s[m].known
  PROVE  /\ PairOk(e, c, s, r, m, t)
         /\ RowsAddUp(a, b, r, m, t) /\ NeverRead(b, r, m, t) => RowsAddUp(e, c, r, m, t)
  <1>1. Len(b) \in Nat /\ Len(c) \in Nat /\ Len(b) + 1 \in 1..Len(c) BY DEF Grows
  <1>2. \A i \in 1..Len(c) : i \in 1..Len(b) \/ i = Len(b) + 1 BY <1>1
  <1>3. ~IsOf("Docked", c, Len(b) + 1, m) BY DEF MovesPair, Pushes, PullsOut, IsOf
  <1>4. \A i \in 1..Len(b) : /\ MovesPair(c, i, m, t) <=> MovesPair(b, i, m, t)
                             /\ Pushes(c, i, m, t) <=> Pushes(b, i, m, t)
                             /\ IsOf("Shipped", c, i, m) <=> IsOf("Shipped", b, i, m)
                             /\ IsOf("Docked", c, i, m) <=> IsOf("Docked", b, i, m)
                             /\ StepBy(c, i, m, t) = StepBy(b, i, m, t)
                             /\ Coming(r, c, i, m, t) <=> Coming(r, b, i, m, t)
    BY GrownAll
  <1>5. Coming(r, b, Len(b), m, t) BY DEF PairOk, ShippedComes
  <1>6. Coming(r, c, Len(b), m, t) /\ Coming(r, c, Len(b) + 1, m, t)
    <2>1. \A j \in 1..Len(b) : j \in 1..(Len(b) + 1) BY <1>1
    <2>2. QED BY <1>4, <1>5, <2>1 DEF Coming
  <1>7. NeverShipped(e, c, r, m, t) BY DEF NeverShipped
  <1>8. ShippedComes(e, c, r, m, t) BY <1>6 DEF ShippedComes
  <1>9. CountsAgree(e, c, r, m, t) BY <1>1, <1>4 DEF PairOk, CountsAgree
  <1>10. InactiveIsSpent(e, s, r, m, t) BY DEF PairOk, InactiveIsSpent
  <1>11. ShipFirst(c, s, Len(b) + 1, m, t)
    <2>1. SUFFICES ASSUME ~s[m].known
                   PROVE  \E j \in 1..(Len(b) + 1 - 1) : IsOf("Shipped", c, j, m)
      BY DEF ShipFirst
    <2>2. PICK k \in 1..Len(b) : Pushes(b, k, m, t) BY <1>5, <2>1 DEF Coming
    <2>3. PICK j \in 1..(k - 1) : IsOf("Shipped", b, j, m)
      BY <2>1, <2>2 DEF PairOk, EventOk, ShipFirst, MovesPair
    <2>4. j \in 1..Len(b) /\ j \in 1..(Len(b) + 1 - 1) BY <1>1
    <2>5. QED BY <1>4, <2>3, <2>4
  <1>12. \A i \in 1..Len(c) : EventOk(e, c, s, r, i, m, t)
    <2>1. TAKE i \in 1..Len(c)
    <2>2. CASE i \in 1..Len(b) BY <2>2, OldEventsOk DEF PairOk
    <2>3. CASE i = Len(b) + 1
      <3>1. i - 1 = Len(b) BY <1>1, <2>3
      <3>2. QED BY <1>3, <1>6, <1>11, <2>3, <3>1
            DEF EventOk, PushFirst, DocksRead, FirstPushIsActive
    <2>4. QED BY <1>2, <2>2, <2>3
  <1>13. ASSUME RowsAddUp(a, b, r, m, t), NeverRead(b, r, m, t) PROVE RowsAddUp(e, c, r, m, t)
    <2>1. ~ReadAnew(b, r, m, t) BY <1>13 DEF ReadAnew, NeverRead
    <2>2. AddsUpTo(b, RowNow(r, m, t), a[m][t].amount, m, t) BY <1>13, <2>1 DEF RowsAddUp
    <2>3. PICK g \in [0..Len(b) -> Int] :
            /\ g[0] = RowNow(r, m, t) /\ g[Len(b)] = a[m][t].amount
            /\ \A i \in 1..Len(b) : g[i] = g[i - 1] + StepBy(b, i, m, t)
      BY <2>2 DEF AddsUpTo
    <2> DEFINE h == [i \in 0..Len(c) |-> IF i <= Len(b) THEN g[i] ELSE e[m][t].amount]
    <2>4. h \in [0..Len(c) -> Int] BY <1>1
    <2>5. h[0] = g[0] /\ h[Len(c)] = e[m][t].amount BY <1>1
    <2>6. \A i \in 1..Len(c) : h[i] = h[i - 1] + StepBy(c, i, m, t)
      <3>1. TAKE i \in 1..Len(c)
      <3>2. CASE i \in 1..Len(b)
        <4>1. h[i] = g[i] /\ h[i - 1] = g[i - 1] BY <1>1, <3>2
        <4>2. QED BY <1>4, <2>3, <3>2, <4>1
      <3>3. CASE i = Len(b) + 1
        <4>1. h[i] = e[m][t].amount /\ h[i - 1] = g[Len(b)] BY <1>1, <3>3
        <4>2. QED BY <2>3, <3>3, <4>1
      <3>4. QED BY <1>2, <3>2, <3>3
    <2> HIDE DEF h
    <2>7. AddsUpTo(c, RowNow(r, m, t), e[m][t].amount, m, t) BY <2>3, <2>4, <2>5, <2>6 DEF AddsUpTo
    <2>8. NeverRead(c, r, m, t) BY <1>2, <1>3, <1>4, <1>13 DEF NeverRead
    <2>9. QED BY <2>7, <2>8 DEF RowsAddUp
  <1>14. QED BY <1>7, <1>8, <1>9, <1>10, <1>12, <1>13 DEF PairOk

\* The pair is shipped, and pushed once.
LEMMA ShipGrowth ==
  ASSUME NEW b \in Seq(BlockEvents), NEW c \in Seq(BlockEvents), Grows(b, c), NEW a, NEW e, NEW s, NEW r,
         NEW m, NEW t, PairOk(a, b, s, r, m, t), a[m][t].count = 0, e[m][t].count # 0,
         e[m][t].amount \in Int, Len(c) > Len(b), IsOf("Shipped", c, Len(b) + 1, m),
         NEW q \in (Len(b) + 2)..Len(c), Pushes(c, q, m, t), c[q].amount = e[m][t].amount,
         \A i \in (Len(b) + 1)..Len(c) :
            ~IsOf("Docked", c, i, m) /\ (i # q => ~MovesPair(c, i, m, t))
  PROVE  PairOk(e, c, s, r, m, t) /\ RowsAddUp(e, c, r, m, t)
  <1>1. Len(b) \in Nat /\ Len(c) \in Nat /\ Len(b) + 1 \in 1..Len(c) /\ q \in 1..Len(c) BY DEF Grows
  <1>2. \A i \in 1..Len(c) : i \in 1..Len(b) \/ i \in (Len(b) + 1)..Len(c) BY <1>1
  <1>3. \A i \in 1..Len(b) : /\ MovesPair(c, i, m, t) <=> MovesPair(b, i, m, t)
                             /\ Pushes(c, i, m, t) <=> Pushes(b, i, m, t)
                             /\ \A kind : IsOf(kind, c, i, m) <=> IsOf(kind, b, i, m)
                             /\ StepBy(c, i, m, t) = StepBy(b, i, m, t)
                             /\ Coming(r, c, i, m, t) <=> Coming(r, b, i, m, t)
    BY ZenonT(40), GrownEvents
  <1>4. ~Rowed(r, m, t) /\ a[m][t].amount = 0 /\ \A i \in 1..Len(b) : ~MovesPair(b, i, m, t)
    BY DEF PairOk, NeverShipped
  <1>5. NeverShipped(e, c, r, m, t) BY DEF NeverShipped
  <1>6. ShippedComes(e, c, r, m, t) BY <1>1 DEF ShippedComes, Coming
  <1>7. CountsAgree(e, c, r, m, t) /\ InactiveIsSpent(e, s, r, m, t)
    BY <1>4 DEF CountsAgree, InactiveIsSpent
  <1>8. EventOk(e, c, s, r, q, m, t)
    <2>1. Len(b) + 1 \in 1..(q - 1) BY <1>1
    <2>2. ShipFirst(c, s, q, m, t) BY <2>1 DEF ShipFirst
    <2>3. ~PullsOut(c, q, m, t) /\ ~IsOf("Docked", c, q, m) BY DEF Pushes, PullsOut, IsOf
    <2>4. \A k \in (Len(b) + 1)..(q - 1) : k \in (Len(b) + 1)..Len(c) BY <1>1
    <2>5. Undisturbed(c, Len(b) + 1, q - 1, m) BY <2>4 DEF Undisturbed
    <2>6. FirstPushIsActive(c, s, r, q, m, t) BY <2>1, <2>5 DEF FirstPushIsActive
    <2>7. QED BY <2>2, <2>3, <2>6 DEF EventOk, PushFirst, DocksRead
  <1>9. \A i \in 1..Len(c) : EventOk(e, c, s, r, i, m, t)
    <2>1. TAKE i \in 1..Len(c)
    <2>2. CASE i \in 1..Len(b)
      <3>1. Len(b) + 1 \in (Len(b) + 1)..Len(c) BY <1>1
      <3>2. QED BY <2>2, <3>1, OldEventsOk DEF PairOk
    <2>3. CASE i \in (Len(b) + 1)..Len(c) /\ i # q BY <2>3, IdleEventOk
    <2>4. QED BY <1>2, <1>8, <2>2, <2>3
  <1>10. NeverRead(c, r, m, t)
    <2>1. SUFFICES ASSUME NEW i \in 1..Len(c), IsOf("Docked", c, i, m) PROVE ~Coming(r, c, i, m, t)
      BY DEF NeverRead
    <2>2. i \in 1..Len(b) BY <1>2, <2>1
    <2>3. \A j \in 1..i : j \in 1..Len(b) BY <1>1, <2>2
    <2>4. QED BY <1>3, <1>4, <2>2, <2>3 DEF Coming, MovesPair
  <1> DEFINE h == [i \in 0..Len(c) |-> IF i < q THEN 0 ELSE e[m][t].amount]
  <1>11. h \in [0..Len(c) -> Int] /\ h[0] = 0 /\ h[Len(c)] = e[m][t].amount BY <1>1
  <1>12. \A i \in 1..Len(c) : h[i] = h[i - 1] + StepBy(c, i, m, t)
    <2>1. TAKE i \in 1..Len(c)
    <2>2. CASE i = q
      <3>1. h[i] = e[m][t].amount /\ h[i - 1] = 0 BY <1>1, <2>2
      <3>2. StepBy(c, i, m, t) = e[m][t].amount BY <2>2 DEF StepBy
      <3>3. QED BY <3>1, <3>2
    <2>3. CASE i # q
      <3>1. ~MovesPair(c, i, m, t) BY <1>2, <1>3, <1>4, <2>3
      <3>2. StepBy(c, i, m, t) = 0 BY <3>1 DEF StepBy, MovesPair
      <3>3. h[i] = h[i - 1] /\ h[i] \in Int BY <1>1, <2>3
      <3>4. QED BY <3>2, <3>3
    <2>4. QED BY <2>2, <2>3
  <1> HIDE DEF h
  <1>13. AddsUpTo(c, 0, e[m][t].amount, m, t) BY <1>11, <1>12 DEF AddsUpTo
  <1>14. RowNow(r, m, t) = 0 BY <1>4 DEF RowNow
  <1>15. RowsAddUp(e, c, r, m, t) BY <1>10, <1>13, <1>14 DEF RowsAddUp
  <1>16. QED BY <1>5, <1>6, <1>7, <1>9, <1>15 DEF PairOk

-----------------------------------------------------------------------------
(* A handler takes the first event of those that wait. *)

Shrinks(b, c) == Len(b) >= 1 /\ Len(c) = Len(b) - 1 /\ \A i \in 1..Len(c) : c[i] = b[i + 1]

LEMMA TailEvents ==
  ASSUME NEW b \in Seq(BlockEvents), NEW c \in Seq(BlockEvents), Shrinks(b, c), NEW m, NEW t, NEW i \in 1..Len(c)
  PROVE  /\ i + 1 \in 1..Len(b) /\ Len(b) \in Nat /\ Len(c) \in Nat
         /\ \A kind : IsOf(kind, c, i, m) <=> IsOf(kind, b, i + 1, m)
         /\ Pushes(c, i, m, t) <=> Pushes(b, i + 1, m, t)
         /\ PullsOut(c, i, m, t) <=> PullsOut(b, i + 1, m, t)
         /\ MovesPair(c, i, m, t) <=> MovesPair(b, i + 1, m, t)
         /\ StepBy(c, i, m, t) = StepBy(b, i + 1, m, t)
  <1>1. Len(b) \in Nat /\ Len(c) \in Nat /\ i + 1 \in 1..Len(b) BY DEF Shrinks
  <1>2. c[i] = b[i + 1] BY DEF Shrinks
  <1>3. /\ \A kind : IsOf(kind, c, i, m) <=> IsOf(kind, b, i + 1, m)
        /\ Pushes(c, i, m, t) <=> Pushes(b, i + 1, m, t)
        /\ PullsOut(c, i, m, t) <=> PullsOut(b, i + 1, m, t)
    BY <1>2 DEF Pushes, PullsOut, IsOf
  <1>4. StepBy(c, i, m, t) = StepBy(b, i + 1, m, t) BY <1>2, <1>3 DEF StepBy
  <1>5. QED BY <1>1, <1>3, <1>4 DEF MovesPair

LEMMA TailAll ==
  ASSUME NEW b \in Seq(BlockEvents), NEW c \in Seq(BlockEvents), Shrinks(b, c), NEW m, NEW t
  PROVE  \A i \in 1..Len(c) :
           /\ i + 1 \in 1..Len(b)
           /\ IsOf("Shipped", c, i, m) <=> IsOf("Shipped", b, i + 1, m)
           /\ IsOf("Docked", c, i, m) <=> IsOf("Docked", b, i + 1, m)
           /\ Pushes(c, i, m, t) <=> Pushes(b, i + 1, m, t)
           /\ PullsOut(c, i, m, t) <=> PullsOut(b, i + 1, m, t)
           /\ MovesPair(c, i, m, t) <=> MovesPair(b, i + 1, m, t)
           /\ StepBy(c, i, m, t) = StepBy(b, i + 1, m, t)
  <1>1. TAKE i \in 1..Len(c)
  <1>2. \A kind : IsOf(kind, c, i, m) <=> IsOf(kind, b, i + 1, m) BY TailEvents
  <1>3. /\ IsOf("Shipped", c, i, m) <=> IsOf("Shipped", b, i + 1, m)
        /\ IsOf("Docked", c, i, m) <=> IsOf("Docked", b, i + 1, m)
    BY <1>2
  <1>4. /\ i + 1 \in 1..Len(b)
        /\ Pushes(c, i, m, t) <=> Pushes(b, i + 1, m, t)
        /\ PullsOut(c, i, m, t) <=> PullsOut(b, i + 1, m, t)
        /\ MovesPair(c, i, m, t) <=> MovesPair(b, i + 1, m, t)
        /\ StepBy(c, i, m, t) = StepBy(b, i + 1, m, t)
    BY TailEvents
  <1>5. QED BY <1>3, <1>4

\* A row comes as soon as before, the one the first event brought counted.
LEMMA TailComing ==
  ASSUME NEW b \in Seq(BlockEvents), NEW c \in Seq(BlockEvents), Shrinks(b, c), NEW r, NEW q, NEW m, NEW t,
         Rowed(q, m, t) <=> Rowed(r, m, t) \/ Pushes(b, 1, m, t), NEW i \in 0..Len(c)
  PROVE  Coming(q, c, i, m, t) <=> Coming(r, b, i + 1, m, t)
  <1>1. Len(b) \in Nat /\ Len(c) \in Nat /\ Len(c) = Len(b) - 1 BY DEF Shrinks
  <1>2. \A j \in 1..Len(c) : Pushes(c, j, m, t) <=> Pushes(b, j + 1, m, t) BY TailAll
  <1>3. ASSUME Coming(q, c, i, m, t) PROVE Coming(r, b, i + 1, m, t)
    <2>1. CASE Rowed(q, m, t)
      <3>1. 1 \in 1..(i + 1) BY <1>1
      <3>2. QED BY <2>1, <3>1 DEF Coming
    <2>2. CASE \E j \in 1..i : Pushes(c, j, m, t)
      <3>1. PICK j \in 1..i : Pushes(c, j, m, t) BY <2>2
      <3>2. j \in 1..Len(c) /\ j + 1 \in 1..(i + 1) BY <1>1
      <3>3. Pushes(b, j + 1, m, t) BY <1>2, <3>1, <3>2
      <3>4. QED BY <3>2, <3>3 DEF Coming
    <2>3. QED BY <1>3, <2>1, <2>2 DEF Coming
  <1>4. ASSUME Coming(r, b, i + 1, m, t) PROVE Coming(q, c, i, m, t)
    <2>1. CASE Rowed(r, m, t) BY <2>1 DEF Coming
    <2>2. CASE \E j \in 1..(i + 1) : Pushes(b, j, m, t)
      <3>1. PICK j \in 1..(i + 1) : Pushes(b, j, m, t) BY <2>2
      <3>2. CASE j = 1 BY <3>1, <3>2 DEF Coming
      <3>3. CASE j # 1
        <4>1. j - 1 \in 1..i /\ j - 1 \in 1..Len(c) /\ (j - 1) + 1 = j BY <1>1, <3>3
        <4>2. Pushes(c, j - 1, m, t) BY <1>2, <3>1, <4>1
        <4>3. QED BY <4>1, <4>2 DEF Coming
      <3>4. QED BY <3>2, <3>3
    <2>3. QED BY <1>4, <2>1, <2>2 DEF Coming
  <1>5. QED BY <1>3, <1>4

\* What still waits is as it was, for the rows after the first event.
LEMMA TailEventsOk ==
  ASSUME NEW b \in Seq(BlockEvents), NEW c \in Seq(BlockEvents), Shrinks(b, c), NEW a, NEW s, NEW u, NEW r,
         NEW q, NEW m, NEW t, NEW i \in 1..Len(c), EventOk(a, b, s, r, i + 1, m, t),
         Rowed(q, m, t) <=> Rowed(r, m, t) \/ Pushes(b, 1, m, t),
         s[m].known \/ IsOf("Shipped", b, 1, m) => u[m].known,
         IsOf("Shipped", b, 1, m) \/ (s[m].active /\ ~IsOf("Docked", b, 1, m)) => u[m].active
  PROVE  EventOk(a, c, u, q, i, m, t)
  <1>1. Len(b) \in Nat /\ Len(c) \in Nat /\ Len(c) = Len(b) - 1 BY DEF Shrinks
  <1>2. \A j \in 1..Len(c) :
           /\ IsOf("Shipped", c, j, m) <=> IsOf("Shipped", b, j + 1, m)
           /\ IsOf("Docked", c, j, m) <=> IsOf("Docked", b, j + 1, m)
           /\ Pushes(c, j, m, t) <=> Pushes(b, j + 1, m, t)
           /\ PullsOut(c, j, m, t) <=> PullsOut(b, j + 1, m, t)
           /\ MovesPair(c, j, m, t) <=> MovesPair(b, j + 1, m, t)
    BY TailAll
  <1>3. Coming(q, c, i, m, t) <=> Coming(r, b, i + 1, m, t) BY <1>1, TailComing
  <1>4. Coming(q, c, i - 1, m, t) <=> Coming(r, b, (i + 1) - 1, m, t)
    <2>1. i - 1 \in 0..Len(c) /\ (i - 1) + 1 = (i + 1) - 1 BY <1>1
    <2>2. QED BY <2>1, TailComing
  <1>5. \A j \in 1..((i + 1) - 1) : j # 1 => /\ j - 1 \in 1..(i - 1) /\ j - 1 \in 1..Len(c)
                                             /\ (j - 1) + 1 = j
    BY <1>1
  <1>6. ShipFirst(c, u, i, m, t)
    <2>1. SUFFICES ASSUME MovesPair(c, i, m, t), ~u[m].known
                   PROVE  \E j \in 1..(i - 1) : IsOf("Shipped", c, j, m)
      BY DEF ShipFirst
    <2>2. PICK j \in 1..((i + 1) - 1) : IsOf("Shipped", b, j, m)
      BY <1>2, <2>1 DEF EventOk, ShipFirst
    <2>3. j # 1 BY <2>1, <2>2
    <2>4. IsOf("Shipped", c, j - 1, m) BY <1>2, <1>5, <2>2, <2>3
    <2>5. QED BY <1>5, <2>3, <2>4
  <1>7. PushFirst(c, q, i, m, t) BY <1>2, <1>3 DEF EventOk, PushFirst
  <1>8. DocksRead(a, c, q, i, m, t)
    <2>1. SUFFICES ASSUME IsOf("Docked", c, i, m), a[m][t].count # 0, ~Coming(q, c, i, m, t)
                   PROVE  \E j \in (i + 1)..Len(c) : IsOf("Shipped", c, j, m)
      BY DEF DocksRead
    <2>2. PICK j \in ((i + 1) + 1)..Len(b) : IsOf("Shipped", b, j, m)
      BY <1>2, <1>3, <2>1 DEF EventOk, DocksRead
    <2>3. j - 1 \in (i + 1)..Len(c) /\ j - 1 \in 1..Len(c) /\ (j - 1) + 1 = j BY <1>1
    <2>4. IsOf("Shipped", c, j - 1, m) BY <1>2, <2>2, <2>3
    <2>5. QED BY <2>3, <2>4
  <1>9. FirstPushIsActive(c, u, q, i, m, t)
    <2>1. SUFFICES ASSUME Pushes(c, i, m, t), ~Coming(q, c, i - 1, m, t)
                   PROVE  \/ u[m].active /\ Undisturbed(c, 1, i - 1, m)
                          \/ \E j \in 1..(i - 1) : IsOf("Shipped", c, j, m) /\ Undisturbed(c, j, i - 1, m)
      BY DEF FirstPushIsActive
    <2>2. \/ s[m].active /\ Undisturbed(b, 1, (i + 1) - 1, m)
          \/ \E j \in 1..((i + 1) - 1) : /\ IsOf("Shipped", b, j, m)
                                         /\ Undisturbed(b, j, (i + 1) - 1, m)
      BY <1>2, <1>4, <2>1 DEF EventOk, FirstPushIsActive
    <2>3. \A j \in 1..((i + 1) - 1) : \A k \in (IF j = 1 THEN 1 ELSE j - 1)..(i - 1) :
             k \in 1..Len(c) /\ k + 1 \in j..((i + 1) - 1)
      BY <1>1
    <2>4. \A j \in 1..((i + 1) - 1) : Undisturbed(b, j, (i + 1) - 1, m)
             => Undisturbed(c, IF j = 1 THEN 1 ELSE j - 1, i - 1, m)
      BY <1>2, <2>3 DEF Undisturbed
    <2>5. 1 \in 1..((i + 1) - 1) BY <1>1
    <2>6. CASE s[m].active /\ Undisturbed(b, 1, (i + 1) - 1, m)
      <3>1. ~IsOf("Docked", b, 1, m) BY <2>5, <2>6 DEF Undisturbed
      <3>2. Undisturbed(c, 1, i - 1, m) BY <2>4, <2>5, <2>6
      <3>3. QED BY <2>6, <3>1, <3>2
    <2>7. CASE \E j \in 1..((i + 1) - 1) : /\ IsOf("Shipped", b, j, m)
                                           /\ Undisturbed(b, j, (i + 1) - 1, m)
      <3>1. PICK j \in 1..((i + 1) - 1) : /\ IsOf("Shipped", b, j, m)
                                          /\ Undisturbed(b, j, (i + 1) - 1, m)
        BY <2>7
      <3>2. CASE j = 1
        <4>1. Undisturbed(c, 1, i - 1, m) BY <2>4, <3>1, <3>2
        <4>2. QED BY <3>1, <3>2, <4>1
      <3>3. CASE j # 1
        <4>1. Undisturbed(c, j - 1, i - 1, m) BY <2>4, <3>1, <3>3
        <4>2. IsOf("Shipped", c, j - 1, m) BY <1>2, <1>5, <3>1, <3>3
        <4>3. QED BY <1>5, <3>3, <4>1, <4>2
      <3>4. QED BY <3>2, <3>3
    <2>8. QED BY <2>2, <2>6, <2>7
  <1>10. QED BY <1>6, <1>7, <1>8, <1>9 DEF EventOk

LEMMA HandledPair ==
  ASSUME NEW b \in Seq(BlockEvents), NEW c \in Seq(BlockEvents), Shrinks(b, c), NEW a, NEW s, NEW u, NEW r,
         NEW q, NEW m, NEW t, PairOk(a, b, s, r, m, t),
         Rowed(q, m, t) <=> Rowed(r, m, t) \/ Pushes(b, 1, m, t),
         s[m].known \/ IsOf("Shipped", b, 1, m) => u[m].known,
         IsOf("Shipped", b, 1, m) \/ (s[m].active /\ ~IsOf("Docked", b, 1, m)) => u[m].active,
         Rowed(q, m, t) =>
            \/ q[<<m, t>>].count = a[m][t].count
            \/ /\ Rowed(r, m, t) /\ q[<<m, t>>].count = r[<<m, t>>].count
               /\ ~IsOf("Docked", b, 1, m),
         InactiveIsSpent(a, u, q, m, t)
  PROVE  PairOk(a, c, u, q, m, t)
  <1>1. Len(b) \in Nat /\ Len(c) \in Nat /\ Len(c) = Len(b) - 1 /\ Len(b) >= 1 BY DEF Shrinks
  <1>2. \A j \in 1..Len(c) :
           /\ j + 1 \in 1..Len(b)
           /\ IsOf("Docked", c, j, m) <=> IsOf("Docked", b, j + 1, m)
           /\ MovesPair(c, j, m, t) <=> MovesPair(b, j + 1, m, t)
    BY TailAll
  <1>3. NeverShipped(a, c, q, m, t)
    <2>1. 1 \in 1..Len(b) BY <1>1
    <2>2. QED BY <1>2, <2>1 DEF PairOk, NeverShipped, MovesPair
  <1>4. ShippedComes(a, c, q, m, t)
    <2>1. Len(c) \in 0..Len(c) /\ Len(c) + 1 = Len(b) BY <1>1
    <2>2. Coming(q, c, Len(c), m, t) <=> Coming(r, b, Len(b), m, t) BY <2>1, TailComing
    <2>3. QED BY <2>2 DEF PairOk, ShippedComes
  <1>5. CountsAgree(a, c, q, m, t)
    <2>1. SUFFICES ASSUME Rowed(q, m, t), q[<<m, t>>].count # a[m][t].count
                   PROVE  \E i \in 1..Len(c) : IsOf("Docked", c, i, m)
      BY DEF CountsAgree
    <2>2. PICK i \in 1..Len(b) : IsOf("Docked", b, i, m) BY <2>1 DEF PairOk, CountsAgree
    <2>3. i # 1 BY <2>1, <2>2
    <2>4. i - 1 \in 1..Len(c) /\ (i - 1) + 1 = i BY <1>1, <2>3
    <2>5. QED BY <1>2, <2>2, <2>4
  <1>6. \A i \in 1..Len(c) : EventOk(a, c, u, q, i, m, t)
    <2>1. TAKE i \in 1..Len(c)
    <2>2. EventOk(a, b, s, r, i + 1, m, t) BY <1>2 DEF PairOk
    <2>3. QED BY <2>2, TailEventsOk
  <1>7. QED BY <1>3, <1>4, <1>5, <1>6 DEF PairOk

\* The row after the first event, and what waits after it.
LEMMA HandledRow ==
  ASSUME NEW b \in Seq(BlockEvents), NEW c \in Seq(BlockEvents), Shrinks(b, c), NEW a, NEW r, NEW q,
         NEW m, NEW t, RowsAddUp(a, b, r, m, t), a[m][t].amount \in Int,
         Rowed(q, m, t) <=> Rowed(r, m, t) \/ Pushes(b, 1, m, t),
         IsOf("Docked", b, 1, m) /\ Rowed(q, m, t) => RowNow(q, m, t) = a[m][t].amount,
         ~IsOf("Docked", b, 1, m) => RowNow(q, m, t) = RowNow(r, m, t) + StepBy(b, 1, m, t)
  PROVE  RowsAddUp(a, c, q, m, t)
  <1>1. Len(b) \in Nat /\ Len(c) \in Nat /\ Len(c) = Len(b) - 1 /\ Len(b) >= 1 BY DEF Shrinks
  <1>2. \A j \in 1..Len(c) :
           /\ j + 1 \in 1..Len(b)
           /\ IsOf("Docked", c, j, m) <=> IsOf("Docked", b, j + 1, m)
           /\ MovesPair(c, j, m, t) <=> MovesPair(b, j + 1, m, t)
           /\ StepBy(c, j, m, t) = StepBy(b, j + 1, m, t)
    BY TailAll
  <1>3. \A j \in 1..Len(c) : Coming(q, c, j, m, t) <=> Coming(r, b, j + 1, m, t)
    <2>1. TAKE j \in 1..Len(c)
    <2>2. j \in 0..Len(c) BY <1>1
    <2>3. QED BY <2>2, TailComing
  <1>4. CASE ReadAnew(b, r, m, t)
    <2>1. PICK i \in 1..Len(b) : /\ IsOf("Docked", b, i, m) /\ Coming(r, b, i, m, t)
                                 /\ \A k \in (i + 1)..Len(b) : ~MovesPair(b, k, m, t)
      BY <1>4 DEF ReadAnew
    <2>2. CASE i # 1
      <3>1. i - 1 \in 1..Len(c) /\ (i - 1) + 1 = i BY <1>1, <2>2
      <3>2. \A k \in ((i - 1) + 1)..Len(c) : k \in 1..Len(c) /\ k + 1 \in (i + 1)..Len(b) BY <1>1
      <3>3. \A k \in ((i - 1) + 1)..Len(c) : ~MovesPair(c, k, m, t) BY <1>2, <2>1, <3>2
      <3>4. IsOf("Docked", c, i - 1, m) /\ Coming(q, c, i - 1, m, t) BY <1>2, <1>3, <2>1, <3>1
      <3>5. ReadAnew(c, q, m, t) BY <3>1, <3>3, <3>4 DEF ReadAnew
      <3>6. QED BY <3>5 DEF RowsAddUp
    <2>3. CASE i = 1
      <3>1. \A j \in 1..1 : j = 1 OBVIOUS
      <3>2. ~Pushes(b, 1, m, t) BY <2>1, <2>3 DEF Pushes, IsOf
      <3>3. Rowed(q, m, t) BY <2>1, <2>3, <3>1, <3>2 DEF Coming
      <3>4. RowNow(q, m, t) = a[m][t].amount BY <2>1, <2>3, <3>3
      <3>5. \A k \in 1..Len(c) : ~MovesPair(c, k, m, t)
        <4>1. \A k \in 1..Len(c) : k + 1 \in (1 + 1)..Len(b) BY <1>1
        <4>2. QED BY <1>2, <2>1, <2>3, <4>1
      <3>6. CASE \E k \in 1..Len(c) : IsOf("Docked", c, k, m)
        <4>1. PICK k \in 1..Len(c) : IsOf("Docked", c, k, m) BY <3>6
        <4>2. \A j \in (k + 1)..Len(c) : j \in 1..Len(c) BY <1>1
        <4>3. ReadAnew(c, q, m, t) BY <3>3, <3>5, <4>1, <4>2 DEF ReadAnew, Coming
        <4>4. QED BY <4>3 DEF RowsAddUp
      <3>7. CASE ~ \E k \in 1..Len(c) : IsOf("Docked", c, k, m)
        <4> DEFINE h == [k \in 0..Len(c) |-> a[m][t].amount]
        <4>1. /\ h \in [0..Len(c) -> Int] /\ h[0] = a[m][t].amount /\ h[Len(c)] = a[m][t].amount
              /\ \A k \in 1..Len(c) : h[k] = h[k - 1] /\ h[k] \in Int
          BY <1>1
        <4>2. \A k \in 1..Len(c) : StepBy(c, k, m, t) = 0 BY <3>5 DEF StepBy, MovesPair
        <4> HIDE DEF h
        <4>3. \A k \in 1..Len(c) : h[k] = h[k - 1] + StepBy(c, k, m, t) BY <4>1, <4>2
        <4>4. AddsUpTo(c, RowNow(q, m, t), a[m][t].amount, m, t) BY <3>4, <4>1, <4>3 DEF AddsUpTo
        <4>5. QED BY <3>7, <4>4 DEF RowsAddUp, NeverRead
      <3>8. QED BY <3>6, <3>7
    <2>4. QED BY <2>2, <2>3
  <1>5. CASE NeverRead(b, r, m, t) /\ AddsUpTo(b, RowNow(r, m, t), a[m][t].amount, m, t)
    <2>1. NeverRead(c, q, m, t) BY <1>2, <1>3, <1>5 DEF NeverRead
    <2>2. PICK g \in [0..Len(b) -> Int] :
            /\ g[0] = RowNow(r, m, t) /\ g[Len(b)] = a[m][t].amount
            /\ \A i \in 1..Len(b) : g[i] = g[i - 1] + StepBy(b, i, m, t)
      BY <1>5 DEF AddsUpTo
    <2>3. 1 \in 1..Len(b) /\ 1 - 1 = 0 BY <1>1
    <2>4. g[1] = RowNow(r, m, t) + StepBy(b, 1, m, t)
      <3>1. g[1] = g[1 - 1] + StepBy(b, 1, m, t) BY <2>2, <2>3
      <3>2. QED BY <2>2, <2>3, <3>1
    <2>5. RowNow(q, m, t) = g[1]
      <3>1. CASE ~IsOf("Docked", b, 1, m) BY <2>4, <3>1
      <3>2. CASE IsOf("Docked", b, 1, m)
        <4>1. ~Coming(r, b, 1, m, t) BY <1>5, <2>3, <3>2 DEF NeverRead
        <4>2. ~Rowed(r, m, t) BY <4>1 DEF Coming
        <4>3. ~Pushes(b, 1, m, t) /\ ~PullsOut(b, 1, m, t) BY <3>2 DEF Pushes, PullsOut, IsOf
        <4>4. ~Rowed(q, m, t) BY <4>2, <4>3
        <4>5. RowNow(q, m, t) = 0 /\ RowNow(r, m, t) = 0 BY <4>2, <4>4 DEF RowNow
        <4>6. StepBy(b, 1, m, t) = 0 BY <4>3 DEF StepBy
        <4>7. QED BY <2>4, <4>5, <4>6
      <3>3. QED BY <3>1, <3>2
    <2> DEFINE h == [k \in 0..Len(c) |-> g[k + 1]]
    <2>6. \A k \in 0..Len(c) : k + 1 \in 0..Len(b) BY <1>1
    <2>7. h \in [0..Len(c) -> Int] BY <2>6
    <2>8. h[0] = g[1] /\ h[Len(c)] = g[Len(b)]
      <3>1. 0 \in 0..Len(c) /\ Len(c) \in 0..Len(c) /\ Len(c) + 1 = Len(b) /\ 0 + 1 = 1 BY <1>1
      <3>2. QED BY <3>1
    <2>9. \A k \in 1..Len(c) : h[k] = h[k - 1] + StepBy(c, k, m, t)
      <3>1. TAKE k \in 1..Len(c)
      <3>2. k \in 0..Len(c) /\ k - 1 \in 0..Len(c) /\ (k - 1) + 1 = (k + 1) - 1 /\ k + 1 \in 1..Len(b)
        BY <1>1
      <3>3. h[k] = g[k + 1] /\ h[k - 1] = g[(k + 1) - 1] BY <3>2
      <3>4. g[k + 1] = g[(k + 1) - 1] + StepBy(b, k + 1, m, t) BY <2>2, <3>2
      <3>5. QED BY <1>2, <3>3, <3>4
    <2> HIDE DEF h
    <2>10. AddsUpTo(c, RowNow(q, m, t), a[m][t].amount, m, t)
      BY <2>2, <2>5, <2>7, <2>8, <2>9 DEF AddsUpTo
    <2>11. QED BY <2>1, <2>10 DEF RowsAddUp
  <1>6. QED BY <1>4, <1>5 DEF RowsAddUp

-----------------------------------------------------------------------------
(* A mandate's flag, given what waits. *)

Spendable(a, m) == \E t \in Tokens : Live(a[m][t].count)
QuietFor(b, m) == \A i \in 1..Len(b) : ~IsOf("Shipped", b, i, m) /\ ~IsOf("Docked", b, i, m)
ShipsSpend(a, b, m) == \A i \in 1..Len(b) : IsOf("Shipped", b, i, m) =>
    Spendable(a, m) \/ \E j \in (i + 1)..Len(b) : IsOf("Docked", b, j, m)
MandateOk(a, b, s, m) ==
    /\ s[m].active => s[m].known
    /\ QuietFor(b, m) => (s[m].active <=> Spendable(a, m))
    /\ ShipsSpend(a, b, m)

LEMMA GrownMandate ==
  ASSUME NEW b \in Seq(BlockEvents), NEW c \in Seq(BlockEvents), Grows(b, c), NEW a, NEW e, NEW s, NEW m,
         MandateOk(a, b, s, m),
         \/ /\ Spendable(e, m) <=> Spendable(a, m)
            /\ \A i \in (Len(b) + 1)..Len(c) : ~IsOf("Shipped", c, i, m) /\ ~IsOf("Docked", c, i, m)
         \/ Len(c) = Len(b) + 1 /\ IsOf("Docked", c, Len(b) + 1, m)
         \/ Len(c) > Len(b) /\ IsOf("Shipped", c, Len(b) + 1, m) /\ Spendable(e, m)
  PROVE  MandateOk(e, c, s, m)
  <1>1. Len(b) \in Nat /\ Len(c) \in Nat /\ Len(b) <= Len(c) BY DEF Grows
  <1>2. \A i \in 1..Len(b) : /\ i \in 1..Len(c)
                             /\ IsOf("Shipped", c, i, m) <=> IsOf("Shipped", b, i, m)
                             /\ IsOf("Docked", c, i, m) <=> IsOf("Docked", b, i, m)
    <2>1. \A i \in 1..Len(b) : c[i] = b[i] /\ i \in 1..Len(c) BY <1>1 DEF Grows
    <2>2. QED BY <2>1 DEF IsOf
  <1>3. \A i \in 1..Len(c) : i \in 1..Len(b) \/ i \in (Len(b) + 1)..Len(c) BY <1>1
  <1>4. \A i \in 1..Len(b) : \A j \in (i + 1)..Len(b) : j \in (i + 1)..Len(c) /\ j \in 1..Len(b)
    BY <1>1
  <1>5. s[m].active => s[m].known BY DEF MandateOk
  <1>6. CASE /\ Spendable(e, m) <=> Spendable(a, m)
             /\ \A i \in (Len(b) + 1)..Len(c) : ~IsOf("Shipped", c, i, m) /\ ~IsOf("Docked", c, i, m)
    <2>1. QuietFor(c, m) => QuietFor(b, m) BY <1>2 DEF QuietFor
    <2>2. ShipsSpend(e, c, m)
      <3>1. SUFFICES ASSUME NEW i \in 1..Len(c), IsOf("Shipped", c, i, m), ~Spendable(e, m)
                     PROVE  \E j \in (i + 1)..Len(c) : IsOf("Docked", c, j, m)
        BY DEF ShipsSpend
      <3>2. i \in 1..Len(b) /\ IsOf("Shipped", b, i, m) BY <1>2, <1>3, <1>6, <3>1
      <3>3. PICK j \in (i + 1)..Len(b) : IsOf("Docked", b, j, m)
        BY <1>6, <3>1, <3>2 DEF MandateOk, ShipsSpend
      <3>4. QED BY <1>2, <1>4, <3>2, <3>3
    <2>3. QED BY <1>5, <1>6, <2>1, <2>2 DEF MandateOk
  <1>7. CASE Len(c) = Len(b) + 1 /\ IsOf("Docked", c, Len(b) + 1, m)
    <2>1. Len(b) + 1 \in 1..Len(c) BY <1>1, <1>7
    <2>2. ~QuietFor(c, m) BY <1>7, <2>1 DEF QuietFor
    <2>3. ~IsOf("Shipped", c, Len(b) + 1, m) BY <1>7 DEF IsOf
    <2>4. \A i \in 1..Len(c) : i # Len(b) + 1 => Len(b) + 1 \in (i + 1)..Len(c) BY <1>1, <1>7
    <2>5. ShipsSpend(e, c, m) BY <1>7, <2>3, <2>4 DEF ShipsSpend
    <2>6. QED BY <1>5, <2>2, <2>5 DEF MandateOk
  <1>8. CASE Len(c) > Len(b) /\ IsOf("Shipped", c, Len(b) + 1, m) /\ Spendable(e, m)
    <2>1. Len(b) + 1 \in 1..Len(c) BY <1>1, <1>8
    <2>2. ~QuietFor(c, m) BY <1>8, <2>1 DEF QuietFor
    <2>3. QED BY <1>5, <1>8, <2>2 DEF MandateOk, ShipsSpend
  <1>9. QED BY <1>6, <1>7, <1>8

LEMMA HandledMandate ==
  ASSUME NEW b \in Seq(BlockEvents), NEW c \in Seq(BlockEvents), Shrinks(b, c), NEW a, NEW s, NEW u, NEW m,
         MandateOk(a, b, s, m), u[m].active => u[m].known,
         \/ u[m] = s[m] /\ ~IsOf("Shipped", b, 1, m) /\ ~IsOf("Docked", b, 1, m)
         \/ IsOf("Shipped", b, 1, m) /\ u[m].active
         \/ QuietFor(c, m) => (u[m].active <=> Spendable(a, m))
  PROVE  MandateOk(a, c, u, m)
  <1>1. Len(b) \in Nat /\ Len(c) \in Nat /\ Len(c) = Len(b) - 1 /\ Len(b) >= 1 BY DEF Shrinks
  <1>2. \A i \in 1..Len(c) : /\ i + 1 \in 1..Len(b)
                             /\ IsOf("Shipped", c, i, m) <=> IsOf("Shipped", b, i + 1, m)
                             /\ IsOf("Docked", c, i, m) <=> IsOf("Docked", b, i + 1, m)
    BY TailAll
  <1>3. \A j \in 1..Len(b) : j = 1 \/ (j - 1 \in 1..Len(c) /\ (j - 1) + 1 = j) BY <1>1
  <1>4. ShipsSpend(a, c, m)
    <2>1. SUFFICES ASSUME NEW i \in 1..Len(c), IsOf("Shipped", c, i, m), ~Spendable(a, m)
                   PROVE  \E j \in (i + 1)..Len(c) : IsOf("Docked", c, j, m)
      BY DEF ShipsSpend
    <2>2. PICK j \in ((i + 1) + 1)..Len(b) : IsOf("Docked", b, j, m)
      BY <1>2, <2>1 DEF MandateOk, ShipsSpend
    <2>3. j - 1 \in (i + 1)..Len(c) /\ j - 1 \in 1..Len(c) /\ (j - 1) + 1 = j BY <1>1
    <2>4. IsOf("Docked", c, j - 1, m) BY <1>2, <2>2, <2>3
    <2>5. QED BY <2>3, <2>4
  <1>5. QuietFor(c, m) => (u[m].active <=> Spendable(a, m))
    <2>1. SUFFICES ASSUME QuietFor(c, m) PROVE u[m].active <=> Spendable(a, m) OBVIOUS
    <2>2. \A j \in 1..Len(b) : j # 1 => ~IsOf("Shipped", b, j, m) /\ ~IsOf("Docked", b, j, m)
      <3>1. TAKE j \in 1..Len(b)
      <3>2. HAVE j # 1
      <3>3. j - 1 \in 1..Len(c) /\ (j - 1) + 1 = j BY <1>3, <3>2
      <3>4. ~IsOf("Shipped", c, j - 1, m) /\ ~IsOf("Docked", c, j - 1, m) BY <2>1, <3>3 DEF QuietFor
      <3>5. QED BY <1>2, <3>3, <3>4
    <2>3. CASE u[m] = s[m] /\ ~IsOf("Shipped", b, 1, m) /\ ~IsOf("Docked", b, 1, m)
      <3>1. QuietFor(b, m) BY <2>2, <2>3 DEF QuietFor
      <3>2. QED BY <2>3, <3>1 DEF MandateOk
    <2>4. CASE IsOf("Shipped", b, 1, m) /\ u[m].active
      <3>1. 1 \in 1..Len(b) /\ \A j \in (1 + 1)..Len(b) : j \in 1..Len(b) /\ j # 1 BY <1>1
      <3>2. Spendable(a, m) BY <2>2, <2>4, <3>1 DEF MandateOk, ShipsSpend
      <3>3. QED BY <2>4, <3>2
    <2>5. QED BY <2>1, <2>3, <2>4
  <1>6. QED BY <1>4, <1>5 DEF MandateOk

-----------------------------------------------------------------------------
(* The inductive invariant. *)

IndexTypes ==
    /\ aqua \in [Mandates -> [Tokens -> [amount : 0..MaxAmount, count : Nat]]]
    /\ block \in Seq(BlockEvents) /\ Len(block) =< MaxEvents /\ handling \in BOOLEAN
    /\ blocks \in 0..MaxBlocks
    /\ mandates \in [Mandates -> [known : BOOLEAN, active : BOOLEAN]]
    /\ DOMAIN balances \subseteq Mandates \X Tokens
    /\ balances \in [DOMAIN balances -> [amount : Int, count : Nat]]
    /\ \A m \in Mandates, t \in Tokens : Rowed(balances, m, t) => mandates[m].known
    /\ counts \in [mandate : Nat, active : Int]
    /\ revivals \in Nat /\ muddled \subseteq Mandates \X Tokens

Actives == {m \in Mandates : mandates[m].active}
IndexInv ==
    /\ IndexTypes
    /\ \A m \in Mandates : MandateOk(aqua, block, mandates, m)
    /\ \A m \in Mandates, t \in Tokens : PairOk(aqua, block, mandates, balances, m, t)
    /\ \A m \in Mandates, t \in Tokens :
          <<m, t>> \notin muddled => RowsAddUp(aqua, block, balances, m, t)
    /\ counts.active + revivals = Cardinality(Actives)

LEMMA IndexBounds ==
  /\ IsFiniteSet(Mandates) /\ IsFiniteSet(Tokens) /\ Tokens # {} /\ Cardinality(Tokens) < 255
  /\ MaxEvents \in Nat /\ MaxBlocks \in Nat /\ MaxAmount \in Nat /\ Amounts \subseteq 0..MaxAmount
  BY IndexAssumption DEF IndexAssumption, Docked

\* What a step of the chain has to show.
LEMMA ChainStep ==
  ASSUME IndexInv, UNCHANGED <<handling, blocks, mandates, balances, counts, revivals>>,
         aqua' \in [Mandates -> [Tokens -> [amount : 0..MaxAmount, count : Nat]]],
         block' \in Seq(BlockEvents), Len(block') =< MaxEvents, muddled' \subseteq Mandates \X Tokens,
         \A m \in Mandates : MandateOk(aqua', block', mandates, m),
         \A m \in Mandates, t \in Tokens : PairOk(aqua', block', mandates, balances, m, t),
         \A m \in Mandates, t \in Tokens :
            <<m, t>> \notin muddled' => RowsAddUp(aqua', block', balances, m, t)
  PROVE  IndexInv'
  <1>1. IndexTypes' BY DEF IndexInv, IndexTypes
  <1>2. (counts.active + revivals = Cardinality(Actives))' BY DEF IndexInv, Actives
  <1>3. QED BY <1>1, <1>2 DEF IndexInv

\* The order tokens are pushed in: each once.
LEMMA OrderOfShip ==
  ASSUME NEW ts \in SUBSET Tokens, ts # {}
  PROVE  /\ Cardinality(ts) \in Nat /\ Cardinality(ts) >= 1 /\ Live(Cardinality(ts))
         /\ SetToSeq(ts) \in [1..Cardinality(ts) -> ts]
         /\ \A t \in ts : \E k \in 1..Cardinality(ts) :
               SetToSeq(ts)[k] = t /\ \A j \in 1..Cardinality(ts) : SetToSeq(ts)[j] = t => j = k
  <1> DEFINE n == Cardinality(ts)
  <1>1. IsFiniteSet(ts) /\ n <= Cardinality(Tokens) BY IndexBounds, FS_Subset
  <1>2. n \in Nat /\ Bijection(1..n, ts) # {} BY <1>1, FS_CardinalityType DEF ExistsBijection
  <1>3. n # 0 BY <1>1, FS_EmptySet
  <1>4. Cardinality(Tokens) \in Nat BY IndexBounds, FS_CardinalityType
  <1> HIDE DEF n
  <1>5. \E f \in [1..n -> ts] : IsInjective(f) BY <1>2 DEF Bijection, Injection
  <1>6. PICK f \in [1..n -> ts] : f = SetToSeq(ts) /\ IsInjective(f) BY <1>5 DEF SetToSeq, n
  <1>7. IsFiniteSet(1..n) /\ Cardinality(1..n) = n
    <2>1. 1 \in Int /\ n \in Int BY <1>2
    <2>2. IsFiniteSet(1..n) /\ Cardinality(1..n) = IF 1 > n THEN 0 ELSE n - 1 + 1 BY <2>1, FS_Interval
    <2>3. QED BY <1>2, <1>3, <2>2
  <1>8. f \in Surjection(1..n, ts)
    <2>1. f \in Injection(1..n, ts) BY <1>6 DEF Injection
    <2>2. Cardinality(ts) = n BY DEF n
    <2>3. QED BY <1>1, <1>7, <2>1, <2>2, FS_Injection
  <1>9. \A t \in ts : \E k \in 1..n : f[k] = t BY <1>8 DEF Surjection
  <1>10. \A t \in ts : \E k \in 1..n : f[k] = t /\ \A j \in 1..n : f[j] = t => j = k
    BY <1>6, <1>9 DEF IsInjective
  <1>11. Live(n)
    <2>1. Cardinality(Tokens) < 255 BY IndexBounds
    <2>2. n \in Nat /\ n # 0 BY <1>2, <1>3
    <2>3. n <= Cardinality(Tokens) BY <1>1
    <2>4. n \in 1..254 BY <1>4, <2>1, <2>2, <2>3
    <2>5. QED BY <2>4 DEF Live, Docked
  <1>12. QED BY <1>2, <1>3, <1>6, <1>10, <1>11 DEF n

LEMMA AquaShipsKeeps ==
  ASSUME IndexInv, NEW o \in Mandates, NEW ts \in SUBSET Tokens, NEW x \in Amounts, AquaShips(o, ts, x),
         UNCHANGED <<handling, blocks, mandates, balances, counts, revivals>>
  PROVE  IndexInv'
  <1> DEFINE n == Cardinality(ts)
             order == SetToSeq(ts)
             first == <<Event("Shipped", o, order[1], 0)>>
             rest == [i \in 1..n |-> Event("Pushed", o, order[i], x)]
  <1>1. /\ ts # {} /\ Len(block) + (1 + n) =< MaxEvents /\ \A t \in ts : aqua[o][t].count = 0
        /\ aqua' = [aqua EXCEPT ![o] = [t \in Tokens |->
                      IF t \in ts THEN [amount |-> x, count |-> n] ELSE @[t]]]
        /\ block' = block \o first \o [i \in DOMAIN order |-> Event("Pushed", o, order[i], x)]
        /\ muddled' = muddled
    BY DEF AquaShips, Room
  <1>2. /\ n \in Nat /\ n >= 1 /\ Live(n) /\ order \in [1..n -> ts]
        /\ \A t \in ts : \E k \in 1..n : order[k] = t /\ \A j \in 1..n : order[j] = t => j = k
    BY <1>1, OrderOfShip
  <1>3. x \in 0..MaxAmount /\ 0 \in 0..MaxAmount BY IndexBounds
  <1> HIDE DEF n, order
  <1>4. block \in Seq(BlockEvents) /\ Len(block) \in Nat BY DEF IndexInv, IndexTypes
  <1>5. 1 \in 1..n BY <1>2
  <1>6. first \in Seq(BlockEvents) /\ Len(first) = 1 /\ first[1] = Event("Shipped", o, order[1], 0)
    <2>1. Event("Shipped", o, order[1], 0) \in BlockEvents BY <1>2, <1>3, <1>5 DEF Event, BlockEvents, EventKinds
    <2>2. QED BY <2>1
  <1>7. rest \in Seq(BlockEvents) /\ Len(rest) = n
        /\ \A k \in 1..n : rest[k] = Event("Pushed", o, order[k], x)
    <2>1. \A k \in 1..n : Event("Pushed", o, order[k], x) \in BlockEvents
      BY <1>2, <1>3 DEF Event, BlockEvents, EventKinds
    <2>2. QED BY <1>2, <2>1
  <1>8. block' = (block \o first) \o rest BY <1>1, <1>2
  <1> DEFINE c == block'
  <1> HIDE DEF first, rest
  <1>9. /\ c \in Seq(BlockEvents) /\ Len(c) = Len(block) + 1 + n
        /\ \A i \in 1..Len(block) : c[i] = block[i]
        /\ c[Len(block) + 1] = Event("Shipped", o, order[1], 0)
        /\ \A k \in 1..n : c[Len(block) + 1 + k] = Event("Pushed", o, order[k], x)
    <2>1. /\ block \o first \in Seq(BlockEvents) /\ Len(block \o first) = Len(block) + Len(first)
          /\ \A i \in 1..(Len(block) + Len(first)) :
                (block \o first)[i] = IF i <= Len(block) THEN block[i] ELSE first[i - Len(block)]
      BY <1>4, <1>6, ConcatProperties
    <2>2. /\ Len(block) + 1 \in 1..(Len(block) + 1) /\ ~(Len(block) + 1 <= Len(block))
          /\ (Len(block) + 1) - Len(block) = 1
          /\ \A i \in 1..Len(block) : i \in 1..(Len(block) + 1) /\ i <= Len(block)
      BY <1>4
    <2>3. /\ block \o first \in Seq(BlockEvents) /\ Len(block \o first) = Len(block) + 1
          /\ \A i \in 1..Len(block) : (block \o first)[i] = block[i]
          /\ (block \o first)[Len(block) + 1] = first[1]
      BY <1>6, <2>1, <2>2
    <2> DEFINE d == block \o first
    <2> HIDE DEF d
    <2>4. /\ d \in Seq(BlockEvents) /\ Len(d) = Len(block) + 1
          /\ \A i \in 1..Len(block) : d[i] = block[i]
          /\ d[Len(block) + 1] = first[1] /\ c = d \o rest
      BY <1>8, <2>3 DEF d
    <2>5. /\ d \o rest \in Seq(BlockEvents) /\ Len(d \o rest) = Len(d) + n
          /\ \A i \in 1..(Len(d) + n) : (d \o rest)[i] = IF i <= Len(d) THEN d[i] ELSE rest[i - Len(d)]
      BY <1>7, <2>4, ConcatProperties
    <2>6. \A i \in 1..(Len(block) + 1) : c[i] = d[i] BY <1>2, <1>4, <2>4, <2>5
    <2>7. \A k \in 1..n : c[Len(block) + 1 + k] = rest[k]
      <3>1. TAKE k \in 1..n
      <3>2. /\ Len(block) + 1 + k \in 1..(Len(d) + n) /\ ~(Len(block) + 1 + k <= Len(d))
            /\ (Len(block) + 1 + k) - Len(d) = k
        BY <1>2, <1>4, <2>4
      <3>3. QED BY <2>4, <2>5, <3>2
    <2>8. \A i \in 1..Len(block) : i \in 1..(Len(block) + 1) BY <1>4
    <2>9. Len(block) + 1 \in 1..(Len(block) + 1) BY <1>4
    <2>10. QED BY <1>6, <1>7, <2>4, <2>5, <2>6, <2>7, <2>8, <2>9
  <1>10. /\ Grows(block, c) /\ Len(c) > Len(block) /\ IsOf("Shipped", c, Len(block) + 1, o)
    BY <1>2, <1>4, <1>9 DEF Grows, IsOf, Event
  <1>11. \A i \in (Len(block) + 1)..Len(c) : i = Len(block) + 1 \/ \E k \in 1..n : i = Len(block) + 1 + k
    <2>1. TAKE i \in (Len(block) + 1)..Len(c)
    <2>2. CASE i # Len(block) + 1
      <3>1. i - (Len(block) + 1) \in 1..n /\ i = Len(block) + 1 + (i - (Len(block) + 1))
        BY <1>2, <1>4, <1>9, <2>2
      <3>2. QED BY <3>1
    <2>3. QED BY <2>2
  <1> HIDE DEF c
  <1>12. \A i \in (Len(block) + 1)..Len(c) :
            /\ \A m : ~IsOf("Docked", c, i, m)
            /\ \A m : m # o => ~IsOf("Shipped", c, i, m)
            /\ \A m, t : MovesPair(c, i, m, t)
                  => m = o /\ \E k \in 1..n : i = Len(block) + 1 + k /\ order[k] = t
    <2>1. TAKE i \in (Len(block) + 1)..Len(c)
    <2>2. CASE i = Len(block) + 1
      <3>1. c[i].kind = "Shipped" /\ c[i].mandate = o BY <1>9, <2>2 DEF Event
      <3>2. QED BY <3>1 DEF IsOf, MovesPair, Pushes, PullsOut
    <2>3. CASE \E k \in 1..n : i = Len(block) + 1 + k
      <3>1. PICK k \in 1..n : i = Len(block) + 1 + k BY <2>3
      <3>2. c[Len(block) + 1 + k] = Event("Pushed", o, order[k], x) BY <1>9
      <3>3. c[i].kind = "Pushed" /\ c[i].mandate = o /\ c[i].token = order[k]
        BY <3>1, <3>2 DEF Event
      <3>4. \A m, t : MovesPair(c, i, m, t) => m = o /\ order[k] = t
        BY <3>3 DEF IsOf, MovesPair, Pushes, PullsOut
      <3>5. \A m : ~IsOf("Docked", c, i, m) /\ ~IsOf("Shipped", c, i, m) BY <3>3 DEF IsOf
      <3>6. QED BY <3>1, <3>4, <3>5
    <2>4. QED BY <1>11, <2>2, <2>3
  <1>13. /\ aqua \in [Mandates -> [Tokens -> [amount : 0..MaxAmount, count : Nat]]]
         /\ aqua' \in [Mandates -> [Tokens -> [amount : 0..MaxAmount, count : Nat]]]
         /\ \A m \in Mandates : m # o => aqua'[m] = aqua[m]
         /\ \A t \in Tokens : aqua'[o][t] = IF t \in ts THEN [amount |-> x, count |-> n] ELSE aqua[o][t]
    <2>1. aqua \in [Mandates -> [Tokens -> [amount : 0..MaxAmount, count : Nat]]]
      BY DEF IndexInv, IndexTypes
    <2>2. [t \in Tokens |-> IF t \in ts THEN [amount |-> x, count |-> n] ELSE aqua[o][t]]
            \in [Tokens -> [amount : 0..MaxAmount, count : Nat]]
      BY <1>2, <1>3, <2>1
    <2>3. QED BY <1>1, <2>1, <2>2
  <1>14. c \in Seq(BlockEvents) /\ block \in Seq(BlockEvents) /\ Grows(block, c) BY <1>4, <1>9, <1>10
  <1>15. ASSUME NEW m \in Mandates, NEW t \in Tokens
         PROVE  /\ PairOk(aqua', c, mandates, balances, m, t)
                /\ <<m, t>> \notin muddled' => RowsAddUp(aqua', c, balances, m, t)
    <2>1. /\ PairOk(aqua, block, mandates, balances, m, t)
          /\ <<m, t>> \notin muddled => RowsAddUp(aqua, block, balances, m, t)
      BY DEF IndexInv
    <2>2. CASE m = o /\ t \in ts
      <3>1. PICK k \in 1..n : order[k] = t /\ \A j \in 1..n : order[j] = t => j = k BY <1>2, <2>2
      <3>2. Len(block) + 1 + k \in (Len(block) + 2)..Len(c) BY <1>2, <1>4, <1>9
      <3>3. c[Len(block) + 1 + k] = Event("Pushed", o, t, x) BY <1>9, <3>1
      <3>4. Pushes(c, Len(block) + 1 + k, m, t) /\ c[Len(block) + 1 + k].amount = x
        BY <2>2, <3>3 DEF Pushes, IsOf, Event
      <3>5. /\ aqua'[m][t].amount = x /\ x \in Int /\ aqua'[m][t].count # 0 /\ aqua[m][t].count = 0
        BY <1>1, <1>2, <1>3, <1>13, <2>2
      <3>6. \A i \in (Len(block) + 1)..Len(c) :
              ~IsOf("Docked", c, i, m) /\ (i # Len(block) + 1 + k => ~MovesPair(c, i, m, t))
        BY <1>12, <3>1
      <3>7. IsOf("Shipped", c, Len(block) + 1, m) BY <1>10, <2>2
      <3>8. Len(c) > Len(block) BY <1>10
      <3>9. c[Len(block) + 1 + k].amount = aqua'[m][t].amount BY <3>4, <3>5
      <3>10. aqua'[m][t].amount \in Int BY <3>5
      <3>11. PairOk(aqua', c, mandates, balances, m, t) /\ RowsAddUp(aqua', c, balances, m, t)
        BY ZenonT(40), <1>14, <2>1, <3>2, <3>4, <3>5, <3>6, <3>7, <3>8, <3>9, <3>10, ShipGrowth
      <3>12. QED BY <3>11
    <2>3. CASE ~(m = o /\ t \in ts)
      <3>1. aqua'[m][t] = aqua[m][t] BY <1>13, <2>3
      <3>2. \A i \in (Len(block) + 1)..Len(c) : ~MovesPair(c, i, m, t) /\ ~IsOf("Docked", c, i, m)
        BY <1>2, <1>12, <2>3
      <3>3. PairOk(aqua', c, mandates, balances, m, t) BY <1>14, <2>1, <3>1, <3>2, QuietGrowth
      <3>4. <<m, t>> \notin muddled => RowsAddUp(aqua', c, balances, m, t)
        BY <1>14, <2>1, <3>1, <3>2, QuietGrowth
      <3>5. QED BY <1>1, <3>3, <3>4
    <2>4. QED BY <2>2, <2>3
  <1>16. ASSUME NEW m \in Mandates PROVE MandateOk(aqua', c, mandates, m)
    <2>1. MandateOk(aqua, block, mandates, m) BY DEF IndexInv
    <2>2. CASE m = o
      <3>1. PICK t \in Tokens : t \in ts BY <1>1
      <3>2. Live(aqua'[o][t].count) BY <1>2, <1>13, <3>1
      <3>3. Spendable(aqua', m) BY <2>2, <3>2 DEF Spendable
      <3>4. QED BY <1>4, <1>9, <1>10, <2>1, <2>2, <3>3, GrownMandate
    <2>3. CASE m # o
      <3>1. Spendable(aqua', m) <=> Spendable(aqua, m) BY <1>13, <2>3 DEF Spendable
      <3>2. QED BY <1>4, <1>9, <1>10, <1>12, <2>1, <2>3, <3>1, GrownMandate
    <2>4. QED BY <2>2, <2>3
  <1>17. Len(c) =< MaxEvents BY <1>1, <1>2, <1>4, <1>9, IndexBounds
  <1>18. muddled' \subseteq Mandates \X Tokens BY <1>1 DEF IndexInv, IndexTypes
  <1>19. QED BY <1>9, <1>13, <1>15, <1>16, <1>17, <1>18, ChainStep DEF c

LEMMA AppendGrows ==
  ASSUME NEW b \in Seq(BlockEvents), NEW v \in BlockEvents
  PROVE  /\ Append(b, v) \in Seq(BlockEvents) /\ Len(Append(b, v)) = Len(b) + 1
         /\ Grows(b, Append(b, v)) /\ Append(b, v)[Len(b) + 1] = v
         /\ \A i \in (Len(b) + 1)..Len(Append(b, v)) : i = Len(b) + 1
  <1>1. Len(b) \in Nat OBVIOUS
  <1>2. /\ Append(b, v) \in Seq(BlockEvents) /\ Len(Append(b, v)) = Len(b) + 1
        /\ \A i \in 1..Len(b) : Append(b, v)[i] = b[i]
        /\ Append(b, v)[Len(b) + 1] = v
    BY AppendProperties
  <1>3. QED BY <1>1, <1>2 DEF Grows

LEMMA AquaDocksKeeps ==
  ASSUME IndexInv, NEW o \in Mandates, NEW ts \in SUBSET Tokens, AquaDocks(o, ts),
         UNCHANGED <<handling, blocks, mandates, balances, counts, revivals>>
  PROVE  IndexInv'
  <1> DEFINE v == Event("Docked", o, CHOOSE t \in Tokens : TRUE, 0)
             c == block'
  <1>1. /\ Len(block) + 1 =< MaxEvents /\ \A t \in ts : Live(aqua[o][t].count)
        /\ aqua' = [aqua EXCEPT ![o] = [t \in Tokens |->
                      IF t \in ts THEN [amount |-> 0, count |-> Docked] ELSE @[t]]]
        /\ c = Append(block, v)
        /\ muddled' = {p \in muddled : p[1] # o}
    BY DEF AquaDocks, Room
  <1>2. v \in BlockEvents /\ v.kind = "Docked" /\ v.mandate = o
    BY IndexBounds DEF Event, BlockEvents, EventKinds
  <1> HIDE DEF v, c
  <1>3. block \in Seq(BlockEvents) /\ Len(block) \in Nat BY DEF IndexInv, IndexTypes
  <1>4. /\ c \in Seq(BlockEvents) /\ Len(c) = Len(block) + 1 /\ Grows(block, c)
        /\ c[Len(block) + 1] = v /\ \A i \in (Len(block) + 1)..Len(c) : i = Len(block) + 1
    BY <1>1, <1>2, <1>3, AppendGrows
  <1>5. /\ IsOf("Docked", c, Len(block) + 1, o)
        /\ \A m : m # o => ~IsOf("Docked", c, Len(block) + 1, m)
        /\ \A m : ~IsOf("Shipped", c, Len(block) + 1, m)
        /\ \A m, t : ~MovesPair(c, Len(block) + 1, m, t)
    BY <1>2, <1>4 DEF IsOf, MovesPair, Pushes, PullsOut
  <1>6. /\ aqua \in [Mandates -> [Tokens -> [amount : 0..MaxAmount, count : Nat]]]
        /\ aqua' \in [Mandates -> [Tokens -> [amount : 0..MaxAmount, count : Nat]]]
        /\ \A m \in Mandates : m # o => aqua'[m] = aqua[m]
        /\ \A t \in Tokens : aqua'[o][t] = IF t \in ts THEN [amount |-> 0, count |-> Docked] ELSE aqua[o][t]
    <2>1. aqua \in [Mandates -> [Tokens -> [amount : 0..MaxAmount, count : Nat]]]
      BY DEF IndexInv, IndexTypes
    <2>2. 0 \in 0..MaxAmount /\ Docked \in Nat BY IndexBounds DEF Docked
    <2>3. [t \in Tokens |-> IF t \in ts THEN [amount |-> 0, count |-> Docked] ELSE aqua[o][t]]
            \in [Tokens -> [amount : 0..MaxAmount, count : Nat]]
      BY <2>1, <2>2
    <2>4. QED BY <1>1, <2>1, <2>3
  <1>7. muddled' \subseteq Mandates \X Tokens /\ muddled' \subseteq muddled
        /\ \A m, t : m # o /\ <<m, t>> \in muddled => <<m, t>> \in muddled'
    BY <1>1 DEF IndexInv, IndexTypes
  <1>8. ASSUME NEW m \in Mandates, NEW t \in Tokens
        PROVE  /\ PairOk(aqua', c, mandates, balances, m, t)
               /\ <<m, t>> \notin muddled' => RowsAddUp(aqua', c, balances, m, t)
    <2>1. /\ PairOk(aqua, block, mandates, balances, m, t)
          /\ <<m, t>> \notin muddled => RowsAddUp(aqua, block, balances, m, t)
      BY DEF IndexInv
    <2>2. CASE m = o
      <3>1. aqua[m][t].amount \in Int BY <1>6
      <3>2. aqua'[m][t] = aqua[m][t] \/ (aqua[m][t].count # 0 /\ aqua'[m][t].count = Docked)
        <4>1. \A n : Live(n) => n # 0 BY DEF Live
        <4>2. QED BY <1>1, <1>6, <2>2, <4>1
      <3>3. PairOk(aqua', c, mandates, balances, m, t) /\ RowsAddUp(aqua', c, balances, m, t)
        BY <1>3, <1>4, <1>5, <2>1, <2>2, <3>1, <3>2, DockGrowth
      <3>4. QED BY <3>3
    <2>3. CASE m # o
      <3>1. aqua'[m][t] = aqua[m][t] BY <1>6, <2>3
      <3>2. \A i \in (Len(block) + 1)..Len(c) : ~MovesPair(c, i, m, t) /\ ~IsOf("Docked", c, i, m)
        BY <1>4, <1>5, <2>3
      <3>3. PairOk(aqua', c, mandates, balances, m, t) BY <1>3, <1>4, <2>1, <3>1, <3>2, QuietGrowth
      <3>4. <<m, t>> \notin muddled => RowsAddUp(aqua', c, balances, m, t)
        BY <1>3, <1>4, <2>1, <3>1, <3>2, QuietGrowth
      <3>5. QED BY <1>7, <2>3, <3>3, <3>4
    <2>4. QED BY <2>2, <2>3
  <1>9. ASSUME NEW m \in Mandates PROVE MandateOk(aqua', c, mandates, m)
    <2>1. MandateOk(aqua, block, mandates, m) BY DEF IndexInv
    <2>2. CASE m = o BY <1>3, <1>4, <1>5, <2>1, <2>2, GrownMandate
    <2>3. CASE m # o
      <3>1. Spendable(aqua', m) <=> Spendable(aqua, m) BY <1>6, <2>3 DEF Spendable
      <3>2. \A i \in (Len(block) + 1)..Len(c) : ~IsOf("Shipped", c, i, m) /\ ~IsOf("Docked", c, i, m)
        BY <1>4, <1>5, <2>3
      <3>3. QED BY <1>3, <1>4, <2>1, <3>1, <3>2, GrownMandate
    <2>4. QED BY <2>2, <2>3
  <1>10. Len(c) =< MaxEvents BY <1>1, <1>4
  <1>11. QED BY <1>4, <1>6, <1>7, <1>8, <1>9, <1>10, ChainStep DEF c

LEMMA AquaMovesKeeps ==
  ASSUME IndexInv, NEW kind \in {"Pushed", "Pulled"}, NEW o \in Mandates, NEW u \in Tokens,
         NEW x \in Amounts, AquaMoves(kind, o, u, x),
         UNCHANGED <<handling, blocks, mandates, balances, counts, revivals>>
  PROVE  IndexInv'
  <1> DEFINE v == Event(kind, o, u, x)
             c == block'
             by == IF kind = "Pushed" THEN x ELSE -x
  <1>1. /\ Len(block) + 1 =< MaxEvents /\ Live(aqua[o][u].count)
        /\ IF kind = "Pushed" THEN aqua[o][u].amount + x =< MaxAmount ELSE x =< aqua[o][u].amount
        /\ aqua' = [aqua EXCEPT ![o][u].amount = IF kind = "Pushed" THEN @ + x ELSE @ - x]
        /\ c = Append(block, v)
        /\ muddled' = IF ReadByADock(o, u) THEN muddled \cup {<<o, u>>} ELSE muddled
    BY DEF AquaMoves, Room
  <1>2. x \in 0..MaxAmount /\ MaxAmount \in Nat BY IndexBounds
  <1>3. v \in BlockEvents /\ v.kind = kind /\ v.mandate = o /\ v.token = u /\ v.amount = x
    BY <1>2 DEF Event, BlockEvents, EventKinds
  <1> HIDE DEF v, c
  <1>4. block \in Seq(BlockEvents) /\ Len(block) \in Nat BY DEF IndexInv, IndexTypes
  <1>5. /\ c \in Seq(BlockEvents) /\ Len(c) = Len(block) + 1 /\ Grows(block, c)
        /\ c[Len(block) + 1] = v /\ \A i \in (Len(block) + 1)..Len(c) : i = Len(block) + 1
    BY <1>1, <1>3, <1>4, AppendGrows
  <1>6. /\ \A m : ~IsOf("Docked", c, Len(block) + 1, m) /\ ~IsOf("Shipped", c, Len(block) + 1, m)
        /\ \A m, t : MovesPair(c, Len(block) + 1, m, t) <=> m = o /\ t = u
        /\ StepBy(c, Len(block) + 1, o, u) = by
    BY <1>3, <1>5 DEF IsOf, MovesPair, Pushes, PullsOut, StepBy
  <1>7. /\ aqua \in [Mandates -> [Tokens -> [amount : 0..MaxAmount, count : Nat]]]
        /\ aqua' \in [Mandates -> [Tokens -> [amount : 0..MaxAmount, count : Nat]]]
        /\ \A m \in Mandates, t \in Tokens : ~(m = o /\ t = u) => aqua'[m][t] = aqua[m][t]
        /\ aqua'[o][u].count = aqua[o][u].count /\ aqua'[o][u].amount = aqua[o][u].amount + by
    <2>1. aqua \in [Mandates -> [Tokens -> [amount : 0..MaxAmount, count : Nat]]]
      BY DEF IndexInv, IndexTypes
    <2> DEFINE row == [aqua[o][u] EXCEPT !.amount = aqua[o][u].amount + by]
    <2>2. aqua[o][u].amount + by \in 0..MaxAmount BY <1>1, <1>2, <2>1
    <2>3. row \in [amount : 0..MaxAmount, count : Nat] BY <2>1, <2>2
    <2>4. row.count = aqua[o][u].count /\ row.amount = aqua[o][u].amount + by BY <2>1
    <2>5. aqua' = [aqua EXCEPT ![o][u] = row] BY <1>1, <1>2, <2>1
    <2> HIDE DEF row
    <2>6. QED BY <2>1, <2>3, <2>4, <2>5
  <1>8. muddled' \subseteq Mandates \X Tokens /\ muddled \subseteq muddled'
        /\ \A m, t : ~(m = o /\ t = u) /\ <<m, t>> \in muddled' => <<m, t>> \in muddled
    BY <1>1 DEF IndexInv, IndexTypes
  <1>9. <<o, u>> \notin muddled' => NeverRead(block, balances, o, u)
    <2>1. <<o, u>> \notin muddled' => ~ReadByADock(o, u) BY <1>1
    <2>2. DOMAIN block = 1..Len(block) BY <1>4
    <2>3. ~ReadByADock(o, u) => NeverRead(block, balances, o, u)
      BY <2>2 DEF NeverRead, ReadByADock, Coming, Rowed, Pushes, IsOf
    <2>4. QED BY <2>1, <2>3
  <1> HIDE DEF by
  <1>10. by \in Int BY <1>2 DEF by
  <1>11. \A n : Live(n) => n # 0 BY DEF Live
  <1>12. ASSUME NEW m \in Mandates, NEW t \in Tokens
         PROVE  /\ PairOk(aqua', c, mandates, balances, m, t)
                /\ <<m, t>> \notin muddled' => RowsAddUp(aqua', c, balances, m, t)
    <2>1. /\ PairOk(aqua, block, mandates, balances, m, t)
          /\ <<m, t>> \notin muddled => RowsAddUp(aqua, block, balances, m, t)
          /\ Rowed(balances, m, t) => mandates[m].known
      BY DEF IndexInv, IndexTypes
    <2>2. CASE m = o /\ t = u
      <3>1. aqua[m][t].amount \in Int /\ aqua[m][t].count # 0 BY <1>1, <1>7, <1>11, <2>2
      <3>2. MovesPair(c, Len(block) + 1, m, t) /\ StepBy(c, Len(block) + 1, m, t) \in Int
        BY <1>6, <1>10, <2>2
      <3>3. /\ aqua'[m][t].count = aqua[m][t].count
            /\ aqua'[m][t].amount = aqua[m][t].amount + StepBy(c, Len(block) + 1, m, t)
        BY <1>6, <1>7, <2>2
      <3>4. PairOk(aqua', c, mandates, balances, m, t)
        BY <1>4, <1>5, <2>1, <3>1, <3>2, <3>3, MoveGrowth
      <3>5. RowsAddUp(aqua, block, balances, m, t) /\ NeverRead(block, balances, m, t)
               => RowsAddUp(aqua', c, balances, m, t)
        BY <1>4, <1>5, <2>1, <3>1, <3>2, <3>3, MoveGrowth
      <3>6. QED BY <1>8, <1>9, <2>1, <2>2, <3>4, <3>5
    <2>3. CASE ~(m = o /\ t = u)
      <3>1. aqua'[m][t] = aqua[m][t] BY <1>7, <2>3
      <3>2. \A i \in (Len(block) + 1)..Len(c) : ~MovesPair(c, i, m, t) /\ ~IsOf("Docked", c, i, m)
        BY <1>5, <1>6, <2>3
      <3>3. PairOk(aqua', c, mandates, balances, m, t) BY <1>4, <1>5, <2>1, <3>1, <3>2, QuietGrowth
      <3>4. <<m, t>> \notin muddled => RowsAddUp(aqua', c, balances, m, t)
        BY <1>4, <1>5, <2>1, <3>1, <3>2, QuietGrowth
      <3>5. QED BY <1>8, <2>3, <3>3, <3>4
    <2>4. QED BY <2>2, <2>3
  <1>13. ASSUME NEW m \in Mandates PROVE MandateOk(aqua', c, mandates, m)
    <2>1. MandateOk(aqua, block, mandates, m) BY DEF IndexInv
    <2>2. Spendable(aqua', m) <=> Spendable(aqua, m)
      <3>1. \A t \in Tokens : aqua'[m][t].count = aqua[m][t].count BY <1>7
      <3>2. QED BY <3>1 DEF Spendable
    <2>3. \A i \in (Len(block) + 1)..Len(c) : ~IsOf("Shipped", c, i, m) /\ ~IsOf("Docked", c, i, m)
      BY <1>5, <1>6
    <2>4. QED BY <1>4, <1>5, <2>1, <2>2, <2>3, GrownMandate
  <1>14. Len(c) =< MaxEvents BY <1>1, <1>5
  <1>15. QED BY <1>5, <1>7, <1>8, <1>12, <1>13, <1>14, ChainStep DEF c

LEMMA FirstOfBlock ==
  ASSUME IndexInv, block # <<>>
  PROVE  /\ block \in Seq(BlockEvents) /\ Head(block) = block[1] /\ block[1] \in BlockEvents
         /\ Tail(block) \in Seq(BlockEvents) /\ Shrinks(block, Tail(block)) /\ 1 \in 1..Len(block)
         /\ Len(Tail(block)) =< MaxEvents
  <1>1. block \in Seq(BlockEvents) /\ Len(block) \in Nat /\ Len(block) =< MaxEvents
    BY DEF IndexInv, IndexTypes
  <1>2. /\ Head(block) \in BlockEvents /\ Tail(block) \in Seq(BlockEvents)
        /\ Len(Tail(block)) = Len(block) - 1
        /\ \A i \in 1..Len(Tail(block)) : Tail(block)[i] = block[i + 1]
    BY <1>1, HeadTailProperties
  <1>3. Head(block) = block[1] /\ Len(block) >= 1 BY <1>1, EmptySeq
  <1>4. QED BY <1>1, <1>2, <1>3, IndexBounds DEF Shrinks

\* What a handler has to show.
LEMMA HandleStep ==
  ASSUME IndexInv, block # <<>>, block' = Tail(block), handling' = (Len(block) > 1),
         UNCHANGED <<aqua, blocks, muddled>>,
         mandates' \in [Mandates -> [known : BOOLEAN, active : BOOLEAN]],
         DOMAIN balances' \subseteq Mandates \X Tokens,
         balances' \in [DOMAIN balances' -> [amount : Int, count : Nat]],
         \A m \in Mandates, t \in Tokens : Rowed(balances', m, t) => mandates'[m].known,
         counts' \in [mandate : Nat, active : Int], revivals' \in Nat,
         \A m \in Mandates : MandateOk(aqua, block', mandates', m),
         \A m \in Mandates, t \in Tokens : PairOk(aqua, block', mandates', balances', m, t),
         \A m \in Mandates, t \in Tokens :
            <<m, t>> \notin muddled => RowsAddUp(aqua, block', balances', m, t),
         (counts.active + revivals = Cardinality(Actives))'
  PROVE  IndexInv'
  <1>1. block' \in Seq(BlockEvents) /\ Len(block') =< MaxEvents BY FirstOfBlock
  <1>2. handling' \in BOOLEAN BY DEF IndexInv, IndexTypes
  <1>3. IndexTypes' BY <1>1, <1>2 DEF IndexInv, IndexTypes
  <1>4. aqua' = aqua /\ muddled' = muddled OBVIOUS
  <1>5. QED BY <1>3, <1>4 DEF IndexInv

\* One mandate more that is active, or one less.
LEMMA ActivesChange ==
  ASSUME NEW o \in Mandates
  PROVE  /\ IsFiniteSet(Actives) /\ Cardinality(Actives) \in Nat
         /\ o \in Actives => Cardinality(Actives \ {o}) = Cardinality(Actives) - 1
         /\ o \notin Actives => Cardinality(Actives \cup {o}) = Cardinality(Actives) + 1
  <1>1. IsFiniteSet(Actives)
    <2>1. Actives \subseteq Mandates BY DEF Actives
    <2>2. QED BY <2>1, IndexBounds, FS_Subset
  <1>2. QED BY <1>1, FS_CardinalityType, FS_AddElement, FS_RemoveElement

LEMMA HandleShippedKeeps ==
  ASSUME IndexInv, block # <<>>, block[1].kind = "Shipped", HandleShipped(block[1]),
         block' = Tail(block), handling' = (Len(block) > 1), UNCHANGED <<aqua, blocks, muddled>>
  PROVE  IndexInv'
  <1> DEFINE o == block[1].mandate
             c == block'
  <1>1. /\ mandates' = [mandates EXCEPT ![o] = [known |-> TRUE, active |-> TRUE]]
        /\ counts' = IF mandates[o].known THEN counts
                     ELSE [mandate |-> counts.mandate + 1, active |-> counts.active + 1]
        /\ revivals' = IF mandates[o].known /\ ~mandates[o].active THEN revivals + 1 ELSE revivals
        /\ balances' = balances
    BY DEF HandleShipped, Known
  <1>2. o \in Mandates BY FirstOfBlock DEF BlockEvents
  <1>3. block \in Seq(BlockEvents) /\ c \in Seq(BlockEvents) /\ Shrinks(block, c) BY FirstOfBlock
  <1>4. /\ IsOf("Shipped", block, 1, o)
        /\ \A m : ~IsOf("Docked", block, 1, m)
        /\ \A m : m # o => ~IsOf("Shipped", block, 1, m)
        /\ \A m, t : ~Pushes(block, 1, m, t) /\ ~PullsOut(block, 1, m, t)
    BY DEF IsOf, Pushes, PullsOut
  <1> HIDE DEF o, c
  <1>5. mandates \in [Mandates -> [known : BOOLEAN, active : BOOLEAN]]
    BY DEF IndexInv, IndexTypes
  <1>6. /\ mandates' \in [Mandates -> [known : BOOLEAN, active : BOOLEAN]]
        /\ mandates'[o].known /\ mandates'[o].active
        /\ \A m \in Mandates : m # o => mandates'[m] = mandates[m]
    <2>1. [known |-> TRUE, active |-> TRUE] \in [known : BOOLEAN, active : BOOLEAN] OBVIOUS
    <2>2. QED BY <1>1, <1>2, <1>5, <2>1
  <1>7. ASSUME NEW m \in Mandates, NEW t \in Tokens
        PROVE  /\ PairOk(aqua, c, mandates', balances', m, t)
               /\ <<m, t>> \notin muddled => RowsAddUp(aqua, c, balances', m, t)
    <2>1. /\ PairOk(aqua, block, mandates, balances, m, t)
          /\ <<m, t>> \notin muddled => RowsAddUp(aqua, block, balances, m, t)
          /\ aqua[m][t].amount \in Int /\ RowNow(balances, m, t) \in Int
      BY DEF IndexInv, IndexTypes, RowNow, Rowed
    <2>2. Rowed(balances', m, t) <=> Rowed(balances, m, t) \/ Pushes(block, 1, m, t)
      BY <1>1, <1>4
    <2>3. mandates[m].known \/ IsOf("Shipped", block, 1, m) => mandates'[m].known BY <1>4, <1>6
    <2>4. IsOf("Shipped", block, 1, m) \/ (mandates[m].active /\ ~IsOf("Docked", block, 1, m))
             => mandates'[m].active
      BY <1>4, <1>6
    <2>5. Rowed(balances', m, t) =>
             \/ balances'[<<m, t>>].count = aqua[m][t].count
             \/ /\ Rowed(balances, m, t) /\ balances'[<<m, t>>].count = balances[<<m, t>>].count
                /\ ~IsOf("Docked", block, 1, m)
      BY <1>1, <1>4
    <2>6. InactiveIsSpent(aqua, mandates', balances', m, t)
      BY <1>1, <1>6, <2>1 DEF PairOk, InactiveIsSpent
    <2>7. PairOk(aqua, c, mandates', balances', m, t)
      BY <1>3, <2>1, <2>2, <2>3, <2>4, <2>5, <2>6, HandledPair
    <2>8. RowNow(balances', m, t) = RowNow(balances, m, t) + StepBy(block, 1, m, t)
      BY <1>1, <1>4, <2>1 DEF StepBy
    <2>9. RowsAddUp(aqua, block, balances, m, t) => RowsAddUp(aqua, c, balances', m, t)
      BY <1>3, <1>4, <2>1, <2>2, <2>8, HandledRow
    <2>10. QED BY <2>1, <2>7, <2>9
  <1>8. ASSUME NEW m \in Mandates PROVE MandateOk(aqua, c, mandates', m)
    <2>1. MandateOk(aqua, block, mandates, m) BY DEF IndexInv
    <2>2. mandates'[m].active => mandates'[m].known BY <1>6, <2>1 DEF MandateOk
    <2>3. CASE m = o BY <1>3, <1>4, <1>6, <2>1, <2>2, <2>3, HandledMandate
    <2>4. CASE m # o
      <3>1. mandates'[m] = mandates[m] /\ ~IsOf("Shipped", block, 1, m) /\ ~IsOf("Docked", block, 1, m)
        BY <1>4, <1>6, <2>4
      <3>2. QED BY <1>3, <2>1, <2>2, <3>1, HandledMandate
    <2>5. QED BY <2>3, <2>4
  <1>9. (counts.active + revivals = Cardinality(Actives))'
    <2>1. Actives' = Actives \cup {o} BY <1>2, <1>6 DEF Actives
    <2>2. /\ counts \in [mandate : Nat, active : Int] /\ revivals \in Nat
          /\ counts.active + revivals = Cardinality(Actives)
          /\ mandates[o].active => mandates[o].known
      BY <1>2 DEF IndexInv, IndexTypes, MandateOk
    <2>3. o \in Actives <=> mandates[o].active BY <1>2 DEF Actives
    <2>4. CASE mandates[o].active
      <3>1. Actives' = Actives BY <2>1, <2>3, <2>4
      <3>2. counts' = counts /\ revivals' = revivals BY <1>1, <2>2, <2>4
      <3>3. QED BY <2>2, <3>1, <3>2
    <2>5. CASE ~mandates[o].active
      <3>1. Cardinality(Actives') = Cardinality(Actives) + 1 /\ Cardinality(Actives) \in Nat
        BY <1>2, <2>1, <2>3, <2>5, ActivesChange
      <3>2. counts'.active + revivals' = counts.active + revivals + 1
        <4>1. counts.active \in Int BY <2>2
        <4>2. CASE mandates[o].known
          <5>1. counts' = counts /\ revivals' = revivals + 1 BY <1>1, <2>5, <4>2
          <5>2. QED BY <2>2, <4>1, <5>1
        <4>3. CASE ~mandates[o].known
          <5>1. counts'.active = counts.active + 1 /\ revivals' = revivals BY <1>1, <4>3
          <5>2. QED BY <2>2, <4>1, <5>1
        <4>4. QED BY <4>2, <4>3
      <3>3. QED BY <2>2, <3>1, <3>2
    <2>6. QED BY <2>4, <2>5
  <1>10. /\ DOMAIN balances' \subseteq Mandates \X Tokens
         /\ balances' \in [DOMAIN balances' -> [amount : Int, count : Nat]]
         /\ \A m \in Mandates, t \in Tokens : Rowed(balances', m, t) => mandates'[m].known
    BY <1>1, <1>6 DEF IndexInv, IndexTypes
  <1>11. counts' \in [mandate : Nat, active : Int] /\ revivals' \in Nat
    <2>1. counts \in [mandate : Nat, active : Int] /\ revivals \in Nat BY DEF IndexInv, IndexTypes
    <2>2. [mandate |-> counts.mandate + 1, active |-> counts.active + 1] \in [mandate : Nat, active : Int]
      BY <2>1
    <2>3. QED BY <1>1, <2>1, <2>2
  <1>12. QED BY <1>6, <1>7, <1>8, <1>9, <1>10, <1>11, HandleStep DEF c

LEMMA HandleMovedKeeps ==
  ASSUME IndexInv, block # <<>>, block[1].kind \in {"Pushed", "Pulled"}, HandleMoved(block[1]),
         block' = Tail(block), handling' = (Len(block) > 1), UNCHANGED <<aqua, blocks, muddled>>
  PROVE  IndexInv'
  <1> DEFINE o == block[1].mandate
             u == block[1].token
             c == block'
             by == IF block[1].kind = "Pushed" THEN block[1].amount ELSE -block[1].amount
             row == RowBefore(o, u)
             new == [row EXCEPT !.amount = row.amount + by]
  <1>1. /\ balances' = IF mandates[o].known THEN WithRow(o, u, new) ELSE balances
        /\ mandates' = mandates /\ counts' = counts /\ revivals' = revivals
    BY DEF HandleMoved, Known
  <1>2. o \in Mandates /\ u \in Tokens /\ block[1].amount \in Int /\ by \in Int
    BY FirstOfBlock, IndexBounds DEF BlockEvents
  <1>3. block \in Seq(BlockEvents) /\ c \in Seq(BlockEvents) /\ Shrinks(block, c) /\ 1 \in 1..Len(block)
    BY FirstOfBlock
  <1>4. /\ \A m : ~IsOf("Docked", block, 1, m) /\ ~IsOf("Shipped", block, 1, m)
        /\ \A m, t : MovesPair(block, 1, m, t) <=> m = o /\ t = u
        /\ \A m, t : Pushes(block, 1, m, t) => m = o /\ t = u
        /\ StepBy(block, 1, o, u) = by
        /\ \A m, t : ~(m = o /\ t = u) => StepBy(block, 1, m, t) = 0
        /\ Pushes(block, 1, o, u) \/ PullsOut(block, 1, o, u)
        /\ PullsOut(block, 1, o, u) => ~Pushes(block, 1, o, u)
    BY DEF IsOf, MovesPair, Pushes, PullsOut, StepBy
  <1> HIDE DEF o, u, c, by
  <1>5. /\ mandates \in [Mandates -> [known : BOOLEAN, active : BOOLEAN]]
        /\ aqua \in [Mandates -> [Tokens -> [amount : 0..MaxAmount, count : Nat]]]
        /\ DOMAIN balances \subseteq Mandates \X Tokens
        /\ balances \in [DOMAIN balances -> [amount : Int, count : Nat]]
        /\ PairOk(aqua, block, mandates, balances, o, u)
    BY <1>2 DEF IndexInv, IndexTypes
  <1>6. EventOk(aqua, block, mandates, balances, 1, o, u) BY <1>3, <1>5 DEF PairOk
  <1>7. mandates[o].known
    <2>1. \A j \in 1..(1 - 1) : FALSE OBVIOUS
    <2>2. QED BY <1>4, <1>6, <2>1 DEF EventOk, ShipFirst
  <1>8. PullsOut(block, 1, o, u) => Rowed(balances, o, u)
    <2>1. \A j \in 1..1 : j = 1 OBVIOUS
    <2>2. QED BY <1>4, <1>6, <2>1 DEF EventOk, PushFirst, Coming
  <1>9. /\ row \in [amount : Int, count : Nat] /\ row.amount = RowNow(balances, o, u)
        /\ Rowed(balances, o, u) => row.count = balances[<<o, u>>].count
        /\ ~Rowed(balances, o, u) => row.count = aqua[o][u].count
    BY <1>2, <1>5 DEF RowBefore, RowNow, Rowed
  <1> HIDE DEF row
  <1>10. new \in [amount : Int, count : Nat] /\ new.amount = row.amount + by /\ new.count = row.count
    BY <1>2, <1>9
  <1> HIDE DEF new
  <1>11. /\ DOMAIN balances' = DOMAIN balances \cup {<<o, u>>}
         /\ balances'[<<o, u>>] = new
         /\ \A p \in DOMAIN balances : p # <<o, u>> => balances'[p] = balances[p]
         /\ balances' \in [DOMAIN balances' -> [amount : Int, count : Nat]]
    <2>1. balances' = [p \in DOMAIN balances \cup {<<o, u>>} |-> IF p = <<o, u>> THEN new ELSE balances[p]]
      BY <1>1, <1>7 DEF WithRow
    <2>2. QED BY <1>5, <1>10, <2>1
  <1>12. /\ Rowed(balances', o, u) /\ RowNow(balances', o, u) = RowNow(balances, o, u) + by
         /\ \A m, t : ~(m = o /\ t = u) =>
               /\ Rowed(balances', m, t) <=> Rowed(balances, m, t)
               /\ Rowed(balances, m, t) => balances'[<<m, t>>] = balances[<<m, t>>]
               /\ RowNow(balances', m, t) = RowNow(balances, m, t)
    BY <1>9, <1>10, <1>11 DEF Rowed, RowNow
  <1>13. ASSUME NEW m \in Mandates, NEW t \in Tokens
         PROVE  /\ PairOk(aqua, c, mandates', balances', m, t)
                /\ <<m, t>> \notin muddled => RowsAddUp(aqua, c, balances', m, t)
    <2>1. /\ PairOk(aqua, block, mandates, balances, m, t)
          /\ <<m, t>> \notin muddled => RowsAddUp(aqua, block, balances, m, t)
          /\ aqua[m][t].amount \in Int /\ RowNow(balances, m, t) \in Int
      BY DEF IndexInv, IndexTypes, RowNow, Rowed
    <2>2. Rowed(balances', m, t) <=> Rowed(balances, m, t) \/ Pushes(block, 1, m, t)
      <3>1. CASE m = o /\ t = u BY <1>4, <1>8, <1>12, <3>1
      <3>2. CASE ~(m = o /\ t = u) BY <1>4, <1>12, <3>2
      <3>3. QED BY <3>1, <3>2
    <2>3. /\ mandates[m].known \/ IsOf("Shipped", block, 1, m) => mandates'[m].known
          /\ IsOf("Shipped", block, 1, m) \/ (mandates[m].active /\ ~IsOf("Docked", block, 1, m))
               => mandates'[m].active
      BY <1>1, <1>4
    <2>4. Rowed(balances', m, t) =>
             \/ balances'[<<m, t>>].count = aqua[m][t].count
             \/ /\ Rowed(balances, m, t) /\ balances'[<<m, t>>].count = balances[<<m, t>>].count
                /\ ~IsOf("Docked", block, 1, m)
      <3>1. CASE m = o /\ t = u BY <1>4, <1>9, <1>10, <1>11, <3>1
      <3>2. CASE ~(m = o /\ t = u) BY <1>4, <1>12, <3>2
      <3>3. QED BY <3>1, <3>2
    <2>5. InactiveIsSpent(aqua, mandates', balances', m, t)
      <3>1. CASE Rowed(balances, m, t) BY <1>1, <2>1, <3>1 DEF PairOk, InactiveIsSpent
      <3>2. CASE ~Rowed(balances, m, t) /\ Pushes(block, 1, m, t)
        <4>1. EventOk(aqua, block, mandates, balances, 1, m, t) BY <1>3, <2>1 DEF PairOk
        <4>2. \A j \in 1..(1 - 1) : FALSE OBVIOUS
        <4>3. ~Coming(balances, block, 1 - 1, m, t) BY <3>2, <4>2 DEF Coming
        <4>4. mandates[m].active BY <3>2, <4>1, <4>2, <4>3 DEF EventOk, FirstPushIsActive
        <4>5. QED BY <1>1, <4>4 DEF InactiveIsSpent
      <3>3. QED BY <2>2, <3>1, <3>2 DEF InactiveIsSpent
    <2>6. PairOk(aqua, c, mandates', balances', m, t)
      BY <1>3, <2>1, <2>2, <2>3, <2>4, <2>5, HandledPair
    <2>7. RowNow(balances', m, t) = RowNow(balances, m, t) + StepBy(block, 1, m, t)
      <3>1. CASE m = o /\ t = u BY <1>4, <1>12, <3>1
      <3>2. CASE ~(m = o /\ t = u) BY <1>4, <1>12, <2>1, <3>2
      <3>3. QED BY <3>1, <3>2
    <2>8. RowsAddUp(aqua, block, balances, m, t) => RowsAddUp(aqua, c, balances', m, t)
      BY <1>3, <1>4, <2>1, <2>2, <2>7, HandledRow
    <2>9. QED BY <2>1, <2>6, <2>8
  <1>14. ASSUME NEW m \in Mandates PROVE MandateOk(aqua, c, mandates', m)
    <2>1. MandateOk(aqua, block, mandates, m) BY DEF IndexInv
    <2>2. mandates'[m].active => mandates'[m].known BY <1>1, <2>1 DEF MandateOk
    <2>3. mandates'[m] = mandates[m] /\ ~IsOf("Shipped", block, 1, m) /\ ~IsOf("Docked", block, 1, m)
      BY <1>1, <1>4
    <2>4. QED BY <1>3, <2>1, <2>2, <2>3, HandledMandate
  <1>15. (counts.active + revivals = Cardinality(Actives))'
    <2>1. Actives' = Actives BY <1>1 DEF Actives
    <2>2. QED BY <1>1, <2>1 DEF IndexInv
  <1>16. DOMAIN balances' \subseteq Mandates \X Tokens BY <1>2, <1>5, <1>11
  <1>17. \A m \in Mandates, t \in Tokens : Rowed(balances', m, t) => mandates'[m].known
    <2>1. \A m \in Mandates, t \in Tokens : Rowed(balances, m, t) => mandates[m].known
      BY DEF IndexInv, IndexTypes
    <2>2. QED BY <1>1, <1>7, <1>12, <2>1
  <1>18. /\ mandates' \in [Mandates -> [known : BOOLEAN, active : BOOLEAN]]
         /\ counts' \in [mandate : Nat, active : Int] /\ revivals' \in Nat
    BY <1>1, <1>5 DEF IndexInv, IndexTypes
  <1>19. QED BY <1>11, <1>13, <1>14, <1>15, <1>16, <1>17, <1>18, HandleStep DEF c

LEMMA HandleDockedKeeps ==
  ASSUME IndexInv, block # <<>>, block[1].kind = "Docked", HandleDocked(block[1]),
         block' = Tail(block), handling' = (Len(block) > 1), UNCHANGED <<aqua, blocks, muddled>>
  PROVE  IndexInv'
  <1> DEFINE o == block[1].mandate
             c == block'
  <1>1. /\ mandates[o].known =>
              /\ balances' = Reread(o)
              /\ mandates' = [mandates EXCEPT ![o].active = StillSpendable(o)]
              /\ counts' = [counts EXCEPT !.active = ActiveAfterDock(o)]
        /\ ~mandates[o].known => balances' = balances /\ mandates' = mandates /\ counts' = counts
        /\ revivals' = revivals
    BY DEF HandleDocked, Known
  <1>2. o \in Mandates BY FirstOfBlock DEF BlockEvents
  <1>3. block \in Seq(BlockEvents) /\ c \in Seq(BlockEvents) /\ Shrinks(block, c) /\ 1 \in 1..Len(block)
    BY FirstOfBlock
  <1>4. /\ IsOf("Docked", block, 1, o)
        /\ \A m : ~IsOf("Shipped", block, 1, m)
        /\ \A m : m # o => ~IsOf("Docked", block, 1, m)
        /\ \A m, t : ~Pushes(block, 1, m, t) /\ ~PullsOut(block, 1, m, t)
    BY DEF IsOf, Pushes, PullsOut
  <1> HIDE DEF o, c
  <1>5. /\ mandates \in [Mandates -> [known : BOOLEAN, active : BOOLEAN]]
        /\ aqua \in [Mandates -> [Tokens -> [amount : 0..MaxAmount, count : Nat]]]
        /\ DOMAIN balances \subseteq Mandates \X Tokens
        /\ balances \in [DOMAIN balances -> [amount : Int, count : Nat]]
        /\ \A m \in Mandates, t \in Tokens : Rowed(balances, m, t) => mandates[m].known
        /\ counts \in [mandate : Nat, active : Int] /\ revivals \in Nat
        /\ \A t \in Tokens : PairOk(aqua, block, mandates, balances, o, t)
        /\ MandateOk(aqua, block, mandates, o)
    BY <1>2 DEF IndexInv, IndexTypes
  \* What is live has a row by now, or is shipped again after this dock.
  <1>6. ASSUME NEW t \in Tokens, Live(aqua[o][t].count), QuietFor(c, o)
        PROVE  Rowed(balances, o, t)
    <2>1. EventOk(aqua, block, mandates, balances, 1, o, t) BY <1>3, <1>5 DEF PairOk
    <2>2. aqua[o][t].count # 0 BY <1>6 DEF Live
    <2>3. \A j \in 1..1 : j = 1 OBVIOUS
    <2>4. \A j \in (1 + 1)..Len(block) : ~IsOf("Shipped", block, j, o)
      <3>1. TAKE j \in (1 + 1)..Len(block)
      <3>2. j - 1 \in 1..Len(c) /\ (j - 1) + 1 = j BY <1>3 DEF Shrinks
      <3>3. ~IsOf("Shipped", c, j - 1, o) BY <1>6, <3>2 DEF QuietFor
      <3>4. IsOf("Shipped", c, j - 1, o) <=> IsOf("Shipped", block, (j - 1) + 1, o)
        BY <1>3, <3>2, TailAll
      <3>5. QED BY <3>2, <3>3, <3>4
    <2>5. QED BY <1>4, <2>1, <2>2, <2>3, <2>4 DEF EventOk, DocksRead, Coming
  <1>7. StillSpendable(o) \in BOOLEAN BY DEF StillSpendable
  <1>8. ~mandates[o].active => ~StillSpendable(o)
    BY <1>2, <1>5 DEF StillSpendable, PairOk, InactiveIsSpent, Rowed
  <1>9. /\ mandates' \in [Mandates -> [known : BOOLEAN, active : BOOLEAN]]
        /\ mandates'[o].known = mandates[o].known
        /\ mandates[o].known => mandates'[o].active = StillSpendable(o)
        /\ ~mandates[o].known => mandates' = mandates
        /\ \A m \in Mandates : m # o => mandates'[m] = mandates[m]
    <2> DEFINE still == StillSpendable(o)
               entry == [mandates[o] EXCEPT !.active = still]
    <2>1. mandates[o].known => mandates' = [mandates EXCEPT ![o] = entry]
      BY <1>1, <1>2, <1>5
    <2>2. still \in BOOLEAN BY <1>7
    <2> HIDE DEF still
    <2>3. mandates[o] \in [known : BOOLEAN, active : BOOLEAN] BY <1>2, <1>5
    <2>4. /\ entry \in [known : BOOLEAN, active : BOOLEAN]
          /\ entry.known = mandates[o].known /\ entry.active = still
      BY <2>2, <2>3
    <2> HIDE DEF entry
    <2>5. CASE mandates[o].known
      <3>1. mandates' = [mandates EXCEPT ![o] = entry] BY <2>1, <2>5
      <3>2. mandates' \in [Mandates -> [known : BOOLEAN, active : BOOLEAN]] BY <1>5, <2>4, <3>1
      <3>3. mandates'[o] = entry /\ \A m \in Mandates : m # o => mandates'[m] = mandates[m]
        BY <1>2, <1>5, <3>1
      <3>4. mandates'[o].known = mandates[o].known /\ mandates'[o].active = StillSpendable(o)
        BY <2>4, <3>3 DEF still
      <3>5. QED BY <2>5, <3>2, <3>3, <3>4
    <2>6. CASE ~mandates[o].known BY <1>1, <1>5, <2>6
    <2>7. QED BY <2>5, <2>6
  <1>10. /\ DOMAIN balances' = DOMAIN balances
         /\ mandates[o].known => \A t \in Tokens : Rowed(balances, o, t) => balances'[<<o, t>>] = aqua[o][t]
         /\ ~mandates[o].known => balances' = balances
         /\ \A m, t : m # o /\ Rowed(balances, m, t) => balances'[<<m, t>>] = balances[<<m, t>>]
         /\ balances' \in [DOMAIN balances' -> [amount : Int, count : Nat]]
    <2>1. CASE ~mandates[o].known BY <1>1, <1>5, <2>1
    <2>2. CASE mandates[o].known
      <3>1. balances' = [p \in DOMAIN balances |-> IF p[1] = o THEN aqua[o][p[2]] ELSE balances[p]]
        BY <1>1, <2>2 DEF Reread
      <3>2. DOMAIN balances' = DOMAIN balances
            /\ \A p \in DOMAIN balances : balances'[p] = IF p[1] = o THEN aqua[o][p[2]] ELSE balances[p]
        BY <3>1
      <3>3. \A t \in Tokens : Rowed(balances, o, t) => balances'[<<o, t>>] = aqua[o][t]
        BY <3>2 DEF Rowed
      <3>4. \A m, t : m # o /\ Rowed(balances, m, t) => balances'[<<m, t>>] = balances[<<m, t>>]
        BY <3>2 DEF Rowed
      <3>5. \A p \in DOMAIN balances : balances'[p] \in [amount : Int, count : Nat]
        <4>1. TAKE p \in DOMAIN balances
        <4>2. p[2] \in Tokens /\ balances[p] \in [amount : Int, count : Nat] BY <1>5
        <4>3. aqua[o][p[2]] \in [amount : 0..MaxAmount, count : Nat] BY <1>2, <1>5, <4>2
        <4>4. aqua[o][p[2]] \in [amount : Int, count : Nat] BY <4>3
        <4>5. QED BY <3>2, <4>2, <4>4
      <3>6. balances' \in [DOMAIN balances' -> [amount : Int, count : Nat]] BY <3>1, <3>2, <3>5
      <3>7. QED BY <2>2, <3>2, <3>3, <3>4, <3>6
    <2>3. QED BY <2>1, <2>2
  <1>11. \A m, t : Rowed(balances', m, t) <=> Rowed(balances, m, t) BY <1>10 DEF Rowed
  <1>12. ASSUME NEW m \in Mandates, NEW t \in Tokens
         PROVE  /\ PairOk(aqua, c, mandates', balances', m, t)
                /\ <<m, t>> \notin muddled => RowsAddUp(aqua, c, balances', m, t)
    <2>1. /\ PairOk(aqua, block, mandates, balances, m, t)
          /\ <<m, t>> \notin muddled => RowsAddUp(aqua, block, balances, m, t)
          /\ aqua[m][t].amount \in Int /\ RowNow(balances, m, t) \in Int
      BY DEF IndexInv, IndexTypes, RowNow, Rowed
    <2>2. Rowed(balances', m, t) <=> Rowed(balances, m, t) \/ Pushes(block, 1, m, t)
      BY <1>4, <1>11
    <2>3. /\ mandates[m].known \/ IsOf("Shipped", block, 1, m) => mandates'[m].known
          /\ IsOf("Shipped", block, 1, m) \/ (mandates[m].active /\ ~IsOf("Docked", block, 1, m))
               => mandates'[m].active
      BY <1>4, <1>9
    <2>4. Rowed(balances', m, t) =>
             \/ balances'[<<m, t>>].count = aqua[m][t].count
             \/ /\ Rowed(balances, m, t) /\ balances'[<<m, t>>].count = balances[<<m, t>>].count
                /\ ~IsOf("Docked", block, 1, m)
      <3>1. CASE m = o BY <1>5, <1>10, <1>11, <3>1
      <3>2. CASE m # o BY <1>4, <1>10, <1>11, <3>2
      <3>3. QED BY <3>1, <3>2
    <2>5. InactiveIsSpent(aqua, mandates', balances', m, t)
      <3>1. CASE m = o /\ mandates[o].known
        BY <1>9, <1>11, <3>1 DEF InactiveIsSpent, StillSpendable, Rowed
      <3>2. CASE ~(m = o /\ mandates[o].known)
        <4>1. mandates'[m] = mandates[m] BY <1>9, <3>2
        <4>2. QED BY <1>11, <2>1, <4>1 DEF PairOk, InactiveIsSpent
      <3>3. QED BY <3>1, <3>2
    <2>6. PairOk(aqua, c, mandates', balances', m, t)
      BY <1>3, <2>1, <2>2, <2>3, <2>4, <2>5, HandledPair
    <2>7. IsOf("Docked", block, 1, m) /\ Rowed(balances', m, t)
             => RowNow(balances', m, t) = aqua[m][t].amount
      BY <1>4, <1>5, <1>10, <1>11 DEF RowNow
    <2>8. ~IsOf("Docked", block, 1, m)
             => RowNow(balances', m, t) = RowNow(balances, m, t) + StepBy(block, 1, m, t)
      <3>1. StepBy(block, 1, m, t) = 0 BY <1>4 DEF StepBy
      <3>2. m # o => RowNow(balances', m, t) = RowNow(balances, m, t) BY <1>10, <1>11 DEF RowNow
      <3>3. QED BY <1>4, <2>1, <3>1, <3>2
    <2>9. RowsAddUp(aqua, block, balances, m, t) => RowsAddUp(aqua, c, balances', m, t)
      BY <1>3, <2>1, <2>2, <2>7, <2>8, HandledRow
    <2>10. QED BY <2>1, <2>6, <2>9
  <1>13. ASSUME NEW m \in Mandates PROVE MandateOk(aqua, c, mandates', m)
    <2>1. MandateOk(aqua, block, mandates, m) BY DEF IndexInv
    <2>2. mandates'[m].active => mandates'[m].known
      <3>1. mandates[m].active => mandates[m].known BY <2>1 DEF MandateOk
      <3>2. QED BY <1>9, <3>1
    <2>3. CASE m = o
      <3>1. QuietFor(c, o) => (mandates'[o].active <=> Spendable(aqua, o))
        <4>1. SUFFICES ASSUME QuietFor(c, o) PROVE mandates'[o].active <=> Spendable(aqua, o)
          OBVIOUS
        <4>2. CASE mandates[o].known
          <5>1. StillSpendable(o) <=> Spendable(aqua, o)
            BY <1>6, <4>1 DEF StillSpendable, Spendable, Rowed
          <5>2. QED BY <1>9, <4>2, <5>1
        <4>3. CASE ~mandates[o].known
          <5>1. ~Spendable(aqua, o) BY <1>2, <1>5, <1>6, <4>1, <4>3 DEF Spendable
          <5>2. ~mandates'[o].active BY <1>5, <1>9, <4>3 DEF MandateOk
          <5>3. QED BY <5>1, <5>2
        <4>4. QED BY <4>2, <4>3
      <3>2. QED BY <1>3, <2>1, <2>2, <2>3, <3>1, HandledMandate
    <2>4. CASE m # o
      <3>1. mandates'[m] = mandates[m] /\ ~IsOf("Shipped", block, 1, m) /\ ~IsOf("Docked", block, 1, m)
        BY <1>4, <1>9, <2>4
      <3>2. QED BY <1>3, <2>1, <2>2, <3>1, HandledMandate
    <2>5. QED BY <2>3, <2>4
  <1>14. (counts.active + revivals = Cardinality(Actives))' /\ counts' \in [mandate : Nat, active : Int]
    <2>1. counts.active + revivals = Cardinality(Actives) BY DEF IndexInv
    <2>2. o \in Actives <=> mandates[o].active BY <1>2 DEF Actives
    <2>3. CASE mandates[o].known /\ mandates[o].active /\ ~StillSpendable(o)
      <3>1. Actives' = Actives \ {o} BY <1>2, <1>9, <2>3 DEF Actives
      <3>2. Cardinality(Actives') = Cardinality(Actives) - 1 BY <1>2, <2>2, <2>3, <3>1, ActivesChange
      <3>3. counts' = [counts EXCEPT !.active = counts.active - 1]
        BY <1>1, <2>3 DEF ActiveAfterDock
      <3>4. counts' \in [mandate : Nat, active : Int] /\ counts'.active = counts.active - 1
        BY <1>5, <3>3
      <3>5. QED BY <1>1, <1>5, <2>1, <3>2, <3>4
    <2>4. CASE ~(mandates[o].known /\ mandates[o].active /\ ~StillSpendable(o))
      <3>1. \A m \in Mandates : mandates'[m].active = mandates[m].active
        <4>1. TAKE m \in Mandates
        <4>2. CASE m = o /\ mandates[o].known BY <1>5, <1>7, <1>8, <1>9, <2>4, <4>2
        <4>3. CASE ~(m = o /\ mandates[o].known) BY <1>9, <4>3
        <4>4. QED BY <4>2, <4>3
      <3>2. Actives' = Actives BY <3>1 DEF Actives
      <3>3. counts' = counts
        <4>1. CASE mandates[o].known
          <5>1. counts' = [counts EXCEPT !.active = counts.active]
            BY <1>1, <2>4, <4>1 DEF ActiveAfterDock
          <5>2. QED BY <1>5, <5>1
        <4>2. CASE ~mandates[o].known BY <1>1, <4>2
        <4>3. QED BY <4>1, <4>2
      <3>4. QED BY <1>1, <1>5, <2>1, <3>2, <3>3
    <2>5. QED BY <2>3, <2>4
  <1>15. DOMAIN balances' \subseteq Mandates \X Tokens BY <1>5, <1>10
  <1>16. \A m \in Mandates, t \in Tokens : Rowed(balances', m, t) => mandates'[m].known
    BY <1>5, <1>9, <1>11
  <1>17. revivals' \in Nat BY <1>1, <1>5
  <1>18. QED BY <1>9, <1>10, <1>12, <1>13, <1>14, <1>15, <1>16, <1>17, HandleStep DEF c

LEMMA HandleKeeps == ASSUME IndexInv, Handle PROVE IndexInv'
  <1>1. /\ block # <<>> /\ block' = Tail(block) /\ handling' = (Len(block) > 1)
        /\ UNCHANGED <<aqua, blocks, muddled>>
    BY DEF Handle
  <1>2. Head(block) = block[1] /\ block[1] \in BlockEvents BY <1>1, FirstOfBlock
  <1>3. CASE block[1].kind = "Shipped"
    <2>1. HandleShipped(block[1]) BY <1>2, <1>3 DEF Handle
    <2>2. QED BY <1>1, <1>3, <2>1, HandleShippedKeeps
  <1>4. CASE block[1].kind = "Docked"
    <2>1. HandleDocked(block[1]) BY <1>2, <1>4 DEF Handle
    <2>2. QED BY <1>1, <1>4, <2>1, HandleDockedKeeps
  <1>5. CASE block[1].kind \in {"Pushed", "Pulled"}
    <2>1. HandleMoved(block[1]) BY <1>2, <1>5 DEF Handle
    <2>2. QED BY <1>1, <1>5, <2>1, HandleMovedKeeps
  <1>6. QED BY <1>2, <1>3, <1>4, <1>5 DEF BlockEvents, EventKinds

LEMMA ChainKeeps == ASSUME IndexInv, Chain PROVE IndexInv'
  <1>1. UNCHANGED <<handling, blocks, mandates, balances, counts, revivals>> BY DEF Chain
  <1>2. CASE \E m \in Mandates, ts \in SUBSET Tokens : \E x \in Amounts : AquaShips(m, ts, x)
    BY <1>1, <1>2, AquaShipsKeeps
  <1>3. CASE \E m \in Mandates, ts \in SUBSET Tokens : AquaDocks(m, ts)
    BY <1>1, <1>3, AquaDocksKeeps
  <1>4. CASE \E kind \in {"Pushed", "Pulled"} :
               \E m \in Mandates, t \in Tokens, x \in Amounts : AquaMoves(kind, m, t, x)
    BY <1>1, <1>4, AquaMovesKeeps
  <1>5. QED BY <1>2, <1>3, <1>4 DEF Chain

LEMMA BlockEndsKeeps == ASSUME IndexInv, BlockEnds PROVE IndexInv'
  <1>1. /\ blocks' = blocks + 1 /\ blocks < MaxBlocks /\ handling' = TRUE
        /\ UNCHANGED <<aqua, block, mandates, balances, counts, revivals, muddled>>
    BY DEF BlockEnds
  <1>2. IndexTypes'
    <2>1. blocks' \in 0..MaxBlocks /\ handling' \in BOOLEAN
      BY <1>1, IndexBounds DEF IndexInv, IndexTypes
    <2>2. QED BY <1>1, <2>1 DEF IndexInv, IndexTypes
  <1>3. Actives' = Actives BY <1>1 DEF Actives
  <1>4. QED BY <1>1, <1>2, <1>3 DEF IndexInv

LEMMA IndexStarts == ASSUME IndexInit PROVE IndexInv
  <1>1. /\ \A m \in Mandates, t \in Tokens : aqua[m][t].amount = 0 /\ aqua[m][t].count = 0
        /\ aqua \in [Mandates -> [Tokens -> [amount : 0..MaxAmount, count : Nat]]]
    BY IndexBounds DEF IndexInit
  <1>2. block \in Seq(BlockEvents) /\ Len(block) = 0 /\ \A i \in 1..Len(block) : FALSE BY DEF IndexInit
  <1>3. DOMAIN balances = {} /\ balances \in [DOMAIN balances -> [amount : Int, count : Nat]]
    BY DEF IndexInit
  <1>4. /\ mandates \in [Mandates -> [known : BOOLEAN, active : BOOLEAN]]
        /\ \A m \in Mandates : ~mandates[m].known /\ ~mandates[m].active
    BY DEF IndexInit
  <1>5. \A m, t : ~Rowed(balances, m, t) BY <1>3 DEF Rowed
  <1>6. IndexTypes
    <2>1. Len(block) =< MaxEvents /\ blocks \in 0..MaxBlocks BY <1>2, IndexBounds DEF IndexInit
    <2>2. /\ counts \in [mandate : Nat, active : Int] /\ revivals \in Nat /\ muddled = {}
          /\ handling \in BOOLEAN
      <3>1. counts = [mandate |-> 0, active |-> 0] BY DEF IndexInit
      <3>2. counts \in [mandate : Nat, active : Int] BY <3>1
      <3>3. handling = FALSE /\ revivals = 0 /\ muddled = {} BY DEF IndexInit
      <3>4. QED BY <3>2, <3>3
    <2>3. DOMAIN balances \subseteq Mandates \X Tokens BY <1>3
    <2>4. QED BY <1>1, <1>2, <1>3, <1>4, <1>5, <2>1, <2>2, <2>3 DEF IndexTypes
  <1>7. ~Live(0) BY DEF Live
  <1>8. \A m \in Mandates : MandateOk(aqua, block, mandates, m)
    BY <1>1, <1>2, <1>4, <1>7 DEF MandateOk, Spendable, ShipsSpend
  <1>9. ASSUME NEW m \in Mandates, NEW t \in Tokens
        PROVE  PairOk(aqua, block, mandates, balances, m, t) /\ RowsAddUp(aqua, block, balances, m, t)
    <2>1. PairOk(aqua, block, mandates, balances, m, t)
      BY <1>1, <1>2, <1>5 DEF PairOk, NeverShipped, ShippedComes, CountsAgree, InactiveIsSpent
    <2> DEFINE h == [i \in 0..0 |-> 0]
    <2>2. h \in [0..0 -> Int] /\ h[0] = 0 OBVIOUS
    <2> HIDE DEF h
    <2>3. AddsUpTo(block, 0, 0, m, t) BY <1>2, <2>2 DEF AddsUpTo
    <2>4. RowNow(balances, m, t) = 0 BY <1>5 DEF RowNow
    <2>5. NeverRead(block, balances, m, t) BY <1>2 DEF NeverRead
    <2>6. QED BY <1>1, <2>1, <2>3, <2>4, <2>5 DEF RowsAddUp
  <1>10. counts.active + revivals = Cardinality(Actives)
    <2>1. Actives = {} BY <1>4 DEF Actives
    <2>2. QED BY <2>1, FS_EmptySet DEF IndexInit
  <1>11. QED BY <1>6, <1>8, <1>9, <1>10 DEF IndexInv

\* With nothing waiting, the sums are the rows themselves.
LEMMA RowsFollow == ASSUME IndexInv PROVE RowsFollowTheLedger
  <1>1. SUFFICES ASSUME CaughtUp PROVE RowsFollowTheLedger
    BY DEF RowsFollowTheLedger, BalancesAgree, ActiveMeansSpendable
  <1>2. Len(block) = 0 /\ \A i \in 1..Len(block) : FALSE BY <1>1 DEF CaughtUp
  <1>3. ASSUME NEW m \in Mandates, NEW t \in Tokens, Rowed(balances, m, t)
        PROVE  /\ balances[<<m, t>>].count = aqua[m][t].count
               /\ <<m, t>> \notin muddled => balances[<<m, t>>].amount = aqua[m][t].amount
    <2>1. balances[<<m, t>>].count = aqua[m][t].count
      BY <1>2, <1>3 DEF IndexInv, PairOk, CountsAgree
    <2>2. ASSUME <<m, t>> \notin muddled PROVE balances[<<m, t>>].amount = aqua[m][t].amount
      <3>1. RowsAddUp(aqua, block, balances, m, t) BY <2>2 DEF IndexInv
      <3>2. AddsUpTo(block, RowNow(balances, m, t), aqua[m][t].amount, m, t)
        BY <1>2, <3>1 DEF RowsAddUp, ReadAnew
      <3>3. RowNow(balances, m, t) = aqua[m][t].amount BY <1>2, <3>2 DEF AddsUpTo
      <3>4. QED BY <1>3, <3>3 DEF RowNow
    <2>3. QED BY <2>1, <2>2
  <1>4. BalancesAgree
    <2>1. SUFFICES ASSUME NEW p \in DOMAIN balances
                   PROVE  /\ balances[p].count = aqua[p[1]][p[2]].count
                          /\ p \notin muddled => balances[p].amount = aqua[p[1]][p[2]].amount
      BY DEF BalancesAgree
    <2>2. p \in Mandates \X Tokens BY DEF IndexInv, IndexTypes
    <2>3. p[1] \in Mandates /\ p[2] \in Tokens /\ p = <<p[1], p[2]>> BY <2>2
    <2>4. Rowed(balances, p[1], p[2]) BY <2>3 DEF Rowed
    <2>5. QED BY <1>3, <2>3, <2>4
  <1>5. ActiveMeansSpendable
    <2>1. \A m \in Mandates : mandates[m].active <=> \E t \in Tokens : Live(aqua[m][t].count)
      BY <1>2 DEF IndexInv, MandateOk, QuietFor, Spendable
    <2>2. counts.active + revivals = Quantify(Mandates, LAMBDA m : mandates[m].active)
      BY DEF IndexInv, Actives, Quantify
    <2>3. QED BY <2>1, <2>2 DEF ActiveMeansSpendable
  <1>6. QED BY <1>4, <1>5 DEF RowsFollowTheLedger

LEMMA IndexInvariant == IndexSpec => []IndexInv
  <1>1. IndexInit => IndexInv BY IndexStarts
  <1>2. IndexInv /\ [IndexNext]_indexVars => IndexInv'
    <2>1. ASSUME IndexInv, UNCHANGED indexVars PROVE IndexInv'
      <3>1. UNCHANGED <<aqua, block, handling, blocks, mandates, balances, counts, revivals, muddled>>
        BY <2>1 DEF indexVars
      <3>2. IndexTypes' /\ Actives' = Actives BY <2>1, <3>1 DEF IndexInv, IndexTypes, Actives
      <3>3. QED BY <2>1, <3>1, <3>2 DEF IndexInv
    <2>2. QED BY <2>1, ChainKeeps, BlockEndsKeeps, HandleKeeps DEF IndexNext
  <1>3. QED BY <1>1, <1>2, PTL DEF IndexSpec

\* The chain's and the index's state keeps its types, however much is shipped, moved and docked
\* in a block and however far the handlers are (aqua.ts).
THEOREM IndexTypeCorrect == IndexSpec => []IndexTypeOK
  <1>1. IndexInv => IndexTypeOK BY DEF IndexInv, IndexTypes, IndexTypeOK
  <1>2. QED BY <1>1, IndexInvariant, PTL

\* Once every event is handled a row holds the ledger's count, and its amount unless the token
\* moved after a dock of its mandate in one block; a mandate is shown as active exactly while one
\* of its tokens can be spent; and the count of active mandates is short by the revivals.
THEOREM TheIndexFollows == IndexSpec => []RowsFollowTheLedger
  <1>1. QED BY RowsFollow, IndexInvariant, PTL

-----------------------------------------------------------------------------
(***************************************************************************)
(* PriceSearch.  What is cached is what the feed wrote or nothing, so a    *)
(* bound is a round with data on its side of the sample; bounds only close *)
(* in, and where they meet the sample is decided for good, for whatever is *)
(* published later is later than all there was.                            *)
(***************************************************************************)

LEMMA PriceBounds ==
    /\ Windows \subseteq SUBSET Nat /\ MaxLevel \in Nat /\ MaxLag \in Nat
    /\ MaxRounds \in Nat \ {0} /\ MaxPhases \in Nat \ {0} /\ Histories \subseteq Seq(Nat)
    /\ \A h \in Histories :
          /\ Len(h) \in 1..MaxRounds /\ h[1] # 0 /\ h[Len(h)] # 0
          /\ \A a, b \in DOMAIN h : a < b /\ h[a] # 0 /\ h[b] # 0 => h[a] < h[b]
  BY PriceAssumption DEF PriceAssumption

\* A level's allowance: how far apart bounds may still be, if every round probed had data.
Narrowing(width) ==
    /\ width[0] = MaxRounds - 1 /\ width[MaxLevel + 1] =< 1
    /\ \A l \in 0..MaxLevel : IF l % 2 = 0 THEN width[l] - 1 =< width[l + 1]
                              ELSE width[l] =< 2 * width[l + 1]
Width == CHOOSE width \in [0..(MaxLevel + 1) -> 0..MaxRounds] : Narrowing(width)

LEMMA Widths == Width \in [0..(MaxLevel + 1) -> 0..MaxRounds] /\ Narrowing(Width)
  <1>1. \E width \in [0..(MaxLevel + 1) -> 0..MaxRounds] : Narrowing(width)
    BY PriceAssumption DEF PriceAssumption, Narrowing
  <1>2. QED BY <1>1 DEF Width

\* Of finitely many, one comes last: the one with the fewest after it.
LEMMA LastOf ==
  ASSUME NEW S, IsFiniteSet(S), S # {}, NEW r \in [S -> Nat]
  PROVE  \E p \in S : \A q \in S : r[q] <= r[p]
  <1> DEFINE Above(x) == {q \in S : r[q] > x}
             afters == {Cardinality(Above(r[p])) : p \in S}
  <1>1. \A x : IsFiniteSet(Above(x)) /\ Cardinality(Above(x)) \in Nat
    <2>1. \A x : Above(x) \in SUBSET S OBVIOUS
    <2>2. QED BY <2>1, FS_Subset, FS_CardinalityType
  <1>2. PICK top \in S : \A q \in S : Cardinality(Above(r[top])) <= Cardinality(Above(r[q]))
    <2>1. afters \in SUBSET Nat /\ afters # {} BY <1>1
    <2>2. PICK c \in afters : \A y \in afters : c <= y BY <2>1, LeastOf
    <2>3. PICK top \in S : c = Cardinality(Above(r[top])) OBVIOUS
    <2>4. \A q \in S : Cardinality(Above(r[q])) \in afters OBVIOUS
    <2> HIDE DEF afters, Above
    <2>5. QED BY <2>2, <2>3, <2>4
  <1>3. \A q \in S : r[q] <= r[top]
    <2> SUFFICES ASSUME NEW q \in S, r[q] > r[top] PROVE FALSE
      OBVIOUS
    <2>1. \A t \in S : r[t] \in Nat OBVIOUS
    <2>2. Above(r[q]) \in SUBSET Above(r[top]) /\ q \in Above(r[top]) /\ q \notin Above(r[q])
      <3>1. \A t \in S : r[t] > r[q] => r[t] > r[top] BY <2>1
      <3>2. ~ (r[q] > r[q]) BY <2>1
      <3>3. QED BY <3>1, <3>2
    <2>3. IsFiniteSet(Above(r[top])) /\ Above(r[q]) # Above(r[top]) BY <1>1, <2>2
    <2> HIDE DEF Above
    <2>4. /\ Cardinality(Above(r[q])) <= Cardinality(Above(r[top]))
          /\ Cardinality(Above(r[q])) # Cardinality(Above(r[top]))
      BY <2>2, <2>3, FS_Subset
    <2>5. Cardinality(Above(r[top])) <= Cardinality(Above(r[q])) BY <1>2
    <2>6. QED BY <1>1, <2>4, <2>5
  <1>4. QED BY <1>3

-----------------------------------------------------------------------------
(* The feed, of phases f. *)

HasRound(f, p, a) == p \in 1..Len(f) /\ a \in 1..Len(f[p]) /\ f[p][a] # 0
FeedOk(f) ==
    /\ f \in Seq(Seq(Nat)) /\ Len(f) \in 1..MaxPhases
    /\ \A p \in 1..Len(f) :
          /\ Len(f[p]) \in 1..MaxRounds /\ f[p][1] # 0
          /\ \A a, b \in 1..Len(f[p]) :
                a < b /\ f[p][a] # 0 /\ f[p][b] # 0 => f[p][a] < f[p][b]
Grown(f, g) ==
    /\ Len(f) <= Len(g)
    /\ \A p \in 1..Len(f) :
          Len(f[p]) <= Len(g[p]) /\ \A a \in 1..Len(f[p]) : g[p][a] = f[p][a]

LEMMA InOrder ==
  ASSUME NEW f, FeedOk(f), NEW p, NEW a, NEW b, HasRound(f, p, a), HasRound(f, p, b)
  PROVE  /\ f[p][a] \in Nat \ {0} /\ f[p][b] \in Nat \ {0} /\ a \in Nat /\ b \in Nat
         /\ a < b <=> f[p][a] < f[p][b]
  <1>1. p \in 1..Len(f) /\ a \in 1..Len(f[p]) /\ b \in 1..Len(f[p]) BY DEF HasRound
  <1>2. f[p] \in Seq(Nat) BY <1>1 DEF FeedOk
  <1>3. f[p][a] \in Nat \ {0} /\ f[p][b] \in Nat \ {0} /\ a \in Nat /\ b \in Nat
    BY <1>1, <1>2 DEF HasRound
  <1>4. /\ a < b => f[p][a] < f[p][b]
        /\ b < a => f[p][b] < f[p][a]
    BY <1>1, <1>3 DEF FeedOk
  <1>5. QED BY <1>3, <1>4

LEMMA WrittenIs ==
  ASSUME FeedOk(feed)
  PROVE  /\ \A p, a : <<p, a>> \in Written <=> HasRound(feed, p, a)
         /\ \A k \in Written : k = <<k[1], k[2]>> /\ HasRound(feed, k[1], k[2]) /\ At(k) \in Nat \ {0}
         /\ <<1, 1>> \in Written /\ IsFiniteSet(Written)
  <1>1. Len(feed) \in Nat /\ Len(feed) =< MaxPhases /\ Len(feed) >= 1 BY PriceBounds DEF FeedOk
  <1>2. \A p \in 1..Len(feed) : Len(feed[p]) \in Nat /\ Len(feed[p]) =< MaxRounds /\ Len(feed[p]) >= 1
    BY PriceBounds DEF FeedOk
  <1>3. ASSUME NEW p, NEW a PROVE <<p, a>> \in Written <=> HasRound(feed, p, a)
    <2>1. HasRound(feed, p, a) => p \in 1..MaxPhases /\ a \in 1..MaxRounds
      <3>1. SUFFICES ASSUME HasRound(feed, p, a) PROVE p \in 1..MaxPhases /\ a \in 1..MaxRounds
        OBVIOUS
      <3>2. p \in 1..Len(feed) /\ a \in 1..Len(feed[p]) BY <3>1 DEF HasRound
      <3>3. QED BY <1>1, <1>2, <3>2, PriceBounds
    <2>2. <<p, a>> \in Written <=>
             p \in 1..MaxPhases /\ a \in 1..MaxRounds /\ p =< Len(feed) /\ a =< Len(feed[p]) /\ feed[p][a] # 0
      BY DEF Written, At
    <2>3. p \in 1..MaxPhases /\ p =< Len(feed) => p \in 1..Len(feed) BY <1>1
    <2>4. p \in 1..Len(feed) /\ a \in 1..MaxRounds /\ a =< Len(feed[p]) => a \in 1..Len(feed[p]) BY <1>2
    <2>5. HasRound(feed, p, a) => p =< Len(feed) /\ a =< Len(feed[p]) BY <1>1, <1>2 DEF HasRound
    <2>6. QED BY <2>1, <2>2, <2>3, <2>4, <2>5 DEF HasRound
  <1>4. \A k \in Written : k = <<k[1], k[2]>> BY DEF Written
  <1>5. \A k \in Written : HasRound(feed, k[1], k[2]) BY <1>3, <1>4
  <1>6. \A k \in Written : At(k) \in Nat \ {0} BY <1>5, InOrder DEF At
  <1>7. <<1, 1>> \in Written
    <2>1. HasRound(feed, 1, 1) BY <1>1, <1>2 DEF HasRound, FeedOk
    <2>2. QED BY <1>3, <2>1
  <1>8. IsFiniteSet(Written)
    <2>1. IsFiniteSet(1..MaxPhases) /\ IsFiniteSet(1..MaxRounds) BY PriceBounds, FS_Interval
    <2>2. IsFiniteSet((1..MaxPhases) \X (1..MaxRounds)) BY <2>1, FS_Product
    <2>3. Written \subseteq (1..MaxPhases) \X (1..MaxRounds) BY DEF Written
    <2>4. QED BY <2>2, <2>3, FS_Subset
  <1>9. QED BY <1>3, <1>4, <1>5, <1>6, <1>7, <1>8

\* The newest round is the last there is.
LEMMA NewestIsLast ==
  ASSUME FeedOk(feed)
  PROVE  /\ Newest \in Written /\ At(Newest) \in Nat
         /\ \A k \in Written : At(k) =< At(Newest)
  <1> DEFINE times == [k \in Written |-> At(k)]
  <1>1. times \in [Written -> Nat] /\ Written # {} BY WrittenIs
  <1>2. PICK k \in Written : \A j \in Written : times[j] <= times[k] BY <1>1, WrittenIs, LastOf
  <1>3. \E j \in Written : \A i \in Written : At(i) =< At(j) BY <1>2
  <1>4. Newest \in Written /\ \A j \in Written : At(j) =< At(Newest) BY <1>3 DEF Newest
  <1>5. QED BY <1>4, WrittenIs

-----------------------------------------------------------------------------
(* What is held of the feed. *)

Stages == {"none", "first", "asking", "asked", "no-rounds", "unconverged"}
RoundsOk(f, rs) ==
    \A k \in DOMAIN rs :
       /\ k = <<k[1], k[2]>> /\ k[1] \in 1..Len(f) /\ k[2] \in 1..MaxRounds /\ rs[k] \in Nat
       /\ rs[k] # 0 => HasRound(f, k[1], k[2]) /\ rs[k] = f[k[1]][k[2]]
\* A sample is before the phase, or at a round, or between a round and the very next.
HourOk(f, t, k) ==
    /\ k = <<k[1], k[2]>> /\ HasRound(f, k[1], k[2])
    /\ \/ k[2] = 1 /\ t < f[k[1]][1]
       \/ f[k[1]][k[2]] = t
       \/ f[k[1]][k[2]] =< t /\ k[2] + 1 \in 1..Len(f[k[1]]) /\ f[k[1]][k[2] + 1] > t
BetweenOk(f, p, t, b) ==
    /\ HasRound(f, p, b.lo) /\ HasRound(f, p, b.hi)
    /\ b.lo < b.hi /\ f[p][b.lo] =< t /\ f[p][b.hi] > t
Fields == {"stage", "phase", "top", "samples", "open", "level", "emptied"}
IsSearch(s) == s = [field \in Fields |-> s[field]]
OpenOk(f, s) ==
    \A t \in DOMAIN s.open :
       /\ t \in Nat /\ BetweenOk(f, s.phase, t, s.open[t])
       /\ s.emptied = TRUE \/ s.open[t].hi - s.open[t].lo =< Width[s.level]
SearchOk(f, rs, s) ==
    /\ IsSearch(s) /\ s.stage \in Stages /\ s.emptied \in BOOLEAN
    /\ s.stage \in {"first", "asking", "asked"} =>
          HasRound(f, s.phase, s.top) /\ \A t \in s.samples : t \in Nat /\ t =< f[s.phase][s.top]
    /\ s.stage = "first" => s.level = 0
    /\ s.stage \in {"asking", "asked"} => s.level \in 0..MaxLevel /\ OpenOk(f, s)
    /\ s.stage \notin {"asking", "asked"} => DOMAIN s.open = {}
    /\ s.stage = "asked" => \A t \in DOMAIN s.open : Apart(s.open[t]) =>
          \E a \in Probes(s.level, s.open[t]) : <<s.phase, a>> \in DOMAIN rs
    /\ s.stage = "unconverged" => s.emptied = TRUE

PriceInv ==
    /\ FeedOk(feed) /\ RoundsOk(feed, rounds)
    /\ \A t \in DOMAIN hours : t \in Nat /\ HourOk(feed, t, hours[t])
    /\ searches = [r \in Readers |-> searches[r]]
    /\ \A r \in Readers : SearchOk(feed, rounds, searches[r])

\* What is found stays as it is when the feed grows.
LEMMA GrownRound ==
  ASSUME NEW f, NEW g, FeedOk(f), FeedOk(g), Grown(f, g), NEW p, NEW a, HasRound(f, p, a)
  PROVE  HasRound(g, p, a) /\ g[p][a] = f[p][a]
  <1>1. p \in 1..Len(f) /\ a \in 1..Len(f[p]) /\ f[p][a] # 0 BY DEF HasRound
  <1>2. Len(f) \in Nat /\ Len(g) \in Nat /\ Len(f) <= Len(g) BY DEF FeedOk, Grown
  <1>3. p \in 1..Len(g) BY <1>1, <1>2
  <1>4. Len(f[p]) \in Nat /\ Len(g[p]) \in Nat
    <2>1. f[p] \in Seq(Nat) BY <1>1 DEF FeedOk
    <2>2. g[p] \in Seq(Nat) BY <1>3 DEF FeedOk
    <2>3. QED BY <2>1, <2>2
  <1>5. Len(f[p]) <= Len(g[p]) /\ g[p][a] = f[p][a] BY <1>1 DEF Grown
  <1>6. a \in 1..Len(g[p]) BY <1>1, <1>4, <1>5
  <1>7. QED BY <1>1, <1>3, <1>5, <1>6 DEF HasRound

LEMMA GrownRounds ==
  ASSUME NEW f, NEW g, FeedOk(f), FeedOk(g), Grown(f, g), NEW rs, RoundsOk(f, rs)
  PROVE  RoundsOk(g, rs)
  <1>1. SUFFICES ASSUME NEW k \in DOMAIN rs
                 PROVE  /\ k = <<k[1], k[2]>> /\ k[1] \in 1..Len(g) /\ k[2] \in 1..MaxRounds
                        /\ rs[k] \in Nat
                        /\ rs[k] # 0 => HasRound(g, k[1], k[2]) /\ rs[k] = g[k[1]][k[2]]
    BY DEF RoundsOk
  <1>2. /\ k = <<k[1], k[2]>> /\ k[1] \in 1..Len(f) /\ k[2] \in 1..MaxRounds /\ rs[k] \in Nat
        /\ rs[k] # 0 => HasRound(f, k[1], k[2]) /\ rs[k] = f[k[1]][k[2]]
    BY DEF RoundsOk
  <1>3. Len(f) \in Nat /\ Len(g) \in Nat /\ Len(f) <= Len(g) BY DEF FeedOk, Grown
  <1>4. k[1] \in 1..Len(g) BY <1>2, <1>3
  <1>5. HasRound(f, k[1], k[2]) => HasRound(g, k[1], k[2]) /\ g[k[1]][k[2]] = f[k[1]][k[2]]
    BY GrownRound
  <1>6. QED BY <1>2, <1>4, <1>5

LEMMA GrownHour ==
  ASSUME NEW f, NEW g, FeedOk(f), FeedOk(g), Grown(f, g), NEW t \in Nat, NEW k, HourOk(f, t, k)
  PROVE  HourOk(g, t, k)
  <1> DEFINE p == k[1]  a == k[2]
  <1>1. k = <<p, a>> /\ HasRound(f, p, a) BY DEF HourOk
  <1>2. HasRound(g, p, a) /\ g[p][a] = f[p][a] BY <1>1, GrownRound
  <1>3. CASE a = 1 /\ t < f[p][1]
    <2>1. a = 1 /\ t < g[p][1] BY <1>2, <1>3
    <2>2. QED BY <1>1, <1>2, <2>1 DEF HourOk
  <1>4. CASE f[p][a] = t BY <1>1, <1>2, <1>4 DEF HourOk
  <1>5. CASE f[p][a] =< t /\ a + 1 \in 1..Len(f[p]) /\ f[p][a + 1] > t
    <2>1. p \in 1..Len(f) BY <1>1 DEF HasRound
    <2>2. f[p][a + 1] \in Nat
      <3>1. f[p] \in Seq(Nat) BY <2>1 DEF FeedOk
      <3>2. QED BY <3>1, <1>5
    <2>3. f[p][a + 1] # 0 BY <1>5, <2>2
    <2>4. HasRound(f, p, a + 1) BY <2>1, <2>3, <1>5 DEF HasRound
    <2>5. HasRound(g, p, a + 1) /\ g[p][a + 1] = f[p][a + 1] BY <2>4, GrownRound
    <2>6. g[p][a] =< t /\ a + 1 \in 1..Len(g[p]) /\ g[p][a + 1] > t
      BY <1>2, <1>5, <2>5 DEF HasRound
    <2>7. QED BY <1>1, <1>2, <2>6 DEF HourOk
  <1>6. QED BY <1>3, <1>4, <1>5 DEF HourOk

LEMMA GrownSearch ==
  ASSUME NEW f, NEW g, FeedOk(f), FeedOk(g), Grown(f, g), NEW rs, NEW s, SearchOk(f, rs, s)
  PROVE  SearchOk(g, rs, s)
  <1>1. ASSUME s.stage \in {"first", "asking", "asked"}
        PROVE  HasRound(g, s.phase, s.top) /\ \A t \in s.samples : t \in Nat /\ t =< g[s.phase][s.top]
    <2>1. HasRound(f, s.phase, s.top) /\ \A t \in s.samples : t \in Nat /\ t =< f[s.phase][s.top]
      BY <1>1 DEF SearchOk
    <2>2. HasRound(g, s.phase, s.top) /\ g[s.phase][s.top] = f[s.phase][s.top]
      BY <2>1, GrownRound
    <2>3. QED BY <2>1, <2>2
  <1>2. ASSUME s.stage \in {"asking", "asked"} PROVE s.level \in 0..MaxLevel /\ OpenOk(g, s)
    <2>1. s.level \in 0..MaxLevel /\ OpenOk(f, s) BY <1>2 DEF SearchOk
    <2>2. ASSUME NEW t \in DOMAIN s.open PROVE BetweenOk(g, s.phase, t, s.open[t])
      <3>1. BetweenOk(f, s.phase, t, s.open[t]) BY <2>1 DEF OpenOk
      <3>2. /\ HasRound(g, s.phase, s.open[t].lo)
            /\ g[s.phase][s.open[t].lo] = f[s.phase][s.open[t].lo]
        BY <3>1, GrownRound DEF BetweenOk
      <3>3. /\ HasRound(g, s.phase, s.open[t].hi)
            /\ g[s.phase][s.open[t].hi] = f[s.phase][s.open[t].hi]
        BY <3>1, GrownRound DEF BetweenOk
      <3>4. QED BY <3>1, <3>2, <3>3 DEF BetweenOk
    <2>3. QED BY <2>1, <2>2 DEF OpenOk
  <1>3. QED BY <1>1, <1>2 DEF SearchOk

\* More rounds cached take nothing from a search.
LEMMA MoreCached ==
  ASSUME NEW f, NEW rs, NEW more, DOMAIN rs \subseteq DOMAIN more, NEW s, SearchOk(f, rs, s)
  PROVE  SearchOk(f, more, s)
  <1>1. ASSUME s.stage = "asked", NEW t \in DOMAIN s.open, Apart(s.open[t])
        PROVE  \E a \in Probes(s.level, s.open[t]) : <<s.phase, a>> \in DOMAIN more
    BY <1>1 DEF SearchOk
  <1>2. QED BY <1>1 DEF SearchOk

\* A round written is later than all there are.
LEMMA Publishing ==
  ASSUME FeedOk(feed), NEW skips \in BOOLEAN, Publish(skips)
  PROVE  FeedOk(feed') /\ Grown(feed, feed')
  <1> DEFINE n == Len(feed)
             time == At(Newest) + 2
             more == IF skips THEN <<0, time>> ELSE <<time>>
             last == feed[n]
             grown == last \o more
  <1>1. n \in 1..MaxPhases /\ n \in Nat /\ n >= 1 BY PriceBounds DEF FeedOk
  <1>2. last \in Seq(Nat) /\ Len(last) \in Nat /\ Len(last) >= 1 /\ last[1] # 0
    <2>1. n \in 1..Len(feed) BY <1>1
    <2>2. last \in Seq(Nat) /\ Len(last) \in 1..MaxRounds /\ last[1] # 0 BY <2>1 DEF FeedOk
    <2>3. QED BY <2>2
  <1>3. time \in Nat /\ time # 0 BY NewestIsLast
  <1>4. more \in Seq(Nat) /\ Len(more) \in {1, 2} /\ more[Len(more)] = time
        /\ (Len(more) = 2 => more[1] = 0)
    BY <1>3
  <1>5. \A a \in 1..Len(last) : last[a] < time
    <2>1. TAKE a \in 1..Len(last)
    <2>2. CASE last[a] = 0 BY <1>3, <2>2
    <2>3. CASE last[a] # 0
      <3>1. HasRound(feed, n, a) BY <1>1, <2>3 DEF HasRound
      <3>2. <<n, a>> \in Written BY <3>1, WrittenIs
      <3>3. At(<<n, a>>) = last[a] BY DEF At
      <3>4. last[a] =< At(Newest) /\ At(Newest) \in Nat /\ last[a] \in Nat
        BY <3>2, <3>3, <1>2, NewestIsLast
      <3>5. QED BY <3>4
    <2>4. QED BY <2>2, <2>3
  <1>6. Len(last) + Len(more) =< MaxRounds /\ feed' = [feed EXCEPT ![n] = grown]
    BY DEF Publish
  <1> HIDE DEF more, time, last
  <1>7. /\ grown \in Seq(Nat) /\ Len(grown) = Len(last) + Len(more)
        /\ \A a \in 1..Len(last) : grown[a] = last[a]
        /\ \A a \in 1..Len(more) : grown[Len(last) + a] = more[a]
    <2>1. /\ grown \in Seq(Nat) /\ Len(grown) = Len(last) + Len(more)
          /\ \A a \in 1..Len(last) + Len(more) :
                grown[a] = IF a <= Len(last) THEN last[a] ELSE more[a - Len(last)]
      BY <1>2, <1>4, ConcatProperties
    <2> HIDE DEF grown
    <2>2. Len(last) \in Nat /\ Len(more) \in Nat BY <1>2, <1>4
    <2>3. ASSUME NEW a \in 1..Len(last) PROVE grown[a] = last[a]
      BY <2>1, <2>2
    <2>4. ASSUME NEW a \in 1..Len(more) PROVE grown[Len(last) + a] = more[a]
      <3>1. Len(last) + a \in 1..Len(last) + Len(more) /\ ~ (Len(last) + a <= Len(last))
            /\ (Len(last) + a) - Len(last) = a
        BY <2>2
      <3>2. QED BY <2>1, <3>1
    <2>5. QED BY <2>1, <2>3, <2>4
  <1> HIDE DEF grown
  <1>8. \A a \in (Len(last) + 1)..Len(grown) : grown[a] = 0 \/ (a = Len(grown) /\ grown[a] = time)
    <2>1. TAKE a \in (Len(last) + 1)..Len(grown)
    <2> DEFINE i == a - Len(last)
    <2>2. i \in 1..Len(more) /\ a = Len(last) + i BY <1>2, <1>4, <1>7
    <2> HIDE DEF i
    <2>3. grown[a] = more[i] BY <1>7, <2>2
    <2>4. i = Len(more) \/ (i = 1 /\ Len(more) = 2) BY <1>4, <2>2
    <2>5. i = Len(more) => a = Len(grown) BY <1>7, <2>2
    <2>6. QED BY <1>4, <2>3, <2>4, <2>5
  <1>9. /\ Len(grown) \in 1..MaxRounds /\ grown[1] # 0
        /\ \A a, b \in 1..Len(grown) : a < b /\ grown[a] # 0 /\ grown[b] # 0 => grown[a] < grown[b]
    <2>1. Len(grown) \in 1..MaxRounds BY <1>2, <1>4, <1>6, <1>7, PriceBounds
    <2>2. grown[1] # 0 BY <1>2, <1>7
    <2>3. ASSUME NEW a \in 1..Len(grown), NEW b \in 1..Len(grown), a < b, grown[a] # 0, grown[b] # 0
          PROVE  grown[a] < grown[b]
      <3>1. CASE b =< Len(last)
        <4>1. a \in 1..Len(last) /\ b \in 1..Len(last) BY <1>2, <2>3, <3>1
        <4>2. \A x, y \in 1..Len(last) : x < y /\ last[x] # 0 /\ last[y] # 0 => last[x] < last[y]
          <5>1. n \in 1..Len(feed) BY <1>1
          <5>2. QED BY <5>1 DEF FeedOk, last
        <4>3. last[a] < last[b] BY <4>1, <4>2, <2>3, <1>7
        <4>4. QED BY <4>1, <4>3, <1>7
      <3>2. CASE ~ (b =< Len(last))
        <4>1. b \in (Len(last) + 1)..Len(grown) BY <1>2, <1>4, <1>7, <3>2
        <4>2. b = Len(grown) /\ grown[b] = time BY <4>1, <1>8, <2>3
        <4>3. a \in 1..Len(last)
          <5>1. a \notin (Len(last) + 1)..Len(grown)
            <6>1. a # Len(grown) BY <2>3, <4>2, <1>2, <1>4, <1>7
            <6>2. QED BY <6>1, <1>8, <2>3
          <5>2. QED BY <5>1, <1>2, <1>4, <1>7
        <4>4. QED BY <4>2, <4>3, <1>5, <1>7
      <3>3. QED BY <3>1, <3>2
    <2>4. QED BY <2>1, <2>2, <2>3
  <1>10. /\ Len(feed') = n /\ feed'[n] = grown
         /\ \A p \in 1..n : p # n => feed'[p] = feed[p]
    <2>1. feed \in Seq(Seq(Nat)) BY DEF FeedOk
    <2>2. n \in 1..Len(feed) BY <1>1
    <2>3. QED BY <1>6, <2>1, <2>2
  <1>11. feed' \in Seq(Seq(Nat))
    <2>1. feed \in Seq(Seq(Nat)) BY DEF FeedOk
    <2>2. n \in 1..Len(feed) BY <1>1
    <2> HIDE DEF n
    <2>3. [feed EXCEPT ![n] = grown] \in Seq(Seq(Nat)) BY <1>7, <2>1, <2>2, ExceptSeq
    <2>4. QED BY <1>6, <2>3
  <1>12. FeedOk(feed')
    <2>1. ASSUME NEW p \in 1..Len(feed')
          PROVE  /\ Len(feed'[p]) \in 1..MaxRounds /\ feed'[p][1] # 0
                 /\ \A a, b \in 1..Len(feed'[p]) :
                       a < b /\ feed'[p][a] # 0 /\ feed'[p][b] # 0 => feed'[p][a] < feed'[p][b]
      <3>1. CASE p = n BY <1>9, <1>10, <3>1
      <3>2. CASE p # n
        <4>1. p \in 1..Len(feed) /\ feed'[p] = feed[p] BY <1>10, <3>2
        <4>2. QED BY <4>1 DEF FeedOk
      <3>3. QED BY <3>1, <3>2
    <2>2. QED BY <1>1, <1>10, <1>11, <2>1 DEF FeedOk
  <1>13. Grown(feed, feed')
    <2>1. Len(feed) <= Len(feed') BY <1>1, <1>10
    <2>2. ASSUME NEW p \in 1..Len(feed)
          PROVE  Len(feed[p]) <= Len(feed'[p]) /\ \A a \in 1..Len(feed[p]) : feed'[p][a] = feed[p][a]
      <3>1. CASE p = n
        <4>1. feed'[p] = grown /\ feed[p] = last BY <1>10, <3>1 DEF last
        <4>2. Len(last) <= Len(grown) BY <1>2, <1>4, <1>7
        <4>3. QED BY <4>1, <4>2, <1>7
      <3>2. CASE p # n
        <4>1. feed'[p] = feed[p] BY <1>10, <3>2
        <4>2. Len(feed[p]) \in Nat
          <5>1. feed[p] \in Seq(Nat) BY DEF FeedOk
          <5>2. QED BY <5>1
        <4>3. QED BY <4>1, <4>2
      <3>3. QED BY <3>1, <3>2
    <2>3. QED BY <2>1, <2>2 DEF Grown
  <1>14. QED BY <1>12, <1>13

LEMMA ANewPhase ==
  ASSUME FeedOk(feed), NewPhase
  PROVE  FeedOk(feed') /\ Grown(feed, feed')
  <1> DEFINE n == Len(feed)
             phase == <<At(Newest) + 2>>
  <1>1. n \in Nat /\ n >= 1 /\ n < MaxPhases /\ feed \in Seq(Seq(Nat)) /\ feed' = Append(feed, phase)
    BY PriceBounds DEF FeedOk, NewPhase
  <1>2. phase \in Seq(Nat) /\ Len(phase) = 1 /\ phase[1] # 0
    <2>1. At(Newest) + 2 \in Nat /\ At(Newest) + 2 # 0 BY NewestIsLast
    <2>2. QED BY <2>1
  <1> HIDE DEF phase
  <1>3. /\ feed' \in Seq(Seq(Nat)) /\ Len(feed') = n + 1 /\ feed'[n + 1] = phase
        /\ \A p \in 1..n : feed'[p] = feed[p]
    BY <1>1, <1>2
  <1>4. FeedOk(feed')
    <2>1. ASSUME NEW p \in 1..Len(feed')
          PROVE  /\ Len(feed'[p]) \in 1..MaxRounds /\ feed'[p][1] # 0
                 /\ \A a, b \in 1..Len(feed'[p]) :
                       a < b /\ feed'[p][a] # 0 /\ feed'[p][b] # 0 => feed'[p][a] < feed'[p][b]
      <3>1. CASE p = n + 1
        <4>1. feed'[p] = phase BY <1>3, <3>1
        <4>2. 1 \in 1..MaxRounds BY PriceBounds
        <4>3. \A a, b \in 1..1 : ~ (a < b) OBVIOUS
        <4>4. QED BY <1>2, <4>1, <4>2, <4>3
      <3>2. CASE p # n + 1
        <4>1. p \in 1..Len(feed) /\ feed'[p] = feed[p] BY <1>1, <1>3, <3>2
        <4>2. QED BY <4>1 DEF FeedOk
      <3>3. QED BY <3>1, <3>2
    <2>2. Len(feed') \in 1..MaxPhases BY <1>1, <1>3, PriceBounds
    <2>3. QED BY <1>3, <2>1, <2>2 DEF FeedOk
  <1>5. Grown(feed, feed')
    <2>1. \A p \in 1..Len(feed) : Len(feed[p]) \in Nat
      <3>1. TAKE p \in 1..Len(feed)
      <3>2. feed[p] \in Seq(Nat) BY DEF FeedOk
      <3>3. QED BY <3>2
    <2>2. \A p \in 1..Len(feed) : Len(feed[p]) <= Len(feed'[p]) BY <1>3, <2>1
    <2>3. QED BY <1>1, <1>3, <2>2 DEF Grown
  <1>6. QED BY <1>4, <1>5

\* When only the feed grew, all that was found still holds.
LEMMA FeedStep ==
  ASSUME PriceInv, FeedOk(feed'), Grown(feed, feed'), UNCHANGED <<rounds, hours, searches>>
  PROVE  PriceInv'
  <1>1. rounds' = rounds /\ hours' = hours /\ searches' = searches OBVIOUS
  <1>2. FeedOk(feed) /\ RoundsOk(feed, rounds) BY DEF PriceInv
  <1>3. RoundsOk(feed', rounds) BY <1>2, GrownRounds
  <1>4. \A t \in DOMAIN hours : t \in Nat /\ HourOk(feed', t, hours[t])
    BY <1>2, GrownHour DEF PriceInv
  <1>5. \A r \in Readers : SearchOk(feed', rounds, searches[r])
    BY <1>2, GrownSearch DEF PriceInv
  <1>6. searches = [r \in Readers |-> searches[r]] BY DEF PriceInv
  <1>7. QED BY <1>1, <1>3, <1>4, <1>5, <1>6 DEF PriceInv

-----------------------------------------------------------------------------
(* What is found of it. *)

\* What comes back is cached over what was there, and is the round or nothing.
LEMMA WithIs ==
  ASSUME NEW cache, NEW ks, NEW answer
  PROVE  /\ DOMAIN With(cache, ks, answer) = DOMAIN cache \cup ks
         /\ \A k \in ks : With(cache, ks, answer)[k] = answer[k]
         /\ \A k \in DOMAIN cache \ ks : With(cache, ks, answer)[k] = cache[k]
  BY DEF With

LEMMA CachedTruly ==
  ASSUME FeedOk(feed), RoundsOk(feed, rounds), NEW ks, NEW answer,
         \A k \in ks : /\ k = <<k[1], k[2]>> /\ k[1] \in 1..Len(feed) /\ k[2] \in 1..MaxRounds
                       /\ answer[k] = 0 \/ (k \in Written /\ answer[k] = At(k))
  PROVE  RoundsOk(feed, With(rounds, ks, answer))
  <1> DEFINE w == With(rounds, ks, answer)
  <1>1. /\ DOMAIN w = DOMAIN rounds \cup ks
        /\ \A k \in ks : w[k] = answer[k]
        /\ \A k \in DOMAIN rounds \ ks : w[k] = rounds[k]
    BY DEF With
  <1> HIDE DEF w
  <1>2. ASSUME NEW k \in DOMAIN w
        PROVE  /\ k = <<k[1], k[2]>> /\ k[1] \in 1..Len(feed) /\ k[2] \in 1..MaxRounds /\ w[k] \in Nat
               /\ w[k] # 0 => HasRound(feed, k[1], k[2]) /\ w[k] = feed[k[1]][k[2]]
    <2>1. CASE k \in ks
      <3>1. w[k] = answer[k] BY <1>1, <2>1
      <3>2. CASE answer[k] = 0 BY <2>1, <3>1, <3>2
      <3>3. CASE k \in Written /\ answer[k] = At(k)
        <4>1. HasRound(feed, k[1], k[2]) /\ At(k) \in Nat BY <3>3, WrittenIs
        <4>2. QED BY <2>1, <3>1, <3>3, <4>1 DEF At
      <3>4. QED BY <2>1, <3>2, <3>3
    <2>2. CASE k \notin ks
      <3>1. k \in DOMAIN rounds /\ w[k] = rounds[k] BY <1>1, <2>2
      <3>2. QED BY <3>1 DEF RoundsOk
    <2>3. QED BY <2>1, <2>2
  <1>3. RoundsOk(feed, w) BY <1>2 DEF RoundsOk
  <1>4. QED BY <1>3 DEF w

\* Bounds only close in, and stay on their sides; no round known to have data is left inside.
LEMMA BoundsClose ==
  ASSUME FeedOk(feed), RoundsOk(feed, rounds), NEW p, NEW t \in Nat, NEW b, BetweenOk(feed, p, t, b)
  PROVE  /\ BetweenOk(feed, p, t, Bounds(p, t, b))
         /\ b.lo =< Bounds(p, t, b).lo /\ Bounds(p, t, b).hi =< b.hi
         /\ \A a : <<p, a>> \in DOMAIN rounds /\ rounds[<<p, a>>] # 0 =>
               a =< Bounds(p, t, b).lo \/ Bounds(p, t, b).hi =< a
  <1> DEFINE low == {b.lo} \cup {k[2] : k \in AtOrBefore(p, t)}
             high == {b.hi} \cup {k[2] : k \in After(p, t)}
  <1>1. p \in 1..Len(feed) /\ Len(feed[p]) \in Nat /\ Len(feed[p]) =< MaxRounds
    <2>1. p \in 1..Len(feed) BY DEF BetweenOk, HasRound
    <2>2. Len(feed[p]) \in 1..MaxRounds BY <2>1 DEF FeedOk
    <2>3. QED BY <2>1, <2>2, PriceBounds
  <1>2. ASSUME NEW a, HasRound(feed, p, a) PROVE a \in 1..MaxRounds
    <2>1. a \in 1..Len(feed[p]) BY <1>2 DEF HasRound
    <2>2. QED BY <1>1, <2>1, PriceBounds
  <1>3. ASSUME NEW a \in low PROVE HasRound(feed, p, a) /\ feed[p][a] =< t
    <2>1. CASE a = b.lo BY <2>1 DEF BetweenOk
    <2>2. CASE a # b.lo
      <3>1. PICK k \in AtOrBefore(p, t) : a = k[2] BY <2>2
      <3>2. k \in DOMAIN rounds /\ k[1] = p /\ rounds[k] # 0 /\ rounds[k] =< t BY DEF AtOrBefore
      <3>3. HasRound(feed, k[1], k[2]) /\ rounds[k] = feed[k[1]][k[2]] BY <3>2 DEF RoundsOk
      <3>4. QED BY <3>1, <3>2, <3>3
    <2>3. QED BY <2>1, <2>2
  <1>4. ASSUME NEW a \in high PROVE HasRound(feed, p, a) /\ feed[p][a] > t
    <2>1. CASE a = b.hi BY <2>1 DEF BetweenOk
    <2>2. CASE a # b.hi
      <3>1. PICK k \in After(p, t) : a = k[2] BY <2>2
      <3>2. k \in DOMAIN rounds /\ k[1] = p /\ rounds[k] > t BY DEF After
      <3>3. rounds[k] \in Nat BY <3>2 DEF RoundsOk
      <3>4. rounds[k] # 0 BY <3>2, <3>3
      <3>5. HasRound(feed, k[1], k[2]) /\ rounds[k] = feed[k[1]][k[2]] BY <3>2, <3>4 DEF RoundsOk
      <3>6. QED BY <3>1, <3>2, <3>5
    <2>3. QED BY <2>1, <2>2
  <1>5. b.lo \in low /\ b.hi \in high OBVIOUS
  <1>6. ASSUME NEW a, <<p, a>> \in DOMAIN rounds, rounds[<<p, a>>] # 0 PROVE a \in low \/ a \in high
    <2> DEFINE k == <<p, a>>
    <2>1. k[1] = p /\ k[2] = a /\ k \in DOMAIN rounds /\ rounds[k] # 0 BY <1>6
    <2> HIDE DEF k
    <2>2. rounds[k] \in Nat BY <2>1 DEF RoundsOk
    <2>3. CASE rounds[k] =< t
      <3>1. k \in AtOrBefore(p, t) BY <2>1, <2>3 DEF AtOrBefore
      <3>2. QED BY <2>1, <3>1
    <2>4. CASE rounds[k] > t
      <3>1. k \in After(p, t) BY <2>1, <2>4 DEF After
      <3>2. QED BY <2>1, <3>1
    <2>5. QED BY <2>2, <2>3, <2>4
  <1> DEFINE lo == Max(low)  hi == Min(high)
  <1>7. Bounds(p, t, b).lo = lo /\ Bounds(p, t, b).hi = hi BY DEF Bounds
  <1> HIDE DEF low, high
  <1>8. low \in SUBSET (1..MaxRounds) /\ high \in SUBSET (1..MaxRounds) BY <1>2, <1>3, <1>4
  <1>9. lo \in low /\ \A y \in low : y =< lo BY <1>5, <1>8, PriceBounds, MaxMinOf
  <1>10. hi \in high /\ \A y \in high : hi =< y BY <1>5, <1>8, PriceBounds, MaxMinOf
  <1> HIDE DEF lo, hi
  <1>11. HasRound(feed, p, lo) /\ feed[p][lo] =< t /\ HasRound(feed, p, hi) /\ feed[p][hi] > t
    BY <1>3, <1>4, <1>9, <1>10
  <1>12. lo < hi
    <2>1. /\ feed[p][lo] \in Nat /\ feed[p][hi] \in Nat
          /\ lo < hi <=> feed[p][lo] < feed[p][hi]
      BY <1>11, InOrder
    <2>2. QED BY <2>1, <1>11
  <1> DEFINE bb == Bounds(p, t, b)
  <1>13. BetweenOk(feed, p, t, bb)
    <2>1. bb.lo = lo /\ bb.hi = hi BY <1>7
    <2> HIDE DEF bb
    <2>2. QED BY <1>11, <1>12, <2>1 DEF BetweenOk
  <1>14. b.lo =< lo /\ hi =< b.hi BY <1>5, <1>9, <1>10
  <1>15. \A a : <<p, a>> \in DOMAIN rounds /\ rounds[<<p, a>>] # 0 => a =< lo \/ hi =< a
    BY <1>6, <1>9, <1>10
  <1>16. QED BY <1>7, <1>13, <1>14, <1>15

\* Bounds that meet decide the sample.
LEMMA Decided ==
  ASSUME FeedOk(feed), NEW p, NEW t \in Nat, NEW b, BetweenOk(feed, p, t, b), ~ Apart(b)
  PROVE  HourOk(feed, t, <<p, b.lo>>)
  <1>1. /\ HasRound(feed, p, b.lo) /\ HasRound(feed, p, b.hi)
        /\ b.lo < b.hi /\ feed[p][b.lo] =< t /\ feed[p][b.hi] > t
    BY DEF BetweenOk
  <1>2. b.lo \in Nat /\ b.hi \in Nat BY <1>1, InOrder
  <1>3. b.hi = b.lo + 1 BY <1>1, <1>2 DEF Apart
  <1>4. b.lo + 1 \in 1..Len(feed[p]) BY <1>1, <1>3 DEF HasRound
  <1>5. QED BY <1>1, <1>3, <1>4 DEF HourOk

\* A probe inside the bounds takes what the level allows for.
LEMMA ALevelIsEnough ==
  ASSUME NEW l \in 0..MaxLevel, NEW b, NEW c,
         b.lo \in Nat, b.hi \in Nat, c.lo \in Nat, c.hi \in Nat,
         b.lo =< c.lo, c.hi =< b.hi, c.lo < c.hi, Apart(b),
         b.hi - b.lo =< Width[l], NEW a \in Probes(l, b), a =< c.lo \/ c.hi =< a
  PROVE  c.hi - c.lo =< Width[l + 1]
  <1> DEFINE w == Width[l]  v == Width[l + 1]
  <1>1. w \in Nat /\ v \in Nat /\ l \in 0..MaxLevel /\ l \in Nat
    <2>1. l \in 0..(MaxLevel + 1) /\ l + 1 \in 0..(MaxLevel + 1) /\ l \in Nat BY PriceBounds
    <2>2. w \in 0..MaxRounds /\ v \in 0..MaxRounds BY <2>1, Widths
    <2>3. QED BY <2>1, <2>2, PriceBounds
  <1>2. IF l % 2 = 0 THEN w - 1 =< v ELSE w =< 2 * v BY Widths DEF Narrowing
  <1>3. b.hi - b.lo =< w OBVIOUS
  <1> HIDE DEF w, v
  <1>4. CASE l % 2 = 0
    <2>1. a \in b.lo + 1 .. b.hi - 1 BY <1>4 DEF Probes
    <2>2. c.hi - c.lo =< w - 1
      <3>1. a \in Nat /\ b.lo < a /\ a < b.hi BY <2>1
      <3>2. QED BY <3>1, <1>1, <1>3
    <2>3. c.hi - c.lo =< v BY <2>2, <1>1, <1>2, <1>4
    <2>4. QED BY <2>3 DEF v
  <1>5. CASE l % 2 # 0
    <2> DEFINE d == b.hi - b.lo  h == d \div 2
    <2>1. d \in Nat /\ d > 1 BY DEF Apart
    <2>2. a = b.lo + h BY <1>5 DEF Probes
    <2>3. b.hi = b.lo + d OBVIOUS
    <2> HIDE DEF d
    <2>4. h \in Nat /\ h =< d - h /\ 2 * (d - h) =< d + 1 BY <2>1
    <2>5. d =< 2 * v BY <1>1, <1>2, <1>3, <1>5 DEF d
    <2> HIDE DEF h
    <2>6. d - h =< v BY <2>1, <2>4, <2>5, <1>1
    <2>7. c.hi - c.lo =< d - h BY <2>1, <2>2, <2>3, <2>4
    <2>8. c.hi - c.lo =< v BY <2>1, <2>4, <2>6, <2>7, <1>1
    <2>9. QED BY <2>8 DEF v
  <1>6. QED BY <1>4, <1>5

-----------------------------------------------------------------------------
(* The steps of a request. *)

LEMMA BecomesIs ==
  ASSUME PriceInv, NEW r \in Readers, NEW s, Becomes(r, s)
  PROVE  /\ searches' = [q \in Readers |-> searches'[q]] /\ searches'[r] = s
         /\ \A q \in Readers : q # r => searches'[q] = searches[q]
  <1>1. searches = [q \in Readers |-> searches[q]] BY DEF PriceInv
  <1>2. searches' = [searches EXCEPT ![r] = s] BY DEF Becomes
  <1>3. QED BY <1>1, <1>2

LEMMA RequestStep ==
  ASSUME PriceInv, NEW r \in Readers, UNCHANGED feed,
         RoundsOk(feed, rounds'), DOMAIN rounds \subseteq DOMAIN rounds',
         \A t \in DOMAIN hours' : t \in Nat /\ HourOk(feed, t, hours'[t]),
         searches' = [q \in Readers |-> searches'[q]],
         \A q \in Readers : q # r => searches'[q] = searches[q],
         SearchOk(feed, rounds', searches'[r])
  PROVE  PriceInv'
  <1>1. FeedOk(feed) BY DEF PriceInv
  <1>2. ASSUME NEW q \in Readers PROVE SearchOk(feed, rounds', searches'[q])
    <2>1. CASE q = r BY <2>1
    <2>2. CASE q # r
      <3>1. SearchOk(feed, rounds, searches[q]) BY DEF PriceInv
      <3>2. SearchOk(feed, rounds', searches[q]) BY <3>1, MoreCached
      <3>3. QED BY <2>2, <3>2
    <2>3. QED BY <2>1, <2>2
  <1>3. QED BY <1>1, <1>2 DEF PriceInv

LEMMA NoSearchIs == IsSearch(NoSearch)
  BY DEF IsSearch, Fields, NoSearch

\* No search is running.
LEMMA AtRest ==
  ASSUME NEW f, NEW rs, NEW stage \in {"none", "no-rounds"}
  PROVE  SearchOk(f, rs, [NoSearch EXCEPT !.stage = stage])
  <1> DEFINE s == [NoSearch EXCEPT !.stage = stage]
  <1>1. s.stage = stage /\ s.emptied = FALSE /\ s.open = [t \in {} |-> 0]
    BY DEF NoSearch
  <1>2. IsSearch(s) BY NoSearchIs DEF IsSearch, Fields
  <1> HIDE DEF s
  <1>3. DOMAIN s.open = {} BY <1>1
  <1>4. SearchOk(f, rs, s) BY <1>1, <1>2, <1>3 DEF SearchOk, Stages
  <1>5. QED BY <1>4 DEF s

LEMMA NoneAtRest ==
  ASSUME NEW f, NEW rs
  PROVE  SearchOk(f, rs, NoSearch)
  <1>1. SearchOk(f, rs, [NoSearch EXCEPT !.stage = "none"]) BY AtRest
  <1>2. [NoSearch EXCEPT !.stage = "none"] = NoSearch BY DEF NoSearch
  <1>3. QED BY <1>1, <1>2

LEMMA LatestStep ==
  ASSUME PriceInv, NEW r \in Readers, NEW window \in Windows, Latest(r, window)
  PROVE  PriceInv'
  <1>1. PICK k \in Written :
          /\ rounds' = With(rounds, {k}, [j \in {k} |-> At(k)])
          /\ Becomes(r, [NoSearch EXCEPT !.stage = "first", !.phase = k[1], !.top = k[2],
                                         !.samples = {t \in window : t =< At(k)}])
    BY DEF Latest
  <1> DEFINE s == [NoSearch EXCEPT !.stage = "first", !.phase = k[1], !.top = k[2],
                                   !.samples = {t \in window : t =< At(k)}]
             answer == [j \in {k} |-> At(k)]
  <1>2. FeedOk(feed) /\ RoundsOk(feed, rounds) BY DEF PriceInv
  <1>3. k = <<k[1], k[2]>> /\ HasRound(feed, k[1], k[2]) BY <1>2, WrittenIs
  <1>4. RoundsOk(feed, With(rounds, {k}, answer))
    <2>1. k[1] \in 1..Len(feed) /\ k[2] \in 1..MaxRounds /\ answer[k] = At(k)
      BY <1>1 DEF Written, HasRound
    <2> HIDE DEF answer
    <2>2. k[1] \in 1..Len(feed) BY <1>3 DEF HasRound
    <2>3. QED BY <1>2, <1>3, <2>1, <2>2, CachedTruly
  <1>5. DOMAIN With(rounds, {k}, answer) = DOMAIN rounds \cup {k} BY WithIs
  <1>6. SearchOk(feed, rounds', s)
    <2> DEFINE all == {t \in window : t =< At(k)}
    <2>1. \A t \in all : t \in Nat /\ t =< feed[k[1]][k[2]] BY PriceBounds DEF At
    <2> HIDE DEF all
    <2>2. s = [NoSearch EXCEPT !.stage = "first", !.phase = k[1], !.top = k[2], !.samples = all]
      BY DEF all
    <2> HIDE DEF s
    <2>3. s.stage = "first" /\ s.emptied = FALSE /\ s.open = [t \in {} |-> 0]
          /\ s.phase = k[1] /\ s.top = k[2] /\ s.samples = all /\ s.level = 0
      BY <2>2 DEF NoSearch
    <2>4. DOMAIN s.open = {} BY <2>3
    <2>5. IsSearch(s) BY <2>2, NoSearchIs DEF IsSearch, Fields
    <2>6. QED BY <1>3, <2>1, <2>3, <2>4, <2>5 DEF SearchOk, Stages
  <1>7. Becomes(r, s) /\ rounds' = With(rounds, {k}, answer) BY <1>1
  <1>8. UNCHANGED <<feed, hours>> BY DEF Latest
  <1>9. \A t \in DOMAIN hours' : t \in Nat /\ HourOk(feed, t, hours'[t]) BY <1>8 DEF PriceInv
  <1> HIDE DEF s, answer
  <1>10. /\ searches' = [q \in Readers |-> searches'[q]] /\ searches'[r] = s
         /\ \A q \in Readers : q # r => searches'[q] = searches[q]
    BY <1>7, BecomesIs
  <1>11. RoundsOk(feed, rounds') /\ DOMAIN rounds \subseteq DOMAIN rounds' BY <1>4, <1>5, <1>7
  <1>12. QED BY <1>6, <1>8, <1>9, <1>10, <1>11, RequestStep

LEMMA AnswersAre ==
  ASSUME NEW k, NEW time \in Answers(k)
  PROVE  time = 0 \/ (k \in Written /\ time = At(k))
  BY DEF Answers

LEMMA FetchFirstStep ==
  ASSUME PriceInv, NEW r \in Readers, FetchFirst(r)
  PROVE  PriceInv'
  <1> DEFINE k == <<searches[r].phase, 1>>
  <1>1. PICK time \in Answers(k) : rounds' = With(rounds, {k}, [j \in {k} |-> time])
    BY DEF FetchFirst
  <1> DEFINE answer == [j \in {k} |-> time]
  <1>2. FeedOk(feed) /\ RoundsOk(feed, rounds) /\ SearchOk(feed, rounds, searches[r])
    BY DEF PriceInv
  <1>3. k = <<k[1], k[2]>> /\ k[1] \in 1..Len(feed) /\ k[2] \in 1..MaxRounds
    <2>1. HasRound(feed, searches[r].phase, searches[r].top) BY <1>2 DEF SearchOk, FetchFirst
    <2>2. QED BY <2>1, PriceBounds DEF HasRound
  <1>4. answer[k] = time /\ (time = 0 \/ (k \in Written /\ time = At(k))) BY <1>1, AnswersAre
  <1>5. rounds' = With(rounds, {k}, answer) BY <1>1
  <1> HIDE DEF answer, k
  <1>6. RoundsOk(feed, With(rounds, {k}, answer)) BY <1>2, <1>3, <1>4, CachedTruly
  <1>7. DOMAIN With(rounds, {k}, answer) = DOMAIN rounds \cup {k} BY WithIs
  <1>8. UNCHANGED <<feed, hours, searches>> BY DEF FetchFirst
  <1>9. RoundsOk(feed, rounds') /\ DOMAIN rounds \subseteq DOMAIN rounds' BY <1>5, <1>6, <1>7
  <1>10. \A t \in DOMAIN hours' : t \in Nat /\ HourOk(feed, t, hours'[t]) BY <1>8 DEF PriceInv
  <1>11. searches' = [q \in Readers |-> searches'[q]] /\ \A q \in Readers : searches'[q] = searches[q]
    BY <1>8 DEF PriceInv
  <1>12. SearchOk(feed, rounds', searches'[r]) BY <1>2, <1>8, <1>9, MoreCached
  <1>13. QED BY <1>8, <1>9, <1>10, <1>11, <1>12, RequestStep

LEMMA SearchFailsStep ==
  ASSUME PriceInv, NEW r \in Readers, SearchFails(r)
  PROVE  PriceInv'
  <1>1. Becomes(r, NoSearch) /\ UNCHANGED <<feed, rounds, hours>> BY DEF SearchFails
  <1>2. /\ searches' = [q \in Readers |-> searches'[q]] /\ searches'[r] = NoSearch
        /\ \A q \in Readers : q # r => searches'[q] = searches[q]
    BY <1>1, BecomesIs
  <1>3. SearchOk(feed, rounds', searches'[r]) BY <1>2, NoneAtRest
  <1>4. RoundsOk(feed, rounds') /\ DOMAIN rounds \subseteq DOMAIN rounds' BY <1>1 DEF PriceInv
  <1>5. \A t \in DOMAIN hours' : t \in Nat /\ HourOk(feed, t, hours'[t]) BY <1>1 DEF PriceInv
  <1>6. QED BY <1>1, <1>2, <1>3, <1>4, <1>5, RequestStep

\* Samples are filed as they should be, over what was filed.
LEMMA FiledTruly ==
  ASSUME PriceInv, NEW ts, NEW answer,
         \A t \in ts : t \in Nat /\ HourOk(feed, t, answer[t])
  PROVE  \A t \in DOMAIN With(hours, ts, answer) :
            t \in Nat /\ HourOk(feed, t, With(hours, ts, answer)[t])
  <1> DEFINE w == With(hours, ts, answer)
  <1>1. /\ DOMAIN w = DOMAIN hours \cup ts
        /\ \A t \in ts : w[t] = answer[t]
        /\ \A t \in DOMAIN hours \ ts : w[t] = hours[t]
    BY DEF With
  <1> HIDE DEF w
  <1>2. \A t \in DOMAIN hours : t \in Nat /\ HourOk(feed, t, hours[t]) BY DEF PriceInv
  <1>3. \A t \in DOMAIN w : t \in Nat /\ HourOk(feed, t, w[t]) BY <1>1, <1>2
  <1>4. QED BY <1>3 DEF w

LEMMA OpenStep ==
  ASSUME PriceInv, NEW r \in Readers, Open(r)
  PROVE  PriceInv'
  <1> DEFINE s == searches[r]
             k == <<s.phase, 1>>
             first == rounds[k]
             left == s.samples \ DOMAIN hours
             latest == {t \in left : t >= feed[s.phase][s.top]}
             early == {t \in left \ latest : t < first}
             inside == left \ (latest \cup early)
             answer == [t \in left |-> <<s.phase, IF t \in latest THEN s.top ELSE 1>>]
             open == [t \in inside |-> Bounds(s.phase, t, [lo |-> 1, hi |-> s.top])]
             onward == [s EXCEPT !.stage = "asking", !.open = open]
  <1>1. /\ s.stage = "first" /\ k \in DOMAIN rounds /\ UNCHANGED <<feed, rounds>>
        /\ IF first = 0
           THEN Becomes(r, [NoSearch EXCEPT !.stage = "no-rounds"]) /\ UNCHANGED hours
           ELSE /\ hours' = With(hours, latest \cup early, answer)
                /\ IF inside = {} THEN Becomes(r, NoSearch) ELSE Becomes(r, onward)
    BY DEF Open
  <1>2. FeedOk(feed) /\ RoundsOk(feed, rounds) /\ SearchOk(feed, rounds, s) BY DEF PriceInv
  <1>3. /\ HasRound(feed, s.phase, s.top) /\ s.level = 0 /\ s.emptied \in BOOLEAN /\ IsSearch(s)
        /\ \A t \in s.samples : t \in Nat /\ t =< feed[s.phase][s.top]
    BY <1>1, <1>2 DEF SearchOk
  <1>4. RoundsOk(feed, rounds') /\ DOMAIN rounds \subseteq DOMAIN rounds' BY <1>1, <1>2
  <1>5. CASE first = 0
    <2>1. Becomes(r, [NoSearch EXCEPT !.stage = "no-rounds"]) /\ UNCHANGED hours BY <1>1, <1>5
    <2>2. /\ searches' = [q \in Readers |-> searches'[q]]
          /\ searches'[r] = [NoSearch EXCEPT !.stage = "no-rounds"]
          /\ \A q \in Readers : q # r => searches'[q] = searches[q]
      BY <2>1, BecomesIs
    <2>3. SearchOk(feed, rounds', searches'[r]) BY <2>2, AtRest
    <2>4. \A t \in DOMAIN hours' : t \in Nat /\ HourOk(feed, t, hours'[t]) BY <2>1 DEF PriceInv
    <2> HIDE DEF s
    <2>5. QED BY <1>1, <1>4, <2>2, <2>3, <2>4, RequestStep
  <1>6. CASE first # 0
    <2>1. HasRound(feed, s.phase, 1) /\ first = feed[s.phase][1]
      <3>1. k[1] = s.phase /\ k[2] = 1 OBVIOUS
      <3>2. HasRound(feed, k[1], k[2]) /\ rounds[k] = feed[k[1]][k[2]]
        BY <1>1, <1>2, <1>6 DEF RoundsOk
      <3>3. QED BY <3>1, <3>2
    <2>2. feed[s.phase][s.top] \in Nat /\ first \in Nat /\ s.top \in Nat
          /\ (1 < s.top <=> first < feed[s.phase][s.top])
      BY ZenonT(40), <1>2, <1>3, <2>1, InOrder
    <2>3. \A t \in left : t \in Nat /\ t =< feed[s.phase][s.top] BY <1>3
    <2>4. \A t \in latest \cup early : t \in Nat /\ HourOk(feed, t, answer[t])
      <3>1. TAKE t \in latest \cup early
      <3>2. t \in left /\ t \in Nat /\ t =< feed[s.phase][s.top] BY <2>3
      <3>3. CASE t \in latest
        <4>1. answer[t] = <<s.phase, s.top>> BY <3>2, <3>3
        <4>2. feed[s.phase][s.top] = t BY <3>2, <3>3, <2>2
        <4>3. QED BY <1>3, <3>2, <4>1, <4>2 DEF HourOk
      <3>4. CASE t \notin latest
        <4>1. answer[t] = <<s.phase, 1>> /\ t < first BY <3>2, <3>4
        <4>2. QED BY <2>1, <3>2, <4>1 DEF HourOk
      <3>5. QED BY <3>3, <3>4
    <2>5. hours' = With(hours, latest \cup early, answer)
          /\ IF inside = {} THEN Becomes(r, NoSearch) ELSE Becomes(r, onward)
      BY <1>1, <1>6
    <2>6. ASSUME NEW t \in inside
          PROVE  t \in Nat /\ BetweenOk(feed, s.phase, t, [lo |-> 1, hi |-> s.top])
      <3>1. t \in left /\ t \in Nat /\ t =< feed[s.phase][s.top] BY <2>3, <2>6
      <3>2. t \notin latest /\ t \notin early BY <2>6
      <3>3. ~ (t >= feed[s.phase][s.top]) BY <3>1, <3>2
      <3>4. ~ (t < first) BY <3>1, <3>2
      <3>5. first =< t /\ feed[s.phase][s.top] > t BY <2>2, <3>1, <3>3, <3>4
      <3>6. 1 < s.top BY <2>2, <3>1, <3>5
      <3> HIDE DEF first
      <3>7. QED BY <1>3, <2>1, <3>1, <3>5, <3>6 DEF BetweenOk
    <2>7. \A t \in DOMAIN hours' : t \in Nat /\ HourOk(feed, t, hours'[t])
      <3> DEFINE filed == latest \cup early
      <3>1. \A t \in filed : t \in Nat /\ HourOk(feed, t, answer[t]) BY <2>4
      <3>2. hours' = With(hours, filed, answer) BY <2>5
      <3> HIDE DEF filed, answer
      <3>3. \A t \in DOMAIN With(hours, filed, answer) :
               t \in Nat /\ HourOk(feed, t, With(hours, filed, answer)[t])
        BY <3>1, FiledTruly
      <3>4. QED BY <3>2, <3>3
    <2>8. SearchOk(feed, rounds', onward)
      <3>1. /\ onward.stage = "asking" /\ onward.phase = s.phase /\ onward.top = s.top
            /\ onward.samples = s.samples /\ onward.open = open /\ onward.level = 0
            /\ onward.emptied = s.emptied /\ IsSearch(onward)
        <4> HIDE DEF s, open
        <4>1. QED BY <1>3 DEF IsSearch, Fields
      <3>2. ASSUME NEW t \in inside
            PROVE  /\ BetweenOk(feed, s.phase, t, open[t])
                   /\ open[t].hi - open[t].lo =< Width[0]
        <4> DEFINE b == Bounds(s.phase, t, [lo |-> 1, hi |-> s.top])
        <4>1. BetweenOk(feed, s.phase, t, b)
          <5>1. t \in Nat /\ BetweenOk(feed, s.phase, t, [lo |-> 1, hi |-> s.top]) BY <2>6, <3>2
          <5> HIDE DEF s
          <5>2. QED BY <1>2, <5>1, BoundsClose
        <4>2. open[t] = b BY <3>2
        <4> HIDE DEF b, open, s, inside
        <4>3. b.lo \in 1..MaxRounds /\ b.hi \in 1..MaxRounds
          <5>1. /\ b.lo \in 1..Len(feed[s.phase]) /\ b.hi \in 1..Len(feed[s.phase])
                /\ s.phase \in 1..Len(feed)
            BY <4>1 DEF BetweenOk, HasRound
          <5>2. Len(feed[s.phase]) \in 1..MaxRounds BY <1>2, <5>1 DEF FeedOk
          <5>3. QED BY <5>1, <5>2, PriceBounds
        <4>4. b.hi - b.lo =< MaxRounds - 1 BY <4>3, PriceBounds
        <4>5. Width[0] = MaxRounds - 1 BY Widths DEF Narrowing
        <4>6. QED BY <4>1, <4>2, <4>4, <4>5
      <3>3. DOMAIN open = inside /\ \A t \in inside : t \in Nat BY <2>6
      <3> HIDE DEF open, onward, s, inside
      <3>4. OpenOk(feed, onward) BY <3>1, <3>2, <3>3 DEF OpenOk
      <3>5. onward.level \in 0..MaxLevel BY <3>1, PriceBounds
      <3>6. QED BY <1>3, <3>1, <3>4, <3>5 DEF SearchOk, Stages
    <2>9. \E x : Becomes(r, x) /\ SearchOk(feed, rounds', x)
      <3>1. SearchOk(feed, rounds', NoSearch) BY NoneAtRest
      <3>2. Becomes(r, NoSearch) \/ Becomes(r, onward) BY <2>5
      <3> HIDE DEF onward
      <3>3. QED BY <2>8, <3>1, <3>2
    <2>10. PICK x : Becomes(r, x) /\ SearchOk(feed, rounds', x) BY <2>9
    <2> HIDE DEF s, k
    <2>11. /\ searches' = [q \in Readers |-> searches'[q]] /\ searches'[r] = x
           /\ \A q \in Readers : q # r => searches'[q] = searches[q]
      BY <2>10, BecomesIs
    <2>12. SearchOk(feed, rounds', searches'[r]) BY <2>10, <2>11
    <2>13. UNCHANGED feed BY <1>1
    <2>14. QED BY <1>4, <2>7, <2>11, <2>12, <2>13, RequestStep
  <1>7. QED BY <1>5, <1>6

LEMMA LevelStep ==
  ASSUME PriceInv, NEW r \in Readers, Ask(r)
  PROVE  PriceInv'
  <1> DEFINE s == searches[r]
             apart == {t \in DOMAIN s.open : Apart(s.open[t])}
             asked == [s EXCEPT !.stage = "asked"]
  <1>1. s.stage = "asking" /\ Becomes(r, asked) /\ UNCHANGED <<feed, hours>> BY DEF Ask
  <1>2. PICK probe \in [apart -> 1..MaxRounds] :
          /\ \A t \in apart : probe[t] \in Probes(s.level, s.open[t])
          /\ LET ks == {<<s.phase, probe[t]>> : t \in apart} IN
               \E late \in SUBSET {k \in ks : 0 \in Answers(k)} :
                 /\ {k \in ks : Answers(k) = {0}} \subseteq late
                 /\ rounds' = With(rounds, ks, [k \in ks |-> IF k \in late THEN 0 ELSE At(k)])
    BY DEF Ask
  <1> DEFINE ks == {<<s.phase, probe[t]>> : t \in apart}
  <1>3. PICK late \in SUBSET {k \in ks : 0 \in Answers(k)} :
          /\ {k \in ks : Answers(k) = {0}} \subseteq late
          /\ rounds' = With(rounds, ks, [k \in ks |-> IF k \in late THEN 0 ELSE At(k)])
    BY <1>2
  <1> DEFINE answer == [k \in ks |-> IF k \in late THEN 0 ELSE At(k)]
  <1>4. FeedOk(feed) /\ RoundsOk(feed, rounds) /\ SearchOk(feed, rounds, s) BY DEF PriceInv
  <1>5. /\ HasRound(feed, s.phase, s.top) /\ s.level \in 0..MaxLevel /\ OpenOk(feed, s)
        /\ IsSearch(s) /\ s.emptied \in BOOLEAN
        /\ \A t \in s.samples : t \in Nat /\ t =< feed[s.phase][s.top]
    BY <1>1, <1>4 DEF SearchOk
  <1>6. \A k \in ks : /\ k = <<k[1], k[2]>> /\ k[1] \in 1..Len(feed) /\ k[2] \in 1..MaxRounds
                      /\ answer[k] = 0 \/ (k \in Written /\ answer[k] = At(k))
    <2>1. TAKE k \in ks
    <2>2. PICK t \in apart : k = <<s.phase, probe[t]>> BY <2>1
    <2>3. s.phase \in 1..Len(feed) BY <1>5 DEF HasRound
    <2>4. k = <<k[1], k[2]>> /\ k[1] \in 1..Len(feed) /\ k[2] \in 1..MaxRounds BY <2>2, <2>3
    <2>5. CASE k \in late
      <3>1. answer[k] = 0 BY <2>1, <2>5
      <3>2. QED BY <2>4, <3>1
    <2>6. CASE k \notin late
      <3>1. answer[k] = At(k) BY <2>1, <2>6
      <3>2. Answers(k) # {0} BY <1>3, <2>1, <2>6
      <3>3. k \in Written BY <3>2 DEF Answers
      <3>4. QED BY <2>4, <3>1, <3>3
    <2>7. QED BY <2>5, <2>6
  <1>7. rounds' = With(rounds, ks, answer) BY <1>3
  <1>8. RoundsOk(feed, rounds') /\ DOMAIN rounds' = DOMAIN rounds \cup ks
    <2> HIDE DEF answer, ks
    <2>1. RoundsOk(feed, With(rounds, ks, answer)) BY <1>4, <1>6, CachedTruly
    <2>2. DOMAIN With(rounds, ks, answer) = DOMAIN rounds \cup ks BY WithIs
    <2>3. QED BY <1>7, <2>1, <2>2
  <1>9. \A t \in DOMAIN s.open : Apart(s.open[t]) =>
           \E a \in Probes(s.level, s.open[t]) : <<s.phase, a>> \in DOMAIN rounds'
    <2>1. SUFFICES ASSUME NEW t \in DOMAIN s.open, Apart(s.open[t])
                   PROVE  \E a \in Probes(s.level, s.open[t]) : <<s.phase, a>> \in DOMAIN rounds'
      OBVIOUS
    <2>2. t \in apart BY <2>1
    <2>3. probe[t] \in Probes(s.level, s.open[t]) BY <1>2, <2>2
    <2>4. <<s.phase, probe[t]>> \in ks BY <2>2
    <2>5. <<s.phase, probe[t]>> \in DOMAIN rounds' BY <1>8, <2>4
    <2>6. QED BY <2>3, <2>5
  <1>10. SearchOk(feed, rounds', asked)
    <2>1. /\ asked.stage = "asked" /\ asked.phase = s.phase /\ asked.top = s.top
          /\ asked.samples = s.samples /\ asked.open = s.open /\ asked.level = s.level
          /\ asked.emptied = s.emptied /\ IsSearch(asked)
      <3> HIDE DEF s
      <3>1. QED BY <1>5 DEF IsSearch, Fields
    <2> HIDE DEF asked, s
    <2>2. OpenOk(feed, asked) BY <1>5, <2>1 DEF OpenOk
    <2>3. \A t \in DOMAIN asked.open : Apart(asked.open[t]) =>
             \E a \in Probes(asked.level, asked.open[t]) : <<asked.phase, a>> \in DOMAIN rounds'
      BY <1>9, <2>1
    <2>4. QED BY <1>5, <2>1, <2>2, <2>3 DEF SearchOk, Stages
  <1>11. \A t \in DOMAIN hours' : t \in Nat /\ HourOk(feed, t, hours'[t]) BY <1>1 DEF PriceInv
  <1> HIDE DEF asked, s, ks, apart
  <1>12. /\ searches' = [q \in Readers |-> searches'[q]] /\ searches'[r] = asked
         /\ \A q \in Readers : q # r => searches'[q] = searches[q]
    BY <1>1, BecomesIs
  <1>13. DOMAIN rounds \subseteq DOMAIN rounds' /\ UNCHANGED feed BY <1>1, <1>8
  <1>14. SearchOk(feed, rounds', searches'[r]) BY <1>10, <1>12
  <1>15. QED BY <1>8, <1>11, <1>12, <1>13, <1>14, RequestStep

LEMMA NarrowStep ==
  ASSUME PriceInv, NEW r \in Readers, Narrow(r)
  PROVE  PriceInv'
  <1> DEFINE s == searches[r]
             bounds == [t \in DOMAIN s.open |-> Bounds(s.phase, t, s.open[t])]
             still == {t \in DOMAIN bounds : Apart(bounds[t])}
             met == \E t \in still : \E a \in bounds[t].lo + 1 .. bounds[t].hi - 1 :
                       <<s.phase, a>> \in DOMAIN rounds /\ rounds[<<s.phase, a>>] = 0
             emptied == s.emptied \/ met
             answer == [t \in DOMAIN bounds |-> <<s.phase, bounds[t].lo>>]
             open == [t \in still |-> bounds[t]]
             lost == [NoSearch EXCEPT !.stage = "unconverged", !.emptied = emptied]
             onward == [s EXCEPT !.stage = "asking", !.level = s.level + 1, !.emptied = emptied,
                                 !.open = open]
  <1>1. /\ s.stage = "asked" /\ UNCHANGED <<feed, rounds>>
        /\ hours' = With(hours, DOMAIN bounds \ still, answer)
        /\ IF still = {} THEN Becomes(r, NoSearch)
           ELSE IF s.level = MaxLevel THEN Becomes(r, lost) ELSE Becomes(r, onward)
    BY DEF Narrow
  <1>2. FeedOk(feed) /\ RoundsOk(feed, rounds) /\ SearchOk(feed, rounds, s) BY DEF PriceInv
  <1>3. /\ HasRound(feed, s.phase, s.top) /\ s.level \in 0..MaxLevel /\ OpenOk(feed, s)
        /\ IsSearch(s) /\ s.emptied \in BOOLEAN
        /\ \A t \in s.samples : t \in Nat /\ t =< feed[s.phase][s.top]
        /\ \A t \in DOMAIN s.open : Apart(s.open[t]) =>
              \E a \in Probes(s.level, s.open[t]) : <<s.phase, a>> \in DOMAIN rounds
    BY <1>1, <1>2 DEF SearchOk
  <1>4. emptied \in BOOLEAN /\ (emptied # TRUE => s.emptied # TRUE /\ ~ met) BY <1>3
  <1>5. /\ DOMAIN bounds = DOMAIN s.open /\ DOMAIN open = still /\ still \subseteq DOMAIN s.open
        /\ \A t \in DOMAIN s.open : bounds[t] = Bounds(s.phase, t, s.open[t])
        /\ \A t \in DOMAIN s.open : t \in still <=> Apart(bounds[t])
        /\ \A t \in still : open[t] = bounds[t]
    OBVIOUS
  <1>5a. \A t \in DOMAIN s.open : answer[t] = <<s.phase, bounds[t].lo>>
    <2>1. answer = [t \in DOMAIN s.open |-> <<s.phase, bounds[t].lo>>] OBVIOUS
    <2> HIDE DEF answer, bounds, s
    <2>2. QED BY <2>1
  <1>6. emptied # TRUE => \A t \in still : \A a \in bounds[t].lo + 1 .. bounds[t].hi - 1 :
           ~ (<<s.phase, a>> \in DOMAIN rounds /\ rounds[<<s.phase, a>>] = 0)
    BY <1>4
  <1> HIDE DEF bounds, still, met, answer, open, emptied
  <1>7. ASSUME NEW t \in DOMAIN s.open
        PROVE  /\ t \in Nat /\ BetweenOk(feed, s.phase, t, bounds[t])
               /\ s.open[t].lo =< bounds[t].lo /\ bounds[t].hi =< s.open[t].hi
               /\ BetweenOk(feed, s.phase, t, s.open[t])
               /\ \A a : <<s.phase, a>> \in DOMAIN rounds /\ rounds[<<s.phase, a>>] # 0 =>
                     a =< bounds[t].lo \/ bounds[t].hi =< a
    <2>1. t \in Nat /\ BetweenOk(feed, s.phase, t, s.open[t]) BY <1>3 DEF OpenOk
    <2>2. bounds[t] = Bounds(s.phase, t, s.open[t]) BY <1>5
    <2> HIDE DEF s
    <2>3. QED BY ZenonT(40), <1>2, <2>1, <2>2, BoundsClose
  <1>8. ASSUME NEW t \in still, emptied # TRUE
        PROVE  bounds[t].hi - bounds[t].lo =< Width[s.level + 1]
    <2> DEFINE b == s.open[t]  c == bounds[t]
    <2>1. t \in DOMAIN s.open /\ Apart(c) BY <1>5, <1>8
    <2>2. BetweenOk(feed, s.phase, t, b) /\ BetweenOk(feed, s.phase, t, c) /\ b.lo =< c.lo /\ c.hi =< b.hi
      BY <1>7, <2>1
    <2>3. b.hi - b.lo =< Width[s.level] BY <1>3, <1>4, <1>8, <2>1 DEF OpenOk
    <2>4. b.lo \in Nat /\ b.hi \in Nat /\ c.lo \in Nat /\ c.hi \in Nat /\ c.lo < c.hi
      BY <1>2, <2>2, InOrder DEF BetweenOk
    <2>5. Apart(b)
      <3> HIDE DEF b, c
      <3>1. QED BY <2>1, <2>2, <2>4 DEF Apart
    <2>6. PICK a \in Probes(s.level, b) : <<s.phase, a>> \in DOMAIN rounds BY <1>3, <2>1, <2>5
    <2>7. a \in Nat
      <3>1. a \in 1..MaxRounds BY <1>2, <2>6 DEF RoundsOk
      <3>2. QED BY <3>1
    <2>8. a =< c.lo \/ c.hi =< a
      <3>1. CASE rounds[<<s.phase, a>>] = 0
        <4>1. a \notin c.lo + 1 .. c.hi - 1 BY <1>6, <1>8, <2>6, <3>1
        <4> HIDE DEF c
        <4>2. QED BY <4>1, <2>4, <2>7
      <3>2. CASE rounds[<<s.phase, a>>] # 0 BY <1>7, <2>1, <2>6, <3>2
      <3>3. QED BY <3>1, <3>2
    <2> DEFINE l == s.level
    <2>9. l \in 0..MaxLevel /\ b.hi - b.lo =< Width[l] /\ a \in Probes(l, b) BY <1>3, <2>3, <2>6
    <2> HIDE DEF b, c, l, s
    <2>10. c.hi - c.lo =< Width[l + 1] BY <2>2, <2>4, <2>5, <2>8, <2>9, ALevelIsEnough
    <2>11. QED BY <2>10 DEF c, l
  <1>9. \A t \in DOMAIN hours' : t \in Nat /\ HourOk(feed, t, hours'[t])
    <2> DEFINE done == DOMAIN bounds \ still
    <2>1. \A t \in done : t \in Nat /\ HourOk(feed, t, answer[t])
      <3>1. TAKE t \in done
      <3>1a. t \in DOMAIN s.open /\ t \notin still BY <1>5
      <3>1b. ~ Apart(bounds[t]) BY <1>5, <3>1a, Zenon
      <3>1c. answer[t] = <<s.phase, bounds[t].lo>> BY <1>5a, <3>1a
      <3>2. t \in DOMAIN s.open /\ ~ Apart(bounds[t]) /\ answer[t] = <<s.phase, bounds[t].lo>>
        BY <3>1a, <3>1b, <3>1c
      <3>3. t \in Nat /\ BetweenOk(feed, s.phase, t, bounds[t]) BY <1>7, <3>2
      <3> HIDE DEF s
      <3>4. HourOk(feed, t, <<s.phase, bounds[t].lo>>) BY <1>2, <3>2, <3>3, Decided
      <3>5. QED BY <3>2, <3>3, <3>4
    <2>2. hours' = With(hours, done, answer) BY <1>1
    <2> HIDE DEF done
    <2>3. \A t \in DOMAIN With(hours, done, answer) :
             t \in Nat /\ HourOk(feed, t, With(hours, done, answer)[t])
      BY <2>1, FiledTruly
    <2>4. QED BY <2>2, <2>3
  <1>10. \E x : Becomes(r, x) /\ SearchOk(feed, rounds', x)
    <2>1. CASE still = {}
      <3>1. Becomes(r, NoSearch) BY <1>1, <2>1
      <3>2. QED BY <3>1, NoneAtRest
    <2>2. CASE still # {} /\ s.level = MaxLevel
      <3>1. Becomes(r, lost) BY <1>1, <2>2
      <3>2. emptied = TRUE
        <4>1. SUFFICES ASSUME emptied # TRUE PROVE FALSE
          OBVIOUS
        <4>2. PICK t \in still : TRUE BY <2>2
        <4>3. t \in DOMAIN s.open /\ Apart(bounds[t]) BY <1>5, <4>2
        <4>4. bounds[t].hi - bounds[t].lo =< Width[MaxLevel + 1] BY <1>8, <2>2, <4>1
        <4>5. bounds[t].lo \in Nat /\ bounds[t].hi \in Nat
          <5>1. BetweenOk(feed, s.phase, t, bounds[t]) BY <1>7, <4>3
          <5>2. QED BY <1>2, <5>1, InOrder DEF BetweenOk
        <4>6. Width[MaxLevel + 1] =< 1 /\ Width[MaxLevel + 1] \in Nat
          <5>1. MaxLevel + 1 \in 0..(MaxLevel + 1) BY PriceBounds
          <5>2. Width[MaxLevel + 1] \in 0..MaxRounds BY <5>1, Widths
          <5>3. QED BY <5>2, Widths, PriceBounds DEF Narrowing
        <4> DEFINE d == bounds[t].hi - bounds[t].lo
        <4>7. d \in Int /\ d =< Width[MaxLevel + 1] BY <4>4, <4>5
        <4>8. d > 1 BY <4>3 DEF Apart
        <4> HIDE DEF d
        <4>9. QED BY <4>6, <4>7, <4>8
      <3>3. /\ lost.stage = "unconverged" /\ lost.emptied = TRUE /\ lost.open = [t \in {} |-> 0]
            /\ IsSearch(lost)
        BY <3>2, NoSearchIs DEF IsSearch, Fields, NoSearch
      <3> HIDE DEF lost
      <3>4. DOMAIN lost.open = {} BY <3>3
      <3>5. SearchOk(feed, rounds', lost) BY <3>3, <3>4 DEF SearchOk, Stages
      <3>6. QED BY <3>1, <3>5
    <2>3. CASE still # {} /\ s.level # MaxLevel
      <3>1. Becomes(r, onward) BY <1>1, <2>3
      <3>2. /\ onward.stage = "asking" /\ onward.phase = s.phase /\ onward.top = s.top
            /\ onward.samples = s.samples /\ onward.open = open /\ onward.level = s.level + 1
            /\ onward.emptied = emptied /\ IsSearch(onward)
        <4> HIDE DEF s
        <4>1. QED BY <1>3 DEF IsSearch, Fields
      <3>3. s.level + 1 \in 0..MaxLevel BY <1>3, <2>3, PriceBounds
      <3>4. ASSUME NEW t \in still
            PROVE  /\ t \in Nat /\ BetweenOk(feed, s.phase, t, open[t])
                   /\ emptied = TRUE \/ open[t].hi - open[t].lo =< Width[s.level + 1]
        <4>1. t \in DOMAIN s.open /\ open[t] = bounds[t] BY <1>5, <3>4
        <4>2. QED BY <1>7, <1>8, <4>1
      <3>5. DOMAIN open = still BY <1>5
      <3> HIDE DEF onward, s
      <3>6. OpenOk(feed, onward) BY <3>2, <3>4, <3>5 DEF OpenOk
      <3>7. SearchOk(feed, rounds', onward)
        BY <1>3, <1>4, <3>2, <3>3, <3>6 DEF SearchOk, Stages
      <3>8. QED BY <3>1, <3>7
    <2>4. QED BY <2>1, <2>2, <2>3
  <1>11. PICK x : Becomes(r, x) /\ SearchOk(feed, rounds', x) BY <1>10
  <1>12. RoundsOk(feed, rounds') /\ DOMAIN rounds \subseteq DOMAIN rounds' /\ UNCHANGED feed
    BY <1>1, <1>2
  <1> HIDE DEF s
  <1>13. /\ searches' = [q \in Readers |-> searches'[q]] /\ searches'[r] = x
         /\ \A q \in Readers : q # r => searches'[q] = searches[q]
    BY <1>11, BecomesIs
  <1>14. SearchOk(feed, rounds', searches'[r]) BY <1>11, <1>13
  <1>15. QED BY <1>9, <1>12, <1>13, <1>14, RequestStep

LEMMA PriceStep == PriceInv /\ [PriceNext]_priceVars => PriceInv'
  <1> SUFFICES ASSUME PriceInv, [PriceNext]_priceVars PROVE PriceInv'
    OBVIOUS
  <1>1. FeedOk(feed) BY DEF PriceInv
  <1>2. ASSUME NEW skips \in BOOLEAN, Publish(skips) PROVE PriceInv'
    <2>1. UNCHANGED <<rounds, hours, searches>> BY <1>2 DEF Publish
    <2>2. QED BY <1>1, <1>2, <2>1, Publishing, FeedStep
  <1>3. ASSUME NewPhase PROVE PriceInv'
    <2>1. UNCHANGED <<rounds, hours, searches>> BY <1>3 DEF NewPhase
    <2>2. QED BY <1>1, <1>3, <2>1, ANewPhase, FeedStep
  <1>4. ASSUME NEW r \in Readers, NEW window \in Windows, Latest(r, window) PROVE PriceInv'
    BY <1>4, LatestStep
  <1>5. ASSUME NEW r \in Readers,
               FetchFirst(r) \/ Open(r) \/ Ask(r) \/ Narrow(r) \/ SearchFails(r)
        PROVE  PriceInv'
    BY <1>5, FetchFirstStep, OpenStep, LevelStep, NarrowStep, SearchFailsStep
  <1>6. CASE UNCHANGED priceVars
    BY <1>6 DEF priceVars, PriceInv
  <1>7. QED BY <1>2, <1>3, <1>4, <1>5, <1>6 DEF PriceNext

LEMMA PriceStarts == PriceInit => PriceInv
  <1> SUFFICES ASSUME PriceInit PROVE PriceInv
    OBVIOUS
  <1>1. PICK h \in Histories : feed = <<h>> BY DEF PriceInit
  <1>2. /\ h \in Seq(Nat) /\ Len(h) \in 1..MaxRounds /\ h[1] # 0
        /\ \A a, b \in DOMAIN h : a < b /\ h[a] # 0 /\ h[b] # 0 => h[a] < h[b]
    BY PriceBounds
  <1>3. feed \in Seq(Seq(Nat)) /\ Len(feed) = 1 /\ feed[1] = h BY <1>1, <1>2
  <1>4. DOMAIN h = 1..Len(h) BY <1>2
  <1>5. FeedOk(feed)
    <2>1. 1 \in 1..MaxPhases BY PriceBounds
    <2>2. \A p \in 1..1 : feed[p] = h BY <1>3
    <2>3. ASSUME NEW p \in 1..Len(feed)
          PROVE  /\ Len(feed[p]) \in 1..MaxRounds /\ feed[p][1] # 0
                 /\ \A a, b \in 1..Len(feed[p]) :
                       a < b /\ feed[p][a] # 0 /\ feed[p][b] # 0 => feed[p][a] < feed[p][b]
      <3>1. feed[p] = h BY <1>3, <2>2
      <3>2. QED BY <1>2, <1>4, <3>1
    <2>4. QED BY <1>3, <2>1, <2>3 DEF FeedOk
  <1>6. RoundsOk(feed, rounds) BY DEF PriceInit, RoundsOk
  <1>7. DOMAIN hours = {} BY DEF PriceInit
  <1>8. searches = [r \in Readers |-> NoSearch] BY DEF PriceInit
  <1>9. \A r \in Readers : SearchOk(feed, rounds, searches[r]) BY <1>8, NoneAtRest
  <1>10. searches = [r \in Readers |-> searches[r]] BY <1>8
  <1>11. QED BY <1>5, <1>6, <1>7, <1>9, <1>10 DEF PriceInv

LEMMA Searching == PriceSpec => []PriceInv
  BY PriceStarts, PriceStep, PTL DEF PriceSpec

\* A sample that is filed is filed at its reference.
LEMMA FiledRight ==
  ASSUME FeedOk(feed), NEW t \in Nat, NEW k, HourOk(feed, t, k)
  PROVE  /\ k \in Written /\ k = Reference(k[1], t)
         /\ k[2] + 1 =< Len(feed[k[1]]) /\ feed[k[1]][k[2] + 1] = 0 => t = At(k) \/ t < feed[k[1]][1]
  <1> DEFINE p == k[1]  a == k[2]
             before == {j \in Written : j[1] = p /\ At(j) =< t}
  <1>1. k = <<p, a>> /\ HasRound(feed, p, a) /\ At(k) = feed[p][a] BY DEF HourOk, At
  <1>2. k \in Written /\ feed[p][a] \in Nat /\ a \in Nat /\ a >= 1
    <2>1. k \in Written BY <1>1, WrittenIs
    <2>2. feed[p][a] \in Nat /\ a \in Nat BY <1>1, InOrder
    <2>3. a \in 1..Len(feed[p]) BY <1>1 DEF HasRound
    <2>4. QED BY <2>1, <2>2, <2>3
  <1>3. ASSUME NEW j \in before
        PROVE  /\ j = <<p, j[2]>> /\ HasRound(feed, p, j[2]) /\ At(j) = feed[p][j[2]]
               /\ feed[p][j[2]] \in Nat /\ feed[p][j[2]] =< t /\ j[2] \in Nat /\ j[2] >= 1
    <2>1. j \in Written /\ j[1] = p /\ At(j) =< t OBVIOUS
    <2>2. j = <<j[1], j[2]>> /\ HasRound(feed, j[1], j[2]) BY <2>1, WrittenIs
    <2>3. HasRound(feed, p, j[2]) /\ At(j) = feed[p][j[2]] BY <2>1, <2>2 DEF At
    <2>4. feed[p][j[2]] \in Nat /\ j[2] \in Nat BY <2>3, InOrder
    <2>5. j[2] \in 1..Len(feed[p]) BY <2>3 DEF HasRound
    <2>6. QED BY <2>1, <2>2, <2>3, <2>4, <2>5
  <1> HIDE DEF before
  <1>4. CASE a = 1 /\ t < feed[p][1]
    <2>1. before = {}
      <3>1. SUFFICES ASSUME NEW j \in before PROVE FALSE
        OBVIOUS
      <3>2. HasRound(feed, p, j[2]) /\ feed[p][j[2]] =< t /\ feed[p][j[2]] \in Nat /\ j[2] \in Nat /\ j[2] >= 1
        BY <1>3
      <3>3. a < j[2] <=> feed[p][a] < feed[p][j[2]] BY <1>1, <3>2, InOrder
      <3>4. feed[p][j[2]] < feed[p][a] BY <1>2, <1>4, <3>2
      <3>5. j[2] # 1 BY <1>4, <3>2, <1>2
      <3>6. a < j[2] BY <1>4, <3>2, <3>5
      <3>7. QED BY <1>2, <3>2, <3>3, <3>4, <3>6
    <2>2. Reference(p, t) = k BY <1>1, <1>4, <2>1 DEF Reference, before
    <2>3. QED BY <1>2, <1>4, <2>2
  <1>5. CASE feed[p][a] = t \/ (feed[p][a] =< t /\ a + 1 \in 1..Len(feed[p]) /\ feed[p][a + 1] > t)
    <2>1. k \in before BY <1>1, <1>2, <1>5 DEF before
    <2>2. ASSUME NEW j \in before PROVE At(j) =< At(k)
      <3>1. HasRound(feed, p, j[2]) /\ feed[p][j[2]] =< t /\ feed[p][j[2]] \in Nat /\ j[2] \in Nat
            /\ At(j) = feed[p][j[2]]
        BY <1>3
      <3>2. CASE feed[p][a] = t BY <1>1, <3>1, <3>2
      <3>3. CASE feed[p][a] =< t /\ a + 1 \in 1..Len(feed[p]) /\ feed[p][a + 1] > t
        <4>1. HasRound(feed, p, a + 1)
          <5>1. p \in 1..Len(feed) BY <1>1 DEF HasRound
          <5>2. QED BY <3>3, <5>1 DEF HasRound
        <4>2. feed[p][a + 1] \in Nat /\ (a + 1 < j[2] <=> feed[p][a + 1] < feed[p][j[2]])
          BY <3>1, <4>1, InOrder
        <4>3. feed[p][j[2]] < feed[p][a + 1] BY SMTT(30), <3>1, <3>3, <4>2
        <4>4. ~ (a + 1 < j[2]) /\ j[2] # a + 1 BY <3>1, <4>2, <4>3
        <4>5. j[2] =< a BY <1>2, <3>1, <4>4
        <4>6. a < j[2] <=> feed[p][a] < feed[p][j[2]] BY <1>1, <3>1, InOrder
        <4>7. QED BY <1>1, <1>2, <3>1, <4>5, <4>6
      <3>4. QED BY <1>5, <3>2, <3>3
    <2>3. ASSUME NEW i \in before, \A j \in before : At(j) =< At(i) PROVE i = k
      <3>1. HasRound(feed, p, i[2]) /\ feed[p][i[2]] \in Nat /\ i[2] \in Nat /\ i = <<p, i[2]>>
            /\ At(i) = feed[p][i[2]]
        BY <1>3
      <3>2. At(i) =< At(k) /\ At(k) =< At(i) BY <2>1, <2>2, <2>3
      <3>3. feed[p][i[2]] = feed[p][a] BY <1>1, <1>2, <3>1, <3>2
      <3>4. /\ a < i[2] <=> feed[p][a] < feed[p][i[2]]
            /\ i[2] < a <=> feed[p][i[2]] < feed[p][a]
        BY <1>1, <3>1, InOrder
      <3>5. i[2] = a BY <1>2, <3>1, <3>3, <3>4
      <3>6. QED BY <1>1, <3>1, <3>5
    <2>4. Reference(p, t) = CHOOSE i \in before : \A j \in before : At(j) =< At(i)
      BY <2>1 DEF Reference, before
    <2>5. Reference(p, t) = k BY <2>1, <2>2, <2>3, <2>4
    <2>6. ASSUME a + 1 =< Len(feed[p]), feed[p][a + 1] = 0 PROVE t = At(k)
      <3>1. ~ (feed[p][a + 1] > t) BY <2>6
      <3>2. QED BY <1>1, <1>5, <3>1
    <2>7. QED BY <1>2, <2>5, <2>6
  <1>6. QED BY <1>4, <1>5 DEF HourOk

\* PriceSpec keeps the types: whatever is cached is of a phase of the feed, whatever is filed is a
\* round with data, and a search's bounds stay in order.
THEOREM PriceTypeCorrect == PriceSpec => []PriceTypeOK
  <1>1. PriceInv => PriceTypeOK
    <2> SUFFICES ASSUME PriceInv PROVE PriceTypeOK
      OBVIOUS
    <2>1. \A k \in DOMAIN rounds : k[1] \in 1..Len(feed) /\ rounds[k] \in Nat
      BY DEF PriceInv, RoundsOk
    <2>2. \A t \in DOMAIN hours : hours[t] \in Written BY FiledRight DEF PriceInv
    <2>3. ASSUME NEW r \in Readers, NEW t \in DOMAIN searches[r].open
          PROVE  searches[r].open[t].lo < searches[r].open[t].hi
      <3> DEFINE s == searches[r]
      <3>1. SearchOk(feed, rounds, s) BY DEF PriceInv
      <3> HIDE DEF s
      <3>2. s.stage \in {"asking", "asked"} => OpenOk(feed, s) BY <3>1 DEF SearchOk
      <3>3. s.stage \notin {"asking", "asked"} => DOMAIN s.open = {} BY <3>1 DEF SearchOk
      <3>4. t \in DOMAIN s.open BY DEF s
      <3>5. s.open[t].lo < s.open[t].hi BY <3>2, <3>3, <3>4 DEF OpenOk, BetweenOk
      <3>6. QED BY <3>5 DEF s
    <2>4. QED BY <2>1, <2>2, <2>3 DEF PriceTypeOK
  <1>2. QED BY <1>1, Searching, PTL

\* Whichever searches overlap, however far behind the nodes they ask are, whatever is published or
\* passed over meanwhile, and wherever interpolation lands: a sample is filed at the last round of
\* its phase at or before it, and a search that gives up met a round without data.
THEOREM SearchesAreExact == PriceSpec => []SearchIsExact
  <1>1. PriceInv => SearchIsExact
    <2> SUFFICES ASSUME PriceInv PROVE SearchIsExact
      OBVIOUS
    <2>1. \A t \in DOMAIN hours : t \in Nat /\ HourOk(feed, t, hours[t]) BY DEF PriceInv
    <2>2. \A t \in DOMAIN hours : hours[t] = Reference(hours[t][1], t)
      BY <2>1, FiledRight DEF PriceInv
    <2>3. ASSUME NEW r \in Readers, searches[r].stage = "unconverged" PROVE searches[r].emptied
      BY <2>3 DEF PriceInv, SearchOk
    <2>4. ASSUME NEW t \in DOMAIN hours
          PROVE  hours[t][2] + 1 =< Len(feed[hours[t][1]])
                 /\ feed[hours[t][1]][hours[t][2] + 1] = 0 =>
                 t = At(hours[t]) \/ t < feed[hours[t][1]][1]
      BY <2>1, FiledRight DEF PriceInv
    <2>5. QED BY <2>2, <2>3, <2>4 DEF SearchIsExact
  <1>2. QED BY <1>1, Searching, PTL

-----------------------------------------------------------------------------
(***************************************************************************)
(* SwapTurn: a refusal is the last thing that was looked at, because build *)
(* returns at it; and an intent is made only where every check passed.     *)
(***************************************************************************)

CheckCalls == {"Client.ask", "LookupChain", "build", "Chain.Token", "dollars", "baseUnits", "eth",
          "Fund.tokenOut", "mcp", "index.answer"}
TurnSteps == [call : CheckCalls, ok : BOOLEAN]
AllPassed(s) == s \in Seq(TurnSteps) /\ \A k \in DOMAIN s : s[k].ok

LEMMA PassedAll ==
  ASSUME NEW s, NEW t, AllPassed(s), AllPassed(t)
  PROVE  AllPassed(s \o t)
  BY DEF AllPassed, TurnSteps

\* The first check that refuses is there when not all pass.
LEMMA RefusalRefuses ==
  ASSUME NEW d, ~Built(d)
  PROVE  /\ Refusal(d) \in 1..6 /\ ~Checks(d)[Refusal(d)].passes
         /\ \A j \in 1..(Refusal(d) - 1) : Checks(d)[j].passes
  <1> DEFINE P(k) == Checks(d)[k].passes
  <1>1. \E k \in 1..6 : ~P(k) BY DEF Built
  <1> HIDE DEF P
  <1>2. \E k \in 1..6 : (\A j \in 1..(k - 1) : P(j)) /\ ~P(k)
    <2>1. CASE ~P(1) BY <2>1
    <2>2. CASE P(1) /\ ~P(2) BY <2>2
    <2>3. CASE P(1) /\ P(2) /\ ~P(3) BY <2>3
    <2>4. CASE P(1) /\ P(2) /\ P(3) /\ ~P(4) BY <2>4
    <2>5. CASE P(1) /\ P(2) /\ P(3) /\ P(4) /\ ~P(5) BY <2>5
    <2>6. CASE P(1) /\ P(2) /\ P(3) /\ P(4) /\ P(5) /\ ~P(6) BY <2>6
    <2>7. QED BY <1>1, <2>1, <2>2, <2>3, <2>4, <2>5, <2>6
  <1>3. \E k \in 1..6 : Reached(d, k) /\ ~Checks(d)[k].passes BY <1>2 DEF P, Reached
  <1>4. Refusal(d) \in 1..6 /\ Reached(d, Refusal(d)) /\ ~Checks(d)[Refusal(d)].passes
    BY <1>3 DEF Refusal
  <1>5. QED BY <1>4 DEF Reached

LEMMA CheckPasses ==
  ASSUME NEW c, NEW p \in BOOLEAN, NEW n
  PROVE  Check(c, p, n).passes = p
  BY DEF Check

\* What a check names is asked for, and something is.
LEMMA RefusalNames ==
  ASSUME NEW d, NEW k \in 1..6, ~Checks(d)[k].passes
  PROVE  /\ Checks(d)[k].names # {}
         /\ Checks(d)[k].names \subseteq {"tokenIn", "tokenOut", "amount"}
  <1>1. CASE k = 1 BY <1>1 DEF Checks, Check
  <1>2. CASE k = 2
    <2>1. Checks(d)[2] = Check("build", Missing(d) = {}, Missing(d)) BY DEF Checks
    <2>2. Missing(d) # {}
      <3>1. SUFFICES ASSUME Missing(d) = {} PROVE FALSE OBVIOUS
      <3>2. Checks(d)[2].passes BY <2>1, <3>1, CheckPasses
      <3>3. QED BY <1>2, <3>2
    <2>3. QED BY <1>2, <2>1, <2>2 DEF Check, Missing
  <1>3. CASE k = 3 BY <1>3 DEF Checks, Check
  <1>4. CASE k = 4 BY <1>4 DEF Checks, Check
  <1>5. CASE k = 5 BY <1>5 DEF Checks, Check
  <1>6. CASE k = 6 BY <1>6 DEF Checks, Check
  <1>7. QED BY <1>1, <1>2, <1>3, <1>4, <1>5, <1>6

LEMMA CallsAreNamed ==
  ASSUME NEW d, NEW k \in 1..6
  PROVE  Checks(d)[k].call \in CheckCalls
  <1>1. CASE k = 1 BY <1>1 DEF Checks, Check, CheckCalls
  <1>2. CASE k = 2 BY <1>2 DEF Checks, Check, CheckCalls
  <1>3. CASE k = 3 BY <1>3 DEF Checks, Check, CheckCalls
  <1>4. CASE k = 4 BY <1>4 DEF Checks, Check, CheckCalls
  <1>5. CASE k = 5 BY <1>5 DEF Checks, Check, CheckCalls
  <1>6. CASE k = 6 BY <1>6 DEF Checks, Check, CheckCalls
  <1>7. QED BY <1>1, <1>2, <1>3, <1>4, <1>5, <1>6

\* A check tells one thing, when it is reached, or nothing.
LEMMA TellsOne ==
  ASSUME NEW d, NEW k \in 1..6
  PROVE  /\ (\A j \in 1..(k - 1) : Checks(d)[j].passes) /\ Checks(d)[k].passes => AllPassed(Steps(d, k))
         /\ (\A j \in 1..(k - 1) : Checks(d)[j].passes) /\ ~Checks(d)[k].passes =>
               \E c \in CheckCalls : Steps(d, k) = <<Refused(c)>>
         /\ (\E j \in 1..(k - 1) : ~Checks(d)[j].passes) => Steps(d, k) = <<>>
  <1> DEFINE c == Checks(d)[k]
  <1>1. c.call \in CheckCalls BY CallsAreNamed
  <1>2. ASSUME \A j \in 1..(k - 1) : Checks(d)[j].passes, c.passes
        PROVE  AllPassed(Steps(d, k))
    <2>1. Reached(d, k) BY <1>2 DEF Reached
    <2>2. Steps(d, k) = <<>> \/ Steps(d, k) = <<Passed(c.call)>> BY <1>2, <2>1 DEF Steps
    <2> HIDE DEF c
    <2>3. AllPassed(<<>>) /\ AllPassed(<<Passed(c.call)>>)
      BY <1>1 DEF AllPassed, TurnSteps, Passed
    <2>4. QED BY <2>2, <2>3
  <1>3. ASSUME \A j \in 1..(k - 1) : Checks(d)[j].passes, ~c.passes
        PROVE  Steps(d, k) = <<Refused(c.call)>>
    <2>1. Reached(d, k) BY <1>3 DEF Reached
    <2>2. QED BY <1>3, <2>1 DEF Steps
  <1>4. ASSUME \E j \in 1..(k - 1) : ~Checks(d)[j].passes
        PROVE  Steps(d, k) = <<>>
    BY <1>4 DEF Steps, Reached
  <1>5. QED BY <1>1, <1>2, <1>3, <1>4

\* The steps of build: all pass, or the last alone refuses.
LEMMA RefusalsComeLast ==
  ASSUME NEW d
  PROVE  /\ Built(d) => AllPassed(StepsOf(d))
         /\ ~Built(d) => \E s, c : AllPassed(s) /\ c \in CheckCalls /\ StepsOf(d) = s \o <<Refused(c)>>
  <1> DEFINE P(k) == Checks(d)[k].passes
             T(k) == Steps(d, k)
             r == Refusal(d)
  <1>1. ASSUME NEW k \in 1..6
        PROVE  /\ (\A j \in 1..(k - 1) : P(j)) /\ P(k) => AllPassed(T(k))
               /\ (\A j \in 1..(k - 1) : P(j)) /\ ~P(k) => \E c \in CheckCalls : T(k) = <<Refused(c)>>
               /\ (\E j \in 1..(k - 1) : ~P(j)) => T(k) = <<>>
    BY TellsOne
  <1>2. StepsOf(d) = T(1) \o T(2) \o T(3) \o T(4) \o T(5) \o T(6) BY DEF StepsOf
  <1>3. ~Built(d) => r \in 1..6 /\ ~P(r) /\ \A j \in 1..(r - 1) : P(j) BY RefusalRefuses
  <1>4. Built(d) => \A k \in 1..6 : P(k) BY DEF Built
  <1> DEFINE C2 == T(1) \o T(2)
             C3 == C2 \o T(3)
             C4 == C3 \o T(4)
             C5 == C4 \o T(5)
  <1>5. StepsOf(d) = C5 \o T(6) BY <1>2
  <1>6. C2 = T(1) \o T(2) /\ C3 = C2 \o T(3) /\ C4 = C3 \o T(4) /\ C5 = C4 \o T(5) OBVIOUS
  <1> HIDE DEF P, T, r, C2, C3, C4, C5
  <1>7. ASSUME Built(d) PROVE AllPassed(StepsOf(d))
    <2>1. \A k \in 1..6 : AllPassed(T(k)) BY <1>1, <1>4, <1>7
    <2>2. AllPassed(C2) BY <1>6, <2>1, PassedAll
    <2>3. AllPassed(C3) BY <1>6, <2>1, <2>2, PassedAll
    <2>4. AllPassed(C4) BY <1>6, <2>1, <2>3, PassedAll
    <2>5. AllPassed(C5) BY <1>6, <2>1, <2>4, PassedAll
    <2>6. QED BY <1>5, <2>1, <2>5, PassedAll
  <1>8. ASSUME ~Built(d)
        PROVE  \E s, c : AllPassed(s) /\ c \in CheckCalls /\ StepsOf(d) = s \o <<Refused(c)>>
    <2>1. r \in 1..6 /\ ~P(r) /\ \A j \in 1..(r - 1) : P(j) BY <1>3, <1>8
    <2>2. \A k \in 1..6 : k < r => AllPassed(T(k)) BY <1>1, <2>1
    <2>3. PICK c \in CheckCalls : T(r) = <<Refused(c)>> BY <1>1, <2>1
    <2>4. \A k \in 1..6 : k > r => T(k) = <<>> BY <1>1, <2>1
    <2>5. AllPassed(<<>>) BY DEF AllPassed
    <2> DEFINE e == <<Refused(c)>>
    <2>6. e \in Seq(TurnSteps) BY DEF Refused, TurnSteps
    <2>7. \A s : AllPassed(s) => (s \o e) \o <<>> = s \o e BY <2>6 DEF AllPassed
    <2>8. e = <<>> \o e /\ e \o <<>> = e BY <2>6
    <2>9. T(r) = e BY <2>3
    <2> SUFFICES \E s : AllPassed(s) /\ StepsOf(d) = s \o e OBVIOUS
    <2> HIDE DEF e
    <2>10. CASE r = 1
      <3>1. T(2) = <<>> /\ T(3) = <<>> /\ T(4) = <<>> /\ T(5) = <<>> /\ T(6) = <<>> BY <2>4, <2>10
      <3>2. T(1) = e BY <2>9, <2>10
      <3>3. C2 = e BY <1>6, <2>8, <3>1, <3>2
      <3>4. C3 = e BY <1>6, <2>8, <3>1, <3>3
      <3>5. C4 = e BY <1>6, <2>8, <3>1, <3>4
      <3>6. C5 = e BY <1>6, <2>8, <3>1, <3>5
      <3>7. StepsOf(d) = <<>> \o e BY <1>5, <2>8, <3>1, <3>6
      <3>8. QED BY <2>5, <3>7
    <2>11. CASE r = 2
      <3>1. T(3) = <<>> /\ T(4) = <<>> /\ T(5) = <<>> /\ T(6) = <<>> BY <2>4, <2>11
      <3>2. AllPassed(T(1)) /\ T(2) = e BY <2>2, <2>9, <2>11
      <3>3. (T(1) \o e) \o <<>> = T(1) \o e BY <2>7, <3>2
      <3>4. C2 = T(1) \o e BY <1>6, <3>2
      <3>5. C3 = T(1) \o e BY <1>6, <3>1, <3>3, <3>4
      <3>6. C4 = T(1) \o e BY <1>6, <3>1, <3>3, <3>5
      <3>7. C5 = T(1) \o e BY <1>6, <3>1, <3>3, <3>6
      <3>8. StepsOf(d) = T(1) \o e BY <1>5, <3>1, <3>3, <3>7
      <3>9. QED BY <3>2, <3>8
    <2>12. CASE r = 3
      <3>1. T(4) = <<>> /\ T(5) = <<>> /\ T(6) = <<>> BY <2>4, <2>12
      <3>2. AllPassed(C2) BY <1>6, <2>2, <2>12, PassedAll
      <3>3. (C2 \o e) \o <<>> = C2 \o e BY <2>7, <3>2
      <3>4. C3 = C2 \o e BY <1>6, <2>9, <2>12
      <3>5. C4 = C2 \o e BY <1>6, <3>1, <3>3, <3>4
      <3>6. C5 = C2 \o e BY <1>6, <3>1, <3>3, <3>5
      <3>7. StepsOf(d) = C2 \o e BY <1>5, <3>1, <3>3, <3>6
      <3>8. QED BY <3>2, <3>7
    <2>13. CASE r = 4
      <3>1. T(5) = <<>> /\ T(6) = <<>> BY <2>4, <2>13
      <3>2. AllPassed(C2) BY <1>6, <2>2, <2>13, PassedAll
      <3>3. AllPassed(C3) BY <1>6, <2>2, <2>13, <3>2, PassedAll
      <3>4. (C3 \o e) \o <<>> = C3 \o e BY <2>7, <3>3
      <3>5. C4 = C3 \o e BY <1>6, <2>9, <2>13
      <3>6. C5 = C3 \o e BY <1>6, <3>1, <3>4, <3>5
      <3>7. StepsOf(d) = C3 \o e BY <1>5, <3>1, <3>4, <3>6
      <3>8. QED BY <3>3, <3>7
    <2>14. CASE r \in {5, 6}
      <3>1. AllPassed(C2) BY <1>6, <2>2, <2>14, PassedAll
      <3>2. AllPassed(C3) BY <1>6, <2>2, <2>14, <3>1, PassedAll
      <3>3. AllPassed(C4) BY <1>6, <2>2, <2>14, <3>2, PassedAll
      <3>4. CASE r = 5
        <4>1. T(6) = <<>> /\ T(5) = e BY <2>4, <2>9, <3>4
        <4>2. (C4 \o e) \o <<>> = C4 \o e BY <2>7, <3>3
        <4>3. StepsOf(d) = C4 \o e BY <1>5, <1>6, <4>1, <4>2
        <4>4. QED BY <3>3, <4>3
      <3>5. CASE r = 6
        <4>1. AllPassed(C5) BY <1>6, <2>2, <3>3, <3>5, PassedAll
        <4>2. QED BY <1>5, <2>9, <3>5, <4>1
      <3>6. QED BY <2>14, <3>4, <3>5
    <2>15. r = 1 \/ r = 2 \/ r = 3 \/ r = 4 \/ r \in {5, 6} BY <2>1
    <2>16. QED BY <2>10, <2>11, <2>12, <2>13, <2>14, <2>15, Zenon
  <1>9. QED BY <1>7, <1>8

\* What an answer needs to be as it was checked, in its fields.
Wanted == {"tokenIn", "tokenOut", "amount"}
SaysSo(i, action) ==
    /\ Registered(i.in) /\ Registered(i.out) /\ i.in # i.out
    /\ (i.amount = Unsaid) # (i.dollars = Unsaid)
    /\ i.amount # Unsaid => Fits(i.amount, Registry[i.in])
    /\ i.dollars # Unsaid => Fits(i.dollars, 2)
    /\ action = "earn" => i.out \in {"USDC", "WETH"}
    /\ i.eth # Unsaid => Fits(i.eth, 18)
    /\ {i.eth, i.ethDollars} # {Unsaid} => action = "earn" /\ i.out = "USDC"
    /\ i.ethDollars # Unsaid => i.eth = Unsaid /\ Fits(i.ethDollars, 2)
LastRefuses(steps) ==
    \E s, c : AllPassed(s) /\ c \in CheckCalls /\ steps = s \o <<Refused(c)>>
Sound(a) ==
    /\ a.needs \subseteq Wanted
    /\ \/ a.intent = NoIntent /\ (AllPassed(a.steps) \/ LastRefuses(a.steps))
       \/ a.intent # NoIntent /\ AllPassed(a.steps) /\ a.needs = {} /\ SaysSo(a.intent, a.action)
    /\ a.action = "swap" => (a.intent = NoIntent) = (a.needs # {})

LEMMA OneRefusal ==
  ASSUME NEW s, NEW c, AllPassed(s), c \in CheckCalls
  PROVE  {k \in DOMAIN (s \o <<Refused(c)>>) : ~(s \o <<Refused(c)>>)[k].ok}
            \subseteq {Len(s \o <<Refused(c)>>)}
  <1> DEFINE t == s \o <<Refused(c)>>
  <1>1. s \in Seq(TurnSteps) /\ <<Refused(c)>> \in Seq(TurnSteps) BY DEF AllPassed, TurnSteps, Refused
  <1>2. Len(t) = Len(s) + 1 /\ DOMAIN t = 1..(Len(s) + 1) BY <1>1
  <1>3. \A k \in 1..Len(s) : t[k] = s[k] /\ s[k].ok BY <1>1 DEF AllPassed
  <1> HIDE DEF t
  <1>4. {k \in DOMAIN t : ~t[k].ok} \subseteq {Len(t)}
    <2> SUFFICES ASSUME NEW k \in DOMAIN t, ~t[k].ok PROVE k = Len(t) OBVIOUS
    <2>1. k \notin 1..Len(s) BY <1>3
    <2>2. Len(s) \in Nat BY <1>1
    <2>3. QED BY <1>2, <2>1, <2>2
  <1>5. QED BY <1>4 DEF t

LEMMA SoundIsChecked ==
  ASSUME NEW a, Sound(a)
  PROVE  CheckedAnswer(a)
  <1> DEFINE refusals == {k \in DOMAIN a.steps : ~a.steps[k].ok}
  <1>1. AllPassed(a.steps) => refusals = {} BY DEF AllPassed
  <1>2. LastRefuses(a.steps) => refusals \subseteq {Len(a.steps)}
    <2> SUFFICES ASSUME LastRefuses(a.steps) PROVE refusals \subseteq {Len(a.steps)} OBVIOUS
    <2>1. PICK s, c : AllPassed(s) /\ c \in CheckCalls /\ a.steps = s \o <<Refused(c)>>
      BY DEF LastRefuses
    <2>2. QED BY <2>1, OneRefusal
  <1>3. a.intent # NoIntent => AllPassed(a.steps) /\ a.needs = {} /\ SaysSo(a.intent, a.action)
    BY DEF Sound
  <1>4. AllPassed(a.steps) \/ LastRefuses(a.steps) BY DEF Sound
  <1>5. refusals \subseteq {Len(a.steps)} BY <1>1, <1>2, <1>4
  <1>6. a.action = "swap" => (a.intent = NoIntent) = (a.needs # {}) BY DEF Sound
  <1>7. a.intent # NoIntent => refusals = {} BY <1>1, <1>3
  <1> HIDE DEF refusals
  <1>8. QED BY <1>3, <1>5, <1>6, <1>7 DEF CheckedAnswer, SaysSo, refusals

\* An answer changed in one field.
AnswerFields == {"action", "intent", "needs", "steps", "by"}
IsAnswer(a) == a = [k \in AnswerFields |-> a[k]]

TellsIn(a, v) == [a EXCEPT !.steps = v]
Means(a, v) == [a EXCEPT !.intent = v]
Wants(a, v) == [a EXCEPT !.needs = v]

LEMMA AnswerTells ==
  ASSUME NEW a, IsAnswer(a), NEW v
  PROVE  /\ IsAnswer(TellsIn(a, v)) /\ TellsIn(a, v).steps = v
         /\ TellsIn(a, v).action = a.action /\ TellsIn(a, v).by = a.by
         /\ TellsIn(a, v).intent = a.intent /\ TellsIn(a, v).needs = a.needs
  BY DEF IsAnswer, AnswerFields, TellsIn

LEMMA AnswerMeans ==
  ASSUME NEW a, IsAnswer(a), NEW v
  PROVE  /\ IsAnswer(Means(a, v)) /\ Means(a, v).intent = v
         /\ Means(a, v).action = a.action /\ Means(a, v).by = a.by
         /\ Means(a, v).steps = a.steps /\ Means(a, v).needs = a.needs
  BY DEF IsAnswer, AnswerFields, Means

LEMMA AnswerWants ==
  ASSUME NEW a, IsAnswer(a), NEW v
  PROVE  /\ IsAnswer(Wants(a, v)) /\ Wants(a, v).needs = v
         /\ Wants(a, v).action = a.action /\ Wants(a, v).by = a.by
         /\ Wants(a, v).steps = a.steps /\ Wants(a, v).intent = a.intent
  BY DEF IsAnswer, AnswerFields, Wants

LEMMA ReadFields ==
  ASSUME NEW d, NEW by
  PROVE  LET a == ReadAs(d, by) IN
         /\ IsAnswer(a) /\ a.action = ActionOf(d) /\ a.by = by /\ a.intent = NoIntent
         /\ a.needs = {} /\ a.steps = <<Passed("Client.ask")>>
  <1> DEFINE x == ActionOf(d)  t == <<Passed("Client.ask")>>
  <1>1. ReadAs(d, by) = [NoAnswer EXCEPT !.action = x, !.by = by, !.steps = t] BY DEF ReadAs
  <1>2. /\ DOMAIN NoAnswer = AnswerFields /\ NoAnswer.intent = NoIntent /\ NoAnswer.needs = {}
        /\ IsAnswer(NoAnswer)
    BY DEF NoAnswer, AnswerFields, IsAnswer
  <1> HIDE DEF x, t
  <1>3. QED BY <1>1, <1>2 DEF x, t, IsAnswer, AnswerFields

LEMMA AskPassed == AllPassed(<<Passed("Client.ask")>>)
  BY DEF AllPassed, TurnSteps, Passed, CheckCalls

\* A question that names nothing.
LEMMA ReadIsSound ==
  ASSUME NEW d, NEW by, ActionOf(d) # "swap"
  PROVE  Sound(ReadAs(d, by))
  BY ReadFields, AskPassed DEF Sound, Wanted

\* The swap half, in its fields.
LEMMA TradeFields ==
  ASSUME NEW d, NEW by
  PROVE  LET a == Trade(d, by) IN
         /\ IsAnswer(a) /\ a.action = ActionOf(d) /\ a.by = by
         /\ Built(d) => AllPassed(a.steps) /\ a.intent = Intent(d) /\ a.needs = {}
         /\ ~Built(d) => /\ LastRefuses(a.steps) /\ a.intent = NoIntent
                         /\ a.needs # {} /\ a.needs \subseteq Wanted
  <1> DEFINE a == Trade(d, by)
             r == ReadAs(d, by)
             toldAll == r.steps \o StepsOf(d)
             n == Checks(d)[Refusal(d)].names
             readOn == TellsIn(r, toldAll)
  <1>1. a = IF Built(d) THEN Means(readOn, Intent(d)) ELSE Wants(readOn, n)
    BY DEF Trade, TellsIn, Means, Wants
  <1>2. r.steps = <<Passed("Client.ask")>> BY ReadFields
  <1>3. Built(d) => AllPassed(toldAll) BY <1>2, AskPassed, PassedAll, RefusalsComeLast
  <1>4. ~Built(d) => LastRefuses(toldAll)
    <2> SUFFICES ASSUME ~Built(d) PROVE LastRefuses(toldAll) OBVIOUS
    <2>1. PICK s, c : AllPassed(s) /\ c \in CheckCalls /\ StepsOf(d) = s \o <<Refused(c)>>
      BY RefusalsComeLast
    <2> DEFINE ask == <<Passed("Client.ask")>>  e == <<Refused(c)>>
    <2>2. ask \in Seq(TurnSteps) /\ s \in Seq(TurnSteps) BY <2>1, AskPassed DEF AllPassed
    <2>3. e \in Seq(TurnSteps) BY <2>1 DEF Refused, TurnSteps
    <2>4. AllPassed(ask \o s) BY <2>1, AskPassed, PassedAll
    <2>5. toldAll = ask \o (s \o e) BY <1>2, <2>1
    <2> HIDE DEF ask, e, toldAll
    <2>6. toldAll = (ask \o s) \o e BY <2>2, <2>3, <2>5
    <2>7. QED BY <2>1, <2>4, <2>6 DEF LastRefuses, e
  <1>5. ~Built(d) => n # {} /\ n \subseteq Wanted BY RefusalRefuses, RefusalNames DEF Wanted
  <1>6. /\ IsAnswer(readOn) /\ readOn.action = ActionOf(d) /\ readOn.by = by /\ readOn.intent = NoIntent
        /\ readOn.needs = {} /\ readOn.steps = toldAll
    <2>1. /\ IsAnswer(r) /\ r.action = ActionOf(d) /\ r.by = by /\ r.intent = NoIntent
          /\ r.needs = {}
      BY ReadFields
    <2> HIDE DEF r, toldAll
    <2>2. QED BY <2>1, AnswerTells
  <1> HIDE DEF toldAll, n, readOn
  <1>7. CASE Built(d)
    <2>1. a = Means(readOn, Intent(d)) BY <1>1, <1>7
    <2> HIDE DEF a
    <2>2. /\ IsAnswer(a) /\ a.intent = Intent(d) /\ a.action = readOn.action /\ a.by = readOn.by
          /\ a.steps = readOn.steps /\ a.needs = readOn.needs
      BY <1>6, <2>1, AnswerMeans
    <2>3. QED BY <1>3, <1>6, <1>7, <2>2 DEF a
  <1>8. CASE ~Built(d)
    <2>1. a = Wants(readOn, n) BY <1>1, <1>8
    <2> HIDE DEF a
    <2>2. /\ IsAnswer(a) /\ a.needs = n /\ a.action = readOn.action /\ a.by = readOn.by
          /\ a.steps = readOn.steps /\ a.intent = readOn.intent
      BY <1>6, <2>1, AnswerWants
    <2>3. QED BY <1>4, <1>5, <1>6, <1>8, <2>2 DEF a
  <1>9. QED BY <1>7, <1>8

\* What is built is two different known tokens and one figure.
LEMMA BuiltChecks ==
  ASSUME NEW d, Built(d)
  PROVE  /\ Registered(d.in) /\ Registered(d.out) /\ d.in # d.out
         /\ InDollars(d) => Fits(d.usd, 2)
         /\ ~InDollars(d) => Fits(d.amount, Registry[d.in])
  <1>1. Checks(d)[3].passes /\ Checks(d)[4].passes /\ Checks(d)[5].passes /\ Checks(d)[6].passes
    BY DEF Built
  <1>2. Registered(d.in) BY <1>1 DEF Checks, Check, Registered
  <1>3. Registered(d.out) BY <1>1 DEF Checks, Check, Registered
  <1>4. d.in # d.out BY <1>1 DEF Checks, Check
  <1>5. CASE InDollars(d)
    <2>1. Checks(d)[6] =
            Check(IF Fits(d.usd, 2) THEN "dollars" ELSE "baseUnits", Fits(d.usd, 2), {"amount"})
      BY <1>5 DEF Checks
    <2>2. Fits(d.usd, 2) \in BOOLEAN BY DEF Fits
    <2>3. Fits(d.usd, 2) BY <1>1, <2>1, <2>2, CheckPasses
    <2>4. QED BY <1>2, <1>3, <1>4, <1>5, <2>3
  <1>6. CASE ~InDollars(d)
    <2>1. Checks(d)[6] =
            Check("baseUnits", Registered(d.in) /\ Fits(d.amount, Registry[d.in]), {"amount"})
      BY <1>6 DEF Checks
    <2>2. Fits(d.amount, Registry[d.in]) \in BOOLEAN /\ Registered(d.in) \in BOOLEAN
      BY DEF Fits, Registered
    <2>3. Fits(d.amount, Registry[d.in]) BY <1>1, <2>1, <2>2, CheckPasses
    <2>4. QED BY <1>2, <1>3, <1>4, <1>6, <2>3
  <1>7. QED BY <1>5, <1>6

LEMMA IntentFields ==
  ASSUME NEW d
  PROVE  LET i == Intent(d) IN
         /\ i.in = d.in /\ i.out = d.out /\ i.amount = d.amount
         /\ i.dollars = (IF InDollars(d) THEN d.usd ELSE Unsaid)
         /\ i.eth = Unsaid /\ i.ethDollars = Unsaid
  BY DEF Intent, NoIntent

LEMMA NoFigure == \A n \in Int : ~ Fits(Unsaid, n)
  BY DEF Fits, Unsaid

LEMMA IntentSays ==
  ASSUME NEW d, Built(d), NEW action, action = "earn" => d.out \in {"USDC", "WETH"}
  PROVE  Intent(d) # NoIntent /\ SaysSo(Intent(d), action)
  <1> DEFINE i == Intent(d)
  <1>1. /\ i.in = d.in /\ i.out = d.out /\ i.amount = d.amount
        /\ i.dollars = (IF InDollars(d) THEN d.usd ELSE Unsaid)
        /\ i.eth = Unsaid /\ i.ethDollars = Unsaid
    BY IntentFields
  <1>2. /\ Registered(d.in) /\ Registered(d.out) /\ d.in # d.out
        /\ InDollars(d) => Fits(d.usd, 2)
        /\ ~InDollars(d) => Fits(d.amount, Registry[d.in])
    BY BuiltChecks
  <1>3. Registry[d.in] \in Int BY <1>2 DEF Registered, Registry
  <1> HIDE DEF i
  <1>4. i # NoIntent
    <2>1. ~Registered(NoIntent.in) BY DEF Registered, Registry, NoIntent, NoText
    <2>2. QED BY <1>1, <1>2, <2>1
  <1>5. CASE InDollars(d)
    <2>1. d.usd # Unsaid /\ d.amount = Unsaid BY <1>5 DEF InDollars
    <2>2. QED BY <1>1, <1>2, <1>4, <1>5, <2>1 DEF SaysSo, i
  <1>6. CASE ~InDollars(d)
    <2>1. d.amount # Unsaid BY <1>2, <1>3, <1>6, NoFigure
    <2>2. QED BY <1>1, <1>2, <1>4, <1>6, <2>1 DEF SaysSo, i
  <1>7. QED BY <1>5, <1>6

LEMMA TradeIsSound ==
  ASSUME NEW d, NEW by,
         Built(d) => ActionOf(d) # "earn" \/ d.out \in {"USDC", "WETH"}
  PROVE  Sound(Trade(d, by))
  <1> DEFINE a == Trade(d, by)
  <1>1. /\ a.action = ActionOf(d)
        /\ Built(d) => AllPassed(a.steps) /\ a.intent = Intent(d) /\ a.needs = {}
        /\ ~Built(d) => /\ LastRefuses(a.steps) /\ a.intent = NoIntent
                        /\ a.needs # {} /\ a.needs \subseteq Wanted
    BY TradeFields
  <1>2. Built(d) => Intent(d) # NoIntent /\ SaysSo(Intent(d), ActionOf(d)) BY IntentSays
  <1> HIDE DEF a
  <1>3. CASE Built(d) BY <1>1, <1>2, <1>3 DEF Sound, a
  <1>4. CASE ~Built(d) BY <1>1, <1>4 DEF Sound, a
  <1>5. QED BY <1>3, <1>4

\* One more step, told after the swap's.
LEMMA OneMoreStep ==
  ASSUME NEW s, NEW c, AllPassed(s), c \in CheckCalls
  PROVE  AllPassed(Append(s, Passed(c))) /\ LastRefuses(Append(s, Refused(c)))
  <1>1. s \in Seq(TurnSteps) BY DEF AllPassed
  <1>2. Append(s, Refused(c)) = s \o <<Refused(c)>> BY <1>1
  <1>3. Passed(c) \in TurnSteps /\ Passed(c).ok BY DEF Passed, TurnSteps
  <1>4. Append(s, Passed(c)) \in Seq(TurnSteps) BY <1>1, <1>3
  <1>5. \A k \in DOMAIN Append(s, Passed(c)) : Append(s, Passed(c))[k].ok
    BY <1>1, <1>3 DEF AllPassed
  <1>6. QED BY <1>2, <1>4, <1>5 DEF AllPassed, LastRefuses

AskedBack(a, n, v) == [a EXCEPT !.intent = NoIntent, !.needs = n, !.steps = v]
BesideEther(a, v, i) == [a EXCEPT !.steps = v, !.intent = i]
WithEther(d) ==
    [Intent(d) EXCEPT !.eth = d.eth, !.ethDollars = IF d.eth = Unsaid THEN d.ethUsd ELSE Unsaid]

LEMMA AnswerAskedBack ==
  ASSUME NEW a, IsAnswer(a), NEW n, NEW v
  PROVE  /\ AskedBack(a, n, v).intent = NoIntent /\ AskedBack(a, n, v).needs = n
         /\ AskedBack(a, n, v).steps = v /\ AskedBack(a, n, v).action = a.action
         /\ AskedBack(a, n, v).by = a.by
  BY DEF IsAnswer, AnswerFields, AskedBack

LEMMA AnswerBesideEther ==
  ASSUME NEW a, IsAnswer(a), NEW v, NEW i
  PROVE  /\ BesideEther(a, v, i).intent = i /\ BesideEther(a, v, i).needs = a.needs
         /\ BesideEther(a, v, i).steps = v /\ BesideEther(a, v, i).action = a.action
         /\ BesideEther(a, v, i).by = a.by
  BY DEF IsAnswer, AnswerFields, BesideEther

LEMMA EtherFields ==
  ASSUME NEW d
  PROVE  LET i == WithEther(d) IN
         /\ i.in = d.in /\ i.out = d.out /\ i.amount = d.amount
         /\ i.dollars = (IF InDollars(d) THEN d.usd ELSE Unsaid)
         /\ i.eth = d.eth /\ i.ethDollars = (IF d.eth = Unsaid THEN d.ethUsd ELSE Unsaid)
  BY DEF WithEther, Intent, NoIntent

LEMMA EtherSays ==
  ASSUME NEW d, Built(d), d.out = "USDC", Beside(d), BesideFits(d)
  PROVE  WithEther(d) # NoIntent /\ SaysSo(WithEther(d), "earn")
  <1> DEFINE i == WithEther(d)
  <1>1. /\ i.in = d.in /\ i.out = d.out /\ i.amount = d.amount
        /\ i.dollars = (IF InDollars(d) THEN d.usd ELSE Unsaid)
        /\ i.eth = d.eth /\ i.ethDollars = (IF d.eth = Unsaid THEN d.ethUsd ELSE Unsaid)
    BY EtherFields
  <1>2. /\ Intent(d).in = d.in /\ Intent(d).out = d.out /\ Intent(d).amount = d.amount
        /\ Intent(d).dollars = (IF InDollars(d) THEN d.usd ELSE Unsaid)
    BY IntentFields
  <1>3. SaysSo(Intent(d), "earn") BY IntentSays
  <1>4. Registered(d.in) BY BuiltChecks
  <1>5. d.eth # Unsaid => Fits(d.eth, 18) BY DEF BesideFits
  <1>6. d.eth = Unsaid => Fits(d.ethUsd, 2) BY DEF BesideFits
  <1> HIDE DEF i
  <1>7. i # NoIntent
    <2>1. ~Registered(NoIntent.in) BY DEF Registered, Registry, NoIntent, NoText
    <2>2. QED BY <1>1, <1>4, <2>1
  <1>8. /\ Registered(i.in) /\ Registered(i.out) /\ i.in # i.out
        /\ (i.amount = Unsaid) # (i.dollars = Unsaid)
        /\ i.amount # Unsaid => Fits(i.amount, Registry[i.in])
        /\ i.dollars # Unsaid => Fits(i.dollars, 2)
    BY <1>1, <1>2, <1>3 DEF SaysSo
  <1>9. i.eth # Unsaid => Fits(i.eth, 18) BY <1>1, <1>5
  <1>10. i.ethDollars # Unsaid => i.eth = Unsaid /\ Fits(i.ethDollars, 2) BY <1>1, <1>6
  <1>11. i.out = "USDC" BY <1>1
  <1>12. SaysSo(i, "earn") BY <1>8, <1>9, <1>10, <1>11 DEF SaysSo
  <1>13. QED BY <1>7, <1>12 DEF i

LEMMA EarnIsSound ==
  ASSUME NEW d, NEW by, ActionOf(d) = "earn"
  PROVE  Sound(Earn(d, by)) /\ Earn(d, by).action = "earn" /\ Earn(d, by).by = by
  <1> DEFINE a == Trade(d, by)  e == Earn(d, by)
             refused(c) == Append(a.steps, Refused(c))
             noted == Append(a.steps, Passed("eth"))
  <1>1. /\ IsAnswer(a) /\ a.action = "earn" /\ a.by = by
        /\ Built(d) => AllPassed(a.steps) /\ a.intent = Intent(d) /\ a.needs = {}
    BY TradeFields
  <1>2. Built(d) => AllPassed(noted) BY <1>1, OneMoreStep DEF CheckCalls
  <1>3. Built(d) => LastRefuses(refused("baseUnits")) /\ LastRefuses(refused("Fund.tokenOut"))
    BY <1>1, OneMoreStep DEF CheckCalls
  <1>4. CASE d.in = NoText
    <2>1. ~Built(d) BY <1>4, BuiltChecks DEF Registered, Registry, NoText
    <2>2. e = ReadAs(d, by) BY <1>4, <2>1 DEF Earn
    <2>3. QED BY <2>2, ReadIsSound, ReadFields
  <1>5. CASE d.in # NoText /\ d.out = NoText
    <2>1. ~Built(d) BY <1>5, BuiltChecks DEF Registered, Registry, NoText
    <2> DEFINE r == ReadAs(d, by)
    <2>2. e = Wants(r, {"tokenOut"})
      BY <1>5, <2>1 DEF Earn, Wants
    <2>3. /\ IsAnswer(r) /\ r.action = "earn" /\ r.by = by /\ r.intent = NoIntent
          /\ AllPassed(r.steps)
      BY ReadFields, AskPassed
    <2> HIDE DEF r, e
    <2>4. /\ e.needs = {"tokenOut"} /\ e.action = "earn" /\ e.by = by /\ e.steps = r.steps
          /\ e.intent = NoIntent
      BY <2>2, <2>3, AnswerWants
    <2>5. Sound(e) BY <2>3, <2>4 DEF Sound, Wanted
    <2>6. QED BY <2>4, <2>5 DEF e
  <1>6. CASE d.in # NoText /\ d.out # NoText /\ ~Built(d)
    <2>1. e = a BY <1>6 DEF Earn
    <2>2. Sound(a) BY <1>6, TradeIsSound
    <2>3. QED BY <1>1, <2>1, <2>2
  <1>7. CASE d.in # NoText /\ Built(d)
    <2>1. d.out # NoText BY <1>7, BuiltChecks DEF Registered, Registry, NoText
    <2>2. CASE d.out = "USDC" /\ ~Beside(d)
      <3>1. e = a BY <1>7, <2>1, <2>2 DEF Earn
      <3>2. Sound(a) BY <2>2, TradeIsSound
      <3>3. QED BY <1>1, <3>1, <3>2
    <2>3. CASE d.out = "USDC" /\ Beside(d) /\ BesideFits(d)
      <3>1. e = BesideEther(a, noted, WithEther(d))
        BY <1>7, <2>1, <2>3 DEF Earn, BesideEther, WithEther
      <3>2. WithEther(d) # NoIntent /\ SaysSo(WithEther(d), "earn") BY <1>7, <2>3, EtherSays
      <3>3. AllPassed(noted) /\ a.needs = {} BY <1>1, <1>2, <1>7
      <3> HIDE DEF e, a, noted
      <3>4. /\ e.needs = {} /\ e.action = "earn" /\ e.by = by /\ e.steps = noted
            /\ e.intent = WithEther(d)
        BY <1>1, <3>1, <3>3, AnswerBesideEther
      <3>5. Sound(e) BY <3>2, <3>3, <3>4 DEF Sound
      <3>6. QED BY <3>4, <3>5 DEF e
    <2>4. CASE d.out = "USDC" /\ Beside(d) /\ ~BesideFits(d)
      <3> DEFINE v == refused("baseUnits")
      <3>1. e = AskedBack(a, {"amount"}, v)
        BY <1>7, <2>1, <2>4 DEF Earn, AskedBack
      <3>2. LastRefuses(v) BY <1>3, <1>7
      <3> HIDE DEF e, a, v
      <3>3. /\ e.needs = {"amount"} /\ e.action = "earn" /\ e.by = by /\ e.steps = v
            /\ e.intent = NoIntent
        BY <1>1, <3>1, AnswerAskedBack
      <3>4. Sound(e) BY <3>2, <3>3 DEF Sound, Wanted
      <3>5. QED BY <3>3, <3>4 DEF e
    <2>5. CASE d.out = "WETH" /\ d.in = "ETH"
      <3>1. e = a BY <1>7, <2>1, <2>5 DEF Earn
      <3>2. Sound(a) BY <2>5, TradeIsSound
      <3>3. QED BY <1>1, <3>1, <3>2
    <2>6. CASE d.out # "USDC" /\ ~(d.out = "WETH" /\ d.in = "ETH")
      <3> DEFINE v == refused("Fund.tokenOut")
      <3>1. e = AskedBack(a, {"tokenOut"}, v)
        BY <1>7, <2>1, <2>6 DEF Earn, AskedBack
      <3>2. LastRefuses(v) BY <1>3, <1>7
      <3> HIDE DEF e, a, v
      <3>3. /\ e.needs = {"tokenOut"} /\ e.action = "earn" /\ e.by = by /\ e.steps = v
            /\ e.intent = NoIntent
        BY <1>1, <3>1, AnswerAskedBack
      <3>4. Sound(e) BY <3>2, <3>3 DEF Sound, Wanted
      <3>5. QED BY <3>3, <3>4 DEF e
    <2>7. QED BY <2>2, <2>3, <2>4, <2>5, <2>6
  <1>8. QED BY <1>4, <1>5, <1>6, <1>7

\* Whatever a model drafted, the answer is sound; a question about the position is a plain one.
LEMMA InterpretIsSound ==
  ASSUME NEW d, NEW by
  PROVE  /\ Sound(Interpret(d, by)) /\ Interpret(d, by).by = by
         /\ Interpret(d, by).action = "status" => Interpret(d, by) = ReadAs(d, by)
  <1>1. CASE ActionOf(d) = "swap"
    <2>1. Interpret(d, by) = Trade(d, by) BY <1>1 DEF Interpret
    <2>2. Sound(Trade(d, by)) BY <1>1, TradeIsSound
    <2>3. Trade(d, by).action = "swap" /\ Trade(d, by).by = by BY <1>1, TradeFields
    <2>4. QED BY <2>1, <2>2, <2>3
  <1>2. CASE ActionOf(d) = "earn"
    <2>1. Interpret(d, by) = Earn(d, by) BY <1>2 DEF Interpret
    <2>2. QED BY <1>2, <2>1, EarnIsSound
  <1>3. CASE ActionOf(d) \notin {"swap", "earn"}
    <2>1. Interpret(d, by) = ReadAs(d, by) BY <1>3 DEF Interpret
    <2>2. QED BY <1>3, <2>1, ReadIsSound, ReadFields
  <1>4. QED BY <1>1, <1>2, <1>3

-----------------------------------------------------------------------------
(***************************************************************************)
(* The models in their turn, and their time: each of them fits the budget  *)
(* because it is as long as all of them together, and one more is asked    *)
(* only while one is left.                                                 *)
(***************************************************************************)

LEMMA TurnConstants ==
  /\ LlmTimeout \in Nat \ {0} /\ IndexTimeout \in Nat \ {0} /\ RequestTimeout \in Nat \ {0}
  /\ Slack \in Nat \ {0} /\ Patience \in Nat \ {0} /\ Delays \subseteq Nat
  /\ \A s \in Slots : s \in Seq([model : STRING, key : BOOLEAN])
  BY SwapTurnAssumption DEF SwapTurnAssumption

LEMMA KeyedAreSome ==
  ASSUME slots \in Slots
  PROVE  /\ Keyed \in SUBSET (1..Len(slots)) /\ Len(slots) \in Nat
         /\ IsFiniteSet(Keyed) /\ Cardinality(Keyed) \in Nat /\ Picked \subseteq Keyed
  <1>1. slots \in Seq([model : STRING, key : BOOLEAN]) BY TurnConstants
  <1>2. DOMAIN slots = 1..Len(slots) /\ Len(slots) \in Nat BY <1>1
  <1>3. Keyed \in SUBSET (1..Len(slots)) BY <1>2 DEF Keyed
  <1>4. IsFiniteSet(1..Len(slots)) BY <1>2, FS_Interval
  <1>5. IsFiniteSet(Keyed) BY <1>3, <1>4, FS_Subset
  <1>6. QED BY <1>2, <1>3, <1>5, FS_CardinalityType DEF Picked

LEMMA AttemptsCover ==
  ASSUME slots \in Slots
  PROVE  Attempts \in Nat \ {0} /\ Cardinality(Keyed) <= Attempts
  <1> DEFINE n == Cardinality(Keyed)  S == {1, n}
  <1>1. n \in Nat BY KeyedAreSome
  <1> HIDE DEF n
  <1>2. CASE n = 0
    <2>1. \E x \in S : \A y \in S : x >= y BY <1>2
    <2>2. Max(S) \in S /\ \A y \in S : Max(S) >= y BY <2>1 DEF Max
    <2>3. Max(S) >= 1 BY <2>2
    <2>4. Max(S) = 1 BY <1>2, <2>2, <2>3
    <2>5. QED BY <1>2, <2>4 DEF Attempts, n
  <1>3. CASE n > 0
    <2>1. S \in SUBSET (1..n) /\ S # {} BY <1>1, <1>3
    <2>2. Max(S) \in S /\ \A y \in S : y =< Max(S) BY <1>1, <2>1, MaxMinOf
    <2>3. QED BY <1>1, <1>3, <2>1, <2>2 DEF Attempts, n
  <1>4. QED BY <1>1, <1>2, <1>3

LEMMA BudgetCovers ==
  ASSUME slots \in Slots, indexOn \in BOOLEAN
  PROVE  SwapBudget \in Nat \ {0} /\ LlmTimeout * Attempts < SwapBudget
  <1> DEFINE p == LlmTimeout * Attempts
             S == {p, RequestTimeout} \cup (IF indexOn THEN {IndexTimeout} ELSE {})
             n == p + RequestTimeout + IndexTimeout
  <1>1. LlmTimeout \in Nat \ {0} /\ Attempts \in Nat \ {0} BY TurnConstants, AttemptsCover
  <1>2. p \in Nat \ {0} BY <1>1
  <1> HIDE DEF p
  <1>3. n \in Nat /\ S \in SUBSET (1..n) /\ S # {} /\ p \in S BY <1>2, TurnConstants
  <1> HIDE DEF S, n
  <1>4. Max(S) \in S /\ \A y \in S : y =< Max(S) BY <1>3, MaxMinOf
  <1> DEFINE m == Max(S)
  <1>5. m \in S /\ p =< m BY <1>3, <1>4
  <1>6. SwapBudget = Slack + m BY DEF SwapBudget, S, p
  <1> HIDE DEF m
  <1>7. m \in Nat BY <1>3, <1>5
  <1>8. QED BY <1>2, <1>5, <1>6, <1>7, TurnConstants DEF p

LEMMA EndsFirst ==
  ASSUME slots \in Slots, indexOn \in BOOLEAN
  PROVE  /\ Ends \in Nat \ {0} /\ Ends <= SwapBudget /\ Ends <= Patience
         /\ Patience >= SwapBudget => Ends = SwapBudget
  <1> DEFINE b == SwapBudget  S == {b, Patience}  n == b + Patience
  <1>1. b \in Nat \ {0} /\ Patience \in Nat \ {0} BY BudgetCovers, TurnConstants
  <1> HIDE DEF b
  <1>2. n \in Nat /\ S \in SUBSET (1..n) /\ S # {} BY <1>1
  <1> HIDE DEF n
  <1>3. Min(S) \in S /\ \A y \in S : Min(S) =< y BY <1>2, MaxMinOf
  <1>4. Ends = Min(S) BY DEF Ends, b
  <1>5. QED BY <1>1, <1>3, <1>4 DEF b

\* What has been asked, in its order.
Queue(q) ==
    /\ q \in Seq(Keyed) /\ Cardinality(ToSet(q)) = Len(q)
    /\ \A j, k \in DOMAIN q : j # k => q[j] # q[k]
    /\ \A j, k \in 2..Len(q) : j < k => q[j] < q[k]
    /\ \A j \in 2..Len(q) : \A i \in Keyed \ ToSet(q) : q[j] < i
    /\ q # <<>> /\ Picked # {} => q[1] \in Picked

LEMMA QueueGrows ==
  ASSUME slots \in Slots, Queue(tried), ToSet(tried) # Keyed
  PROVE  /\ NextUp \in Keyed /\ Queue(Append(tried, NextUp))
         /\ Len(tried) + 1 <= Cardinality(Keyed) /\ Len(tried) \in Nat
         /\ Last(Append(tried, NextUp)) = NextUp
  <1> DEFINE q == tried  x == NextUp  t == Append(tried, NextUp)  left == Keyed \ ToSet(q)
  <1>1. /\ Keyed \in SUBSET (1..Len(slots)) /\ Len(slots) \in Nat /\ Picked \subseteq Keyed
        /\ IsFiniteSet(Keyed)
    BY KeyedAreSome
  <1>2. q \in Seq(Keyed) /\ Len(q) \in Nat /\ DOMAIN q = 1..Len(q) BY DEF Queue
  <1>3. ToSet(q) = {q[k] : k \in 1..Len(q)} /\ ToSet(q) \subseteq Keyed BY <1>2 DEF ToSet
  <1>4. left # {} /\ left \in SUBSET (1..Len(slots)) BY <1>1, <1>3
  <1>5. q = <<>> => ToSet(q) = {} BY <1>3
  <1>6. x \in left /\ (q # <<>> => \A i \in left : x =< i)
        /\ (q = <<>> /\ Picked # {} => x \in Picked)
    <2>1. CASE q = <<>> /\ Picked # {}
      <3>1. x = Min(Picked) BY <2>1 DEF NextUp
      <3>2. Picked \in SUBSET (1..Len(slots)) BY <1>1
      <3>3. x \in Picked BY <1>1, <2>1, <3>1, <3>2, MaxMinOf
      <3>4. QED BY <1>1, <1>5, <2>1, <3>3
    <2>2. CASE ~(q = <<>> /\ Picked # {})
      <3>1. x = Min(left) BY <2>2 DEF NextUp
      <3>2. x \in left /\ \A i \in left : x =< i BY <1>1, <1>4, <3>1, MaxMinOf
      <3>3. QED BY <2>2, <3>2
    <2>3. QED BY <2>1, <2>2
  <1>7. x \in Keyed /\ x \notin ToSet(q) BY <1>6
  <1> HIDE DEF x
  <1>8. /\ t \in Seq(Keyed) /\ Len(t) = Len(q) + 1 /\ t[Len(q) + 1] = x
        /\ \A k \in 1..Len(q) : t[k] = q[k]
    BY <1>2, <1>7 DEF x
  <1> HIDE DEF t
  <1>9. DOMAIN t = 1..(Len(q) + 1) BY <1>2, <1>8
  <1>10. ToSet(t) = ToSet(q) \cup {x}
    <2>1. ToSet(t) = {t[k] : k \in 1..(Len(q) + 1)} BY <1>9 DEF ToSet
    <2>2. \A k \in 1..(Len(q) + 1) : k \in 1..Len(q) \/ k = Len(q) + 1 BY <1>2
    <2>3. \A k \in 1..Len(q) : k \in 1..(Len(q) + 1) BY <1>2
    <2>4. Len(q) + 1 \in 1..(Len(q) + 1) BY <1>2
    <2>5. QED BY <1>3, <1>8, <2>1, <2>2, <2>3, <2>4
  <1>11. IsFiniteSet(ToSet(q)) BY <1>1, <1>3, FS_Subset
  <1>12. Cardinality(ToSet(q)) = Len(q) BY DEF Queue
  <1>13. Cardinality(ToSet(t)) = Len(t)
    <2>1. Cardinality(ToSet(q) \cup {x}) = Cardinality(ToSet(q)) + 1 BY <1>7, <1>11, FS_AddElement
    <2>2. QED BY <1>8, <1>10, <1>12, <2>1
  <1>14. Len(q) + 1 <= Cardinality(Keyed)
    <2>1. ToSet(t) \in SUBSET Keyed BY <1>3, <1>7, <1>10
    <2>2. Cardinality(ToSet(t)) <= Cardinality(Keyed) BY <1>1, <2>1, FS_Subset
    <2>3. QED BY <1>8, <1>13, <2>2
  <1>15. \A k \in 1..Len(q) : q[k] \in ToSet(q) BY <1>3
  <1>16. \A j, k \in DOMAIN t : j # k => t[j] # t[k]
    <2> SUFFICES ASSUME NEW j \in DOMAIN t, NEW k \in DOMAIN t, j # k PROVE t[j] # t[k] OBVIOUS
    <2>1. \A a, b \in 1..Len(q) : a # b => q[a] # q[b] BY <1>2 DEF Queue
    <2>2. CASE j \in 1..Len(q) /\ k \in 1..Len(q) BY <1>8, <2>1, <2>2
    <2>3. CASE j = Len(q) + 1 /\ k \in 1..Len(q) BY <1>7, <1>8, <1>15, <2>3
    <2>4. CASE j \in 1..Len(q) /\ k = Len(q) + 1 BY <1>7, <1>8, <1>15, <2>4
    <2>5. QED BY <1>2, <1>9, <2>2, <2>3, <2>4
  <1>17. \A j, k \in 2..Len(t) : j < k => t[j] < t[k]
    <2> SUFFICES ASSUME NEW j \in 2..Len(t), NEW k \in 2..Len(t), j < k PROVE t[j] < t[k] OBVIOUS
    <2>1. j \in 2..Len(q) /\ j \in 1..Len(q) BY <1>2, <1>8
    <2>2. CASE k \in 2..Len(q)
      <3>1. k \in 1..Len(q) BY <1>2, <2>2
      <3>2. q[j] < q[k] BY <2>1, <2>2 DEF Queue
      <3>3. QED BY <1>8, <2>1, <3>1, <3>2
    <2>3. CASE k = Len(q) + 1
      <3>1. q[j] < x BY <1>6, <2>1 DEF Queue, x
      <3>2. QED BY <1>8, <2>1, <2>3, <3>1
    <2>4. QED BY <1>2, <1>8, <2>2, <2>3
  <1>18. \A j \in 2..Len(t) : \A i \in Keyed \ ToSet(t) : t[j] < i
    <2> SUFFICES ASSUME NEW j \in 2..Len(t), NEW i \in Keyed \ ToSet(t) PROVE t[j] < i OBVIOUS
    <2>1. i \in left /\ i # x BY <1>10
    <2>2. CASE j \in 2..Len(q)
      <3>1. q[j] < i BY <2>1, <2>2 DEF Queue
      <3>2. j \in 1..Len(q) BY <1>2, <2>2
      <3>3. QED BY <1>8, <3>1, <3>2
    <2>3. CASE j = Len(q) + 1
      <3>1. q # <<>> BY <1>2, <1>8, <2>3
      <3>2. x =< i BY <1>6, <2>1, <3>1 DEF x
      <3>3. x \in Nat /\ i \in Nat BY <1>1, <1>7, <2>1
      <3>4. x < i BY <2>1, <3>2, <3>3
      <3>5. QED BY <1>8, <2>3, <3>4
    <2>4. QED BY <1>2, <1>8, <2>2, <2>3
  <1>19. Picked # {} => t[1] \in Picked
    <2>1. CASE q = <<>>
      <3>1. t[1] = x BY <1>8, <2>1
      <3>2. QED BY <1>6, <2>1, <3>1 DEF x
    <2>2. CASE q # <<>>
      <3>1. 1 \in 1..Len(q) BY <1>2, <2>2
      <3>2. t[1] = q[1] BY <1>8, <3>1
      <3>3. QED BY <2>2, <3>2 DEF Queue
    <2>3. QED BY <2>1, <2>2
  <1>20. Queue(t) BY <1>8, <1>13, <1>16, <1>17, <1>18, <1>19 DEF Queue
  <1>21. Last(t) = x BY <1>8 DEF Last
  <1>22. QED BY <1>2, <1>7, <1>14, <1>20, <1>21 DEF t, x

\* One more call fits.
LEMMA OneMoreFits ==
  ASSUME slots \in Slots, indexOn \in BOOLEAN, NEW n \in Nat, n + 1 <= Cardinality(Keyed)
  PROVE  n * LlmTimeout + LlmTimeout < SwapBudget
  <1> DEFINE c == Cardinality(Keyed)  a == Attempts  l == LlmTimeout
  <1>1. c \in Nat /\ a \in Nat /\ c <= a BY KeyedAreSome, AttemptsCover
  <1>2. l \in Nat /\ l * a < SwapBudget /\ SwapBudget \in Nat BY TurnConstants, BudgetCovers
  <1>3. n + 1 <= a BY <1>1
  <1> HIDE DEF c, a, l
  <1>4. PICK k \in Nat : a = n + 1 + k
    <2>1. a - (n + 1) \in Nat BY <1>1, <1>3
    <2>2. a = n + 1 + (a - (n + 1)) BY <1>1
    <2>3. QED BY <2>1, <2>2
  <1>5. l * a = n * l + l + l * k /\ l * k \in Nat BY <1>1, <1>2, <1>4
  <1>6. n * l \in Nat BY <1>2
  <1>7. n * l + l < SwapBudget BY <1>2, <1>5, <1>6
  <1>8. QED BY <1>7 DEF l

TurnStages == {"sent", "off", "limited", "asking", "indexing", "answered", "unreached",
               "cut", "abandoned"}

\* Where a message stands.
TurnInv ==
    /\ slots \in Slots /\ indexOn \in BOOLEAN /\ standing \in TurnStages
    /\ spent \in Nat /\ spent <= Ends
    /\ Queue(tried) /\ Sound(outcome)
    /\ standing = "sent" => tried = <<>> /\ spent = 0
    /\ standing = "asking" => ToSet(tried) # Keyed /\ spent <= Len(tried) * LlmTimeout
    /\ standing = "unreached" /\ message = "fine" => garbled \/ ToSet(tried) = Keyed
    /\ garbled => standing = "unreached"
    /\ message # "fine" => standing \in {"sent", "off", "limited", "unreached"}
    /\ standing \in {"sent", "asking", "off", "limited", "unreached"} => outcome = NoAnswer
    /\ standing \in {"indexing", "cut"} => outcome # NoAnswer
    /\ standing = "indexing" =>
          /\ IsAnswer(outcome) /\ outcome.action = "status" /\ outcome.needs = {}
          /\ outcome.intent = NoIntent /\ AllPassed(outcome.steps)
    /\ outcome # NoAnswer => tried # <<>> /\ outcome.by = Last(tried)

LEMMA NoAnswerIsSound == Sound(NoAnswer)
  <1>1. /\ NoAnswer.needs = {} /\ NoAnswer.intent = NoIntent /\ NoAnswer.action = "none"
        /\ NoAnswer.steps = <<>>
    BY DEF NoAnswer
  <1>2. AllPassed(<<>>) BY DEF AllPassed
  <1>3. QED BY <1>1, <1>2 DEF Sound, Wanted

LEMMA TurnStarts == TurnInit => TurnInv
  <1> SUFFICES ASSUME TurnInit PROVE TurnInv OBVIOUS
  <1> USE DEF TurnInit
  <1>1. slots \in Slots /\ indexOn \in BOOLEAN OBVIOUS
  <1>2. spent \in Nat /\ spent <= Ends BY <1>1, EndsFirst
  <1>3. Queue(tried)
    <2>1. tried = <<>> OBVIOUS
    <2>2. ToSet(<<>>) = {} BY DEF ToSet
    <2>3. <<>> \in Seq(Keyed) /\ Len(<<>>) = 0 /\ DOMAIN <<>> = {} /\ 2..0 = {} OBVIOUS
    <2>4. Cardinality({}) = 0 BY FS_EmptySet
    <2>5. QED BY <2>1, <2>2, <2>3, <2>4 DEF Queue
  <1>4. Sound(outcome) BY NoAnswerIsSound
  <1>5. QED BY <1>1, <1>2, <1>3, <1>4 DEF TurnInv, TurnStages

\* One more model is asked.
LEMMA ModelAsked ==
  ASSUME TurnInv, NEW delay \in Delays, delay <= LlmTimeout, AskNextModel(delay),
         UNCHANGED <<slots, indexOn, pick, message>>
  PROVE  /\ spent' \in Nat /\ spent' <= Ends' /\ spent' <= Len(tried') * LlmTimeout
         /\ Queue(tried)' /\ tried' # <<>> /\ Last(tried') = NextUp
         /\ Keyed' = Keyed /\ NextUp \in Nat \ {0} /\ slots' \in Slots /\ indexOn' \in BOOLEAN
  <1> DEFINE q == Append(tried, NextUp)
  <1>1. /\ slots \in Slots /\ indexOn \in BOOLEAN /\ Queue(tried) /\ ToSet(tried) # Keyed
        /\ spent \in Nat /\ spent <= Len(tried) * LlmTimeout
    BY DEF TurnInv, AskNextModel
  <1>2. tried' = q /\ spent' = spent + delay /\ spent + delay < Ends
    BY DEF AskNextModel, InTime
  <1>3. delay \in Nat /\ LlmTimeout \in Nat BY TurnConstants
  <1>4. Ends \in Nat BY <1>1, EndsFirst
  <1>5. Keyed' = Keyed /\ Picked' = Picked BY DEF Keyed, Picked
  <1>6. Ends' = Ends BY <1>5 DEF Ends, SwapBudget, Attempts
  <1>7. NextUp \in Keyed /\ Queue(q) /\ Len(tried) \in Nat /\ Last(q) = NextUp BY <1>1, QueueGrows
  <1>8. Queue(tried)' BY <1>2, <1>5, <1>7 DEF Queue
  <1>9. tried \in Seq(Keyed) /\ q # <<>> /\ Len(q) = Len(tried) + 1
    BY <1>1, <1>7 DEF Queue
  <1>10. spent + delay <= (Len(tried) + 1) * LlmTimeout
    <2> DEFINE n == Len(tried)
    <2>1. (n + 1) * LlmTimeout = n * LlmTimeout + LlmTimeout /\ n * LlmTimeout \in Nat BY <1>3, <1>7
    <2> HIDE DEF n
    <2>2. QED BY <1>1, <1>3, <2>1 DEF n
  <1>11. NextUp \in Nat \ {0} BY <1>1, <1>7, KeyedAreSome
  <1>12. spent' \in Nat /\ spent' <= Ends' BY <1>1, <1>2, <1>3, <1>4, <1>6
  <1>13. QED BY <1>1, <1>2, <1>5, <1>7, <1>8, <1>9, <1>10, <1>11, <1>12

\* The settings, what was asked and the answer stay.
LEMMA SettingsStay ==
  ASSUME UNCHANGED <<slots, indexOn, pick>>
  PROVE  Ends' = Ends /\ Keyed' = Keyed /\ Picked' = Picked /\ SwapBudget' = SwapBudget
  BY DEF Ends, SwapBudget, Attempts, Keyed, Picked

LEMMA TurnsGoOn == TurnInv /\ [TurnNext]_turnVars => TurnInv'
  <1> SUFFICES ASSUME TurnInv, [TurnNext]_turnVars PROVE TurnInv' OBVIOUS
  <1> USE DEF TurnInv
  <1>1. CASE TurnedAway
    <2>1. UNCHANGED <<slots, indexOn, pick, message, spent, tried, garbled, outcome>>
      BY <1>1 DEF TurnedAway
    <2>2. /\ standing = "sent" /\ standing' \in {"off", "limited", "unreached"}
          /\ standing' = "unreached" => message = "unfit"
      BY <1>1 DEF TurnedAway
    <2>3. Ends' = Ends /\ Queue(tried)' BY <2>1, SettingsStay DEF Queue
    <2>4. QED BY <2>1, <2>2, <2>3 DEF TurnStages
  <1>2. CASE TakenIn
    <2>1. UNCHANGED <<slots, indexOn, pick, message, spent, tried, garbled, outcome>>
      BY <1>2 DEF TakenIn
    <2>2. standing = "sent" /\ standing' = "asking" /\ Keyed # {} /\ message = "fine" BY <1>2 DEF TakenIn
    <2>3. Ends' = Ends /\ Queue(tried)' /\ Keyed' = Keyed BY <2>1, SettingsStay DEF Queue
    <2>4. ToSet(tried) = {} BY <2>2 DEF ToSet
    <2>5. 0 <= Len(<<>>) * LlmTimeout BY TurnConstants
    <2>6. QED BY <2>1, <2>2, <2>3, <2>4, <2>5 DEF TurnStages
  <1>3. CASE ModelDrafts
    <2>1. PICK delay \in Delays, d \in Drafts :
            /\ delay < LlmTimeout /\ AskNextModel(delay)
            /\ outcome' = Interpret(d, Last(tried'))
            /\ standing' = IF outcome'.action = "status" /\ indexOn THEN "indexing" ELSE "answered"
            /\ UNCHANGED <<slots, indexOn, pick, message, garbled>>
      BY <1>3 DEF ModelDrafts
    <2>2. delay <= LlmTimeout BY <2>1, TurnConstants
    <2>3. /\ spent' \in Nat /\ spent' <= Ends'
          /\ Queue(tried)' /\ tried' # <<>> /\ Last(tried') = NextUp
          /\ NextUp \in Nat \ {0} /\ slots' \in Slots /\ indexOn' \in BOOLEAN
      BY <2>1, <2>2, ModelAsked
    <2> DEFINE by == Last(tried')  a == Interpret(d, by)
    <2>4. Sound(a) /\ a.by = by /\ (a.action = "status" => a = ReadAs(d, by))
      BY InterpretIsSound
    <2>5. a # NoAnswer
      <3>1. NoAnswer.by = 0 BY DEF NoAnswer
      <3>2. QED BY <2>3, <2>4, <3>1
    <2>6. a.action = "status" =>
            /\ IsAnswer(a) /\ a.needs = {} /\ a.intent = NoIntent /\ AllPassed(a.steps)
      BY <2>4, ReadFields, AskPassed
    <2>7. outcome' = a BY <2>1
    <2>8. Sound(outcome)' BY <2>4, <2>7 DEF Sound, SaysSo
    <2> HIDE DEF a, by
    <2>9. standing' \in {"indexing", "answered"} /\ (standing' = "indexing" => a.action = "status")
      BY <2>1, <2>7
    <2>10. a.by = Last(tried') BY <2>4 DEF by
    <2>11. ~garbled /\ message = "fine" BY <2>1 DEF AskNextModel
    <2>12. QED BY <2>1, <2>11, <2>3, <2>5, <2>6, <2>7, <2>8, <2>9, <2>10 DEF TurnStages
  <1>4. CASE ModelBabbles
    <2>1. PICK delay \in Delays :
            /\ delay < LlmTimeout /\ AskNextModel(delay)
            /\ standing' = "unreached" /\ garbled' = TRUE
            /\ UNCHANGED <<slots, indexOn, pick, message, outcome>>
      BY <1>4 DEF ModelBabbles
    <2>2. delay <= LlmTimeout BY <2>1, TurnConstants
    <2>3. /\ spent' \in Nat /\ spent' <= Ends'
          /\ Queue(tried)' /\ slots' \in Slots /\ indexOn' \in BOOLEAN
      BY <2>1, <2>2, ModelAsked
    <2>4. outcome = NoAnswer /\ outcome' = NoAnswer BY <2>1 DEF AskNextModel
    <2>5. message = "fine" BY <2>1 DEF AskNextModel
    <2>6. QED BY <2>1, <2>3, <2>4, <2>5, NoAnswerIsSound DEF TurnStages
  <1>5. CASE ModelIsDown
    <2>1. PICK delay \in Delays :
            /\ delay =< LlmTimeout /\ AskNextModel(delay)
            /\ standing' = IF ToSet(tried') = Keyed THEN "unreached" ELSE "asking"
            /\ UNCHANGED <<slots, indexOn, pick, message, garbled, outcome>>
      BY <1>5 DEF ModelIsDown
    <2>2. /\ spent' \in Nat /\ spent' <= Ends' /\ spent' <= Len(tried') * LlmTimeout
          /\ Queue(tried)' /\ slots' \in Slots /\ indexOn' \in BOOLEAN /\ Keyed' = Keyed
      BY <2>1, ModelAsked
    <2>3. outcome = NoAnswer /\ outcome' = NoAnswer BY <2>1 DEF AskNextModel
    <2>4. ~garbled /\ message = "fine" BY <2>1 DEF AskNextModel
    <2>5. QED BY <2>1, <2>2, <2>3, <2>4, NoAnswerIsSound DEF TurnStages
  <1>6. CASE IndexRead
    <2>1. PICK delay \in Delays, concluded \in BOOLEAN :
            /\ standing = "indexing" /\ delay =< IndexTimeout /\ InTime(delay)
            /\ spent' = spent + delay /\ standing' = "answered"
            /\ outcome' = [outcome EXCEPT !.steps = @ \o
                     IF concluded THEN <<Passed("mcp"), Passed("index.answer")>> ELSE <<Refused("mcp")>>]
            /\ UNCHANGED <<slots, indexOn, pick, message, tried, garbled>>
      BY <1>6 DEF IndexRead
    <2> DEFINE more == IF concluded THEN <<Passed("mcp"), Passed("index.answer")>>
                       ELSE <<Refused("mcp")>>
               v == outcome.steps \o more
    <2>2. outcome' = TellsIn(outcome, v) BY <2>1 DEF TellsIn
    <2>3. AllPassed(v) \/ LastRefuses(v)
      <3>1. AllPassed(outcome.steps) BY <2>1
      <3>2. CASE concluded
        <4>1. AllPassed(<<Passed("mcp"), Passed("index.answer")>>)
          BY DEF AllPassed, Passed, TurnSteps, CheckCalls
        <4>2. QED BY <3>1, <3>2, <4>1, PassedAll
      <3>3. CASE ~concluded
        <4>1. "mcp" \in CheckCalls BY DEF CheckCalls
        <4>2. v = outcome.steps \o <<Refused("mcp")>> BY <3>3
        <4>3. QED BY <3>1, <4>1, <4>2 DEF LastRefuses
      <3>4. QED BY <3>2, <3>3
    <2>4. /\ IsAnswer(outcome) /\ outcome.action = "status" /\ outcome.needs = {}
          /\ outcome.intent = NoIntent /\ outcome.by = Last(tried) /\ tried # <<>>
      BY <2>1
    <2> HIDE DEF v
    <2>5. /\ TellsIn(outcome, v).steps = v /\ TellsIn(outcome, v).action = "status"
          /\ TellsIn(outcome, v).by = Last(tried) /\ TellsIn(outcome, v).intent = NoIntent
          /\ TellsIn(outcome, v).needs = {}
      BY <2>4, AnswerTells
    <2>6. Sound(TellsIn(outcome, v)) BY <2>3, <2>5 DEF Sound, Wanted
    <2>7. spent' \in Nat /\ spent' <= Ends'
      <3>1. Ends' = Ends /\ Ends \in Nat BY <2>1, SettingsStay, EndsFirst
      <3>2. delay \in Nat BY TurnConstants
      <3>3. QED BY <2>1, <3>1, <3>2 DEF InTime
    <2>8. Queue(tried)' BY <2>1, SettingsStay DEF Queue
    <2>9. Sound(outcome)' BY <2>2, <2>6 DEF Sound, SaysSo
    <2>10. outcome'.by = Last(tried') /\ tried' # <<>> BY <2>1, <2>2, <2>4, <2>5
    <2>11. QED BY <2>1, <2>7, <2>8, <2>9, <2>10 DEF TurnStages
  <1>7. CASE RunsOut
    <2>1. PICK delay \in Delays :
            /\ \/ standing = "asking" /\ delay =< LlmTimeout
               \/ standing = "indexing" /\ delay =< IndexTimeout
            /\ ~InTime(delay)
            /\ spent' = Ends
            /\ standing' = IF Patience < SwapBudget THEN "abandoned" ELSE "cut"
            /\ UNCHANGED <<slots, indexOn, pick, message, tried, garbled, outcome>>
      BY <1>7 DEF RunsOut
    <2>2. Ends' = Ends /\ Ends \in Nat /\ Keyed' = Keyed BY <2>1, SettingsStay, EndsFirst
    <2>3. Queue(tried)' BY <2>1, SettingsStay DEF Queue
    <2>4. standing' = "cut" => standing = "indexing"
      <3> SUFFICES ASSUME standing' = "cut", standing = "asking", delay =< LlmTimeout PROVE FALSE
        BY <2>1
      <3>1. Patience >= SwapBudget BY <2>1, TurnConstants, BudgetCovers
      <3>2. Ends = SwapBudget BY <3>1, EndsFirst
      <3>3. Len(tried) \in Nat /\ Len(tried) + 1 <= Cardinality(Keyed) BY QueueGrows
      <3>4. Len(tried) * LlmTimeout + LlmTimeout < SwapBudget BY <3>3, OneMoreFits
      <3> DEFINE n == Len(tried) * LlmTimeout
      <3>5. spent <= n /\ n \in Nat BY <3>3, TurnConstants
      <3>6. delay \in Nat /\ LlmTimeout \in Nat /\ SwapBudget \in Nat BY TurnConstants, BudgetCovers
      <3> HIDE DEF n
      <3>7. spent + delay < SwapBudget BY <3>4, <3>5, <3>6 DEF n
      <3>8. QED BY <2>1, <3>2, <3>7 DEF InTime
    <2>5. Sound(outcome)' BY <2>1 DEF Sound, SaysSo
    <2>6. standing' \in {"abandoned", "cut"} BY <2>1
    <2>7. QED BY <2>1, <2>2, <2>3, <2>4, <2>5, <2>6 DEF TurnStages
  <1>8. CASE UNCHANGED turnVars
    <2>1. UNCHANGED <<slots, indexOn, pick, message, standing, spent, tried, garbled, outcome>>
      BY <1>8 DEF turnVars
    <2>2. Ends' = Ends /\ Keyed' = Keyed /\ Queue(tried)' BY <2>1, SettingsStay DEF Queue
    <2>3. Sound(outcome)' BY <2>1 DEF Sound, SaysSo
    <2>4. QED BY <2>1, <2>2, <2>3
  <1>9. QED BY <1>1, <1>2, <1>3, <1>4, <1>5, <1>6, <1>7, <1>8 DEF TurnNext

\* A message is in one of its stages, never past its end, and asks for nothing but a token or an
\* amount.
THEOREM TurnTypeCorrect == TurnSpec => []TurnTypeOK
  <1>1. TurnInv => TurnTypeOK
    <2> SUFFICES ASSUME TurnInv PROVE TurnTypeOK OBVIOUS
    <2>1. Ends \in Nat BY EndsFirst DEF TurnInv
    <2>2. spent \in 0..Ends BY <2>1 DEF TurnInv
    <2>3. QED BY <2>2 DEF TurnInv, TurnTypeOK, TurnStages, Queue, Sound, Wanted
  <1>2. QED BY <1>1, TurnStarts, TurnsGoOn, PTL DEF TurnSpec

\* A message is answered by a model that had its time (SwapBudget covers each attempt), asked in
\* its turn (Client.prefer, complete), and with nothing that build did not check; a sentence that
\* goes unanswered had every model fail it, or the last one asked garble its answer.
THEOREM MessagesAreChecked == TurnSpec => []TurnsAreChecked
  <1>1. TurnInv => TurnsAreChecked
    <2> SUFFICES ASSUME TurnInv PROVE TurnsAreChecked OBVIOUS
    <2>1. ModelsFitTheBudget
      <3>1. ASSUME standing = "asking" PROVE spent + LlmTimeout < SwapBudget
        <4>1. Len(tried) \in Nat /\ Len(tried) + 1 <= Cardinality(Keyed)
          BY <3>1, QueueGrows DEF TurnInv
        <4>2. Len(tried) * LlmTimeout + LlmTimeout < SwapBudget
          BY <4>1, OneMoreFits DEF TurnInv
        <4> DEFINE n == Len(tried) * LlmTimeout
        <4>3. spent <= n /\ n \in Nat BY <3>1, <4>1, TurnConstants DEF TurnInv
        <4>4. spent \in Nat /\ LlmTimeout \in Nat /\ SwapBudget \in Nat
          BY TurnConstants, BudgetCovers DEF TurnInv
        <4> HIDE DEF n
        <4>5. QED BY <4>2, <4>3, <4>4 DEF n
      <3>2. QED BY <3>1 DEF ModelsFitTheBudget, TurnInv
    <2>2. FallbackIsComplete BY DEF FallbackIsComplete, TurnInv, Queue
    <2>3. AnswersAreChecked BY SoundIsChecked DEF AnswersAreChecked, TurnInv
    <2>4. QED BY <2>1, <2>2, <2>3 DEF TurnsAreChecked
  <1>2. QED BY <1>1, TurnStarts, TurnsGoOn, PTL DEF TurnSpec

-----------------------------------------------------------------------------
(* ActivityScan. *)

USE ActivityAssumption

(* The scan's inductive invariant. *)

\* Everything of these kinds that the scan set out to find.
HasFound(reader, kinds) ==
    \A e \in accountLog :
        e.kind \in kinds /\ e.block >= StartOf(reader.readTo) /\ e.block <= reader.upTo
            => e \in reader.found

ReaderInv(reader) ==
    /\ reader.readTo <= head /\ reader.upTo <= head
    /\ Recorded(reader.readTo)
    /\ reader.found \subseteq accountLog /\ reader.stamped \subseteq reader.found
    /\ reader.at # "saving" => reader.stamped = {}
    /\ reader.at = "pairing" => HasFound(reader, {"own"})
    /\ reader.at \in {"dating", "saving"} => HasFound(reader, ScanKinds)

LogInv == From <= head /\ \A e \in accountLog : e.block >= From /\ e.block <= head

StoreInv ==
    /\ rows \subseteq accountLog
    /\ cursor.readTo <= head /\ Recorded(cursor.readTo)

ScanInv == ScanTypeOK /\ LogInv /\ StoreInv /\ \A r \in Visitors : ReaderInv(readers[r])

-----------------------------------------------------------------------------
(* Types. *)

LEMMA ReaderTypes ==
    /\ Gone \in Reader
    /\ \A b \in {0} \cup Blocks : Answering(b) \in Reader
    /\ \A b \in {0} \cup Blocks : [Gone EXCEPT !.at = "asking", !.readTo = b] \in Reader
    /\ \A x \in Reader : [x EXCEPT !.at = "touching"] \in Reader
    /\ \A x \in Reader, b \in Blocks : [x EXCEPT !.at = "reading", !.upTo = b] \in Reader
    /\ \A x \in Reader, f \in SUBSET Events : [x EXCEPT !.at = "pairing", !.found = f] \in Reader
    /\ \A x \in Reader, f \in SUBSET Events : [x EXCEPT !.at = "dating", !.found = f] \in Reader
    /\ \A x \in Reader, f \in SUBSET Events : [x EXCEPT !.at = "saving", !.stamped = f] \in Reader
  BY DEF Gone, Answering, Reader, ReaderSteps

LEMMA FailureCount == ScanTypeOK /\ (ScanWorks \/ ScanFails) => failures' \in 0..MaxFailures
  BY DEF ScanTypeOK, ScanWorks, ScanFails

LEMMA ScanTypeStep == ScanTypeOK /\ LogInv /\ (\A r \in Visitors : ReaderInv(readers[r])) /\ [ScanNext]_scanVars => ScanTypeOK'
  <1> SUFFICES ASSUME ScanTypeOK, LogInv, \A r \in Visitors : ReaderInv(readers[r]), [ScanNext]_scanVars
               PROVE  ScanTypeOK'
    OBVIOUS
  <1> USE DEF ScanTypeOK
  <1>1. ASSUME NEW r \in Visitors, Visit(r) PROVE ScanTypeOK'
    <2>1. PICK seen \in {cursor, Never} :
            /\ ScanWorks \/ ScanFails
            /\ ReaderBecomes(r, IF seen.fresh THEN Answering(seen.readTo)
                          ELSE [Gone EXCEPT !.at = "asking", !.readTo = seen.readTo])
      BY <1>1 DEF Visit
    <2>2. seen.readTo \in {0} \cup Blocks
      BY DEF Never
    <2>3. failures' \in 0..MaxFailures
      BY <2>1, FailureCount
    <2>4. readers' \in [Visitors -> Reader]
      BY <2>1, <2>2, ReaderTypes DEF ReaderBecomes
    <2>5. QED
      BY <1>1, <2>3, <2>4 DEF Visit, chainVars, storeVars
  <1>2. ASSUME NEW r \in Visitors, AskHead(r) PROVE ScanTypeOK'
    <2>1. PICK h \in 0..head :
            /\ (h = head /\ ScanWorks) \/ (h \in (head - Lag)..(head - 1) /\ ScanFails)
            /\ \/ /\ h <= readers[r].readTo
                  /\ ReaderBecomes(r, [readers[r] EXCEPT !.at = "touching"])
               \/ /\ h > readers[r].readTo
                  /\ ReaderBecomes(r, [readers[r] EXCEPT !.at = "reading", !.upTo = h])
      BY <1>2 DEF AskHead
    <2>2. readers[r] \in Reader /\ readers[r].readTo \in {0} \cup Blocks
      BY DEF Reader
    <2>3. h > readers[r].readTo => h \in Blocks
      BY <2>2 DEF Blocks
    <2>4. failures' \in 0..MaxFailures
      BY <2>1, FailureCount
    <2>5. readers' \in [Visitors -> Reader]
      <3>1. CASE ReaderBecomes(r, [readers[r] EXCEPT !.at = "touching"])
        <4>1. [readers[r] EXCEPT !.at = "touching"] \in Reader
          BY <2>2, ReaderTypes
        <4>2. QED
          BY <3>1, <4>1 DEF ReaderBecomes
      <3>2. CASE h > readers[r].readTo /\ ReaderBecomes(r, [readers[r] EXCEPT !.at = "reading", !.upTo = h])
        <4>1. [readers[r] EXCEPT !.at = "reading", !.upTo = h] \in Reader
          BY <2>2, <2>3, <3>2, ReaderTypes
        <4>2. QED
          BY <3>2, <4>1 DEF ReaderBecomes
      <3>3. QED
        BY <2>1, <3>1, <3>2
    <2>6. QED
      BY <1>2, <2>4, <2>5 DEF AskHead, chainVars, storeVars
  <1>3. ASSUME NEW r \in Visitors, Touch(r) PROVE ScanTypeOK'
    <2>1. readers[r] \in Reader /\ readers[r].readTo \in {0} \cup Blocks
      BY DEF Reader
    <2>2. failures' \in 0..MaxFailures
      BY <1>3, FailureCount DEF Touch
    <2>3. readers' \in [Visitors -> Reader]
      BY <1>3, <2>1, ReaderTypes DEF Touch, ReaderBecomes
    <2>4. cursor' \in [readTo : {0} \cup Blocks, fresh : BOOLEAN]
      <3>1. CASE cursor' = [readTo |-> readers[r].readTo, fresh |-> TRUE]
        BY <2>1, <3>1
      <3>2. CASE UNCHANGED cursor
        BY <3>2
      <3>3. QED
        BY <1>3, <3>1, <3>2 DEF Touch
    <2>5. QED
      BY <1>3, <2>2, <2>3, <2>4 DEF Touch, chainVars
  <1>4. ASSUME NEW r \in Visitors, ReadOwnLogs(r) PROVE ScanTypeOK'
    <2>1. readers[r] \in Reader /\ Found(readers[r], "own") \in SUBSET Events
      BY DEF Found, InRange
    <2>2. QED
      BY <1>4, <2>1, ReaderTypes DEF ReadOwnLogs, ReaderBecomes, ScanWorks, chainVars, storeVars
  <1>5. ASSUME NEW r \in Visitors, ReadTransfers(r) PROVE ScanTypeOK'
    <2>1. /\ readers[r] \in Reader
          /\ readers[r].found \cup Found(readers[r], "transfer") \in SUBSET Events
      BY DEF Found, InRange, Reader
    <2>2. QED
      BY <1>5, <2>1, ReaderTypes DEF ReadTransfers, ReaderBecomes, ScanWorks, chainVars, storeVars
  <1>6. ASSUME NEW r \in Visitors, ReadTimes(r) PROVE ScanTypeOK'
    <2>1. PICK spoken \in SUBSET {e.block : e \in readers[r].found} :
            ReaderBecomes(r, [readers[r] EXCEPT !.at = "saving",
                                          !.stamped = {e \in readers[r].found : e.block \in spoken}])
      BY <1>6 DEF ReadTimes
    <2>2. /\ readers[r] \in Reader
          /\ {e \in readers[r].found : e.block \in spoken} \in SUBSET Events
      BY DEF Reader
    <2>3. QED
      BY <1>6, <2>1, <2>2, ReaderTypes DEF ReadTimes, ReaderBecomes, ScanWorks, chainVars, storeVars
  <1>7. ASSUME NEW r \in Visitors, Save(r) PROVE ScanTypeOK'
    <2>1. /\ readers[r].upTo \in {0} \cup Blocks
          /\ readers[r].found \subseteq Events
          /\ readers[r].stamped \subseteq readers[r].found
      BY DEF Reader, ReaderInv
    <2>2. QED
      BY <1>7, <2>1, ReaderTypes DEF Save, ReaderBecomes, DatedAfter, ScanWorks, chainVars
  <1>8. ASSUME NEW r \in Visitors, Answer(r) PROVE ScanTypeOK'
    BY <1>8, ReaderTypes DEF Answer, ReaderBecomes, ScanWorks, chainVars, storeVars
  <1>9. ASSUME NEW r \in Visitors, CallFails(r) PROVE ScanTypeOK'
    <2>1. readers[r].readTo \in {0} \cup Blocks
      BY DEF Reader
    <2>2. failures' \in 0..MaxFailures
      BY <1>9, FailureCount DEF CallFails
    <2>3. readers' \in [Visitors -> Reader]
      BY <1>9, <2>1, ReaderTypes DEF CallFails, AfterFailure, ReaderBecomes
    <2>4. QED
      BY <1>9, <2>2, <2>3 DEF CallFails, chainVars, storeVars
  <1>10. ASSUME NEW r \in Visitors, SaveFails(r) PROVE ScanTypeOK'
    <2>1. failures' \in 0..MaxFailures
      BY <1>10, FailureCount DEF SaveFails
    <2>2. QED
      BY <1>10, <2>1, ReaderTypes DEF SaveFails, ReaderBecomes, chainVars, storeVars
  <1>11. ASSUME NEW kinds \in SUBSET ScanKinds, Mine(kinds) PROVE ScanTypeOK'
    <2>1. head + 1 \in Blocks
      BY <1>11 DEF Mine, Blocks
    <2>2. {[block |-> head + 1, kind |-> k] : k \in kinds} \subseteq Events
      BY <2>1 DEF Events
    <2>3. QED
      BY <1>11, <2>1, <2>2 DEF Mine, storeVars
  <1>12. ASSUME GoStale PROVE ScanTypeOK'
    BY <1>12 DEF GoStale, chainVars
  <1>13. CASE UNCHANGED scanVars
    BY <1>13 DEF scanVars, chainVars, storeVars
  <1>14. QED
    BY <1>1, <1>2, <1>3, <1>4, <1>5, <1>6, <1>7, <1>8, <1>9, <1>10, <1>11, <1>12, <1>13
       DEF ScanNext, Continue

-----------------------------------------------------------------------------
(* The chain, the table and the cursor. *)

\* What a scan sets out to find is all it misses below the block it would save.
LEMMA FoundIsRest ==
    ASSUME ScanTypeOK, LogInv, NEW x \in Reader, ReaderInv(x), HasFound(x, ScanKinds)
    PROVE  \A e \in accountLog : e.block <= x.upTo => e \in rows \cup x.found
  <1> SUFFICES ASSUME NEW e \in accountLog, e.block <= x.upTo
               PROVE  e \in rows \cup x.found
    OBVIOUS
  <1>1. e.kind \in ScanKinds /\ e.block \in Nat /\ x.readTo \in Nat
    BY DEF ScanTypeOK, Events, Blocks, Reader
  <1>2. CASE e.block <= x.readTo
    BY <1>2 DEF ReaderInv, Recorded
  <1>3. CASE ~(e.block <= x.readTo)
    <2>1. e.block >= StartOf(x.readTo)
      BY <1>1, <1>3 DEF StartOf, LogInv
    <2>2. QED
      BY <1>1, <2>1 DEF HasFound
  <1>4. QED
    BY <1>2, <1>3

LEMMA LogStep == ScanTypeOK /\ LogInv /\ [ScanNext]_scanVars => LogInv'
  <1> SUFFICES ASSUME ScanTypeOK, LogInv, [ScanNext]_scanVars
               PROVE  LogInv'
    OBVIOUS
  <1>1. CASE UNCHANGED chainVars
    BY <1>1 DEF chainVars, LogInv
  <1>2. ASSUME NEW kinds \in SUBSET ScanKinds, Mine(kinds) PROVE LogInv'
    <2>1. head \in Nat /\ head' = head + 1 /\ head >= From
      BY <1>2 DEF ScanTypeOK, Blocks, Mine, LogInv
    <2>2. \A e \in accountLog : e.block \in Nat
      BY DEF ScanTypeOK, Events, Blocks
    <2>3. QED
      BY <1>2, <2>1, <2>2 DEF Mine, LogInv
  <1>3. QED
    BY <1>1, <1>2
       DEF ScanNext, Continue, scanVars, chainVars, Visit, AskHead, Touch, ReadOwnLogs, ReadTransfers, ReadTimes,
           Save, Answer, CallFails, SaveFails, GoStale

LEMMA RowsStep ==
    ScanTypeOK /\ LogInv /\ StoreInv /\ (\A r \in Visitors : ReaderInv(readers[r])) /\ [ScanNext]_scanVars
        => StoreInv' /\ rows \subseteq rows'
  <1> SUFFICES ASSUME ScanTypeOK, LogInv, StoreInv, \A r \in Visitors : ReaderInv(readers[r]),
                      [ScanNext]_scanVars
               PROVE  StoreInv' /\ rows \subseteq rows'
    OBVIOUS
  <1> USE DEF StoreInv
  <1>1. CASE UNCHANGED <<chainVars, storeVars>>
    BY <1>1 DEF chainVars, storeVars, Recorded
  <1>2. ASSUME NEW r \in Visitors, Touch(r) PROVE StoreInv' /\ rows \subseteq rows'
    BY <1>2 DEF Touch, chainVars, ReaderInv, Recorded
  <1>3. ASSUME NEW r \in Visitors, Save(r) PROVE StoreInv' /\ rows \subseteq rows'
    <2>1. readers[r] \in Reader /\ ReaderInv(readers[r]) /\ HasFound(readers[r], ScanKinds)
      BY <1>3 DEF ScanTypeOK, Save, ReaderInv
    <2>2. \A e \in accountLog : e.block <= readers[r].upTo => e \in rows \cup readers[r].found
      BY <2>1, FoundIsRest
    <2>3. QED
      BY <1>3, <2>1, <2>2 DEF Save, chainVars, ReaderInv, Recorded
  <1>4. ASSUME NEW kinds \in SUBSET ScanKinds, Mine(kinds) PROVE StoreInv' /\ rows \subseteq rows'
    <2>1. head \in Nat /\ cursor.readTo \in Nat /\ cursor' = cursor /\ rows' = rows
      BY <1>4 DEF ScanTypeOK, Blocks, Mine, storeVars
    <2>2. \A e \in accountLog' : e \in accountLog \/ e.block = head + 1
      BY <1>4 DEF Mine
    <2>3. QED
      BY <1>4, <2>1, <2>2 DEF Mine, Recorded
  <1>5. ASSUME GoStale PROVE StoreInv' /\ rows \subseteq rows'
    <2>1. cursor'.readTo = cursor.readTo
      BY <1>5 DEF GoStale, ScanTypeOK
    <2>2. QED
      BY <1>5, <2>1 DEF GoStale, chainVars, Recorded
  <1>6. QED
    BY <1>1, <1>2, <1>3, <1>4, <1>5
       DEF ScanNext, Continue, scanVars, chainVars, storeVars, Visit, AskHead, ReadOwnLogs, ReadTransfers, ReadTimes,
           Answer, CallFails, SaveFails

-----------------------------------------------------------------------------
(* The requests. *)

\* What a request knows stays true while the table and the chain only grow.
LEMMA KnownStays ==
    ASSUME ScanTypeOK, LogInv, [ScanNext]_scanVars, rows \subseteq rows'
    PROVE  \A x \in Reader : ReaderInv(x) => ReaderInv(x)'
  <1>1. CASE UNCHANGED chainVars
    BY <1>1 DEF chainVars, ReaderInv, Recorded, HasFound
  <1>2. ASSUME NEW kinds \in SUBSET ScanKinds, Mine(kinds), NEW x \in Reader, ReaderInv(x)
        PROVE  ReaderInv(x)'
    <2>1. head \in Nat /\ x.readTo \in Nat /\ x.upTo \in Nat /\ head' = head + 1
      BY <1>2 DEF ScanTypeOK, Blocks, Reader, Mine
    <2>2. accountLog \subseteq accountLog' /\ \A e \in accountLog' : e \in accountLog \/ e.block = head + 1
      BY <1>2 DEF Mine
    <2>3. x.readTo <= head /\ x.upTo <= head
      BY <1>2 DEF ReaderInv
    <2>4. Recorded(x.readTo)'
      BY <1>2, <2>1, <2>2, <2>3 DEF ReaderInv, Recorded
    <2>5. \A kinds_ \in SUBSET ScanKinds : HasFound(x, kinds_) => HasFound(x, kinds_)'
      BY <2>1, <2>2, <2>3 DEF HasFound
    <2>6. QED
      BY <1>2, <2>1, <2>2, <2>3, <2>4, <2>5 DEF ReaderInv, ScanKinds
  <1>3. QED
    BY <1>1, <1>2
       DEF ScanNext, Continue, scanVars, chainVars, Visit, AskHead, Touch, ReadOwnLogs, ReadTransfers, ReadTimes,
           Save, Answer, CallFails, SaveFails, GoStale

\* A query over the range of a scan returns all there is of its kind.
LEMMA FoundExactly ==
    ASSUME ScanTypeOK, NEW x \in Reader, NEW kind
    PROVE  /\ Found(x, kind) \subseteq accountLog
           /\ \A e \in accountLog : e.kind = kind /\ e.block >= StartOf(x.readTo) /\ e.block <= x.upTo
                                => e \in Found(x, kind)
  <1>1. x.upTo \in Nat /\ StartOf(x.readTo) \in Nat /\ \A e \in accountLog : e.block \in Nat
    BY DEF ScanTypeOK, Events, Blocks, Reader, StartOf
  <1>2. QED
    BY <1>1 DEF Found, InRange

\* Only one request moves at a time.
LEMMA OneMoves ==
    ASSUME ScanTypeOK, \A x \in Reader : ReaderInv(x) => ReaderInv(x)',
           \A q \in Visitors : ReaderInv(readers[q]),
           NEW r \in Visitors, \A q \in Visitors \ {r} : readers'[q] = readers[q],
           ReaderInv(readers[r])'
    PROVE  (\A q \in Visitors : ReaderInv(readers[q]))'
  <1> SUFFICES ASSUME NEW q \in Visitors, q # r
               PROVE  ReaderInv(readers[q])'
    OBVIOUS
  <1>1. readers[q] \in Reader /\ ReaderInv(readers[q]) /\ readers'[q] = readers[q]
    BY DEF ScanTypeOK
  <1>2. QED
    BY <1>1 DEF ReaderInv, Recorded, HasFound

LEMMA ReadersStep ==
    ASSUME ScanTypeOK, ScanTypeOK', LogInv, StoreInv, \A r \in Visitors : ReaderInv(readers[r]),
           [ScanNext]_scanVars, rows \subseteq rows', StoreInv'
    PROVE  (\A r \in Visitors : ReaderInv(readers[r]))'
  <1>1. \A x \in Reader : ReaderInv(x) => ReaderInv(x)'
    BY KnownStays
  <1> DEFINE Goal == (\A r \in Visitors : ReaderInv(readers[r]))'
  <1>2. ASSUME NEW r \in Visitors, NEW x, ReaderBecomes(r, x)
        PROVE  readers'[r] = x /\ \A q \in Visitors \ {r} : readers'[q] = readers[q]
    BY <1>2 DEF ScanTypeOK, ReaderBecomes
  <1>3. ASSUME NEW r \in Visitors, Visit(r) PROVE Goal
    <2>1. PICK seen \in {cursor, Never} :
            ReaderBecomes(r, IF seen.fresh THEN Answering(seen.readTo)
                       ELSE [Gone EXCEPT !.at = "asking", !.readTo = seen.readTo])
      BY <1>3 DEF Visit
    <2>2. seen.readTo <= head /\ Recorded(seen.readTo) /\ 0 <= head /\ seen.readTo \in {0} \cup Blocks
      BY DEF StoreInv, Never, ScanTypeOK, Blocks, Events, Recorded
    <2>3. head' = head /\ accountLog' = accountLog /\ rows' = rows
      BY <1>3 DEF Visit, chainVars, storeVars
    <2>4. ReaderInv(readers[r])'
      <3>1. CASE seen.fresh
        <4>1. readers'[r] = Answering(seen.readTo)
          BY <1>2, <2>1, <3>1
        <4>2. QED
          BY <2>2, <2>3, <4>1 DEF ReaderInv, Answering, Gone, Recorded
      <3>2. CASE ~seen.fresh
        <4>1. readers'[r] = [Gone EXCEPT !.at = "asking", !.readTo = seen.readTo]
          BY <1>2, <2>1, <3>2
        <4>2. QED
          BY <2>2, <2>3, <4>1 DEF ReaderInv, Gone, Recorded
      <3>3. QED
        BY <3>1, <3>2
    <2>5. QED
      BY <1>1, <1>2, <2>1, <2>4, OneMoves
  <1>4. ASSUME NEW r \in Visitors, AskHead(r) PROVE Goal
    <2>1. PICK h \in 0..head :
            \/ ReaderBecomes(r, [readers[r] EXCEPT !.at = "touching"])
            \/ ReaderBecomes(r, [readers[r] EXCEPT !.at = "reading", !.upTo = h])
      BY <1>4 DEF AskHead
    <2>2. head' = head /\ accountLog' = accountLog /\ rows' = rows /\ head \in Nat
      BY <1>4 DEF AskHead, chainVars, storeVars, ScanTypeOK, Blocks
    <2>3. readers[r] \in Reader /\ ReaderInv(readers[r]) /\ readers[r].at = "asking"
      BY <1>4 DEF ScanTypeOK, AskHead
    <2>4. ReaderInv(readers[r])'
      <3>1. CASE ReaderBecomes(r, [readers[r] EXCEPT !.at = "touching"])
        <4>1. readers'[r] = [readers[r] EXCEPT !.at = "touching"]
          BY <1>2, <3>1
        <4>2. QED
          BY <2>2, <2>3, <4>1 DEF ReaderInv, Recorded, Reader
      <3>2. CASE ReaderBecomes(r, [readers[r] EXCEPT !.at = "reading", !.upTo = h])
        <4>1. readers'[r] = [readers[r] EXCEPT !.at = "reading", !.upTo = h]
          BY <1>2, <3>2
        <4>2. QED
          BY <2>1, <2>2, <2>3, <4>1 DEF ReaderInv, Recorded, Reader
      <3>3. QED
        BY <2>1, <3>1, <3>2
    <2>5. QED
      BY <1>1, <1>2, <2>1, <2>4, OneMoves
  <1>5. ASSUME NEW r \in Visitors, ReadOwnLogs(r) PROVE Goal
    <2>1. /\ ReaderBecomes(r, [readers[r] EXCEPT !.at = "pairing", !.found = Found(readers[r], "own")])
          /\ head' = head /\ accountLog' = accountLog /\ rows' = rows
      BY <1>5 DEF ReadOwnLogs, chainVars, storeVars
    <2>2. readers[r] \in Reader /\ ReaderInv(readers[r])
      BY DEF ScanTypeOK
    <2>3. readers'[r] = [readers[r] EXCEPT !.at = "pairing", !.found = Found(readers[r], "own")]
      BY <1>2, <2>1
    <2>4. /\ Found(readers[r], "own") \subseteq accountLog /\ readers[r].stamped = {}
          /\ \A e \in accountLog : e.kind \in {"own"} /\ e.block >= StartOf(readers[r].readTo)
                               /\ e.block <= readers[r].upTo => e \in Found(readers[r], "own")
      BY <1>5, <2>2, FoundExactly DEF ReadOwnLogs, ReaderInv
    <2>5. ReaderInv(readers[r])'
      BY <2>1, <2>2, <2>3, <2>4 DEF ReaderInv, Recorded, Reader, HasFound
    <2>6. QED
      BY <1>1, <1>2, <2>1, <2>5, OneMoves
  <1>6. ASSUME NEW r \in Visitors, ReadTransfers(r) PROVE Goal
    <2> DEFINE found == readers[r].found \cup Found(readers[r], "transfer")
    <2>1. /\ ReaderBecomes(r, [readers[r] EXCEPT !.at = "dating", !.found = found])
          /\ head' = head /\ accountLog' = accountLog /\ rows' = rows
      BY <1>6 DEF ReadTransfers, chainVars, storeVars
    <2>2. readers[r] \in Reader /\ ReaderInv(readers[r])
      BY DEF ScanTypeOK
    <2>3. readers'[r] = [readers[r] EXCEPT !.at = "dating", !.found = found]
      BY <1>2, <2>1
    <2>4. /\ found \subseteq accountLog /\ readers[r].stamped = {}
          /\ \A e \in accountLog : e.kind \in ScanKinds /\ e.block >= StartOf(readers[r].readTo)
                               /\ e.block <= readers[r].upTo => e \in found
      BY <1>6, <2>2, FoundExactly DEF ReadTransfers, ReaderInv, HasFound, ScanKinds
    <2> HIDE DEF found
    <2>5. ReaderInv(readers[r])'
      BY <2>1, <2>2, <2>3, <2>4 DEF ReaderInv, Recorded, Reader, HasFound
    <2>6. QED
      BY <1>1, <1>2, <2>1, <2>5, OneMoves
  <1>7. ASSUME NEW r \in Visitors, ReadTimes(r) PROVE Goal
    <2>1. PICK spoken \in SUBSET {e.block : e \in readers[r].found} :
            ReaderBecomes(r, [readers[r] EXCEPT !.at = "saving",
                                          !.stamped = {e \in readers[r].found : e.block \in spoken}])
      BY <1>7 DEF ReadTimes
    <2> DEFINE stamped == {e \in readers[r].found : e.block \in spoken}
    <2>2. readers[r] \in Reader /\ ReaderInv(readers[r]) /\ readers[r].at = "dating"
      BY <1>7 DEF ScanTypeOK, ReadTimes
    <2>3. /\ readers'[r] = [readers[r] EXCEPT !.at = "saving", !.stamped = stamped]
          /\ head' = head /\ accountLog' = accountLog /\ rows' = rows
      BY <1>2, <1>7, <2>1 DEF ReadTimes, chainVars, storeVars
    <2>4. stamped \subseteq readers[r].found
      OBVIOUS
    <2> HIDE DEF stamped
    <2>5. ReaderInv(readers[r])'
      BY <2>2, <2>3, <2>4 DEF ReaderInv, Recorded, Reader, HasFound
    <2>6. QED
      BY <1>1, <1>2, <2>1, <2>5, OneMoves
  <1>8. ASSUME NEW r \in Visitors, NEW b \in {0} \cup Blocks, ReaderBecomes(r, Answering(b)),
               head' = head, accountLog' = accountLog,
               b <= head, \A e \in accountLog : e.block <= b => e \in rows'
        PROVE  Goal
    <2>1. readers'[r] = Answering(b)
      BY <1>2, <1>8
    <2>2. 0 <= head
      BY DEF ScanTypeOK, Blocks
    <2>3. ReaderInv(readers[r])'
      BY <1>8, <2>1, <2>2 DEF ReaderInv, Answering, Gone, Recorded
    <2>4. QED
      BY <1>1, <1>2, <1>8, <2>3, OneMoves
  <1>9. ASSUME NEW r \in Visitors, ReaderBecomes(r, Gone), head' = head, accountLog' = accountLog
        PROVE  Goal
    <2>1. readers'[r] = Gone
      BY <1>2, <1>9
    <2>2. 0 <= head /\ \A e \in accountLog : ~(e.block <= 0)
      BY DEF ScanTypeOK, Blocks, Events
    <2>3. ReaderInv(readers[r])'
      BY <1>9, <2>1, <2>2 DEF ReaderInv, Gone, Recorded
    <2>4. QED
      BY <1>1, <1>2, <1>9, <2>3, OneMoves
  <1>10. ASSUME NEW r \in Visitors, Touch(r) \/ CallFails(r) PROVE Goal
    <2>1. /\ readers[r].readTo \in {0} \cup Blocks
          /\ readers[r].readTo <= head /\ Recorded(readers[r].readTo)
      BY DEF ScanTypeOK, Reader, ReaderInv
    <2>2. ReaderBecomes(r, Answering(readers[r].readTo)) /\ head' = head /\ accountLog' = accountLog /\ rows' = rows
      BY <1>10 DEF Touch, CallFails, AfterFailure, chainVars, storeVars
    <2>3. QED
      BY <1>8, <2>1, <2>2 DEF Recorded
  <1>11. ASSUME NEW r \in Visitors, Save(r) PROVE Goal
    <2>1. readers[r] \in Reader /\ ReaderInv(readers[r]) /\ HasFound(readers[r], ScanKinds)
      BY <1>11 DEF ScanTypeOK, Save, ReaderInv
    <2>2. \A e \in accountLog : e.block <= readers[r].upTo => e \in rows'
      BY <1>11, <2>1, FoundIsRest DEF Save
    <2>3. /\ readers[r].upTo \in {0} \cup Blocks /\ readers[r].upTo <= head
          /\ ReaderBecomes(r, Answering(readers[r].upTo)) /\ head' = head /\ accountLog' = accountLog
      BY <1>11, <2>1 DEF Reader, ReaderInv, Save, chainVars
    <2>4. QED
      BY <1>8, <2>2, <2>3
  <1>12. ASSUME NEW r \in Visitors, Answer(r) \/ SaveFails(r) PROVE Goal
    BY <1>9, <1>12 DEF Answer, SaveFails, chainVars
  <1>13. ASSUME readers' = readers PROVE Goal
    <2> SUFFICES ASSUME NEW q \in Visitors
                 PROVE  ReaderInv(readers[q])'
      OBVIOUS
    <2>1. readers[q] \in Reader /\ ReaderInv(readers[q]) /\ readers'[q] = readers[q]
      BY <1>13 DEF ScanTypeOK
    <2>2. QED
      BY <1>1, <2>1 DEF ReaderInv, Recorded, HasFound
  <1>14. QED
    BY <1>3, <1>4, <1>5, <1>6, <1>7, <1>10, <1>11, <1>12, <1>13
       DEF ScanNext, Continue, Mine, GoStale, scanVars

-----------------------------------------------------------------------------
(* The theorems. *)

LEMMA ScanStarts == ScanInit => ScanInv
  <1> SUFFICES ASSUME ScanInit
               PROVE  ScanInv
    OBVIOUS
  <1> USE DEF ScanInit
  <1>1. ScanTypeOK
    <2>1. From \in Blocks /\ Never \in [readTo : {0} \cup Blocks, fresh : BOOLEAN]
      BY DEF Blocks, Never
    <2>2. readers \in [Visitors -> Reader]
      BY ReaderTypes
    <2>3. QED
      BY <2>1, <2>2 DEF ScanTypeOK
  <1>2. LogInv /\ StoreInv
    BY DEF LogInv, StoreInv, Never, Recorded
  <1>3. ASSUME NEW r \in Visitors PROVE ReaderInv(readers[r])
    BY DEF ReaderInv, Gone, Recorded
  <1>4. QED
    BY <1>1, <1>2, <1>3 DEF ScanInv

LEMMA ScanStep == ScanInv /\ [ScanNext]_scanVars => ScanInv'
  <1> SUFFICES ASSUME ScanInv, [ScanNext]_scanVars
               PROVE  ScanInv'
    OBVIOUS
  <1>1. ScanTypeOK'
    BY ScanTypeStep DEF ScanInv
  <1>2. LogInv'
    BY LogStep DEF ScanInv
  <1>3. StoreInv' /\ rows \subseteq rows'
    BY RowsStep DEF ScanInv
  <1>4. (\A r \in Visitors : ReaderInv(readers[r]))'
    BY <1>1, <1>3, ReadersStep DEF ScanInv
  <1>5. QED
    BY <1>1, <1>2, <1>3, <1>4 DEF ScanInv

LEMMA ScanInvariance == ScanSpec => []ScanInv
  BY ScanStarts, ScanStep, PTL DEF ScanSpec

\* Every variable keeps its type, and no row is dated that is not there.
THEOREM ScanTypeCorrect == ScanSpec => []ScanTypeOK
  <1>1. ScanInv => ScanTypeOK
    BY DEF ScanInv
  <1>2. QED
    BY ScanInvariance, <1>1, PTL

\* No event at or below the cursor is ever missing from the table, however many
\* requests race to move it (SaveActivity).
THEOREM NothingIsSkipped == ScanSpec => []NothingSkipped
  <1>1. ScanInv => NothingSkipped
    BY DEF ScanInv, StoreInv, NothingSkipped
  <1>2. QED
    BY ScanInvariance, <1>1, PTL

\* Every answer has everything up to the block it names (Result.ReadTo).
THEOREM AnswersHoldUp == ScanSpec => []AnswersAreComplete
  <1>1. ScanInv => AnswersAreComplete
    BY DEF ScanInv, ReaderInv, AnswersAreComplete
  <1>2. QED
    BY ScanInvariance, <1>1, PTL

\* No request changes a row, or the date of a row, that another has written.
THEOREM RowsStay == ScanSpec => RowsAreFinal
  <1>1. ASSUME ScanInv, [ScanNext]_scanVars
        PROVE  [rows \subseteq rows' /\ dated' \cap rows = dated]_scanVars
    <2>1. dated \subseteq rows
      BY <1>1 DEF ScanInv, ScanTypeOK
    <2>2. ASSUME NEW r \in Visitors, Save(r)
          PROVE  rows \subseteq rows' /\ dated' \cap rows = dated
      BY <2>1, <2>2 DEF Save, DatedAfter
    <2>3. ASSUME UNCHANGED <<rows, dated>>
          PROVE  rows \subseteq rows' /\ dated' \cap rows = dated
      BY <2>1, <2>3
    <2>4. QED
      BY <1>1, <2>2, <2>3
         DEF ScanNext, Continue, scanVars, storeVars, Visit, AskHead, Touch, ReadOwnLogs, ReadTransfers, ReadTimes,
             Answer, CallFails, SaveFails, Mine, GoStale
  <1>2. QED
    BY ScanInvariance, <1>1, PTL DEF ScanSpec, RowsAreFinal

-----------------------------------------------------------------------------
(* The record: what a visitor is told of the table, step by step.          *)

Answered == [r \in Visitors |-> IF readers[r].at = "answering" THEN readers[r].readTo ELSE -1]

LEMMA AnsweredOf == Record!record = <<head, accountLog, rows, dated, Answered>> /\ Record!Silent = -1
  BY DEF Record!record, Record!Silent, Answered

\* A step of one request that ends in an answer tells its visitor.
LEMMA AnsweringTells ==
    ASSUME ScanInv, ScanInv', NEW r \in Visitors, NEW b, ReaderBecomes(r, Answering(b)),
           readers[r].at # "answering", UNCHANGED chainVars,
           rows \subseteq rows', dated' \cap rows = dated
    PROVE  Record!RecordNext
  <1>1. readers' = [readers EXCEPT ![r] = Answering(b)] /\ readers \in [Visitors -> Reader]
    BY DEF ReaderBecomes, ScanInv, ScanTypeOK
  <1>2. Answering(b).at = "answering" /\ Answering(b).readTo = b
    BY DEF Answering, Gone
  <1>3. readers'[r].at = "answering" /\ readers'[r].readTo = b
    BY <1>1, <1>2
  <1>4. b \in {0} \cup Blocks /\ b <= head
    BY <1>1, <1>3 DEF ScanInv, ScanTypeOK, Reader, ReaderInv, chainVars
  <1>5. b \in 0..head
    BY <1>4 DEF ScanInv, ScanTypeOK, Blocks
  <1>6. \A e \in accountLog : e.block <= b => e \in rows'
    BY <1>3 DEF ScanInv, ReaderInv, Recorded, chainVars
  <1>7. rows' \subseteq accountLog /\ dated' \subseteq rows'
    BY DEF ScanInv, StoreInv, ScanTypeOK, chainVars
  <1>8. Answered[r] = -1 /\ Answered' = [Answered EXCEPT ![r] = b]
    BY <1>1, <1>2 DEF Answered
  <1>9. Record!Tell(r, b)
    BY <1>6, <1>7, <1>8 DEF Record!Tell, Record!Silent, Answered, chainVars
  <1>10. QED
    BY <1>5, <1>9 DEF Record!RecordNext

\* One that goes on, and neither began nor ended with an answer, tells nobody.
LEMMA OthersAreSilent ==
    ASSUME ScanInv, NEW r \in Visitors, NEW x, ReaderBecomes(r, x),
           readers[r].at # "answering", x.at # "answering",
           UNCHANGED <<head, accountLog, rows, dated>>
    PROVE  UNCHANGED Record!record
  <1>1. readers' = [readers EXCEPT ![r] = x] /\ readers \in [Visitors -> Reader]
    BY DEF ReaderBecomes, ScanInv, ScanTypeOK
  <1>2. Answered' = Answered
    BY <1>1 DEF Answered
  <1>3. QED
    BY <1>2, AnsweredOf DEF Answered, Record!record

\* A request's step is an answer, the end of one, or seen by nobody.
LEMMA RequestIsRecorded ==
    ASSUME ScanInv, ScanInv', NEW r \in Visitors,
           Visit(r) \/ Continue(r) \/ CallFails(r) \/ SaveFails(r)
    PROVE  [Record!RecordNext]_Record!record
  <1>1. dated \cap rows = dated /\ dated \subseteq rows
    BY DEF ScanInv, ScanTypeOK
  <1>2. CASE Visit(r)
    <2>1. PICK seen \in {cursor, Never} :
            ReaderBecomes(r, IF seen.fresh THEN Answering(seen.readTo)
                             ELSE [Gone EXCEPT !.at = "asking", !.readTo = seen.readTo])
      BY <1>2 DEF Visit
    <2>2. /\ UNCHANGED <<head, accountLog, rows, dated>> /\ UNCHANGED chainVars
          /\ readers[r].at # "answering"
      BY <1>2 DEF Visit, chainVars, storeVars
    <2>3. CASE seen.fresh
      BY <1>1, <2>1, <2>2, <2>3, AnsweringTells
    <2>4. CASE ~seen.fresh
      BY <2>1, <2>2, <2>4, OthersAreSilent DEF Gone
    <2>5. QED
      BY <2>3, <2>4
  <1>3. CASE AskHead(r)
    <2>1. /\ UNCHANGED <<head, accountLog, rows, dated>> /\ readers[r].at # "answering"
          /\ readers[r] \in Reader
      BY <1>3 DEF AskHead, chainVars, storeVars, ScanInv, ScanTypeOK
    <2>2. PICK x : ReaderBecomes(r, x) /\ x.at # "answering"
      <3>1. PICK h \in 0..head :
              \/ ReaderBecomes(r, [readers[r] EXCEPT !.at = "touching"])
              \/ ReaderBecomes(r, [readers[r] EXCEPT !.at = "reading", !.upTo = h])
        BY <1>3 DEF AskHead
      <3>2. /\ [readers[r] EXCEPT !.at = "touching"].at # "answering"
            /\ [readers[r] EXCEPT !.at = "reading", !.upTo = h].at # "answering"
        BY <2>1 DEF Reader
      <3>3. QED
        BY <3>1, <3>2
    <2>3. QED
      BY <2>1, <2>2, OthersAreSilent
  <1>4. CASE Touch(r)
    <2>1. UNCHANGED <<rows, dated>> /\ readers[r].at # "answering"
      BY <1>4 DEF Touch
    <2>2. QED
      BY <1>1, <1>4, <2>1, AnsweringTells DEF Touch, chainVars
  <1>5. CASE ReadOwnLogs(r) \/ ReadTransfers(r) \/ ReadTimes(r)
    <2>1. /\ UNCHANGED <<head, accountLog, rows, dated>> /\ readers[r].at # "answering"
          /\ readers[r] \in Reader
      BY <1>5 DEF ReadOwnLogs, ReadTransfers, ReadTimes, chainVars, storeVars, ScanInv, ScanTypeOK
    <2>2. PICK x : ReaderBecomes(r, x) /\ x.at # "answering"
      <3>1. \A f : /\ [readers[r] EXCEPT !.at = "pairing", !.found = f].at # "answering"
                   /\ [readers[r] EXCEPT !.at = "dating", !.found = f].at # "answering"
                   /\ [readers[r] EXCEPT !.at = "saving", !.stamped = f].at # "answering"
        BY <2>1 DEF Reader
      <3>2. CASE ReadOwnLogs(r)
        BY <3>1, <3>2 DEF ReadOwnLogs
      <3>3. CASE ReadTransfers(r)
        BY <3>1, <3>3 DEF ReadTransfers
      <3>4. CASE ReadTimes(r)
        BY <3>1, <3>4 DEF ReadTimes
      <3>5. QED
        BY <1>5, <3>2, <3>3, <3>4
    <2>3. QED
      BY <2>1, <2>2, OthersAreSilent
  <1>6. CASE Save(r)
    <2>1. rows \subseteq rows' /\ dated' \cap rows = dated /\ readers[r].at # "answering"
      BY <1>1, <1>6 DEF Save, DatedAfter
    <2>2. QED
      BY <1>6, <2>1, AnsweringTells DEF Save, chainVars
  <1>7. CASE CallFails(r)
    <2>1. UNCHANGED <<rows, dated>> /\ UNCHANGED chainVars /\ readers[r].at # "answering"
      BY <1>7 DEF CallFails, storeVars, chainVars
    <2>2. QED
      BY <1>1, <1>7, <2>1, AnsweringTells DEF CallFails, AfterFailure
  <1>8. CASE SaveFails(r)
    <2>1. UNCHANGED <<head, accountLog, rows, dated>> /\ readers[r].at # "answering"
      BY <1>8 DEF SaveFails, chainVars, storeVars
    <2>2. QED
      BY <1>8, <2>1, OthersAreSilent DEF SaveFails, Gone
  <1>9. CASE Answer(r)
    <2>1. /\ readers' = [readers EXCEPT ![r] = Gone] /\ readers \in [Visitors -> Reader]
          /\ readers[r].at = "answering" /\ UNCHANGED <<head, accountLog, rows, dated>>
      BY <1>9 DEF Answer, ReaderBecomes, ScanInv, ScanTypeOK, chainVars, storeVars
    <2>2. Answered' = [Answered EXCEPT ![r] = -1]
      BY <2>1 DEF Answered, Gone
    <2>3. Answered[r] # -1
      BY <2>1 DEF Answered, Reader, Blocks
    <2>4. Record!Part(r)
      BY <2>1, <2>2, <2>3 DEF Record!Part, Record!Silent, Answered
    <2>5. QED
      BY <2>4 DEF Record!RecordNext
  <1>10. QED
    BY <1>2, <1>3, <1>4, <1>5, <1>6, <1>7, <1>8, <1>9 DEF Continue

\* However many requests race, lag and fail, what the outside sees is a record that is
\* written once and complete up to the block an answer is said to reach (Service.For,
\* SaveActivity).
THEOREM RecordIsKept == ScanSpec => KeepsRecord
  <1>1. ScanInit => Record!RecordInit
    BY DEF ScanInit, Record!RecordInit, Record!Silent, Gone
  <1>2. ASSUME ScanInv, ScanInv', [ScanNext]_scanVars
        PROVE  [Record!RecordNext]_Record!record
    <2>1. ASSUME NEW kinds \in SUBSET ScanKinds \ {{}}, Mine(kinds)
          PROVE  Record!Grow
      <3>1. \A e \in accountLog' \ accountLog : e.block = head'
        BY <2>1 DEF Mine
      <3>2. QED
        BY <2>1, <3>1 DEF Mine, Record!Grow, storeVars
    <2>2. CASE GoStale
      BY <2>2, AnsweredOf DEF GoStale, Record!record, chainVars
    <2>3. CASE UNCHANGED scanVars
      BY <2>3 DEF scanVars, Record!record
    <2>4. QED
      BY <1>2, <2>1, <2>2, <2>3, RequestIsRecorded DEF ScanNext, Record!RecordNext
  <1>3. QED
    BY <1>1, <1>2, ScanInvariance, PTL DEF ScanSpec, KeepsRecord, Record!RecordSpec
=============================================================================
