------------------------------ MODULE SwapTurn ------------------------------
(***************************************************************************)
(* One message of the chat on its way to an answer.  The app's route waits *)
(* with a patience of its own; the backend has a budget for the route,     *)
(* derived from its settings, and cuts the handler short when it is spent. *)
(* The handler asks the models it has keys for, one after the other until  *)
(* one answers; what the model made of the sentence is a draft, which is   *)
(* checked before any of it is shown; a question about the position reads  *)
(* the index besides.                                                      *)
(*                                                                         *)
(* The models are outside and draft anything; of a figure only its decimal *)
(* places count.                                                           *)
(***************************************************************************)
EXTENDS Integers, Sequences, FiniteSets, SequencesExt, FiniteSetsExt

CONSTANTS
    Slots,          \* the settings' models, in order: [model, key]
    Drafts,         \* what a model may answer
    Delays,         \* how long a call may take
    LlmTimeout, IndexTimeout, RequestTimeout, Slack,
    Patience        \* of the app's route

ASSUME SwapTurnAssumption ==
    /\ Slots \subseteq Seq([model : STRING, key : BOOLEAN])
    /\ Delays \subseteq Nat
    /\ {LlmTimeout, IndexTimeout, RequestTimeout, Slack, Patience} \subseteq Nat \ {0}

NoText == ""
NotANumber == -1
Unsaid == -2
Registry == [s \in {"ETH", "WETH", "USDC"} |-> IF s = "USDC" THEN 6 ELSE 18]
PlainActions == {"status", "revoke", "about", "withdraw", "deposit", "provide"}

VARIABLES
    slots, indexOn, \* the settings
    pick,           \* the model the composer asks for first
    message,        \* "fine", or "unfit": empty, or longer than a sentence
    standing, spent,
    tried,          \* the models asked so far, in order, as their places in the settings
    garbled,        \* the last of them answered, and not with the object asked for
    outcome

turnVars == <<slots, indexOn, pick, message, standing, spent, tried, garbled, outcome>>

NoIntent == [in |-> NoText, out |-> NoText, amount |-> Unsaid, dollars |-> Unsaid,
             eth |-> Unsaid, ethDollars |-> Unsaid]
NoAnswer == [action |-> "none", intent |-> NoIntent, needs |-> {}, steps |-> <<>>, by |-> 0]

-----------------------------------------------------------------------------
(* The settings. *)

Keyed == {i \in DOMAIN slots : slots[i].key}

OneAttempt == 1  \* mutant: a budget for one model, whatever falls back on another
Attempts == Max({1, Cardinality(Keyed)})

\* The index's time is an alternative to the models', not beside it.
SwapBudget == Slack + Max({LlmTimeout * Attempts, RequestTimeout} \cup
                      (IF indexOn THEN {IndexTimeout} ELSE {}))

Picked == {i \in Keyed : slots[i].model = pick}

\* prefer: the picked model first and the others behind it; a name that is not there changes
\* nothing.
NextUp ==
    IF tried = <<>> /\ Picked # {} THEN Min(Picked) ELSE Min(Keyed \ ToSet(tried))

-----------------------------------------------------------------------------
(* What becomes of a draft. *)

\* A figure is left unsaid, is not a positive number, or has so many decimal places.
Fits(figure, places) == figure \in 0..places

Passed(call) == [call |-> call, ok |-> TRUE]
Refused(call) == [call |-> call, ok |-> FALSE]

Missing(d) ==
    (IF d.in = NoText THEN {"tokenIn"} ELSE {}) \cup (IF d.out = NoText THEN {"tokenOut"} ELSE {})
    \cup (IF d.amount = Unsaid /\ d.usd = Unsaid THEN {"amount"} ELSE {})
Registered(symbol) == symbol \in DOMAIN Registry
InDollars(d) == d.usd # Unsaid /\ d.amount = Unsaid

\* The checks, in their order, each with what it names when it refuses.
Check(call, passes, names) == [call |-> call, passes |-> passes, names |-> names]
Checks(d) ==
    << Check("LookupChain", d.chain # "elsewhere", {"tokenIn", "tokenOut"}),
       Check("build", Missing(d) = {}, Missing(d)),
       Check("Chain.Token", Registered(d.in), {"tokenIn", "tokenOut"}),
       Check("Chain.Token", Registered(d.out), {"tokenIn", "tokenOut"}),
       Check("build", d.in # d.out, {"tokenOut"}),
       IF InDollars(d)
       THEN Check(IF Fits(d.usd, 2) THEN "dollars" ELSE "baseUnits", Fits(d.usd, 2), {"amount"})
       ELSE Check("baseUnits", Registered(d.in) /\ Fits(d.amount, Registry[d.in]), {"amount"}) >>

Built(d) == \A k \in 1..6 : Checks(d)[k].passes

\* build: the checks up to the first that refuses.
Reached(d, k) == \A j \in 1..(k - 1) : Checks(d)[j].passes
Refusal(d) == CHOOSE k \in 1..6 : Reached(d, k) /\ ~Checks(d)[k].passes

\* Two of the checks pass in silence.
Steps(d, k) ==
    LET c == Checks(d)[k] IN
    IF ~Reached(d, k) \/ (c.call = "build" /\ c.passes) THEN <<>>
    ELSE IF c.passes THEN <<Passed(c.call)>> ELSE <<Refused(c.call)>>
StepsOf(d) ==
    Steps(d, 1) \o Steps(d, 2) \o Steps(d, 3) \o Steps(d, 4) \o Steps(d, 5) \o Steps(d, 6)
Intent(d) ==
    [NoIntent EXCEPT !.in = d.in, !.out = d.out, !.amount = d.amount,
                     !.dollars = IF InDollars(d) THEN d.usd ELSE Unsaid]

\* Anything the model invents is a swap, and a swap of nothing is a question about the chat.
ActionOf(d) ==
    LET said == IF d.action \in PlainActions \cup {"earn"} THEN d.action ELSE "swap" IN
    IF said = "swap" /\ d.in = NoText /\ d.out = NoText /\ d.amount = Unsaid THEN "about" ELSE said

ReadAs(d, by) == [NoAnswer EXCEPT !.action = ActionOf(d), !.by = by, !.steps = <<Passed("Client.ask")>>]

\* The swap half of a sentence.
Trade(d, by) ==
    LET read == [ReadAs(d, by) EXCEPT !.steps = @ \o StepsOf(d)] IN
    IF Built(d) THEN [read EXCEPT !.intent = Intent(d)]
    ELSE [read EXCEPT !.needs = Checks(d)[Refusal(d)].names]

\* Ether that works as itself, beside the swap.
Beside(d) == d.eth # Unsaid \/ d.ethUsd # Unsaid
BesideFits(d) == IF d.eth # Unsaid THEN Fits(d.eth, 18) ELSE Fits(d.ethUsd, 2)

Earn(d, by) ==
    LET swapped == Trade(d, by)
        withEther == [Intent(d) EXCEPT !.eth = d.eth,
                                       !.ethDollars = IF d.eth = Unsaid THEN d.ethUsd ELSE Unsaid]
        refuse(call, names) == [swapped EXCEPT !.intent = NoIntent, !.needs = names,
                                               !.steps = Append(@, Refused(call))]
    IN CASE d.in = NoText -> ReadAs(d, by)
         [] d.in # NoText /\ d.out = NoText -> [ReadAs(d, by) EXCEPT !.needs = {"tokenOut"}]
         [] d.in # NoText /\ d.out # NoText /\ ~Built(d) -> swapped
         [] Built(d) /\ d.out = "USDC" /\ ~Beside(d) -> swapped
         [] Built(d) /\ d.out = "USDC" /\ Beside(d) /\ BesideFits(d) ->
                [swapped EXCEPT !.steps = Append(@, Passed("eth")), !.intent = withEther]
         [] Built(d) /\ d.out = "USDC" /\ Beside(d) /\ ~BesideFits(d) -> refuse("baseUnits", {"amount"})
         [] Built(d) /\ d.out = "WETH" /\ d.in = "ETH" -> swapped
         [] OTHER -> refuse("Fund.tokenOut", {"tokenOut"})

\* Interpret.
Interpret(d, by) ==
    CASE ActionOf(d) = "swap" -> Trade(d, by)
      [] ActionOf(d) = "earn" -> Earn(d, by)
      [] OTHER -> ReadAs(d, by)

-----------------------------------------------------------------------------
(* The turn. *)

\* Whoever loses patience first, the app or the backend, ends it.
Ends == Min({SwapBudget, Patience})
InTime(delay) == spent + delay < Ends

\* No key, too many messages, or one that is no sentence, which is told what a message is told
\* when no model answers; the models are not asked.
TurnedAway ==
    /\ standing = "sent"
    /\ standing' \in (IF Keyed = {} THEN {"off"}
                   ELSE {"limited"} \cup (IF message = "unfit" THEN {"unreached"} ELSE {}))
    /\ UNCHANGED <<slots, indexOn, pick, message, spent, tried, garbled, outcome>>

TakenIn ==
    /\ standing = "sent" /\ Keyed # {} /\ message = "fine"
    /\ standing' = "asking"
    /\ UNCHANGED <<slots, indexOn, pick, message, spent, tried, garbled, outcome>>

AskNextModel(delay) ==
    /\ standing = "asking" /\ InTime(delay)
    /\ spent' = spent + delay
    /\ tried' = Append(tried, NextUp)

ModelDrafts == \E delay \in Delays, d \in Drafts :
    /\ delay < LlmTimeout /\ AskNextModel(delay)
    /\ outcome' = Interpret(d, Last(tried'))
    /\ standing' = IF outcome'.action = "status" /\ indexOn THEN "indexing" ELSE "answered"
    /\ UNCHANGED <<slots, indexOn, pick, message, garbled>>

\* An answer that is not the object asked for ends the asking as the last model's failing does.
ModelBabbles == \E delay \in Delays :
    /\ delay < LlmTimeout /\ AskNextModel(delay)
    /\ standing' = "unreached" /\ garbled' = TRUE
    /\ UNCHANGED <<slots, indexOn, pick, message, outcome>>

ModelIsDown == \E delay \in Delays :
    /\ delay =< LlmTimeout /\ AskNextModel(delay)
    /\ standing' = IF ToSet(tried') = Keyed THEN "unreached" ELSE "asking"
    /\ UNCHANGED <<slots, indexOn, pick, message, garbled, outcome>>

\* readTheIndex: the steps of the reads, and what the model concluded when there was anything.
IndexRead == \E delay \in Delays, concluded \in BOOLEAN :
    /\ standing = "indexing" /\ delay =< IndexTimeout /\ InTime(delay)
    /\ spent' = spent + delay /\ standing' = "answered"
    /\ outcome' = [outcome EXCEPT !.steps = @ \o
                     IF concluded THEN <<Passed("mcp"), Passed("index.answer")>> ELSE <<Refused("mcp")>>]
    /\ UNCHANGED <<slots, indexOn, pick, message, tried, garbled>>

\* The call under way lasts longer than the budget or the app's patience.
RunsOut == \E delay \in Delays :
    /\ \/ standing = "asking" /\ delay =< LlmTimeout
       \/ standing = "indexing" /\ delay =< IndexTimeout
    /\ ~InTime(delay)
    /\ spent' = Ends
    /\ standing' = IF Patience < SwapBudget THEN "abandoned" ELSE "cut"
    /\ UNCHANGED <<slots, indexOn, pick, message, tried, garbled, outcome>>

TurnInit ==
    /\ slots \in Slots /\ indexOn \in BOOLEAN
    /\ pick \in {"none"} \cup UNION {{s[i].model : i \in DOMAIN s} : s \in Slots}
    /\ message \in {"fine", "unfit"}
    /\ standing = "sent" /\ spent = 0 /\ tried = <<>> /\ garbled = FALSE /\ outcome = NoAnswer

TurnNext ==
    TurnedAway \/ TakenIn \/ ModelDrafts \/ ModelBabbles \/ ModelIsDown \/ IndexRead \/ RunsOut

TurnSpec == TurnInit /\ [][TurnNext]_turnVars

TurnTypeOK ==
    /\ standing \in {"sent", "off", "limited", "asking", "indexing", "answered", "unreached",
                 "cut", "abandoned"}
    /\ spent \in 0..Ends
    /\ tried \in Seq(Keyed)
    /\ outcome.needs \subseteq {"tokenIn", "tokenOut", "amount"}

\* The models fit the budget, each with the whole of its time: a turn the backend cuts short was
\* reading the index, its answer already there.
ModelsFitTheBudget ==
    /\ standing = "cut" => outcome # NoAnswer
    /\ standing = "asking" => spent + LlmTimeout < SwapBudget

\* Models are asked each at most once, the picked one first and the others in their order; the one
\* an answer names is the one that gave it; and a sentence is told that no model could be reached
\* only when each was asked and failed, or the last asked gave something nobody could read.
FallbackIsComplete ==
    /\ \A j, k \in DOMAIN tried : j # k => tried[j] # tried[k]
    /\ \A j, k \in 2..Len(tried) : j < k => tried[j] < tried[k]
    /\ tried # <<>> /\ Picked # {} => tried[1] \in Picked
    /\ standing = "unreached" /\ message = "fine" => garbled \/ ToSet(tried) = Keyed
    /\ garbled \/ message # "fine" => standing # "asking" /\ outcome = NoAnswer
    /\ outcome # NoAnswer => tried # <<>> /\ outcome.by = Last(tried)

\* What is shown to be signed names two different tokens of the registry and one figure of either
\* unit, which is a number its token can hold, and likewise the ether beside it; it comes with
\* nothing asked for and no check refused, and a refusal is the last thing that was looked at.
CheckedAnswer(a) ==
    LET i == a.intent
        refusals == {k \in DOMAIN a.steps : ~a.steps[k].ok}
    IN /\ i # NoIntent =>
            /\ a.needs = {} /\ refusals = {}
            /\ Registered(i.in) /\ Registered(i.out) /\ i.in # i.out
            /\ (i.amount = Unsaid) # (i.dollars = Unsaid)
            /\ i.amount # Unsaid => Fits(i.amount, Registry[i.in])
            /\ i.dollars # Unsaid => Fits(i.dollars, 2)
            /\ a.action = "earn" => i.out \in {"USDC", "WETH"}
            /\ i.eth # Unsaid => Fits(i.eth, 18)
            /\ {i.eth, i.ethDollars} # {Unsaid} => a.action = "earn" /\ i.out = "USDC"
            /\ i.ethDollars # Unsaid => i.eth = Unsaid /\ Fits(i.ethDollars, 2)
       /\ refusals \subseteq {Len(a.steps)}
       /\ a.action = "swap" => (i = NoIntent) = (a.needs # {})
AnswersAreChecked == CheckedAnswer(outcome)

\* A message is answered by a model that had its time, and with nothing that was not looked at.
TurnsAreChecked == ModelsFitTheBudget /\ FallbackIsComplete /\ AnswersAreChecked
=============================================================================
