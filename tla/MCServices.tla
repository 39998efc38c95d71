----------------------------- MODULE MCServices -----------------------------
(* Small instances of the services around the contracts.  They share no     *)
(* state, so a behaviour is one of them running, chosen at the start.       *)
EXTENDS AquaIndex, GraphCache, RateLimit, Session, Chats, AskIndex, PutToWork, PriceSearch,
        WayOut, SwapCard, ValueHistory, Provide, SwapTurn, Bot, TLC

CONSTANTS strategy, arb, usdc, one, other, third, aave, newer

\* The two wallets, addresses, requests, questions, clients or cards of a service.
Alike == Permutations({one, other})

\* The feed without a gap, and with one.
MCHistories == {<<2, 4, 6, 8>>, <<2, 0, 6>>}

\* Aave lists both assets, a market deployed later the dollar.
MCReceipts == {<<aave, usdc>>, <<aave, arb>>, <<newer, usdc>>}

\* Two positions, the better of which can pay either amount; and after it was spent elsewhere.
Offer(rate, ledger, held) == [rate |-> rate, ledger |-> ledger, held |-> held, approved |-> ledger]
MCBooks == {<<Offer(3, 9, 9), Offer(2, 4, 4)>>, <<Offer(3, 9, 3), Offer(2, 4, 0)>>}

\* What a model may make of a sentence: every action, tokens that are known or not, alike or
\* left out, figures that are said, unsaid, no number or too fine, and ether beside a swap.
Said(action, in, out, amount, usd) ==
    [action |-> action, chain |-> "arbitrum", in |-> in, out |-> out, amount |-> amount,
     usd |-> usd, eth |-> Unsaid, ethUsd |-> Unsaid]
MCSymbols == {"", "ETH", "WETH", "USDC", "PEPE"}
MCFigures == {Unsaid, NotANumber, 2, 8}
MCDrafts ==
    {Said(a, "", "", Unsaid, Unsaid) : a \in PlainActions \cup {"earn", "bridge"}}
    \cup {Said(a, i, o, 2, Unsaid) : a \in {"swap", "earn"}, i \in MCSymbols, o \in MCSymbols}
    \cup {Said("swap", i, "WETH", f, g) :
             i \in {"", "ETH", "USDC"}, f \in MCFigures, g \in MCFigures}
    \cup {[Said("swap", "ETH", "USDC", 2, Unsaid) EXCEPT !.chain = c] : c \in {"", "elsewhere"}}
    \cup {[Said("earn", "ETH", o, Unsaid, 2) EXCEPT !.eth = f, !.ethUsd = g] :
             o \in {"USDC", "WETH"}, f \in MCFigures, g \in MCFigures}
\* No settings at all, and two models with and without their keys.
MCSlots == {<<>>} \cup
    {<<[model |-> "fast", key |-> a], [model |-> "slow", key |-> b]>> : a, b \in BOOLEAN}

VARIABLE scene

vars == <<scene, indexVars, cacheVars, limitVars, sessionVars, chatsVars, askVars, putVars,
          priceVars, wayVars, swapVars, historyVars, provideVars, turnVars, botVars>>

Init ==
    /\ scene \in {"index", "cache", "limit", "session", "chats", "ask", "put", "prices", "way", "swap", "history", "provide", "turn", "bot"}
    /\ IndexInit /\ CacheInit /\ LimitInit /\ ChatsInit /\ HistoryInit /\ BotInit
    \* A service that does not run starts in one way.
    /\ SessionInit /\ (scene # "session" => cookie = Nobody)
    /\ AskInit /\ (scene # "ask" => owner)
    /\ PutInit /\ (scene # "put" => ask = "plain")
    /\ PriceInit /\ (scene # "prices" => feed = <<CHOOSE h \in Histories : TRUE>>)
    /\ WayInit /\ (scene # "way" => loose = [a \in Assets |-> 1] /\ allowed = Markets)
    /\ SwapInit /\ (scene # "swap" => sentence = [dollars |-> TRUE, ether |-> TRUE])
    /\ sentence.dollars => units = 1
    /\ book = <<Offer(3, 9, 9), Offer(2, 4, 4)>>
    /\ ProvideInit /\ (scene # "provide" => origin = "wallet")
    /\ TurnInit
    /\ IF scene = "turn" THEN slots # <<>>
       ELSE slots = <<>> /\ ~indexOn /\ pick = "none" /\ message = "fine"

Next ==
    /\ UNCHANGED scene
    /\ \/ scene = "index" /\ IndexNext
          /\ UNCHANGED <<cacheVars, limitVars, sessionVars, chatsVars, askVars,
                         putVars, priceVars, wayVars, swapVars, historyVars,
                         provideVars, turnVars, botVars>>
       \/ scene = "cache" /\ CacheNext
          /\ UNCHANGED <<indexVars, limitVars, sessionVars, chatsVars, askVars,
                         putVars, priceVars, wayVars, swapVars, historyVars,
                         provideVars, turnVars, botVars>>
       \/ scene = "limit" /\ LimitNext
          /\ UNCHANGED <<indexVars, cacheVars, sessionVars, chatsVars, askVars,
                         putVars, priceVars, wayVars, swapVars, historyVars,
                         provideVars, turnVars, botVars>>
       \/ scene = "session" /\ SessionNext
          /\ UNCHANGED <<indexVars, cacheVars, limitVars, chatsVars, askVars,
                         putVars, priceVars, wayVars, swapVars, historyVars,
                         provideVars, turnVars, botVars>>
       \/ scene = "chats" /\ ChatsNext
          /\ UNCHANGED <<indexVars, cacheVars, limitVars, sessionVars, askVars,
                         putVars, priceVars, wayVars, swapVars, historyVars,
                         provideVars, turnVars, botVars>>
       \/ scene = "ask" /\ AskNext
          /\ UNCHANGED <<indexVars, cacheVars, limitVars, sessionVars, chatsVars,
                         putVars, priceVars, wayVars, swapVars, historyVars,
                         provideVars, turnVars, botVars>>
       \/ scene = "put" /\ PutNext
          /\ UNCHANGED <<indexVars, cacheVars, limitVars, sessionVars, chatsVars,
                         askVars, priceVars, wayVars, swapVars, historyVars,
                         provideVars, turnVars, botVars>>
       \/ scene = "prices" /\ PriceNext
          /\ UNCHANGED <<indexVars, cacheVars, limitVars, sessionVars, chatsVars,
                         askVars, putVars, wayVars, swapVars, historyVars,
                         provideVars, turnVars, botVars>>
       \/ scene = "way" /\ WayNext
          /\ UNCHANGED <<indexVars, cacheVars, limitVars, sessionVars, chatsVars,
                         askVars, putVars, priceVars, swapVars, historyVars,
                         provideVars, turnVars, botVars>>
       \/ scene = "swap" /\ SwapNext
          /\ UNCHANGED <<indexVars, cacheVars, limitVars, sessionVars, chatsVars,
                         askVars, putVars, priceVars, wayVars, historyVars,
                         provideVars, turnVars, botVars>>
       \/ scene = "history" /\ HistoryNext
          /\ UNCHANGED <<indexVars, cacheVars, limitVars, sessionVars, chatsVars,
                         askVars, putVars, priceVars, wayVars, swapVars,
                         provideVars, turnVars, botVars>>
       \/ scene = "provide" /\ ProvideNext
          /\ UNCHANGED <<indexVars, cacheVars, limitVars, sessionVars, chatsVars,
                         askVars, putVars, priceVars, wayVars, swapVars,
                         historyVars, turnVars, botVars>>
       \/ scene = "turn" /\ TurnNext
          /\ UNCHANGED <<indexVars, cacheVars, limitVars, sessionVars, chatsVars,
                         askVars, putVars, priceVars, wayVars, swapVars,
                         historyVars, provideVars, botVars>>
       \/ scene = "bot" /\ BotNext
          /\ UNCHANGED <<indexVars, cacheVars, limitVars, sessionVars, chatsVars,
                         askVars, putVars, priceVars, wayVars, swapVars,
                         historyVars, provideVars, turnVars>>

Spec == Init /\ [][Next]_vars

\* Of the service that runs; the others stay as they began.
TypeOK ==
    CASE scene = "index" -> IndexTypeOK
      [] scene = "cache" -> CacheTypeOK
      [] scene = "limit" -> LimitTypeOK
      [] scene = "session" -> SessionTypeOK
      [] scene = "chats" -> ChatsTypeOK
      [] scene = "ask" -> AskTypeOK
      [] scene = "put" -> PutTypeOK
      [] scene = "prices" -> PriceTypeOK
      [] scene = "way" -> WayTypeOK
      [] scene = "swap" -> SwapTypeOK
      [] scene = "history" -> HistoryTypeOK
      [] scene = "provide" -> ProvideTypeOK
      [] scene = "turn" -> TurnTypeOK
      [] scene = "bot" -> BotTypeOK
=============================================================================
