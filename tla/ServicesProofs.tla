--------------------------- MODULE ServicesProofs ---------------------------
(***************************************************************************)
(* The services together.  A behaviour of MCServices is one of them        *)
(* running, so what is proved of each by itself holds of the whole.        *)
(***************************************************************************)
EXTENDS BackendProofs, CardProofs, MCServices

BackendScenes == {"index", "cache", "limit", "session", "chats", "ask", "turn", "prices"}
CardScenes == {"put", "way", "swap", "history", "provide", "bot"}

LEMMA ScenesStay ==
    /\ Init => scene \in BackendScenes \cup CardScenes
    /\ [Next]_vars => UNCHANGED scene
  BY DEF Init, Next, vars, BackendScenes, CardScenes

LEMMA BackendTypes == Spec => [](scene \in BackendScenes => TypeOK)
  <1>1. Spec => [](scene = "index" => TypeOK)
    <2>1. Init => IndexInit
      BY DEF Init
    <2>2. scene = "index" /\ [Next]_vars => [IndexNext]_indexVars /\ (scene = "index")'
      BY DEF Next, vars
    <2>3. ~(scene = "index") /\ [Next]_vars => ~(scene = "index")'
      BY ScenesStay
    <2>4. scene = "index" /\ IndexTypeOK => TypeOK
      BY DEF TypeOK
    <2>5. QED
      BY <2>1, <2>2, <2>3, <2>4, IndexTypeCorrect, PTL DEF Spec, IndexSpec
  <1>2. Spec => [](scene = "cache" => TypeOK)
    <2>1. Init => CacheInit
      BY DEF Init
    <2>2. scene = "cache" /\ [Next]_vars => [CacheNext]_cacheVars /\ (scene = "cache")'
      BY DEF Next, vars
    <2>3. ~(scene = "cache") /\ [Next]_vars => ~(scene = "cache")'
      BY ScenesStay
    <2>4. scene = "cache" /\ CacheTypeOK => TypeOK
      BY DEF TypeOK
    <2>5. QED
      BY <2>1, <2>2, <2>3, <2>4, CacheTypeCorrect, PTL DEF Spec, CacheSpec
  <1>3. Spec => [](scene = "limit" => TypeOK)
    <2>1. Init => LimitInit
      BY DEF Init
    <2>2. scene = "limit" /\ [Next]_vars => [LimitNext]_limitVars /\ (scene = "limit")'
      BY DEF Next, vars
    <2>3. ~(scene = "limit") /\ [Next]_vars => ~(scene = "limit")'
      BY ScenesStay
    <2>4. scene = "limit" /\ LimitTypeOK => TypeOK
      BY DEF TypeOK
    <2>5. QED
      BY <2>1, <2>2, <2>3, <2>4, LimitTypeCorrect, PTL DEF Spec, LimitSpec
  <1>4. Spec => [](scene = "session" => TypeOK)
    <2>1. Init => SessionInit
      BY DEF Init
    <2>2. scene = "session" /\ [Next]_vars => [SessionNext]_sessionVars /\ (scene = "session")'
      BY DEF Next, vars
    <2>3. ~(scene = "session") /\ [Next]_vars => ~(scene = "session")'
      BY ScenesStay
    <2>4. scene = "session" /\ SessionTypeOK => TypeOK
      BY DEF TypeOK
    <2>5. QED
      BY <2>1, <2>2, <2>3, <2>4, SessionTypeCorrect, PTL DEF Spec, SessionSpec
  <1>5. Spec => [](scene = "chats" => TypeOK)
    <2>1. Init => ChatsInit
      BY DEF Init
    <2>2. scene = "chats" /\ [Next]_vars => [ChatsNext]_chatsVars /\ (scene = "chats")'
      BY DEF Next, vars
    <2>3. ~(scene = "chats") /\ [Next]_vars => ~(scene = "chats")'
      BY ScenesStay
    <2>4. scene = "chats" /\ ChatsTypeOK => TypeOK
      BY DEF TypeOK
    <2>5. QED
      BY <2>1, <2>2, <2>3, <2>4, ChatsTypeCorrect, PTL DEF Spec, ChatsSpec
  <1>6. Spec => [](scene = "ask" => TypeOK)
    <2>1. Init => AskInit
      BY DEF Init
    <2>2. scene = "ask" /\ [Next]_vars => [AskNext]_askVars /\ (scene = "ask")'
      BY DEF Next, vars
    <2>3. ~(scene = "ask") /\ [Next]_vars => ~(scene = "ask")'
      BY ScenesStay
    <2>4. scene = "ask" /\ AskTypeOK => TypeOK
      BY DEF TypeOK
    <2>5. QED
      BY <2>1, <2>2, <2>3, <2>4, AskTypeCorrect, PTL DEF Spec, AskSpec
  <1>7. Spec => [](scene = "turn" => TypeOK)
    <2>1. Init => TurnInit
      BY DEF Init
    <2>2. scene = "turn" /\ [Next]_vars => [TurnNext]_turnVars /\ (scene = "turn")'
      BY DEF Next, vars
    <2>3. ~(scene = "turn") /\ [Next]_vars => ~(scene = "turn")'
      BY ScenesStay
    <2>4. scene = "turn" /\ TurnTypeOK => TypeOK
      BY DEF TypeOK
    <2>5. QED
      BY <2>1, <2>2, <2>3, <2>4, TurnTypeCorrect, PTL DEF Spec, TurnSpec
  <1>8. Spec => [](scene = "prices" => TypeOK)
    <2>1. Init => PriceInit
      BY DEF Init
    <2>2. scene = "prices" /\ [Next]_vars => [PriceNext]_priceVars /\ (scene = "prices")'
      BY DEF Next, vars
    <2>3. ~(scene = "prices") /\ [Next]_vars => ~(scene = "prices")'
      BY ScenesStay
    <2>4. scene = "prices" /\ PriceTypeOK => TypeOK
      BY DEF TypeOK
    <2>5. QED
      BY <2>1, <2>2, <2>3, <2>4, PriceTypeCorrect, PTL DEF Spec, PriceSpec
  <1>9. scene \in BackendScenes => scene = "index" \/ scene = "cache" \/ scene = "limit" \/ scene = "session"
         \/ scene = "chats" \/ scene = "ask" \/ scene = "turn" \/ scene = "prices"
    BY DEF BackendScenes
  <1>10. QED
    BY <1>1, <1>2, <1>3, <1>4, <1>5, <1>6, <1>7, <1>8, <1>9, PTL

LEMMA CardTypes == Spec => [](scene \in CardScenes => TypeOK)
  <1>1. Spec => [](scene = "put" => TypeOK)
    <2>1. Init => PutInit
      BY DEF Init
    <2>2. scene = "put" /\ [Next]_vars => [PutNext]_putVars /\ (scene = "put")'
      BY DEF Next, vars
    <2>3. ~(scene = "put") /\ [Next]_vars => ~(scene = "put")'
      BY ScenesStay
    <2>4. scene = "put" /\ PutTypeOK => TypeOK
      BY DEF TypeOK
    <2>5. QED
      BY <2>1, <2>2, <2>3, <2>4, PutTypeCorrect, PTL DEF Spec, PutSpec
  <1>2. Spec => [](scene = "way" => TypeOK)
    <2>1. Init => WayInit
      BY DEF Init
    <2>2. scene = "way" /\ [Next]_vars => [WayNext]_wayVars /\ (scene = "way")'
      BY DEF Next, vars
    <2>3. ~(scene = "way") /\ [Next]_vars => ~(scene = "way")'
      BY ScenesStay
    <2>4. scene = "way" /\ WayTypeOK => TypeOK
      BY DEF TypeOK
    <2>5. QED
      BY <2>1, <2>2, <2>3, <2>4, WayTypeCorrect, PTL DEF Spec, WaySpec
  <1>3. Spec => [](scene = "swap" => TypeOK)
    <2>1. Init => SwapInit
      BY DEF Init
    <2>2. scene = "swap" /\ [Next]_vars => [SwapNext]_swapVars /\ (scene = "swap")'
      BY DEF Next, vars
    <2>3. ~(scene = "swap") /\ [Next]_vars => ~(scene = "swap")'
      BY ScenesStay
    <2>4. scene = "swap" /\ SwapTypeOK => TypeOK
      BY DEF TypeOK
    <2>5. QED
      BY <2>1, <2>2, <2>3, <2>4, SwapTypeCorrect, PTL DEF Spec, SwapSpec
  <1>4. Spec => [](scene = "history" => TypeOK)
    <2>1. Init => HistoryInit
      BY DEF Init
    <2>2. scene = "history" /\ [Next]_vars => [HistoryNext]_historyVars /\ (scene = "history")'
      BY DEF Next, vars
    <2>3. ~(scene = "history") /\ [Next]_vars => ~(scene = "history")'
      BY ScenesStay
    <2>4. scene = "history" /\ HistoryTypeOK => TypeOK
      BY DEF TypeOK
    <2>5. QED
      BY <2>1, <2>2, <2>3, <2>4, HistoryTypeCorrect, PTL DEF Spec, HistorySpec
  <1>5. Spec => [](scene = "provide" => TypeOK)
    <2>1. Init => ProvideInit
      BY DEF Init
    <2>2. scene = "provide" /\ [Next]_vars => [ProvideNext]_provideVars /\ (scene = "provide")'
      BY DEF Next, vars
    <2>3. ~(scene = "provide") /\ [Next]_vars => ~(scene = "provide")'
      BY ScenesStay
    <2>4. scene = "provide" /\ ProvideTypeOK => TypeOK
      BY DEF TypeOK
    <2>5. QED
      BY <2>1, <2>2, <2>3, <2>4, ProvideTypeCorrect, PTL DEF Spec, ProvideSpec
  <1>6. Spec => [](scene = "bot" => TypeOK)
    <2>1. Init => BotInit
      BY DEF Init
    <2>2. scene = "bot" /\ [Next]_vars => [BotNext]_botVars /\ (scene = "bot")'
      BY DEF Next, vars
    <2>3. ~(scene = "bot") /\ [Next]_vars => ~(scene = "bot")'
      BY ScenesStay
    <2>4. scene = "bot" /\ BotTypeOK => TypeOK
      BY DEF TypeOK
    <2>5. QED
      BY <2>1, <2>2, <2>3, <2>4, BotTypeCorrect, PTL DEF Spec, BotSpec
  <1>7. scene \in CardScenes => scene = "put" \/ scene = "way" \/ scene = "swap" \/ scene = "history"
         \/ scene = "provide" \/ scene = "bot"
    BY DEF CardScenes
  <1>8. QED
    BY <1>1, <1>2, <1>3, <1>4, <1>5, <1>6, <1>7, PTL

\* Whichever service runs, its state has its types: the behaviours the small instances
\* are checked on, for every value of the services' constants.
THEOREM ServicesTypeCorrect == Spec => []TypeOK
  <1> DEFINE SceneKnown == scene \in BackendScenes \cup CardScenes
  <1>1. SceneKnown /\ [Next]_vars => SceneKnown'
    BY ScenesStay
  <1>2. SceneKnown => scene \in BackendScenes \/ scene \in CardScenes
    OBVIOUS
  <1>3. QED
    BY <1>1, <1>2, ScenesStay, BackendTypes, CardTypes, PTL DEF Spec
=============================================================================
