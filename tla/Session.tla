------------------------------- MODULE Session -------------------------------
(***************************************************************************)
(* Signing in: the nonces of the server, the cookie jar of one browser and *)
(* one page of it.  The server verifies a signature and then spends its    *)
(* nonce, other requests between the two; the page asks once per wallet    *)
(* whose cookie it holds, and believes whatever answer it hears last.      *)
(* A challenge, its flow in the page and its nonce share a number.         *)
(***************************************************************************)
EXTENDS Integers, Sequences, FiniteSets

CONSTANTS
    Wallets, Nobody,
    NonceTtl, MaxSkew,
    MaxNonces,      \* bound: challenges
    MaxPosts,      \* bound: deliveries of signed bodies
    MaxConnects,    \* bound: times a wallet is connected
    MaxMinutes      \* bound: the clock

ASSUME SessionAssumption ==
    /\ Nobody \notin Wallets /\ NonceTtl \in Nat /\ MaxSkew \in Nat
    /\ MaxNonces \in Nat /\ MaxPosts \in Nat /\ MaxConnects \in Nat /\ MaxMinutes \in Nat

VARIABLES
    minute,
    nonces,     \* Nonces.seen: nonce -> expiry
    flows,      \* the page's sign-ins: wallet, issuedAt, and how far each is
    posts,      \* deliveries: of which flow, how far, and the time its handler read
    cookie,     \* whose session cookie the browser holds
    page,       \* address, state and signedInAs
    whoamis,    \* the page's questions: the answer, and whether it still counts
    bought,     \* nonce -> sessions minted for it (ghost)
    foreign,    \* another page moved the cookie since this one asked (ghost)
    switched    \* the wallet was changed while a sign-in was in flight (ghost)

sessionVars ==
    <<minute, nonces, flows, posts, cookie, page, whoamis, bought, foreign, switched>>

Nonces == 1..Len(flows)
Underway(n) == flows[n].stage \in {"signing", "posted", "stored"}
Reaches(n, stage) == flows' = [flows EXCEPT ![n].stage = stage]
Knows(state, who) == page' = [page EXCEPT !.state = state, !.signedInAs = who]

-----------------------------------------------------------------------------
(* The server. *)

\* Nonces.Issue and Spend both drop what has expired by the time they were given.
Unexpired(now) == {n \in DOMAIN nonces : now =< nonces[n]}

\* The nonce is not spent by a signature that is too old.
Verify(i) ==
    /\ posts[i].stage = "arrived"
    /\ LET fresh == minute - flows[posts[i].n].issuedAt =< MaxSkew IN
         posts' = [posts EXCEPT ![i].stage = IF fresh THEN "verified" ELSE "refused",
                                ![i].at = IF fresh THEN minute ELSE 0]
    /\ UNCHANGED <<minute, nonces, flows, cookie, page, whoamis, bought, foreign, switched>>

LookedUp(live, n) == live  \* mutant: found, and left where it is
Spent(live, n) == live \ {n}

\* With the time its handler read before verifying.
Spend(i) ==
    /\ posts[i].stage = "verified"
    /\ LET n == posts[i].n
           live == Unexpired(posts[i].at)
           ok == n \in live
       IN /\ nonces' = [k \in IF ok THEN Spent(live, n) ELSE live |-> nonces[k]]
          /\ posts' = [posts EXCEPT ![i].stage = IF ok THEN "minted" ELSE "refused",
                                    ![i].at = IF ok THEN @ ELSE 0]
          /\ bought' = IF ok THEN [bought EXCEPT ![n] = @ + 1] ELSE bought
    /\ UNCHANGED <<minute, flows, cookie, page, whoamis, foreign, switched>>

-----------------------------------------------------------------------------
(* The page. *)

\* useHelicoSession's `ready`, which lets the page show and write conversations.
Ready == page.state = "signed-in" /\ page.signedInAs = page.address /\ page.address # Nobody

\* The effect on the address: questions asked before no longer count, and a new one leaves with
\* the cookie of this moment.
Connect(w) ==
    /\ Len(whoamis) < MaxConnects /\ w # page.address
    /\ page' = [address |-> w, state |-> "unknown", signedInAs |-> page.signedInAs]
    /\ whoamis' = Append([i \in DOMAIN whoamis |-> [whoamis[i] EXCEPT !.live = FALSE]],
                         [answer |-> cookie, live |-> TRUE, done |-> FALSE])
    /\ foreign' = FALSE
    /\ switched' = (\E n \in Nonces : Underway(n))
    /\ UNCHANGED <<minute, nonces, flows, posts, cookie, bought>>

Disconnect ==
    /\ page.address # Nobody
    /\ page' = [address |-> Nobody, state |-> "signed-out", signedInAs |-> Nobody]
    /\ whoamis' = [i \in DOMAIN whoamis |-> [whoamis[i] EXCEPT !.live = FALSE]]
    /\ UNCHANGED <<minute, nonces, flows, posts, cookie, bought, foreign, switched>>

AnyAnswer(i) == TRUE  \* mutant: the cleanup does not disown the question
Counts(i) == whoamis[i].live

WhoamiAnswers(i) ==
    /\ ~whoamis[i].done
    /\ whoamis' = [whoamis EXCEPT ![i] = [answer |-> Nobody, live |-> FALSE, done |-> TRUE]]
    /\ IF Counts(i)
       THEN Knows(IF whoamis[i].answer = Nobody THEN "signed-out" ELSE "signed-in", whoamis[i].answer)
       ELSE UNCHANGED page
    /\ UNCHANGED <<minute, nonces, flows, posts, cookie, bought, foreign, switched>>

\* signIn, up to the challenge: offered by the gate to whoever is not ready, before whoami has
\* answered too when it is slow.
SignIn ==
    /\ page.address # Nobody /\ ~Ready /\ page.state # "signing" /\ Len(flows) < MaxNonces
    /\ Knows("signing", page.signedInAs)
    /\ flows' = Append(flows, [wallet |-> page.address, issuedAt |-> minute, stage |-> "signing"])
    /\ LET n == Len(flows) + 1 IN
         nonces' = [k \in Unexpired(minute) \cup {n} |-> IF k = n THEN minute + NonceTtl ELSE nonces[k]]
    /\ bought' = Append(bought, 0)
    /\ UNCHANGED <<minute, posts, cookie, whoamis, foreign, switched>>

\* The wallet signs and the body is posted, after which it may arrive more than once.
Post(n) ==
    /\ Len(posts) < MaxPosts
    /\ IF flows[n].stage = "signing" THEN Reaches(n, "posted")
       ELSE (\E i \in DOMAIN posts : posts[i].n = n) /\ UNCHANGED flows
    /\ posts' = Append(posts, [n |-> n, stage |-> "arrived", at |-> 0])
    /\ UNCHANGED <<minute, nonces, cookie, page, whoamis, bought, foreign, switched>>

\* A success sets the cookie before the page's code hears of it.
CookieStored(i) ==
    /\ posts[i].stage = "minted" /\ flows[posts[i].n].stage = "posted"
    /\ cookie' = flows[posts[i].n].wallet
    /\ Reaches(posts[i].n, "stored")
    /\ UNCHANGED <<minute, nonces, posts, page, whoamis, bought, foreign, switched>>

Resume(n) ==
    /\ flows[n].stage = "stored"
    /\ Knows("signed-in", flows[n].wallet)
    /\ Reaches(n, "over")
    /\ UNCHANGED <<minute, nonces, posts, cookie, whoamis, bought, foreign, switched>>

\* The person declines, the server refuses, or the answer is lost.
SignInFails(n) ==
    /\ flows[n].stage \in {"signing", "posted"}
    /\ Knows("signed-out", page.signedInAs)
    /\ Reaches(n, "over")
    /\ UNCHANGED <<minute, nonces, posts, cookie, whoamis, bought, foreign, switched>>

\* The page forgets the session whether or not the server took the cookie back.
SignOut ==
    /\ page.state = "signed-in"
    /\ cookie' \in {cookie, Nobody}
    /\ Knows("signed-out", Nobody)
    /\ UNCHANGED <<minute, nonces, flows, posts, whoamis, bought, foreign, switched>>

\* Somebody signs in on another page of the browser.
AnotherPage ==
    /\ cookie' \in Wallets \ {cookie}
    /\ ~foreign /\ foreign' = TRUE    \* bound: once between two questions
    /\ UNCHANGED <<minute, nonces, flows, posts, page, whoamis, bought, switched>>

SessionTicks ==
    /\ minute < MaxMinutes /\ minute' = minute + 1
    /\ UNCHANGED <<nonces, flows, posts, cookie, page, whoamis, bought, foreign, switched>>

SessionInit ==
    /\ minute = 0 /\ nonces = [n \in {} |-> 0] /\ flows = <<>> /\ posts = <<>>
    /\ cookie \in Wallets \cup {Nobody}
    /\ page = [address |-> Nobody, state |-> "signed-out", signedInAs |-> Nobody]
    /\ whoamis = <<>> /\ bought = <<>> /\ foreign = FALSE /\ switched = FALSE

SessionNext ==
    \/ \E i \in DOMAIN posts : Verify(i) \/ Spend(i) \/ CookieStored(i)
    \/ \E w \in Wallets : Connect(w)
    \/ \E i \in DOMAIN whoamis : WhoamiAnswers(i)
    \/ \E n \in Nonces : Post(n) \/ Resume(n) \/ SignInFails(n)
    \/ Disconnect \/ SignIn \/ SignOut \/ AnotherPage \/ SessionTicks

SessionSpec == SessionInit /\ [][SessionNext]_sessionVars

-----------------------------------------------------------------------------

SessionTypeOK ==
    /\ minute \in 0..MaxMinutes
    /\ DOMAIN nonces \subseteq Nonces
    /\ \A n \in Nonces : flows[n].wallet \in Wallets
    /\ \A i \in DOMAIN posts : posts[i].n \in Nonces
    /\ cookie \in Wallets \cup {Nobody}
    /\ page \in [address : Wallets \cup {Nobody}, signedInAs : Wallets \cup {Nobody},
                 state : {"unknown", "signed-out", "signing", "signed-in"}]

\* However often a signed body is delivered, and whatever is verified while it is: a nonce is
\* good for one session, minted by a handler that read the clock before the nonce had expired.
NonceBuysOneSession ==
    /\ \A n \in Nonces : bought[n] =< 1
    /\ \A i \in DOMAIN posts :
          posts[i].stage = "minted" => posts[i].at =< flows[posts[i].n].issuedAt + NonceTtl

\* A page that is ready does not hold another wallet's cookie ("worse than none: it would show
\* someone else's conversations"), except after one of two things: another page of the browser
\* moved the cookie, or the wallet was changed while a sign-in was in flight, whose cookie the
\* answer of an older whoami then hides.
ReadyMeansOwnCookie == Ready => cookie \in {page.address, Nobody} \/ foreign \/ switched
=============================================================================
