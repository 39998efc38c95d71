----------------------------- MODULE GraphCache -----------------------------
(***************************************************************************)
(* The cache in front of the subgraph.  A request looks in the map under   *)
(* the lock, asks upstream without it, and files the answer under the lock *)
(* again; requests for the same body that miss together all go upstream.   *)
(* An answer is modelled by the moment the subgraph computed it.           *)
(***************************************************************************)
EXTENDS Integers, FiniteSets

CONSTANTS
    Requests, Questions,
    CacheTtl,           \* how long an answer is served
    UpstreamTimeout,    \* http.Client's
    CacheEntries,       \* maxEntries
    MaxCacheTime        \* bound: the clock

ASSUME CacheAssumption ==
    /\ CacheTtl \in Nat /\ UpstreamTimeout \in Nat /\ CacheEntries \in Nat \ {0}
    /\ MaxCacheTime \in Nat

VARIABLES
    clock,
    cached,     \* question -> the answer, and when it was filed
    asking,     \* request -> what it asks upstream, since when, and the answer once computed
    told        \* question -> the answer just served, and the newest ever served (ghost)

cacheVars == <<clock, cached, asking, told>>

Unanswered == -1
Resting == [q |-> "none", since |-> 0, answer |-> Unanswered]

Serve(q, answer) ==
    told' = [told EXCEPT ![q] =
                [last |-> answer, newest |-> IF answer > @.newest THEN answer ELSE @.newest]]

Fresh(q) == q \in DOMAIN cached /\ clock - cached[q].at < CacheTtl

Hit(r, q) ==
    /\ asking[r] = Resting /\ Fresh(q)
    /\ Serve(q, cached[q].answer)
    /\ UNCHANGED <<clock, cached, asking>>

Miss(r, q) ==
    /\ asking[r] = Resting /\ ~Fresh(q)
    /\ asking' = [asking EXCEPT ![r] = [q |-> q, since |-> clock, answer |-> Unanswered]]
    /\ UNCHANGED <<clock, cached, told>>

UpstreamComputes(r) ==
    /\ asking[r] # Resting /\ asking[r].answer = Unanswered
    /\ asking' = [asking EXCEPT ![r].answer = clock]
    /\ UNCHANGED <<clock, cached, told>>

NobodyLeaves == {DOMAIN cached}  \* mutant: put does not make room
\* What put leaves of the others before it files its own: everything while there is room; what
\* is still fresh otherwise, less as many of those as it takes.
Survivors ==
    LET live == {q \in DOMAIN cached : Fresh(q)} IN
    IF Cardinality(DOMAIN cached) < CacheEntries THEN {DOMAIN cached}
    ELSE IF Cardinality(live) < CacheEntries THEN {live}
    ELSE {kept \in SUBSET live : Cardinality(kept) = CacheEntries - 1}

Arrives(r) ==
    /\ asking[r].answer # Unanswered
    /\ LET q == asking[r].q
           filed == [answer |-> asking[r].answer, at |-> clock]
       IN /\ \E kept \in Survivors :
               cached' = [k \in kept \cup {q} |-> IF k = q THEN filed ELSE cached[k]]
          /\ Serve(q, asking[r].answer)
    /\ asking' = [asking EXCEPT ![r] = Resting]
    /\ UNCHANGED clock

\* No answer, a status other than 200, or the index's own errors, which are passed on unfiled.
Fails(r) ==
    /\ asking[r] # Resting
    /\ asking' = [asking EXCEPT ![r] = Resting]
    /\ UNCHANGED <<clock, cached, told>>

NeverOut(r) == FALSE  \* mutant: a client without a timeout
OutOfTime(r) == asking[r] # Resting /\ clock - asking[r].since >= UpstreamTimeout

CacheTicks ==
    /\ clock < MaxCacheTime /\ \A r \in Requests : ~OutOfTime(r)
    /\ clock' = clock + 1
    /\ UNCHANGED <<cached, asking, told>>

CacheInit ==
    /\ clock = 0 /\ cached = [q \in {} |-> 0]
    /\ asking = [r \in Requests |-> Resting]
    /\ told = [q \in Questions |-> [last |-> 0, newest |-> 0]]

CacheNext ==
    \/ \E r \in Requests : UpstreamComputes(r) \/ Arrives(r) \/ Fails(r)
    \/ \E r \in Requests, q \in Questions : Hit(r, q) \/ Miss(r, q)
    \/ CacheTicks

CacheSpec == CacheInit /\ [][CacheNext]_cacheVars

CacheTypeOK ==
    /\ clock \in 0..MaxCacheTime
    /\ Cardinality(DOMAIN cached) =< CacheEntries
    /\ \A q \in DOMAIN cached : q \in Questions /\ cached[q] \in [answer : 0..clock, at : 0..clock]
    /\ \A r \in Requests : asking[r].q \in Questions \cup {"none"}
    /\ told \in [Questions -> [last : 0..clock, newest : 0..clock]]

\* However requests overlap and answers overtake one another: an answer kept for the next reader
\* was computed at most a timeout before it was filed, and no reader is sent back in time, past
\* what a reader was told before, by more than one upstream timeout.
ReadersGoBackLittle ==
    /\ \A q \in DOMAIN cached : cached[q].at - cached[q].answer =< UpstreamTimeout
    /\ \A q \in Questions : told[q].newest - told[q].last =< UpstreamTimeout
=============================================================================
