----------------------------- MODULE PriceSearch -----------------------------
(***************************************************************************)
(* The price of ether at sample times, from the rounds of a feed: for each *)
(* sample the last round at or before it, found by a search all samples of *)
(* a request share, level by level, over a cache all requests share.  The  *)
(* endpoint is a pool: an answer may be from a node a few rounds behind,   *)
(* which has no data for the newest ones.                                  *)
(*                                                                         *)
(* A round is its time, 0 for a round without data.  Interpolation, on the *)
(* even levels, may land on any round between the bounds.                  *)
(***************************************************************************)
EXTENDS Integers, Sequences, FiniteSets, FiniteSetsExt

CONSTANTS
    Readers,
    Windows,        \* the sets of samples a request may ask for
    MaxLevel,       \* the level the search gives up after
    MaxLag,         \* rounds a node may be behind
    Histories,      \* the phases the process may find the feed in, as the times of their rounds
    MaxRounds,      \* bound: rounds of a phase
    MaxPhases       \* bound: phases of the feed

ASSUME PriceAssumption ==
    /\ Windows \subseteq SUBSET Nat /\ MaxLevel \in Nat /\ MaxLag \in Nat
    /\ MaxRounds \in Nat \ {0} /\ MaxPhases \in Nat \ {0}
    \* A phase's rounds are written one after the other.
    /\ Histories \subseteq Seq(Nat)
    /\ \A h \in Histories :
          /\ Len(h) \in 1..MaxRounds /\ h[1] # 0 /\ h[Len(h)] # 0
          /\ \A a, b \in DOMAIN h : a < b /\ h[a] # 0 /\ h[b] # 0 => h[a] < h[b]
    \* A probe takes at least one off what is between the bounds, and half at every other level:
    \* the levels are enough for a phase (64 of them are for 2^32 rounds).
    /\ \E width \in [0..(MaxLevel + 1) -> 0..MaxRounds] :
          /\ width[0] = MaxRounds - 1 /\ width[MaxLevel + 1] =< 1
          /\ \A l \in 0..MaxLevel : IF l % 2 = 0 THEN width[l] - 1 =< width[l + 1]
                                    ELSE width[l] =< 2 * width[l + 1]

VARIABLES
    feed,           \* the times of each phase's rounds
    rounds,         \* Service.rounds: <<phase, round>> -> its time
    hours,          \* Service.hours: sample -> <<phase, round>>
    searches        \* reader -> its search

priceVars == <<feed, rounds, hours, searches>>

NoSearch ==
    [stage |-> "none", phase |-> 0, top |-> 0, samples |-> {}, open |-> [t \in {} |-> 0],
     level |-> 0, emptied |-> FALSE]

-----------------------------------------------------------------------------
(* The feed. *)

At(k) == feed[k[1]][k[2]]
Written == {k \in (1..MaxPhases) \X (1..MaxRounds) :
               k[1] =< Len(feed) /\ k[2] =< Len(feed[k[1]]) /\ At(k) # 0}
Newest == CHOOSE k \in Written : \A j \in Written : At(j) =< At(k)
Behind(k) == Quantify(Written, LAMBDA j : At(j) > At(k))

\* A round may be passed over, and is then never written.
Publish(skips) ==
    LET more == IF skips THEN <<0, At(Newest) + 2>> ELSE <<At(Newest) + 2>> IN
    /\ Len(feed[Len(feed)]) + Len(more) =< MaxRounds
    /\ feed' = [feed EXCEPT ![Len(feed)] = @ \o more]
    /\ UNCHANGED <<rounds, hours, searches>>

NewPhase ==
    /\ Len(feed) < MaxPhases
    /\ feed' = Append(feed, <<At(Newest) + 2>>)
    /\ UNCHANGED <<rounds, hours, searches>>

\* What a node may answer for a round.
Answers(k) ==
    IF k \notin Written THEN {0}
    ELSE IF Behind(k) < MaxLag THEN {0, At(k)} ELSE {At(k)}

-----------------------------------------------------------------------------
(* A request. *)

Becomes(r, s) == searches' = [searches EXCEPT ![r] = s]
With(cache, ks, answer) ==
    [k \in DOMAIN cache \cup ks |-> IF k \in ks THEN answer[k] ELSE cache[k]]

\* latest: the samples are those up to the latest round.
Latest(r, window) ==
    /\ searches[r].stage \notin {"first", "asking", "asked"}
    /\ \E k \in Written :
         /\ Behind(k) =< MaxLag
         /\ rounds' = With(rounds, {k}, [j \in {k} |-> At(k)])
         /\ Becomes(r, [NoSearch EXCEPT !.stage = "first", !.phase = k[1], !.top = k[2],
                                        !.samples = {t \in window : t =< At(k)}])
    /\ UNCHANGED <<feed, hours>>

\* round: from the cache, or the chain.
FetchFirst(r) ==
    LET k == <<searches[r].phase, 1>> IN
    /\ searches[r].stage = "first" /\ k \notin DOMAIN rounds
    /\ \E time \in Answers(k) : rounds' = With(rounds, {k}, [j \in {k} |-> time])
    /\ UNCHANGED <<feed, hours, searches>>

BeforeOnly(p, t) == {k \in DOMAIN rounds : k[1] = p /\ rounds[k] # 0 /\ rounds[k] < t}  \* mutant: not at the sample
AtOrBefore(p, t) == {k \in DOMAIN rounds : k[1] = p /\ rounds[k] # 0 /\ rounds[k] =< t}
After(p, t) == {k \in DOMAIN rounds : k[1] = p /\ rounds[k] > t}

\* boundsLocked: tightened by every round of the phase known to have data.
Bounds(p, t, b) ==
    [lo |-> Max({b.lo} \cup {k[2] : k \in AtOrBefore(p, t)}),
     hi |-> Min({b.hi} \cup {k[2] : k \in After(p, t)})]
Apart(b) == b.hi - b.lo > 1

\* Samples outside the phase's rounds are filed at once; the others start from what is cached.
Open(r) ==
    LET s == searches[r]
        first == rounds[<<s.phase, 1>>]
        left == s.samples \ DOMAIN hours
        latest == {t \in left : t >= feed[s.phase][s.top]}
        early == {t \in left \ latest : t < first}
        inside == left \ (latest \cup early)
    IN /\ s.stage = "first" /\ <<s.phase, 1>> \in DOMAIN rounds
       /\ IF first = 0 THEN Becomes(r, [NoSearch EXCEPT !.stage = "no-rounds"]) /\ UNCHANGED hours
          ELSE /\ hours' = With(hours, latest \cup early,
                              [t \in left |-> <<s.phase, IF t \in latest THEN s.top ELSE 1>>])
               /\ IF inside = {} THEN Becomes(r, NoSearch)
                  ELSE Becomes(r, [s EXCEPT !.stage = "asking",
                          !.open = [t \in inside |-> Bounds(s.phase, t, [lo |-> 1, hi |-> s.top])]])
       /\ UNCHANGED <<feed, rounds>>

\* The rounds a level may probe for a sample.
Probes(level, b) ==
    IF level % 2 = 0 THEN b.lo + 1 .. b.hi - 1 ELSE {b.lo + (b.hi - b.lo) \div 2}

\* A level's batch: what comes back is cached over what was there.
Ask(r) ==
    LET s == searches[r]
        apart == {t \in DOMAIN s.open : Apart(s.open[t])}
    IN /\ s.stage = "asking"
       /\ \E probe \in [apart -> 1..MaxRounds] :
            /\ \A t \in apart : probe[t] \in Probes(s.level, s.open[t])
            /\ LET ks == {<<s.phase, probe[t]>> : t \in apart} IN
                 \E late \in SUBSET {k \in ks : 0 \in Answers(k)} :
                   /\ {k \in ks : Answers(k) = {0}} \subseteq late
                   /\ rounds' = With(rounds, ks, [k \in ks |-> IF k \in late THEN 0 ELSE At(k)])
       /\ Becomes(r, [s EXCEPT !.stage = "asked"])
       /\ UNCHANGED <<feed, hours>>

\* Every open sample is narrowed by every round known, and filed when its bounds meet.
Narrow(r) ==
    LET s == searches[r]
        bounds == [t \in DOMAIN s.open |-> Bounds(s.phase, t, s.open[t])]
        still == {t \in DOMAIN bounds : Apart(bounds[t])}
        emptied == s.emptied \/ \E t \in still : \E a \in bounds[t].lo + 1 .. bounds[t].hi - 1 :
                       <<s.phase, a>> \in DOMAIN rounds /\ rounds[<<s.phase, a>>] = 0
    IN /\ s.stage = "asked"
       /\ hours' = With(hours, DOMAIN bounds \ still, [t \in DOMAIN bounds |-> <<s.phase, bounds[t].lo>>])
       /\ IF still = {} THEN Becomes(r, NoSearch)
          ELSE IF s.level = MaxLevel
          THEN Becomes(r, [NoSearch EXCEPT !.stage = "unconverged", !.emptied = emptied])
          ELSE Becomes(r, [s EXCEPT !.stage = "asking", !.level = @ + 1, !.emptied = emptied,
                                    !.open = [t \in still |-> bounds[t]]])
       /\ UNCHANGED <<feed, rounds>>

\* The endpoint refuses, or the request is given up.
SearchFails(r) ==
    /\ searches[r].stage \in {"first", "asking"}
    /\ Becomes(r, NoSearch)
    /\ UNCHANGED <<feed, rounds, hours>>

PriceInit ==
    /\ feed \in {<<h>> : h \in Histories}
    /\ rounds = [k \in {} |-> 0] /\ hours = [t \in {} |-> 0]
    /\ searches = [r \in Readers |-> NoSearch]

PriceNext ==
    \/ \E skips \in BOOLEAN : Publish(skips)
    \/ NewPhase
    \/ \E r \in Readers :
         \/ \E window \in Windows : Latest(r, window)
         \/ FetchFirst(r) \/ Open(r) \/ Ask(r) \/ Narrow(r) \/ SearchFails(r)

PriceSpec == PriceInit /\ [][PriceNext]_priceVars

-----------------------------------------------------------------------------

PriceTypeOK ==
    /\ \A k \in DOMAIN rounds : k[1] \in 1..Len(feed) /\ rounds[k] \in Nat
    /\ \A t \in DOMAIN hours : hours[t] \in Written
    /\ \A r \in Readers : \A t \in DOMAIN searches[r].open :
          searches[r].open[t].lo < searches[r].open[t].hi

\* Of a phase, the last round at or before a time; its first when there is none.
Reference(p, t) ==
    LET before == {k \in Written : k[1] = p /\ At(k) =< t} IN
    IF before = {} THEN <<p, 1>> ELSE CHOOSE k \in before : \A j \in before : At(j) =< At(k)

\* Whichever searches overlap, however far behind the nodes they ask are, and whatever is published
\* meanwhile: a sample that is kept is the round it should be, in the phase it was found in.  A
\* search that runs out of levels met a round without data between its bounds; and beside one that
\* was passed over nothing is ever found, unless the sample is the latest round or an early one.
SearchIsExact ==
    /\ \A t \in DOMAIN hours : hours[t] = Reference(hours[t][1], t)
    /\ \A r \in Readers : searches[r].stage = "unconverged" => searches[r].emptied
    /\ \A t \in DOMAIN hours :
          LET p == hours[t][1]
              next == hours[t][2] + 1
          IN next =< Len(feed[p]) /\ feed[p][next] = 0 => t = At(hours[t]) \/ t < feed[p][1]
=============================================================================
