------------------------------ MODULE RateLimit ------------------------------
(***************************************************************************)
(* The limiter in front of the paid endpoints: a bucket for each address,  *)
(* a count for the day, both in memory, and a sweep that forgets addresses *)
(* that have been quiet.  `allow` runs under one lock, so it is one step.  *)
(* A token is counted in `Minute` parts, of which a tick adds PerMinute.   *)
(***************************************************************************)
EXTENDS Integers, FiniteSets

CONSTANTS
    Addresses,
    PerMinute, DailyMax,
    Minute,             \* ticks in a minute
    Day,                \* ticks in a day
    Quiet,              \* ticks after which an address is forgotten: ten minutes
    MaxLimitTime,       \* bound: the clock
    MaxRestarts         \* bound: restarts of the process

ASSUME LimitAssumption ==
    /\ PerMinute \in Nat \ {0} /\ DailyMax \in Nat \ {0} /\ Day \in Nat \ {0}
    /\ Minute \in Nat \ {0} /\ Quiet \in Nat /\ Quiet >= Minute
    /\ MaxLimitTime \in Nat /\ MaxRestarts \in Nat

VARIABLES
    hour,           \* now
    buckets,        \* limiter.seen: address -> tokens and when they were last counted
    swept,
    today,          \* limiter.day and limiter.today
    restarts,
    passed,         \* tick -> address -> calls let through before it (ghost)
    passedInAll     \* tick -> calls let through before it, whoever made them (ghost)

ghosts == <<passed, passedInAll>>
limitVars == <<hour, buckets, swept, today, restarts, ghosts>>

Full == PerMinute * Minute
Lesser(a, b) == IF a =< b THEN a ELSE b

Forgetful(b) == TRUE  \* mutant: the sweep forgets everyone
GoneQuiet(b) == hour - b.last > Quiet

\* The addresses left by the sweep, which runs at most every `Quiet`.
Swept ==
    IF hour - swept > Quiet
    THEN {a \in DOMAIN buckets : ~GoneQuiet(buckets[a])}
    ELSE DOMAIN buckets

Refilled(a) ==
    IF a \in Swept
    THEN Lesser(Full, buckets[a].tokens + (hour - buckets[a].last) * PerMinute)
    ELSE Full

LetThrough(a) ==
    /\ passed' = [t \in DOMAIN passed |->
                    IF t > hour THEN [passed[t] EXCEPT ![a] = @ + 1] ELSE passed[t]]
    /\ passedInAll' = [t \in DOMAIN passedInAll |->
                         IF t > hour THEN passedInAll[t] + 1 ELSE passedInAll[t]]

CountToday == IF today.day = hour \div Day THEN today.calls ELSE 0

\* `last` moves, and the sweep has happened, whether or not there was a token to take.
Allow(a) ==
    LET tokens == Refilled(a)
        ok == tokens >= Minute
    IN /\ CountToday < DailyMax
       /\ buckets' = [b \in Swept \cup {a} |->
                        IF b = a THEN [tokens |-> IF ok THEN tokens - Minute ELSE tokens, last |-> hour]
                        ELSE buckets[b]]
       /\ swept' = IF hour - swept > Quiet THEN hour ELSE swept
       /\ today' = [day |-> hour \div Day, calls |-> CountToday + (IF ok THEN 1 ELSE 0)]
       /\ IF ok THEN LetThrough(a) ELSE UNCHANGED ghosts
       /\ UNCHANGED <<hour, restarts>>

\* Refused for the day before any bucket is looked at; only the date is brought up to date.
RefuseForToday ==
    /\ CountToday >= DailyMax
    /\ today' = [day |-> hour \div Day, calls |-> CountToday]
    /\ UNCHANGED <<hour, buckets, swept, restarts, ghosts>>

LimitTicks ==
    /\ hour < MaxLimitTime /\ hour' = hour + 1
    /\ UNCHANGED <<buckets, swept, today, restarts, ghosts>>

\* newLimiter; the zero times are long ago.
Emptied ==
    /\ buckets' = [a \in {} |-> 0] /\ swept' = -(Quiet + 1) /\ today' = [day |-> -1, calls |-> 0]

Restart ==
    /\ restarts < MaxRestarts /\ restarts' = restarts + 1
    /\ Emptied
    /\ UNCHANGED <<hour, ghosts>>

LimitInit ==
    /\ hour = 0 /\ restarts = 0
    /\ buckets = [a \in {} |-> 0] /\ swept = -(Quiet + 1) /\ today = [day |-> -1, calls |-> 0]
    /\ passed = [t \in 0..(MaxLimitTime + 1) |-> [a \in Addresses |-> 0]]
    /\ passedInAll = [t \in 0..(MaxLimitTime + 1) |-> 0]

LimitNext == (\E a \in Addresses : Allow(a)) \/ RefuseForToday \/ LimitTicks \/ Restart

LimitSpec == LimitInit /\ [][LimitNext]_limitVars

LimitTypeOK ==
    /\ hour \in 0..MaxLimitTime /\ restarts \in 0..MaxRestarts
    /\ DOMAIN buckets \subseteq Addresses
    /\ \A a \in DOMAIN buckets : buckets[a] \in [tokens : 0..Full, last : 0..hour]
    /\ today.calls \in 0..DailyMax

Calls(a, from, to) == passed[to + 1][a] - passed[from][a]
CallsInAll(from, to) == passedInAll[to + 1] - passedInAll[from]

\* Over any stretch of time an address gets a full bucket for each life of the process and what
\* refills meanwhile, the sweep giving nothing away; and a day's calls stay below the ceiling of
\* each life.
BurstBounded ==
    /\ \A a \in Addresses, from, to \in 0..hour :
          from =< to => Calls(a, from, to) * Minute =< (1 + restarts) * Full + (to - from) * PerMinute
    /\ \A d \in 0..(hour \div Day) :
          CallsInAll(d * Day, Lesser(hour, d * Day + Day - 1)) =< (1 + restarts) * DailyMax
=============================================================================
