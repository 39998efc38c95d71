-------------------------- MODULE MCIdleWorkflow --------------------------
(* Small instances of IdleWorkflow. *)
EXTENDS IdleWorkflow, TLC

\* Every market lists every asset.
EveryPool == [a \in Assets |-> Pools]

\* A start with the same holding in every account, asset and market.
Begin(held, position, hand, paying, allowed, named) ==
    [idle |-> [k \in Accounts |-> [a \in Assets |-> held]],
     supplied |-> [k \in Accounts |-> [a \in Assets |-> position]],
     cash |-> [a \in Assets |-> hand],
     rate |-> [a \in Assets |-> paying],
     permitted |-> [k \in Accounts |-> allowed],
     named |-> [k \in Accounts |-> named]]

Plenty == [p \in Pools |-> 4]
FirstBest == [p \in Pools |-> IF p = 1 THEN 2 ELSE 1]

\* All idle, all at work in one market or the other, or some of each; with
\* markets that are full or nearly dry, and either of them the better.
VariedStarts ==
    {Begin(s[1], <<s[2], s[3]>>, <<s[4], 4>>, <<s[5], 1>>, Pools, Pools) :
        s \in {<<4, 0, 0, 4, 2>>, <<0, 2, 2, 1, 2>>, <<0, 0, 4, 4, 2>>, <<0, 4, 0, 1, 0>>,
               <<2, 2, 2, 4, 1>>, <<5, 0, 1, 2, 0>>, <<1, 3, 0, 2, 2>>, <<0, 1, 3, 4, 2>>}}

\* All idle; some of each, in markets of which one is short of cash.
FewStarts ==
    {Begin(s[1], <<s[2], s[3]>>, <<s[4], 4>>, <<2, 1>>, Pools, Pools) :
        s \in {<<4, 0, 0, 4>>, <<1, 3, 1, 2>>}}

\* Everything at work, in both markets.
SpreadStart == {Begin(0, [p \in Pools |-> 2], Plenty, FirstBest, Pools, Pools)}

\* Everything idle; the last market in the config is one the owner never named.
UnnamedStart ==
    {Begin(4, [p \in Pools |-> 0], Plenty, FirstBest, Pools \ {NumPools}, Pools \ {NumPools})}
=============================================================================
