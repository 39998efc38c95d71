-------------------------------- MODULE Chats --------------------------------
(***************************************************************************)
(* One wallet's conversations.  The service counts with one statement and  *)
(* writes with another, under the store's write lock only for the second,  *)
(* so requests of the same wallet pass between the two; a write looks for  *)
(* its conversation again, and without one writes nothing.                 *)
(***************************************************************************)
EXTENDS Integers, FiniteSets

CONSTANTS
    Clients,            \* requests that may be in the service together
    MaxConversations, MaxMessages,
    MaxStarted          \* bound: conversations ever started

ASSUME ChatsAssumption ==
    /\ IsFiniteSet(Clients)
    /\ MaxConversations \in Nat \ {0} /\ MaxMessages \in Nat \ {0} /\ MaxStarted \in Nat

VARIABLES
    chats,      \* conversation -> how many turns it holds
    started,    \* ids given out
    doing       \* client -> the write its count has let it through to

chatsVars == <<chats, started, doing>>

Existing == DOMAIN chats
Through(kind, c) == [kind |-> kind, chat |-> c]
NoWrite == Through("none", 0)
Waiting(kind, c) == Cardinality({u \in Clients : doing[u] = Through(kind, c)})

\* Start, up to the count.
CountConversations(u) ==
    /\ doing[u] = NoWrite /\ Cardinality(Existing) < MaxConversations
    /\ doing' = [doing EXCEPT ![u] = Through("start", 0)]
    /\ UNCHANGED <<chats, started>>

CreateConversation(u) ==
    /\ doing[u].kind = "start" /\ started < MaxStarted
    /\ started' = started + 1
    /\ chats' = [c \in Existing \cup {started + 1} |-> IF c \in Existing THEN chats[c] ELSE 0]
    /\ doing' = [doing EXCEPT ![u] = NoWrite]

AnyLength(c) == TRUE  \* mutant: turns are not counted
HasRoom(c) == chats[c] < MaxMessages

\* Append, up to the count; a conversation that is gone is not found.
CountMessages(u, c) ==
    /\ doing[u] = NoWrite /\ HasRoom(c)
    /\ doing' = [doing EXCEPT ![u] = Through("append", c)]
    /\ UNCHANGED <<chats, started>>

\* One transaction: the conversation is touched, if it is still there, and the turn added.
AppendMessage(u) ==
    /\ doing[u].kind = "append"
    /\ chats' = [c \in Existing |-> IF c = doing[u].chat THEN chats[c] + 1 ELSE chats[c]]
    /\ doing' = [doing EXCEPT ![u] = NoWrite]
    /\ UNCHANGED started

DeleteConversations(cs) ==
    /\ cs # {} /\ chats' = [c \in Existing \ cs |-> chats[c]]
    /\ UNCHANGED <<started, doing>>

ChatsInit ==
    /\ chats = [c \in {} |-> 0] /\ started = 0
    /\ doing = [u \in Clients |-> NoWrite]

ChatsNext ==
    \/ \E u \in Clients : CountConversations(u) \/ CreateConversation(u) \/ AppendMessage(u)
    \/ \E u \in Clients, c \in Existing : CountMessages(u, c)
    \/ \E cs \in {{c} : c \in Existing} \cup {Existing} : DeleteConversations(cs)

ChatsSpec == ChatsInit /\ [][ChatsNext]_chatsVars

ChatsTypeOK ==
    /\ started \in 0..MaxStarted /\ Existing \subseteq 1..started
    /\ \A c \in Existing : chats[c] \in Nat
    /\ \A u \in Clients : doing[u].chat \in 0..started

\* Counting and writing apart lets the limits be passed, but by no more than the other requests
\* in between: even with every write let through so far, by one less than the clients.
LimitsNearlyHold ==
    LET over == Cardinality(Clients) - 1 IN
    /\ Cardinality(Existing) + Waiting("start", 0) =< MaxConversations + over
    /\ \A c \in Existing : chats[c] + Waiting("append", c) =< MaxMessages + over
=============================================================================
