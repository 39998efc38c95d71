------------------------------ MODULE AskIndex ------------------------------
(***************************************************************************)
(* A question put to the index: the loop in which a model asks for queries *)
(* or answers, and the session that sends each query to the MCP server and *)
(* waits for the reply on a stream it shares with every other.  The model, *)
(* the server and the network are outside: the model says anything, the    *)
(* post of a query may fail after the server took it, and replies come in  *)
(* any order, late, or never.                                              *)
(***************************************************************************)
EXTENDS Integers, Sequences, FiniteSets

CONSTANTS
    MaxQueries,
    MaxUnsent       \* bound: queries without fields that the model is sent back with

ASSUME AskAssumption == MaxQueries \in Nat \ {0} /\ MaxUnsent \in Nat

VARIABLES
    owner,      \* the person's wallet is known
    turn, queries, nudged,
    loop,       \* whose turn it is: the model's, the call's, or how it ended
    call,       \* the id call is waiting for, 0 when none, and what has come for it
    server,     \* ids of the queries the server took, and has not replied to
    stream,     \* replies on their way, and whether the stream ends after them
    closed,     \* Session.closed
    read,       \* query -> what the model was told of it: a reply's id, or an error (ghost)
    unsent      \* queries refused for naming no fields (ghost)

askVars == <<owner, turn, queries, nudged, loop, call, server, stream, closed, read, unsent>>
callVars == <<call, server, stream, closed>>

Error == 0
NoCall == [id |-> 0, reply |-> <<>>]

-----------------------------------------------------------------------------
(* The loop. *)

LastTurn == MaxQueries + 1

\* The turn after this one, if there is one.
NextTurn ==
    IF turn = LastTurn THEN loop' = "out-of-turns" /\ UNCHANGED turn
    ELSE loop' = "model" /\ turn' = turn + 1

ModelAnswers ==
    /\ loop = "model"
    /\ IF queries = 0 /\ owner /\ ~nudged
       THEN nudged' = TRUE /\ NextTurn
       ELSE loop' = "answered" /\ UNCHANGED <<nudged, turn>>
    /\ UNCHANGED <<owner, queries, read, unsent, callVars>>

\* The model's own error, or words that are neither a query nor an answer.
ModelFails ==
    /\ loop = "model" /\ loop' = "failed"
    /\ UNCHANGED <<owner, turn, queries, nudged, read, unsent, callVars>>

OutOfQueries ==
    /\ loop = "model" /\ queries >= MaxQueries
    /\ loop' = "out-of-queries"
    /\ UNCHANGED <<owner, turn, queries, nudged, read, unsent, callVars>>

SelectsNoFields ==
    /\ loop = "model" /\ queries < MaxQueries /\ unsent < MaxUnsent
    /\ unsent' = unsent + 1
    /\ NextTurn
    /\ UNCHANGED <<owner, queries, nudged, read, callVars>>

SameId == 1  \* mutant: one id for all
NextId == queries + 1

\* session.call: waiting for the id is filed before the post, which may fail either side of the
\* server's taking it.
Query ==
    /\ loop = "model" /\ queries < MaxQueries
    /\ queries' = queries + 1
    /\ call' = [id |-> NextId, reply |-> <<>>]
    /\ server' \in {server, Append(server, [id |-> NextId, query |-> queries + 1])}
    /\ loop' = "call"
    /\ UNCHANGED <<owner, turn, nudged, stream, closed, read, unsent>>

Told(what) ==
    /\ loop = "call"
    /\ read' = Append(read, what)
    /\ call' = NoCall
    /\ NextTurn
    /\ UNCHANGED <<owner, queries, nudged, unsent, server, stream, closed>>

GetsReply == call.reply # <<>> /\ Told(call.reply[1])

\* The post failed, the server answered with an error, or the stream has ended, which `select`
\* may notice before the reply that came ahead of it.
GetsError == Told(Error)

\* The question's time is up: the call is given up, and the model's next call fails at once.
TimesOut ==
    /\ loop \in {"model", "call"} /\ loop' = "failed"
    /\ call' = NoCall
    /\ UNCHANGED <<owner, turn, queries, nudged, read, unsent, server, stream, closed>>

-----------------------------------------------------------------------------
(* The server and the stream. *)

ServerReplies(i) ==
    /\ stream' = Append(stream, server[i])
    /\ server' = SubSeq(server, 1, i - 1) \o SubSeq(server, i + 1, Len(server))
    /\ UNCHANGED <<owner, turn, queries, nudged, loop, call, closed, read, unsent>>

WaitedFor(r) == call.id = r.id

\* read: a reply nobody waits for is dropped.
ReplyRead ==
    /\ ~closed /\ stream # <<>>
    /\ stream' = Tail(stream)
    /\ call' = IF WaitedFor(Head(stream)) THEN [call EXCEPT !.reply = <<Head(stream).query>>] ELSE call
    /\ UNCHANGED <<owner, turn, queries, nudged, loop, server, closed, read, unsent>>

StreamEnds ==
    /\ ~closed /\ closed' = TRUE /\ stream' = <<>>
    /\ UNCHANGED <<owner, turn, queries, nudged, loop, call, server, read, unsent>>

AskInit ==
    /\ owner \in BOOLEAN
    /\ turn = 0 /\ queries = 0 /\ nudged = FALSE /\ loop = "model"
    /\ call = NoCall /\ server = <<>> /\ stream = <<>> /\ closed = FALSE
    /\ read = <<>> /\ unsent = 0

AskNext ==
    \/ ModelAnswers \/ ModelFails \/ OutOfQueries \/ SelectsNoFields \/ Query
    \/ GetsReply \/ GetsError \/ TimesOut \/ ReplyRead \/ StreamEnds
    \/ \E i \in DOMAIN server : ServerReplies(i)

AskSpec == AskInit /\ [][AskNext]_askVars

AskTypeOK ==
    /\ owner \in BOOLEAN /\ nudged \in BOOLEAN /\ closed \in BOOLEAN
    /\ turn \in 0..(MaxQueries + 1) /\ queries \in 0..MaxQueries
    /\ loop \in {"model", "call", "answered", "failed", "out-of-turns", "out-of-queries"}
    /\ call.id \in 0..MaxQueries /\ Len(read) =< queries /\ unsent \in 0..MaxUnsent

\* What the model is told of a query is the reply to that query or an error, also when a post that
\* failed had been taken and its reply comes while a later query is waited for.
RepliesAreTheirOwn == \A q \in DOMAIN read : read[q] \in {Error, q}

\* The loop has a turn for each query, for the one nudge and for the answer: a question is cut off
\* for want of turns only when a turn went on a query that was never sent.
TurnsSuffice == loop = "out-of-turns" => unsent > 0

\* A question is served: what its queries are told is theirs, and it has the turns it needs.
QuestionsAreServed == RepliesAreTheirOwn /\ TurnsSuffice
=============================================================================
