--------------------------- MODULE ActivityRecord ---------------------------
(***************************************************************************)
(* What the backend promises of the record it keeps for an account,        *)
(* however many read it at once and whatever fails on the way:             *)
(*                                                                         *)
(*   - it holds what the chain said and nothing else, and what is written  *)
(*     stays as it was written, with its date or without;                  *)
(*   - whoever is told that it reaches a block has everything up to there. *)
(***************************************************************************)
EXTENDS Integers

CONSTANTS Visitors, From

VARIABLES
    head, accountLog,   \* the chain
    rows, dated,        \* the record
    told                \* the block a visitor's answer is said to reach, or Silent

record == <<head, accountLog, rows, dated, told>>

Silent == -1

RecordInit ==
    /\ head = From /\ accountLog = {}
    /\ rows = {} /\ dated = {}
    /\ told = [v \in Visitors |-> Silent]

\* The chain goes on, and says nothing more of the blocks it had.
Grow ==
    /\ head' = head + 1
    /\ accountLog \subseteq accountLog'
    /\ \A e \in accountLog' \ accountLog : e.block = head'
    /\ UNCHANGED <<rows, dated, told>>

\* An answer for a visitor, and what was written to be able to give it.
Tell(v, block) ==
    /\ told[v] = Silent
    /\ told' = [told EXCEPT ![v] = block]
    /\ rows \subseteq rows' /\ rows' \subseteq accountLog
    /\ dated' \subseteq rows' /\ dated' \cap rows = dated
    /\ \A e \in accountLog : e.block <= block => e \in rows'
    /\ UNCHANGED <<head, accountLog>>

\* The answer is sent.
Part(v) ==
    /\ told[v] # Silent
    /\ told' = [told EXCEPT ![v] = Silent]
    /\ UNCHANGED <<head, accountLog, rows, dated>>

RecordNext ==
    \/ Grow
    \/ \E v \in Visitors : Part(v) \/ \E block \in 0..head : Tell(v, block)

RecordSpec == RecordInit /\ [][RecordNext]_record
=============================================================================
