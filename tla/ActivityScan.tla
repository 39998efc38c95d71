---------------------------- MODULE ActivityScan ----------------------------
(***************************************************************************)
(* The backend's record of what one account did: Service.For and the       *)
(* SQLite tables behind it.                                                *)
(*                                                                         *)
(* Every visitor runs For for itself.  It reads the cursor, asks the chain *)
(* for its head, reads what lies between in two halves (the account's own  *)
(* events, then the token's transfers), dates it, and saves rows and       *)
(* cursor in one transaction.  Nothing orders the visitors, so one that is *)
(* slow saves what it found after others have gone further.                *)
(*                                                                         *)
(* The clock is only ever compared with the time of the last check, so a   *)
(* cursor is `fresh` until it goes stale.                                  *)
(***************************************************************************)
EXTENDS Integers, FiniteSets

CONSTANTS
    Visitors,     \* requests in progress
    From,         \* the factory's deployment block
    Lag,          \* how far behind the head an endpoint may answer
    MaxHead,      \* bound: the chain's length
    MaxFailures   \* bound: calls that fail or answer late, commits that fail

ASSUME ActivityAssumption ==
    /\ MaxHead \in Nat /\ From \in 1..MaxHead
    /\ Lag \in Nat /\ MaxFailures \in Nat

VARIABLES
    head,        \* the chain: its last block,
    accountLog,  \* and what it says of the account
    rows,        \* account_activity
    dated,       \* those of the rows that carry a block time
    cursor,      \* account_activity_cursor
    readers,     \* what each request in progress knows
    failures     \* how many have

scanVars == <<head, accountLog, rows, dated, cursor, readers, failures>>
chainVars == <<head, accountLog>>
storeVars == <<rows, dated, cursor>>

-----------------------------------------------------------------------------
ScanKinds == {"own", "transfer"}
Blocks == 1..MaxHead
Events == [block : Blocks, kind : ScanKinds]

ReaderSteps == {"resting", "asking", "touching", "reading", "pairing", "dating", "saving", "answering"}
Reader == [at : ReaderSteps, readTo : {0} \cup Blocks, upTo : {0} \cup Blocks,
           found : SUBSET Events, stamped : SUBSET Events]

NeverIsMinusOne == [readTo |-> -1, fresh |-> FALSE]  \* mutant: another mark for never
Never == [readTo |-> 0, fresh |-> FALSE]
Gone == [at |-> "resting", readTo |-> 0, upTo |-> 0, found |-> {}, stamped |-> {}]

\* A first read starts at the factory, any other at the block after the last.
AfterNext(readTo) == IF readTo > 0 THEN readTo + 2 ELSE From  \* mutant: one too far
StartOf(readTo) == IF readTo > 0 THEN readTo + 1 ELSE From

InRange(first, last) == {e \in accountLog : e.block \in first..last}

ReaderBecomes(r, reader) == readers' = [readers EXCEPT ![r] = reader]
Answering(readTo) == [Gone EXCEPT !.at = "answering", !.readTo = readTo]

ScanFails == failures < MaxFailures /\ failures' = failures + 1
ScanWorks == UNCHANGED failures

-----------------------------------------------------------------------------
(* One request. *)

\* The cursor is read.  One that cannot be read is taken for one never set.
Visit(r) ==
    /\ readers[r].at = "resting"
    /\ \E seen \in {cursor, Never} :
        /\ (seen = cursor /\ ScanWorks) \/ (seen # cursor /\ ScanFails)
        /\ ReaderBecomes(r, IF seen.fresh THEN Answering(seen.readTo)
                            ELSE [Gone EXCEPT !.at = "asking", !.readTo = seen.readTo])
    /\ UNCHANGED <<chainVars, storeVars>>

\* Head: the endpoint may not have seen the latest block.
AskHead(r) ==
    /\ readers[r].at = "asking"
    /\ \E h \in 0..head :
        /\ (h = head /\ ScanWorks) \/ (h \in (head - Lag)..(head - 1) /\ ScanFails)
        /\ \/ /\ h <= readers[r].readTo
              /\ ReaderBecomes(r, [readers[r] EXCEPT !.at = "touching"])
           \/ /\ h > readers[r].readTo
              /\ ReaderBecomes(r, [readers[r] EXCEPT !.at = "reading", !.upTo = h])
    /\ UNCHANGED <<chainVars, storeVars>>

\* Nothing new: the cursor is written back as it was read, to be fresh again.
\* A failure to do so is ignored.
Touch(r) ==
    /\ readers[r].at = "touching"
    /\ \/ cursor' = [readTo |-> readers[r].readTo, fresh |-> TRUE] /\ ScanWorks
       \/ ScanFails /\ UNCHANGED cursor
    /\ ReaderBecomes(r, Answering(readers[r].readTo))
    /\ UNCHANGED <<chainVars, rows, dated>>

Found(reader, kind) ==
    {e \in InRange(StartOf(reader.readTo), reader.upTo) : e.kind = kind}

\* Logs: the account's own events.
ReadOwnLogs(r) ==
    /\ readers[r].at = "reading"
    /\ ReaderBecomes(r, [readers[r] EXCEPT !.at = "pairing", !.found = Found(readers[r], "own")])
    /\ ScanWorks
    /\ UNCHANGED <<chainVars, storeVars>>

\* Transfers: the token's, in both directions.
ReadTransfers(r) ==
    /\ readers[r].at = "pairing"
    /\ ReaderBecomes(r, [readers[r] EXCEPT !.at = "dating",
                                           !.found = @ \cup Found(readers[r], "transfer")])
    /\ ScanWorks
    /\ UNCHANGED <<chainVars, storeVars>>

\* Times: one header per block, and a block that will not say has no date.
ReadTimes(r) ==
    /\ readers[r].at = "dating"
    /\ \E spoken \in SUBSET {e.block : e \in readers[r].found} :
        ReaderBecomes(r, [readers[r] EXCEPT
                             !.at = "saving",
                             !.stamped = {e \in readers[r].found : e.block \in spoken}])
    /\ ScanWorks
    /\ UNCHANGED <<chainVars, storeVars>>

\* A call that fails takes the whole scan with it: half of one is worse than none.
KeepHalf(reader) ==  \* mutant: saves what it has
    IF reader.at = "pairing" THEN [reader EXCEPT !.at = "dating"] ELSE Answering(reader.readTo)
AfterFailure(reader) == Answering(reader.readTo)

\* The endpoint does not answer, and what is known is served.
CallFails(r) ==
    /\ readers[r].at \in {"asking", "reading", "pairing"}
    /\ ScanFails
    /\ ReaderBecomes(r, AfterFailure(readers[r]))
    /\ UNCHANGED <<chainVars, storeVars>>

\* INSERT OR IGNORE keeps the row that is there.
Replaced(found, stamped) == (dated \ found) \cup stamped  \* mutant: OR REPLACE
DatedAfter(found, stamped) == dated \cup (stamped \ rows)

\* SaveActivity: rows and cursor, both or neither.
Save(r) ==
    /\ readers[r].at = "saving"
    /\ rows' = rows \cup readers[r].found
    /\ dated' = DatedAfter(readers[r].found, readers[r].stamped)
    /\ cursor' = [readTo |-> readers[r].upTo, fresh |-> TRUE]
    /\ ReaderBecomes(r, Answering(readers[r].upTo))
    /\ ScanWorks
    /\ UNCHANGED chainVars

\* Rolled back, and the request is refused.
SaveFails(r) ==
    /\ readers[r].at = "saving"
    /\ ScanFails
    /\ ReaderBecomes(r, Gone)
    /\ UNCHANGED <<chainVars, storeVars>>

\* The rows are read and sent, with the block they are said to reach.
Answer(r) ==
    /\ readers[r].at = "answering"
    /\ ReaderBecomes(r, Gone)
    /\ ScanWorks
    /\ UNCHANGED <<chainVars, storeVars>>

-----------------------------------------------------------------------------
(* The world. *)

\* The next block that has something to say of the account.
Mine(kinds) ==
    /\ head < MaxHead
    /\ head' = head + 1
    /\ accountLog' = accountLog \cup {[block |-> head + 1, kind |-> k] : k \in kinds}
    /\ UNCHANGED <<storeVars, readers, failures>>

\* `fresh` has passed since the last check.
GoStale ==
    /\ cursor.fresh
    /\ cursor' = [cursor EXCEPT !.fresh = FALSE]
    /\ UNCHANGED <<chainVars, rows, dated, readers, failures>>

-----------------------------------------------------------------------------
ScanInit ==
    /\ head = From /\ accountLog = {}
    /\ rows = {} /\ dated = {} /\ cursor = Never
    /\ readers = [r \in Visitors |-> Gone]
    /\ failures = 0

Continue(r) ==
    \/ AskHead(r) \/ Touch(r) \/ ReadOwnLogs(r) \/ ReadTransfers(r) \/ ReadTimes(r) \/ Save(r)
    \/ Answer(r)

ScanNext ==
    \/ \E r \in Visitors : Visit(r) \/ Continue(r) \/ CallFails(r) \/ SaveFails(r)
    \/ \E kinds \in SUBSET ScanKinds \ {{}} : Mine(kinds)
    \/ GoStale

ScanSpec == ScanInit /\ [][ScanNext]_scanVars

\* AlikeVisitors keep coming, a request goes on to its end, and time passes.
FairScanSpec ==
    /\ ScanSpec
    /\ \A r \in Visitors : WF_scanVars(Visit(r)) /\ WF_scanVars(Continue(r))
    /\ WF_scanVars(GoStale)

-----------------------------------------------------------------------------
(* Properties. *)

ScanTypeOK ==
    /\ head \in Blocks /\ accountLog \subseteq Events
    /\ rows \subseteq Events /\ dated \subseteq rows
    /\ cursor \in [readTo : {0} \cup Blocks, fresh : BOOLEAN]
    /\ readers \in [Visitors -> Reader]
    /\ failures \in 0..MaxFailures

Recorded(block) == \A e \in accountLog : e.block <= block => e \in rows

\* Nothing at or below the cursor is missing from the table: the next scan
\* starts above it, so what is skipped is skipped for ever.
NothingSkipped == Recorded(cursor.readTo)

\* An answer that says it reaches a block has everything up to that block, even
\* one that lost a race, found the endpoint silent, or never asked it.
AnswersAreComplete == \A r \in Visitors : readers[r].at = "answering" => Recorded(readers[r].readTo)

\* A row stays as it was first written, its date included, whichever of two
\* overlapping scans saves it again.
RowsAreFinal == [][rows \subseteq rows' /\ dated' \cap rows = dated]_scanVars

\* Whom an answer waits for, and the block it will be said to reach.
Record == INSTANCE ActivityRecord WITH
    told <- [r \in Visitors |-> IF readers[r].at = "answering" THEN readers[r].readTo ELSE -1]

\* Seen from outside the table is the record ActivityRecord promises: what the chain said,
\* written once, and complete up to the block an answer is said to reach.
KeepsRecord == Record!RecordSpec

\* While visitors come and failures end, the table catches up with the chain
\* again and again, so whatever the account did is recorded.
EventsAreFound == []<>(accountLog \subseteq rows)

\* What service.go says of itself: the read is forward-only.
ForwardOnly == [][cursor'.readTo >= cursor.readTo]_scanVars
=============================================================================
