---------------------------- MODULE IMessageSync ----------------------------
(***************************************************************************)
(* One run that reads the databases of Messages and of the telephone on    *)
(* this machine.  Rows are numbered as they come; a run takes the rows     *)
(* behind the cursor up to a limit, and sweeps the rows it has already     *)
(* seen for edits and retractions, a limited number a run as well.  The    *)
(* sweep goes by row, for an edit may come late with an old time, and      *)
(* starts over when it has come to its end.                                *)
(***************************************************************************)
EXTENDS Provider

CONSTANTS
    CallLog,      \* the conversation that stands for the call history
    BatchLimit    \* rows one query returns

SourceCursor == [row : Nat, call : Nat, mutation : Nat]

(* resolveIMessageSourceCursor *)
Position(cursor) == IF cursor = None THEN [row |-> 0, call |-> 0, mutation |-> 0] ELSE cursor

Messages(box) == {i \in DOMAIN box : box[i].conv # CallLog}
Calls(box) == InConversation(box, CallLog)

(* fetchMessageRows *)
MessageRows(box, after) == Oldest({i \in Messages(box) : i > after}, BatchLimit)
MutatedRows(box, after, through) ==
    Oldest({i \in Messages(box) : Edited(box[i]) /\ after < i /\ i <= through}, BatchLimit)

(* loadCallHistoryBatch *)
CallRows(box, after) == Oldest({i \in Calls(box) : i > after}, BatchLimit)

Full(rows) == Cardinality(rows) >= BatchLimit
Behind(rows, after) == IF rows = {} THEN after ELSE NewestOf(rows)

(* buildSyncBatch of the reader: the sweep covers what was seen before     *)
(* this run.                                                               *)
Batch(box, at) ==
    LET rows == MessageRows(box, at.row)
        mutations == MutatedRows(box, at.mutation, at.row)
    IN  [messages |-> rows \cup mutations, full |-> Full(rows) \/ Full(mutations),
         row |-> Behind(rows, at.row),
         mutation |-> IF Full(mutations) THEN NewestOf(mutations) ELSE 0]

(* buildIMessageSyncBundle *)
Run(box, cursor) ==
    LET at == Position(cursor)
        batch == Batch(box, at)
        calls == CallRows(box, at.call)
    IN  Bundle(Versions(box, batch.messages \cup calls), <<>>,
               [row |-> batch.row, call |-> Behind(calls, at.call),
                mutation |-> batch.mutation],
               batch.full \/ Full(calls))
=============================================================================
