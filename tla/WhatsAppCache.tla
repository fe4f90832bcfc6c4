---------------------------- MODULE WhatsAppCache ----------------------------
(***************************************************************************)
(* The SQLite cache of the WhatsApp helper: what a message, a receipt or a *)
(* call makes of a row, and how a resync pages through the rows.           *)
(*                                                                         *)
(* Messages and calls are numbered in the order the pages have them: by    *)
(* time, conversation and id.                                              *)
(***************************************************************************)
EXTENDS Naturals, FiniteSetsExt

CONSTANTS None, Messages, Calls

ASSUME CacheAssumption ==
    /\ Messages \cup Calls \subseteq Nat \ {0}
    /\ IsFiniteSet(Messages) /\ IsFiniteSet(Calls)
    /\ Messages \cap Calls = {}

Entries == Messages \cup Calls

(* What is told of an entry: a message that was revoked says no more. *)
Observations ==
    [of : Messages, revoked : BOOLEAN] \cup [of : Calls, revoked : {FALSE}]

Row == [at : Nat, revoked : BOOLEAN]
Rows == Row \cup {None}

Revoked(row) == row # None /\ row.revoked

(* MUTANT: revoked as the last writer has it. *)
UpsertedAsTold(row, o, at) == [at |-> at, revoked |-> o.revoked]

(* upsertMessageTx, upsertCallTx: a revocation is never taken back. *)
Upserted(row, o, at) == [at |-> at, revoked |-> o.revoked \/ Revoked(row)]

(* applyReceipt updates a row that is there. *)
Touched(row, at) == IF row = None THEN None ELSE [row EXCEPT !.at = at]

(* historySyncBatchFromEvent: of one message a chunk keeps its revocation. *)
Batch(chunk) == {o \in chunk : o.revoked \/ [o EXCEPT !.revoked = TRUE] \notin chunk}

(* filterRevokedResends. *)
Unrevoked(cache, batch) == {o \in batch : o.revoked \/ ~Revoked(cache[o.of])}

Apply(cache, batch, at) ==
    [e \in Entries |->
        IF \E o \in batch : o.of = e
        THEN Upserted(cache[e], CHOOSE o \in batch : o.of = e, at)
        ELSE cache[e]]

-----------------------------------------------------------------------------
Cursor == [snapshot : Nat, phase : {"messages", "calls"}, after : Nat]

ASSUME NoneAssumption == None \notin Nat \cup Row \cup Cursor

FirstCursor(now) == [snapshot |-> now, phase |-> "messages", after |-> 0]

InWindow(row, since, snapshot) == row # None /\ since < row.at /\ row.at <= snapshot

(* Rows a cursor has not come to. *)
Beyond(e, cursor) ==
    \/ cursor.phase = "messages" /\ e \in Calls
    \/ cursor.phase = "messages" /\ e \in Messages /\ cursor.after < e
    \/ cursor.phase = "calls" /\ e \in Calls /\ cursor.after < e

(* queryMessages, queryCalls: one row more is asked for than the page may   *)
(* have, to know whether there is one.                                      *)
Query(cache, kind, since, cursor, limit) ==
    LET rows == {e \in kind : Beyond(e, cursor) /\ InWindow(cache[e], since, cursor.snapshot)}
        got == {e \in rows : Cardinality({f \in rows : f < e}) < limit}
    IN  [rows |-> got, more |-> got # rows]

Observed(cache, rows) == {[of |-> e, revoked |-> cache[e].revoked] : e \in rows}

(* A page that ends among the calls. *)
CallsPage(cache, messages, since, cursor, limit) ==
    LET calls == Query(cache, Calls, since, cursor, limit)
    IN  [obs |-> Observed(cache, messages \cup calls.rows), snapshot |-> cursor.snapshot,
         next |-> IF calls.more
                  THEN [cursor EXCEPT !.phase = "calls", !.after = Max(calls.rows)]
                  ELSE None]

(* MUTANT: a page that the messages fill is the last. *)
ResyncPageFull(cache, since, cursor, limit) ==
    LET messages == Query(cache, Messages, since, cursor, limit)
        last == [obs |-> Observed(cache, messages.rows), snapshot |-> cursor.snapshot,
                 next |-> None]
    IN  IF cursor.phase = "calls" THEN CallsPage(cache, {}, since, cursor, limit)
        ELSE IF messages.more
        THEN [last EXCEPT !.next = [cursor EXCEPT !.after = Max(messages.rows)]]
        ELSE IF Cardinality(messages.rows) = limit THEN last
        ELSE CallsPage(cache, messages.rows, since, cursor, limit - Cardinality(messages.rows))

(* getResyncPage: messages, then calls in what room they leave. *)
ResyncPage(cache, since, cursor, limit) ==
    LET messages == Query(cache, Messages, since, cursor, limit)
        full == [obs |-> Observed(cache, messages.rows), snapshot |-> cursor.snapshot,
                 next |-> None]
        calls == [cursor EXCEPT !.phase = "calls", !.after = 0]
    IN  IF cursor.phase = "calls" THEN CallsPage(cache, {}, since, cursor, limit)
        ELSE IF messages.more
        THEN [full EXCEPT !.next = [cursor EXCEPT !.after = Max(messages.rows)]]
        ELSE IF Cardinality(messages.rows) = limit
        THEN [full EXCEPT !.next =
                 IF Query(cache, Calls, since, calls, 1).rows # {} THEN calls ELSE None]
        ELSE CallsPage(cache, messages.rows, since, cursor, limit - Cardinality(messages.rows))
=============================================================================
