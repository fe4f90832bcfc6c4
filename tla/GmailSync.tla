----------------------------- MODULE GmailSync -----------------------------
(***************************************************************************)
(* One run of the Gmail adapter: first the whole mailbox by page tokens,   *)
(* newest first, and after that what the history feed says was added since *)
(* a history identifier.  Mail is told apart by its place only.            *)
(***************************************************************************)
EXTENDS Provider

CONSTANT PageBudget   \* pages of one run, of one message each

(* parseCursor *)
SourceCursor == [complete : BOOLEAN, history : Nat, started : Nat, page : Nat]

(* The mail a run of pages lists: from the page token on, newest first.    *)
Pages(rest) ==
    LET left[n \in 0..PageBudget] ==
            IF n = 0 \/ left[n - 1] = {} THEN IF n = 0 THEN rest ELSE {}
            ELSE left[n - 1] \ {NewestOf(left[n - 1])}
    IN  left[PageBudget]

HistoryPages(rest) ==
    LET left[n \in 0..PageBudget] ==
            IF n = 0 \/ left[n - 1] = {} THEN IF n = 0 THEN rest ELSE {}
            ELSE left[n - 1] \ {OldestOf(left[n - 1])}
    IN  left[PageBudget]

MailboxProof(hasMore, full, started) ==
    << ProofWrite(Account, "messages",
                  Proof(IF hasMore THEN "running" ELSE "complete", full, started, None)) >>

(* The history identifier stored is the profile's at the start of this     *)
(* run, also when an earlier run listed the first pages.                   *)
Historical(box, cursor, profile, started) ==
    LET rest == {i \in DOMAIN box : cursor = None \/ cursor.page = 0 \/ i < cursor.page}
        left == Pages(rest)
        hasMore == left # {}
    IN  Bundle(rest \ left, MailboxProof(hasMore, TRUE, started),
               [complete |-> ~hasMore, history |-> profile, started |-> started,
                page |-> IF hasMore THEN NewestOf(left) + 1 ELSE 0],
               hasMore)

Incremental(box, cursor) ==
    LET rest == {i \in DOMAIN box : i > cursor.history /\ i > cursor.page}
        left == HistoryPages(rest)
        hasMore == left # {}
    IN  Bundle(rest \ left, MailboxProof(hasMore, FALSE, cursor.started),
               [cursor EXCEPT !.history = IF hasMore THEN @ ELSE Len(box),
                              !.page = IF hasMore THEN OldestOf(left) - 1 ELSE 0],
               hasMore)

(* buildGmailSyncBundle *)
Run(box, cursor, base) ==
    IF cursor # None /\ cursor.complete
    THEN Incremental(box, cursor)
    ELSE Historical(box, cursor, base - 1, IF cursor = None THEN base ELSE cursor.started)
=============================================================================
