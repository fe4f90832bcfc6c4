---------------------------- MODULE WhatsAppSync ----------------------------
(***************************************************************************)
(* One run that reads the cache of the WhatsApp helper.  The first page    *)
(* fixes a snapshot time; the pages hold what was last touched up to it    *)
(* and after the end of the previous resync, in the order of sending.  A   *)
(* message touched while the pages are read leaves the snapshot and is     *)
(* left to the next resync.  A run can also import the database of the     *)
(* WhatsApp application on this machine, which spares the helper what was  *)
(* sent up to a week before its newest message.                            *)
(***************************************************************************)
EXTENDS Provider

CONSTANTS
    PageBudget,      \* pages of one run, of one message each
    DesktopOverlap   \* time before the newest imported message that is read again

(* parseWhatsAppSourceCursor *)
SourceCursor ==
    [last : Nat, desktop : Nat,
     resync : [snapshot : Nat, after : Nat, since : Nat, started : Nat, full : BOOLEAN]
              \cup {None}]

(* queryMessages of the helper, as many pages as the budget allows.        *)
Resync(box, since, r) ==
    LET rest == {i \in DOMAIN box : since < box[i].at /\ box[i].at <= r.snapshot /\ r.after < i}
        got == Oldest(rest, PageBudget)
    IN  [messages |-> got, hasMore |-> got # rest,
         after |-> IF got = {} THEN r.after ELSE NewestOf(got)]

(* selectWhatsAppHelperSinceMs: all, where the last resync stopped, or a   *)
(* while before the newest message that was imported.                      *)
Since(cursor) ==
    CASE cursor = None -> 0
      [] cursor # None /\ cursor.resync # None -> cursor.resync.since
      [] cursor # None /\ cursor.resync = None /\ cursor.last # 0 -> cursor.last
      [] OTHER -> IF cursor.desktop < DesktopOverlap THEN 0 ELSE cursor.desktop - DesktopOverlap

(* lastSyncAt moves with the end of a resync.  Before the end of the first *)
(* one it is the checkpoint's time, which nothing reads: zero here.        *)
LastSyncAt(cursor, r, hasMore) ==
    CASE ~hasMore -> r.snapshot
      [] hasMore /\ cursor # None -> cursor.last
      [] OTHER -> 0

(* The page loop of processIngestRun.                                      *)
Run(box, cursor, base) ==
    LET fresh == [snapshot |-> base - 1, after |-> 0, since |-> Since(cursor),
                  started |-> base, full |-> cursor = None]
        r == IF cursor # None /\ cursor.resync # None THEN cursor.resync ELSE fresh
        page == Resync(box, r.since, r)
    IN  Bundle(page.messages,
               << ProofWrite(Account, "messages",
                    Proof(IF page.hasMore THEN "running" ELSE "complete", r.full,
                          r.snapshot + 1, None)) >>,
               [last |-> LastSyncAt(cursor, r, page.hasMore),
                desktop |-> IF cursor = None THEN 0 ELSE cursor.desktop,
                resync |-> IF page.hasMore THEN [r EXCEPT !.after = page.after] ELSE None],
               page.hasMore)

(* What the database of the application may hold: messages up to its       *)
(* newest, of which only recent ones may still be missing.                 *)
Desktops(box) ==
    {D \in SUBSET DOMAIN box \ {{}} :
        \A i \in DOMAIN box \ D : box[i].sent + DesktopOverlap > box[NewestOf(D)].sent}

(* What the worker does to the cursor: a resync under way is kept.         *)
AfterImport(cursor, newest) ==
    [last |-> IF cursor = None THEN 0 ELSE cursor.last, desktop |-> newest,
     resync |-> IF cursor = None THEN None ELSE cursor.resync]

(* buildWhatsAppDesktopSyncBundle *)
Import(box, cursor, D, base) ==
    Bundle(D, << ProofWrite(Account, "messages", Proof("complete", TRUE, base, None)) >>,
           AfterImport(cursor, box[NewestOf(D)].sent), FALSE)
=============================================================================
