----------------------------- MODULE SlackSync -----------------------------
(***************************************************************************)
(* One run of the Slack adapter.  The full scan takes one conversation a   *)
(* run: it walks the families, their pages and the conversations of a page *)
(* and pages through the history of a conversation and then through its    *)
(* threads, newest first, as far as a budget of requests reaches.  Where   *)
(* it stopped in a conversation is kept in the proofs, where it stopped in *)
(* the account in the source cursor.  Later runs are incremental and fall  *)
(* back to a full scan when a conversation has no complete history.        *)
(***************************************************************************)
EXTENDS Provider, SequencesExt

CONSTANTS
    Families,       \* the conversations of each family, in the order of the scan
    ConvsPerPage,   \* conversations listed by one request
    PageBudget      \* requests of one run for one conversation

(* parseSlackSourceCursor, and the resume cursors of the two proofs that   *)
(* have one.                                                               *)
SourceCursor ==
    [last : Nat, hydrated : SUBSET Conversations,
     scan : [started : Nat, oldest : Nat, repair : BOOLEAN, family : DOMAIN Families,
             page : Nat, index : Nat \ {0}, active : Conversations \cup {None}] \cup {None}]

ResumeCursor(kind) ==
    CASE kind = "messages" -> [history : Nat, phase : {"history"}]
      [] kind = "replies" -> [active : Nat, replies : Nat, pending : SUBSET Nat,
                              phase : {"history", "threads"}]
      [] OTHER -> {}

HasNextPage(f, p) == Len(Families[f]) > (p + 1) * ConvsPerPage
Page(f, p) == SubSeq(Families[f], p * ConvsPerPage + 1,
                     IF HasNextPage(f, p) THEN (p + 1) * ConvsPerPage ELSE Len(Families[f]))

-----------------------------------------------------------------------------
(* One conversation. *)

Unread == [history |-> 0, historyDone |-> FALSE, pending |-> {}, active |-> 0,
           replies |-> 0, threads |-> FALSE]

Phase(s) ==
    CASE ~s.historyDone -> "history"
      [] s.historyDone /\ (s.active # 0 \/ s.pending # {}) -> "threads"
      [] OTHER -> "complete"

(* slackResumeStateFromProofs: a conversation that has no resumable proof  *)
(* starts over.                                                            *)
ResumeState(proofs, c) ==
    LET m == ResumeOf(proofs, c, "messages")
        r == ResumeOf(proofs, c, "replies")
        pastHistory(x) == x # None /\ x.phase # "history"
    IN  [history |-> IF m = None THEN 0 ELSE m.history,
         historyDone |-> pastHistory(m) \/ pastHistory(r),
         pending |-> IF r = None THEN {} ELSE r.pending,
         active |-> IF r = None THEN 0 ELSE r.active,
         replies |-> IF r = None THEN 0 ELSE r.replies,
         threads |-> (m # None \/ r # None) /\ HasProof(proofs, c, "replies")]

HistoryRequest(box, c, oldest, b) ==
    LET s == b.state
        older == {i \in TopLevel(box, c) : i >= oldest /\ (s.history = 0 \/ i < s.history)}
        got == {i \in older : i = NewestOf(older)}
        roots == {i \in got : Replies(box, i) # {}}
    IN  [messages |-> b.messages \cup got,
         state |-> [s EXCEPT !.pending = @ \cup roots, !.threads = @ \/ roots # {},
                             !.history = IF older = got THEN 0 ELSE NewestOf(got),
                             !.historyDone = older = got]]

RepliesRequest(box, b) ==
    LET s == b.state
        thread == IF s.active # 0 THEN s.active ELSE NewestOf(s.pending)
        later == {i \in Replies(box, thread) : s.active = 0 \/ i > s.replies}
        got == {i \in later : i = OldestOf(later)}
        ended == later = got
    IN  [messages |-> b.messages \cup got,
         state |-> [s EXCEPT !.pending = @ \ {thread},
                             !.active = IF ended THEN 0 ELSE thread,
                             !.replies = IF ended THEN 0 ELSE OldestOf(got)]]

(* listConversationMessagesBatch: one message answers a request.           *)
Batch(box, c, oldest, s0) ==
    LET b[n \in 0..PageBudget] ==
            IF n = 0 THEN [messages |-> {}, state |-> s0]
            ELSE CASE Phase(b[n - 1].state) = "history" -> HistoryRequest(box, c, oldest, b[n - 1])
                   [] Phase(b[n - 1].state) = "threads" -> RepliesRequest(box, b[n - 1])
                   [] OTHER -> b[n - 1]
    IN  b[PageBudget]

(* buildSlackBackfillSyncProofs.  A conversation Slack refuses to open     *)
(* leaves a blocked proof and counts as finished.                          *)
BackfillProofs(c, scan, s, refused) ==
    LET done == Phase(s) = "complete"
        messages == Proof(CASE refused -> "blocked"
                            [] Phase(s) = "history" /\ ~refused -> "running"
                            [] OTHER -> "complete", TRUE, scan.started,
                          IF refused \/ Phase(s) # "history" THEN None
                          ELSE [history |-> s.history, phase |-> Phase(s)])
        replies == Proof(IF done THEN "complete" ELSE "running", TRUE, scan.started,
                         IF done THEN None
                         ELSE [active |-> s.active, replies |-> s.replies,
                               pending |-> s.pending, phase |-> Phase(s)])
    IN     << ProofWrite(c, "messages", messages) >>
        \o (IF s.threads THEN << ProofWrite(c, "replies", replies) >> ELSE <<>>)
        \o (IF scan.oldest = 0 /\ done /\ ~refused
            THEN << ProofWrite(c, "history", Proof("complete", TRUE, scan.started, None)) >>
            ELSE <<>>)

-----------------------------------------------------------------------------
(* The scan of the account. *)

(* If only the first page of a family were scanned.                        *)
NextScanOnFirstPage(scan, i) ==
    CASE i < Len(Page(scan.family, scan.page)) ->
            [scan EXCEPT !.index = i + 1, !.active = None]
      [] i >= Len(Page(scan.family, scan.page)) /\ scan.family < Len(Families) ->
            [scan EXCEPT !.family = @ + 1, !.page = 0, !.index = 1, !.active = None]
      [] OTHER -> None

(* Where the scan goes once the conversation at i of its page is finished. *)
NextScan(scan, i) ==
    CASE i < Len(Page(scan.family, scan.page)) ->
            [scan EXCEPT !.index = i + 1, !.active = None]
      [] i >= Len(Page(scan.family, scan.page)) /\ HasNextPage(scan.family, scan.page) ->
            [scan EXCEPT !.page = @ + 1, !.index = 1, !.active = None]
      [] i >= Len(Page(scan.family, scan.page)) /\ ~HasNextPage(scan.family, scan.page)
         /\ scan.family < Len(Families) ->
            [scan EXCEPT !.family = @ + 1, !.page = 0, !.index = 1, !.active = None]
      [] OTHER -> None

AfterConversation(last, hydrated, scan, next) ==
    [last |-> IF next = None /\ ~scan.repair THEN scan.started ELSE last,
     hydrated |-> hydrated, scan |-> next]

FullScan(box, proofs, refused, last, hydrated, scan, before) ==
    LET page == Page(scan.family, scan.page)
        at == {i \in DOMAIN page : page[i] = scan.active}
        from == IF at # {} THEN OldestOf(at)
                ELSE IF scan.index > Len(page) THEN Len(page) ELSE scan.index
        open == {i \in DOMAIN page : i >= from /\ page[i] \notin hydrated}
        i == OldestOf(open)
        c == page[i]
        start == IF scan.active = c THEN ResumeState(proofs, c) ELSE Unread
        b == IF c \in refused THEN [messages |-> {}, state |-> start]
             ELSE Batch(box, c, scan.oldest, start)
        complete == c \in refused \/ Phase(b.state) = "complete"
        next == NextScan(scan, i)
        past == NextScan(scan, Len(page))
        hydrates == scan.oldest = 0 /\ complete /\ c \notin refused
    IN  CASE open = {} ->
                Bundle(before.events, before.writes,
                       AfterConversation(last, hydrated, scan, past), past # None)
          [] open # {} /\ complete ->
                Bundle(before.events \cup b.messages,
                       before.writes \o BackfillProofs(c, scan, b.state, c \in refused),
                       AfterConversation(last, hydrated \cup (IF hydrates THEN {c} ELSE {}),
                                         scan, next),
                       next # None)
          [] OTHER ->
                Bundle(before.events \cup b.messages,
                       before.writes \o BackfillProofs(c, scan, b.state, FALSE),
                       [last |-> last, hydrated |-> hydrated,
                        scan |-> [scan EXCEPT !.index = i, !.active = c]],
                       TRUE)

(* The window of an incremental run: what was sent since the last one, and *)
(* the replies to it.                                                      *)
Window(box, c, oldest) ==
    LET sent == {i \in TopLevel(box, c) : i >= oldest}
    IN  sent \cup {i \in DOMAIN box : box[i].root \in sent}

WindowProofs(box, c, scan) ==
    LET complete == Proof("complete", FALSE, scan.started, None)
        threads == \E i \in TopLevel(box, c) : i >= scan.oldest /\ Replies(box, i) # {}
    IN  CASE TopLevel(box, c) # {} /\ NewestOf(TopLevel(box, c)) < scan.oldest -> <<>>
          [] OTHER -> << ProofWrite(c, "messages", complete) >>
                      \o (IF threads THEN << ProofWrite(c, "replies", complete) >> ELSE <<>>)

IncrementalPages(box, scan, families) ==
    [events |-> UNION {Window(box, c, scan.oldest) : c \in UNION {ToSet(Page(f, 0)) : f \in families}},
     writes |-> FlattenSeq([f \in DOMAIN Families |->
                    IF f \in families
                    THEN FlattenSeq([i \in DOMAIN Page(f, 0) |->
                                        WindowProofs(box, Page(f, 0)[i], scan)])
                    ELSE <<>>])]

(* buildSlackSyncBundle.  An incremental run that meets a conversation     *)
(* with no complete history on the first page of a family turns into a     *)
(* scan of the history from there.                                         *)
Run(box, cursor, proofs, base, refused) ==
    LET last == IF cursor = None THEN 0 ELSE cursor.last
        hydrated == IF cursor = None THEN {} ELSE cursor.hydrated
        fresh == [started |-> base, oldest |-> last, repair |-> FALSE,
                  family |-> 1, page |-> 0, index |-> 1, active |-> None]
        full == last = 0 \/ (cursor # None /\ cursor.scan # None)
        scan == IF cursor # None /\ cursor.scan # None THEN cursor.scan ELSE fresh
        missing(f) == {i \in DOMAIN Page(f, 0) : Page(f, 0)[i] \notin hydrated}
        gaps == {f \in DOMAIN Families : missing(f) # {}}
        repaired == [scan EXCEPT !.repair = TRUE, !.oldest = 0, !.family = OldestOf(gaps),
                                 !.index = OldestOf(missing(OldestOf(gaps)))]
        done == IncrementalPages(box, scan, DOMAIN Families)
    IN  CASE full ->
                FullScan(box, proofs, refused, last, hydrated, scan,
                         [events |-> {}, writes |-> <<>>])
          [] ~full /\ gaps # {} ->
                FullScan(box, proofs, refused, last, hydrated, repaired,
                         IncrementalPages(box, scan, 1..(OldestOf(gaps) - 1)))
          [] OTHER ->
                Bundle(done.events, done.writes,
                       [last |-> scan.started, hydrated |-> hydrated, scan |-> None], FALSE)
=============================================================================
