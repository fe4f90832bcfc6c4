---------------------------- MODULE LinkedInSync ----------------------------
(***************************************************************************)
(* One run of the LinkedIn adapter.  The full scan lists conversations by  *)
(* their last activity, as far as a budget reaches, and reads the messages *)
(* of each, newest first, until a conversation takes more than one run.    *)
(* That conversation and those behind it are kept in the source cursor,    *)
(* the place in its messages in a proof, and the place in the list in both *)
(* the cursor and the discovery proof.  Later runs list what changed since *)
(* a token and take the newest page of each.                               *)
(***************************************************************************)
EXTENDS Provider, SequencesExt

CONSTANTS
    ConversationBudget,   \* conversations one run lists
    PageBudget            \* pages of one conversation one run reads, of one message each

(* parseLinkedInSourceCursor; a discovery proof has a scan, and one about  *)
(* messages a place in them.                                               *)
Scan == [started : Nat, before : Nat, active : Conversations \cup {None},
         pending : Seq(Conversations)]
SourceCursor == [last : Nat, token : Nat, scan : Scan \cup {None}]
ResumeCursor(kind) == IF kind = "discovery" THEN Scan ELSE Nat

LastActivity(box, c) == NewestOf(InConversation(box, c))

(* Conversations with activity in S, the most recent first.                *)
ByActivity(box, S) ==
    SetToSortSeq({c \in Conversations : InConversation(box, c) # {} /\ LastActivity(box, c) \in S},
                 LAMBDA c, d : LastActivity(box, c) > LastActivity(box, d))

(* listConversations: what an earlier run left comes first, then the list  *)
(* goes on before the oldest activity it has reached.  A list that fills   *)
(* the budget counts as unfinished.  Its head comes with a token.          *)
ListConversations(box, scan) ==
    LET left == (IF scan.active = None THEN <<>> ELSE << scan.active >>) \o scan.pending
        rest == ByActivity(box, IF scan.before = 0 THEN DOMAIN box
                                ELSE Before(DOMAIN box, scan.before))
        full == Len(rest) >= ConversationBudget
        listed == IF full THEN SubSeq(rest, 1, ConversationBudget) ELSE rest
    IN  IF left # <<>> THEN [conversations |-> left, before |-> scan.before, head |-> FALSE]
        ELSE [conversations |-> listed, head |-> scan.before = 0,
              before |-> IF full THEN LastActivity(box, Last(listed)) ELSE 0]

(* listMessagesForConversation: the end shows as an empty page.            *)
ListMessages(box, c, before) ==
    LET rest == IF before = 0 THEN InConversation(box, c)
                ELSE Before(InConversation(box, c), before)
        newest == {i \in rest : Cardinality({j \in rest : j > i}) < PageBudget}
    IN  [messages |-> newest, complete |-> Cardinality(rest) < PageBudget]

(* Where the active conversation is resumed; another one starts over.      *)
ResumeAt(proofs, scan, c) ==
    IF c = scan.active /\ ResumeOf(proofs, c, "messages") # None
    THEN ResumeOf(proofs, c, "messages") ELSE 0

MessagesProof(c, full, started, read) ==
    ProofWrite(c, "messages",
               Proof(IF read.complete THEN "complete" ELSE "running", full, started,
                     IF read.complete THEN None ELSE OldestOf(read.messages)))

DiscoveryProof(full, started, before) ==
    ProofWrite(Account, "discovery",
               Proof(IF before = 0 THEN "complete" ELSE "running", full, started,
                     IF before = 0 THEN None
                     ELSE [started |-> started, before |-> before,
                           active |-> None, pending |-> <<>>]))

(* The conversations are read in turn until one is not finished.           *)
FullScan(box, cursor, proofs, scan, base) ==
    LET list == ListConversations(box, scan)
        convs == list.conversations
        read(c) == ListMessages(box, c, ResumeAt(proofs, scan, c))
        open == {i \in DOMAIN convs : ~read(convs[i]).complete}
        stop == IF open = {} THEN Len(convs) ELSE OldestOf(open)
        hasMore == open # {} \/ list.before # 0
        next == [started |-> scan.started, before |-> list.before,
                 active |-> IF open = {} THEN None ELSE convs[stop],
                 pending |-> IF open = {} THEN <<>> ELSE SubSeq(convs, stop + 1, Len(convs))]
    IN  Bundle(UNION {read(convs[i]).messages : i \in 1..stop},
               << DiscoveryProof(TRUE, scan.started, list.before) >>
               \o [i \in 1..stop |-> MessagesProof(convs[i], TRUE, scan.started, read(convs[i]))],
               [last |-> IF ~hasMore THEN base ELSE IF cursor = None THEN 0 ELSE cursor.last,
                token |-> IF list.head THEN base ELSE IF cursor = None THEN 0 ELSE cursor.token,
                scan |-> IF hasMore THEN next ELSE None],
               hasMore)

Incremental(box, cursor, base) ==
    LET convs == ByActivity(box, {i \in DOMAIN box : i >= cursor.token})
        newest(c) == {i \in {LastActivity(box, c)} : i >= cursor.last}
        done == [complete |-> TRUE]
    IN  Bundle(UNION {newest(convs[i]) : i \in DOMAIN convs},
               << DiscoveryProof(FALSE, base, 0) >>
               \o [i \in DOMAIN convs |-> MessagesProof(convs[i], FALSE, base, done)],
               [last |-> base, token |-> base, scan |-> None], FALSE)

(* buildLinkedInSyncBundle: a running discovery proof has precedence over  *)
(* the scan of the source cursor.                                          *)
Run(box, cursor, proofs, base) ==
    LET discovery == ResumeOf(proofs, Account, "discovery")
        scan == CASE discovery # None -> discovery
                  [] discovery = None /\ cursor # None -> cursor.scan
                  [] OTHER -> None
        fresh == [started |-> base, before |-> 0, active |-> None, pending |-> <<>>]
    IN  CASE scan # None -> FullScan(box, cursor, proofs, scan, base)
          [] scan = None /\ cursor = None -> FullScan(box, cursor, proofs, fresh, base)
          [] OTHER -> Incremental(box, cursor, base)
=============================================================================
