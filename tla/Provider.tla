------------------------------ MODULE Provider ------------------------------
(***************************************************************************)
(* What the sync adapters see of a message provider, and what they hand    *)
(* back to the daemon.  A mailbox is a sequence of messages; the place of  *)
(* a message in it is its identifier, by which its time is told too, and a *)
(* message whose root is not zero is a reply in the thread of that root.   *)
(* The time a message was last touched is kept because the WhatsApp helper *)
(* pages by it; where a message can be edited, it is the time of the edit. *)
(***************************************************************************)
EXTENDS Integers, Sequences, FiniteSets

CONSTANTS
    Conversations,  \* the conversations, channels or chats of the account
    None            \* no cursor, no proof, no position

Account == "account"    \* the scope of a proof about the whole account
Message == [conv : Conversations, root : Nat, sent : Nat, at : Nat]

NewestOf(S) == CHOOSE i \in S : \A j \in S : j <= i
OldestOf(S) == CHOOSE i \in S : \A j \in S : i <= j

Now(box) == IF box = <<>> THEN 1 ELSE NewestOf({box[i].at : i \in DOMAIN box}) + 1

InConversation(box, c) == {i \in DOMAIN box : box[i].conv = c}
TopLevel(box, c) == {i \in InConversation(box, c) : box[i].root = 0}
Replies(box, t) == {i \in DOMAIN box : box[i].root = t}
Before(S, i) == {j \in S : j < i}
Oldest(S, n) == {i \in S : Cardinality(Before(S, i)) < n}

(* A raw event is told apart by its message, and that of an edit by the    *)
(* time of the edit, negative so that the two are not confused.            *)
Edited(m) == m.at # m.sent
Edit(m) == 0 - m.at
Versions(box, S) == S \cup {Edit(box[i]) : i \in {j \in S : Edited(box[j])}}

(* A proof as it is stored under a scope and a kind: whether a scan of the *)
(* whole history wrote it, how far it reaches -- it speaks of what was     *)
(* sent before -- and where to resume.                                     *)
Proof(status, full, reach, resume) ==
    [status |-> status, full |-> full, reach |-> reach, resume |-> resume]
ProofWrite(scope, kind, proof) == [key |-> <<scope, kind>>, proof |-> proof]

HasProof(proofs, scope, kind) == <<scope, kind>> \in DOMAIN proofs
ResumeOf(proofs, scope, kind) ==
    IF HasProof(proofs, scope, kind) THEN proofs[<<scope, kind>>].resume ELSE None

(* What one run brings: the messages, the proofs in the order they are     *)
(* stored, the next source cursor and whether the run has to be continued. *)
Bundle(events, writes, cursor, hasMore) ==
    [events |-> events, writes |-> writes, cursor |-> cursor, hasMore |-> hasMore]
=============================================================================
