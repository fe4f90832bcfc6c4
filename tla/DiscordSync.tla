---------------------------- MODULE DiscordSync ----------------------------
(***************************************************************************)
(* One run of the Discord adapter.  The channels are listed with their     *)
(* latest message.  A channel that has been fetched before and has moved   *)
(* on is read back to where the source cursor saw it; a few that never     *)
(* were get their newest messages; and a few whose history is unfinished   *)
(* get one older page each, those left waiting longest first.  The first   *)
(* request that fails ends its part of the run.                            *)
(***************************************************************************)
EXTENDS Provider, SequencesExt

CONSTANTS
    ChannelsPerRun,   \* channels hydrated for the first time by one run
    BackfillsPerRun   \* pages of older messages one run asks for

(* parseDiscordSyncCursor and parseDiscordProofState *)
SourceCursor == [Conversations -> Nat]
ResumeCursor == [before : Nat, observed : Nat]

(* last_message_id as it was when the channels were listed; zero for none. *)
Latest(box, c, base) ==
    LET sent == Before(InConversation(box, c), base)
    IN  IF sent = {} THEN 0 ELSE NewestOf(sent)

Cursor(box, base) == [c \in Conversations |-> Latest(box, c, base)]
LastSeen(cursor, c) == IF cursor = None THEN 0 ELSE cursor[c]

Changed(box, cursor, proofs, base) ==
    {c \in Conversations : /\ HasProof(proofs, c, "messages")
                           /\ LastSeen(cursor, c) # 0
                           /\ Latest(box, c, base) > LastSeen(cursor, c)}

(* A channel the discovery cursor knows may never have been fetched.       *)
NeedsInitialHydration(box, cursor, proofs, c, base) ==
    /\ Latest(box, c, base) # 0
    /\ \/ LastSeen(cursor, c) = 0
       \/ ~HasProof(proofs, c, "messages")
       \/ ~HasProof(proofs, c, "latest_messages")
       \/ proofs[<<c, "latest_messages">>].status # "complete"
       \/ proofs[<<c, "latest_messages">>].reach # Latest(box, c, base) + 1

FirstOf(s, n) == IF Len(s) <= n THEN s ELSE SubSeq(s, 1, n)
NewestFirst(box, S, base) ==
    SetToSortSeq(S, LAMBDA c, d : Latest(box, c, base) > Latest(box, d, base))

HydrationTargets(box, cursor, proofs, base) ==
    LET changed == Changed(box, cursor, proofs, base)
        initial == {c \in Conversations \ changed :
                        NeedsInitialHydration(box, cursor, proofs, c, base)}
    IN  NewestFirst(box, changed, base)
        \o FirstOf(NewestFirst(box, initial, base), ChannelsPerRun)

BackfillTargets(proofs) ==
    LET unfinished == {c \in Conversations : /\ HasProof(proofs, c, "messages")
                                             /\ proofs[<<c, "messages">>].status # "complete"
                                             /\ ResumeOf(proofs, c, "messages") # None}
        observed(c) == ResumeOf(proofs, c, "messages").observed
    IN  FirstOf(SetToSortSeq(unfinished, LAMBDA c, d : observed(c) < observed(d)),
                BackfillsPerRun)

(* The targets that are reached before the first one that fails.           *)
Reached(targets, failing) ==
    {targets[i] : i \in {j \in DOMAIN targets : \A k \in 1..j : targets[k] # failing}}

(* A channel is read since where it was seen, or for the first time.       *)
Hydrated(box, proofs, cursor, c, base) ==
    IF c \in Changed(box, cursor, proofs, base)
    THEN {i \in InConversation(box, c) : i > LastSeen(cursor, c)}
    ELSE {i \in InConversation(box, c) : i = NewestOf(InConversation(box, c))}

OlderPage(box, proofs, c) ==
    LET older == Before(InConversation(box, c), ResumeOf(proofs, c, "messages").before)
    IN  {i \in older : i = NewestOf(older)}

Running(before, base, reach) ==
    Proof("running", FALSE, reach, [before |-> before, observed |-> base])

BackfillProof(proofs, c, page, failed, base) ==
    LET old == proofs[<<c, "messages">>]
    IN  CASE failed -> [old EXCEPT !.status = "failed", !.resume.observed = base]
          [] ~failed /\ page = {} -> Proof("complete", FALSE, old.reach, None)
          [] OTHER -> Running(OldestOf(page), base, old.reach)

(* What a channel's part of buildDiscordSyncProofs stores.                 *)
ChannelProofs(c, latest, broke, hydrated, initial, backfill) ==
    LET written(kind, proof) == << ProofWrite(c, kind, proof) >>
    IN  CASE broke -> written("latest_messages", Proof("failed", FALSE, latest + 1, None))
          [] ~broke -> (IF hydrated THEN written("latest_messages",
                                              Proof("complete", FALSE, latest + 1, None))
                        ELSE <<>>)
                    \o (CASE backfill # None -> written("messages", backfill)
                          [] backfill = None /\ initial # None -> written("messages", initial)
                          [] OTHER -> <<>>)

(* buildDiscordSyncBundle; failing is the channel whose requests fail.     *)
Run(box, cursor, proofs, base, failing) ==
    LET targets == HydrationTargets(box, cursor, proofs, base)
        reached == Reached(targets, failing)
        broke == failing \in ToSet(targets)
        backfills == BackfillTargets(proofs)
        paged == Reached(backfills, failing)
        got(c) == IF c \in reached THEN Hydrated(box, proofs, cursor, c, base) ELSE {}
        page(c) == IF c \in paged THEN OlderPage(box, proofs, c) ELSE {}
        initial(c) == IF c \notin reached \/ c \in Changed(box, cursor, proofs, base) THEN None
                      ELSE Running(OldestOf(got(c)), base, NewestOf(got(c)) + 1)
        backfill(c) == IF c \in paged \/ (c = failing /\ c \in ToSet(backfills))
                       THEN BackfillProof(proofs, c, page(c), c = failing, base)
                       ELSE None
        order == SetToSeq(Conversations)
        writes == FlattenSeq([i \in DOMAIN order |->
                     LET c == order[i] IN
                     ChannelProofs(c, Latest(box, c, base), broke /\ c = failing,
                                   c \in reached, initial(c), backfill(c))])
        pending == ~broke /\ \E c \in Conversations \ reached :
                                NeedsInitialHydration(box, cursor, proofs, c, base)
        running == \E i \in DOMAIN writes :
                      writes[i].key[2] = "messages" /\ writes[i].proof.status = "running"
    IN  Bundle(UNION {got(c) \cup page(c) : c \in Conversations}, writes,
               Cursor(box, base), pending \/ running)
=============================================================================
