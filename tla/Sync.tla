-------------------------------- MODULE Sync --------------------------------
(***************************************************************************)
(* Ingest: how the history of an account gets into raw events.  A run      *)
(* reads the checkpoint and the proofs, lets the adapter of its platform   *)
(* fetch as much as its budget allows, and stores what came back: the      *)
(* messages, the proofs, and last the checkpoint with the next source      *)
(* cursor.  What the adapter does is in the module of the platform; here   *)
(* is what can happen to a run.  Mail arrives while it works, the adapter  *)
(* fails, the daemon dies between two writes, a run that lost its lease    *)
(* goes on beside the next one and stores what it read long ago, and the   *)
(* user removes the account or resets the source.                          *)
(*                                                                         *)
(* One behaviour is about one account of one platform.                     *)
(***************************************************************************)
EXTENDS Provider, SequencesExt, TLC

CONSTANTS
    Platforms,           \* the platforms a behaviour can be about
    Families, ConvsPerPage, ConversationBudget, PageBudget,
    ChannelsPerRun, BackfillsPerRun, BatchLimit,   \* the limits of the adapters
    DesktopOverlap,      \* what the helper reads again after an import
    CallLog,             \* the conversation that stands for the calls of this machine
    InitialMessages,     \* bound: messages the account has at first
    MaxMessages,         \* bound: messages in the end
    MaxFaults,           \* bound: edits, imports, failures, crashes, lost leases, resets
    Perils               \* what befalls the runs of a platform beside failures

Jobs == {1, 2}

(* Perils: runs that overlap, crashes between the writes of a run after    *)
(* its first proof, and resets while a run is under way.                   *)
ASSUME SyncAssumption ==
    /\ Platforms \subseteq {"slack", "gmail", "discord", "linkedin", "whatsapp",
                            "imessage", "contacts", "signal"}
    /\ BatchLimit \in Nat \ {0} /\ DesktopOverlap \in Nat /\ CallLog \in Conversations
    /\ \A f \in DOMAIN Families : ToSet(Families[f]) \subseteq Conversations
    /\ PageBudget \in Nat \ {0} /\ ConvsPerPage \in Nat \ {0}
    /\ Perils \in [Platforms -> SUBSET {"overlap", "cut", "reset"}]
    /\ MaxFaults \in Nat

VARIABLES
    platform,     \* the platform of this behaviour
    refused,      \* the conversations Slack refuses to open
    box, older,   \* the account at the provider, and how many messages it began with
    taken,        \* what Signal has handed over, to a run or to the session
    events,       \* raw events: the messages stored
    checkpoint,   \* the source cursor of the checkpoint, or None
    proofs,       \* the proofs, by scope and kind
    jobs,         \* the runs under way
    faults        \* how many of them there were

vars == <<platform, refused, box, older, taken, events, checkpoint, proofs, jobs, faults>>

Slack == INSTANCE SlackSync
Gmail == INSTANCE GmailSync
Discord == INSTANCE DiscordSync
LinkedIn == INSTANCE LinkedInSync
WhatsApp == INSTANCE WhatsAppSync
IMessage == INSTANCE IMessageSync
AddressBook == INSTANCE ContactsSync
Signal == INSTANCE SignalSync

Idle == [at |-> "idle", stale |-> FALSE]

(* A source cursor as the adapter that wrote it will read it again.        *)
SourceCursor ==
    CASE platform = "slack" -> Slack!SourceCursor
      [] platform = "gmail" -> Gmail!SourceCursor
      [] platform = "discord" -> Discord!SourceCursor
      [] platform = "linkedin" -> LinkedIn!SourceCursor
      [] platform = "whatsapp" -> WhatsApp!SourceCursor
      [] platform = "imessage" -> IMessage!SourceCursor
      [] platform = "contacts" -> AddressBook!SourceCursor
      [] platform = "signal" -> Signal!SourceCursor

(* What a proof may hold to resume from, by its kind.                      *)
ResumeCursor(kind) ==
    CASE platform = "slack" -> Slack!ResumeCursor(kind)
      [] platform = "discord" -> Discord!ResumeCursor
      [] platform = "linkedin" -> LinkedIn!ResumeCursor(kind)
      [] OTHER -> {}

(* The shape of mailbox, stored state and runs. *)
TypeOK ==
    /\ platform \in Platforms /\ refused \subseteq Conversations
    /\ box \in Seq(Message) /\ Len(box) <= MaxMessages /\ older \in 0..Len(box)
    /\ taken \subseteq DOMAIN box
    /\ \A e \in events : e \in DOMAIN box \/ \E i \in DOMAIN box : 0 - e <= box[i].at
    /\ checkpoint = None \/ checkpoint \in SourceCursor
    /\ \A k \in DOMAIN proofs :
          /\ k[1] \in Conversations \cup {Account}
          /\ k[2] \in {"discovery", "messages", "latest_messages", "replies", "history"}
          /\ proofs[k].status \in {"running", "complete", "failed", "blocked"}
          /\ proofs[k].resume = None \/ proofs[k].resume \in ResumeCursor(k[2])
    /\ \A j \in Jobs : jobs[j].at \in {"idle", "fetching", "storing"}
    /\ faults \in 0..MaxFaults

-----------------------------------------------------------------------------
(* The account.  Only Slack has threads, and only Slack refuses.           *)

CanArrive(b, m) ==
    \/ m.root = 0
    \/ platform = "slack" /\ m.root \in TopLevel(b, m.conv)

Mailboxes(n) ==
    {b \in [1..n -> [conv : Conversations, root : 0..n, sent : 1..n, at : 1..n]] :
        \A i \in 1..n : b[i].sent = i /\ b[i].at = i /\ b[i].root < i /\ CanArrive(b, b[i])}

Arrive ==
    /\ Len(box) < MaxMessages
    /\ \E c \in Conversations, t \in 0..Len(box) :
          LET m == [conv |-> c, root |-> t, sent |-> Now(box), at |-> Now(box)]
          IN  CanArrive(box, m) /\ box' = Append(box, m)
    /\ UNCHANGED <<platform, refused, older, taken, events, checkpoint, proofs, jobs, faults>>

Fault == faults < MaxFaults /\ faults' = faults + 1

(* A receipt or a late part of the history touches a cached message; a     *)
(* message of Messages is edited or taken back, a contact is changed.      *)
Touch ==
    /\ platform \in {"whatsapp", "imessage", "contacts"}
    /\ Fault
    /\ \E i \in DOMAIN box :
          /\ platform = "imessage" => box[i].conv # CallLog
          /\ box' = [box EXCEPT ![i].at = Now(box)]
    /\ UNCHANGED <<platform, refused, older, taken, events, checkpoint, proofs, jobs>>

-----------------------------------------------------------------------------
(* Live messages.  A session hands a message that has just been sent to    *)
(* the daemon, which stores it and writes the checkpoint anew with the     *)
(* source cursor that stands there: the next run starts where it would     *)
(* have.  Where no run has stored a cursor yet there is none afterwards.   *)

Live(i) == i \in DOMAIN box /\ i > older /\ i \notin events

IngestRealtime(i) ==
    /\ Live(i)
    /\ events' = events \cup {i}
    /\ UNCHANGED <<platform, refused, box, older, checkpoint, proofs, jobs, faults>>

(* While a projection is at work a message of Slack is left to a sync.     *)
IngestSlack == platform = "slack" /\ \E i \in DOMAIN box : IngestRealtime(i) /\ UNCHANGED taken
IngestDiscord == platform = "discord" /\ \E i \in DOMAIN box : IngestRealtime(i) /\ UNCHANGED taken
IngestLinkedIn == platform = "linkedin" /\ \E i \in DOMAIN box : IngestRealtime(i) /\ UNCHANGED taken
IngestWhatsApp == platform = "whatsapp" /\ \E i \in DOMAIN box : IngestRealtime(i) /\ UNCHANGED taken

(* A Signal session receives what a run would have received.               *)
IngestSignal ==
    /\ platform = "signal"
    /\ \E i \in DOMAIN box \ taken : IngestRealtime(i) /\ taken' = taken \cup {i}

-----------------------------------------------------------------------------
(* The runs. *)

(* selectAdapterInvocationProofs *)
Selected(cursor) ==
    LET active == IF cursor = None THEN None
                  ELSE IF cursor.scan = None THEN None ELSE cursor.scan.active
        passed(k) == CASE platform = "slack" -> k[1] = active /\ k[2] # "history"
                       [] platform = "linkedin" -> \/ k[1] = active
                                                   \/ k[1] = Account /\ proofs[k].status = "running"
                       [] platform = "discord" -> TRUE
                       [] OTHER -> proofs[k].status = "running"
    IN  [k \in {l \in DOMAIN proofs : passed(l)} |-> proofs[k]]

(* A run is claimed when no other holds a lease for the account.           *)
Start(j) ==
    LET holders == {i \in Jobs : jobs[i].at # "idle" /\ ~jobs[i].stale}
    IN  /\ jobs[j].at = "idle"
        /\ IF holders = {} THEN UNCHANGED faults ELSE Fault /\ "overlap" \in Perils[platform]
        /\ jobs' = [i \in Jobs |->
                       IF i = j THEN [at |-> "fetching", stale |-> FALSE, base |-> Now(box),
                                      cursor |-> checkpoint, proofs |-> Selected(checkpoint)]
                       ELSE [jobs[i] EXCEPT !.stale = jobs[i].at # "idle"]]
        /\ UNCHANGED <<platform, refused, box, older, taken, events, checkpoint, proofs>>

(* Requests of Discord may fail for one channel and leave the rest of the  *)
(* run standing.                                                           *)
Fetched(job, failing) ==
    CASE platform = "slack" -> Slack!Run(box, job.cursor, job.proofs, job.base, refused)
      [] platform = "gmail" -> Gmail!Run(box, job.cursor, job.base)
      [] platform = "discord" -> Discord!Run(box, job.cursor, job.proofs, job.base, failing)
      [] platform = "linkedin" -> LinkedIn!Run(box, job.cursor, job.proofs, job.base)
      [] platform = "whatsapp" -> WhatsApp!Run(box, job.cursor, job.base)
      [] platform = "imessage" -> IMessage!Run(box, job.cursor)
      [] platform = "contacts" -> AddressBook!Run(box, job.base)
      [] platform = "signal" -> Signal!Run(box, taken, job.base)

Fetch(j) ==
    /\ jobs[j].at = "fetching"
    /\ \E failing \in {None} \cup (IF platform = "discord" THEN Conversations ELSE {}) :
          /\ IF failing = None THEN UNCHANGED faults ELSE Fault
          /\ jobs' = [jobs EXCEPT ![j] = [at |-> "storing", stale |-> @.stale,
                                          bundle |-> Fetched(jobs[j], failing)]]
    /\ taken' = IF platform = "signal" THEN DOMAIN box ELSE taken
    /\ UNCHANGED <<platform, refused, box, older, events, checkpoint, proofs>>

(* A run the user has queued to import the database of the application.    *)
ImportDesktop(j) ==
    /\ platform = "whatsapp" /\ jobs[j].at = "fetching"
    /\ Fault
    /\ \E D \in WhatsApp!Desktops(box) :
          jobs' = [jobs EXCEPT ![j] = [at |-> "storing", stale |-> @.stale,
                      bundle |-> WhatsApp!Import(box, jobs[j].cursor, D, jobs[j].base)]]
    /\ UNCHANGED <<platform, refused, box, older, taken, events, checkpoint, proofs>>

Fail(j) ==
    /\ jobs[j].at = "fetching"
    /\ Fault
    /\ jobs' = [jobs EXCEPT ![j] = Idle]
    /\ UNCHANGED <<platform, refused, box, older, taken, events, checkpoint, proofs>>

Written(writes) == FoldSeq(LAMBDA w, p : (w.key :> w.proof) @@ p, proofs, writes)

(* The end of processIngestRun.  Only the end of the run itself asks for   *)
(* the claim.                                                              *)
Store(j) ==
    /\ jobs[j].at = "storing"
    /\ events' = events \cup jobs[j].bundle.events
    /\ proofs' = Written(jobs[j].bundle.writes)
    /\ checkpoint' = jobs[j].bundle.cursor
    /\ jobs' = [jobs EXCEPT ![j] = Idle]
    /\ UNCHANGED <<platform, refused, box, older, taken, faults>>

(* If the events were inserted after the proofs.                           *)
CrashBeforeEvents ==
    /\ Fault
    /\ \E j \in Jobs : jobs[j].at # "idle"
    /\ jobs' = [j \in Jobs |-> Idle]
    /\ \E j \in Jobs :
          /\ jobs[j].at = "storing"
          /\ \E n \in 0..Len(jobs[j].bundle.writes) :
                /\ n = 0 \/ "cut" \in Perils[platform]
                /\ proofs' = Written(SubSeq(jobs[j].bundle.writes, 1, n))
    /\ UNCHANGED <<platform, refused, box, older, taken, events, checkpoint>>

(* The daemon dies, perhaps after some of the writes of a run.             *)
Crash ==
    /\ Fault
    /\ \E j \in Jobs : jobs[j].at # "idle"
    /\ jobs' = [j \in Jobs |-> Idle]
    /\ \/ UNCHANGED <<events, proofs>>
       \/ \E j \in Jobs :
             /\ jobs[j].at = "storing"
             /\ events' = events \cup jobs[j].bundle.events
             /\ \E n \in 0..Len(jobs[j].bundle.writes) :
                   /\ n = 0 \/ "cut" \in Perils[platform]
                   /\ proofs' = Written(SubSeq(jobs[j].bundle.writes, 1, n))
    /\ UNCHANGED <<platform, refused, box, older, taken, checkpoint>>

-----------------------------------------------------------------------------
(* The user.  Removing an account forgets how far it was synced and keeps  *)
(* its events; resetting a source drops both.                              *)

Forget ==
    /\ Fault
    /\ checkpoint' = None /\ proofs' = <<>>
    /\ UNCHANGED <<platform, refused, box, older, taken, jobs>>

ClearIntegrationRuntimeState == Forget /\ UNCHANGED events

ResetSource ==
    /\ "reset" \in Perils[platform] \/ \A j \in Jobs : jobs[j].at = "idle"
    /\ Forget
    /\ events' = {}

Init ==
    /\ platform \in Platforms
    /\ refused \in (IF platform = "slack" THEN {{}} \cup {{c} : c \in Conversations} ELSE {{}})
    /\ box \in Mailboxes(InitialMessages) /\ older = InitialMessages
    /\ taken = {} /\ events = {} /\ checkpoint = None /\ proofs = <<>>
    /\ jobs = [j \in Jobs |-> Idle]
    /\ faults = 0

Next ==
    \/ Arrive \/ Touch
    \/ IngestSlack \/ IngestDiscord \/ IngestLinkedIn \/ IngestWhatsApp \/ IngestSignal
    \/ \E j \in Jobs : Start(j) \/ Fetch(j) \/ ImportDesktop(j) \/ Fail(j) \/ Store(j)
    \/ Crash
    \/ ClearIntegrationRuntimeState \/ ResetSource

(* Every account that can be synced is, and every adapter is given a time  *)
(* in which it answers or is killed.                                       *)
Fairness ==
    /\ WF_vars(\E j \in Jobs : Start(j))
    /\ \A j \in Jobs : []<>(jobs[j].at # "fetching") /\ WF_vars(Store(j))

Spec == Init /\ [][Next]_vars /\ Fairness

-----------------------------------------------------------------------------
(* Properties. *)

(* The scopes whose history a stored proof calls complete.                 *)
ProvenComplete(c) ==
    CASE platform = "slack" -> HasProof(proofs, c, "history")
      [] platform = "gmail" -> /\ HasProof(proofs, Account, "messages")
                               /\ proofs[<<Account, "messages">>].status = "complete"
      [] platform \in {"discord", "linkedin"} ->
            /\ HasProof(proofs, c, "messages")
            /\ proofs[<<c, "messages">>].status = "complete"
            /\ platform = "linkedin" => proofs[<<c, "messages">>].full
      [] OTHER -> FALSE

Reach(c) ==
    CASE platform = "slack" -> proofs[<<c, "history">>].reach
      [] platform = "gmail" -> proofs[<<Account, "messages">>].reach
      [] OTHER -> proofs[<<c, "messages">>].reach

(* A history that is proven complete is: whatever the conversation held    *)
(* before the point the proof speaks of is in raw events, replies          *)
(* included; everything the WhatsApp cache had touched when the last       *)
(* resync ended is; and every row of this machine up to the cursor.  Runs  *)
(* that failed, were cut off between two writes or  *)
(* went on without their lease change nothing about it.                    *)
HistoryIsExhaustive ==
    /\ \A c \in Conversations :
          ProvenComplete(c) => Before(InConversation(box, c), Reach(c)) \subseteq events
    /\ platform = "whatsapp" /\ checkpoint # None =>
          (checkpoint.resync = None =>
              {i \in DOMAIN box : box[i].at <= checkpoint.last} \subseteq events)
    /\ platform = "imessage" /\ checkpoint # None =>
          {i \in DOMAIN box : i <= IF box[i].conv = CallLog THEN checkpoint.call
                                   ELSE checkpoint.row} \subseteq events

(* What is to be fetched whatever the provider sends meanwhile: what the   *)
(* account held at first, except what Slack refuses to show; of WhatsApp   *)
(* all there ever was, and of this machine's databases the last edits too. *)
(* What Signal has handed over is lost with the run that did not store it. *)
Expected ==
    CASE platform = "whatsapp" -> DOMAIN box
      [] platform \in {"imessage", "contacts"} -> Versions(box, DOMAIN box)
      [] platform = "signal" -> IF faults = 0 THEN DOMAIN box ELSE {}
      [] OTHER -> {i \in 1..older : box[i].conv \notin refused}

(* It is fetched in the end and stays, although runs fail, die or overlap  *)
(* and mail arrives meanwhile.  Of LinkedIn this is true only where one    *)
(* run lists every conversation.                                           *)
BackfillCompletes == platform # "linkedin" => <>[](Expected \subseteq events)

=============================================================================
