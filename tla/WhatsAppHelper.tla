--------------------------- MODULE WhatsAppHelper ---------------------------
(***************************************************************************)
(* The WhatsApp helper and what the daemon makes of it.  The helper has    *)
(* three goroutines on one cache: one handles what the provider delivers,  *)
(* one applies history that was announced, one answers the daemon.  The    *)
(* first two tell the daemon of what they stored; what is lost on that     *)
(* way, the daemon's resync runs are to find in the cache.                 *)
(*                                                                         *)
(* The provider delivers again what the helper has not acknowledged.       *)
(* Writes to the cache do not fail here, and a chunk of history can be     *)
(* downloaded in the end.                                                  *)
(***************************************************************************)
EXTENDS WhatsAppCache, Sequences, SequencesExt

CONSTANTS
    Worlds,       \* what the provider may have for the helper, in order, and
                  \* the older history the phone may send
    PageLimit,    \* rows of a page
    PageBudget,   \* CUED_WHATSAPP_RESYNC_PAGE_BUDGET
    MaxTime,      \* bound: milliseconds
    MaxFaults     \* bound: failures of all kinds

(* What is delivered tells of one message or call; a chunk of history of   *)
(* any number.                                                             *)
Of(entries) == {{o} : o \in {o \in Observations : o.of \in entries}}

Items == [kind : {"message", "receipt"}, obs : Of(Messages)]
         \cup [kind : {"call", "deletion"}, obs : Of(Calls)]
         \cup [kind : {"history"}, obs : SUBSET Observations]

(* A resync that has more to bring, and what a run leaves for the next.    *)
Resyncs == [cursor : Cursor, since : Nat]
SourceCursors == [last : Nat \cup {None}, requested : BOOLEAN, resync : Resyncs \cup {None}]
Checkpoints == [source : SourceCursors \cup {None}, success : Nat \cup {None}]

ASSUME HelperAssumption ==
    /\ Worlds \subseteq [inbox : Seq(Items), phone : SUBSET Items]
    /\ \A w \in Worlds : IsFiniteSet(w.phone)
    /\ None \notin Resyncs \cup SourceCursors \cup Checkpoints
    /\ PageLimit \in Nat \ {0} /\ PageBudget \in Nat \ {0}
    /\ MaxTime \in Nat \ {0} /\ MaxFaults \in Nat

VARIABLES
    now,         \* the clock that helper and daemon share
    inbox,       \* what the provider has not been told is handled
    phone,       \* the history the phone has not sent
    handler,     \* the goroutine of events: its step
    cache,       \* the rows, by entry
    queue,       \* history_sync_notifications
    historian,   \* the goroutine of history: its step, and the batch it holds
    wake,        \* the channel historySyncWake is full
    helper,      \* down; offline or online, as the provider has it
    pipe,        \* the helper's standard output
    session,     \* the daemon's view: down, connecting, connected
    run,         \* the daemon's sync run
    checkpoint,  \* its source cursor and last_success_at
    stored,      \* what the daemon has in raw_events, by entry
    faults,
    acked, deleted, late, taken   \* auxiliary: see the properties

helperVars == <<handler, historian, wake, helper>>
cacheVars == <<cache, queue, late, deleted>>
daemonVars == <<session, run, checkpoint, stored>>
vars == <<now, inbox, phone, helperVars, cacheVars, pipe, daemonVars, faults, acked, taken>>

Loading == [pc |-> "loading", batch |-> {}]
NoRun == [pc |-> "none", since |-> 0, cursor |-> None, snapshot |-> 0, pages |-> 0,
          base |-> None]

Pages == [kind : {"page"}, obs : SUBSET Observations, snapshot : Nat, next : Cursor \cup {None}]

Events == [kind : {"connected", "disconnected"}]
          \cup [kind : {"data", "receipt", "deletion"}, obs : SUBSET Observations]
          \cup Pages

(* The shape of the state of provider, helper and daemon. *)
TypeOK ==
    /\ now \in 1..MaxTime
    /\ inbox \in Seq(Items) /\ phone \subseteq Items
    /\ handler \in {"idle", "checked", "stored"}
    /\ cache \in [Entries -> Rows]
    /\ queue \in Seq(SUBSET Observations)
    /\ historian \in [pc : {"idle", "loading", "filtered", "applied", "backoff"},
                      batch : SUBSET Observations]
    /\ wake \in BOOLEAN
    /\ helper \in {"down", "offline", "online"}
    /\ pipe \in Seq(Events)
    /\ session \in {"down", "connecting", "connected"}
    /\ run \in [pc : {"none", "backfill", "asked", "answered", "done"},
                since : Nat, cursor : Cursor \cup {None}, snapshot : Nat, pages : Nat,
                base : Checkpoints \cup {None}]
    /\ checkpoint \in Checkpoints
    /\ stored \in [Entries -> {"none", "plain", "revoked"}]
    /\ faults \in 0..MaxFaults
    /\ acked \subseteq Items
    /\ deleted \subseteq Calls /\ late \subseteq Entries /\ taken \in Nat

Init ==
    /\ now = 1
    /\ \E w \in Worlds : inbox = w.inbox /\ phone = w.phone
    /\ handler = "idle" /\ historian = Loading /\ wake = FALSE /\ helper = "down"
    /\ cache = [e \in Entries |-> None] /\ queue = <<>>
    /\ pipe = <<>> /\ session = "down" /\ run = NoRun
    /\ checkpoint = [source |-> None, success |-> None]
    /\ stored = [e \in Entries |-> "none"]
    /\ faults = 0 /\ acked = {} /\ deleted = {} /\ late = {} /\ taken = 0

Tick == /\ now < MaxTime
        /\ now' = now + 1
        /\ UNCHANGED <<inbox, phone, helperVars, cacheVars, pipe, daemonVars, faults, acked, taken>>

Fault == faults < MaxFaults /\ faults' = faults + 1

-----------------------------------------------------------------------------
(* The goroutine of events.                                                *)

Item == Head(inbox)
Told == CHOOSE o \in Item.obs : TRUE    \* of every kind but history

(* A row is stamped before its transaction commits, which takes less than a *)
(* tick here: `late` are the rows whose stamp is not above a snapshot that  *)
(* was taken before they came to light.                                    *)
StampedLate(obs) ==
    LET es == {o.of : o \in obs}
    IN  IF now <= taken THEN late \cup es ELSE late \ es

(* handleEvent, handleMessageEvent: a late original is dropped.            *)
HandleEvent ==
    /\ helper = "online" /\ handler = "idle" /\ inbox # <<>>
    /\ handler' =
         IF Item.kind = "message" /\ ~Told.revoked /\ Revoked(cache[Told.of])
         THEN "stored" ELSE "checked"
    /\ UNCHANGED <<now, inbox, phone, historian, wake, helper, cacheVars, pipe, daemonVars,
                   faults, acked, taken>>

Stored == /\ helper # "down" /\ handler = "checked"
          /\ handler' = "stored"
          /\ UNCHANGED <<now, inbox, phone, historian, helper, daemonVars, faults, acked, taken>>

(* setMessage, or handleAppStateEvent with a call. *)
StoreObservation ==
    /\ Stored /\ Item.kind \in {"message", "call"}
    /\ cache' = Apply(cache, Item.obs, now)
    /\ late' = StampedLate(Item.obs)
    /\ pipe' = Append(pipe, [kind |-> "data", obs |-> Item.obs])
    /\ UNCHANGED <<queue, deleted, wake>>

(* handleReceiptEvent *)
StoreReceipt ==
    /\ Stored /\ Item.kind = "receipt"
    /\ cache' = [cache EXCEPT ![Told.of] = Touched(@, now)]
    /\ late' = IF cache[Told.of] = None THEN late ELSE StampedLate(Item.obs)
    /\ pipe' = Append(pipe, [kind |-> "receipt", obs |-> Item.obs])
    /\ UNCHANGED <<queue, deleted, wake>>

(* handleAppStateEvent with a deletion, of which no trace is left. *)
DeleteCalls ==
    /\ Stored /\ Item.kind = "deletion"
    /\ cache' = [cache EXCEPT ![Told.of] = None]
    /\ deleted' = deleted \cup {Told.of}
    /\ pipe' = Append(pipe, [kind |-> "deletion", obs |-> Item.obs])
    /\ UNCHANGED <<queue, late, wake>>

(* MUTANT: the goroutine of history is not woken. *)
AnnounceHistoryQuietly ==
    /\ Stored /\ Item.kind = "history"
    /\ queue' = Append(queue, Item.obs)
    /\ UNCHANGED <<cache, late, deleted, pipe, wake>>

(* enqueueHistorySyncNotification. *)
AnnounceHistory ==
    /\ Stored /\ Item.kind = "history"
    /\ queue' = Append(queue, Item.obs)
    /\ wake' = TRUE
    /\ UNCHANGED <<cache, late, deleted, pipe>>

(* SynchronousAck: the provider is told when the handler has returned.     *)
Acknowledge ==
    /\ helper = "online" /\ handler = "stored"
    /\ handler' = "idle"
    /\ inbox' = Tail(inbox)
    /\ acked' = acked \cup {Item}
    /\ UNCHANGED <<now, phone, historian, wake, helper, cacheVars, pipe, daemonVars, faults, taken>>

(* It is not told over a connection that is lost. *)
ReturnOffline ==
    /\ helper = "offline" /\ handler = "stored"
    /\ handler' = "idle"
    /\ UNCHANGED <<now, inbox, phone, historian, wake, helper, cacheVars, pipe, daemonVars,
                   faults, acked, taken>>

-----------------------------------------------------------------------------
(* The goroutine of history.                                               *)

Historian(pc) ==
    /\ helper # "down" /\ historian.pc = pc
    /\ UNCHANGED <<now, inbox, phone, handler, helper, daemonVars, acked, taken>>

Wake == /\ Historian("idle") /\ wake
        /\ wake' = FALSE
        /\ historian' = Loading
        /\ UNCHANGED <<cacheVars, pipe, faults>>

(* processQueuedHistorySyncNotifications, up to the look at what has been  *)
(* revoked; with nothing left, processHistorySyncNotifications waits.      *)
DownloadHistory ==
    /\ Historian("loading")
    /\ historian' = IF queue = <<>> THEN [Loading EXCEPT !.pc = "idle"]
                    ELSE [pc |-> "filtered",
                          batch |-> Unrevoked(cache, Batch(Head(queue)))]
    /\ UNCHANGED <<wake, cacheVars, pipe, faults>>

DownloadFails ==
    /\ Historian("loading") /\ queue # <<>> /\ Fault
    /\ historian' = [Loading EXCEPT !.pc = "backoff"]
    /\ UNCHANGED <<wake, cacheVars, pipe>>

RetryDownload ==
    /\ Historian("backoff")
    /\ historian' = Loading
    /\ UNCHANGED <<wake, cacheVars, pipe, faults>>

(* applyHistorySyncData, from applySnapshot to its event. *)
ApplyHistory ==
    /\ Historian("filtered")
    /\ historian' = [Loading EXCEPT !.pc = "applied"]
    /\ cache' = Apply(cache, historian.batch, now)
    /\ late' = StampedLate(historian.batch)
    /\ pipe' = Append(pipe, [kind |-> "data", obs |-> historian.batch])
    /\ UNCHANGED <<wake, queue, deleted, faults>>

DeleteNotification ==
    /\ Historian("applied")
    /\ historian' = Loading
    /\ queue' = Tail(queue)
    /\ UNCHANGED <<wake, cache, late, deleted, pipe, faults>>

-----------------------------------------------------------------------------
(* The daemon reads the pipe, and runs syncs.                              *)

daemonOnly == <<now, inbox, phone, helperVars, cacheVars, acked>>

Read(kind) == /\ pipe # <<>> /\ Head(pipe).kind = kind
              /\ pipe' = Tail(pipe)
              /\ UNCHANGED <<daemonOnly, taken>>

ReadConnected ==
    /\ Read("connected")
    /\ session' = "connected"
    /\ UNCHANGED <<run, checkpoint, stored, faults>>

Requested(r) == r.pc \in {"backfill", "asked", "answered"}

(* A request that is rejected ends its run; the answer, when it comes, is   *)
(* nobody's, and left out here.  There is one at most.                     *)
WithoutPages(events) ==
    IF \E i \in DOMAIN events : events[i].kind = "page"
    THEN RemoveAt(events, CHOOSE i \in DOMAIN events : events[i].kind = "page")
    ELSE events

ReadDisconnected ==
    /\ pipe # <<>> /\ Head(pipe).kind = "disconnected"
    /\ pipe' = WithoutPages(Tail(pipe))
    /\ session' = "connecting"
    /\ run' = IF Requested(run) THEN NoRun ELSE run
    /\ UNCHANGED <<daemonOnly, taken, checkpoint, stored, faults>>

(* insertRawEvents: the first event with a key stays. *)
Inserted(obs) ==
    [e \in Entries |->
        IF stored[e] # "none" \/ ~\E o \in obs : o.of = e THEN stored[e]
        ELSE IF [of |-> e, revoked |-> TRUE] \in obs THEN "revoked" ELSE "plain"]

(* ingestWhatsAppRealtimeSnapshot, updateWhatsAppCheckpointFromRealtime.   *)
Ingest ==
    /\ Read("data")
    /\ stored' = Inserted(Head(pipe).obs)
    /\ checkpoint' = IF stored' = stored THEN checkpoint
                     ELSE [checkpoint EXCEPT !.success = now]
    /\ UNCHANGED <<session, run, faults>>

(* applyReceiptToRealtimeSnapshot: of the message that is made anew of the  *)
(* one that was projected, insertRawEvents has the key already.            *)
IngestReceipt ==
    /\ Read("receipt")
    /\ UNCHANGED <<session, run, checkpoint, stored, faults>>

(* handleWhatsAppRealtimeEvent: a deletion is an event of its own, and the *)
(* call stays stored with it.                                              *)
IngestDeletion ==
    /\ Read("deletion")
    /\ checkpoint' = [checkpoint EXCEPT !.success = now]
    /\ UNCHANGED <<session, run, stored, faults>>

(* A busy database: the event is gone, and a sync is queued. *)
IngestFails ==
    /\ Read("data") /\ Fault
    /\ UNCHANGED <<session, run, checkpoint, stored>>

(* selectWhatsAppHelperSinceMs, without an import of the desktop database: *)
(* 0 for all there is.                                                     *)
Since(base) ==
    CASE base.source = None -> 0
      [] base.source # None /\ base.source.resync # None -> base.source.resync.since
      [] base.source # None /\ base.source.resync = None /\ base.source.last # None ->
           base.source.last
      [] OTHER -> IF base.success = None THEN 0 ELSE base.success

Resuming(base) == base.source # None /\ base.source.resync # None

HasRequested(base) == base.source # None /\ base.source.requested

(* A run that finds the session connected, before which it changes nothing. *)
(* A resync that is not resumed may begin by asking the phone for older    *)
(* history, when messages to ask for have been projected.  Bound: when it   *)
(* has any.                                                                *)
StartRun ==
    /\ run.pc = "none" /\ session = "connected"
    /\ LET anchored == /\ ~Resuming(checkpoint) /\ ~HasRequested(checkpoint)
                       /\ phone # {} /\ \E m \in Messages : stored[m] = "plain"
       IN \E pc \in IF anchored THEN {"backfill", "asked"} ELSE {"asked"} :
            run' = [NoRun EXCEPT !.pc = pc, !.base = checkpoint, !.since = Since(checkpoint),
                                 !.cursor = IF Resuming(checkpoint)
                                            THEN checkpoint.source.resync.cursor ELSE None]
    /\ UNCHANGED <<daemonOnly, pipe, session, checkpoint, stored, faults, taken>>

NoSource == [last |-> None, requested |-> FALSE, resync |-> None]
AsRequested(base) ==
    [base EXCEPT !.source = IF @ = None THEN [NoSource EXCEPT !.requested = TRUE]
                            ELSE [@ EXCEPT !.requested = TRUE]]

(* requestHistoryBackfill: the phone sends what it has, or it does not.    *)
AskThePhone ==
    /\ helper # "down" /\ run.pc = "backfill"
    /\ \E sent \in SUBSET phone :
         /\ inbox' = inbox \o SetToSeq(sent)
         /\ phone' = phone \ sent
    /\ UNCHANGED <<now, helperVars, cacheVars, pipe, session, checkpoint, stored, acked, taken>>

RequestBackfill == /\ AskThePhone
                   /\ run' = [run EXCEPT !.pc = "asked", !.base = AsRequested(@)]
                   /\ UNCHANGED faults

(* Its failure is not the run's, and the phone may have been asked. *)
BackfillFails == /\ AskThePhone
                 /\ run' = [run EXCEPT !.pc = "asked"]
                 /\ Fault

(* readCommands, getResyncPage: the first page takes the snapshot. *)
Answer ==
    /\ helper # "down" /\ run.pc = "asked"
    /\ LET cursor == IF run.cursor = None THEN FirstCursor(now) ELSE run.cursor
           page == ResyncPage(cache, run.since, cursor, PageLimit)
       IN /\ pipe' = Append(pipe, [kind |-> "page", obs |-> page.obs,
                                   snapshot |-> page.snapshot, next |-> page.next])
          /\ taken' = IF taken < cursor.snapshot THEN cursor.snapshot ELSE taken
    /\ run' = [run EXCEPT !.pc = "answered"]
    /\ UNCHANGED <<daemonOnly, session, checkpoint, stored, faults>>

(* The page loop of processIngestRun. *)
ReadPage ==
    /\ Read("page")
    /\ LET page == Head(pipe)
           more == page.next # None /\ run.pages + 1 < PageBudget
       IN /\ stored' = Inserted(page.obs)
          /\ run' = [run EXCEPT !.pc = IF more THEN "asked" ELSE "done",
                                !.cursor = page.next, !.snapshot = page.snapshot,
                                !.pages = @ + 1]
    /\ UNCHANGED <<session, checkpoint, faults>>

First(x, y) == IF x = None THEN y ELSE x

(* Its end: the checkpoint becomes that of the run's beginning, moved on.  *)
FinishRun ==
    /\ run.pc = "done"
    /\ LET source == First(run.base.source, NoSource)
           hasMore == run.cursor # None
       IN checkpoint' =
            [source |->
               [last |-> IF hasMore THEN First(source.last, run.base.success)
                         ELSE run.snapshot,
                requested |-> source.requested,
                resync |-> IF hasMore THEN [cursor |-> run.cursor, since |-> run.since]
                           ELSE None],
             success |-> IF hasMore THEN First(run.base.success, run.snapshot)
                         ELSE run.snapshot]
    /\ run' = NoRun
    /\ UNCHANGED <<daemonOnly, pipe, session, stored, faults, taken>>

(* requestTimeoutMs. *)
RequestTimeout ==
    /\ run.pc \in {"asked", "answered"} /\ Fault
    /\ run' = NoRun
    /\ pipe' = WithoutPages(pipe)
    /\ UNCHANGED <<daemonOnly, session, checkpoint, stored, taken>>

-----------------------------------------------------------------------------
(* The helper's process and its connection.                                *)

ProcessOnly == UNCHANGED <<now, inbox, phone, cacheVars, checkpoint, stored, acked, taken>>

(* start, or the timer that handleExit has set. *)
Spawn ==
    /\ session = "down"
    /\ session' = "connecting" /\ helper' = "offline"
    /\ handler' = "idle" /\ historian' = Loading /\ wake' = FALSE
    /\ ProcessOnly /\ UNCHANGED <<pipe, run, faults>>

Connection(from, to, event) ==
    /\ helper = from /\ helper' = to
    /\ pipe' = Append(pipe, [kind |-> event])
    /\ ProcessOnly /\ UNCHANGED <<handler, historian, wake, session, run>>

(* Bound: a lost connection has been heard of before there is another one. *)
Connect == /\ session = "connecting"
           /\ Connection("offline", "online", "connected")
           /\ UNCHANGED faults

Disconnect == Connection("online", "offline", "disconnected") /\ Fault

(* handleExit: what it has not read of the helper's output is gone.        *)
Exit ==
    /\ helper # "down" /\ Fault
    /\ helper' = "down" /\ session' = "down" /\ pipe' = <<>>
    /\ run' = IF Requested(run) THEN NoRun ELSE run
    /\ ProcessOnly /\ UNCHANGED <<handler, historian, wake>>

(* The daemon ends, and the helper with it. *)
DaemonRestart ==
    /\ Fault
    /\ helper' = "down" /\ session' = "down" /\ pipe' = <<>>
    /\ run' = NoRun
    /\ ProcessOnly /\ UNCHANGED <<handler, historian, wake>>

-----------------------------------------------------------------------------
Handling == HandleEvent \/ StoreObservation \/ StoreReceipt \/ DeleteCalls
            \/ AnnounceHistory \/ Acknowledge \/ ReturnOffline

Applying == Wake \/ DownloadHistory \/ RetryDownload \/ ApplyHistory \/ DeleteNotification

Reading == ReadConnected \/ ReadDisconnected \/ Ingest \/ IngestReceipt \/ IngestDeletion
           \/ ReadPage

Syncing == RequestBackfill \/ Answer \/ FinishRun

Next ==
    \/ Tick
    \/ Handling
    \/ Applying \/ DownloadFails
    \/ Reading \/ IngestFails
    \/ Syncing \/ StartRun \/ BackfillFails \/ RequestTimeout
    \/ Spawn \/ Connect \/ Disconnect \/ Exit \/ DaemonRestart

Spec == Init /\ [][Next]_vars

(* Goroutines and the daemon's loop go on, a helper that ended is started  *)
(* again, whatsmeow reconnects, and the scheduler queues a sync when there *)
(* is none.                                                                *)
FairSpec ==
    /\ Spec
    /\ WF_vars(Handling) /\ WF_vars(Applying) /\ WF_vars(Reading)
    /\ WF_vars(Syncing \/ StartRun) /\ WF_vars(Spawn \/ Connect)

-----------------------------------------------------------------------------
(* What of the cache a resync is still to bring. *)
Owed(e) ==
    LET at == cache[e].at
        source == checkpoint.source
    IN  \/ source = None
        \/ /\ source # None /\ source.resync = None
           /\ source.last = None \/ at > source.last
        \/ /\ source # None /\ source.resync # None
           /\ \/ at > source.resync.cursor.snapshot
              \/ at > source.resync.since /\ Beyond(e, source.resync.cursor)

(* A row the daemon does not have, but for those that were stamped before a *)
(* snapshot and committed after it.                                        *)
Unseen(e) == cache[e] # None /\ stored[e] = "none" /\ e \notin late

(* A row the daemon does not have will be in a page of the resyncs to come, *)
(* whatever became of the event that told of it, however the pages, their   *)
(* budget and changes to the rows between two pages fall: getResyncPage and *)
(* the checkpoint of processIngestRun.                                     *)
NothingIsSkipped == \A e \in Entries : Unseen(e) => Owed(e)

InCache(o) ==
    IF o.revoked THEN Revoked(cache[o.of]) ELSE cache[o.of] # None \/ o.of \in deleted

Kept(o) == InCache(o) \/ \E i \in DOMAIN queue : o \in queue[i]

(* What the provider was told is handled, it does not send again: it is in  *)
(* the cache, or in the chunk of history that is yet to be applied, at      *)
(* every moment a helper may end (SynchronousAck,                           *)
(* processQueuedHistorySyncNotifications).                                  *)
AckedIsKept ==
    \A item \in acked :
        item.kind \in {"message", "call", "history"} => \A o \in item.obs : Kept(o)

(* Of what the provider was told is handled, the daemon has each message and *)
(* call in the end, by the event, or by a resync after the event was lost:   *)
(* entries are finitely many, so each arrives if, again and again, none is   *)
(* missing.                                                                  *)
Reported(e) == \E item \in acked : item.kind # "receipt" /\ \E o \in item.obs : o.of = e

EverythingArrives == []<>(\A e \in Entries : Reported(e) => stored[e] # "none" \/ e \in late \cup deleted)
=============================================================================
