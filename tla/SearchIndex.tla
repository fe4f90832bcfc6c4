----------------------------- MODULE SearchIndex -----------------------------
(***************************************************************************)
(* The full-text index of the messages (messages_fts) and its queue        *)
(* (message_fts_index_queue), src/src/db/database.ts; the drain that       *)
(* empties the queue, src/src/runtime/daemon/server.ts; the projectors     *)
(* that fill it, src/src/runtime/projection/projector.ts.                  *)
(*                                                                         *)
(* No trigger keeps the index: a projector commits its changes to the      *)
(* messages and then, in a second transaction, enqueues the ids it has     *)
(* changed.  The drain claims a batch, replaces its index entries and      *)
(* deletes its queue entries in three transactions.  It runs in one turn   *)
(* of the daemon's event loop, but projection workers are processes of     *)
(* their own, outlive the daemon, and commit in between.                   *)
(*                                                                         *)
(* The content of a message is a version number: 0 while there is no such  *)
(* message, and for the index, no such entry.  Times are left out.         *)
(***************************************************************************)
EXTENDS Naturals, FiniteSets

CONSTANTS
    Messages,
    Workers,           \* projection worker processes
    Daemon,            \* the daemon process, which also projects
    NoWorker,
    BatchSize,         \* CUED_MESSAGE_FTS_INDEX_BATCH_SIZE
    MaxVersion,        \* bound: transactions that change messages
    MaxFaults          \* bound: failures, busy databases, restarts

ASSUME SearchIndexAssumption ==
    /\ Daemon \notin Workers /\ NoWorker \notin Workers
    /\ BatchSize \in Nat \ {0} /\ MaxVersion \in Nat /\ MaxFaults \in Nat

VARIABLES
    version,           \* what the messages table says
    latest,            \* the last version given to a message
    indexed,           \* what messages_fts reflects
    entry,             \* the status of a message in the queue
    projector,         \* what every process is doing
    awaited,           \* the worker of the run the daemon is processing
    drain,             \* the batch of the drain, and where it is
    timer,             \* searchIndexDrainScheduled and its due time
    blocked,           \* bootstrap is not ready, or raw events are pending
    forgotten,         \* auxiliary: changed messages whose entry was never made,
                       \* or was deleted by a drain that had not seen it
    unwoken,           \* auxiliary: ids were enqueued and the drain was not woken
    faults             \* failures and restarts so far

vars == <<version, latest, indexed, entry, projector, awaited, drain, timer,
          blocked, forgotten, unwoken, faults>>

-----------------------------------------------------------------------------
Procs == Workers \cup {Daemon}
Versions == 0..MaxVersion

(* "stale": indexing for longer than FTS_INDEXING_STALE_AFTER_MS. *)
Statuses == {"none", "queued", "indexing", "stale", "failed"}

(* dirty: the ids of a committed transaction that are not yet enqueued;    *)
(* clear: the next transaction is the first of a replay; merging: a replay *)
(* by the daemon after a contact merge.                                    *)
Projector == [pc : {"idle", "working", "committed"}, dirty : SUBSET Messages,
              clear : BOOLEAN, merging : BOOLEAN]
Resting == [pc |-> "idle", dirty |-> {}, clear |-> FALSE, merging |-> FALSE]

Drain == [pc : {"idle", "claimed", "replaced", "failing", "ending"}, batch : SUBSET Messages]
NoDrain == [pc |-> "idle", batch |-> {}]

(* A drain, and a projection by the daemon, take one turn of its loop. *)
DaemonFree == drain.pc = "idle" /\ projector[Daemon].pc = "idle"

QueuedIds == {m \in Messages : entry[m] = "queued"}

(* scheduleSearchIndexDrain: the earlier wake-up wins. *)
Wake(when) == timer' = IF "now" \in {timer, when} THEN "now" ELSE "later"

Fault == faults < MaxFaults /\ faults' = faults + 1

tables  == <<version, latest, indexed, entry>>
daemons == <<awaited, drain, timer, blocked>>

-----------------------------------------------------------------------------
(* The daemon projects rows it has just stored, or replays everything      *)
(* after a contact merge.                                                  *)
BeginInline(merging) ==
    /\ DaemonFree
    /\ projector' = [projector EXCEPT ![Daemon] =
           [Resting EXCEPT !.pc = "working", !.clear = merging, !.merging = merging]]
    /\ UNCHANGED <<tables, daemons, forgotten, unwoken, faults>>

(* processProjectionRun starts a worker, for a page or for a rebuild. *)
StartWorker(w, rebuild) ==
    /\ DaemonFree /\ awaited = NoWorker /\ projector[w].pc = "idle"
    /\ awaited' = w
    /\ projector' = [projector EXCEPT ![w] =
           [Resting EXCEPT !.pc = "working", !.clear = rebuild]]
    /\ UNCHANGED <<tables, drain, timer, blocked, forgotten, unwoken, faults>>

(* projectEventBatch: one transaction inserts or changes the messages in   *)
(* S and deletes those in D, duplicates of members of S, along with their  *)
(* index and queue entries (identity-alias.ts).  The first transaction of  *)
(* a replay empties all these tables before (clearProjectedState).         *)
Commit(p, S, D) ==
    LET gone == IF projector[p].clear THEN Messages ELSE D
    IN  /\ projector[p].pc = "working"
        /\ IF S = {} THEN D = {} /\ projector[p].clear ELSE latest < MaxVersion
        /\ D \cap S = {}
        /\ latest' = IF S = {} THEN latest ELSE latest + 1
        /\ version' = [m \in Messages |->
              IF m \in S THEN latest' ELSE IF m \in gone THEN 0 ELSE version[m]]
        /\ indexed' = [m \in Messages |-> IF m \in gone THEN 0 ELSE indexed[m]]
        /\ entry' = [m \in Messages |-> IF m \in gone THEN "none" ELSE entry[m]]
        /\ forgotten' = forgotten \ gone
        /\ projector' = [projector EXCEPT ![p].pc = "committed", ![p].dirty = S,
                                          ![p].clear = FALSE]
        /\ UNCHANGED <<daemons, unwoken, faults>>

(* enqueueMessageFtsIndex: whatever the entry was, it is queued. *)
EnqueueMessageFtsIndex(p) ==
    /\ projector[p].pc = "committed"
    /\ entry' = [m \in Messages |-> IF m \in projector[p].dirty THEN "queued" ELSE entry[m]]
    /\ forgotten' = forgotten \ projector[p].dirty
    /\ unwoken' = (unwoken \/ p \notin {Daemon, awaited})
    /\ projector' = [projector EXCEPT ![p].pc = "working", ![p].dirty = {}]
    /\ UNCHANGED <<version, latest, indexed, daemons, faults>>

(* The drain is woken after a projection of new rows and after a worker of *)
(* this daemon that has succeeded; nobody wakes it after a contact merge,  *)
(* and the worker of an earlier daemon cannot.                             *)
WakesDrain(p) == IF p = Daemon THEN ~projector[p].merging ELSE p = awaited

EndProjection(p) ==
    /\ projector[p].pc = "working" /\ ~projector[p].clear
    /\ p = awaited => DaemonFree
    /\ projector' = [projector EXCEPT ![p] = Resting]
    /\ awaited' = IF p = awaited THEN NoWorker ELSE awaited
    /\ IF WakesDrain(p)
       THEN \E when \in {"now", "later"} : Wake(when) /\ unwoken' = FALSE
       ELSE UNCHANGED timer /\ unwoken' = TRUE
    /\ UNCHANGED <<tables, drain, blocked, forgotten, faults>>

(* A projection throws, or a worker is killed after                        *)
(* PROJECTION_WORKER_TIMEOUT_MS: the drain is not woken, and what was      *)
(* committed last may never be enqueued.                                   *)
ProjectionFails(p) ==
    /\ Fault
    /\ projector[p].pc # "idle"
    /\ p = awaited => DaemonFree
    /\ projector' = [projector EXCEPT ![p] = Resting]
    /\ awaited' = IF p = awaited THEN NoWorker ELSE awaited
    /\ forgotten' = forgotten \cup projector[p].dirty
    /\ unwoken' = TRUE
    /\ UNCHANGED <<tables, drain, timer, blocked>>

-----------------------------------------------------------------------------
(* drainSearchIndexQueue comes back later while a projection is processed, *)
(* while bootstrap or the backlog is in the way, and when SQLite is busy.  *)
ComesBackLater ==
    /\ DaemonFree /\ timer # "none"
    /\ timer' = "later" /\ unwoken' = FALSE
    /\ UNCHANGED <<tables, projector, awaited, drain, blocked, forgotten>>

DrainWaits == ComesBackLater /\ (awaited # NoWorker \/ blocked) /\ UNCHANGED faults

DrainIsBusy == ComesBackLater /\ Fault

(* requeueStaleMessageFtsIndexing. *)
RequeueStale(status) == IF status = "stale" THEN "queued" ELSE status

(* claimMessageFtsIndexBatch: up to BatchSize queued ids, any of which may *)
(* be the oldest.                                                          *)
ClaimBatch ==
    /\ DaemonFree /\ timer # "none" /\ awaited = NoWorker /\ ~blocked
    /\ timer' = "none"
    /\ LET requeued == [m \in Messages |-> RequeueStale(entry[m])]
           queued   == {m \in Messages : requeued[m] = "queued"}
       IN  \E batch \in SUBSET queued :
              /\ Cardinality(batch) <= BatchSize
              /\ Cardinality(batch) = BatchSize \/ batch = queued
              /\ entry' = [m \in Messages |-> IF m \in batch THEN "indexing" ELSE requeued[m]]
              /\ drain' = [pc |-> IF batch = {} THEN "ending" ELSE "claimed", batch |-> batch]
    /\ UNCHANGED <<version, latest, indexed, projector, awaited, blocked, forgotten,
                   unwoken, faults>>

(* replaceMessageFtsIndexForIds: the index takes the messages as they are. *)
ReplaceBatch ==
    /\ drain.pc = "claimed"
    /\ indexed' = [m \in Messages |-> IF m \in drain.batch THEN version[m] ELSE indexed[m]]
    /\ drain' = [drain EXCEPT !.pc = "replaced"]
    /\ UNCHANGED <<version, latest, entry, projector, awaited, timer, blocked,
                   forgotten, unwoken, faults>>

(* completeMessageFtsIndex: entries are deleted by id, also those that a   *)
(* projector has queued again since they were claimed.                     *)
CompleteBatch ==
    /\ drain.pc = "replaced"
    /\ entry' = [m \in Messages |-> IF m \in drain.batch THEN "none" ELSE entry[m]]
    /\ forgotten' = forgotten \cup (drain.batch \cap QueuedIds)
    /\ drain' = [drain EXCEPT !.pc = "ending"]
    /\ UNCHANGED <<version, latest, indexed, projector, awaited, timer, blocked,
                   unwoken, faults>>

(* Either of these two throws; most likely SQLite is busy. *)
BatchFails ==
    /\ Fault
    /\ drain.pc \in {"claimed", "replaced"}
    /\ drain' = [drain EXCEPT !.pc = "failing"]
    /\ UNCHANGED <<tables, projector, awaited, timer, blocked, forgotten, unwoken>>

(* MUTANT: a failed batch leaves the queue. *)
FailedEntryDropped(status) == "none"

(* What failMessageFtsIndex makes of the entries that still exist. *)
FailedEntry(status) == IF status = "none" THEN "none" ELSE "failed"

FailMessageFtsIndex ==
    /\ drain.pc = "failing"
    /\ entry' = [m \in Messages |-> IF m \in drain.batch THEN FailedEntry(entry[m]) ELSE entry[m]]
    /\ drain' = [drain EXCEPT !.pc = "ending"]
    /\ UNCHANGED <<version, latest, indexed, projector, awaited, timer, blocked,
                   forgotten, unwoken, faults>>

(* MUTANT: the rest of the queue is left to the next projection. *)
WakesForNobody == UNCHANGED timer

WakesForTheRest == IF QueuedIds # {} THEN Wake("now") ELSE UNCHANGED timer

DrainEnds ==
    /\ drain.pc = "ending"
    /\ WakesForTheRest
    /\ drain' = NoDrain /\ unwoken' = FALSE
    /\ UNCHANGED <<tables, projector, awaited, blocked, forgotten, faults>>

(* Marking the batch failed, or counting what is left, throws: claimed     *)
(* entries stay "indexing".                                                *)
DrainThrows ==
    /\ Fault
    /\ drain.pc \in {"failing", "ending"}
    /\ Wake("later")
    /\ drain' = NoDrain /\ unwoken' = FALSE
    /\ UNCHANGED <<tables, projector, awaited, blocked, forgotten>>

-----------------------------------------------------------------------------
GrowsStale(m) ==
    /\ entry[m] = "indexing" /\ m \notin drain.batch
    /\ entry' = [entry EXCEPT ![m] = "stale"]
    /\ UNCHANGED <<version, latest, indexed, projector, daemons, forgotten, unwoken, faults>>

(* Raw events arrive, or the last pending one has been projected; bootstrap ends. *)
Blocks(b) ==
    /\ DaemonFree /\ blocked # b
    /\ blocked' = b
    /\ UNCHANGED <<tables, projector, awaited, drain, timer, forgotten, unwoken, faults>>

(* The daemon dies at any point and a new one starts: it wakes the drain,  *)
(* which waits for bootstrap.  Workers go on.                              *)
Restart ==
    /\ Fault
    /\ projector' = [projector EXCEPT ![Daemon] = Resting]
    /\ forgotten' = forgotten \cup projector[Daemon].dirty
    /\ awaited' = NoWorker /\ drain' = NoDrain
    /\ timer' = "now" /\ blocked' = TRUE
    /\ unwoken' = FALSE
    /\ UNCHANGED tables

-----------------------------------------------------------------------------
Init ==
    /\ version = [m \in Messages |-> 0] /\ latest = 0
    /\ indexed = [m \in Messages |-> 0]
    /\ entry = [m \in Messages |-> "none"]
    /\ projector = [p \in Procs |-> Resting]
    /\ awaited = NoWorker /\ drain = NoDrain
    /\ timer = "now" /\ blocked = TRUE
    /\ forgotten = {} /\ unwoken = FALSE
    /\ faults = 0

Next ==
    \/ \E b \in BOOLEAN : BeginInline(b) \/ Blocks(b)
    \/ \E w \in Workers, b \in BOOLEAN : StartWorker(w, b)
    \/ \E p \in Procs :
          \/ \E S, D \in SUBSET Messages : Commit(p, S, D)
          \/ EnqueueMessageFtsIndex(p) \/ EndProjection(p) \/ ProjectionFails(p)
    \/ DrainWaits \/ DrainIsBusy \/ ClaimBatch \/ ReplaceBatch \/ CompleteBatch
    \/ BatchFails \/ FailMessageFtsIndex \/ DrainEnds \/ DrainThrows
    \/ \E m \in Messages : GrowsStale(m)
    \/ Restart

Spec == Init /\ [][Next]_vars

(* The event loop runs its timers and finishes its turns.  Nothing is      *)
(* assumed of projections.                                                 *)
FairSpec ==
    /\ Spec
    /\ WF_vars(DrainWaits) /\ WF_vars(ClaimBatch)
    /\ WF_vars(ReplaceBatch) /\ WF_vars(CompleteBatch)
    /\ WF_vars(FailMessageFtsIndex) /\ WF_vars(DrainEnds)

-----------------------------------------------------------------------------
(* Type invariant. *)
TypeOK ==
    /\ version \in [Messages -> Versions] /\ latest \in Versions
    /\ indexed \in [Messages -> Versions]
    /\ entry \in [Messages -> Statuses]
    /\ projector \in [Procs -> Projector]
    /\ awaited \in Workers \cup {NoWorker}
    /\ drain \in Drain
    /\ timer \in {"none", "later", "now"}
    /\ blocked \in BOOLEAN /\ unwoken \in BOOLEAN
    /\ forgotten \subseteq Messages
    /\ faults \in 0..MaxFaults

Pending(m) == entry[m] # "none" \/ \E p \in Procs : m \in projector[p].dirty

(* The index reflects every message that is not in the queue and not about *)
(* to be put there, with projectors and the drain interleaved as they      *)
(* like.  The exceptions are the messages whose projector died between its *)
(* two transactions, and those queued again under a drain that then        *)
(* deleted the new entry with the old one.                                 *)
IndexIsRight ==
    \A m \in Messages \ forgotten : Pending(m) \/ indexed[m] = version[m]

(* Queued ids have somebody to look at them: a scheduled drain, a drain at *)
(* work, or a projection whose end schedules one; unless the ids come from *)
(* a contact merge, an orphaned worker or a projection that failed.        *)
QueuedIsAttended ==
    QueuedIds # {} => \/ timer # "none" \/ drain.pc # "idle" \/ unwoken
                      \/ awaited # NoWorker \/ projector[Daemon].pc # "idle"

Quiescent == ~blocked /\ awaited = NoWorker /\ \A p \in Procs : projector[p].pc = "idle"

(* Once the projections have come to rest, the queue empties, unless       *)
(* nobody was woken for it.                                                *)
QueueEmpties == <>[](Quiescent /\ ~unwoken) => <>[](QueuedIds = {})
=============================================================================
