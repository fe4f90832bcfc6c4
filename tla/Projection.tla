----------------------------- MODULE Projection -----------------------------
(***************************************************************************)
(* The projector (src/src/runtime/projection): raw events, an append-only  *)
(* table in rowid order, are applied to the canonical tables in pages, and *)
(* a watermark records how far.  Three projectors share the watermark:     *)
(*   - the daemon projects what it has just ingested ("realtime");         *)
(*   - a projection worker, a process of its own, projects one page of a   *)
(*     queued range ("deferred") or replays everything ("rebuild");        *)
(*   - the daemon replays everything after a contact merge ("rebuild").    *)
(* Every page is read first and committed in a later transaction, with the *)
(* other process free to commit in between.  A worker survives the daemon  *)
(* that started it.  Resetting a source deletes rows and rewinds the       *)
(* watermark, and SQLite hands out the rowids of deleted rows again.       *)
(*                                                                         *)
(* Left out: what an event does to the canonical tables, quarantined       *)
(* events (they count as applied), times (a queued run may start at any    *)
(* time).  Two queued runs with the same range are one.                    *)
(***************************************************************************)
EXTENDS Integers, FiniteSets

CONSTANTS
    Workers,           \* projection worker processes
    Daemon,            \* the daemon process
    NoWorker,
    MaxRow,            \* bound: rowids
    PageSize,          \* projection batch size
    MaxDisruptions     \* bound: replays, failures, resets and restarts

ASSUME ProjectionAssumption ==
    /\ Daemon \notin Workers /\ NoWorker \notin Workers
    /\ MaxRow \in Nat /\ PageSize \in Nat \ {0} /\ MaxDisruptions \in Nat

VARIABLES
    rows,              \* rowids present in raw_events
    applied,           \* the rows the canonical tables reflect
    watermark,         \* projection_state.projection_watermark
    queue,             \* queued projection runs
    running,           \* the run the daemon is processing (isProcessingProjection)
    projector,         \* what every process is doing
    ready,             \* bootstrap.state = "ready"
    syncing,           \* activeIngestRuns.size > 0
    cut,               \* auxiliary: a replay cleared the tables and did not get to
                       \* the last row
    overtaken,         \* auxiliary: a reset happened under work already laid out
    unattended,        \* auxiliary: the last attempt to queue or run a projection of
                       \* the backlog was skipped or failed
    disruptions        \* replays, failures, resets and restarts so far

vars == <<rows, applied, watermark, queue, running, projector, ready,
          syncing, cut, overtaken, unattended, disruptions>>

-----------------------------------------------------------------------------
Procs == Workers \cup {Daemon}
Rowids == 1..MaxRow

Project(from, to) == [kind |-> "project", from |-> from, to |-> to]
Rebuild == [kind |-> "rebuild", from |-> 1, to |-> MaxRow]
Run == [kind : {"project", "rebuild"}, from : Nat, to : Nat]

NotRunning == [worker |-> NoWorker, run |-> Rebuild, finished |-> FALSE, next |-> 0]

(* mode: what the process is projecting; page: rows read but not committed; *)
(* from, to: what is still to be read, from the start of the page; seen: the *)
(* watermark when the page was read; clear: the next commit clears first.    *)
Projector ==
    [mode : {"realtime", "deferred", "rebuild", "reset", "none"},
     pc : {"idle", "read", "commit", "finish", "reset"},
     from : Nat, to : Nat, last : Nat, page : SUBSET Rowids, seen : Nat, clear : BOOLEAN]

Idle == [mode |-> "none", pc |-> "idle", from |-> 0, to |-> 0, last |-> 0,
         page |-> {}, seen |-> 0, clear |-> FALSE]

Projecting(mode, from, to) ==
    [Idle EXCEPT !.mode = mode, !.pc = "read", !.from = from, !.to = to,
                 !.clear = (mode = "rebuild")]

Larger(m, n) == IF m < n THEN n ELSE m
Smaller(m, n) == IF m < n THEN m ELSE n

(* MAX(rowid), 0 for an empty table. *)
IsTop(t) == t \in rows \cup {0} /\ \A r \in rows : r <= t

(* pending_raw_events > 0. *)
Backlog == \E r \in rows : watermark < r

(* Both event loop turns and synchronous projections of the daemon exclude *)
(* everything else the daemon does.                                        *)
DaemonFree == projector[Daemon].pc = "idle"

Disrupt ==
    /\ disruptions < MaxDisruptions
    /\ disruptions' = disruptions + 1

-----------------------------------------------------------------------------
(* clampProjectionRunDetails: the part above the watermark, if any. *)
Clamp(run) ==
    {r \in {Project(Larger(run.from, watermark + 1), run.to)} : r.from <= r.to}

(* mergeProjectionRunDetails: the smallest range around both. *)
MergeRuns(old, new) ==
    IF Clamp(new) = {} THEN Clamp(old)
    ELSE IF Clamp(old) = {} THEN Clamp(new)
    ELSE {Project(Smaller(o.from, n.from), Larger(o.to, n.to)) :
             o \in Clamp(old), n \in Clamp(new)}

(* queueProjectionRun: the queues that may result from queueing a run.  A  *)
(* queued run is extended; one that has nothing left to do is left alone.  *)
QueueTo(Q, run) ==
    LET queued == {q \in Q : q.kind = "project"}
    IN  IF queued = {} THEN {Q \cup Clamp(run)}
        ELSE {IF MergeRuns(q, run) = {} THEN Q
              ELSE (Q \ {q}) \cup MergeRuns(q, run) : q \in queued}

(* A projection of everything up to row t is queued; or it is not, because *)
(* SQLite is busy, an update is about to restart the daemon, or a sync     *)
(* that has more to come defers it.                                        *)
QueueBacklog(t) ==
    \/ /\ queue' \in QueueTo(queue, Project(watermark + 1, t))
       /\ unattended' = FALSE
    \/ /\ unattended' = TRUE
       /\ UNCHANGED queue

-----------------------------------------------------------------------------
(* Ingest runs are not started while a projection run is being processed.  *)
StartSync ==
    /\ DaemonFree /\ running = NotRunning
    /\ syncing' = TRUE
    /\ UNCHANGED <<rows, applied, watermark, queue, running, projector,
                   ready, cut, overtaken, unattended, disruptions>>

EndSync ==
    /\ DaemonFree
    /\ syncing' = FALSE
    /\ UNCHANGED <<rows, applied, watermark, queue, running, projector,
                   ready, cut, overtaken, unattended, disruptions>>

(* A sync stores k new events, or a realtime handler does unless a run is  *)
(* being processed.  The daemon projects them at once or leaves them to a  *)
(* queued run.                                                             *)
Ingest(k) ==
    /\ DaemonFree
    /\ syncing \/ running = NotRunning
    /\ \E t \in 0..MaxRow :
          /\ IsTop(t) /\ t + k <= MaxRow
          /\ rows' = rows \cup (t + 1)..(t + k)
          /\ \/ /\ projector' = [projector EXCEPT
                       ![Daemon] = Projecting("realtime", t + 1, t + k)]
                /\ UNCHANGED <<queue, unattended>>
             \/ /\ QueueBacklog(t + k)
                /\ UNCHANGED projector
    /\ UNCHANGED <<applied, watermark, running, ready, syncing, cut,
                   overtaken, disruptions>>

(* The projection of new events is complete: queue what is still pending.  *)
RealtimeDone ==
    /\ projector[Daemon].mode = "realtime" /\ projector[Daemon].pc = "finish"
    /\ projector' = [projector EXCEPT ![Daemon] = Idle]
    /\ IF Backlog
       THEN \E t \in rows : IsTop(t) /\ QueueBacklog(t)
       ELSE UNCHANGED <<queue, unattended>>
    /\ UNCHANGED <<rows, applied, watermark, running, ready, syncing, cut,
                   overtaken, disruptions>>

(* mergeContacts replays everything in the daemon. *)
MergeContacts ==
    /\ Disrupt
    /\ DaemonFree
    /\ projector' = [projector EXCEPT ![Daemon] = Projecting("rebuild", 1, MaxRow)]
    /\ UNCHANGED <<rows, applied, watermark, queue, running, ready, syncing,
                   cut, overtaken, unattended>>

MergeContactsDone ==
    /\ projector[Daemon].mode = "rebuild" /\ projector[Daemon].pc = "finish"
    /\ projector' = [projector EXCEPT ![Daemon] = Idle]
    /\ UNCHANGED <<rows, applied, watermark, queue, running, ready, syncing,
                   cut, overtaken, unattended, disruptions>>

-----------------------------------------------------------------------------
(* listRawEventsInRange, listRawEventsAfter: a page of a process.  Only    *)
(* the replay of the daemon is not paged.                                  *)
Within(from, to) == {r \in rows : from <= r /\ r <= to}

PageLimit(p) == IF p = Daemon /\ projector[p].mode = "rebuild" THEN MaxRow ELSE PageSize

PageEnds(p, l) ==
    LET left == Within(projector[p].from, projector[p].to)
        page == Within(projector[p].from, l)
    IN  /\ l \in left
        /\ Cardinality(page) <= PageLimit(p)
        /\ Cardinality(page) = PageLimit(p) \/ \A r \in left : r <= l

(* Nothing is left to read: a replay that has just begun clears the tables *)
(* all the same.                                                           *)
ReadPage(p) ==
    /\ projector[p].pc = "read"
    /\ \/ \E l \in Rowids :
             /\ PageEnds(p, l)
             /\ projector' = [projector EXCEPT
                   ![p].pc = "commit", ![p].page = Within(projector[p].from, l),
                   ![p].last = l, ![p].seen = watermark]
       \/ /\ Within(projector[p].from, projector[p].to) = {}
          /\ projector' = [projector EXCEPT
                ![p].pc = IF projector[p].clear THEN "commit" ELSE "finish",
                ![p].from = IF projector[p].clear THEN @ ELSE projector[p].to + 1,
                ![p].seen = watermark]
    /\ UNCHANGED <<rows, applied, watermark, queue, running, ready, syncing,
                   cut, overtaken, unattended, disruptions>>

(* MUTANT: the projection of new events always moves the watermark. *)
TargetEager(p) == {Larger(projector[p].seen, projector[p].last)}

(* committedProjectionWatermark: none for new events that do not start     *)
(* right above the watermark, which leaves them to a deferred run.         *)
Target(p) ==
    CASE projector[p].mode = "rebuild"  -> {projector[p].last}
      [] projector[p].mode = "deferred" -> {Larger(projector[p].seen, projector[p].last)}
      [] projector[p].mode = "realtime" ->
            {w \in {Larger(projector[p].seen, projector[p].last)} :
                projector[p].from = projector[p].seen + 1}

(* MUTANT: the watermark is set without looking at its current value. *)
UpsertProjectionStateLastWins(w) == w

(* upsertProjectionState: MAX of the stored and the new watermark. *)
UpsertProjectionState(w) == Larger(watermark, w)

(* projectEventBatch: tables and watermark change in one transaction. *)
CommitPage(p) ==
    /\ projector[p].pc = "commit"
    /\ applied' = (IF projector[p].clear THEN {} ELSE applied) \cup projector[p].page
    /\ watermark' = IF Target(p) = {} THEN watermark
                    ELSE UpsertProjectionState(CHOOSE w \in Target(p) : TRUE)
    /\ projector' = [projector EXCEPT
          ![p].pc = IF \/ projector[p].mode = "deferred"
                       \/ projector[p].last = 0
                       \/ projector[p].mode = "realtime" /\ projector[p].to <= projector[p].last
                    THEN "finish" ELSE "read",
          ![p].from = projector[p].last + 1, ![p].last = 0, ![p].page = {},
          ![p].seen = 0, ![p].clear = FALSE]
    /\ cut' = IF projector[p].clear THEN projector[p].page = {} /\ rows # {} ELSE cut
    /\ UNCHANGED <<rows, queue, running, ready, syncing, overtaken,
                   unattended, disruptions>>

-----------------------------------------------------------------------------
(* drainProjectionQueue starts a worker for a queued run; a rebuild only    *)
(* while no ingest run is active.                                          *)
StartRun(w) ==
    /\ DaemonFree /\ ready
    /\ running = NotRunning /\ projector[w] = Idle
    /\ \E q \in queue :
          /\ q.kind = "rebuild" => ~syncing
          /\ queue' = queue \ {q}
          /\ running' = [NotRunning EXCEPT !.worker = w, !.run = q]
          /\ projector' = [projector EXCEPT
                ![w] = Projecting(IF q.kind = "rebuild" THEN "rebuild" ELSE "deferred",
                                  q.from, q.to)]
    /\ UNCHANGED <<rows, applied, watermark, ready, syncing, cut, overtaken,
                   unattended, disruptions>>

(* The worker settles its run and exits; the claim of a worker whose daemon *)
(* has been replaced does not hold any more.                                *)
FinishRun(w) ==
    /\ projector[w].pc = "finish"
    /\ projector' = [projector EXCEPT ![w] = Idle]
    /\ running' = IF running.worker = w
                  THEN [running EXCEPT !.finished = TRUE,
                           !.next = IF projector[w].from <= projector[w].to
                                    THEN projector[w].from ELSE 0]
                  ELSE running
    /\ UNCHANGED <<rows, applied, watermark, queue, ready, syncing, cut,
                   overtaken, unattended, disruptions>>

(* MUTANT: only what is left of the run itself is queued. *)
ContinuationOnly(t) ==
    IF running.next # 0 THEN QueueTo(queue, Project(running.next, running.run.to))
    ELSE {queue}

(* What follows a run: the rest of its own range, then any other backlog.  *)
Continuation(t) ==
    UNION {QueueTo(Q, Project(watermark + 1, t)) :
              Q \in IF running.next # 0 /\ running.run.kind = "project"
                    THEN QueueTo(queue, Project(running.next, running.run.to))
                    ELSE {queue}}

(* processProjectionRun after the worker has reported success. *)
RunDone ==
    /\ DaemonFree /\ running.finished
    /\ running' = NotRunning
    /\ \/ \E t \in rows \cup {0} :
             IsTop(t) /\ queue' \in Continuation(t) /\ unattended' = FALSE
       \/ unattended' = TRUE /\ UNCHANGED queue
    /\ UNCHANGED <<rows, applied, watermark, projector, ready, syncing, cut,
                   overtaken, disruptions>>

CutsRebuild(p) ==
    projector[p].mode = "rebuild" /\ ~projector[p].clear /\ projector[p].pc # "finish"

(* A worker throws, is killed after PROJECTION_WORKER_TIMEOUT_MS, or dies:  *)
(* its run fails and is not tried again.                                    *)
WorkerFails(w) ==
    /\ Disrupt
    /\ projector[w].pc # "idle"
    /\ projector' = [projector EXCEPT ![w] = Idle]
    /\ cut' = (cut \/ CutsRebuild(w))
    /\ IF running.worker = w
       THEN running' = NotRunning /\ unattended' = TRUE
       ELSE UNCHANGED <<running, unattended>>
    /\ UNCHANGED <<rows, applied, watermark, queue, ready, syncing, overtaken>>

(* A projection in the daemon throws: its caller gives up.                 *)
DaemonProjectionFails ==
    /\ Disrupt
    /\ projector[Daemon].mode \in {"realtime", "rebuild"}
    /\ projector' = [projector EXCEPT ![Daemon] = Idle]
    /\ cut' = (cut \/ CutsRebuild(Daemon))
    /\ unattended' = TRUE
    /\ UNCHANGED <<rows, applied, watermark, queue, running, ready, syncing,
                   overtaken>>

-----------------------------------------------------------------------------
(* resetSource: the rows S of a platform are deleted, in a transaction of   *)
(* its own.  Of a page already read, what is left to apply of existing rows.*)
ResetRows(S) ==
    /\ Disrupt
    /\ DaemonFree
    /\ rows' = rows \ S
    /\ applied' = applied \ S
    /\ projector' = [p \in Procs |->
          IF p = Daemon THEN [Idle EXCEPT !.mode = "reset", !.pc = "reset"]
          ELSE [projector[p] EXCEPT !.page = @ \ S]]
    /\ UNCHANGED <<watermark, queue, running, ready, syncing, cut, overtaken,
                   unattended>>

(* ... and then the watermark is rewound.  Work laid out before may start   *)
(* above the new watermark.  No projection is queued.                       *)
ResetWatermark ==
    /\ projector[Daemon].mode = "reset"
    /\ watermark' = 0
    /\ projector' = [projector EXCEPT ![Daemon] = Idle]
    /\ overtaken' = \/ running # NotRunning
                    \/ \E w \in Workers : projector[w].pc # "idle"
                    \/ \E q \in queue : q.from > 1
    /\ unattended' = TRUE
    /\ UNCHANGED <<rows, applied, queue, running, ready, syncing, cut,
                   disruptions>>

-----------------------------------------------------------------------------
(* The daemon dies and a new one starts: recoverInProgressRuns queues the   *)
(* run that was being processed.  Its worker keeps going.                   *)
Restart ==
    /\ Disrupt
    /\ ready' = FALSE
    /\ syncing' = FALSE
    /\ projector' = [projector EXCEPT ![Daemon] = Idle]
    /\ running' = NotRunning
    /\ queue' = IF running # NotRunning /\ ~running.finished
                THEN queue \cup {running.run} ELSE queue
    /\ cut' = (cut \/ CutsRebuild(Daemon))
    /\ overtaken' = (overtaken \/ projector[Daemon].mode = "reset")
    /\ UNCHANGED <<rows, applied, watermark, unattended>>

(* runBootstrap queues the backlog. *)
Bootstrap ==
    /\ DaemonFree /\ ~ready
    /\ ready' = TRUE
    /\ IF Backlog
       THEN \E t \in rows : IsTop(t) /\ QueueBacklog(t)
       ELSE UNCHANGED <<queue, unattended>>
    /\ UNCHANGED <<rows, applied, watermark, running, projector, syncing,
                   cut, overtaken, disruptions>>

QueueRebuild ==
    /\ Disrupt
    /\ DaemonFree
    /\ queue' = queue \cup {Rebuild}
    /\ UNCHANGED <<rows, applied, watermark, running, projector, ready,
                   syncing, cut, overtaken, unattended>>

-----------------------------------------------------------------------------
Init ==
    /\ rows = {}
    /\ applied = {}
    /\ watermark = 0
    /\ queue = {}
    /\ running = NotRunning
    /\ projector = [p \in Procs |-> Idle]
    /\ ready = FALSE
    /\ syncing = FALSE
    /\ cut = FALSE
    /\ overtaken = FALSE
    /\ unattended = FALSE
    /\ disruptions = 0

Next ==
    \/ StartSync \/ EndSync
    \/ \E k \in 1..MaxRow : Ingest(k)
    \/ RealtimeDone \/ MergeContacts \/ MergeContactsDone
    \/ \E p \in Procs : ReadPage(p) \/ CommitPage(p)
    \/ \E w \in Workers : StartRun(w) \/ FinishRun(w) \/ WorkerFails(w)
    \/ RunDone
    \/ DaemonProjectionFails
    \/ \E S \in SUBSET rows : ResetRows(S)
    \/ ResetWatermark
    \/ Restart \/ Bootstrap \/ QueueRebuild

Spec == Init /\ [][Next]_vars

-----------------------------------------------------------------------------
(* Type invariant. *)
TypeOK ==
    /\ rows \subseteq Rowids
    /\ applied \subseteq rows
    /\ watermark \in 0..MaxRow
    /\ queue \subseteq Run
    /\ running \in [worker : Workers \cup {NoWorker}, run : Run, finished : BOOLEAN, next : Nat]
    /\ projector \in [Procs -> Projector]
    /\ ready \in BOOLEAN /\ syncing \in BOOLEAN
    /\ cut \in BOOLEAN /\ overtaken \in BOOLEAN /\ unattended \in BOOLEAN
    /\ disruptions \in 0..MaxDisruptions

(* A process that has begun a replay and will still come to row r. *)
WillReplay(p, r) ==
    /\ projector[p].mode = "rebuild" /\ ~projector[p].clear
    /\ projector[p].pc \in {"read", "commit"}
    /\ projector[p].from <= r

(* The watermark never runs ahead of the canonical tables: every event up  *)
(* to it has been applied or is about to be replayed, however the daemon,  *)
(* its workers and the workers of earlier daemons interleave, and whoever  *)
(* of them dies.  The exceptions are named: a replay cut short leaves the  *)
(* high watermark of before, and a reset under work laid out for the old   *)
(* rows lets that work skip the new ones.                                  *)
Covered ==
    \/ cut \/ overtaken
    \/ \A r \in rows : r <= watermark => r \in applied \/ \E p \in Procs : WillReplay(p, r)

(* A backlog has somebody to project it: a queued run, a run being         *)
(* processed, or the daemon itself, unless the last attempt to queue or    *)
(* run one was skipped or failed.                                          *)
BacklogIsAttended ==
    Backlog => \/ unattended \/ ~ready \/ ~DaemonFree
               \/ queue # {} \/ running # NotRunning

(* The watermark is only ever rewound by a reset, although every projector *)
(* commits a watermark computed from a value it read earlier.              *)
WatermarkOnlyAdvances ==
    [][watermark' >= watermark \/ projector[Daemon].mode = "reset"]_vars
=============================================================================
