------------------------------- MODULE Daemon -------------------------------
(***************************************************************************)
(* The scheduling of the daemon (src/src/runtime/daemon/server.ts): the    *)
(* two queue drains, the ingest slots, the projection slot, interactive    *)
(* logins, bootstrap and the shutdown before an update.                    *)
(*                                                                         *)
(* One thread runs all of it; a step is one turn of its event loop, up to  *)
(* the next await.  A drain is run by a timer: "now" is a setImmediate,    *)
(* "later" a setTimeout.  Time itself is left out: a delayed run becomes   *)
(* due, a lease expires, a retry timer fires at some moment.  The rows of  *)
(* sync_runs are reduced to what the drains see of them (RunQueue has the  *)
(* table), the raw events to the number of pages still to be projected     *)
(* (Projection has the ranges).                                            *)
(***************************************************************************)
EXTENDS Naturals, SequencesExt

CONSTANTS
    Syncs,             \* ids of the sync runs that exist at one time
    IngestConcurrency, \* CUED_INGEST_CONCURRENCY
    MaxPending,        \* bound: pages of raw events waiting to be projected
    MaxArrivals,       \* bound: pages that arrive over realtime connections
    MaxRebuilds,       \* bound: rebuilds asked for
    MaxLogins,         \* bound: interactive logins begun
    MaxOverruns        \* bound: executors that outlive their lease

ASSUME DaemonAssumption ==
    /\ IsFiniteSet(Syncs)
    /\ IngestConcurrency \in Nat \ {0}
    /\ MaxPending \in Nat /\ MaxArrivals \in Nat
    /\ MaxRebuilds \in Nat /\ MaxLogins \in Nat
    /\ MaxOverruns \in {0, 1}   \* one: records then tell executors apart

VARIABLES
    row,               \* what the table says of each sync run
    syncLine,          \* the due ones, by scheduled_at
    executors,         \* the processIngestRun calls that have not returned
    active,            \* the keys of activeIngestRuns
    projectLater,      \* a projection run is queued but not due
    projectionLine,    \* the due projection and rebuild runs, by scheduled_at
    projector,         \* the processProjectionRun call; isProcessingProjection
    pending,           \* pages of raw events not projected
    ingestTimer,       \* ingestDrainScheduled, ingestDrainDueAt
    projectionTimer,   \* projectionDrainScheduled, projectionDrainDueAt
    bootstrap,         \* bootstrap.state
    login,             \* interactiveAuthSessions.isActive()
    paused,            \* now() < authProjectionPausedUntil
    stopping,          \* isUpdateShutdownRequested and shutdownInitiated
    graceOver,         \* UPDATE_SHUTDOWN_GRACE_MS have passed since the request
    checkDue,          \* setImmediate(maybeFinishUpdateShutdown)
    arrivals, rebuilds, logins, overruns   \* what the bounds have counted

runVars   == <<row, syncLine, executors, active>>
projVars  == <<projectLater, projectionLine, projector, pending>>
timers    == <<ingestTimer, projectionTimer>>
modeVars  == <<bootstrap, login, paused, logins>>
stopVars  == <<stopping, graceOver, checkDue>>
counters  == <<arrivals, rebuilds, overruns>>
vars == <<runVars, projVars, timers, modeVars, stopVars, counters>>

-----------------------------------------------------------------------------
Rows == {"free", "later", "due", "ingesting", "expired", "settled"}
Jobs == {"project", "rebuild"}
Executor == [run : Syncs, holdsClaim : BOOLEAN, phase : {"fetching", "emitting"}]
Idle == [job |-> "none", phase |-> "idle"]
Timer == {"none", "later", "now"}

In(x, seq) == \E i \in 1..Len(seq) : seq[i] = x

RowsThatAre(S) == {s \in Syncs : row[s] \in S}

(* The orders in which the members of a set can stand in line. *)
Lines(S) == {line \in [1..Cardinality(S) -> S] : \A s \in S : In(s, line)}

(* scheduleIngestDrain, scheduleProjectionDrain: the earlier wake-up wins. *)
Wake(timer, when) == IF "now" \in {timer, when} THEN "now" ELSE "later"

Running == stopping # "stopped"

(* getEffectiveIngestConcurrency: one slot during an interactive login. *)
Slots == IF login THEN 1 ELSE IngestConcurrency

HasRoom(ids) == Cardinality(ids) < Slots

-----------------------------------------------------------------------------
(* The state a daemon starts with: whatever the last one left in the       *)
(* table.  A run it was executing when it died keeps its lease for a while *)
(* ("later") and is claimable after that ("expired").                      *)
Init ==
    /\ row \in [Syncs -> {"free", "later", "due", "expired"}]
    /\ syncLine \in Lines(RowsThatAre({"due"}))
    /\ executors = {} /\ active = {}
    /\ projectLater \in BOOLEAN
    /\ projectionLine \in {<<>>, <<"project">>, <<"rebuild">>}
    /\ projectLater => ~In("project", projectionLine)
    /\ projector = Idle
    /\ pending \in 0..MaxPending
    /\ ingestTimer = "now" /\ projectionTimer = "now"
    /\ bootstrap = "starting" /\ login = FALSE /\ paused = FALSE
    /\ stopping = "no" /\ graceOver = FALSE /\ checkDue = FALSE
    /\ arrivals = 0 /\ rebuilds = 0 /\ logins = 0 /\ overruns = 0

-----------------------------------------------------------------------------
(* Queueing.  Syncs queued by the scheduler, a watcher, the CLI or a       *)
(* realtime handler are due at once and wake the ingest drain.             *)
Enqueue(S) ==
    /\ S \subseteq RowsThatAre({"free"})
    /\ row' = [s \in Syncs |-> IF s \in S THEN "due" ELSE row[s]]
    /\ \E line \in Lines(S) : syncLine' = syncLine \o line
    /\ ingestTimer' = IF S = {} THEN ingestTimer ELSE Wake(ingestTimer, "now")

QueueSyncs(S) ==
    /\ Running /\ S # {}
    /\ Enqueue(S)
    /\ UNCHANGED <<executors, active, projVars, projectionTimer, modeVars, stopVars, counters>>

QueueRebuild ==
    /\ Running
    /\ ~In("rebuild", projectionLine) /\ rebuilds < MaxRebuilds
    /\ rebuilds' = rebuilds + 1
    /\ projectionLine' = Append(projectionLine, "rebuild")
    /\ projectionTimer' = Wake(projectionTimer, "now")
    /\ UNCHANGED <<runVars, projectLater, projector, pending, ingestTimer,
                   modeVars, stopVars, arrivals, overruns>>

(* queueProjectionRun: merged into the queued projection run if there is   *)
(* one, which can only bring it forward; dropped when nothing is pending   *)
(* or an update shutdown has begun.                                        *)
QueueProjection(backlog, delay) ==
    LET queued == projectLater \/ In("project", projectionLine)
    IN  IF stopping = "no" /\ (backlog > 0 \/ queued)
        THEN /\ projectLater' = (delay = "later" /\ ~In("project", projectionLine))
             /\ projectionLine' = IF delay = "later" \/ In("project", projectionLine)
                                  THEN projectionLine
                                  ELSE Append(projectionLine, "project")
             /\ projectionTimer' = Wake(projectionTimer, delay)
        ELSE UNCHANGED <<projectLater, projectionLine, projectionTimer>>

(* A queued run's scheduled_at passes. *)
SyncBecomesDue(s) ==
    /\ Running /\ row[s] = "later"
    /\ row' = [row EXCEPT ![s] = "due"]
    /\ syncLine' = Append(syncLine, s)
    /\ UNCHANGED <<executors, active, projVars, timers, modeVars, stopVars, counters>>

ProjectionBecomesDue ==
    /\ Running /\ projectLater
    /\ projectLater' = FALSE
    /\ projectionLine' = Append(projectionLine, "project")
    /\ UNCHANGED <<runVars, projector, pending, timers, modeVars, stopVars, counters>>

(* Realtime handlers refuse to insert while a projection is processed and  *)
(* queue a sync instead, which is QueueSync.                               *)
RealtimeIngest ==
    /\ stopping = "no"
    /\ projector = Idle
    /\ pending < MaxPending /\ arrivals < MaxArrivals
    /\ pending' = pending + 1 /\ arrivals' = arrivals + 1
    /\ QueueProjection(pending + 1, "later")
    /\ UNCHANGED <<runVars, projector, ingestTimer, modeVars, stopVars,
                   rebuilds, overruns>>

-----------------------------------------------------------------------------
(* drainIngestQueue. *)

(* With no ingest at work, a due projection or rebuild goes first. *)
YieldsToProjection == active = {} /\ projectionLine # <<>>

IngestMustWait == projector # Idle \/ YieldsToProjection

RetrySoon == ingestTimer' = "later"

(* The runs one drain claims: expired ones first, which were scheduled     *)
(* earlier, then the due ones in order, one at a time while a slot is      *)
(* free.  A run whose executor this daemon still has takes no new slot:    *)
(* activeIngestRuns has its id already.                                    *)
ClaimedBy(n, expired) == expired \cup {syncLine[i] : i \in 1..n}

IsDrainOf(n, expired) ==
    LET claimed == ClaimedBy(n, expired)
        all     == RowsThatAre({"expired", "due"})
    IN  /\ n > 0 => expired = RowsThatAre({"expired"})
        /\ claimed = all \/ ~HasRoom(active \cup claimed)
        /\ claimed # {} =>
              \E last \in claimed :
                 /\ n > 0 => last = syncLine[n]
                 /\ HasRoom(active \cup (claimed \ {last}))

(* getNextClaimableRunAt: a queued run not yet due, or a lease to expire. *)
IngestRetry(claimed) ==
    IF /\ HasRoom(active \cup claimed)
       /\ claimed # {} \/ RowsThatAre({"later", "ingesting"}) # {}
    THEN "later"
    ELSE "none"

DrainIngest ==
    /\ Running /\ ingestTimer # "none"
    /\ \/ /\ stopping = "requested"
          /\ ingestTimer' = "none"
          /\ UNCHANGED <<runVars, projectionTimer>>
       \/ /\ stopping = "no" /\ IngestMustWait
          /\ RetrySoon
          /\ projectionTimer' = IF projector = Idle THEN Wake(projectionTimer, "now")
                                ELSE projectionTimer
          /\ UNCHANGED runVars
       \/ /\ stopping = "no" /\ ~IngestMustWait
          /\ \E n \in 0..Len(syncLine), expired \in SUBSET RowsThatAre({"expired"}) :
                LET claimed == ClaimedBy(n, expired)
                IN  /\ IsDrainOf(n, expired)
                    /\ row' = [s \in Syncs |-> IF s \in claimed THEN "ingesting" ELSE row[s]]
                    /\ syncLine' = SubSeq(syncLine, n + 1, Len(syncLine))
                    /\ executors' =
                         {IF e.run \in claimed THEN [e EXCEPT !.holdsClaim = FALSE] ELSE e :
                             e \in executors}
                         \cup [run : claimed, holdsClaim : {TRUE}, phase : {"fetching"}]
                    /\ active' = active \cup claimed
                    /\ ingestTimer' = IngestRetry(claimed)
          /\ UNCHANGED projectionTimer
    /\ UNCHANGED <<projVars, modeVars, stopVars, counters>>

-----------------------------------------------------------------------------
(* MUTANT: the daemon always waits for the grace period. *)
MayStopAfterGrace(stillActive, stillProjecting) == graceOver

MayStop(stillActive, stillProjecting) ==
    graceOver \/ (stillActive = {} /\ stillProjecting = Idle)

(* maybeFinishUpdateShutdown, at the end of a run and once right after the *)
(* request: the grace period is looked at nowhere else.                    *)
MaybeStop(stillActive, stillProjecting) ==
    stopping' = IF stopping = "requested" /\ MayStop(stillActive, stillProjecting)
                THEN "stopped" ELSE stopping

(* processIngestRun up to finishRun or failRun: pages are inserted, a      *)
(* projection is queued or not (nothing inserted, deferred, or the adapter *)
(* failed), the run is settled if the executor still holds its claim, and  *)
(* a continuation may be queued.                                           *)
FinishIngest(e) ==
    /\ Running /\ e \in executors /\ e.phase = "fetching"
    /\ executors' = (executors \ {e}) \cup {[e EXCEPT !.phase = "emitting"]}
    /\ \E inserted \in {0, 1} :
          /\ pending + inserted <= MaxPending
          /\ pending' = pending + inserted
          /\ \/ UNCHANGED <<projectLater, projectionLine, projectionTimer>>
             \/ QueueProjection(pending', "later")
    /\ \E continuation \in {{}} \cup {{s} : s \in RowsThatAre({"free"})} :
          /\ row' = [s \in Syncs |-> IF s \in continuation THEN "later"
                                    ELSE IF s = e.run /\ e.holdsClaim THEN "settled"
                                    ELSE row[s]]
          /\ ingestTimer' = IF continuation = {} THEN ingestTimer ELSE Wake(ingestTimer, "later")
    /\ UNCHANGED <<syncLine, active, projector, modeVars, stopVars, counters>>

(* MUTANT: the end of a run does not wake the projection queue. *)
WakesNoProjection == UNCHANGED projectionTimer

(* The end of an ingest run or of a projection wakes the projection queue. *)
WakesProjection == projectionTimer' = Wake(projectionTimer, "now")

(* MUTANT: the slot is kept. *)
KeepsSlot(id) == active' = active

(* activeIngestRuns.delete: by id, whoever else works on the run. *)
ReleasesSlot(id) == active' = active \ {id}

(* The hooks have exited: the promise settles and its slot is given back.  *)
(* An id whose last executor has returned may stand for a new run.         *)
EndIngest(e) ==
    /\ Running /\ e \in executors /\ e.phase = "emitting"
    /\ executors' = executors \ {e}
    /\ ReleasesSlot(e.run)
    /\ row' = IF row[e.run] = "settled" /\ \A f \in executors \ {e} : f.run # e.run
              THEN [row EXCEPT ![e.run] = "free"] ELSE row
    /\ ingestTimer' = Wake(ingestTimer, "now")
    /\ WakesProjection
    /\ MaybeStop(active', projector)
    /\ UNCHANGED <<syncLine, projVars, modeVars, graceOver, checkDue, counters>>

(* An executor outlives its lease: the drains may claim its run again. *)
Overrun(s) ==
    /\ Running /\ row[s] = "ingesting"
    /\ overruns < MaxOverruns
    /\ row' = [row EXCEPT ![s] = "expired"]
    /\ overruns' = overruns + 1
    /\ UNCHANGED <<syncLine, executors, active, projVars, timers, modeVars, stopVars,
                   arrivals, rebuilds>>

-----------------------------------------------------------------------------
(* drainProjectionQueue. *)

(* MUTANT: a rebuild does not wait for the ingest runs. *)
AnyJob == Jobs

(* A rebuild is claimed only while no ingest run is active. *)
ClaimableJobs == IF active = {} THEN Jobs ELSE {"project"}

ProjectionMustWait == bootstrap # "ready" \/ paused

(* The first job in line that may be claimed. *)
IsNextJob(i) ==
    /\ projectionLine[i] \in ClaimableJobs
    /\ \A k \in 1..(i - 1) : projectionLine[k] \notin ClaimableJobs

DrainProjection ==
    /\ Running /\ projectionTimer # "none"
    /\ \/ /\ stopping = "requested" \/ projector # Idle
          /\ projectionTimer' = "none"
          /\ UNCHANGED <<projectionLine, projector>>
       \/ /\ stopping = "no" /\ projector = Idle /\ ProjectionMustWait
          /\ projectionTimer' = "later"
          /\ UNCHANGED <<projectionLine, projector>>
       \/ /\ stopping = "no" /\ projector = Idle /\ ~ProjectionMustWait
          /\ \A i \in 1..Len(projectionLine) : projectionLine[i] \notin ClaimableJobs
          /\ projectionTimer' = IF projectLater THEN "later" ELSE "none"
          /\ UNCHANGED <<projectionLine, projector>>
       \/ /\ stopping = "no" /\ projector = Idle /\ ~ProjectionMustWait
          /\ \E i \in 1..Len(projectionLine) :
                /\ IsNextJob(i)
                /\ projector' = [job |-> projectionLine[i], phase |-> "working"]
                /\ projectionLine' = RemoveAt(projectionLine, i)
          /\ projectionTimer' = "none"
    /\ UNCHANGED <<runVars, projectLater, pending, ingestTimer, modeVars, stopVars, counters>>

(* The same drain when SQLite is busy: nothing is claimed. *)
DrainProjectionBusy ==
    /\ stopping = "no" /\ projectionTimer # "none"
    /\ projector = Idle /\ ~ProjectionMustWait
    /\ projectionTimer' = "later"
    /\ UNCHANGED <<runVars, projVars, ingestTimer, modeVars, stopVars, counters>>

PagesLeft(job) == IF job = "rebuild" \/ pending = 0 THEN 0 ELSE pending - 1

(* processProjectionRun up to its last hook event.  The worker has applied *)
(* a page and what is left is queued again, or it has failed.              *)
FinishProjection ==
    /\ Running /\ projector.phase = "working"
    /\ projector' = [projector EXCEPT !.phase = "emitting"]
    /\ \/ /\ pending' = PagesLeft(projector.job)
          /\ \E delay \in {"later", "now"} : QueueProjection(pending', delay)
       \/ UNCHANGED <<pending, projectLater, projectionLine, projectionTimer>>
    /\ UNCHANGED <<runVars, ingestTimer, modeVars, stopVars, counters>>

EndProjection ==
    /\ Running /\ projector.phase = "emitting"
    /\ projector' = Idle
    /\ WakesProjection
    /\ MaybeStop(active, Idle)
    /\ UNCHANGED <<runVars, projectLater, projectionLine, pending, ingestTimer, modeVars,
                   graceOver, checkDue, counters>>

-----------------------------------------------------------------------------
(* runBootstrap queues the syncs due at the start (queueAutoSyncRuns, none *)
(* once an update shutdown has begun) and the backlog, or it fails.        *)
BootstrapReady ==
    /\ Running /\ bootstrap = "starting"
    /\ bootstrap' = "ready"
    /\ \E S \in SUBSET RowsThatAre({"free"}) :
          /\ stopping # "no" => S = {}
          /\ Enqueue(S)
    /\ QueueProjection(pending, "now")
    /\ UNCHANGED <<executors, active, projector, pending, login, paused, logins,
                   stopVars, counters>>

BootstrapFails ==
    /\ Running /\ bootstrap = "starting"
    /\ bootstrap' = "failed"
    /\ UNCHANGED <<runVars, projVars, timers, login, paused, logins, stopVars, counters>>

(* beginInteractiveAuth, and pauseProjectionForAuth when it is a connect. *)
BeginLogin ==
    /\ Running /\ logins < MaxLogins
    /\ logins' = logins + 1 /\ login' = TRUE
    /\ \/ paused' = TRUE /\ projectionTimer' = Wake(projectionTimer, "later")
       \/ UNCHANGED <<paused, projectionTimer>>
    /\ UNCHANGED <<runVars, projVars, ingestTimer, bootstrap, stopVars, counters>>

EndLogin ==
    /\ Running /\ login
    /\ login' = FALSE
    /\ ingestTimer' = Wake(ingestTimer, "now")
    /\ projectionTimer' = Wake(projectionTimer, "now")
    /\ UNCHANGED <<runVars, projVars, bootstrap, paused, logins, stopVars, counters>>

(* The session's time to live ends: nobody is woken. *)
LoginExpires ==
    /\ Running /\ login
    /\ login' = FALSE
    /\ UNCHANGED <<runVars, projVars, timers, bootstrap, paused, logins, stopVars, counters>>

PauseEnds ==
    /\ Running /\ paused
    /\ paused' = FALSE
    /\ UNCHANGED <<runVars, projVars, timers, bootstrap, login, logins, stopVars, counters>>

-----------------------------------------------------------------------------
RequestUpdateShutdown ==
    /\ stopping = "no"
    /\ stopping' = "requested" /\ checkDue' = TRUE
    /\ UNCHANGED <<runVars, projVars, timers, modeVars, graceOver, counters>>

CheckShutdown ==
    /\ Running /\ checkDue
    /\ checkDue' = FALSE
    /\ MaybeStop(active, projector)
    /\ UNCHANGED <<runVars, projVars, timers, modeVars, graceOver, counters>>

GraceEnds ==
    /\ stopping = "requested" /\ ~graceOver
    /\ graceOver' = TRUE
    /\ UNCHANGED <<runVars, projVars, timers, modeVars, stopping, checkDue, counters>>

-----------------------------------------------------------------------------
Next ==
    \/ \E S \in SUBSET RowsThatAre({"free"}) : QueueSyncs(S)
    \/ \E s \in Syncs : SyncBecomesDue(s) \/ Overrun(s)
    \/ QueueRebuild \/ ProjectionBecomesDue \/ RealtimeIngest
    \/ DrainIngest
    \/ \E e \in executors : FinishIngest(e) \/ EndIngest(e)
    \/ DrainProjection \/ DrainProjectionBusy
    \/ FinishProjection \/ EndProjection
    \/ BootstrapReady \/ BootstrapFails
    \/ BeginLogin \/ EndLogin \/ LoginExpires \/ PauseEnds
    \/ RequestUpdateShutdown \/ CheckShutdown \/ GraceEnds

Spec == Init /\ [][Next]_vars

(* Timers fire, time passes, bootstrap returns, and an adapter or a        *)
(* projection worker ends: each has a timeout that kills it                *)
(* (workerTimeoutMs, PROJECTION_WORKER_TIMEOUT_MS).                        *)
LoopFairness ==
    /\ WF_vars(DrainIngest) /\ WF_vars(DrainProjection)
    /\ \A s \in Syncs : WF_vars(SyncBecomesDue(s))
    /\ WF_vars(ProjectionBecomesDue) /\ WF_vars(PauseEnds)
    /\ WF_vars(BootstrapReady \/ BootstrapFails)
    /\ WF_vars(CheckShutdown) /\ WF_vars(GraceEnds)
    /\ \A e \in Executor : WF_vars(FinishIngest(e))
    /\ WF_vars(FinishProjection)

(* Hook commands exit: nothing in the code makes them. *)
HooksExit ==
    /\ \A e \in Executor : WF_vars(EndIngest(e))
    /\ WF_vars(EndProjection)

FairSpec == Spec /\ LoopFairness /\ HooksExit

-----------------------------------------------------------------------------
(* The variables stay in their domains, and the lines hold each due run once. *)
TypeOK ==
    /\ row \in [Syncs -> Rows]
    /\ syncLine \in Seq(Syncs)
    /\ executors \subseteq Executor /\ active \subseteq Syncs
    /\ projectLater \in BOOLEAN /\ projectionLine \in Seq(Jobs)
    /\ projector \in [job : Jobs, phase : {"working", "emitting"}] \cup {Idle}
    /\ pending \in Nat
    /\ ingestTimer \in Timer /\ projectionTimer \in Timer
    /\ bootstrap \in {"starting", "ready", "failed"}
    /\ login \in BOOLEAN /\ paused \in BOOLEAN
    /\ stopping \in {"no", "requested", "stopped"}
    /\ graceOver \in BOOLEAN /\ checkDue \in BOOLEAN
    /\ arrivals \in Nat /\ rebuilds \in Nat /\ logins \in Nat /\ overruns \in Nat

(* A rebuild empties the canonical tables and projects everything anew: no *)
(* ingest run is at work beside it, from its claim to its last hook, as    *)
(* long as executors keep within their leases.                             *)
RebuildRunsAlone ==
    overruns = 0 /\ projector.job = "rebuild" => executors = {}

(* activeIngestRuns is the truth about the executors, hooks included, as   *)
(* long as they keep their leases: the map is keyed by run id and loses    *)
(* count of a run that is claimed twice.                                   *)
SlotsAreHonest ==
    overruns = 0 =>
        /\ active = {e.run : e \in executors}
        /\ \A e, f \in executors : e.run = f.run => e = f

(* Runs are only taken up into the slots of the moment: the one slot of an *)
(* interactive login, whatever was at work before it.                      *)
ClaimsFitSlots == [][active' \subseteq active \/ Cardinality(active') <= Slots]_vars

(* No wake-up is lost: while the daemon is not stopping, every queued run  *)
(* has a timer that will look at it, or a run at work whose end wakes the  *)
(* drain it waits for.                                                     *)
WorkIsAttended ==
    stopping = "no" =>
        /\ RowsThatAre({"due", "later", "expired"}) # {} => ingestTimer # "none" \/ active # {}
        /\ projectLater \/ In("project", projectionLine)
              => projectionTimer # "none" \/ projector # Idle
        /\ In("rebuild", projectionLine)
              => projectionTimer # "none" \/ projector # Idle \/ active # {}

Excused == stopping # "no" \/ bootstrap = "failed"

(* A due sync is claimed in the end: the projections it gives way to end,  *)
(* unless bootstrap has failed (a due projection then blocks every sync    *)
(* for good) or the daemon is stopping.                                    *)
DueSyncIsClaimed ==
    \A s \in Syncs : row[s] = "due" ~> (row[s] # "due" \/ Excused)

(* A due projection is claimed in the end, ingests at work or not. *)
DueProjectionIsClaimed ==
    In("project", projectionLine) ~> (projector.job = "project" \/ Excused)

(* A due rebuild is claimed in the end if the ingest slots fall empty again *)
(* and again; syncs that overlap for ever starve it.                        *)
DueRebuildIsClaimed ==
    []<>(active = {}) =>
        (In("rebuild", projectionLine) ~> (projector.job = "rebuild" \/ Excused))

(* No kind of due run waits for ever on the others it gives way to. *)
DueWorkIsClaimed == DueSyncIsClaimed /\ DueProjectionIsClaimed /\ DueRebuildIsClaimed

(* The daemon stops once an update has asked it to. *)
UpdateShutdownCompletes == stopping = "requested" ~> stopping = "stopped"
=============================================================================
