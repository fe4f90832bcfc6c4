------------------------------ MODULE RunQueue ------------------------------
(***************************************************************************)
(* The sync_runs table: the durable queue of ingest, projection and        *)
(* rebuild runs of the daemon (src/src/db/database.ts) and the dedupe      *)
(* rules of its callers (runtime/run-queue.ts, runtime/daemon/server.ts).  *)
(*                                                                         *)
(* A run is claimed by bumping its attempt counter and writing an owner    *)
(* and a lease.  The claim ticket (run, attempt, owner) stays in the hands *)
(* of an executor: a promise of the daemon, or a projection worker, which  *)
(* is a separate process and survives the daemon.  An executor may hold    *)
(* its ticket for as long as it likes, lease or no lease (leases are       *)
(* compared with the wall clock, which runs on while the machine sleeps),  *)
(* and may use it any number of times.  Every update an executor makes is  *)
(* conditional on its ticket (syncRunClaimPredicate), which compares the   *)
(* attempt and the owner but not the status.                               *)
(***************************************************************************)
EXTENDS Integers, FiniteSets

CONSTANTS
    Runs,              \* run ids (randomUUID: never reused)
    Accounts,          \* accounts of one platform
    NoAccount,         \* account_key IS NULL
    IngestLease,       \* INGEST_RUN_LEASE_MS
    ProjectionLease,   \* PROJECTION_RUN_LEASE_MS
    Delays,            \* delays callers pass to queueSyncRun
    MaxClock,          \* bound: ticks of the wall clock
    MaxClaims,         \* bound: claims ever handed out
    MaxDaemons         \* bound: daemon processes ever started

ASSUME RunQueueAssumption ==
    /\ NoAccount \notin Accounts
    /\ IngestLease \in Nat \ {0} /\ ProjectionLease \in Nat \ {0}
    /\ Delays \subseteq Nat /\ 0 \in Delays
    /\ MaxClock \in Nat /\ MaxClaims \in Nat /\ MaxDaemons \in Nat \ {0}

VARIABLES
    runs,              \* the table: one row for every run id
    clock,             \* Date.now()
    daemon,            \* runOwnerId of the current daemon: daemon:<pid>:<startedAt>
    claims,            \* claim tickets still in the hands of an executor
    nextClaim          \* serial number of the next executor

vars == <<runs, clock, daemon, claims, nextClaim>>

-----------------------------------------------------------------------------
NoOwner == 0
NoLease == -1

IngestKinds == {"sync"}                      \* "sync" and "sync_resume"
ProjectionKinds == {"project", "rebuild"}
Kinds == IngestKinds \cup ProjectionKinds

ActiveStatuses == {"ingesting", "projecting"}
SettledStatuses == {"completed", "failed"}
Statuses == {"unused", "queued", "deleted"} \cup ActiveStatuses \cup SettledStatuses

Row == [status : Statuses, kind : Kinds, account : Accounts \cup {NoAccount},
        scheduledAt : Nat, attempt : Nat, owner : Nat, lease : Nat \cup {NoLease}]

Claim == [serial : Nat, run : Runs, attempt : Nat, owner : Nat]

UnusedRow == [status |-> "unused", kind |-> "sync", account |-> NoAccount,
              scheduledAt |-> 0, attempt |-> 0, owner |-> NoOwner, lease |-> NoLease]

RowsIn(S) == {r \in Runs : runs[r].status \in S}

-----------------------------------------------------------------------------
(* queueSyncRun: a fresh row, due after the given delay. *)
QueuedRow(k, a, d) ==
    [status |-> "queued", kind |-> k, account |-> a, scheduledAt |-> clock + d,
     attempt |-> 0, owner |-> NoOwner, lease |-> NoLease]

Insert(k, a, d) ==
    /\ \E r \in RowsIn({"unused"}) : runs' = [runs EXCEPT ![r] = QueuedRow(k, a, d)]
    /\ UNCHANGED <<clock, daemon, claims, nextClaim>>

(* MUTANT: a run being ingested is overlooked. *)
HasQueuedRunOnly(a) == \E r \in RowsIn({"queued"}) : runs[r].account = a

(* hasQueuedOrRunningRun for an account. *)
HasQueuedOrRunningRun(a) ==
    \E r \in RowsIn({"queued", "ingesting"}) : runs[r].account = a

(* Every caller that queues a sync for an account asks first, in the same  *)
(* turn of the daemon's event loop: the scheduler, the watchers, the CLI's *)
(* sync and sync-resume commands, a finished login, a continuation.        *)
QueueSync(a, d) ==
    /\ ~HasQueuedOrRunningRun(a)
    /\ Insert("sync", a, d)

(* The CLI's sync command when the platform has no known account. *)
QueuePlatformSync == Insert("sync", NoAccount, 0)

QueueRebuild == Insert("rebuild", NoAccount, 0)

(* queueProjectionRun: merge into a queued projection run if there is one, *)
(* only ever moving it forward in time; otherwise queue a new one.         *)
QueueProjection(d) ==
    LET queued == {r \in RowsIn({"queued"}) : runs[r].kind = "project"}
    IN  IF queued = {}
        THEN Insert("project", NoAccount, d)
        ELSE /\ \E r \in queued :
                   runs' = [runs EXCEPT ![r].scheduledAt =
                               IF clock + d < @ THEN clock + d ELSE @]
             /\ UNCHANGED <<clock, daemon, claims, nextClaim>>

-----------------------------------------------------------------------------
(* claimNextQueuedRun. *)
Claimable(kinds, active) ==
    {r \in Runs :
        /\ runs[r].kind \in kinds
        /\ \/ runs[r].status = "queued" /\ runs[r].scheduledAt <= clock
           \/ /\ runs[r].status = active
              /\ runs[r].lease # NoLease
              /\ runs[r].lease <= clock}

NextAttempt(row) == row.attempt + 1

ClaimedRow(row, active, lease) ==
    [row EXCEPT !.status = active, !.attempt = NextAttempt(row), !.owner = daemon,
                !.lease = clock + lease]

ClaimNext(kinds, active, lease) ==
    /\ nextClaim < MaxClaims
    /\ \E r \in Claimable(kinds, active) :
          /\ \A q \in Claimable(kinds, active) : runs[r].scheduledAt <= runs[q].scheduledAt
          /\ runs' = [runs EXCEPT ![r] = ClaimedRow(@, active, lease)]
          /\ claims' = claims \cup
                {[serial |-> nextClaim, run |-> r,
                  attempt |-> NextAttempt(runs[r]), owner |-> daemon]}
    /\ nextClaim' = nextClaim + 1
    /\ UNCHANGED <<clock, daemon>>

ClaimIngest == ClaimNext(IngestKinds, "ingesting", IngestLease)

(* A rebuild is only claimable while no ingest run is active. *)
ClaimProjection ==
    \/ ClaimNext({"project"}, "projecting", ProjectionLease)
    \/ ClaimNext(ProjectionKinds, "projecting", ProjectionLease)

-----------------------------------------------------------------------------
(* MUTANT: the claim predicate compares the attempt only. *)
HoldsAttempt(c) == runs[c.run].status # "deleted" /\ runs[c.run].attempt = c.attempt

(* syncRunClaimPredicate: the row exists and has the ticket's attempt and  *)
(* owner; the status is not compared.                                      *)
Holds(c) ==
    /\ runs[c.run].status # "deleted"
    /\ runs[c.run].attempt = c.attempt
    /\ runs[c.run].owner = c.owner

UpdateHeld(c, row) ==
    /\ runs' = IF Holds(c) THEN [runs EXCEPT ![c.run] = row] ELSE runs
    /\ UNCHANGED <<clock, daemon, claims, nextClaim>>

LeaseOf(k) == IF k \in IngestKinds THEN IngestLease ELSE ProjectionLease

SettledRow(row, status) == [row EXCEPT !.status = status, !.owner = NoOwner, !.lease = NoLease]

(* updateRunProgress: extends the lease. *)
Progress(c) ==
    UpdateHeld(c, [runs[c.run] EXCEPT !.lease = clock + LeaseOf(runs[c.run].kind)])

FinishRun(c) == UpdateHeld(c, SettledRow(runs[c.run], "completed"))

FailRun(c) == UpdateHeld(c, SettledRow(runs[c.run], "failed"))

(* The executor is done with the run, or dies. *)
Drop(c) ==
    /\ claims' = claims \ {c}
    /\ UNCHANGED <<runs, clock, daemon, nextClaim>>

-----------------------------------------------------------------------------
(* MUTANT: recovery leaves the owner in place. *)
RecoveredRowKeepsOwner(row) ==
    [row EXCEPT !.status = "queued", !.scheduledAt = clock, !.lease = NoLease]

(* recoverInProgressRuns: everything in progress is queued again, due now. *)
RecoveredRow(row) ==
    [row EXCEPT !.status = "queued", !.scheduledAt = clock,
                !.owner = NoOwner, !.lease = NoLease]

(* A new daemon starts after the last one stopped or crashed. *)
Restart ==
    /\ daemon < MaxDaemons
    /\ daemon' = daemon + 1
    /\ runs' = [r \in Runs |-> IF runs[r].status \in ActiveStatuses
                               THEN RecoveredRow(runs[r]) ELSE runs[r]]
    /\ UNCHANGED <<clock, claims, nextClaim>>

(* resetSource and clearIntegrationRuntimeState delete rows of a platform, *)
(* or of one of its accounts, whatever their status.                       *)
DeleteRuns(S) ==
    /\ runs' = [r \in Runs |-> IF r \in S THEN [runs[r] EXCEPT !.status = "deleted"]
                               ELSE runs[r]]
    /\ UNCHANGED <<clock, daemon, claims, nextClaim>>

Stored == Runs \ RowsIn({"unused", "deleted"})

ResetSource == DeleteRuns({r \in Stored : runs[r].kind \in IngestKinds})

ClearIntegrationRuntimeState(a) == DeleteRuns({r \in Stored : runs[r].account = a})

Tick ==
    /\ clock < MaxClock
    /\ clock' = clock + 1
    /\ UNCHANGED <<runs, daemon, claims, nextClaim>>

-----------------------------------------------------------------------------
Init ==
    /\ runs = [r \in Runs |-> UnusedRow]
    /\ clock = 0
    /\ daemon = 1
    /\ claims = {}
    /\ nextClaim = 0

Next ==
    \/ \E a \in Accounts, d \in Delays : QueueSync(a, d)
    \/ QueuePlatformSync
    \/ QueueRebuild
    \/ \E d \in Delays : QueueProjection(d)
    \/ ClaimIngest
    \/ ClaimProjection
    \/ \E c \in claims : Progress(c) \/ FinishRun(c) \/ FailRun(c) \/ Drop(c)
    \/ Restart
    \/ ResetSource
    \/ \E a \in Accounts : ClearIntegrationRuntimeState(a)
    \/ Tick

Spec == Init /\ [][Next]_vars

-----------------------------------------------------------------------------
(* Type invariant. *)
TypeOK ==
    /\ runs \in [Runs -> Row]
    /\ clock \in Nat
    /\ daemon \in Nat \ {0}
    /\ claims \subseteq Claim
    /\ nextClaim \in Nat

(* Only executors of the current daemon process can touch a run: no ticket *)
(* of an earlier daemon, such as that of a projection worker that outlived *)
(* it, matches a row after recoverInProgressRuns.                          *)
OrphansAreFenced ==
    \A c \in claims : c.owner # daemon => ~Holds(c)

(* Two executors never both hold the right to settle a run, not even when  *)
(* a run whose lease ran out was claimed again by the same daemon while    *)
(* the first executor is still at work.                                    *)
OneHolderPerRun ==
    \A c1, c2 \in claims :
        c1.run = c2.run /\ Holds(c1) /\ Holds(c2) => c1 = c2

(* The claim predicate does not look at the status, so a ticket must stop  *)
(* matching at the moment the run leaves an active status: an executor     *)
(* never settles or extends the lease of a run that is queued or settled.  *)
HolderIsActive ==
    \A c \in claims : Holds(c) => runs[c.run].status \in ActiveStatuses

(* Whatever executors still believe to own, the right to settle a run is   *)
(* one executor's of this daemon, and only while the run is in progress.   *)
OnlyTheHolderSettles == OrphansAreFenced /\ OneHolderPerRun /\ HolderIsActive

(* All callers together never have two live runs for one account.          *)
OneActiveRunPerAccount ==
    \A q, r \in RowsIn({"queued", "ingesting"}) :
        runs[q].account = runs[r].account /\ runs[r].account \in Accounts => q = r

(* A settled run is never run again nor settled a second time: its row     *)
(* stays as it is until its account is reset.                              *)
SettledIsFinal ==
    [][\A r \in Runs :
          runs[r].status \in SettledStatuses =>
             runs'[r] = runs[r] \/ runs'[r].status = "deleted"]_vars

-----------------------------------------------------------------------------
(* The phase a status stands for. *)
PhaseOf(status) ==
    CASE status = "unused"  -> "unused"
      [] status = "queued"  -> "waiting"
      [] status = "deleted" -> "removed"
      [] status \in ActiveStatuses  -> "running"
      [] status \in SettledStatuses -> "settled"

Lifecycle == INSTANCE RunLifecycle WITH
                phase <- [r \in Runs |-> PhaseOf(runs[r].status)],
                term  <- [r \in Runs |-> runs[r].attempt]

(* The queue implements the run lifecycle: queueing, claiming, settling,  *)
(* recovery and removal of sync_runs do to a run what its promise allows.  *)
ImplementsLifecycle == Lifecycle!LifecycleSpec
=============================================================================
