----------------------- MODULE RunQueueRealtimeProofs -----------------------
(***************************************************************************)
(* Proofs about RunQueue, for any number of runs, accounts, daemons and    *)
(* claims, and for any lengths of leases and delays, and about Realtime,   *)
(* for any number of sessions, logins, syncs and faults.  The two modules  *)
(* share nothing.                                                          *)
(***************************************************************************)
EXTENDS RunQueue, Realtime, TLAPS

(* An active row belongs to the current daemon; any other row to nobody.   *)
OwnerMatchesStatus ==
    \A r \in Runs :
        /\ runs[r].status \in ActiveStatuses => runs[r].owner = daemon
        /\ runs[r].status \in {"unused", "queued"} \cup SettledStatuses =>
              runs[r].owner = NoOwner

(* A ticket names a daemon, and an attempt that has been made.             *)
TicketsAreIssued ==
    \A c \in claims : c.owner # NoOwner /\ c.attempt <= runs[c.run].attempt

(* No attempt is handed out twice.                                         *)
AttemptsAreUnique ==
    \A c1, c2 \in claims :
        c1.run = c2.run /\ c1.attempt = c2.attempt => c1 = c2

(* Nobody has attempted a run that was never queued.                       *)
UnusedRowsAreFresh ==
    \A r \in Runs : runs[r].status = "unused" => runs[r].attempt = 0

Inv == UnusedRowsAreFresh /\ OwnerMatchesStatus /\ TicketsAreIssued /\ AttemptsAreUnique

-----------------------------------------------------------------------------
(* A queued row is well typed. *)
LEMMA QueuedRowType ==
    ASSUME TypeOK, RunQueueAssumption, NEW k \in Kinds,
           NEW a \in Accounts \cup {NoAccount}, NEW d \in Delays
    PROVE  QueuedRow(k, a, d) \in Row
  BY DEF QueuedRow, Row, TypeOK, RunQueueAssumption, Statuses, NoOwner, NoLease

(* What queueing changes: one unused row becomes a queued one. *)
LEMMA InsertStep ==
    ASSUME TypeOK, RunQueueAssumption, NEW k \in Kinds,
           NEW a \in Accounts \cup {NoAccount}, NEW d \in Delays, Insert(k, a, d)
    PROVE  TypeOK'
  <1>1. PICK r \in RowsIn({"unused"}) : runs' = [runs EXCEPT ![r] = QueuedRow(k, a, d)]
    BY DEF Insert
  <1>2. r \in Runs
    BY DEF RowsIn
  <1> QED
    BY <1>1, <1>2, QueuedRowType DEF TypeOK, Insert

(* Type correctness of a step. *)
LEMMA TypeStep ==
    ASSUME TypeOK, RunQueueAssumption, [Next]_vars
    PROVE  TypeOK'
  <1>1. ASSUME NEW a \in Accounts, NEW d \in Delays, QueueSync(a, d) PROVE TypeOK'
    BY <1>1, InsertStep DEF QueueSync, Kinds, IngestKinds
  <1>2. CASE QueuePlatformSync
    BY <1>2, InsertStep DEF QueuePlatformSync, Kinds, IngestKinds, RunQueueAssumption
  <1>3. CASE QueueRebuild
    BY <1>3, InsertStep DEF QueueRebuild, Kinds, ProjectionKinds, RunQueueAssumption
  <1>4. ASSUME NEW d \in Delays, QueueProjection(d) PROVE TypeOK'
    <2> DEFINE queued == {r \in RowsIn({"queued"}) : runs[r].kind = "project"}
    <2>1. CASE queued = {}
      BY <1>4, <2>1, InsertStep DEF QueueProjection, Kinds, ProjectionKinds
    <2>2. CASE queued # {}
      <3>1. PICK r \in queued :
               runs' = [runs EXCEPT ![r].scheduledAt =
                           IF clock + d < @ THEN clock + d ELSE @]
        BY <1>4, <2>2 DEF QueueProjection
      <3>2. r \in Runs /\ d \in Nat
        BY DEF RowsIn, RunQueueAssumption
      <3>3. [runs[r] EXCEPT !.scheduledAt =
                IF clock + d < runs[r].scheduledAt THEN clock + d
                ELSE runs[r].scheduledAt] \in Row
        BY <3>2 DEF TypeOK, Row
      <3> QED
        BY <1>4, <2>2, <3>1, <3>2, <3>3 DEF QueueProjection, TypeOK
    <2> QED BY <2>1, <2>2
  <1>5. ASSUME NEW kinds, NEW active \in ActiveStatuses, NEW lease \in Nat \ {0},
               ClaimNext(kinds, active, lease)
        PROVE  TypeOK'
    <2>1. PICK r \in Claimable(kinds, active) :
             /\ runs' = [runs EXCEPT ![r] = ClaimedRow(@, active, lease)]
             /\ claims' = claims \cup {[serial |-> nextClaim, run |-> r,
                              attempt |-> NextAttempt(runs[r]), owner |-> daemon]}
      BY <1>5 DEF ClaimNext
    <2>2. r \in Runs /\ runs[r] \in Row
      BY DEF Claimable, TypeOK
    <2>3. ClaimedRow(runs[r], active, lease) \in Row
      <3>1. NextAttempt(runs[r]) \in Nat /\ daemon \in Nat /\ clock + lease \in Nat
        BY <2>2 DEF NextAttempt, Row, TypeOK
      <3>2. active \in Statuses
        BY DEF Statuses
      <3> QED
        BY <2>2, <3>1, <3>2 DEF ClaimedRow, Row
    <2>4. [serial |-> nextClaim, run |-> r, attempt |-> NextAttempt(runs[r]),
           owner |-> daemon] \in Claim
      BY <2>2 DEF Claim, NextAttempt, Row, TypeOK
    <2>5. runs' \in [Runs -> Row]
      BY <2>1, <2>2, <2>3 DEF TypeOK
    <2>6. claims' \subseteq Claim
      BY <2>1, <2>4 DEF TypeOK
    <2> QED
      BY <1>5, <2>5, <2>6 DEF ClaimNext, TypeOK
  <1>6. CASE ClaimIngest
    BY <1>6, <1>5 DEF ClaimIngest, ActiveStatuses, RunQueueAssumption
  <1>7. CASE ClaimProjection
    BY <1>7, <1>5 DEF ClaimProjection, ActiveStatuses, RunQueueAssumption
  <1>8. ASSUME NEW c \in claims, Progress(c) \/ FinishRun(c) \/ FailRun(c)
        PROVE  TypeOK'
    <2>1. c.run \in Runs /\ runs[c.run] \in Row
      BY DEF TypeOK, Claim
    <2>2. [runs[c.run] EXCEPT !.lease = clock + LeaseOf(runs[c.run].kind)] \in Row
      BY <2>1 DEF Row, LeaseOf, TypeOK, RunQueueAssumption
    <2>3. ASSUME NEW s \in SettledStatuses PROVE SettledRow(runs[c.run], s) \in Row
      BY <2>1 DEF SettledRow, Row, Statuses, NoOwner, NoLease
    <2> QED
      BY <1>8, <2>1, <2>2, <2>3
      DEF Progress, FinishRun, FailRun, UpdateHeld, TypeOK, SettledStatuses
  <1>9. ASSUME NEW c \in claims, Drop(c) PROVE TypeOK'
    BY <1>9 DEF Drop, TypeOK
  <1>10. CASE Restart
    <2>1. ASSUME NEW r \in Runs PROVE RecoveredRow(runs[r]) \in Row
      BY DEF RecoveredRow, Row, TypeOK, Statuses, NoOwner, NoLease
    <2> QED
      BY <1>10, <2>1 DEF Restart, TypeOK
  <1>11. ASSUME NEW S, DeleteRuns(S) PROVE TypeOK'
    <2>1. ASSUME NEW r \in Runs PROVE [runs[r] EXCEPT !.status = "deleted"] \in Row
      BY DEF Row, TypeOK, Statuses
    <2> QED
      BY <1>11, <2>1 DEF DeleteRuns, TypeOK
  <1>12. CASE Tick
    BY <1>12 DEF Tick, TypeOK
  <1>13. CASE UNCHANGED vars
    BY <1>13 DEF vars, TypeOK
  <1> QED
    BY <1>1, <1>2, <1>3, <1>4, <1>6, <1>7, <1>8, <1>9, <1>10, <1>11, <1>12, <1>13
    DEF Next, ResetSource, ClearIntegrationRuntimeState

(* The table and the tickets keep their types. *)
THEOREM TypeCorrect == Spec => []TypeOK
  <1> USE RunQueueAssumption
  <1>1. Init => TypeOK
    BY DEF Init, TypeOK, UnusedRow, Row, Statuses, Kinds, IngestKinds, NoOwner, NoLease
  <1>2. TypeOK /\ [Next]_vars => TypeOK'
    BY TypeStep
  <1> QED
    BY <1>1, <1>2, PTL DEF Spec

-----------------------------------------------------------------------------
(* A ticket that matches its row belongs to the current daemon, and the    *)
(* row is in progress.                                                     *)
LEMMA HolderFacts ==
    ASSUME TypeOK, Inv, NEW c \in claims, Holds(c)
    PROVE  /\ runs[c.run].status \in ActiveStatuses
           /\ c.owner = daemon
           /\ c.run \in Runs
  <1>1. c.run \in Runs /\ runs[c.run] \in Row
    BY DEF TypeOK, Claim
  <1>2. runs[c.run].owner # NoOwner /\ runs[c.run].status # "deleted"
    BY DEF Inv, TicketsAreIssued, Holds
  <1> QED
    BY <1>1, <1>2 DEF Inv, OwnerMatchesStatus, Row, Statuses, Holds

(* A step that hands out no ticket, starts no daemon and lowers no attempt *)
(* leaves every ticket as it was.                                          *)
LEMMA TicketsUntouched ==
    ASSUME TypeOK, Inv, claims' \subseteq claims,
           \A r \in Runs : runs'[r].attempt = runs[r].attempt
    PROVE  TicketsAreIssued' /\ AttemptsAreUnique'
  <1>1. \A c \in claims' : c.run \in Runs
    BY DEF TypeOK, Claim
  <1> QED
    BY <1>1 DEF Inv, TicketsAreIssued, AttemptsAreUnique

(* Queueing a run keeps the strengthened invariant. *)
LEMMA InsertInv ==
    ASSUME TypeOK, Inv, NEW k, NEW a, NEW d, Insert(k, a, d)
    PROVE  Inv'
  <1>1. PICK r \in RowsIn({"unused"}) : runs' = [runs EXCEPT ![r] = QueuedRow(k, a, d)]
    BY DEF Insert
  <1>2. r \in Runs /\ runs[r].attempt = 0
    BY DEF RowsIn, Inv, UnusedRowsAreFresh
  <1>3. UnusedRowsAreFresh' /\ OwnerMatchesStatus'
    BY <1>1, <1>2 DEF Insert, Inv, OwnerMatchesStatus, UnusedRowsAreFresh, TypeOK,
                      QueuedRow, ActiveStatuses, SettledStatuses
  <1>4. \A q \in Runs : runs'[q].attempt = runs[q].attempt
    BY <1>1, <1>2 DEF TypeOK, QueuedRow
  <1> QED
    BY <1>3, <1>4, TicketsUntouched DEF Inv, Insert

(* Claiming a run: the new ticket carries an attempt above all earlier ones. *)
LEMMA ClaimInv ==
    ASSUME TypeOK, Inv, NEW kinds, NEW active \in ActiveStatuses, NEW lease,
           ClaimNext(kinds, active, lease)
    PROVE  Inv'
  <1>1. PICK r \in Claimable(kinds, active) :
           /\ runs' = [runs EXCEPT ![r] = ClaimedRow(@, active, lease)]
           /\ claims' = claims \cup {[serial |-> nextClaim, run |-> r,
                            attempt |-> NextAttempt(runs[r]), owner |-> daemon]}
    BY DEF ClaimNext
  <1> DEFINE new == [serial |-> nextClaim, run |-> r,
                     attempt |-> NextAttempt(runs[r]), owner |-> daemon]
  <1>2. r \in Runs /\ runs[r].attempt \in Nat /\ daemon \in Nat \ {0}
    BY DEF Claimable, TypeOK, Row
  <1>3. new.attempt = runs[r].attempt + 1 /\ new.run = r /\ new.owner = daemon
    BY DEF NextAttempt
  <1>4. /\ runs'[r].status = active /\ runs'[r].owner = daemon
        /\ runs'[r].attempt = runs[r].attempt + 1
        /\ \A q \in Runs \ {r} : runs'[q] = runs[q]
        /\ daemon' = daemon
    <2>1. runs[r] \in Row /\ runs \in [Runs -> Row]
      BY <1>2 DEF TypeOK
    <2>2. runs'[r] = ClaimedRow(runs[r], active, lease)
      BY <1>1, <1>2, <2>1
    <2>3. /\ runs'[r].status = active /\ runs'[r].owner = daemon
          /\ runs'[r].attempt = NextAttempt(runs[r])
      BY <2>1, <2>2 DEF ClaimedRow, Row
    <2>4. \A q \in Runs \ {r} : runs'[q] = runs[q]
      BY <1>1, <1>2, <2>1
    <2>5. daemon' = daemon
      BY DEF ClaimNext
    <2> QED
      BY <2>3, <2>4, <2>5 DEF NextAttempt
  <1>5. UnusedRowsAreFresh' /\ OwnerMatchesStatus'
    BY <1>2, <1>4 DEF Inv, OwnerMatchesStatus, UnusedRowsAreFresh, ActiveStatuses, SettledStatuses
  <1>6. \A c \in claims : /\ c.run \in Runs /\ c.attempt \in Nat
                          /\ c.attempt <= runs[c.run].attempt
                          /\ c.owner # NoOwner
    BY DEF TypeOK, Claim, Inv, TicketsAreIssued
  <1>7. TicketsAreIssued'
    <2>1. ASSUME NEW c \in claims PROVE c.owner # NoOwner /\ c.attempt <= runs'[c.run].attempt
      BY <1>2, <1>4, <1>6
    <2>2. new.owner # NoOwner /\ new.attempt <= runs'[new.run].attempt
      BY <1>2, <1>3, <1>4 DEF NoOwner
    <2> QED
      BY <1>1, <2>1, <2>2 DEF TicketsAreIssued
  <1>8. AttemptsAreUnique'
    <2>1. ASSUME NEW c \in claims PROVE ~(c.run = new.run /\ c.attempt = new.attempt)
      BY <1>2, <1>3, <1>6
    <2> HIDE DEF new
    <2> QED
      BY <1>1, <2>1 DEF Inv, AttemptsAreUnique, new
  <1> QED
    BY <1>5, <1>7, <1>8 DEF Inv

(* An executor's update either changes nothing or acts on its own row.     *)
LEMMA UpdateInv ==
    ASSUME TypeOK, Inv, NEW c \in claims, NEW row, UpdateHeld(c, row),
           row.attempt = runs[c.run].attempt,
           \/ row.status = runs[c.run].status /\ row.owner = runs[c.run].owner
           \/ row.status \in SettledStatuses /\ row.owner = NoOwner
    PROVE  Inv'
  <1>1. CASE ~Holds(c)
    <2>1. runs' = runs /\ claims' = claims /\ daemon' = daemon
      BY <1>1 DEF UpdateHeld
    <2> QED
      BY <2>1 DEF Inv, OwnerMatchesStatus, UnusedRowsAreFresh, TicketsAreIssued, AttemptsAreUnique
  <1>2. CASE Holds(c)
    <2>1. c.run \in Runs /\ runs' = [runs EXCEPT ![c.run] = row]
          /\ claims' = claims /\ daemon' = daemon
      BY <1>2, HolderFacts DEF UpdateHeld
    <2>2. UnusedRowsAreFresh' /\ OwnerMatchesStatus'
      BY <2>1 DEF Inv, OwnerMatchesStatus, UnusedRowsAreFresh, TypeOK, ActiveStatuses, SettledStatuses
    <2>3. \A q \in Runs : runs'[q].attempt = runs[q].attempt
      BY <2>1 DEF TypeOK
    <2> QED
      BY <2>1, <2>2, <2>3, TicketsUntouched DEF Inv
  <1> QED BY <1>1, <1>2

(* Every step keeps the strengthened invariant. *)
LEMMA InvStep ==
    ASSUME TypeOK, Inv, [Next]_vars
    PROVE  Inv'
  <1>1. CASE \E a \in Accounts, d \in Delays : QueueSync(a, d)
    BY <1>1, InsertInv DEF QueueSync
  <1>2. CASE QueuePlatformSync \/ QueueRebuild
    BY <1>2, InsertInv DEF QueuePlatformSync, QueueRebuild
  <1>3. ASSUME NEW d \in Delays, QueueProjection(d) PROVE Inv'
    <2> DEFINE queued == {r \in RowsIn({"queued"}) : runs[r].kind = "project"}
    <2>1. CASE queued = {}
      BY <1>3, <2>1, InsertInv DEF QueueProjection
    <2>2. CASE queued # {}
      <3>1. PICK r \in queued :
               runs' = [runs EXCEPT ![r].scheduledAt =
                           IF clock + d < @ THEN clock + d ELSE @]
        BY <1>3, <2>2 DEF QueueProjection
      <3>2. \A q \in Runs : /\ runs'[q].attempt = runs[q].attempt
                            /\ runs'[q].status = runs[q].status
                            /\ runs'[q].owner = runs[q].owner
        BY <3>1 DEF TypeOK, Row
      <3>3. claims' = claims /\ daemon' = daemon
        BY <1>3, <2>2 DEF QueueProjection
      <3> QED
        BY <3>2, <3>3, TicketsUntouched DEF Inv, OwnerMatchesStatus, UnusedRowsAreFresh
    <2> QED BY <2>1, <2>2
  <1>4. CASE ClaimIngest \/ ClaimProjection
    BY <1>4, ClaimInv DEF ClaimIngest, ClaimProjection, ActiveStatuses
  <1>5. ASSUME NEW c \in claims, Progress(c) \/ FinishRun(c) \/ FailRun(c)
        PROVE  Inv'
    <2>1. c.run \in Runs /\ runs[c.run] \in Row
      BY DEF TypeOK, Claim
    <2>2. CASE Progress(c)
      BY <2>1, <2>2, UpdateInv DEF Progress, Row
    <2>3. CASE FinishRun(c) \/ FailRun(c)
      BY <2>1, <2>3, UpdateInv DEF FinishRun, FailRun, SettledRow, SettledStatuses, Row
    <2> QED BY <1>5, <2>2, <2>3
  <1>6. ASSUME NEW c \in claims, Drop(c) PROVE Inv'
    BY <1>6, TicketsUntouched DEF Drop, Inv, OwnerMatchesStatus, UnusedRowsAreFresh
  <1>7. CASE Restart
    <2>1. \A q \in Runs :
             runs'[q] = IF runs[q].status \in ActiveStatuses
                        THEN RecoveredRow(runs[q]) ELSE runs[q]
      BY <1>7 DEF Restart
    <2>2. \A q \in Runs : runs[q] \in Row
      BY DEF TypeOK
    <2>3. \A q \in Runs :
             /\ runs'[q].attempt = runs[q].attempt
             /\ IF runs[q].status \in ActiveStatuses
                THEN runs'[q].status = "queued" /\ runs'[q].owner = NoOwner
                ELSE runs'[q] = runs[q]
      BY <2>1, <2>2 DEF RecoveredRow, Row
    <2>4. UnusedRowsAreFresh' /\ OwnerMatchesStatus'
      BY <2>3 DEF Inv, OwnerMatchesStatus, UnusedRowsAreFresh, ActiveStatuses, SettledStatuses
    <2> QED
      BY <1>7, <2>3, <2>4, TicketsUntouched DEF Restart, Inv
  <1>8. ASSUME NEW S, DeleteRuns(S) PROVE Inv'
    <2>1. \A q \in Runs :
             runs'[q] = IF q \in S THEN [runs[q] EXCEPT !.status = "deleted"] ELSE runs[q]
      BY <1>8 DEF DeleteRuns
    <2>2. \A q \in Runs : runs'[q].attempt = runs[q].attempt
      BY <2>1 DEF TypeOK, Row
    <2>3. UnusedRowsAreFresh' /\ OwnerMatchesStatus'
      BY <1>8, <2>1 DEF DeleteRuns, Inv, OwnerMatchesStatus, UnusedRowsAreFresh, TypeOK, Row,
                        ActiveStatuses, SettledStatuses
    <2> QED
      BY <1>8, <2>2, <2>3, TicketsUntouched DEF DeleteRuns, Inv
  <1>9. CASE Tick \/ UNCHANGED vars
    BY <1>9, TicketsUntouched DEF Tick, vars, Inv, OwnerMatchesStatus, UnusedRowsAreFresh
  <1> QED
    BY <1>1, <1>2, <1>3, <1>4, <1>5, <1>6, <1>7, <1>8, <1>9
    DEF Next, ResetSource, ClearIntegrationRuntimeState

(* The strengthened invariant, for every value of the constants. *)
LEMMA InvCorrect == Spec => []Inv
  <1>1. Init => Inv
    BY DEF Init, Inv, OwnerMatchesStatus, UnusedRowsAreFresh, TicketsAreIssued,
           AttemptsAreUnique, UnusedRow, ActiveStatuses, SettledStatuses
  <1>2. TypeOK /\ Inv /\ [Next]_vars => Inv'
    BY InvStep
  <1> QED
    BY <1>1, <1>2, TypeCorrect, PTL DEF Spec

-----------------------------------------------------------------------------
(* The fencing of runs: no ticket of an earlier daemon matches, at most    *)
(* one executor can settle a run, and only while the run is in progress.   *)
THEOREM Fencing ==
    Spec => []OnlyTheHolderSettles
  <1>1. TypeOK /\ Inv => OrphansAreFenced /\ HolderIsActive
    BY HolderFacts DEF OrphansAreFenced, HolderIsActive
  <1>2. TypeOK /\ Inv => OneHolderPerRun
    BY DEF Inv, AttemptsAreUnique, OneHolderPerRun, Holds
  <1> QED
    BY <1>1, <1>2, TypeCorrect, InvCorrect, PTL DEF OnlyTheHolderSettles

-----------------------------------------------------------------------------
(* A settled run stays as it is: a claim takes only queued and in-progress *)
(* rows, and no ticket matches a settled one.                              *)
LEMMA SettledStep ==
    ASSUME TypeOK, Inv, [Next]_vars, NEW r \in Runs,
           runs[r].status \in SettledStatuses
    PROVE  runs'[r] = runs[r] \/ runs'[r].status = "deleted"
  <1> USE DEF SettledStatuses, ActiveStatuses
  <1>1. ASSUME NEW k, NEW a, NEW d, Insert(k, a, d) PROVE runs'[r] = runs[r]
    BY <1>1 DEF Insert, RowsIn, TypeOK
  <1>2. ASSUME NEW d \in Delays, QueueProjection(d) PROVE runs'[r] = runs[r]
    BY <1>1, <1>2 DEF QueueProjection, RowsIn, TypeOK
  <1>3. ASSUME NEW kinds, NEW active \in ActiveStatuses, NEW lease,
               ClaimNext(kinds, active, lease)
        PROVE  runs'[r] = runs[r]
    BY <1>3 DEF ClaimNext, Claimable, TypeOK
  <1>4. ASSUME NEW c \in claims, NEW row, UpdateHeld(c, row) PROVE runs'[r] = runs[r]
    BY <1>4, HolderFacts DEF UpdateHeld, TypeOK
  <1>5. CASE Restart
    BY <1>5 DEF Restart
  <1>6. ASSUME NEW S, DeleteRuns(S)
        PROVE  runs'[r] = runs[r] \/ runs'[r].status = "deleted"
    BY <1>6 DEF DeleteRuns, TypeOK, Row
  <1>7. CASE Tick \/ UNCHANGED vars
    BY <1>7 DEF Tick, vars
  <1>8. ASSUME NEW c \in claims, Drop(c) PROVE runs'[r] = runs[r]
    BY <1>8 DEF Drop
  <1> QED
    BY <1>1, <1>2, <1>3, <1>4, <1>5, <1>6, <1>7, <1>8
    DEF Next, QueueSync, QueuePlatformSync, QueueRebuild, ClaimIngest, ClaimProjection,
        Progress, FinishRun, FailRun, ResetSource, ClearIntegrationRuntimeState

(* A settled run is never executed again nor settled twice. *)
THEOREM SettledRunsStaySettled == Spec => SettledIsFinal
  <1>1. TypeOK /\ Inv /\ [Next]_vars =>
           [\A r \in Runs : runs[r].status \in SettledStatuses =>
               runs'[r] = runs[r] \/ runs'[r].status = "deleted"]_vars
    BY SettledStep
  <1> QED
    BY <1>1, TypeCorrect, InvCorrect, PTL DEF Spec, SettledIsFinal

-----------------------------------------------------------------------------
(* Projection and rebuild runs belong to no account; only they project.    *)
ProjectionRunsHaveNoAccount ==
    \A r \in Runs :
        /\ runs[r].kind \in ProjectionKinds => runs[r].account = NoAccount
        /\ runs[r].status = "projecting" => runs[r].kind \in ProjectionKinds

LiveForAccount(row) == row.status \in {"queued", "ingesting"} /\ row.account \in Accounts

(* A step that makes no new live run for an account keeps them unique. *)
LEMMA NoNewLiveRun ==
    ASSUME TypeOK, OneActiveRunPerAccount,
           \A r \in Runs : LiveForAccount(runs'[r]) =>
               LiveForAccount(runs[r]) /\ runs[r].account = runs'[r].account
    PROVE  OneActiveRunPerAccount'
  BY DEF OneActiveRunPerAccount, LiveForAccount, RowsIn

LEMMA AccountStep ==
    ASSUME TypeOK, ProjectionRunsHaveNoAccount, OneActiveRunPerAccount, [Next]_vars
    PROVE  ProjectionRunsHaveNoAccount' /\ OneActiveRunPerAccount'
  <1> USE RunQueueAssumption DEF IngestKinds, ProjectionKinds
  <1>1. ASSUME NEW a \in Accounts, NEW d \in Delays, QueueSync(a, d)
        PROVE  ProjectionRunsHaveNoAccount' /\ OneActiveRunPerAccount'
    <2>1. PICK r \in RowsIn({"unused"}) :
             runs' = [runs EXCEPT ![r] = QueuedRow("sync", a, d)]
      BY <1>1 DEF QueueSync, Insert
    <2>2. ~HasQueuedOrRunningRun(a) /\ r \in Runs
      BY <1>1 DEF QueueSync, RowsIn
    <2>3. OneActiveRunPerAccount'
      BY <2>1, <2>2 DEF OneActiveRunPerAccount, HasQueuedOrRunningRun, RowsIn, TypeOK, QueuedRow
    <2>4. ProjectionRunsHaveNoAccount'
      BY <2>1, <2>2 DEF ProjectionRunsHaveNoAccount, TypeOK, QueuedRow
    <2> QED BY <2>3, <2>4
  <1>2. ASSUME NEW k, NEW d, Insert(k, NoAccount, d)
        PROVE  ProjectionRunsHaveNoAccount' /\ OneActiveRunPerAccount'
    <2>1. PICK r \in RowsIn({"unused"}) :
             runs' = [runs EXCEPT ![r] = QueuedRow(k, NoAccount, d)]
      BY <1>2 DEF Insert
    <2> QED
      BY <2>1, NoNewLiveRun
      DEF ProjectionRunsHaveNoAccount, TypeOK, QueuedRow, LiveForAccount, RowsIn
  <1>3. ASSUME NEW d \in Delays, QueueProjection(d)
        PROVE  ProjectionRunsHaveNoAccount' /\ OneActiveRunPerAccount'
    <2> DEFINE queued == {r \in RowsIn({"queued"}) : runs[r].kind = "project"}
    <2>1. CASE queued = {}
      BY <1>3, <2>1, <1>2 DEF QueueProjection
    <2>2. CASE queued # {}
      <3>1. PICK r \in queued :
               runs' = [runs EXCEPT ![r].scheduledAt =
                           IF clock + d < @ THEN clock + d ELSE @]
        BY <1>3, <2>2 DEF QueueProjection
      <3>2. \A q \in Runs : /\ runs'[q].kind = runs[q].kind
                            /\ runs'[q].status = runs[q].status
                            /\ runs'[q].account = runs[q].account
        BY <3>1 DEF TypeOK, Row
      <3> QED
        BY <3>2, NoNewLiveRun DEF ProjectionRunsHaveNoAccount, LiveForAccount
    <2> QED BY <2>1, <2>2
  <1>4. ASSUME NEW kinds, NEW active, NEW lease, ClaimNext(kinds, active, lease),
               \/ active = "ingesting"
               \/ active = "projecting" /\ kinds \subseteq ProjectionKinds
        PROVE  ProjectionRunsHaveNoAccount' /\ OneActiveRunPerAccount'
    <2>1. PICK r \in Claimable(kinds, active) :
             runs' = [runs EXCEPT ![r] = ClaimedRow(@, active, lease)]
      BY <1>4 DEF ClaimNext
    <2>2. /\ r \in Runs /\ runs[r].kind \in kinds
          /\ runs[r].status \in {"queued", active}
      BY DEF Claimable
    <2>3. \A q \in Runs : /\ runs'[q].kind = runs[q].kind
                          /\ runs'[q].account = runs[q].account
                          /\ q # r => runs'[q].status = runs[q].status
      BY <2>1, <2>2 DEF TypeOK, Row, ClaimedRow
    <2>4. runs'[r].status = active
      BY <2>1, <2>2 DEF TypeOK, Row, ClaimedRow
    <2>5. ProjectionRunsHaveNoAccount'
      BY <1>4, <2>2, <2>3, <2>4 DEF ProjectionRunsHaveNoAccount
    <2>6. \A q \in Runs : LiveForAccount(runs'[q]) =>
               LiveForAccount(runs[q]) /\ runs[q].account = runs'[q].account
      BY <1>4, <2>2, <2>3, <2>4 DEF LiveForAccount
    <2> QED BY <2>5, <2>6, NoNewLiveRun
  <1>5. CASE ClaimIngest \/ ClaimProjection
    BY <1>5, <1>4 DEF ClaimIngest, ClaimProjection
  <1>6. ASSUME NEW c \in claims, Progress(c) \/ FinishRun(c) \/ FailRun(c)
        PROVE  ProjectionRunsHaveNoAccount' /\ OneActiveRunPerAccount'
    <2>1. c.run \in Runs /\ runs[c.run] \in Row
      BY DEF TypeOK, Claim
    <2>2. \A q \in Runs : /\ runs'[q].kind = runs[q].kind
                          /\ runs'[q].account = runs[q].account
                          /\ \/ runs'[q].status = runs[q].status
                             \/ runs'[q].status \in SettledStatuses
      <3>1. ASSUME NEW row, UpdateHeld(c, row),
                   row.kind = runs[c.run].kind, row.account = runs[c.run].account,
                   row.status = runs[c.run].status \/ row.status \in SettledStatuses
            PROVE  \A q \in Runs : /\ runs'[q].kind = runs[q].kind
                                   /\ runs'[q].account = runs[q].account
                                   /\ \/ runs'[q].status = runs[q].status
                                      \/ runs'[q].status \in SettledStatuses
        BY <2>1, <3>1 DEF UpdateHeld, TypeOK
      <3>2. CASE Progress(c)
        BY <2>1, <3>1, <3>2 DEF Progress, Row
      <3>3. CASE FinishRun(c)
        BY <2>1, <3>1, <3>3 DEF FinishRun, SettledRow, SettledStatuses, Row
      <3>4. CASE FailRun(c)
        BY <2>1, <3>1, <3>4 DEF FailRun, SettledRow, SettledStatuses, Row
      <3> QED BY <1>6, <3>2, <3>3, <3>4
    <2>3. ProjectionRunsHaveNoAccount'
      BY <2>2 DEF ProjectionRunsHaveNoAccount, SettledStatuses
    <2>4. \A q \in Runs : LiveForAccount(runs'[q]) =>
               LiveForAccount(runs[q]) /\ runs[q].account = runs'[q].account
      BY <2>2 DEF LiveForAccount, SettledStatuses
    <2> QED BY <2>3, <2>4, NoNewLiveRun
  <1>7. CASE Restart
    <2>1. \A q \in Runs :
             runs'[q] = IF runs[q].status \in ActiveStatuses
                        THEN RecoveredRow(runs[q]) ELSE runs[q]
      BY <1>7 DEF Restart
    <2>2. \A q \in Runs :
             /\ runs'[q].kind = runs[q].kind
             /\ runs'[q].account = runs[q].account
             /\ \/ runs'[q].status = runs[q].status
                \/ runs[q].status \in ActiveStatuses /\ runs'[q].status = "queued"
      BY <2>1 DEF RecoveredRow, TypeOK, Row
    <2>3. ProjectionRunsHaveNoAccount'
      BY <2>2 DEF ProjectionRunsHaveNoAccount
    <2>4. \A q \in Runs : runs[q].status = "projecting" => runs[q].account \notin Accounts
      BY DEF ProjectionRunsHaveNoAccount
    <2>5. \A q \in Runs : LiveForAccount(runs'[q]) =>
               LiveForAccount(runs[q]) /\ runs[q].account = runs'[q].account
      BY <2>2, <2>4 DEF LiveForAccount, ActiveStatuses
    <2> QED BY <2>3, <2>5, NoNewLiveRun
  <1>8. ASSUME NEW S, DeleteRuns(S)
        PROVE  ProjectionRunsHaveNoAccount' /\ OneActiveRunPerAccount'
    <2>1. \A q \in Runs :
             /\ runs'[q].kind = runs[q].kind
             /\ runs'[q].account = runs[q].account
             /\ runs'[q].status \in {runs[q].status, "deleted"}
      BY <1>8 DEF DeleteRuns, TypeOK, Row
    <2> QED
      BY <2>1, NoNewLiveRun DEF ProjectionRunsHaveNoAccount, LiveForAccount
  <1>9. CASE Tick \/ UNCHANGED vars \/ \E c \in claims : Drop(c)
    BY <1>9, NoNewLiveRun DEF Tick, vars, Drop, ProjectionRunsHaveNoAccount, LiveForAccount
  <1> QED
    BY <1>1, <1>2, <1>3, <1>5, <1>6, <1>7, <1>8, <1>9
    DEF Next, QueuePlatformSync, QueueRebuild, ResetSource, ClearIntegrationRuntimeState

(* All callers together never have two live runs for one account. *)
THEOREM AccountExclusive == Spec => []OneActiveRunPerAccount
  <1>1. Init => ProjectionRunsHaveNoAccount /\ OneActiveRunPerAccount
    BY DEF Init, ProjectionRunsHaveNoAccount, OneActiveRunPerAccount, RowsIn, UnusedRow,
           ProjectionKinds
  <1>2. /\ TypeOK /\ ProjectionRunsHaveNoAccount /\ OneActiveRunPerAccount
        /\ [Next]_vars
        => ProjectionRunsHaveNoAccount' /\ OneActiveRunPerAccount'
    BY AccountStep
  <1> QED
    BY <1>1, <1>2, TypeCorrect, PTL DEF Spec

-----------------------------------------------------------------------------
(* Every step of the queue is a step of the lifecycle or leaves phases and *)
(* terms alone.                                                            *)
phaseOf == [r \in Runs |-> PhaseOf(runs[r].status)]
termOf == [r \in Runs |-> runs[r].attempt]

LEMMA RefinementStep ==
    ASSUME TypeOK, Inv, [Next]_vars
    PROVE  [Lifecycle!LifecycleNext]_<<phaseOf, termOf>>
  <1> USE DEF phaseOf, termOf
  <1>1. ASSUME NEW k, NEW a, NEW d, Insert(k, a, d)
        PROVE  \E r \in Runs : Lifecycle!Submit(r)
    <2>1. PICK r \in RowsIn({"unused"}) : runs' = [runs EXCEPT ![r] = QueuedRow(k, a, d)]
      BY <1>1 DEF Insert
    <2>2. r \in Runs /\ runs[r].status = "unused" /\ runs[r].attempt = 0
      BY DEF RowsIn, Inv, UnusedRowsAreFresh
    <2>3. /\ runs'[r].status = "queued" /\ runs'[r].attempt = 0
          /\ \A q \in Runs \ {r} : runs'[q] = runs[q]
      BY <2>1, <2>2 DEF TypeOK, QueuedRow
    <2>4. PhaseOf("unused") = "unused" /\ PhaseOf("queued") = "waiting"
      BY DEF PhaseOf, ActiveStatuses, SettledStatuses
    <2>5. phaseOf' = [phaseOf EXCEPT ![r] = "waiting"] /\ termOf' = termOf
      BY <2>2, <2>3, <2>4
    <2>6. Lifecycle!Submit(r)
      BY <2>2, <2>4, <2>5 DEF Lifecycle!Submit
    <2> QED BY <2>2, <2>6
  <1>2. ASSUME NEW d \in Delays, QueueProjection(d)
        PROVE  [Lifecycle!LifecycleNext]_<<phaseOf, termOf>>
    <2> DEFINE queued == {r \in RowsIn({"queued"}) : runs[r].kind = "project"}
    <2>1. CASE queued = {}
      BY <1>1, <1>2, <2>1 DEF QueueProjection, Lifecycle!LifecycleNext
    <2>2. CASE queued # {}
      <3>1. PICK r \in queued :
               runs' = [runs EXCEPT ![r].scheduledAt =
                           IF clock + d < @ THEN clock + d ELSE @]
        BY <1>2, <2>2 DEF QueueProjection
      <3>2. \A q \in Runs : /\ runs'[q].attempt = runs[q].attempt
                            /\ runs'[q].status = runs[q].status
        BY <3>1 DEF TypeOK, Row
      <3> QED BY <3>2
    <2> QED BY <2>1, <2>2
  <1>3. ASSUME NEW kinds, NEW active \in ActiveStatuses, NEW lease,
               ClaimNext(kinds, active, lease)
        PROVE  \E r \in Runs : Lifecycle!Start(r)
    <2>1. PICK r \in Claimable(kinds, active) :
             runs' = [runs EXCEPT ![r] = ClaimedRow(@, active, lease)]
      BY <1>3 DEF ClaimNext
    <2>2. r \in Runs /\ runs[r].status \in {"queued"} \cup ActiveStatuses
      BY DEF Claimable
    <2>3. /\ runs'[r].status = active
          /\ runs'[r].attempt = runs[r].attempt + 1
          /\ \A q \in Runs \ {r} : runs'[q] = runs[q]
      BY <2>1, <2>2 DEF TypeOK, Row, ClaimedRow, NextAttempt
    <2>4. PhaseOf(runs[r].status) \in {"waiting", "running"} /\ PhaseOf(active) = "running"
      BY <2>2 DEF PhaseOf, ActiveStatuses, SettledStatuses
    <2>5. phaseOf' = [phaseOf EXCEPT ![r] = "running"]
      BY <2>2, <2>3, <2>4
    <2>6. termOf' = [termOf EXCEPT ![r] = @ + 1]
      BY <2>2, <2>3
    <2> QED BY <2>2, <2>4, <2>5, <2>6 DEF Lifecycle!Start
  <1>4. ASSUME NEW c \in claims, NEW s \in SettledStatuses,
               UpdateHeld(c, SettledRow(runs[c.run], s))
        PROVE  [Lifecycle!LifecycleNext]_<<phaseOf, termOf>>
    <2>1. CASE ~Holds(c)
      BY <1>4, <2>1 DEF UpdateHeld
    <2>2. CASE Holds(c)
      <3>1. c.run \in Runs /\ runs[c.run].status \in ActiveStatuses
        BY <2>2, HolderFacts
      <3>2. /\ runs'[c.run].status = s
            /\ \A q \in Runs : runs'[q].attempt = runs[q].attempt
            /\ \A q \in Runs \ {c.run} : runs'[q] = runs[q]
        BY <1>4, <2>2, <3>1 DEF UpdateHeld, SettledRow, TypeOK, Row
      <3>3. PhaseOf(runs[c.run].status) = "running" /\ PhaseOf(s) = "settled"
        BY <3>1 DEF PhaseOf, ActiveStatuses, SettledStatuses
      <3>4. phaseOf' = [phaseOf EXCEPT ![c.run] = "settled"] /\ termOf' = termOf
        BY <3>1, <3>2, <3>3
      <3>5. Lifecycle!Settle(c.run)
        BY <3>1, <3>3, <3>4 DEF Lifecycle!Settle
      <3> QED BY <3>1, <3>5 DEF Lifecycle!LifecycleNext
    <2> QED BY <2>1, <2>2
  <1>5. ASSUME NEW c \in claims, Progress(c)
        PROVE  UNCHANGED <<phaseOf, termOf>>
    <2>1. \A q \in Runs : /\ runs'[q].attempt = runs[q].attempt
                          /\ runs'[q].status = runs[q].status
      BY <1>5 DEF Progress, UpdateHeld, TypeOK, Row, Claim
    <2> QED BY <2>1
  <1>6. CASE Restart
    <2> DEFINE S == RowsIn(ActiveStatuses)
    <2>1. \A q \in Runs :
             runs'[q] = IF runs[q].status \in ActiveStatuses
                        THEN RecoveredRow(runs[q]) ELSE runs[q]
      BY <1>6 DEF Restart
    <2>2. \A q \in Runs :
             /\ runs'[q].attempt = runs[q].attempt
             /\ runs'[q].status = IF q \in S THEN "queued" ELSE runs[q].status
      BY <2>1 DEF RecoveredRow, TypeOK, Row, RowsIn
    <2>3. \A q \in S : q \in Runs /\ PhaseOf(runs[q].status) = "running"
      BY DEF RowsIn, PhaseOf, ActiveStatuses, SettledStatuses
    <2>4. PhaseOf("queued") = "waiting"
      BY DEF PhaseOf, ActiveStatuses, SettledStatuses
    <2>5. Lifecycle!Requeue(S)
      BY <2>2, <2>3, <2>4 DEF Lifecycle!Requeue
    <2>6. S \in SUBSET Runs
      BY DEF RowsIn
    <2> QED BY <2>5, <2>6 DEF Lifecycle!LifecycleNext
  <1>7. ASSUME NEW S \in SUBSET Stored, DeleteRuns(S)
        PROVE  [Lifecycle!LifecycleNext]_<<phaseOf, termOf>>
    <2>1. \A q \in Runs :
             /\ runs'[q].attempt = runs[q].attempt
             /\ runs'[q].status = IF q \in S THEN "deleted" ELSE runs[q].status
      BY <1>7 DEF DeleteRuns, TypeOK, Row
    <2>2. \A q \in S : q \in Runs /\ PhaseOf(runs[q].status) # "unused"
      BY DEF Stored, RowsIn, PhaseOf, TypeOK, Row, Statuses, ActiveStatuses, SettledStatuses
    <2>3. PhaseOf("deleted") = "removed"
      BY DEF PhaseOf, ActiveStatuses, SettledStatuses
    <2>4. Lifecycle!Remove(S)
      BY <2>1, <2>2, <2>3 DEF Lifecycle!Remove
    <2>5. S \in SUBSET Runs
      BY DEF Stored
    <2> QED BY <2>4, <2>5 DEF Lifecycle!LifecycleNext
  <1>8. CASE ResetSource \/ \E a \in Accounts : ClearIntegrationRuntimeState(a)
    BY <1>7, <1>8 DEF ResetSource, ClearIntegrationRuntimeState
  <1>9. CASE Tick \/ UNCHANGED vars \/ \E c \in claims : Drop(c)
    BY <1>9 DEF Tick, vars, Drop
  <1>10. CASE ClaimIngest \/ ClaimProjection
    BY <1>3, <1>10 DEF ClaimIngest, ClaimProjection, ActiveStatuses, Lifecycle!LifecycleNext
  <1>11. ASSUME NEW c \in claims, FinishRun(c) \/ FailRun(c)
         PROVE  [Lifecycle!LifecycleNext]_<<phaseOf, termOf>>
    BY <1>4, <1>11 DEF FinishRun, FailRun, SettledStatuses
  <1>12. CASE QueuePlatformSync \/ QueueRebuild \/ \E a \in Accounts, d \in Delays : QueueSync(a, d)
    BY <1>1, <1>12 DEF QueuePlatformSync, QueueRebuild, QueueSync, Lifecycle!LifecycleNext
  <1> QED
    BY <1>2, <1>5, <1>6, <1>8, <1>9, <1>10, <1>11, <1>12 DEF Next

(* The queue implements the lifecycle: a run is executed in numbered terms *)
(* and settled at most once, by the executor of its latest term.           *)
THEOREM QueueImplementsLifecycle == Spec => ImplementsLifecycle
  <1>1. Init => Lifecycle!LifecycleInit
    BY DEF Init, Lifecycle!LifecycleInit, UnusedRow, PhaseOf, ActiveStatuses, SettledStatuses
  <1>2. TypeOK /\ Inv /\ [Next]_vars =>
           [Lifecycle!LifecycleNext]_(Lifecycle!lifecycleVars)
    BY RefinementStep DEF Lifecycle!lifecycleVars, phaseOf, termOf
  <1> QED
    BY <1>1, <1>2, TypeCorrect, InvCorrect, PTL
    DEF Spec, ImplementsLifecycle, Lifecycle!LifecycleSpec

-----------------------------------------------------------------------------
(***************************************************************************)
(* Realtime.                                                               *)
(***************************************************************************)

(* RealtimeInv is about the supervisor as a value, so that what a step    *)
(* makes of it can be followed through Reconcile, Request and Complete:    *)
(* each of the sessions it no longer holds is quiet and stays so whatever  *)
(* its helper, timers and requests still do.  Room (two unused sessions)   *)
(* is needed where a reconcile that completes is followed by another one.  *)

(* The sessions of the platform. *)
SessionType ==
    CASE platform = "discord" -> Discord!Session(Inputs)
      [] platform = "linkedin" -> LinkedIn!Session(Inputs)
      [] platform = "local" -> Watcher!Session(Inputs)
      [] OTHER -> Helper!Session(Inputs)

(* Only Signal waits for the exit of a helper it stops, and it has no timer *)
(* for the first connection.                                                *)
Usual(s) ==
    platform \in Helpers => IF platform = "signal" THEN ~s.watch ELSE ~s.stopping

(* What is left of a session that was stopped: a bootstrap of Discord goes  *)
(* on, and the session knows.                                               *)
Left(s) == Quiet(s) /\ (platform = "discord" => (s.boot # "none" => s.cut))

SupervisorShape(w) ==
    w \in [held : Ids \cup {NoSession}, sessions : [Ids -> SessionType],
           found : Inputs, again : BOOLEAN]

Sound(w) ==
    /\ SupervisorShape(w)
    /\ \A i \in Ids : Usual(w.sessions[i]) /\ (i # w.held => Left(w.sessions[i]))

RestTyped ==
    /\ platform \in Platforms
    /\ account \in Inputs /\ secret \in BOOLEAN /\ refused \subseteq Logins
    /\ run \in {"none", "queued", "stopping", "task", "over"}
    /\ awaited \in Ids \cup {NoSession} /\ suppress \in BOOLEAN
    /\ logins \in 0..MaxLogins /\ syncs \in 0..MaxSyncs /\ faults \in 0..MaxFaults

RealtimeInv == RestTyped /\ Sound(realtime)

-----------------------------------------------------------------------------
(* Sessions, platform by platform. *)

(* Every platform has one of the four kinds of session. *)
LEMMA SessionKinds ==
    ASSUME platform \in Platforms
    PROVE  platform \in Helpers \cup {"discord", "linkedin", "local"}
  BY RealtimeAssumption DEF Helpers

(* A helper that is disposed of is gone from the session. *)
Disposed(x, s) ==
    /\ x \in Helper!Session(Inputs) /\ x.child = "none"
    /\ x.should = s.should /\ x.stopping = s.stopping
    /\ x.retry = s.retry /\ x.watch = s.watch

(* Nothing else of the session changes. *)
LEMMA ChildDisposed ==
    ASSUME NEW s \in Helper!Session(Inputs)
    PROVE  Disposed(Helper!DisposeChild(s), s)
<1>1. 0 \in Inputs
  BY RealtimeAssumption DEF Inputs
<1>2. QED
  BY <1>1 DEF Disposed, Helper!DisposeChild, Helper!Session, Helper!HasChild

(* A session that was never started, and one that is about to be. *)
LEMMA FreshSession ==
    ASSUME platform \in Platforms, NEW v \in Inputs
    PROVE  /\ [Fresh EXCEPT !.input = v] \in SessionType
           /\ Usual([Fresh EXCEPT !.input = v])
           /\ Fresh \in SessionType /\ Usual(Fresh) /\ Left(Fresh)
<1>0. 0 \in Inputs
  BY RealtimeAssumption DEF Inputs
<1>1. CASE platform \in Helpers
  <2>1. /\ SessionType = Helper!Session(Inputs) /\ Fresh = Helper!Fresh
        /\ Quiet(Fresh) <=> Helper!Quiet(Helper!Fresh)
    BY <1>1 DEF Helpers, SessionType, Fresh, Quiet
  <2>2. QED
    BY <1>0, <1>1, <2>1
       DEF Usual, Left, Helpers, Helper!Fresh, Helper!Session, Helper!Quiet, Helper!HasChild
<1>2. CASE platform = "discord"
  <2>1. /\ SessionType = Discord!Session(Inputs) /\ Fresh = Discord!Fresh
        /\ Quiet(Fresh) <=> Discord!Quiet(Discord!Fresh)
    BY <1>2 DEF Helpers, SessionType, Fresh, Quiet
  <2>2. QED
    BY <1>0, <1>2, <2>1
       DEF Usual, Left, Helpers, Discord!Fresh, Discord!Session, Discord!Quiet
<1>3. CASE platform = "linkedin"
  <2>1. /\ SessionType = LinkedIn!Session(Inputs) /\ Fresh = LinkedIn!Fresh
        /\ Quiet(Fresh) <=> LinkedIn!Quiet(LinkedIn!Fresh)
    BY <1>3 DEF Helpers, SessionType, Fresh, Quiet
  <2>2. QED
    BY <1>0, <1>3, <2>1
       DEF Usual, Left, Helpers, LinkedIn!Fresh, LinkedIn!Session, LinkedIn!Quiet
<1>4. CASE platform = "local"
  <2>1. /\ SessionType = Watcher!Session(Inputs) /\ Fresh = Watcher!Fresh
        /\ Quiet(Fresh) <=> Watcher!Quiet(Watcher!Fresh)
    BY <1>4 DEF Helpers, SessionType, Fresh, Quiet
  <2>2. QED
    BY <1>0, <1>4, <2>1
       DEF Usual, Left, Helpers, Watcher!Fresh, Watcher!Session, Watcher!Quiet
<1>5. QED
  BY <1>1, <1>2, <1>3, <1>4, SessionKinds

(* Starting keeps a session in its shape. *)
LEMMA StartedSession ==
    ASSUME platform \in Platforms, NEW s \in SessionType, Usual(s)
    PROVE  Start(s) \in SessionType /\ Usual(Start(s))
<1>1. CASE platform \in Helpers
  <2>1. SessionType = Helper!Session(Inputs) /\ Start(s) = Helper!Start(platform, s)
    BY <1>1 DEF Helpers, SessionType, Start
  <2>2. CASE s.should /\ Helper!HasChild(s)
    BY <2>1, <2>2 DEF Helper!Start
  <2>3. CASE ~(s.should /\ Helper!HasChild(s))
    <3> DEFINE x == [s EXCEPT !.should = TRUE, !.state = Helper!Connecting(s),
                              !.retry = @ /\ platform # "whatsapp"]
    <3>1. Start(s) = Helper!SpawnChild(x)
      BY <2>1, <2>3, Zenon DEF Helper!Start
    <3>2. x \in Helper!Session(Inputs) /\ Usual(x)
      BY <2>1 DEF Usual, Helper!Session, Helper!Connecting
    <3> HIDE DEF x
    <3>3. Disposed(Helper!DisposeChild(x), x)
      BY <3>2, ChildDisposed
    <3>4. Start(s) \in Helper!Session(Inputs) /\ Usual(Start(s))
      BY <3>1, <3>2, <3>3 DEF Disposed, Usual, Helper!Session, Helper!SpawnChild
    <3>5. QED
      BY <2>1, <3>4
  <2>4. QED
    BY <2>2, <2>3
<1>2. CASE platform = "discord"
  <2>1. SessionType = Discord!Session(Inputs) /\ Start(s) = Discord!Start(s)
    BY <1>2 DEF Helpers, SessionType, Start
  <2>2. CASE s.should
    BY <2>1, <2>2 DEF Discord!Start
  <2>3. CASE ~s.should
    <3> DEFINE e == IF s.ever THEN "reconnecting" ELSE "connecting"
    <3>1. /\ e \in {"reconnecting", "connecting"}
          /\ Start(s) = [s EXCEPT !.should = TRUE, !.boot = "user", !.state = e]
      BY <2>1, <2>3 DEF Discord!Start
    <3> HIDE DEF e
    <3>2. QED
      BY <1>2, <2>1, <3>1 DEF Usual, Helpers, Discord!Session
  <2>4. QED
    BY <2>2, <2>3
<1>3. CASE platform = "linkedin"
  <2>1. SessionType = LinkedIn!Session(Inputs) /\ Start(s) = LinkedIn!Start(s)
    BY <1>3 DEF Helpers, SessionType, Start
  <2>2. QED
    BY <1>3, <2>1
       DEF Usual, Helpers, LinkedIn!Session, LinkedIn!Start
<1>4. CASE platform = "local"
  <2>1. SessionType = Watcher!Session(Inputs) /\ Start(s) = Watcher!Start(s)
    BY <1>4 DEF Helpers, SessionType, Start
  <2>2. QED
    BY <1>4, <2>1
       DEF Usual, Helpers, Watcher!Session, Watcher!Start
<1>5. QED
  BY <1>1, <1>2, <1>3, <1>4, SessionKinds

(* Whatever a session was doing, stopping it leaves it quiet. *)
LEMMA StoppedSession ==
    ASSUME platform \in Platforms, NEW s \in SessionType, Usual(s)
    PROVE  Stop(s) \in SessionType /\ Usual(Stop(s)) /\ Left(Stop(s))
<1>1. CASE platform \in Helpers
  <2>1. /\ SessionType = Helper!Session(Inputs) /\ Stop(s) = Helper!Stop(platform, s)
        /\ Quiet(Stop(s)) <=> Helper!Quiet(Helper!Stop(platform, s))
    BY <1>1 DEF Helpers, SessionType, Stop, Quiet
  <2>2. CASE platform = "signal"
    <3>1. CASE Helper!HasChild(s)
      BY <1>1, <2>1, <2>2, <3>1
         DEF Usual, Left, Helpers, Helper!Session, Helper!Stop, Helper!Quiet, Helper!HasChild
    <3>2. CASE ~Helper!HasChild(s)
      BY <1>1, <2>1, <2>2, <3>2
         DEF Usual, Left, Helpers, Helper!Session, Helper!Stop, Helper!Quiet, Helper!HasChild
    <3>3. QED
      BY <3>1, <3>2
  <2>3. CASE platform # "signal"
    <3>1. ~s.stopping
      BY <1>1, <2>3 DEF Usual
    <3> DEFINE x == [s EXCEPT !.should = FALSE, !.retry = FALSE]
    <3>2. x \in Helper!Session(Inputs) /\ ~x.should /\ ~x.retry /\ ~x.stopping
      BY <2>1, <3>1 DEF Helper!Session
    <3>3. Stop(s) = [Helper!DisposeChild(x) EXCEPT !.watch = FALSE, !.state = "stopped"]
      BY <2>1, <2>3 DEF Helper!Stop
    <3> HIDE DEF x
    <3>4. Disposed(Helper!DisposeChild(x), x)
      BY <3>2, ChildDisposed
    <3> DEFINE t == Stop(s)
    <3>5. /\ t \in Helper!Session(Inputs) /\ t.child = "none"
          /\ ~t.should /\ ~t.stopping /\ ~t.retry /\ ~t.watch
      BY <3>2, <3>3, <3>4 DEF Disposed, Helper!Session
    <3> HIDE DEF t
    <3>6. Usual(t) /\ Helper!Quiet(t)
      BY <2>3, <3>5 DEF Usual, Helper!Quiet, Helper!HasChild
    <3>7. Left(t)
      BY <1>1, <3>6 DEF Left, Quiet, Helpers
    <3>8. QED
      BY <2>1, <3>5, <3>6, <3>7 DEF t
  <2>4. QED
    BY <2>2, <2>3
<1>2. CASE platform = "discord"
  <2>1. /\ SessionType = Discord!Session(Inputs) /\ Stop(s) = Discord!Stop(s)
        /\ Quiet(Stop(s)) <=> Discord!Quiet(Discord!Stop(s))
    BY <1>2 DEF Helpers, SessionType, Stop, Quiet
  <2>2. QED
    BY <1>2, <2>1
       DEF Usual, Left, Helpers, Discord!Session, Discord!Stop, Discord!ClearTimers,
           Discord!Quiet
<1>3. CASE platform = "linkedin"
  <2>1. /\ SessionType = LinkedIn!Session(Inputs) /\ Stop(s) = LinkedIn!Stop(s)
        /\ Quiet(Stop(s)) <=> LinkedIn!Quiet(LinkedIn!Stop(s))
    BY <1>3 DEF Helpers, SessionType, Stop, Quiet
  <2> DEFINE a == s.loop \in {"opening", "open"}
  <2>2. a \in BOOLEAN /\ LinkedIn!Stop(s) = [s EXCEPT !.should = FALSE, !.state = "stopped", !.aborted = a]
    BY DEF LinkedIn!Stop
  <2>3. s.loop \in {"opening", "open"} => a
    OBVIOUS
  <2> HIDE DEF a
  <2>4. QED
    BY <1>3, <2>1, <2>2, <2>3
       DEF Usual, Left, Helpers, LinkedIn!Session, LinkedIn!Quiet
<1>4. CASE platform = "local"
  <2>1. /\ SessionType = Watcher!Session(Inputs) /\ Stop(s) = Watcher!Stop(s)
        /\ Quiet(Stop(s)) <=> Watcher!Quiet(Watcher!Stop(s))
    BY <1>4 DEF Helpers, SessionType, Stop, Quiet
  <2>2. QED
    BY <1>4, <2>1
       DEF Usual, Left, Helpers, Watcher!Session, Watcher!Stop,
           Watcher!Quiet
<1>5. QED
  BY <1>1, <1>2, <1>3, <1>4, SessionKinds

-----------------------------------------------------------------------------
(* The supervisor. *)

(* The sessions of w other than i are as they should be. *)
SoundBut(w, i) ==
    /\ SupervisorShape(w)
    /\ \A j \in Ids \ {i} : Usual(w.sessions[j]) /\ (j # w.held => Left(w.sessions[j]))

(* One session is replaced by another that is as it should be. *)
LEMMA PutSession ==
    ASSUME platform \in Platforms, NEW w, NEW i \in Ids, SoundBut(w, i),
           NEW s \in SessionType, Usual(s), w.held # i => Left(s)
    PROVE  /\ Sound(Put(w, i, s)) /\ Put(w, i, s).held = w.held
           /\ \A j \in Ids \ {i} : Put(w, i, s).sessions[j] = w.sessions[j]
<1> DEFINE t == IF w.held # i /\ Inert(s) THEN Fresh ELSE s
           u == [w EXCEPT !.sessions[i] = t]
<1>0. Fresh \in SessionType /\ Usual(Fresh) /\ Left(Fresh)
  <2>1. 0 \in Inputs
    BY RealtimeAssumption DEF Inputs
  <2>2. QED
    BY <2>1, FreshSession
<1>1. /\ t \in SessionType /\ Usual(t) /\ (w.held # i => Left(t))
  BY <1>0
<1>2. Put(w, i, s) = u
  BY Zenon DEF Put
<1> HIDE DEF t
<1>3. /\ u \in [held : Ids \cup {NoSession}, sessions : [Ids -> SessionType],
                 found : Inputs, again : BOOLEAN]
      /\ u.held = w.held
      /\ u.sessions = [w.sessions EXCEPT ![i] = t]
      /\ w.sessions \in [Ids -> SessionType]
  BY <1>1 DEF SoundBut, SupervisorShape
<1> HIDE DEF u
<1>4. u.sessions[i] = t /\ \A j \in Ids \ {i} : u.sessions[j] = w.sessions[j]
  BY <1>3
<1>5. \A j \in Ids : Usual(u.sessions[j]) /\ (j # u.held => Left(u.sessions[j]))
  BY <1>1, <1>3, <1>4 DEF SoundBut
<1>6. QED
  BY <1>2, <1>3, <1>4, <1>5 DEF Sound, SupervisorShape

(* A session is taken from the supervisor: it is stopped, and what was      *)
(* unused still is.                                                        *)
LEMMA LeaveKeeps ==
    ASSUME platform \in Platforms, NEW w, Sound(w)
    PROVE  Sound(Leave(w)) /\ Leave(w).held = NoSession /\ Unused(w) \subseteq Unused(Leave(w))
<1>1. CASE w.held = NoSession
  BY <1>1 DEF Leave
<1>2. CASE w.held # NoSession
  <2> DEFINE u == [w EXCEPT !.held = NoSession]
             s == Stop(w.sessions[w.held])
             h == w.held
  <2>1. h \in Ids /\ w.sessions \in [Ids -> SessionType] /\ Usual(w.sessions[h])
    BY <1>2 DEF Sound, SupervisorShape
  <2>2. s \in SessionType /\ Usual(s) /\ Left(s)
    BY <2>1, StoppedSession
  <2>3. /\ u \in [held : Ids \cup {NoSession}, sessions : [Ids -> SessionType],
                   found : Inputs, again : BOOLEAN]
        /\ u.held = NoSession /\ u.sessions = w.sessions
    BY DEF Sound, SupervisorShape
  <2>4. Leave(w) = Put(u, h, s)
    BY <1>2 DEF Leave
  <2> HIDE DEF u, s
  <2>5. SoundBut(u, h)
    BY <2>3 DEF SoundBut, SupervisorShape, Sound, h
  <2>6. /\ Sound(Put(u, h, s)) /\ Put(u, h, s).held = NoSession
        /\ \A j \in Ids \ {h} : Put(u, h, s).sessions[j] = w.sessions[j]
    BY <2>1, <2>2, <2>3, <2>5, PutSession
  <2>7. Unused(w) \subseteq Unused(Leave(w))
    BY <2>4, <2>6, RealtimeAssumption DEF Unused, h
  <2>8. QED
    BY <2>4, <2>6, <2>7
<1>3. QED
  BY <1>1, <1>2

(* A session is created from an unused one; the others are not touched. *)
LEMMA CreateKeeps ==
    ASSUME platform \in Platforms, NEW w, Sound(w), w.held = NoSession, Unused(w) # {},
           NEW v \in Inputs
    PROVE  /\ Sound(Create(w, v))
           /\ \A i, j \in Unused(w) : i # j => Unused(Create(w, v)) # {}
<1> DEFINE i == CHOOSE i \in Unused(w) : TRUE
           s == Start([Fresh EXCEPT !.input = v])
           u == [w EXCEPT !.held = i, !.sessions[i] = s]
<1>1. i \in Unused(w)
  OBVIOUS
<1>2. Create(w, v) = u
  BY DEF Create
<1>3. s \in SessionType /\ Usual(s)
  <2> DEFINE f == [Fresh EXCEPT !.input = v]
  <2>1. f \in SessionType /\ Usual(f)
    BY FreshSession
  <2> HIDE DEF f
  <2>2. Start(f) \in SessionType /\ Usual(Start(f))
    BY <2>1, StartedSession
  <2>3. QED
    BY <2>2 DEF f
<1> HIDE DEF i, s
<1>4. i \in Ids
  BY <1>1 DEF Unused
<1>5. /\ u \in [held : Ids \cup {NoSession}, sessions : [Ids -> SessionType],
                 found : Inputs, again : BOOLEAN]
      /\ u.held = i /\ u.sessions = [w.sessions EXCEPT ![i] = s]
      /\ w.sessions \in [Ids -> SessionType]
  BY <1>3, <1>4 DEF Sound, SupervisorShape
<1> HIDE DEF u
<1>6. u.sessions[i] = s /\ \A j \in Ids \ {i} : u.sessions[j] = w.sessions[j]
  BY <1>4, <1>5
<1>7. \A j \in Ids : Usual(u.sessions[j]) /\ (j # u.held => Left(u.sessions[j]))
  BY <1>3, <1>5, <1>6, RealtimeAssumption DEF Sound
<1>8. \A j \in Unused(w) : j # i => j \in Unused(u)
  BY <1>5, <1>6 DEF Unused
<1>9. QED
  BY <1>2, <1>5, <1>7, <1>8 DEF Sound, SupervisorShape

(* The session that is held is left alone or started anew. *)
LEMMA KeepKeeps ==
    ASSUME platform \in Platforms, NEW w, Sound(w), w.held # NoSession
    PROVE  Sound(Keep(w)) /\ Unused(w) \subseteq Unused(Keep(w))
<1> DEFINE s == Start(w.sessions[w.held])
           u == [w EXCEPT !.sessions[w.held] = s]
<1>1. /\ w.held \in Ids /\ w.sessions \in [Ids -> SessionType]
      /\ w.sessions[w.held] \in SessionType /\ Usual(w.sessions[w.held])
  BY DEF Sound, SupervisorShape
<1>2. s \in SessionType /\ Usual(s)
  BY <1>1, StartedSession
<1>3. Keep(w) \in {w, u}
  BY DEF Keep
<1> HIDE DEF s
<1>4. /\ u \in [held : Ids \cup {NoSession}, sessions : [Ids -> SessionType],
                 found : Inputs, again : BOOLEAN]
      /\ u.held = w.held /\ u.sessions = [w.sessions EXCEPT ![w.held] = s]
  BY <1>2 DEF Sound, SupervisorShape
<1> HIDE DEF u
<1>5. u.sessions[w.held] = s /\ \A j \in Ids \ {w.held} : u.sessions[j] = w.sessions[j]
  BY <1>1, <1>4
<1>6. Sound(u) /\ Unused(w) \subseteq Unused(u)
  BY <1>2, <1>4, <1>5 DEF Sound, SupervisorShape, Unused
<1>7. QED
  BY <1>3, <1>6

(* One reconcile takes one unused session at most. *)
LEMMA ReconcileKeeps ==
    ASSUME platform \in Platforms, NEW w, Sound(w), Unused(w) # {}, NEW v \in Inputs
    PROVE  /\ Sound(Reconcile(w, v))
           /\ \A i, j \in Unused(w) : i # j => Unused(Reconcile(w, v)) # {}
<1>1. CASE v = 0
  BY <1>1, LeaveKeeps DEF Reconcile
<1>2. CASE v # 0 /\ w.held = NoSession
  BY <1>2, CreateKeeps DEF Reconcile
<1>3. CASE v # 0 /\ w.held # NoSession /\ w.sessions[w.held].input = v
  BY <1>3, KeepKeeps DEF Reconcile
<1>4. CASE v # 0 /\ w.held # NoSession /\ w.sessions[w.held].input # v
  <2> DEFINE u == Leave(w)
  <2>1. Sound(u) /\ u.held = NoSession /\ Unused(w) \subseteq Unused(u)
    BY LeaveKeeps
  <2>2. Reconcile(w, v) = Create(u, v)
    BY <1>4 DEF Reconcile
  <2> HIDE DEF u
  <2>3. /\ Sound(Create(u, v))
        /\ \A i, j \in Unused(u) : i # j => Unused(Create(u, v)) # {}
    BY <2>1, CreateKeeps
  <2>4. QED
    BY <2>1, <2>2, <2>3
<1>5. QED
  BY <1>1, <1>2, <1>3, <1>4

(* What is found out to be desired is a login or none. *)
LEMMA DesiredInput ==
    ASSUME NEW a \in Inputs, NEW r, NEW stored \in BOOLEAN
    PROVE  Candidate(a, r) \in Inputs /\ Desired(Candidate(a, r), stored) \in Inputs
<1>1. 0 \in Inputs /\ (a # 0 => 1 \in Inputs)
  BY RealtimeAssumption DEF Inputs
<1>2. QED
  BY <1>1 DEF Candidate, Desired

(* A request reconciles at once, is remembered, or looks at the helper. *)
LEMMA RequestKeeps ==
    ASSUME platform \in Platforms, NEW w, Sound(w), Unused(w) # {},
           NEW a \in Inputs, NEW stored \in BOOLEAN, NEW r
    PROVE  Sound(Request(w, a, stored, r))
<1> DEFINE v == Candidate(a, r)
<1>1. v \in Inputs /\ Desired(v, stored) \in Inputs
  BY DesiredInput
<1>2. /\ Sound([w EXCEPT !.again = TRUE])
  <2> DEFINE u == [w EXCEPT !.again = TRUE]
  <2>1. SupervisorShape(u) /\ u.held = w.held /\ u.sessions = w.sessions
    BY DEF Sound, SupervisorShape
  <2> HIDE DEF u
  <2>2. Sound(u)
    BY <2>1 DEF Sound
  <2>3. QED
    BY <2>2 DEF u
<1>3. /\ Sound([w EXCEPT !.found = v])
  <2> HIDE DEF v
  <2> DEFINE u == [w EXCEPT !.found = v]
  <2>1. SupervisorShape(u) /\ u.held = w.held /\ u.sessions = w.sessions
    BY <1>1 DEF Sound, SupervisorShape
  <2> HIDE DEF u
  <2>2. Sound(u)
    BY <2>1 DEF Sound
  <2>3. QED
    BY <2>2 DEF u
<1>4. Sound(Reconcile(w, Desired(v, stored)))
  BY <1>1, ReconcileKeeps
<1>5. QED
  BY <1>2, <1>3, <1>4 DEF Request

(* A reconcile that completes may be followed by another one at once. *)
LEMMA CompleteKeeps ==
    ASSUME platform \in Platforms, Sound(realtime), Room, NEW v \in Inputs,
           account \in Inputs, secret \in BOOLEAN
    PROVE  Sound(Complete(realtime, v))
<1> DEFINE u == Reconcile(realtime, v)
           done == [u EXCEPT !.found = 0, !.again = FALSE]
<1>1. Sound(u) /\ Unused(u) # {}
  BY ReconcileKeeps DEF Room
<1>2. Complete(realtime, v) = IF realtime.again THEN Request(done, account, secret, run) ELSE done
  BY DEF Complete
<1> HIDE DEF u
<1>3. SupervisorShape(done) /\ done.held = u.held /\ done.sessions = u.sessions
  <2>1. 0 \in Inputs
    BY RealtimeAssumption DEF Inputs
  <2>2. QED
    BY <1>1, <2>1 DEF Sound, SupervisorShape
<1> HIDE DEF done
<1>4. Sound(done) /\ Unused(done) # {}
  BY <1>1, <1>3 DEF Sound, Unused
<1>5. Sound(Request(done, account, secret, run))
  BY <1>4, RequestKeeps
<1>6. QED
  BY <1>2, <1>4, <1>5

-----------------------------------------------------------------------------
(* What a handler makes of a session. *)

Goes(s, t) == t \in SessionType /\ Usual(t) /\ (Left(s) => Left(t))

(* A handler makes of session i what it may. *)
LEMMA GoesOn ==
    ASSUME platform \in Platforms, Sound(realtime), NEW i \in Ids, NEW t, Goes(Session(i), t)
    PROVE  /\ Sound(Put(realtime, i, t)) /\ Put(realtime, i, t).held = realtime.held
           /\ \A j \in Ids \ {i} : Put(realtime, i, t).sessions[j] = Session(j)
<1>1. SoundBut(realtime, i)
  BY DEF Sound, SoundBut
<1>2. realtime.held # i => Left(Session(i))
  BY DEF Sound, Session
<1>3. t \in SessionType /\ Usual(t) /\ (realtime.held # i => Left(t))
  BY <1>2 DEF Goes
<1>4. QED
  BY <1>1, <1>3, PutSession DEF Session

(* Sessions of a sound supervisor. *)
LEMMA HeldTyped ==
    ASSUME Sound(realtime), NEW i \in Ids
    PROVE  Session(i) \in SessionType /\ Usual(Session(i))
  BY DEF Sound, SupervisorShape, Session

(* An exit tries again only for a session that is to go on. *)
LEMMA ExitHandled ==
    ASSUME NEW p, NEW s \in Helper!Session(Inputs)
    PROVE  LET t == Helper!HandleExit(p, s)
           IN  /\ t \in Helper!Session(Inputs) /\ ~t.stopping /\ ~t.watch /\ t.child = "none"
               /\ t.should = s.should /\ (t.retry => s.should \/ s.retry)
<1> DEFINE x == [Helper!DisposeChild(s) EXCEPT !.stopping = FALSE, !.watch = FALSE]
<1>1. Disposed(Helper!DisposeChild(s), s)
  BY ChildDisposed
<1>2. /\ x \in Helper!Session(Inputs) /\ ~x.stopping /\ ~x.watch /\ x.child = "none"
      /\ x.should = s.should /\ x.retry = s.retry
  BY <1>1 DEF Disposed, Helper!Session
<1>3. Helper!HandleExit(p, s) \in {x, [x EXCEPT !.state = "stopped"],
                                   [x EXCEPT !.state = Helper!Lost(s), !.retry = s.should]}
  BY DEF Helper!HandleExit
<1> HIDE DEF x
<1>4. Helper!Lost(s) \in {"reconnecting", "degraded"} /\ s.should \in BOOLEAN
  BY DEF Helper!Lost, Helper!Session
<1>5. QED
  BY <1>2, <1>3, <1>4 DEF Helper!Session

(* The handlers of a helper, its exit and the timers. *)
LEMMA HelperHandlers ==
    ASSUME platform \in Helpers, NEW s \in SessionType, Usual(s)
    PROVE  /\ s.child = "starting" => \A l \in Inputs : Goes(s, Helper!Spawned(platform, s, l))
           /\ s.child = "running" => Goes(s, Helper!SaysConnected(s))
           /\ platform # "signal" /\ s.child = "online" => Goes(s, Helper!SaysDisconnected(platform, s))
           /\ platform # "signal" /\ s.child \in {"running", "online"} => Goes(s, Helper!SaysError(s))
           /\ s.child = "running" => Goes(s, [s EXCEPT !.child = "mute"])
           /\ Helper!HasChild(s) => Goes(s, Helper!Exited(platform, s))
           /\ s.dying => Goes(s, [s EXCEPT !.dying = FALSE])
           /\ s.watch => Goes(s, Helper!ConnectTimeout(platform, s))
           /\ s.retry => Goes(s, Helper!ReconnectTimeout(s))
<1>0. /\ s \in Helper!Session(Inputs) /\ SessionType = Helper!Session(Inputs)
      /\ Left(s) <=> Helper!Quiet(s)
  BY DEF Helpers, SessionType, Left, Quiet
<1>n. 0 \in Inputs
  BY RealtimeAssumption DEF Inputs
<1>1. ASSUME s.child = "starting", NEW l \in Inputs
      PROVE  Goes(s, Helper!Spawned(platform, s, l))
  <2> DEFINE t == Helper!Spawned(platform, s, l)
  <2>1. t \in Helper!Session(Inputs) /\ Usual(t) /\ (Helper!Quiet(s) => Helper!Quiet(t))
    BY <1>0, <1>1
       DEF Usual, Helpers, Helper!Session, Helper!Quiet, Helper!HasChild, Helper!Spawned, Helper!Connecting
  <2> HIDE DEF t
  <2>2. Left(t) <=> Helper!Quiet(t)
    BY DEF Helpers, Left, Quiet
  <2>3. QED
    BY <1>0, <2>1, <2>2 DEF Goes, t
<1>2. ASSUME s.child = "running"
      PROVE  Goes(s, Helper!SaysConnected(s))
  <2> DEFINE t == Helper!SaysConnected(s)
  <2>1. t \in Helper!Session(Inputs) /\ Usual(t) /\ (Helper!Quiet(s) => Helper!Quiet(t))
    BY <1>0, <1>2
       DEF Usual, Helpers, Helper!Session, Helper!Quiet, Helper!HasChild, Helper!SaysConnected
  <2> HIDE DEF t
  <2>2. Left(t) <=> Helper!Quiet(t)
    BY DEF Helpers, Left, Quiet
  <2>3. QED
    BY <1>0, <2>1, <2>2 DEF Goes, t
<1>3. ASSUME platform # "signal" /\ s.child = "online"
      PROVE  Goes(s, Helper!SaysDisconnected(platform, s))
  <2> DEFINE t == Helper!SaysDisconnected(platform, s)
  <2>1. t \in Helper!Session(Inputs) /\ Usual(t) /\ (Helper!Quiet(s) => Helper!Quiet(t))
    BY <1>0, <1>3
       DEF Usual, Helpers, Helper!Session, Helper!Quiet, Helper!HasChild, Helper!SaysDisconnected, Helper!EnsureConnectTimer, Helper!Lost
  <2> HIDE DEF t
  <2>2. Left(t) <=> Helper!Quiet(t)
    BY DEF Helpers, Left, Quiet
  <2>3. QED
    BY <1>0, <2>1, <2>2 DEF Goes, t
<1>4. ASSUME platform # "signal" /\ s.child \in {"running", "online"}
      PROVE  Goes(s, Helper!SaysError(s))
  <2> DEFINE t == Helper!SaysError(s)
  <2>1. t \in Helper!Session(Inputs) /\ Usual(t) /\ (Helper!Quiet(s) => Helper!Quiet(t))
    BY <1>0, <1>4
       DEF Usual, Helpers, Helper!Session, Helper!Quiet, Helper!HasChild, Helper!SaysError, Helper!EnsureConnectTimer, Helper!Lost
  <2> HIDE DEF t
  <2>2. Left(t) <=> Helper!Quiet(t)
    BY DEF Helpers, Left, Quiet
  <2>3. QED
    BY <1>0, <2>1, <2>2 DEF Goes, t
<1>5. ASSUME s.child = "running"
      PROVE  Goes(s, [s EXCEPT !.child = "mute"])
  <2> DEFINE t == [s EXCEPT !.child = "mute"]
  <2>1. t \in Helper!Session(Inputs) /\ Usual(t) /\ (Helper!Quiet(s) => Helper!Quiet(t))
    BY <1>0, <1>5
       DEF Usual, Helpers, Helper!Session, Helper!Quiet, Helper!HasChild
  <2> HIDE DEF t
  <2>2. Left(t) <=> Helper!Quiet(t)
    BY DEF Helpers, Left, Quiet
  <2>3. QED
    BY <1>0, <2>1, <2>2 DEF Goes, t
<1>6. ASSUME Helper!HasChild(s)
      PROVE  Goes(s, Helper!Exited(platform, s))
  <2> DEFINE t == Helper!Exited(platform, s)
  <2> DEFINE x == [s EXCEPT !.child = "none"]
  <2>1. x \in Helper!Session(Inputs) /\ x.should = s.should /\ x.retry = s.retry
    BY <1>0 DEF Helper!Session
  <2>2. t = Helper!HandleExit(platform, x)
    BY DEF Helper!Exited
  <2> HIDE DEF t, x
  <2>3. /\ t \in Helper!Session(Inputs) /\ ~t.stopping /\ ~t.watch /\ t.child = "none"
        /\ t.should = s.should /\ (t.retry => s.should \/ s.retry)
    BY <2>1, <2>2, ExitHandled
  <2>4. Usual(t) /\ (Helper!Quiet(s) => Helper!Quiet(t))
    BY <2>3 DEF Usual, Helper!Quiet, Helper!HasChild
  <2>5. Left(t) <=> Helper!Quiet(t)
    BY DEF Helpers, Left, Quiet
  <2>6. QED
    BY <1>0, <2>3, <2>4, <2>5 DEF Goes, t
<1>7. ASSUME s.dying
      PROVE  Goes(s, [s EXCEPT !.dying = FALSE])
  <2> DEFINE t == [s EXCEPT !.dying = FALSE]
  <2>1. t \in Helper!Session(Inputs) /\ Usual(t) /\ (Helper!Quiet(s) => Helper!Quiet(t))
    BY <1>0, <1>7
       DEF Usual, Helpers, Helper!Session, Helper!Quiet, Helper!HasChild
  <2> HIDE DEF t
  <2>2. Left(t) <=> Helper!Quiet(t)
    BY DEF Helpers, Left, Quiet
  <2>3. QED
    BY <1>0, <2>1, <2>2 DEF Goes, t
<1>8. ASSUME s.watch
      PROVE  Goes(s, Helper!ConnectTimeout(platform, s))
  <2> DEFINE t == Helper!ConnectTimeout(platform, s)
  <2> DEFINE x == [s EXCEPT !.watch = FALSE]
  <2>1. x \in Helper!Session(Inputs) /\ x.should = s.should /\ x.retry = s.retry
    BY <1>0 DEF Helper!Session
  <2>2. t = Helper!HandleExit(platform, x)
    BY DEF Helper!ConnectTimeout
  <2> HIDE DEF t, x
  <2>3. /\ t \in Helper!Session(Inputs) /\ ~t.stopping /\ ~t.watch /\ t.child = "none"
        /\ t.should = s.should /\ (t.retry => s.should \/ s.retry)
    BY <2>1, <2>2, ExitHandled
  <2>4. Usual(t) /\ (Helper!Quiet(s) => Helper!Quiet(t))
    BY <2>3 DEF Usual, Helper!Quiet, Helper!HasChild
  <2>5. Left(t) <=> Helper!Quiet(t)
    BY DEF Helpers, Left, Quiet
  <2>6. QED
    BY <1>0, <2>3, <2>4, <2>5 DEF Goes, t
<1>9. ASSUME s.retry
      PROVE  Goes(s, Helper!ReconnectTimeout(s))
  <2> DEFINE t == Helper!ReconnectTimeout(s)
  <2>1. t \in Helper!Session(Inputs) /\ Usual(t) /\ (Helper!Quiet(s) => Helper!Quiet(t))
    BY <1>0, <1>n, <1>9
       DEF Usual, Helpers, Helper!Session, Helper!Quiet, Helper!HasChild, Helper!ReconnectTimeout, Helper!SpawnChild, Helper!DisposeChild
  <2> HIDE DEF t
  <2>2. Left(t) <=> Helper!Quiet(t)
    BY DEF Helpers, Left, Quiet
  <2>3. QED
    BY <1>0, <2>1, <2>2 DEF Goes, t
<1>10. QED
  BY <1>1, <1>2, <1>3, <1>4, <1>5, <1>6, <1>7, <1>8, <1>9

(* The answers of Discord and its timers. *)
LEMMA DiscordHandlers ==
    ASSUME platform = "discord", NEW s \in SessionType
    PROVE  /\ s.boot = "user" => Goes(s, Discord!GotUser(s))
           /\ s.boot = "channels" => Goes(s, Discord!GotChannels(s))
           /\ Goes(s, Discord!Poll(s))
           /\ Goes(s, Discord!Polled(s))
           /\ Goes(s, Discord!Failed(s, FALSE))
           /\ Goes(s, Discord!Failed(s, TRUE))
           /\ s.retry => Goes(s, Discord!ReconnectTimeout(s))
<1>0. /\ s \in Discord!Session(Inputs) /\ SessionType = Discord!Session(Inputs)
      /\ Left(s) <=> (Discord!Quiet(s) /\ (s.boot # "none" => s.cut))
  BY DEF Helpers, SessionType, Left, Quiet
<1>1. ASSUME s.boot = "user"
      PROVE  Goes(s, Discord!GotUser(s))
  <2> DEFINE t == Discord!GotUser(s)
  <2>1. t \in Discord!Session(Inputs) /\
            ((Discord!Quiet(s) /\ (s.boot # "none" => s.cut))
               => (Discord!Quiet(t) /\ (t.boot # "none" => t.cut)))
    BY <1>0, <1>1 DEF Discord!Session, Discord!Quiet, Discord!GotUser
  <2> HIDE DEF t
  <2>2. (Left(t) <=> (Discord!Quiet(t) /\ (t.boot # "none" => t.cut))) /\ Usual(t)
    BY DEF Helpers, Left, Quiet, Usual
  <2>3. QED
    BY <1>0, <2>1, <2>2 DEF Goes, t
<1>2. ASSUME s.boot = "channels"
      PROVE  Goes(s, Discord!GotChannels(s))
  <2> DEFINE t == Discord!GotChannels(s)
  <2>1. t \in Discord!Session(Inputs) /\
            ((Discord!Quiet(s) /\ (s.boot # "none" => s.cut))
               => (Discord!Quiet(t) /\ (t.boot # "none" => t.cut)))
    BY <1>0, <1>2 DEF Discord!Session, Discord!Quiet, Discord!GotChannels
  <2> HIDE DEF t
  <2>2. (Left(t) <=> (Discord!Quiet(t) /\ (t.boot # "none" => t.cut))) /\ Usual(t)
    BY DEF Helpers, Left, Quiet, Usual
  <2>3. QED
    BY <1>0, <2>1, <2>2 DEF Goes, t
<1>3. Goes(s, Discord!Poll(s))
  <2> DEFINE t == Discord!Poll(s)
  <2>1. t \in Discord!Session(Inputs) /\
            ((Discord!Quiet(s) /\ (s.boot # "none" => s.cut))
               => (Discord!Quiet(t) /\ (t.boot # "none" => t.cut)))
    BY <1>0 DEF Discord!Session, Discord!Quiet, Discord!Poll
  <2> HIDE DEF t
  <2>2. (Left(t) <=> (Discord!Quiet(t) /\ (t.boot # "none" => t.cut))) /\ Usual(t)
    BY DEF Helpers, Left, Quiet, Usual
  <2>3. QED
    BY <1>0, <2>1, <2>2 DEF Goes, t
<1>4. Goes(s, Discord!Polled(s))
  <2> DEFINE t == Discord!Polled(s)
  <2>1. t \in Discord!Session(Inputs) /\
            ((Discord!Quiet(s) /\ (s.boot # "none" => s.cut))
               => (Discord!Quiet(t) /\ (t.boot # "none" => t.cut)))
    BY <1>0 DEF Discord!Session, Discord!Quiet, Discord!Polled
  <2> HIDE DEF t
  <2>2. (Left(t) <=> (Discord!Quiet(t) /\ (t.boot # "none" => t.cut))) /\ Usual(t)
    BY DEF Helpers, Left, Quiet, Usual
  <2>3. QED
    BY <1>0, <2>1, <2>2 DEF Goes, t
<1>5. Goes(s, Discord!Failed(s, FALSE))
  <2> DEFINE t == Discord!Failed(s, FALSE)
  <2>1. t \in Discord!Session(Inputs) /\
            ((Discord!Quiet(s) /\ (s.boot # "none" => s.cut))
               => (Discord!Quiet(t) /\ (t.boot # "none" => t.cut)))
    BY <1>0 DEF Discord!Session, Discord!Quiet, Discord!Failed, Discord!ClearTimers
  <2> HIDE DEF t
  <2>2. (Left(t) <=> (Discord!Quiet(t) /\ (t.boot # "none" => t.cut))) /\ Usual(t)
    BY DEF Helpers, Left, Quiet, Usual
  <2>3. QED
    BY <1>0, <2>1, <2>2 DEF Goes, t
<1>6. Goes(s, Discord!Failed(s, TRUE))
  <2> DEFINE t == Discord!Failed(s, TRUE)
  <2>1. t \in Discord!Session(Inputs) /\
            ((Discord!Quiet(s) /\ (s.boot # "none" => s.cut))
               => (Discord!Quiet(t) /\ (t.boot # "none" => t.cut)))
    BY <1>0 DEF Discord!Session, Discord!Quiet, Discord!Failed, Discord!ClearTimers
  <2> HIDE DEF t
  <2>2. (Left(t) <=> (Discord!Quiet(t) /\ (t.boot # "none" => t.cut))) /\ Usual(t)
    BY DEF Helpers, Left, Quiet, Usual
  <2>3. QED
    BY <1>0, <2>1, <2>2 DEF Goes, t
<1>7. ASSUME s.retry
      PROVE  Goes(s, Discord!ReconnectTimeout(s))
  <2> DEFINE t == Discord!ReconnectTimeout(s)
  <2>1. t \in Discord!Session(Inputs) /\
            ((Discord!Quiet(s) /\ (s.boot # "none" => s.cut))
               => (Discord!Quiet(t) /\ (t.boot # "none" => t.cut)))
    BY <1>0, <1>7 DEF Discord!Session, Discord!Quiet, Discord!ReconnectTimeout
  <2> HIDE DEF t
  <2>2. (Left(t) <=> (Discord!Quiet(t) /\ (t.boot # "none" => t.cut))) /\ Usual(t)
    BY DEF Helpers, Left, Quiet, Usual
  <2>3. QED
    BY <1>0, <2>1, <2>2 DEF Goes, t
<1>8. QED
  BY <1>1, <1>2, <1>3, <1>4, <1>5, <1>6, <1>7

(* The stream of LinkedIn. *)
LEMMA LinkedInHandlers ==
    ASSUME platform = "linkedin", NEW s \in SessionType
    PROVE  /\ s.loop = "opening" /\ ~s.aborted => Goes(s, LinkedIn!Opened(s))
           /\ Goes(s, LinkedIn!Broke(s, TRUE))
           /\ Goes(s, LinkedIn!Broke(s, FALSE))
           /\ s.loop = "waiting" => Goes(s, LinkedIn!Waited(s))
<1>0. /\ s \in LinkedIn!Session(Inputs) /\ SessionType = LinkedIn!Session(Inputs)
      /\ Left(s) <=> LinkedIn!Quiet(s)
  BY DEF Helpers, SessionType, Left, Quiet
<1>1. ASSUME s.loop = "opening" /\ ~s.aborted
      PROVE  Goes(s, LinkedIn!Opened(s))
  <2> DEFINE t == LinkedIn!Opened(s)
  <2>1. t \in LinkedIn!Session(Inputs) /\ (LinkedIn!Quiet(s) => LinkedIn!Quiet(t))
    BY <1>0, <1>1 DEF LinkedIn!Session, LinkedIn!Quiet, LinkedIn!Opened
  <2> HIDE DEF t
  <2>2. (Left(t) <=> LinkedIn!Quiet(t)) /\ Usual(t)
    BY DEF Helpers, Left, Quiet, Usual
  <2>3. QED
    BY <1>0, <2>1, <2>2 DEF Goes, t
<1>2. Goes(s, LinkedIn!Broke(s, TRUE))
  <2> DEFINE t == LinkedIn!Broke(s, TRUE)
  <2>1. t \in LinkedIn!Session(Inputs) /\ (LinkedIn!Quiet(s) => LinkedIn!Quiet(t))
    BY <1>0 DEF LinkedIn!Session, LinkedIn!Quiet, LinkedIn!Broke
  <2> HIDE DEF t
  <2>2. (Left(t) <=> LinkedIn!Quiet(t)) /\ Usual(t)
    BY DEF Helpers, Left, Quiet, Usual
  <2>3. QED
    BY <1>0, <2>1, <2>2 DEF Goes, t
<1>3. Goes(s, LinkedIn!Broke(s, FALSE))
  <2> DEFINE t == LinkedIn!Broke(s, FALSE)
  <2>1. t \in LinkedIn!Session(Inputs) /\ (LinkedIn!Quiet(s) => LinkedIn!Quiet(t))
    BY <1>0 DEF LinkedIn!Session, LinkedIn!Quiet, LinkedIn!Broke
  <2> HIDE DEF t
  <2>2. (Left(t) <=> LinkedIn!Quiet(t)) /\ Usual(t)
    BY DEF Helpers, Left, Quiet, Usual
  <2>3. QED
    BY <1>0, <2>1, <2>2 DEF Goes, t
<1>4. ASSUME s.loop = "waiting"
      PROVE  Goes(s, LinkedIn!Waited(s))
  <2> DEFINE t == LinkedIn!Waited(s)
  <2>1. t \in LinkedIn!Session(Inputs) /\ (LinkedIn!Quiet(s) => LinkedIn!Quiet(t))
    BY <1>0, <1>4 DEF LinkedIn!Session, LinkedIn!Quiet, LinkedIn!Waited
  <2> HIDE DEF t
  <2>2. (Left(t) <=> LinkedIn!Quiet(t)) /\ Usual(t)
    BY DEF Helpers, Left, Quiet, Usual
  <2>3. QED
    BY <1>0, <2>1, <2>2 DEF Goes, t
<1>5. QED
  BY <1>1, <1>2, <1>3, <1>4

(* The watchers of this machine. *)
LEMMA WatcherHandlers ==
    ASSUME platform = "local", NEW s \in SessionType
    PROVE  /\ Goes(s, Watcher!Changed(s))
           /\ Goes(s, Watcher!Elapsed(s))
           /\ Goes(s, Watcher!Exited(s))
<1>0. /\ s \in Watcher!Session(Inputs) /\ SessionType = Watcher!Session(Inputs)
      /\ Left(s) <=> Watcher!Quiet(s)
  BY DEF Helpers, SessionType, Left, Quiet
<1>1. Goes(s, Watcher!Changed(s))
  <2> DEFINE t == Watcher!Changed(s)
  <2>1. t \in Watcher!Session(Inputs) /\ (Watcher!Quiet(s) => Watcher!Quiet(t))
    BY <1>0 DEF Watcher!Session, Watcher!Quiet, Watcher!Changed
  <2> HIDE DEF t
  <2>2. (Left(t) <=> Watcher!Quiet(t)) /\ Usual(t)
    BY DEF Helpers, Left, Quiet, Usual
  <2>3. QED
    BY <1>0, <2>1, <2>2 DEF Goes, t
<1>2. Goes(s, Watcher!Elapsed(s))
  <2> DEFINE t == Watcher!Elapsed(s)
  <2>1. t \in Watcher!Session(Inputs) /\ (Watcher!Quiet(s) => Watcher!Quiet(t))
    BY <1>0 DEF Watcher!Session, Watcher!Quiet, Watcher!Elapsed
  <2> HIDE DEF t
  <2>2. (Left(t) <=> Watcher!Quiet(t)) /\ Usual(t)
    BY DEF Helpers, Left, Quiet, Usual
  <2>3. QED
    BY <1>0, <2>1, <2>2 DEF Goes, t
<1>3. Goes(s, Watcher!Exited(s))
  <2> DEFINE t == Watcher!Exited(s)
  <2>1. t \in Watcher!Session(Inputs) /\ (Watcher!Quiet(s) => Watcher!Quiet(t))
    BY <1>0 DEF Watcher!Session, Watcher!Quiet, Watcher!Exited
  <2> HIDE DEF t
  <2>2. (Left(t) <=> Watcher!Quiet(t)) /\ Usual(t)
    BY DEF Helpers, Left, Quiet, Usual
  <2>3. QED
    BY <1>0, <2>1, <2>2 DEF Goes, t
<1>4. QED
  BY <1>1, <1>2, <1>3

-----------------------------------------------------------------------------
(* The steps. *)

(* At first no session was ever started. *)
LEMMA RealtimeInitInv == RealtimeInit => RealtimeInv
<1> SUFFICES ASSUME RealtimeInit PROVE RealtimeInv
  OBVIOUS
<1>1. 0 \in Inputs /\ 0 \in 0..MaxLogins /\ 0 \in 0..MaxSyncs /\ 0 \in 0..MaxFaults
  BY RealtimeAssumption DEF Inputs
<1>2. RestTyped
  BY <1>1 DEF RealtimeInit, RestTyped
<1>3. Fresh \in SessionType /\ Usual(Fresh) /\ Left(Fresh)
  BY <1>1, <1>2, FreshSession DEF RestTyped
<1>4. Sound(realtime)
  BY <1>1, <1>3 DEF RealtimeInit, Sound, SupervisorShape
<1>5. QED
  BY <1>2, <1>4 DEF RealtimeInv

(* Whoever asks for a reconcile finds room for it. *)
LEMMA RequestInRoom ==
    ASSUME RealtimeInv, Room, NEW a \in Inputs, NEW stored \in BOOLEAN, NEW r
    PROVE  Sound(Request(realtime, a, stored, r))
  BY RequestKeeps DEF RealtimeInv, RestTyped, Room

(* What is sound depends on the platform, which never changes. *)
LEMMA SoundNext ==
    ASSUME platform' = platform, Sound(realtime')
    PROVE  Sound(realtime)'
<1>1. SessionType' = SessionType
  BY DEF SessionType, Inputs, Discord!Session, LinkedIn!Session, Watcher!Session, Helper!Session
<1>2. SupervisorShape(realtime)'
  BY <1>1 DEF Sound, SupervisorShape, Inputs
<1>3. ASSUME NEW i \in Ids
      PROVE  /\ Usual(realtime'.sessions[i]) => Usual(realtime.sessions[i])'
             /\ Left(realtime'.sessions[i]) => Left(realtime.sessions[i])'
  BY DEF Usual, Left, Quiet, Helpers, Discord!Quiet, LinkedIn!Quiet, Watcher!Quiet,
         Helper!Quiet, Helper!HasChild
<1>4. QED
  BY <1>2, <1>3 DEF Sound

(* Every step keeps account, run and counters in their sets. *)
LEMMA RestStep == RealtimeInv /\ [RealtimeNext]_realtimeVars => RestTyped'
<1> SUFFICES ASSUME RealtimeInv, [RealtimeNext]_realtimeVars PROVE RestTyped'
  OBVIOUS
<1> USE DEF RestTyped, Fault
<1>0. /\ RestTyped /\ Sound(realtime)
      /\ MaxLogins \in Nat /\ MaxSyncs \in Nat /\ MaxFaults \in Nat
      /\ 0 \in Inputs /\ \A a \in Inputs : a # 0 => a \in Logins
      /\ \A n \in Nat : \A x \in 0..n : x < n => x + 1 \in 0..n
      /\ \A x \in 0..MaxLogins : x \in Inputs
  BY RealtimeAssumption DEF RealtimeInv, Inputs, Logins
<1>h. realtime.held \in Ids \cup {NoSession}
  BY <1>0 DEF Sound, SupervisorShape
<1>1. CASE Login
  BY <1>0, <1>1 DEF Login, LoginLeaves
<1>2. CASE Remove
  BY <1>0, <1>2 DEF Remove
<1>3. CASE LoseSecret
  BY <1>0, <1>3 DEF LoseSecret
<1>4. CASE Refuse
  <2>1. 1..logins \subseteq Logins
    BY <1>0 DEF Logins
  <2>2. QED
    BY <1>0, <1>4, <2>1 DEF Refuse
<1>5. CASE CompleteReconcile
  BY <1>0, <1>5 DEF CompleteReconcile
<1>6. CASE InspectionFails
  BY <1>0, <1>6 DEF InspectionFails
<1>7. CASE ScheduleSync
  BY <1>0, <1>7 DEF ScheduleSync
<1>8. CASE StartSync
  BY <1>0, <1>h, <1>8 DEF StartSync
<1>9. CASE EndTask
  BY <1>0, <1>9 DEF EndTask
<1>10. CASE EndSync
  BY <1>0, <1>10 DEF EndSync
<1>11. ASSUME NEW i \in Ids, HelperSpawned(i)
      PROVE  RestTyped'
  BY <1>0, <1>11 DEF HelperSpawned, RestUnchanged, Reconnected, QueueNative
<1>12. ASSUME NEW i \in Ids, HelperConnects(i)
      PROVE  RestTyped'
  BY <1>0, <1>12 DEF HelperConnects, RestUnchanged, Reconnected, QueueNative
<1>13. ASSUME NEW i \in Ids, HelperDisconnects(i)
      PROVE  RestTyped'
  BY <1>0, <1>13 DEF HelperDisconnects, RestUnchanged
<1>14. ASSUME NEW i \in Ids, HelperReportsError(i)
      PROVE  RestTyped'
  BY <1>0, <1>14 DEF HelperReportsError, RestUnchanged
<1>15. ASSUME NEW i \in Ids, HelperHangs(i)
      PROVE  RestTyped'
  BY <1>0, <1>15 DEF HelperHangs, RestUnchanged
<1>16. ASSUME NEW i \in Ids, HelperExits(i)
      PROVE  RestTyped'
  BY <1>0, <1>16 DEF HelperExits, RestUnchanged
<1>17. ASSUME NEW i \in Ids, DisposedHelperExits(i)
      PROVE  RestTyped'
  BY <1>0, <1>17 DEF DisposedHelperExits, RestUnchanged, SessionStep
<1>18. ASSUME NEW i \in Ids, ConnectTimeout(i)
      PROVE  RestTyped'
  BY <1>0, <1>18 DEF ConnectTimeout, RestUnchanged, SessionStep
<1>19. ASSUME NEW i \in Ids, ReconnectTimeout(i)
      PROVE  RestTyped'
  BY <1>0, <1>19 DEF ReconnectTimeout, RestUnchanged, SessionStep
<1>20. ASSUME NEW i \in Ids, GotUser(i)
      PROVE  RestTyped'
  BY <1>0, <1>20 DEF GotUser, RestUnchanged, SessionStep
<1>21. ASSUME NEW i \in Ids, GotChannels(i)
      PROVE  RestTyped'
  BY <1>0, <1>21 DEF GotChannels, RestUnchanged, Reconnected, QueueNative
<1>22. ASSUME NEW i \in Ids, Poll(i)
      PROVE  RestTyped'
  BY <1>0, <1>22 DEF Poll, RestUnchanged, SessionStep
<1>23. ASSUME NEW i \in Ids, Polled(i)
      PROVE  RestTyped'
  BY <1>0, <1>23 DEF Polled, RestUnchanged, SessionStep
<1>24. ASSUME NEW i \in Ids, DiscordFails(i)
      PROVE  RestTyped'
  BY <1>0, <1>24 DEF DiscordFails, RestUnchanged
<1>25. ASSUME NEW i \in Ids, DiscordRefused(i)
      PROVE  RestTyped'
  BY <1>0, <1>25 DEF DiscordRefused
<1>26. ASSUME NEW i \in Ids, StreamOpens(i)
      PROVE  RestTyped'
  BY <1>0, <1>26 DEF StreamOpens, RestUnchanged, Reconnected, QueueNative
<1>27. ASSUME NEW i \in Ids, StreamBreaks(i)
      PROVE  RestTyped'
  BY <1>0, <1>27 DEF StreamBreaks, RestUnchanged
<1>28. ASSUME NEW i \in Ids, StreamWaited(i)
      PROVE  RestTyped'
  BY <1>0, <1>28 DEF StreamWaited, RestUnchanged, SessionStep
<1>29. ASSUME NEW i \in Ids, HandleSlackEvent(i)
      PROVE  RestTyped'
  BY <1>0, <1>29 DEF HandleSlackEvent, LeftToSync, QueueNative
<1>30. ASSUME NEW i \in Ids, HandleDiscordEvent(i)
      PROVE  RestTyped'
  BY <1>0, <1>30 DEF HandleDiscordEvent, LeftToSync, QueueNative
<1>31. ASSUME NEW i \in Ids, IngestFails(i)
      PROVE  RestTyped'
  BY <1>0, <1>31 DEF IngestFails, LeftToSync, QueueNative
<1>32. ASSUME NEW i \in Ids, WatcherSees(i)
      PROVE  RestTyped'
  BY <1>0, <1>32 DEF WatcherSees, RestUnchanged, SessionStep
<1>33. ASSUME NEW i \in Ids, WatcherTimeout(i)
      PROVE  RestTyped'
  BY <1>0, <1>33 DEF WatcherTimeout, QueueNative
<1>34. ASSUME NEW i \in Ids, WatcherExits(i)
      PROVE  RestTyped'
  BY <1>0, <1>34 DEF WatcherExits, RestUnchanged
<1>35. CASE UNCHANGED realtimeVars
  BY <1>0, <1>35 DEF realtimeVars
<1>36. QED
  BY <1>1, <1>2, <1>3, <1>4, <1>5, <1>6, <1>7, <1>8, <1>9, <1>10, <1>11, <1>12,
     <1>13, <1>14, <1>15, <1>16, <1>17, <1>18, <1>19, <1>20, <1>21, <1>22,
     <1>23, <1>24, <1>25, <1>26, <1>27, <1>28, <1>29, <1>30, <1>31, <1>32,
     <1>33, <1>34, <1>35 DEF RealtimeNext

(* Every step keeps the supervisor sound. *)
LEMMA SoundStep == RealtimeInv /\ [RealtimeNext]_realtimeVars => Sound(realtime)'
<1> SUFFICES ASSUME RealtimeInv, [RealtimeNext]_realtimeVars PROVE Sound(realtime)'
  OBVIOUS
<1>a. platform \in Platforms /\ platform' = platform
  BY DEF RealtimeInv, RestTyped, RealtimeNext, realtimeVars, RestUnchanged, Login, Remove, LoseSecret, Refuse,
         CompleteReconcile, InspectionFails, ScheduleSync, StartSync, EndTask, EndSync, SessionStep,
         HelperSpawned, HelperConnects, HelperDisconnects, HelperReportsError, HelperHangs,
         HelperExits, DisposedHelperExits, ConnectTimeout, ReconnectTimeout, GotUser, GotChannels,
         Poll, Polled, DiscordFails, DiscordRefused, StreamOpens, StreamBreaks, StreamWaited,
         LeftToSync, HandleSlackEvent, HandleDiscordEvent, IngestFails, WatcherSees,
         WatcherTimeout, WatcherExits
<1>b. RestTyped /\ RestTyped' /\ Sound(realtime) /\ 0 \in Inputs
  BY RestStep, RealtimeAssumption DEF RealtimeInv, Inputs
<1>c. SUFFICES Sound(realtime')
  BY <1>a, SoundNext
<1>d. \A i \in Ids : Session(i) \in SessionType /\ Usual(Session(i))
  BY <1>b, HeldTyped
<1>e. ASSUME NEW i \in Ids, NEW t, Goes(Session(i), t), Becomes(i, t)
      PROVE  Sound(realtime')
  BY <1>a, <1>b, <1>e, GoesOn DEF Becomes
<1>1. CASE Login
  BY <1>b, <1>1, RequestInRoom DEF Login, RestTyped
<1>2. CASE Remove
  BY <1>b, <1>2, RequestInRoom DEF Remove, RestTyped
<1>3. CASE LoseSecret
  BY <1>b, <1>3 DEF LoseSecret
<1>4. CASE Refuse
  BY <1>b, <1>4 DEF Refuse
<1>5. CASE CompleteReconcile
  <2>1. realtime.found \in Inputs
    BY <1>b DEF Sound, SupervisorShape
  <2>2. Desired(realtime.found, secret) \in Inputs
    BY <1>b, <2>1 DEF Desired
  <2>3. QED
    BY <1>a, <1>b, <1>5, <2>2, CompleteKeeps DEF CompleteReconcile, RestTyped
<1>6. CASE InspectionFails
  BY <1>a, <1>b, <1>6, CompleteKeeps DEF InspectionFails, RestTyped
<1>7. CASE ScheduleSync
  BY <1>b, <1>7 DEF ScheduleSync
<1>8. CASE StartSync
  <2>1. CASE platform = "signal" /\ realtime.held # NoSession
    <3> DEFINE h == realtime.held
               s == Stop(realtime.sessions[h])
               u == [realtime EXCEPT !.sessions[h] = s]
    <3>1. realtime' = u
      BY <1>8, <2>1 DEF StartSync
    <3>2. h \in Ids /\ realtime.sessions[h] = Session(h)
      BY <1>b, <2>1 DEF Sound, SupervisorShape, Session
    <3>3. s \in SessionType /\ Usual(s)
      BY <1>a, <1>d, <3>2, StoppedSession
    <3> HIDE DEF s
    <3>4. /\ u \in [held : Ids \cup {NoSession}, sessions : [Ids -> SessionType],
                     found : Inputs, again : BOOLEAN]
          /\ u.held = h /\ u.sessions = [realtime.sessions EXCEPT ![h] = s]
          /\ realtime.sessions \in [Ids -> SessionType]
      BY <1>b, <3>2, <3>3 DEF Sound, SupervisorShape
    <3> HIDE DEF u
    <3>5. QED
      BY <1>b, <3>1, <3>2, <3>3, <3>4 DEF Sound, SupervisorShape
  <2>2. CASE ~(platform = "signal" /\ realtime.held # NoSession)
    BY <1>b, <1>8, <2>2, RequestInRoom DEF StartSync, RestTyped
  <2>3. QED
    BY <2>1, <2>2
<1>9. CASE EndTask
  BY <1>b, <1>9, RequestInRoom DEF EndTask, RestTyped
<1>10. CASE EndSync
  BY <1>b, <1>10, RequestInRoom DEF EndSync, RestTyped
<1>11. ASSUME NEW i \in Ids, HelperSpawned(i)
      PROVE  Sound(realtime')
  <2>1. Goes(Session(i), Helper!Spawned(platform, Session(i), LoginRead))
    <3>1. LoginRead \in Inputs
      BY <1>b DEF LoginRead, RestTyped, Inputs
    <3>2. QED
      BY <1>d, <1>11, <3>1, HelperHandlers DEF HelperSpawned
  <2>2. QED
    BY <1>e, <1>11, <2>1 DEF HelperSpawned
<1>12. ASSUME NEW i \in Ids, HelperConnects(i)
      PROVE  Sound(realtime')
  <2>1. Goes(Session(i), Helper!SaysConnected(Session(i)))
    BY <1>d, <1>12, HelperHandlers DEF HelperConnects
  <2>2. QED
    BY <1>e, <1>12, <2>1 DEF HelperConnects
<1>13. ASSUME NEW i \in Ids, HelperDisconnects(i)
      PROVE  Sound(realtime')
  <2>1. Goes(Session(i), Helper!SaysDisconnected(platform, Session(i)))
    BY <1>d, <1>13, HelperHandlers DEF HelperDisconnects, Helpers
  <2>2. QED
    BY <1>e, <1>13, <2>1 DEF HelperDisconnects
<1>14. ASSUME NEW i \in Ids, HelperReportsError(i)
      PROVE  Sound(realtime')
  <2>1. Goes(Session(i), Helper!SaysError(Session(i)))
    BY <1>d, <1>14, HelperHandlers DEF HelperReportsError, Helpers
  <2>2. QED
    BY <1>e, <1>14, <2>1 DEF HelperReportsError
<1>15. ASSUME NEW i \in Ids, HelperHangs(i)
      PROVE  Sound(realtime')
  <2>1. Goes(Session(i), [Session(i) EXCEPT !.child = "mute"])
    BY <1>d, <1>15, HelperHandlers DEF HelperHangs
  <2>2. QED
    BY <1>e, <1>15, <2>1 DEF HelperHangs
<1>16. ASSUME NEW i \in Ids, HelperExits(i)
      PROVE  Sound(realtime')
  <2>1. Goes(Session(i), Helper!Exited(platform, Session(i)))
    BY <1>d, <1>16, HelperHandlers DEF HelperExits
  <2>2. QED
    BY <1>e, <1>16, <2>1 DEF HelperExits
<1>17. ASSUME NEW i \in Ids, DisposedHelperExits(i)
      PROVE  Sound(realtime')
  <2>1. Goes(Session(i), [Session(i) EXCEPT !.dying = FALSE])
    BY <1>d, <1>17, HelperHandlers DEF DisposedHelperExits
  <2>2. QED
    BY <1>e, <1>17, <2>1 DEF DisposedHelperExits, SessionStep
<1>18. ASSUME NEW i \in Ids, ConnectTimeout(i)
      PROVE  Sound(realtime')
  <2>1. Goes(Session(i), Helper!ConnectTimeout(platform, Session(i)))
    BY <1>d, <1>18, HelperHandlers DEF ConnectTimeout
  <2>2. QED
    BY <1>e, <1>18, <2>1 DEF ConnectTimeout, SessionStep
<1>19. ASSUME NEW i \in Ids, ReconnectTimeout(i)
      PROVE  Sound(realtime')
  <2>1. CASE platform = "discord"
    <3>1. Goes(Session(i), Discord!ReconnectTimeout(Session(i)))
      BY <1>d, <1>19, <2>1, DiscordHandlers DEF ReconnectTimeout
    <3>2. QED
      BY <1>e, <1>19, <2>1, <3>1 DEF ReconnectTimeout, SessionStep
  <2>2. CASE platform # "discord"
    <3>1. Goes(Session(i), Helper!ReconnectTimeout(Session(i)))
      BY <1>d, <1>19, <2>2, HelperHandlers DEF ReconnectTimeout
    <3>2. QED
      BY <1>e, <1>19, <2>2, <3>1 DEF ReconnectTimeout, SessionStep
  <2>3. QED
    BY <2>1, <2>2
<1>20. ASSUME NEW i \in Ids, GotUser(i)
      PROVE  Sound(realtime')
  <2>1. Goes(Session(i), Discord!GotUser(Session(i)))
    BY <1>d, <1>20, DiscordHandlers DEF GotUser
  <2>2. QED
    BY <1>e, <1>20, <2>1 DEF GotUser, SessionStep
<1>21. ASSUME NEW i \in Ids, GotChannels(i)
      PROVE  Sound(realtime')
  <2>1. Goes(Session(i), Discord!GotChannels(Session(i)))
    BY <1>d, <1>21, DiscordHandlers DEF GotChannels
  <2>2. QED
    BY <1>e, <1>21, <2>1 DEF GotChannels
<1>22. ASSUME NEW i \in Ids, Poll(i)
      PROVE  Sound(realtime')
  <2>1. Goes(Session(i), Discord!Poll(Session(i)))
    BY <1>d, <1>22, DiscordHandlers DEF Poll
  <2>2. QED
    BY <1>e, <1>22, <2>1 DEF Poll, SessionStep
<1>23. ASSUME NEW i \in Ids, Polled(i)
      PROVE  Sound(realtime')
  <2>1. Goes(Session(i), Discord!Polled(Session(i)))
    BY <1>d, <1>23, DiscordHandlers DEF Polled
  <2>2. QED
    BY <1>e, <1>23, <2>1 DEF Polled, SessionStep
<1>24. ASSUME NEW i \in Ids, DiscordFails(i)
      PROVE  Sound(realtime')
  <2>1. Goes(Session(i), Discord!Failed(Session(i), FALSE))
    BY <1>d, <1>24, DiscordHandlers DEF DiscordFails
  <2>2. QED
    BY <1>e, <1>24, <2>1 DEF DiscordFails
<1>25. ASSUME NEW i \in Ids, DiscordRefused(i)
      PROVE  Sound(realtime')
  <2> DEFINE t == Discord!Failed(Session(i), TRUE)
             w == Put(realtime, i, t)
  <2>1. Goes(Session(i), t)
    BY <1>d, <1>25, DiscordHandlers DEF DiscordRefused
  <2>2. realtime' = Request(w, 0, secret, run)
    BY <1>25 DEF DiscordRefused
  <2> HIDE DEF t
  <2>3. /\ Sound(w) /\ w.held = realtime.held
        /\ \A j \in Ids \ {i} : w.sessions[j] = Session(j)
    BY <1>a, <1>b, <2>1, GoesOn
  <2>4. Session(i) # Fresh
    BY <1>25 DEF DiscordRefused, Asking, Fresh, Discord!Fresh
  <2> HIDE DEF w
  <2>5. Unused(w) # {}
    BY <1>25, <2>3, <2>4 DEF DiscordRefused, Room, Unused, Session
  <2>6. QED
    BY <1>a, <1>b, <2>2, <2>3, <2>5, RequestKeeps DEF RestTyped
<1>26. ASSUME NEW i \in Ids, StreamOpens(i)
      PROVE  Sound(realtime')
  <2>1. Goes(Session(i), LinkedIn!Opened(Session(i)))
    BY <1>d, <1>26, LinkedInHandlers DEF StreamOpens
  <2>2. QED
    BY <1>e, <1>26, <2>1 DEF StreamOpens
<1>27. ASSUME NEW i \in Ids, StreamBreaks(i)
      PROVE  Sound(realtime')
  <2>1. Goes(Session(i), LinkedIn!Broke(Session(i), TRUE)) /\ Goes(Session(i), LinkedIn!Broke(Session(i), FALSE))
    BY <1>d, <1>27, LinkedInHandlers DEF StreamBreaks
  <2>2. LinkedIn!Broke(Session(i), ~Accepted(Session(i)))
           \in {LinkedIn!Broke(Session(i), TRUE), LinkedIn!Broke(Session(i), FALSE)}
    BY DEF LinkedIn!Broke
  <2>3. QED
    BY <1>e, <1>27, <2>1, <2>2 DEF StreamBreaks
<1>28. ASSUME NEW i \in Ids, StreamWaited(i)
      PROVE  Sound(realtime')
  <2>1. Goes(Session(i), LinkedIn!Waited(Session(i)))
    BY <1>d, <1>28, LinkedInHandlers DEF StreamWaited
  <2>2. QED
    BY <1>e, <1>28, <2>1 DEF StreamWaited, SessionStep
<1>29. ASSUME NEW i \in Ids, HandleSlackEvent(i)
      PROVE  Sound(realtime')
  BY <1>b, <1>29 DEF HandleSlackEvent, LeftToSync
<1>30. ASSUME NEW i \in Ids, HandleDiscordEvent(i)
      PROVE  Sound(realtime')
  BY <1>b, <1>30 DEF HandleDiscordEvent, LeftToSync
<1>31. ASSUME NEW i \in Ids, IngestFails(i)
      PROVE  Sound(realtime')
  BY <1>b, <1>31 DEF IngestFails, LeftToSync
<1>32. ASSUME NEW i \in Ids, WatcherSees(i)
      PROVE  Sound(realtime')
  <2>1. Goes(Session(i), Watcher!Changed(Session(i)))
    BY <1>d, <1>32, WatcherHandlers DEF WatcherSees
  <2>2. QED
    BY <1>e, <1>32, <2>1 DEF WatcherSees, SessionStep
<1>33. ASSUME NEW i \in Ids, WatcherTimeout(i)
      PROVE  Sound(realtime')
  <2>1. Goes(Session(i), Watcher!Elapsed(Session(i)))
    BY <1>d, <1>33, WatcherHandlers DEF WatcherTimeout
  <2>2. QED
    BY <1>e, <1>33, <2>1 DEF WatcherTimeout
<1>34. ASSUME NEW i \in Ids, WatcherExits(i)
      PROVE  Sound(realtime')
  <2>1. Goes(Session(i), Watcher!Exited(Session(i)))
    BY <1>d, <1>34, WatcherHandlers DEF WatcherExits
  <2>2. QED
    BY <1>e, <1>34, <2>1 DEF WatcherExits
<1>35. CASE UNCHANGED realtimeVars
  BY <1>b, <1>35 DEF realtimeVars
<1>36. QED
  BY <1>1, <1>2, <1>3, <1>4, <1>5, <1>6, <1>7, <1>8, <1>9, <1>10, <1>11, <1>12,
     <1>13, <1>14, <1>15, <1>16, <1>17, <1>18, <1>19, <1>20, <1>21, <1>22,
     <1>23, <1>24, <1>25, <1>26, <1>27, <1>28, <1>29, <1>30, <1>31, <1>32,
     <1>33, <1>34, <1>35 DEF RealtimeNext

(* The invariant of the sessions holds in every reachable state. *)
THEOREM RealtimeInvHolds == RealtimeSpec => []RealtimeInv
<1>1. RealtimeInv /\ [RealtimeNext]_realtimeVars => RealtimeInv'
  BY RestStep, SoundStep DEF RealtimeInv
<1>2. QED
  BY <1>1, RealtimeInitInv, PTL DEF RealtimeSpec

(* The shape of supervisor, sessions and sync runs, on every platform. *)
THEOREM RealtimeTypeCorrect == RealtimeSpec => []RealtimeTypeOK
<1>1. RealtimeInv => RealtimeTypeOK
  <2> SUFFICES ASSUME RealtimeInv PROVE RealtimeTypeOK
    OBVIOUS
  <2> DEFINE All == Helper!Session(Inputs) \cup Discord!Session(Inputs)
                       \cup LinkedIn!Session(Inputs) \cup Watcher!Session(Inputs)
  <2>1. SessionType \subseteq All
    BY DEF SessionType
  <2>2. Supervisor = [held : Ids \cup {NoSession}, sessions : [Ids -> All],
                      found : Inputs, again : BOOLEAN]
    BY DEF Supervisor
  <2> HIDE DEF All
  <2>3. realtime \in Supervisor
    BY <2>1, <2>2 DEF RealtimeInv, Sound, SupervisorShape
  <2>4. QED
    BY <2>3 DEF RealtimeInv, RestTyped, RealtimeTypeOK
<1>2. QED
  BY <1>1, RealtimeInvHolds, PTL

(* A session the supervisor replaced or let go starts no helper, request   *)
(* or stream again, and has told the helper it waits for to stop: neither   *)
(* a late timer, an exit, an answer nor a sync that stops the session of   *)
(* Signal brings one back (platforms/*/realtime/session.ts).               *)
THEOREM LeftSessionsQuiet == RealtimeSpec => []LeftSessionsAreQuiet
<1>1. RealtimeInv => LeftSessionsAreQuiet
  BY DEF RealtimeInv, Sound, Left, Session, LeftSessionsAreQuiet
<1>2. QED
  BY <1>1, RealtimeInvHolds, PTL
=============================================================================
