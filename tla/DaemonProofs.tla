---------------------------- MODULE DaemonProofs ----------------------------
(***************************************************************************)
(* Proofs about Daemon, for any finite set of sync runs, any number of     *)
(* slots, and any bounds on pages, rebuilds and logins.                    *)
(***************************************************************************)
EXTENDS Daemon, FiniteSetTheorems, SequenceTheorems, TLAPS

-----------------------------------------------------------------------------
(* A line of the members of a set is a sequence of them, each once. *)
LEMMA LinesAreSequences ==
    ASSUME NEW S, IsFiniteSet(S), NEW line \in Lines(S)
    PROVE  /\ line \in Seq(S)
           /\ \A i, j \in 1..Len(line) : line[i] = line[j] => i = j
<1>1. Cardinality(S) \in Nat
  BY FS_CardinalityType
<1>2. line \in [1..Cardinality(S) -> S]
  BY DEF Lines
<1>3. line \in Seq(S)
  BY <1>1, <1>2, SeqDef
<1>4. DOMAIN line = 1..Len(line) /\ 1..Len(line) = 1..Cardinality(S)
  BY <1>2, <1>3, LenProperties
<1>5. line \in Surjection(1..Cardinality(S), S)
  <2>1. \A s \in S : \E i \in 1..Cardinality(S) : line[i] = s
    BY <1>4 DEF Lines, In
  <2> QED
    BY <1>2, <2>1 DEF Surjection
<1>6. IsFiniteSet(1..Cardinality(S)) /\ Cardinality(1..Cardinality(S)) = Cardinality(S)
  BY <1>1, FS_Interval
<1>7. line \in Injection(1..Cardinality(S), S)
  BY <1>5, <1>6, FS_SurjSameCardinalityImpliesInj
<1> QED
  BY <1>3, <1>4, <1>7 DEF Injection, IsInjective

(* What is left of a sequence without one of its places is a sequence.     *)
LEMMA RemoveAtType ==
    ASSUME NEW S, NEW seq \in Seq(S), NEW i \in 1..Len(seq)
    PROVE  RemoveAt(seq, i) \in Seq(S)
<1>1. Len(seq) \in Nat /\ \A k \in 1..Len(seq) : seq[k] \in S
  BY ElementOfSeq, LenProperties
<1>2. SubSeq(seq, 1, i - 1) \in Seq(S)
  BY <1>1, SubSeqProperties
<1>3. SubSeq(seq, i + 1, Len(seq)) \in Seq(S)
  BY <1>1, SubSeqProperties
<1> QED
  BY <1>2, <1>3, ConcatProperties DEF RemoveAt

(* The union of two sets of ids, in numbers: one more id is one more.      *)
LEMMA OneMore ==
    ASSUME NEW S \in SUBSET Syncs, NEW x
    PROVE  /\ IsFiniteSet(S) /\ Cardinality(S) \in Nat
           /\ Cardinality(S \cup {x}) <= Cardinality(S) + 1
<1>1. IsFiniteSet(S)
  BY DaemonAssumption, FS_Subset
<1>2. Cardinality(S) \in Nat
  BY <1>1, FS_CardinalityType
<1> QED
  BY <1>1, <1>2, FS_AddElement

-----------------------------------------------------------------------------
LEMMA QueueProjectionType ==
    ASSUME TypeOK, NEW backlog \in Nat, NEW delay \in {"later", "now"},
           QueueProjection(backlog, delay)
    PROVE  /\ projectLater' \in BOOLEAN /\ projectionLine' \in Seq(Jobs)
           /\ projectionTimer' \in Timer
<1> USE DEF TypeOK, QueueProjection
<1>1. "project" \in Jobs /\ Append(projectionLine, "project") \in Seq(Jobs)
  BY AppendProperties DEF Jobs
<1>2. projectLater' \in BOOLEAN
  OBVIOUS
<1>3. projectionLine' \in Seq(Jobs)
  BY <1>1
<1>4. projectionTimer' \in Timer
  BY DEF Wake, Timer
<1> QED
  BY <1>2, <1>3, <1>4

LEMMA EnqueueType ==
    ASSUME TypeOK, NEW S \in SUBSET RowsThatAre({"free"}), Enqueue(S)
    PROVE  row' \in [Syncs -> Rows] /\ syncLine' \in Seq(Syncs) /\ ingestTimer' \in Timer
<1> USE DEF TypeOK, Enqueue
<1>1. row' \in [Syncs -> Rows]
  BY DEF Rows
<1>2. S \subseteq Syncs /\ IsFiniteSet(S)
  BY DaemonAssumption, FS_Subset DEF RowsThatAre
<1>3. PICK line \in Lines(S) : syncLine' = syncLine \o line
  OBVIOUS
<1>4. line \in Seq(Syncs)
  BY <1>2, LinesAreSequences, SeqMonotonic
<1>5. syncLine' \in Seq(Syncs)
  BY <1>3, <1>4, ConcatProperties
<1>6. ingestTimer' \in Timer
  BY DEF Wake, Timer
<1> QED
  BY <1>1, <1>5, <1>6

LEMMA InitType == Init => TypeOK
<1> SUFFICES ASSUME Init PROVE TypeOK
  OBVIOUS
<1> USE DEF Init
<1>1. row \in [Syncs -> Rows]
  BY DEF Rows
<1>2. syncLine \in Seq(Syncs)
  <2>1. RowsThatAre({"due"}) \subseteq Syncs /\ IsFiniteSet(RowsThatAre({"due"}))
    BY DaemonAssumption, FS_Subset DEF RowsThatAre
  <2> QED
    BY <2>1, LinesAreSequences, SeqMonotonic
<1>3. projectionLine \in Seq(Jobs)
  <2>1. <<>> \in Seq(Jobs)
    BY EmptySeq
  <2>2. <<"project">> \in Seq(Jobs) /\ <<"rebuild">> \in Seq(Jobs)
    BY DEF Jobs
  <2> QED
    BY <2>1, <2>2
<1>4. pending \in Nat
  BY DaemonAssumption
<1> QED
  BY <1>1, <1>2, <1>3, <1>4 DEF TypeOK, Timer

(* The variables keep their types. *)
THEOREM DaemonTypeCorrect == Spec => []TypeOK
<1>1. TypeOK /\ [Next]_vars => TypeOK'
  <2> SUFFICES ASSUME TypeOK, [Next]_vars PROVE TypeOK'
    OBVIOUS
  <2> USE DEF TypeOK, runVars, projVars, timers, modeVars, stopVars, counters
  <2>1. ASSUME NEW S \in SUBSET RowsThatAre({"free"}), QueueSyncs(S) PROVE TypeOK'
    BY <2>1, EnqueueType DEF QueueSyncs
  <2>2. ASSUME NEW s \in Syncs, SyncBecomesDue(s) PROVE TypeOK'
    <3>1. syncLine' \in Seq(Syncs)
      BY <2>2, AppendProperties DEF SyncBecomesDue
    <3> QED
      BY <2>2, <3>1 DEF SyncBecomesDue, Rows
  <2>3. ASSUME NEW s \in Syncs, Overrun(s) PROVE TypeOK'
    <3>1. overruns' \in Nat
      BY <2>3 DEF Overrun
    <3> QED
      BY <2>3, <3>1 DEF Overrun, Rows
  <2>4. CASE QueueRebuild
    <3>1. projectionLine' \in Seq(Jobs)
      BY <2>4, AppendProperties DEF QueueRebuild, Jobs
    <3>2. rebuilds' \in Nat /\ projectionTimer' \in Timer
      BY <2>4 DEF QueueRebuild, Wake, Timer
    <3> QED
      BY <2>4, <3>1, <3>2 DEF QueueRebuild
  <2>5. CASE ProjectionBecomesDue
    <3>1. projectionLine' \in Seq(Jobs)
      BY <2>5, AppendProperties DEF ProjectionBecomesDue, Jobs
    <3> QED
      BY <2>5, <3>1 DEF ProjectionBecomesDue
  <2>6. CASE RealtimeIngest
    <3>1. pending' \in Nat /\ arrivals' \in Nat /\ pending + 1 \in Nat
      BY <2>6 DEF RealtimeIngest
    <3> QED
      BY <2>6, <3>1, QueueProjectionType DEF RealtimeIngest
  <2>7. CASE DrainIngest
    <3>1. CASE UNCHANGED runVars
      <4>1. ingestTimer' \in Timer /\ projectionTimer' \in Timer
        BY <2>7, <3>1 DEF DrainIngest, RetrySoon, IngestRetry, Wake, Timer
      <4> QED
        BY <2>7, <3>1, <4>1 DEF DrainIngest
    <3>2. ASSUME NEW n \in 0..Len(syncLine), NEW expired \in SUBSET RowsThatAre({"expired"}),
                 row' = [s \in Syncs |-> IF s \in ClaimedBy(n, expired) THEN "ingesting" ELSE row[s]],
                 syncLine' = SubSeq(syncLine, n + 1, Len(syncLine)),
                 executors' =
                    {IF e.run \in ClaimedBy(n, expired) THEN [e EXCEPT !.holdsClaim = FALSE] ELSE e :
                        e \in executors}
                    \cup [run : ClaimedBy(n, expired), holdsClaim : {TRUE}, phase : {"fetching"}],
                 active' = active \cup ClaimedBy(n, expired),
                 ingestTimer' = IngestRetry(ClaimedBy(n, expired)),
                 UNCHANGED projectionTimer
          PROVE  TypeOK'
      <4>1. Len(syncLine) \in Nat /\ \A i \in 1..Len(syncLine) : syncLine[i] \in Syncs
        BY ElementOfSeq, LenProperties
      <4>2. ClaimedBy(n, expired) \subseteq Syncs
        BY <4>1 DEF ClaimedBy, RowsThatAre
      <4>3. row' \in [Syncs -> Rows]
        BY <3>2 DEF Rows
      <4>4. syncLine' \in Seq(Syncs)
        BY <3>2, <4>1, SubSeqProperties
      <4>5. executors' \subseteq Executor
        <5>1. \A e \in executors : [e EXCEPT !.holdsClaim = FALSE] \in Executor
          BY DEF Executor
        <5>2. [run : ClaimedBy(n, expired), holdsClaim : {TRUE}, phase : {"fetching"}]
                 \subseteq Executor
          BY <4>2 DEF Executor
        <5> QED
          BY <3>2, <5>1, <5>2
      <4>6. ingestTimer' \in Timer
        BY <3>2 DEF IngestRetry, Timer
      <4> QED
        BY <2>7, <3>2, <4>2, <4>3, <4>4, <4>5, <4>6 DEF DrainIngest
    <3> QED
      BY <2>7, <3>1, <3>2 DEF DrainIngest
  <2>8. ASSUME NEW e \in executors, FinishIngest(e) PROVE TypeOK'
    <3>1. executors' \subseteq Executor
      <4>1. [e EXCEPT !.phase = "emitting"] \in Executor
        BY DEF Executor
      <4> QED
        BY <2>8, <4>1 DEF FinishIngest
    <3>2. pending' \in Nat
      BY <2>8 DEF FinishIngest
    <3>3. /\ projectLater' \in BOOLEAN /\ projectionLine' \in Seq(Jobs)
          /\ projectionTimer' \in Timer
      BY <2>8, <3>2, QueueProjectionType DEF FinishIngest
    <3>4. row' \in [Syncs -> Rows] /\ ingestTimer' \in Timer
      BY <2>8 DEF FinishIngest, Wake, Timer, Rows
    <3> QED
      BY <2>8, <3>1, <3>2, <3>3, <3>4 DEF FinishIngest
  <2>9. ASSUME NEW e \in executors, EndIngest(e) PROVE TypeOK'
    <3>1. row' \in [Syncs -> Rows]
      BY <2>9 DEF EndIngest, Rows
    <3>2. ingestTimer' \in Timer /\ projectionTimer' \in Timer
      BY <2>9 DEF EndIngest, WakesProjection, Wake, Timer
    <3> QED
      BY <2>9, <3>1, <3>2 DEF EndIngest, ReleasesSlot, MaybeStop
  <2>10. CASE DrainProjection
    <3>1. projectionTimer' \in Timer
      BY <2>10 DEF DrainProjection, Timer
    <3>2. ASSUME NEW i \in 1..Len(projectionLine),
                 projector' = [job |-> projectionLine[i], phase |-> "working"],
                 projectionLine' = RemoveAt(projectionLine, i)
          PROVE  TypeOK'
      <4>1. projectionLine[i] \in Jobs /\ projectionLine' \in Seq(Jobs)
        BY <3>2, ElementOfSeq, RemoveAtType
      <4> QED
        BY <2>10, <3>1, <3>2, <4>1 DEF DrainProjection
    <3>3. CASE UNCHANGED <<projectionLine, projector>>
      BY <2>10, <3>1, <3>3 DEF DrainProjection
    <3> QED
      BY <2>10, <3>2, <3>3 DEF DrainProjection
  <2>11. CASE DrainProjectionBusy
    BY <2>11 DEF DrainProjectionBusy, Timer
  <2>12. CASE FinishProjection
    <3>1. projector' \in [job : Jobs, phase : {"working", "emitting"}]
      BY <2>12 DEF FinishProjection, Idle
    <3>2. pending' \in Nat
      BY <2>12 DEF FinishProjection, PagesLeft
    <3>3. /\ projectLater' \in BOOLEAN /\ projectionLine' \in Seq(Jobs)
          /\ projectionTimer' \in Timer
      BY <2>12, <3>2, QueueProjectionType DEF FinishProjection
    <3> QED
      BY <2>12, <3>1, <3>2, <3>3 DEF FinishProjection
  <2>13. CASE EndProjection
    BY <2>13 DEF EndProjection, WakesProjection, Wake, Timer, MaybeStop
  <2>14. CASE BootstrapReady
    <3>1. row' \in [Syncs -> Rows] /\ syncLine' \in Seq(Syncs) /\ ingestTimer' \in Timer
      BY <2>14, EnqueueType DEF BootstrapReady
    <3>2. /\ projectLater' \in BOOLEAN /\ projectionLine' \in Seq(Jobs)
          /\ projectionTimer' \in Timer
      BY <2>14, QueueProjectionType DEF BootstrapReady
    <3> QED
      BY <2>14, <3>1, <3>2 DEF BootstrapReady
  <2>15. CASE BeginLogin
    <3>1. logins' \in Nat /\ projectionTimer' \in Timer
      BY <2>15 DEF BeginLogin, Wake, Timer
    <3> QED
      BY <2>15, <3>1 DEF BeginLogin
  <2>16. CASE BootstrapFails \/ EndLogin \/ LoginExpires \/ PauseEnds
    <3>1. ingestTimer' \in Timer /\ projectionTimer' \in Timer
      BY <2>16 DEF BootstrapFails, EndLogin, LoginExpires, PauseEnds, Wake, Timer
    <3>2. bootstrap' \in {"starting", "ready", "failed"}
      BY <2>16 DEF BootstrapFails, EndLogin, LoginExpires, PauseEnds
    <3>3. login' \in BOOLEAN /\ paused' \in BOOLEAN
      BY <2>16 DEF BootstrapFails, EndLogin, LoginExpires, PauseEnds
    <3> QED
      BY <2>16, <3>1, <3>2, <3>3 DEF BootstrapFails, EndLogin, LoginExpires, PauseEnds
  <2>17. CASE RequestUpdateShutdown \/ CheckShutdown \/ GraceEnds
    BY <2>17 DEF RequestUpdateShutdown, CheckShutdown, GraceEnds, MaybeStop
  <2>18. CASE UNCHANGED vars
    BY <2>18 DEF vars
  <2> QED
    BY <2>1, <2>2, <2>3, <2>4, <2>5, <2>6, <2>7, <2>8, <2>9, <2>10, <2>11, <2>12, <2>13,
       <2>14, <2>15, <2>16, <2>17, <2>18 DEF Next
<1> QED
  BY <1>1, InitType, PTL DEF Spec

-----------------------------------------------------------------------------
(* The due runs stand in line, each once. *)
LineIsDue == \A i \in 1..Len(syncLine) : row[syncLine[i]] = "due"

NobodyTwice == \A i, j \in 1..Len(syncLine) : syncLine[i] = syncLine[j] => i = j

(* An executor that fetches and has its claim is the one its row stands    *)
(* for, even if its lease is over.                                         *)
ClaimsStand ==
    /\ \A e \in executors :
          e.holdsClaim /\ e.phase = "fetching" => row[e.run] \in {"ingesting", "expired"}
    /\ \A e, f \in executors :
          /\ e.holdsClaim /\ e.phase = "fetching" /\ f.holdsClaim /\ f.phase = "fetching"
          /\ e.run = f.run
          => e = f

(* While no lease is overrun, a row says what its executor is doing. *)
RowsAreTrue ==
    overruns = 0 =>
        /\ \A e \in executors :
              /\ e.holdsClaim
              /\ row[e.run] = IF e.phase = "fetching" THEN "ingesting" ELSE "settled"
        /\ \A s \in Syncs : row[s] = "ingesting" => s \in active

Inv == /\ LineIsDue /\ NobodyTwice /\ ClaimsStand /\ RowsAreTrue
       /\ SlotsAreHonest /\ RebuildRunsAlone

LEMMA InitInv == Init => Inv
<1> SUFFICES ASSUME Init PROVE Inv
  OBVIOUS
<1>1. RowsThatAre({"due"}) \subseteq Syncs /\ IsFiniteSet(RowsThatAre({"due"}))
  BY DaemonAssumption, FS_Subset DEF RowsThatAre
<1>2. /\ syncLine \in Seq(RowsThatAre({"due"}))
      /\ \A i, j \in 1..Len(syncLine) : syncLine[i] = syncLine[j] => i = j
  BY <1>1, LinesAreSequences DEF Init
<1>3. LineIsDue
  BY <1>2, ElementOfSeq DEF LineIsDue, RowsThatAre
<1>4. ClaimsStand /\ SlotsAreHonest
  BY DEF Init, ClaimsStand, SlotsAreHonest
<1>5. RowsAreTrue
  BY DEF Init, RowsAreTrue
<1>6. RebuildRunsAlone
  BY DEF Init, RebuildRunsAlone
<1> QED
  BY <1>2, <1>3, <1>4, <1>5, <1>6 DEF Inv, NobodyTwice

(* Queued runs take their places at the end of the line. *)
LEMMA EnqueueLine ==
    ASSUME TypeOK, LineIsDue, NobodyTwice,
           NEW S \in SUBSET RowsThatAre({"free"}), Enqueue(S)
    PROVE  LineIsDue' /\ NobodyTwice'
<1>1. S \subseteq Syncs /\ IsFiniteSet(S) /\ \A s \in S : row[s] = "free"
  BY DaemonAssumption, FS_Subset DEF RowsThatAre
<1>2. PICK line \in Lines(S) : syncLine' = syncLine \o line
  BY DEF Enqueue
<1>3. /\ line \in Seq(S) /\ line \in Seq(Syncs) /\ syncLine \in Seq(Syncs)
      /\ \A i, j \in 1..Len(line) : line[i] = line[j] => i = j
  BY <1>1, LinesAreSequences, SeqMonotonic DEF TypeOK
<1>4. /\ Len(line) \in Nat /\ Len(syncLine) \in Nat
      /\ \A i \in 1..Len(line) : line[i] \in S
      /\ \A i \in 1..Len(syncLine) : syncLine[i] \in Syncs
  BY <1>3, ElementOfSeq, LenProperties
<1>5. /\ Len(syncLine') = Len(syncLine) + Len(line)
      /\ \A i \in 1..Len(syncLine') :
            syncLine'[i] = IF i <= Len(syncLine) THEN syncLine[i] ELSE line[i - Len(syncLine)]
  BY <1>2, <1>3, ConcatProperties
<1>6. row' = [s \in Syncs |-> IF s \in S THEN "due" ELSE row[s]]
  BY DEF Enqueue
<1>7. ASSUME NEW i \in 1..Len(syncLine')
      PROVE  \/ i \in 1..Len(syncLine) /\ syncLine'[i] = syncLine[i] /\ syncLine[i] \notin S
             \/ /\ i > Len(syncLine) /\ i - Len(syncLine) \in 1..Len(line)
                /\ syncLine'[i] = line[i - Len(syncLine)] /\ syncLine'[i] \in S
  BY <1>1, <1>4, <1>5 DEF LineIsDue
<1>8. LineIsDue'
  <2> SUFFICES ASSUME NEW i \in 1..Len(syncLine') PROVE row'[syncLine'[i]] = "due"
    BY DEF LineIsDue
  <2> QED
    BY <1>1, <1>4, <1>6, <1>7 DEF LineIsDue
<1>9. NobodyTwice'
  <2> SUFFICES ASSUME NEW i \in 1..Len(syncLine'), NEW j \in 1..Len(syncLine'),
                      syncLine'[i] = syncLine'[j]
               PROVE  i = j
    BY DEF NobodyTwice
  <2>1. CASE i \in 1..Len(syncLine) /\ j \in 1..Len(syncLine)
    BY <1>5, <1>4, <2>1 DEF NobodyTwice
  <2>2. CASE i > Len(syncLine) /\ j > Len(syncLine)
    <3>1. /\ i - Len(syncLine) \in 1..Len(line) /\ syncLine'[i] = line[i - Len(syncLine)]
          /\ j - Len(syncLine) \in 1..Len(line) /\ syncLine'[j] = line[j - Len(syncLine)]
      BY <1>4, <1>5, <1>7, <2>2
    <3>2. i - Len(syncLine) = j - Len(syncLine)
      BY <1>3, <3>1
    <3> QED
      BY <3>2, <1>4, <1>5
  <2> QED
    BY <1>4, <1>7, <2>1, <2>2
<1> QED
  BY <1>8, <1>9

(* What a drain does that claims runs, or none. *)
Claims(n, claimed) ==
    /\ stopping = "no" /\ projector = Idle /\ ~YieldsToProjection
    /\ \A s \in claimed : row[s] \in {"due", "expired"}
    /\ \A i \in 1..Len(syncLine) : syncLine[i] \in claimed <=> i <= n
    /\ row' = [s \in Syncs |-> IF s \in claimed THEN "ingesting" ELSE row[s]]
    /\ syncLine' = SubSeq(syncLine, n + 1, Len(syncLine))
    /\ executors' =
         {IF e.run \in claimed THEN [e EXCEPT !.holdsClaim = FALSE] ELSE e : e \in executors}
         \cup [run : claimed, holdsClaim : {TRUE}, phase : {"fetching"}]
    /\ active' = active \cup claimed
    /\ ingestTimer' = IngestRetry(claimed)
    /\ \A s \in Syncs : row[s] \in {"due", "expired"} =>
          s \in claimed \/ ~HasRoom(active \cup claimed)
    /\ claimed # {} =>
          \E last \in claimed : HasRoom(active \cup (claimed \ {last}))
    /\ UNCHANGED <<overruns, projectionTimer, projectLater, projectionLine>>

LEMMA DrainClaims ==
    ASSUME TypeOK, LineIsDue, NobodyTwice, DrainIngest
    PROVE  \/ UNCHANGED runVars /\ (stopping = "requested" \/ ingestTimer' = "later")
           \/ \E n \in 0..Len(syncLine), claimed \in SUBSET Syncs : Claims(n, claimed)
<1>1. SUFFICES ASSUME NEW n \in 0..Len(syncLine),
                      NEW expired \in SUBSET RowsThatAre({"expired"}),
                      stopping = "no", ~IngestMustWait,
                      IsDrainOf(n, expired),
                      row' = [s \in Syncs |->
                                 IF s \in ClaimedBy(n, expired) THEN "ingesting" ELSE row[s]],
                      syncLine' = SubSeq(syncLine, n + 1, Len(syncLine)),
                      executors' =
                         {IF e.run \in ClaimedBy(n, expired)
                          THEN [e EXCEPT !.holdsClaim = FALSE] ELSE e : e \in executors}
                         \cup [run : ClaimedBy(n, expired), holdsClaim : {TRUE},
                               phase : {"fetching"}],
                      active' = active \cup ClaimedBy(n, expired),
                      ingestTimer' = IngestRetry(ClaimedBy(n, expired)),
                      UNCHANGED projectionTimer
               PROVE  Claims(n, ClaimedBy(n, expired)) /\ ClaimedBy(n, expired) \subseteq Syncs
  BY DEF DrainIngest, RetrySoon
<1> DEFINE claimed == ClaimedBy(n, expired)
<1>2. Len(syncLine) \in Nat /\ \A i \in 1..Len(syncLine) : syncLine[i] \in Syncs
  BY ElementOfSeq, LenProperties DEF TypeOK
<1>3. \A s \in expired : s \in Syncs /\ row[s] = "expired"
  BY DEF RowsThatAre
<1>4. \A s : s \in claimed <=> s \in expired \/ \E i \in 1..n : s = syncLine[i]
  BY DEF ClaimedBy
<1>5. \A i \in 1..n : i \in 1..Len(syncLine)
  BY <1>2
<1>6. claimed \subseteq Syncs /\ \A s \in claimed : row[s] \in {"due", "expired"}
  BY <1>2, <1>3, <1>4, <1>5 DEF LineIsDue
<1>7. ASSUME NEW i \in 1..Len(syncLine) PROVE syncLine[i] \in claimed <=> i <= n
  <2>1. syncLine[i] \notin expired
    BY <1>3 DEF LineIsDue
  <2>2. (\E k \in 1..n : syncLine[i] = syncLine[k]) <=> i \in 1..n
    BY <1>5 DEF NobodyTwice
  <2> QED
    BY <1>2, <1>4, <2>1, <2>2
<1>8. \A s \in Syncs : row[s] \in {"due", "expired"} =>
         s \in claimed \/ ~HasRoom(active \cup claimed)
  BY <1>1 DEF IsDrainOf, RowsThatAre
<1>9. claimed # {} => \E last \in claimed : HasRoom(active \cup (claimed \ {last}))
  BY <1>1 DEF IsDrainOf
<1>10. UNCHANGED <<overruns, projectLater, projectionLine>>
  BY DEF DrainIngest, counters, projVars
<1>11. projector = Idle /\ ~YieldsToProjection
  BY <1>1 DEF IngestMustWait
<1> QED
  BY <1>1, <1>6, <1>7, <1>8, <1>9, <1>10, <1>11 DEF Claims

(* The invariant survives a drain: it claims due and expired runs only,    *)
(* and none of them has an executor while no lease is overrun.             *)
LEMMA DrainInv ==
    ASSUME TypeOK, Inv, NEW n \in 0..Len(syncLine), NEW claimed \in SUBSET Syncs,
           Claims(n, claimed), UNCHANGED <<projector, overruns>>
    PROVE  Inv'
<1> USE DEF Inv
<1>1. Len(syncLine) \in Nat /\ \A i \in 1..Len(syncLine) : syncLine[i] \in Syncs
  BY ElementOfSeq, LenProperties DEF TypeOK
<1>2. /\ Len(syncLine') = Len(syncLine) - n
      /\ \A i \in 1..Len(syncLine') :
            i + n \in 1..Len(syncLine) /\ syncLine'[i] = syncLine[i + n]
  BY <1>1, SubSeqProperties DEF Claims
<1>3. LineIsDue'
  BY <1>1, <1>2 DEF LineIsDue, Claims
<1>4. NobodyTwice'
  <2> SUFFICES ASSUME NEW i \in 1..Len(syncLine'), NEW j \in 1..Len(syncLine'),
                      syncLine'[i] = syncLine'[j]
               PROVE  i = j
    BY DEF NobodyTwice
  <2>1. /\ i + n \in 1..Len(syncLine) /\ j + n \in 1..Len(syncLine)
        /\ syncLine[i + n] = syncLine[j + n]
    BY <1>2
  <2>2. i + n = j + n
    BY <2>1 DEF NobodyTwice
  <2>3. i \in Nat /\ j \in Nat /\ n \in Nat
    BY <1>1, <1>2
  <2> QED
    BY <2>2, <2>3
<1>5. ASSUME NEW e \in executors'
      PROVE  \/ /\ e.run \in claimed /\ e.holdsClaim /\ e.phase = "fetching"
                /\ e = [run |-> e.run, holdsClaim |-> TRUE, phase |-> "fetching"]
             \/ e \in executors /\ e.run \notin claimed
             \/ /\ ~e.holdsClaim /\ e.run \in claimed
                /\ \E f \in executors : f.run = e.run
  <2>1. executors \subseteq Executor
    BY DEF TypeOK
  <2>2. \/ \E f \in executors :
              e = IF f.run \in claimed THEN [f EXCEPT !.holdsClaim = FALSE] ELSE f
        \/ e \in [run : claimed, holdsClaim : {TRUE}, phase : {"fetching"}]
    BY <1>5 DEF Claims
  <2>3. ASSUME NEW f \in executors,
               e = IF f.run \in claimed THEN [f EXCEPT !.holdsClaim = FALSE] ELSE f
        PROVE  \/ e \in executors /\ e.run \notin claimed
               \/ ~e.holdsClaim /\ e.run \in claimed /\ e.run = f.run
    <3>1. f \in Executor
      BY <2>1
    <3>2. CASE f.run \in claimed
      BY <2>3, <3>1, <3>2 DEF Executor
    <3>3. CASE f.run \notin claimed
      BY <2>3, <3>3
    <3> QED
      BY <3>2, <3>3
  <2>4. ASSUME e \in [run : claimed, holdsClaim : {TRUE}, phase : {"fetching"}]
        PROVE  /\ e.run \in claimed /\ e.holdsClaim /\ e.phase = "fetching"
               /\ e = [run |-> e.run, holdsClaim |-> TRUE, phase |-> "fetching"]
    BY <2>4
  <2> QED
    BY <2>2, <2>3, <2>4
<1>6. ClaimsStand'
  <2>1. ASSUME NEW e \in executors', e.holdsClaim, e.phase = "fetching"
        PROVE  row'[e.run] \in {"ingesting", "expired"}
    BY <1>5, <2>1 DEF ClaimsStand, Claims, TypeOK, Executor
  <2>2. ASSUME NEW e \in executors', e.holdsClaim, e.phase = "fetching",
               NEW f \in executors', f.holdsClaim, f.phase = "fetching", e.run = f.run
        PROVE  e = f
    BY <1>5, <2>2 DEF ClaimsStand
  <2> QED
    BY <2>1, <2>2 DEF ClaimsStand
<1>7. overruns = 0 => \A e \in executors : e.run \notin claimed
  BY DEF Claims, RowsAreTrue, TypeOK, Executor
<1>8. ASSUME overruns = 0
      PROVE  /\ \A e \in executors : e \in executors'
             /\ \A e \in executors' :
                   e \in executors \/ (e.run \in claimed /\ e.holdsClaim /\ e.phase = "fetching")
             /\ \A s \in claimed : \E e \in executors' : e.run = s
  <2>1. executors' = executors \cup [run : claimed, holdsClaim : {TRUE}, phase : {"fetching"}]
    BY <1>7, <1>8 DEF Claims
  <2>2. \A s \in claimed : [run |-> s, holdsClaim |-> TRUE, phase |-> "fetching"] \in executors'
    BY <2>1
  <2>3. \A s \in claimed : \E e \in executors' : e.run = s
    BY <2>2
  <2>4. \A e \in [run : claimed, holdsClaim : {TRUE}, phase : {"fetching"}] :
           e.run \in claimed /\ e.holdsClaim /\ e.phase = "fetching"
    OBVIOUS
  <2>5. \A e \in executors : e \in executors'
    BY <2>1
  <2> QED
    BY <2>1, <2>3, <2>4, <2>5
<1>9. RowsAreTrue'
  <2> SUFFICES ASSUME overruns = 0
               PROVE  /\ \A e \in executors' :
                            /\ e.holdsClaim
                            /\ row'[e.run] = IF e.phase = "fetching" THEN "ingesting"
                                             ELSE "settled"
                      /\ \A s \in Syncs : row'[s] = "ingesting" => s \in active'
    BY DEF Claims, RowsAreTrue
  <2>1. ASSUME NEW e \in executors'
        PROVE  /\ e.holdsClaim
               /\ row'[e.run] = IF e.phase = "fetching" THEN "ingesting" ELSE "settled"
    <3>1. CASE e \in executors
      BY <1>7, <3>1 DEF RowsAreTrue, Claims, TypeOK, Executor
    <3>2. CASE e.run \in claimed /\ e.holdsClaim /\ e.phase = "fetching"
      BY <3>2 DEF Claims
    <3> QED
      BY <1>8, <3>1, <3>2
  <2>2. \A s \in Syncs : row'[s] = "ingesting" => s \in active'
    BY DEF Claims, RowsAreTrue
  <2> QED
    BY <2>1, <2>2
<1>10. SlotsAreHonest'
  <2> SUFFICES ASSUME overruns = 0
               PROVE  /\ active' = {e.run : e \in executors'}
                      /\ \A e, f \in executors' : e.run = f.run => e = f
    BY DEF Claims, SlotsAreHonest
  <2>1. active' = {e.run : e \in executors'}
    <3>1. \A s : (\E e \in executors' : s = e.run) <=> (\E e \in executors : s = e.run) \/ s \in claimed
      BY <1>8
    <3>2. {e.run : e \in executors'} = {e.run : e \in executors} \cup claimed
      BY <3>1
    <3> QED
      BY <3>2 DEF SlotsAreHonest, Claims
  <2>2. ASSUME NEW e \in executors', NEW f \in executors', e.run = f.run PROVE e = f
    <3>1. CASE e \in executors /\ f \in executors
      BY <2>2, <3>1 DEF SlotsAreHonest
    <3>2. CASE e.run \in claimed
      BY <1>5, <1>7, <2>2, <3>2
    <3> QED
      BY <1>8, <2>2, <3>1, <3>2
  <2> QED
    BY <2>1, <2>2
<1>11. RebuildRunsAlone'
  BY DEF RebuildRunsAlone, Claims, Idle
<1> QED
  BY <1>3, <1>4, <1>6, <1>9, <1>10, <1>11

(* Only these variables matter to the invariant. *)
LEMMA InvFrame == Inv /\ UNCHANGED <<runVars, projector, overruns>> => Inv'
  BY DEF Inv, runVars, LineIsDue, NobodyTwice, ClaimsStand, RowsAreTrue, SlotsAreHonest,
         RebuildRunsAlone

LEMMA InvStep == TypeOK /\ Inv /\ [Next]_vars => Inv'
<1> SUFFICES ASSUME TypeOK, Inv, [Next]_vars PROVE Inv'
  OBVIOUS
<1> USE DEF runVars, projVars, timers, modeVars, stopVars, counters
<1>0. /\ Len(syncLine) \in Nat /\ \A i \in 1..Len(syncLine) : syncLine[i] \in Syncs
      /\ \A e \in executors : e.run \in Syncs /\ e.phase \in {"fetching", "emitting"}
  BY ElementOfSeq, LenProperties DEF TypeOK, Executor
<1>1. ASSUME NEW S \in SUBSET RowsThatAre({"free"}), Enqueue(S),
             UNCHANGED <<executors, active, projector, overruns>>
      PROVE  Inv'
  <2>1. \A s \in Syncs : row'[s] = row[s] \/ (row[s] = "free" /\ row'[s] = "due")
    BY <1>1 DEF Enqueue, RowsThatAre
  <2>2. LineIsDue' /\ NobodyTwice'
    BY <1>1, EnqueueLine DEF Inv
  <2>3. ClaimsStand'
    BY <1>0, <1>1, <2>1 DEF Inv, ClaimsStand
  <2>4. RowsAreTrue'
    BY <1>0, <1>1, <2>1 DEF Inv, RowsAreTrue
  <2>5. SlotsAreHonest' /\ RebuildRunsAlone'
    BY <1>1 DEF Inv, SlotsAreHonest, RebuildRunsAlone
  <2> QED
    BY <2>2, <2>3, <2>4, <2>5 DEF Inv
<1>2. ASSUME NEW s \in Syncs, SyncBecomesDue(s) PROVE Inv'
  <2>1. /\ row[s] = "later" /\ row' = [row EXCEPT ![s] = "due"]
        /\ syncLine' = Append(syncLine, s)
        /\ UNCHANGED <<executors, active, projector, overruns>>
    BY <1>2 DEF SyncBecomesDue
  <2>2. /\ Len(syncLine') = Len(syncLine) + 1 /\ syncLine'[Len(syncLine) + 1] = s
        /\ \A i \in 1..Len(syncLine) : syncLine'[i] = syncLine[i] /\ syncLine[i] # s
    BY <2>1, AppendProperties DEF TypeOK, Inv, LineIsDue
  <2>3. LineIsDue'
    BY <1>0, <2>1, <2>2 DEF TypeOK, Inv, LineIsDue
  <2>4. NobodyTwice'
    BY <1>0, <2>2 DEF Inv, NobodyTwice
  <2>5. ClaimsStand'
    BY <1>0, <2>1 DEF TypeOK, Inv, ClaimsStand
  <2>6. RowsAreTrue'
    BY <1>0, <2>1 DEF TypeOK, Inv, RowsAreTrue
  <2>7. SlotsAreHonest' /\ RebuildRunsAlone'
    BY <2>1 DEF Inv, SlotsAreHonest, RebuildRunsAlone
  <2> QED
    BY <2>3, <2>4, <2>5, <2>6, <2>7 DEF Inv
<1>3. ASSUME NEW s \in Syncs, Overrun(s) PROVE Inv'
  <2>1. /\ row[s] = "ingesting" /\ row' = [row EXCEPT ![s] = "expired"]
        /\ UNCHANGED <<syncLine, executors, active, projector>>
    BY <1>3 DEF Overrun
  <2>2. overruns' # 0
    BY <1>3 DEF Overrun, TypeOK
  <2>3. LineIsDue' /\ NobodyTwice'
    BY <1>0, <2>1 DEF TypeOK, Inv, LineIsDue, NobodyTwice
  <2>4. ClaimsStand'
    BY <1>0, <2>1 DEF TypeOK, Inv, ClaimsStand
  <2> QED
    BY <2>2, <2>3, <2>4 DEF Inv, RowsAreTrue, SlotsAreHonest, RebuildRunsAlone
<1>4. CASE DrainIngest
  <2>1. UNCHANGED <<projector, overruns>>
    BY <1>4 DEF DrainIngest
  <2>2. CASE UNCHANGED runVars
    BY <2>1, <2>2, InvFrame
  <2>3. ASSUME NEW n \in 0..Len(syncLine), NEW claimed \in SUBSET Syncs, Claims(n, claimed)
        PROVE  Inv'
    BY <2>1, <2>3, DrainInv
  <2> QED
    BY <1>4, <2>2, <2>3, DrainClaims DEF Inv
<1>5. ASSUME NEW e \in executors, FinishIngest(e) PROVE Inv'
  <2> DEFINE done == [e EXCEPT !.phase = "emitting"]
  <2>1. /\ e.phase = "fetching" /\ executors' = (executors \ {e}) \cup {done}
        /\ UNCHANGED <<syncLine, active, projector, overruns>>
    BY <1>5 DEF FinishIngest
  <2>2. /\ done.run = e.run /\ done.phase = "emitting" /\ done.holdsClaim = e.holdsClaim
    BY DEF TypeOK, Executor
  <2>3. /\ e.holdsClaim => row'[e.run] \in {"settled"}
        /\ \A s \in Syncs : \/ row'[s] = row[s]
                            \/ row[s] = "free" /\ row'[s] = "later"
                            \/ s = e.run /\ e.holdsClaim /\ row'[s] = "settled"
    <3>1. PICK continuation \in {{}} \cup {{s} : s \in RowsThatAre({"free"})} :
             row' = [s \in Syncs |-> IF s \in continuation THEN "later"
                                     ELSE IF s = e.run /\ e.holdsClaim THEN "settled"
                                     ELSE row[s]]
      BY <1>5 DEF FinishIngest
    <3>2. \A s \in continuation : s \in Syncs /\ row[s] = "free"
      BY DEF RowsThatAre
    <3>3. e.holdsClaim => row[e.run] # "free"
      BY <2>1 DEF Inv, ClaimsStand
    <3> QED
      BY <1>0, <3>1, <3>2, <3>3
  <2>4. e.holdsClaim => row[e.run] \in {"ingesting", "expired"}
    BY <2>1 DEF Inv, ClaimsStand
  <2>5. LineIsDue' /\ NobodyTwice'
    BY <1>0, <2>1, <2>3, <2>4 DEF Inv, LineIsDue, NobodyTwice
  <2>6. \A f \in executors' : f = done \/ (f \in executors /\ f # e)
    BY <2>1
  <2>7. ClaimsStand'
    BY <1>0, <2>1, <2>2, <2>3, <2>6 DEF Inv, ClaimsStand
  <2>8. overruns = 0 => \A f \in executors : f # e => f.run # e.run
    BY DEF Inv, SlotsAreHonest
  <2>9. RowsAreTrue'
    BY <1>0, <2>1, <2>2, <2>3, <2>6, <2>8 DEF Inv, RowsAreTrue
  <2>10. SlotsAreHonest'
    <3> SUFFICES ASSUME overruns = 0
                 PROVE  /\ active' = {f.run : f \in executors'}
                        /\ \A f, g \in executors' : f.run = g.run => f = g
      BY <2>1 DEF SlotsAreHonest
    <3>1. \A s : (\E f \in executors' : s = f.run) <=> (\E f \in executors : s = f.run)
      BY <2>1, <2>2
    <3>2. {f.run : f \in executors'} = {f.run : f \in executors}
      BY <3>1
    <3> QED
      BY <2>1, <2>2, <2>6, <2>8, <3>2 DEF Inv, SlotsAreHonest
  <2>11. RebuildRunsAlone'
    BY <2>1 DEF Inv, RebuildRunsAlone
  <2> QED
    BY <2>5, <2>7, <2>9, <2>10, <2>11 DEF Inv
<1>6. ASSUME NEW e \in executors, EndIngest(e) PROVE Inv'
  <2>1. /\ e.phase = "emitting" /\ executors' = executors \ {e}
        /\ active' = active \ {e.run}
        /\ UNCHANGED <<syncLine, projector, overruns>>
    BY <1>6 DEF EndIngest, ReleasesSlot
  <2>2. /\ \A f \in executors' : row'[f.run] = row[f.run]
        /\ \A s \in Syncs : row'[s] = row[s] \/ (row[s] = "settled" /\ row'[s] = "free")
    BY <1>0, <1>6 DEF EndIngest, TypeOK
  <2>3. LineIsDue' /\ NobodyTwice'
    BY <1>0, <2>1, <2>2 DEF Inv, LineIsDue, NobodyTwice
  <2>4. ClaimsStand'
    BY <2>1, <2>2 DEF Inv, ClaimsStand
  <2>5. RowsAreTrue'
    BY <1>0, <2>1, <2>2 DEF Inv, RowsAreTrue
  <2>6. SlotsAreHonest'
    <3> SUFFICES ASSUME overruns = 0
                 PROVE  /\ active' = {f.run : f \in executors'}
                        /\ \A f, g \in executors' : f.run = g.run => f = g
      BY <2>1 DEF SlotsAreHonest
    <3>1. active = {f.run : f \in executors} /\ \A f, g \in executors : f.run = g.run => f = g
      BY DEF Inv, SlotsAreHonest
    <3> QED
      BY <2>1, <3>1
  <2>7. RebuildRunsAlone'
    BY <2>1 DEF Inv, RebuildRunsAlone
  <2> QED
    BY <2>3, <2>4, <2>5, <2>6, <2>7 DEF Inv
<1>7. CASE DrainProjection
  <2>1. UNCHANGED <<runVars, overruns>>
    BY <1>7 DEF DrainProjection
  <2>2. projector'.job = "rebuild" => active = {} \/ UNCHANGED projector
    BY <1>7 DEF DrainProjection, IsNextJob, ClaimableJobs
  <2>3. RebuildRunsAlone'
    BY <2>1, <2>2 DEF Inv, RebuildRunsAlone, SlotsAreHonest
  <2> QED
    BY <2>1, <2>3 DEF Inv, LineIsDue, NobodyTwice, ClaimsStand, RowsAreTrue, SlotsAreHonest
<1>8. CASE FinishProjection \/ EndProjection
  <2>1. UNCHANGED <<runVars, overruns>> /\ (projector'.job = projector.job \/ projector' = Idle)
    BY <1>8 DEF FinishProjection, EndProjection, TypeOK, Idle
  <2>2. RebuildRunsAlone'
    BY <2>1 DEF Inv, RebuildRunsAlone, Idle
  <2> QED
    BY <2>1, <2>2 DEF Inv, LineIsDue, NobodyTwice, ClaimsStand, RowsAreTrue, SlotsAreHonest
<1>9. CASE BootstrapReady
  BY <1>1, <1>9 DEF BootstrapReady
<1>10. ASSUME NEW S \in SUBSET RowsThatAre({"free"}), QueueSyncs(S) PROVE Inv'
  BY <1>1, <1>10 DEF QueueSyncs
<1>11. CASE QueueRebuild \/ ProjectionBecomesDue \/ RealtimeIngest \/ DrainProjectionBusy
  BY <1>11, InvFrame DEF QueueRebuild, ProjectionBecomesDue, RealtimeIngest,
     DrainProjectionBusy
<1>12. CASE BootstrapFails \/ BeginLogin \/ EndLogin \/ LoginExpires \/ PauseEnds
  BY <1>12, InvFrame DEF BootstrapFails, BeginLogin, EndLogin, LoginExpires, PauseEnds
<1>13. CASE RequestUpdateShutdown \/ CheckShutdown \/ GraceEnds \/ UNCHANGED vars
  BY <1>13, InvFrame DEF RequestUpdateShutdown, CheckShutdown, GraceEnds, vars
<1> QED
  BY <1>1, <1>2, <1>3, <1>4, <1>5, <1>6, <1>7, <1>8, <1>9, <1>10, <1>11, <1>12, <1>13 DEF Next

(* The invariant holds in every reachable state. *)
LEMMA InvAlways == Spec => [](TypeOK /\ Inv)
  BY InitInv, InvStep, DaemonTypeCorrect, PTL DEF Spec

(* No ingest run is at work beside a rebuild, from its claim to its last   *)
(* hook, while no lease is overrun.                                        *)
THEOREM RebuildAlone == Spec => []RebuildRunsAlone
<1>1. Inv => RebuildRunsAlone
  BY DEF Inv
<1> QED
  BY <1>1, InvAlways, PTL

(* The map of active runs is the truth about the executors, while no lease *)
(* is overrun.                                                             *)
THEOREM SlotsHonest == Spec => []SlotsAreHonest
<1>1. Inv => SlotsAreHonest
  BY DEF Inv
<1> QED
  BY <1>1, InvAlways, PTL

-----------------------------------------------------------------------------
(* Only the last run a drain claims can fill the slots. *)
THEOREM ClaimsWithinSlots == Spec => ClaimsFitSlots
<1>1. TypeOK /\ Inv /\ [Next]_vars => [active' \subseteq active \/ Cardinality(active') <= Slots]_vars
  <2> SUFFICES ASSUME TypeOK, Inv, Next
               PROVE  active' \subseteq active \/ Cardinality(active') <= Slots
    OBVIOUS
  <2> USE DEF runVars, projVars, timers, modeVars, stopVars, counters
  <2>1. CASE UNCHANGED active
    BY <2>1
  <2>2. CASE DrainIngest
    <3>1. CASE UNCHANGED runVars
      BY <3>1
    <3>2. ASSUME NEW n \in 0..Len(syncLine), NEW claimed \in SUBSET Syncs, Claims(n, claimed)
          PROVE  active' \subseteq active \/ Cardinality(active') <= Slots
      <4>1. CASE claimed = {}
        BY <3>2, <4>1 DEF Claims
      <4>2. CASE claimed # {}
        <5>1. PICK last \in claimed : HasRoom(active \cup (claimed \ {last}))
          BY <3>2, <4>2 DEF Claims
        <5> DEFINE others == active \cup (claimed \ {last})
        <5>2. others \in SUBSET Syncs /\ active' = others \cup {last}
          BY <3>2, <5>1 DEF Claims, TypeOK
        <5>3. Cardinality(others) \in Nat /\ Cardinality(active') <= Cardinality(others) + 1
          BY <5>2, OneMore
        <5>4. active' \in SUBSET Syncs
          BY <3>2 DEF Claims, TypeOK
        <5>5. Cardinality(active') \in Nat
          BY <5>4, OneMore
        <5>6. Slots \in Nat
          BY DaemonAssumption DEF Slots
        <5> QED
          BY <5>1, <5>3, <5>5, <5>6 DEF HasRoom
      <4> QED
        BY <4>1, <4>2
    <3> QED
      BY <2>2, <3>1, <3>2, DrainClaims DEF Inv
  <2>3. ASSUME NEW e \in executors, EndIngest(e) PROVE active' \subseteq active
    BY <2>3 DEF EndIngest, ReleasesSlot
  <2>4. ASSUME NEW e \in executors, FinishIngest(e) PROVE UNCHANGED active
    BY <2>4 DEF FinishIngest
  <2>5. ASSUME NEW S \in SUBSET RowsThatAre({"free"}), QueueSyncs(S) PROVE UNCHANGED active
    BY <2>5 DEF QueueSyncs
  <2>6. ASSUME NEW s \in Syncs, SyncBecomesDue(s) \/ Overrun(s) PROVE UNCHANGED active
    BY <2>6 DEF SyncBecomesDue, Overrun
  <2>7. CASE QueueRebuild \/ ProjectionBecomesDue \/ RealtimeIngest
    BY <2>7 DEF QueueRebuild, ProjectionBecomesDue, RealtimeIngest
  <2>8. CASE DrainProjection \/ DrainProjectionBusy \/ FinishProjection \/ EndProjection
    BY <2>8 DEF DrainProjection, DrainProjectionBusy, FinishProjection, EndProjection
  <2>9. CASE BootstrapReady \/ BootstrapFails
    BY <2>9 DEF BootstrapReady, BootstrapFails
  <2>10. CASE BeginLogin \/ EndLogin \/ LoginExpires \/ PauseEnds
    BY <2>10 DEF BeginLogin, EndLogin, LoginExpires, PauseEnds
  <2>11. CASE RequestUpdateShutdown \/ CheckShutdown \/ GraceEnds
    BY <2>11 DEF RequestUpdateShutdown, CheckShutdown, GraceEnds
  <2> QED
    BY <2>1, <2>2, <2>3, <2>4, <2>5, <2>6, <2>7, <2>8, <2>9, <2>10, <2>11 DEF Next
<1> QED
  BY <1>1, InvAlways, PTL DEF Spec, ClaimsFitSlots

-----------------------------------------------------------------------------
(* WorkIsAttended, one queue at a time. *)
SyncsAttended ==
    stopping = "no" =>
        \A s \in Syncs : row[s] \in {"due", "later", "expired"} =>
            ingestTimer # "none" \/ active # {}

JobsAttended ==
    stopping = "no" =>
        /\ projectLater \/ In("project", projectionLine)
              => projectionTimer # "none" \/ projector # Idle
        /\ In("rebuild", projectionLine)
              => projectionTimer # "none" \/ projector # Idle \/ active # {}

(* A full slot map is not an empty one. *)
LEMMA NoRoomMeansWork ==
    ASSUME NEW S \in SUBSET Syncs, ~HasRoom(S)
    PROVE  S # {}
  BY FS_EmptySet, DaemonAssumption DEF HasRoom, Slots

LEMMA SyncsAttendedStep ==
    TypeOK /\ Inv /\ SyncsAttended /\ [Next]_vars => SyncsAttended'
<1> SUFFICES ASSUME TypeOK, Inv, SyncsAttended, [Next]_vars, stopping' = "no",
                    NEW s \in Syncs, row'[s] \in {"due", "later", "expired"},
                    ingestTimer' = "none"
             PROVE  active' # {}
  BY DEF SyncsAttended
<1> USE DEF runVars, projVars, timers, modeVars, stopVars, counters
<1>1. CASE /\ stopping = "no" /\ UNCHANGED <<ingestTimer, active>>
           /\ row'[s] = row[s] \/ row[s] \in {"due", "later", "expired"}
  BY <1>1 DEF SyncsAttended
<1>2. ASSUME NEW S \in SUBSET RowsThatAre({"free"}), Enqueue(S), UNCHANGED <<active, stopping>>
      PROVE  active' # {}
  <2>1. ingestTimer' # "none" \/ S = {}
    BY <1>2 DEF Enqueue, Wake
  <2>2. S = {} => ingestTimer' = ingestTimer /\ row'[s] = row[s]
    BY <1>2 DEF Enqueue
  <2> QED
    BY <1>1, <1>2, <2>1, <2>2
<1>3. ASSUME NEW S \in SUBSET RowsThatAre({"free"}), QueueSyncs(S) PROVE active' # {}
  BY <1>2, <1>3 DEF QueueSyncs
<1>4. CASE BootstrapReady
  BY <1>2, <1>4 DEF BootstrapReady
<1>5. ASSUME NEW r \in Syncs, SyncBecomesDue(r) PROVE active' # {}
  <2>1. row'[s] = row[s] \/ row[s] = "later"
    BY <1>5 DEF SyncBecomesDue, TypeOK
  <2> QED
    BY <1>1, <1>5, <2>1 DEF SyncBecomesDue
<1>6. ASSUME NEW r \in Syncs, Overrun(r) PROVE active' # {}
  <2>1. overruns = 0 /\ row[r] = "ingesting" /\ UNCHANGED active
    BY <1>6, DaemonAssumption DEF Overrun, TypeOK
  <2> QED
    BY <2>1 DEF Inv, RowsAreTrue
<1>7. CASE DrainIngest
  <2>1. UNCHANGED stopping
    BY <1>7 DEF DrainIngest
  <2>2. ASSUME NEW n \in 0..Len(syncLine), NEW claimed \in SUBSET Syncs, Claims(n, claimed)
        PROVE  active' # {}
    <3>1. CASE claimed # {}
      BY <2>2, <3>1 DEF Claims
    <3>2. CASE claimed = {}
      <4>1. active' = active /\ active \cup claimed = active /\ row'[s] = row[s]
        BY <2>2, <3>2 DEF Claims
      <4>2. CASE ~HasRoom(active)
        BY <4>1, <4>2, NoRoomMeansWork DEF TypeOK
      <4>3. CASE HasRoom(active)
        <5>1. row[s] = "later"
          BY <2>2, <3>2, <4>1, <4>3 DEF Claims
        <5>2. ingestTimer' = "later"
          BY <2>2, <4>1, <4>3, <5>1 DEF Claims, IngestRetry, RowsThatAre
        <5> QED
          BY <5>2
      <4> QED
        BY <4>2, <4>3
    <3> QED
      BY <3>1, <3>2
  <2> QED
    BY <1>7, <2>1, <2>2, DrainClaims DEF Inv
<1>8. ASSUME NEW e \in executors, FinishIngest(e) PROVE active' # {}
  <2>1. PICK continuation \in {{}} \cup {{r} : r \in RowsThatAre({"free"})} :
           /\ row' = [r \in Syncs |-> IF r \in continuation THEN "later"
                                      ELSE IF r = e.run /\ e.holdsClaim THEN "settled"
                                      ELSE row[r]]
           /\ ingestTimer' = IF continuation = {} THEN ingestTimer ELSE Wake(ingestTimer, "later")
    BY <1>8 DEF FinishIngest
  <2>2. continuation = {}
    BY <2>1 DEF Wake
  <2>3. row'[s] = row[s]
    BY <2>1, <2>2
  <2> QED
    BY <1>1, <1>8, <2>1, <2>2, <2>3 DEF FinishIngest
<1>9. ASSUME NEW e \in executors, EndIngest(e) PROVE active' # {}
  BY <1>9 DEF EndIngest, Wake
<1>10. CASE QueueRebuild \/ ProjectionBecomesDue \/ RealtimeIngest
  BY <1>1, <1>10 DEF QueueRebuild, ProjectionBecomesDue, RealtimeIngest
<1>11. CASE DrainProjection \/ DrainProjectionBusy \/ FinishProjection
  BY <1>1, <1>11 DEF DrainProjection, DrainProjectionBusy, FinishProjection
<1>12. CASE EndProjection \/ CheckShutdown
  BY <1>1, <1>12 DEF EndProjection, CheckShutdown, MaybeStop
<1>13. CASE BootstrapFails \/ BeginLogin \/ LoginExpires \/ PauseEnds
  BY <1>1, <1>13 DEF BootstrapFails, BeginLogin, LoginExpires, PauseEnds
<1>14. CASE EndLogin
  BY <1>14 DEF EndLogin, Wake
<1>15. CASE RequestUpdateShutdown \/ GraceEnds \/ UNCHANGED vars
  BY <1>1, <1>15 DEF RequestUpdateShutdown, GraceEnds, vars
<1> QED
  BY <1>3, <1>4, <1>5, <1>6, <1>7, <1>8, <1>9, <1>10, <1>11, <1>12, <1>13, <1>14, <1>15
     DEF Next

LEMMA JobsAttendedStep ==
    TypeOK /\ JobsAttended /\ [Next]_vars => JobsAttended'
<1> SUFFICES ASSUME TypeOK, JobsAttended, [Next]_vars, stopping' = "no",
                    projectionTimer' = "none", projector' = Idle
             PROVE  /\ ~projectLater' /\ ~In("project", projectionLine')
                    /\ In("rebuild", projectionLine') => active' # {}
  BY DEF JobsAttended
<1> USE DEF runVars, projVars, timers, modeVars, stopVars, counters
<1> DEFINE Goal == /\ ~projectLater' /\ ~In("project", projectionLine')
                   /\ In("rebuild", projectionLine') => active' # {}
<1>1. CASE /\ stopping = "no" /\ (active # {} => active' # {})
           /\ UNCHANGED <<projectionTimer, projector, projectLater, projectionLine>>
  BY <1>1 DEF JobsAttended
<1>2. ASSUME NEW backlog, NEW delay \in {"later", "now"}, QueueProjection(backlog, delay)
      PROVE  UNCHANGED <<projectionTimer, projectLater, projectionLine>>
  BY <1>2 DEF QueueProjection, Wake
<1>3. CASE QueueRebuild
  BY <1>3 DEF QueueRebuild, Wake
<1>4. CASE ProjectionBecomesDue
  BY <1>4 DEF ProjectionBecomesDue, JobsAttended
<1>5. CASE RealtimeIngest
  BY <1>1, <1>2, <1>5 DEF RealtimeIngest
<1>6. CASE DrainIngest
  <2>1. projectionTimer' = projectionTimer \/ projectionTimer' = "now"
    BY <1>6 DEF DrainIngest, Wake
  <2>2. active # {} => active' # {}
    BY <1>6 DEF DrainIngest
  <2> QED
    BY <1>1, <1>6, <2>1, <2>2 DEF DrainIngest
<1>7. ASSUME NEW e \in executors, FinishIngest(e) PROVE Goal
  <2>1. UNCHANGED <<projectionTimer, projectLater, projectionLine>>
    BY <1>2, <1>7 DEF FinishIngest
  <2> QED
    BY <1>1, <1>7, <2>1 DEF FinishIngest
<1>8. ASSUME NEW e \in executors, EndIngest(e) PROVE Goal
  BY <1>8 DEF EndIngest, WakesProjection, Wake
<1>9. CASE DrainProjection
  <2>1. CASE projector # Idle
    BY <1>9, <2>1 DEF DrainProjection
  <2>2. CASE projector = Idle
    <3>1. ASSUME NEW i \in 1..Len(projectionLine),
                 projector' = [job |-> projectionLine[i], phase |-> "working"]
          PROVE  FALSE
      BY <3>1 DEF Idle
    <3>2. /\ \A i \in 1..Len(projectionLine) : projectionLine[i] \notin ClaimableJobs
          /\ ~projectLater /\ UNCHANGED <<projectionLine, projectLater, active>>
      BY <1>9, <2>2, <3>1 DEF DrainProjection
    <3>3. "project" \in ClaimableJobs /\ (active = {} => "rebuild" \in ClaimableJobs)
      BY DEF ClaimableJobs, Jobs
    <3> QED
      BY <3>2, <3>3 DEF In
  <2> QED
    BY <2>1, <2>2
<1>10. CASE DrainProjectionBusy
  BY <1>10 DEF DrainProjectionBusy
<1>11. CASE FinishProjection
  BY <1>11 DEF FinishProjection, TypeOK, Idle
<1>12. CASE EndProjection
  BY <1>12 DEF EndProjection, WakesProjection, Wake
<1>13. CASE BootstrapReady
  BY <1>1, <1>2, <1>13 DEF BootstrapReady
<1>14. CASE BeginLogin
  BY <1>1, <1>14 DEF BeginLogin, Wake
<1>15. CASE EndLogin
  BY <1>15 DEF EndLogin, Wake
<1>16. CASE BootstrapFails \/ LoginExpires \/ PauseEnds
  BY <1>1, <1>16 DEF BootstrapFails, LoginExpires, PauseEnds
<1>17. CASE CheckShutdown
  BY <1>1, <1>17 DEF CheckShutdown, MaybeStop
<1>18. CASE RequestUpdateShutdown \/ GraceEnds \/ UNCHANGED vars
  BY <1>1, <1>18 DEF RequestUpdateShutdown, GraceEnds, vars
<1>19. ASSUME NEW S \in SUBSET RowsThatAre({"free"}), QueueSyncs(S) PROVE Goal
  BY <1>1, <1>19 DEF QueueSyncs
<1>20. ASSUME NEW s \in Syncs, SyncBecomesDue(s) \/ Overrun(s) PROVE Goal
  BY <1>1, <1>20 DEF SyncBecomesDue, Overrun
<1> QED
  BY <1>3, <1>4, <1>5, <1>6, <1>7, <1>8, <1>9, <1>10, <1>11, <1>12, <1>13, <1>14, <1>15,
     <1>16, <1>17, <1>18, <1>19, <1>20 DEF Next

(* No wake-up is lost. *)
THEOREM WorkAttended == Spec => []WorkIsAttended
<1>1. Init => SyncsAttended /\ JobsAttended
  BY DEF Init, SyncsAttended, JobsAttended
<1>2. SyncsAttended /\ JobsAttended => WorkIsAttended
  BY DEF SyncsAttended, JobsAttended, WorkIsAttended, RowsThatAre
<1> QED
  BY <1>1, <1>2, InvAlways, SyncsAttendedStep, JobsAttendedStep, PTL DEF Spec
=============================================================================
