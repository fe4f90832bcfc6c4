---------------------- MODULE SearchIndexAccountsProofs ----------------------
(***************************************************************************)
(* Proofs about SearchIndex, for any messages, workers and batch size, and *)
(* any number of transactions, failures and restarts; and about Accounts,  *)
(* for any number of requests, sessions, changes and stops and every       *)
(* platform.  The two modules share nothing.                               *)
(***************************************************************************)
EXTENDS SearchIndex, Accounts, SequenceTheorems, TLAPS

(* Only a process between its two transactions has something to enqueue. *)
DirtyIsCommitted ==
    \A p \in Procs : projector[p].pc # "committed" => projector[p].dirty = {}

(* No drain but the one that claimed an entry settles it. *)
BatchIsClaimed ==
    drain.pc \in {"claimed", "replaced"} =>
        \A m \in drain.batch : entry[m] \in {"none", "queued", "indexing"}

(* Of a batch that has been replaced, what nobody has queued again is      *)
(* either indexed as it is or about to be queued again.                    *)
ReplacedIsRight ==
    drain.pc = "replaced" =>
        \A m \in drain.batch \ forgotten :
            entry[m] = "indexing" =>
                indexed[m] = version[m] \/ \E p \in Procs : m \in projector[p].dirty

Inv == DirtyIsCommitted /\ BatchIsClaimed /\ ReplacedIsRight /\ IndexIsRight

-----------------------------------------------------------------------------
(* The faults stay within their bound. *)
LEMMA FaultCounts == TypeOK /\ Fault => faults' \in 0..MaxFaults
  BY SearchIndexAssumption DEF TypeOK, Fault

(* The variables keep their types. *)
THEOREM IndexTypeCorrect == Spec => []TypeOK
<1>1. Init => TypeOK
  <2> SUFFICES ASSUME Init PROVE TypeOK
    OBVIOUS
  <2>1. Resting \in Projector /\ NoDrain \in Drain
    BY DEF Projector, Resting, Drain, NoDrain
  <2>2. 0 \in Versions /\ 0 \in 0..MaxFaults
    BY SearchIndexAssumption DEF Versions
  <2>3. projector \in [Procs -> Projector]
    BY <2>1 DEF Init
  <2>4. entry \in [Messages -> Statuses]
    BY DEF Init, Statuses
  <2> QED
    BY <2>1, <2>2, <2>3, <2>4 DEF Init, TypeOK
<1>2. TypeOK /\ [Next]_vars => TypeOK'
  <2> SUFFICES ASSUME TypeOK, [Next]_vars PROVE TypeOK'
    OBVIOUS
  <2> USE DEF TypeOK, tables, daemons
  <2>1. ASSUME NEW b \in BOOLEAN, BeginInline(b) PROVE TypeOK'
    BY <2>1 DEF BeginInline, Projector, Resting, Procs
  <2>2. ASSUME NEW b \in BOOLEAN, Blocks(b) PROVE TypeOK'
    BY <2>2 DEF Blocks
  <2>3. ASSUME NEW w \in Workers, NEW b \in BOOLEAN, StartWorker(w, b) PROVE TypeOK'
    BY <2>3 DEF StartWorker, Projector, Resting, Procs
  <2>4. ASSUME NEW p \in Procs, NEW S \in SUBSET Messages, NEW D \in SUBSET Messages,
               Commit(p, S, D)
        PROVE  TypeOK'
    <3>1. latest' \in Versions
      BY <2>4, SearchIndexAssumption DEF Commit, Versions
    <3>2. 0 \in Versions
      BY SearchIndexAssumption DEF Versions
    <3>5. version' \in [Messages -> Versions]
      <4>1. ASSUME NEW m \in Messages PROVE version'[m] \in Versions
        BY <2>4, <3>1, <3>2 DEF Commit
      <4>2. version' = [m \in Messages |-> version'[m]]
        BY <2>4 DEF Commit
      <4> QED
        BY <4>1, <4>2
    <3>6. indexed' \in [Messages -> Versions]
      <4>1. ASSUME NEW m \in Messages PROVE indexed'[m] \in Versions
        BY <2>4, <3>2 DEF Commit
      <4>2. indexed' = [m \in Messages |-> indexed'[m]]
        BY <2>4 DEF Commit
      <4> QED
        BY <4>1, <4>2
    <3>3. entry' \in [Messages -> Statuses]
      BY <2>4 DEF Commit, Statuses
    <3>4. projector' \in [Procs -> Projector]
      <4>1. projector[p] \in Projector
        OBVIOUS
      <4>2. [projector[p] EXCEPT !.pc = "committed", !.dirty = S, !.clear = FALSE] \in Projector
        BY <4>1 DEF Projector
      <4>3. projector' = [projector EXCEPT ![p] =
                [projector[p] EXCEPT !.pc = "committed", !.dirty = S, !.clear = FALSE]]
        BY <2>4 DEF Commit
      <4> QED
        BY <4>2, <4>3
    <3> QED
      BY <2>4, <3>1, <3>3, <3>4, <3>5, <3>6 DEF Commit
  <2>5. ASSUME NEW p \in Procs, EnqueueMessageFtsIndex(p) PROVE TypeOK'
    <3>1. entry' \in [Messages -> Statuses]
      BY <2>5 DEF EnqueueMessageFtsIndex, Statuses
    <3>2. projector' \in [Procs -> Projector]
      <4> DEFINE r == [projector[p] EXCEPT !.pc = "working", !.dirty = {}]
      <4>1. projector[p] \in Projector
        OBVIOUS
      <4>2. r \in Projector
        BY <4>1 DEF Projector
      <4>3. \A q \in Procs : projector'[q] \in {r, projector[q]}
        BY <2>5 DEF EnqueueMessageFtsIndex
      <4>4. projector' = [q \in Procs |-> projector'[q]]
        BY <2>5 DEF EnqueueMessageFtsIndex
      <4> HIDE DEF r
      <4> QED
        BY <4>2, <4>3, <4>4
    <3>3. unwoken' \in BOOLEAN
      BY <2>5 DEF EnqueueMessageFtsIndex
    <3> QED
      BY <2>5, <3>1, <3>2, <3>3 DEF EnqueueMessageFtsIndex
  <2>6. ASSUME NEW p \in Procs, EndProjection(p) PROVE TypeOK'
    BY <2>6 DEF EndProjection, Wake, Projector, Resting
  <2>7. ASSUME NEW p \in Procs, ProjectionFails(p) PROVE TypeOK'
    <3>1. forgotten' \subseteq Messages
      BY <2>7 DEF ProjectionFails, Projector
    <3> QED
      BY <2>7, <3>1, FaultCounts DEF ProjectionFails, Projector, Resting
  <2>8. CASE DrainWaits
    BY <2>8 DEF DrainWaits, ComesBackLater
  <2>9. CASE DrainIsBusy
    BY <2>9, FaultCounts DEF DrainIsBusy, ComesBackLater
  <2>10. CASE ClaimBatch
    <3> PICK batch \in SUBSET Messages :
           /\ entry' = [m \in Messages |->
                           IF m \in batch THEN "indexing" ELSE RequeueStale(entry[m])]
           /\ drain' = [pc |-> IF batch = {} THEN "ending" ELSE "claimed", batch |-> batch]
      BY <2>10 DEF ClaimBatch
    <3>1. entry' \in [Messages -> Statuses]
      BY DEF RequeueStale, Statuses
    <3> QED
      BY <2>10, <3>1 DEF ClaimBatch, Drain
  <2>11. CASE ReplaceBatch
    BY <2>11 DEF ReplaceBatch, Drain
  <2>12. CASE CompleteBatch
    <3>1. forgotten' \subseteq Messages
      BY <2>12 DEF CompleteBatch, QueuedIds
    <3> QED
      BY <2>12, <3>1 DEF CompleteBatch, Drain, Statuses
  <2>13. CASE BatchFails
    BY <2>13, FaultCounts DEF BatchFails, Drain
  <2>14. CASE FailMessageFtsIndex
    BY <2>14 DEF FailMessageFtsIndex, FailedEntry, Drain, Statuses
  <2>15. CASE DrainEnds
    BY <2>15 DEF DrainEnds, WakesForTheRest, Wake, NoDrain, Drain
  <2>16. CASE DrainThrows
    BY <2>16, FaultCounts DEF DrainThrows, Wake, NoDrain, Drain
  <2>17. ASSUME NEW m \in Messages, GrowsStale(m) PROVE TypeOK'
    BY <2>17 DEF GrowsStale, Statuses
  <2>18. CASE Restart
    <3>1. Daemon \in Procs /\ forgotten' \subseteq Messages
      BY <2>18 DEF Restart, Projector, Procs
    <3> QED
      BY <2>18, <3>1, FaultCounts DEF Restart, Projector, Resting, NoDrain, Drain
  <2>19. CASE UNCHANGED vars
    BY <2>19 DEF vars
  <2> QED
    BY <2>1, <2>2, <2>3, <2>4, <2>5, <2>6, <2>7, <2>8, <2>9, <2>10, <2>11, <2>12, <2>13,
       <2>14, <2>15, <2>16, <2>17, <2>18, <2>19 DEF Next
<1> QED
  BY <1>1, <1>2, PTL DEF Spec

-----------------------------------------------------------------------------
(* IndexIsRight: the index reflects every message that is not in the queue *)
(* or on its way there, but for the two named losses.                      *)
LEMMA InvStep == TypeOK /\ Inv /\ [Next]_vars => Inv'
<1> SUFFICES ASSUME TypeOK, Inv, [Next]_vars PROVE Inv'
  OBVIOUS
<1>0. \A p \in Procs : /\ projector[p] \in Projector
                       /\ projector[p].pc # "committed" => projector[p].dirty = {}
  BY DEF TypeOK, Inv, DirtyIsCommitted
<1> USE DEF Inv, TypeOK, tables, daemons, Pending
<1>1. ASSUME NEW b \in BOOLEAN, BeginInline(b) PROVE Inv'
  <2>1. Daemon \in Procs /\ projector[Daemon].dirty = {}
    BY <1>0, <1>1 DEF BeginInline, DaemonFree, Procs
  <2>2. \A p \in Procs : projector'[p].dirty = projector[p].dirty
    BY <1>1, <2>1 DEF BeginInline, Resting, Projector
  <2>3. DirtyIsCommitted'
    BY <1>0, <1>1, <2>1, <2>2 DEF BeginInline, DirtyIsCommitted, Resting
  <2> QED
    BY <1>1, <2>2, <2>3 DEF BeginInline, BatchIsClaimed, ReplacedIsRight, IndexIsRight
<1>2. ASSUME NEW b \in BOOLEAN, Blocks(b) PROVE Inv'
  BY <1>2 DEF Blocks, DirtyIsCommitted, BatchIsClaimed, ReplacedIsRight, IndexIsRight
<1>3. ASSUME NEW w \in Workers, NEW b \in BOOLEAN, StartWorker(w, b) PROVE Inv'
  <2>1. w \in Procs /\ projector[w].dirty = {}
    BY <1>0, <1>3 DEF StartWorker, Procs
  <2>2. \A p \in Procs : projector'[p].dirty = projector[p].dirty
    BY <1>3, <2>1 DEF StartWorker, Resting, Projector
  <2>3. DirtyIsCommitted'
    BY <1>0, <1>3, <2>1, <2>2 DEF StartWorker, DirtyIsCommitted, Resting
  <2> QED
    BY <1>3, <2>2, <2>3 DEF StartWorker, BatchIsClaimed, ReplacedIsRight, IndexIsRight
<1>4. ASSUME NEW p \in Procs, NEW S \in SUBSET Messages, NEW D \in SUBSET Messages,
             Commit(p, S, D)
      PROVE  Inv'
  <2> DEFINE gone == IF projector[p].clear THEN Messages ELSE D
  <2>1. /\ version' = [m \in Messages |->
              IF m \in S THEN latest' ELSE IF m \in gone THEN 0 ELSE version[m]]
        /\ indexed' = [m \in Messages |-> IF m \in gone THEN 0 ELSE indexed[m]]
        /\ entry' = [m \in Messages |-> IF m \in gone THEN "none" ELSE entry[m]]
        /\ forgotten' = forgotten \ gone
        /\ drain' = drain
    BY <1>4 DEF Commit
  <2>2. \A q \in Procs :
           projector'[q].dirty = IF q = p THEN S ELSE projector[q].dirty
    BY <1>4 DEF Commit, Projector
  <2>3. projector[p].dirty = {}
    BY <1>0, <1>4 DEF Commit
  <2>4. \A m \in Messages :
           \/ \E q \in Procs : m \in projector'[q].dirty
           \/ /\ m \notin S
              /\ \A q \in Procs : m \notin projector[q].dirty
    BY <2>2, <2>3
  <2>5. DirtyIsCommitted'
    BY <1>4, <1>0 DEF Commit, DirtyIsCommitted, Projector
  <2>6. BatchIsClaimed'
    BY <2>1 DEF BatchIsClaimed, Drain
  <2>7. ReplacedIsRight'
    <3> SUFFICES ASSUME drain'.pc = "replaced", NEW m \in drain'.batch, m \notin forgotten',
                        entry'[m] = "indexing",
                        \A q \in Procs : m \notin projector'[q].dirty
                 PROVE  indexed'[m] = version'[m]
      BY DEF ReplacedIsRight
    <3>1. m \in Messages /\ m \in drain.batch /\ drain.pc = "replaced"
      BY <2>1 DEF Drain
    <3>2. m \notin gone /\ m \notin forgotten /\ entry[m] = "indexing"
      BY <2>1, <3>1
    <3>3. m \notin S /\ \A q \in Procs : m \notin projector[q].dirty
      BY <2>4, <3>1
    <3> QED
      BY <2>1, <3>1, <3>2, <3>3 DEF ReplacedIsRight
  <2>8. IndexIsRight'
    <3> SUFFICES ASSUME NEW m \in Messages, m \notin forgotten', entry'[m] = "none",
                        \A q \in Procs : m \notin projector'[q].dirty
                 PROVE  indexed'[m] = version'[m]
      BY DEF IndexIsRight
    <3>1. m \notin S /\ \A q \in Procs : m \notin projector[q].dirty
      BY <2>4
    <3>2. CASE m \in gone
      BY <2>1, <3>1, <3>2
    <3>3. CASE m \notin gone
      BY <2>1, <3>1, <3>3 DEF IndexIsRight
    <3> QED
      BY <3>2, <3>3
  <2> QED
    BY <2>5, <2>6, <2>7, <2>8
<1>5. ASSUME NEW p \in Procs, EnqueueMessageFtsIndex(p) PROVE Inv'
  <2>1. /\ entry' = [m \in Messages |->
                        IF m \in projector[p].dirty THEN "queued" ELSE entry[m]]
        /\ forgotten' = forgotten \ projector[p].dirty
        /\ version' = version /\ indexed' = indexed /\ drain' = drain
    BY <1>5 DEF EnqueueMessageFtsIndex
  <2>2. \A q \in Procs :
           projector'[q].dirty = IF q = p THEN {} ELSE projector[q].dirty
    BY <1>5 DEF EnqueueMessageFtsIndex, Projector
  <2>3. DirtyIsCommitted'
    BY <1>0, <1>5 DEF EnqueueMessageFtsIndex, DirtyIsCommitted, Projector
  <2>4. BatchIsClaimed'
    BY <2>1 DEF BatchIsClaimed, Drain
  <2>5. ReplacedIsRight'
    BY <2>1, <2>2 DEF ReplacedIsRight, Drain
  <2>6. IndexIsRight'
    BY <2>1, <2>2 DEF IndexIsRight
  <2> QED
    BY <2>3, <2>4, <2>5, <2>6
<1>6. ASSUME NEW p \in Procs, EndProjection(p) PROVE Inv'
  <2>1. projector[p].dirty = {}
    BY <1>0, <1>6 DEF EndProjection
  <2>2. \A q \in Procs : projector'[q].dirty = projector[q].dirty
    BY <1>6, <2>1 DEF EndProjection, Resting, Projector
  <2>3. DirtyIsCommitted'
    BY <1>0, <1>6, <2>1, <2>2 DEF EndProjection, DirtyIsCommitted, Resting
  <2> QED
    BY <1>6, <2>2, <2>3 DEF EndProjection, BatchIsClaimed, ReplacedIsRight, IndexIsRight
<1>7. ASSUME NEW p \in Procs, ProjectionFails(p) PROVE Inv'
  <2>1. /\ entry' = entry /\ version' = version /\ indexed' = indexed /\ drain' = drain
        /\ forgotten' = forgotten \cup projector[p].dirty
    BY <1>7 DEF ProjectionFails
  <2>2. \A q \in Procs :
           projector'[q].dirty = IF q = p THEN {} ELSE projector[q].dirty
    BY <1>7 DEF ProjectionFails, Resting, Projector
  <2>3. DirtyIsCommitted'
    BY <1>0, <1>7 DEF ProjectionFails, DirtyIsCommitted, Resting
  <2> QED
    BY <2>1, <2>2, <2>3 DEF BatchIsClaimed, ReplacedIsRight, IndexIsRight, Drain
<1>8. CASE DrainWaits \/ DrainIsBusy
  BY <1>8 DEF DrainWaits, DrainIsBusy, ComesBackLater, DirtyIsCommitted, BatchIsClaimed,
       ReplacedIsRight, IndexIsRight
<1>10. CASE ClaimBatch
  <2> PICK batch \in SUBSET Messages :
         /\ \A m \in batch : RequeueStale(entry[m]) = "queued"
         /\ entry' = [m \in Messages |->
                         IF m \in batch THEN "indexing" ELSE RequeueStale(entry[m])]
         /\ drain' = [pc |-> IF batch = {} THEN "ending" ELSE "claimed", batch |-> batch]
    BY <1>10 DEF ClaimBatch
  <2>1. \A m \in Messages : entry'[m] = "none" => entry[m] = "none"
    BY DEF RequeueStale
  <2>2. \A m \in batch : entry'[m] = "indexing"
    OBVIOUS
  <2> QED
    BY <1>10, <2>1, <2>2 DEF ClaimBatch, DirtyIsCommitted, BatchIsClaimed, ReplacedIsRight,
         IndexIsRight
<1>11. CASE ReplaceBatch
  BY <1>11 DEF ReplaceBatch, DirtyIsCommitted, BatchIsClaimed, ReplacedIsRight,
       IndexIsRight, Drain
<1>12. CASE CompleteBatch
  <2>1. /\ drain.pc = "replaced"
        /\ entry' = [m \in Messages |-> IF m \in drain.batch THEN "none" ELSE entry[m]]
        /\ forgotten' = forgotten \cup (drain.batch \cap QueuedIds)
        /\ drain'.pc = "ending"
        /\ version' = version /\ indexed' = indexed /\ projector' = projector
    BY <1>12 DEF CompleteBatch, Drain
  <2>2. IndexIsRight'
    <3> SUFFICES ASSUME NEW m \in Messages, m \notin forgotten', entry'[m] = "none",
                        \A p \in Procs : m \notin projector[p].dirty
                 PROVE  indexed[m] = version[m]
      BY <2>1 DEF IndexIsRight
    <3>1. CASE m \in drain.batch
      <4>1. entry[m] \in {"none", "indexing"} /\ m \notin forgotten
        BY <2>1, <3>1 DEF BatchIsClaimed, QueuedIds
      <4> QED
        BY <2>1, <3>1, <4>1 DEF IndexIsRight, ReplacedIsRight
    <3>2. CASE m \notin drain.batch
      BY <2>1, <3>2 DEF IndexIsRight
    <3> QED
      BY <3>1, <3>2
  <2> QED
    BY <2>1, <2>2 DEF DirtyIsCommitted, BatchIsClaimed, ReplacedIsRight
<1>13. CASE BatchFails
  BY <1>13 DEF BatchFails, DirtyIsCommitted, BatchIsClaimed, ReplacedIsRight,
       IndexIsRight, Drain
<1>14. CASE FailMessageFtsIndex
  BY <1>14 DEF FailMessageFtsIndex, FailedEntry, DirtyIsCommitted, BatchIsClaimed,
       ReplacedIsRight, IndexIsRight, Drain
<1>15. CASE DrainEnds \/ DrainThrows
  BY <1>15 DEF DrainEnds, DrainThrows, NoDrain, DirtyIsCommitted, BatchIsClaimed,
       ReplacedIsRight, IndexIsRight
<1>16. ASSUME NEW m \in Messages, GrowsStale(m) PROVE Inv'
  <2>1. /\ m \notin drain.batch /\ entry[m] = "indexing"
        /\ entry' = [entry EXCEPT ![m] = "stale"]
        /\ UNCHANGED <<version, indexed, projector, drain, forgotten>>
    BY <1>16 DEF GrowsStale
  <2> QED
    BY <2>1 DEF DirtyIsCommitted, BatchIsClaimed, ReplacedIsRight, IndexIsRight, Drain
<1>17. CASE Restart
  <2>1. /\ UNCHANGED <<entry, version, indexed>> /\ drain' = NoDrain
        /\ forgotten' = forgotten \cup projector[Daemon].dirty
    BY <1>17 DEF Restart
  <2>2. \A q \in Procs :
           projector'[q].dirty = IF q = Daemon THEN {} ELSE projector[q].dirty
    BY <1>17 DEF Restart, Resting, Projector
  <2>3. DirtyIsCommitted'
    BY <1>0, <1>17 DEF Restart, DirtyIsCommitted, Resting
  <2> QED
    BY <2>1, <2>2, <2>3 DEF BatchIsClaimed, ReplacedIsRight, IndexIsRight, NoDrain
<1>18. CASE UNCHANGED vars
  BY <1>18 DEF vars, DirtyIsCommitted, BatchIsClaimed, ReplacedIsRight, IndexIsRight
<1> QED
  BY <1>1, <1>2, <1>3, <1>4, <1>5, <1>6, <1>7, <1>8, <1>10, <1>11, <1>12, <1>13, <1>14,
     <1>15, <1>16, <1>17, <1>18 DEF Next

(* The index is right whoever commits between the drain's transactions:    *)
(* only the two named losses leave a message out of it.                    *)
THEOREM IndexCorrect == Spec => []IndexIsRight
<1>1. Init => Inv
  BY DEF Init, Inv, DirtyIsCommitted, BatchIsClaimed, ReplacedIsRight, IndexIsRight,
         Resting, NoDrain
<1>2. Inv => IndexIsRight
  BY DEF Inv
<1> QED
  BY <1>1, <1>2, InvStep, IndexTypeCorrect, PTL DEF Spec

-----------------------------------------------------------------------------
(* QueuedIsAttended: queued ids have a drain or a projection to look to.   *)
THEOREM QueueAttended == Spec => []QueuedIsAttended
<1>1. Init => QueuedIsAttended
  BY DEF Init, QueuedIsAttended
<1>2. TypeOK /\ QueuedIsAttended /\ [Next]_vars => QueuedIsAttended'
  <2> SUFFICES ASSUME TypeOK, QueuedIsAttended, [Next]_vars PROVE QueuedIsAttended'
    OBVIOUS
  <2> USE DEF TypeOK, QueuedIsAttended, QueuedIds, tables, daemons
  <2>1. ASSUME NEW b \in BOOLEAN, BeginInline(b) PROVE QueuedIsAttended'
    BY <2>1 DEF BeginInline, Resting, Procs
  <2>2. ASSUME NEW b \in BOOLEAN, Blocks(b) PROVE QueuedIsAttended'
    BY <2>2 DEF Blocks
  <2>3. ASSUME NEW w \in Workers, NEW b \in BOOLEAN, StartWorker(w, b)
        PROVE  QueuedIsAttended'
    BY <2>3, SearchIndexAssumption DEF StartWorker
  <2>4. ASSUME NEW p \in Procs, NEW S \in SUBSET Messages, NEW D \in SUBSET Messages,
               Commit(p, S, D)
        PROVE  QueuedIsAttended'
    <3>1. \A m \in Messages : entry'[m] = "queued" => entry[m] = "queued"
      BY <2>4 DEF Commit
    <3>2. projector'[Daemon].pc = "idle" => projector[Daemon].pc = "idle"
      BY <2>4 DEF Commit, Procs
    <3> QED
      BY <2>4, <3>1, <3>2 DEF Commit
  <2>5. ASSUME NEW p \in Procs, EnqueueMessageFtsIndex(p) PROVE QueuedIsAttended'
    <3>1. CASE p = Daemon
      BY <2>5, <3>1 DEF EnqueueMessageFtsIndex, Projector
    <3>2. CASE p \in Workers
      BY <2>5, <3>2, SearchIndexAssumption DEF EnqueueMessageFtsIndex
    <3> QED
      BY <3>1, <3>2 DEF Procs
  <2>6. ASSUME NEW p \in Procs, EndProjection(p) PROVE QueuedIsAttended'
    BY <2>6 DEF EndProjection, Wake
  <2>7. ASSUME NEW p \in Procs, ProjectionFails(p) PROVE QueuedIsAttended'
    BY <2>7 DEF ProjectionFails
  <2>8. CASE DrainWaits \/ DrainIsBusy
    BY <2>8 DEF DrainWaits, DrainIsBusy, ComesBackLater
  <2>9. CASE ClaimBatch
    <3>1. drain'.pc # "idle"
      BY <2>9 DEF ClaimBatch
    <3> QED
      BY <3>1
  <2>10. CASE ReplaceBatch \/ CompleteBatch \/ FailMessageFtsIndex
    <3>1. drain'.pc # "idle"
      BY <2>10 DEF ReplaceBatch, CompleteBatch, FailMessageFtsIndex, Drain
    <3> QED
      BY <3>1
  <2>11. CASE BatchFails
    BY <2>11 DEF BatchFails, Drain
  <2>12. CASE DrainEnds
    BY <2>12 DEF DrainEnds, WakesForTheRest, Wake
  <2>13. CASE DrainThrows
    BY <2>13 DEF DrainThrows, Wake
  <2>14. ASSUME NEW m \in Messages, GrowsStale(m) PROVE QueuedIsAttended'
    BY <2>14 DEF GrowsStale
  <2>15. CASE Restart
    BY <2>15 DEF Restart
  <2>16. CASE UNCHANGED vars
    BY <2>16 DEF vars
  <2> QED
    BY <2>1, <2>2, <2>3, <2>4, <2>5, <2>6, <2>7, <2>8, <2>9, <2>10, <2>11, <2>12, <2>13,
       <2>14, <2>15, <2>16 DEF Next
<1> QED
  BY <1>1, <1>2, IndexTypeCorrect, PTL DEF Spec

-----------------------------------------------------------------------------
(***************************************************************************)
(* Accounts.                                                               *)
(***************************************************************************)

(* What the database says of an account: a row that was invalidated is not  *)
(* authenticated, and the rows of a linked platform are never invalidated.  *)
RowSound(k, e) ==
    /\ platform # "gmail" => k = "default"
    /\ e.authInvalidated => e.auth # "authenticated" /\ platform \notin Linked

(* A session has a name its platform uses; one that succeeded has a row,    *)
(* and for Gmail the name of the account that logged in.                    *)
SessionSound(row, s) ==
    /\ platform # "gmail" => s.key = "default"
    /\ s.state = "authenticated" => row[s.key] # None /\ (platform = "gmail" => s.key = "real")

Database == [row : [Keys -> {None} \cup IntegrationState], session : Seq(AuthSession),
             stored : [Keys -> Nat], queued : [Keys -> BOOLEAN]]

DbSound(d) ==
    /\ d \in Database
    /\ \A k \in Keys : d.row[k] # None => RowSound(k, d.row[k])
    /\ \A i \in DOMAIN d.session : SessionSound(d.row, d.session[i])

(* A request that validates a stored secret found the row of the account;   *)
(* a later one has its session.                                             *)
Call == [at : {"idle", "validating", "announcing", "logging in"}, session : Nat,
         valid : BOOLEAN, local : BOOLEAN]

CallSound(d, c) ==
    /\ c \in Call
    /\ c.at \in {"idle", "validating"} <=> c.session = 0
    /\ c.session # 0 => c.session \in DOMAIN d.session
    /\ c.at = "validating" => platform = "linkedin" /\ d.row["default"] # None

Probe == [seen : {None} \cup Open \cup {"authenticated", "failed", "cancelled", "needs_auth"},
          linked : {None} \cup BOOLEAN]

AccountsInv ==
    /\ platform \in Platforms
    /\ DbSound(db) /\ Len(db.session) <= MaxSessions
    /\ accepted \in [Keys -> BOOLEAN]
    /\ login \in [1..MaxSessions -> {"none", "running", "orphan", "telling"} \cup Results]
    /\ tracked \subseteq DOMAIN db.session
    /\ DOMAIN call = Calls /\ \A c \in Calls : CallSound(db, call[c])
    /\ running \in [Keys -> {None} \cup BOOLEAN]
    /\ platform \in Linked => \A k \in Keys : running[k] = None
    /\ probe # None => probe \in Probe /\ platform \in Linked

(* Sessions are added but never taken away. *)
Grows(d, e) ==
    /\ DbSound(e) /\ Len(d.session) <= Len(e.session) /\ Len(e.session) <= MaxSessions
    /\ platform # "gmail" => \A k \in Keys : d.row[k] # None => e.row[k] # None


(* No account is lost and none that was invalidated is forgiven. *)
Keeps(d, e) ==
    \A k \in Keys : d.row[k] # None =>
        e.row[k] # None /\ (d.row[k].authInvalidated => e.row[k].authInvalidated)

-----------------------------------------------------------------------------
(* Rows and sessions. *)

LEMMA KeepsKeeps ==
    ASSUME NEW d, NEW e, NEW f, Keeps(d, e), Keeps(e, f)
    PROVE  Keeps(d, f)
  BY DEF Keeps

(* A row is not None. *)
LEMMA RowsExist == \A e \in IntegrationState : e # None
  BY AccountsAssumption

LEMMA SameSessions ==
    ASSUME NEW s \in Seq(AuthSession), NEW t \in [DOMAIN s -> AuthSession]
    PROVE  t \in Seq(AuthSession) /\ DOMAIN t = DOMAIN s /\ Len(t) = Len(s)
<1>1. Len(s) \in Nat /\ DOMAIN s = 1..Len(s)
  BY LenProperties
<1>2. t \in Seq(AuthSession)
  BY <1>1, SeqDef
<1>3. QED
  BY <1>1, <1>2, LenProperties

(* What a change of the database has to keep. *)
LEMMA DbNext ==
    ASSUME NEW d, DbSound(d), NEW e \in Database,
           \A k \in Keys : d.row[k] # None => e.row[k] # None,
           \A k \in Keys : e.row[k] # None => RowSound(k, e.row[k]),
           \A i \in DOMAIN e.session :
               \/ i \in DOMAIN d.session /\ e.session[i] = d.session[i]
               \/ SessionSound(e.row, e.session[i])
    PROVE  DbSound(e)
<1>1. ASSUME NEW i \in DOMAIN e.session, i \in DOMAIN d.session, e.session[i] = d.session[i]
      PROVE  SessionSound(e.row, e.session[i])
  <2>1. d.session[i].key \in Keys
    <3>1. d.session \in Seq(AuthSession)
      BY DEF DbSound, Database
    <3>2. d.session[i] \in AuthSession
      BY <1>1, <3>1, LenProperties, ElementOfSeq
    <3>3. QED
      BY <3>2 DEF AuthSession
  <2>2. SessionSound(d.row, d.session[i])
    BY <1>1 DEF DbSound
  <2>3. QED
    BY <1>1, <2>1, <2>2 DEF SessionSound
<1>2. QED
  BY <1>1 DEF DbSound

LEMMA SessionsTyped ==
    ASSUME NEW d \in Database
    PROVE  /\ d.session \in Seq(AuthSession) /\ Len(d.session) \in Nat
           /\ DOMAIN d.session = 1..Len(d.session)
           /\ \A i \in DOMAIN d.session : d.session[i] \in AuthSession
<1>1. d.session \in Seq(AuthSession)
  BY DEF Database
<1>2. Len(d.session) \in Nat /\ DOMAIN d.session = 1..Len(d.session)
  BY <1>1, LenProperties
<1>3. QED
  BY <1>1, <1>2, ElementOfSeq

LEMMA DbParts ==
    ASSUME NEW d, DbSound(d)
    PROVE  /\ d.row \in [Keys -> {None} \cup IntegrationState]
           /\ d.session \in Seq(AuthSession) /\ Len(d.session) \in Nat
           /\ DOMAIN d.session = 1..Len(d.session)
           /\ \A i \in DOMAIN d.session :
                 d.session[i] \in AuthSession /\ SessionSound(d.row, d.session[i])
           /\ \A k \in Keys : d.row[k] # None => d.row[k] \in IntegrationState /\ RowSound(k, d.row[k])
<1>1. d \in Database
  BY DEF DbSound
<1>2. QED
  BY <1>1, SessionsTyped DEF DbSound, Database

(* A row is written; what else is stored is not looked at. *)
LEMMA RowWritten ==
    ASSUME NEW d, DbSound(d), NEW k \in Keys, NEW r \in IntegrationState, RowSound(k, r)
    PROVE  /\ DbSound(UpsertIntegrationState(d, k, r))
           /\ UpsertIntegrationState(d, k, r).session = d.session
           /\ UpsertIntegrationState(d, k, r).row = [d.row EXCEPT ![k] = r]
<1> DEFINE e == UpsertIntegrationState(d, k, r)
<1>1. e \in Database /\ e.session = d.session /\ e.row = [d.row EXCEPT ![k] = r]
  BY DEF UpsertIntegrationState, DbSound, Database
<1>2. d.row \in [Keys -> {None} \cup IntegrationState]
  BY DbParts
<1> HIDE DEF e
<1>3. \A j \in Keys : e.row[j] = IF j = k THEN r ELSE d.row[j]
  BY <1>1, <1>2
<1>4. /\ \A j \in Keys : d.row[j] # None => e.row[j] # None
      /\ \A j \in Keys : e.row[j] # None => RowSound(j, e.row[j])
  BY <1>3, RowsExist, DbParts
<1>5. \A i \in DOMAIN e.session : i \in DOMAIN d.session /\ e.session[i] = d.session[i]
  BY <1>1
<1>6. DbSound(e)
  BY <1>1, <1>4, <1>5, DbNext
<1>7. QED
  BY <1>1, <1>6 DEF e

(* A session is written, whatever that means for the rows. *)
Replaced(d, e, i, k, state) ==
    /\ e.session \in Seq(AuthSession) /\ Len(e.session) = Len(d.session)
    /\ DOMAIN e.session = DOMAIN d.session
    /\ e.session[i] \in AuthSession /\ e.session[i].key = k /\ e.session[i].state = state
    /\ \A j \in DOMAIN d.session \ {i} : e.session[j] = d.session[j]

LEMMA SessionReplaced ==
    ASSUME NEW d \in Database, NEW i \in DOMAIN d.session, NEW k \in Keys,
           NEW state \in Open \cup Results
    PROVE  LET e == UpdateAuthSession(d, i, k, state)
           IN  e \in Database /\ e.row = d.row /\ Replaced(d, e, i, k, state)
<1> DEFINE s == [d.session[i] EXCEPT !.key = k, !.state = state]
           t == [d.session EXCEPT ![i] = s]
           e == UpdateAuthSession(d, i, k, state)
<1>1. d.session[i] \in AuthSession
  BY SessionsTyped
<1>2. s \in AuthSession /\ s.key = k /\ s.state = state
  BY <1>1 DEF AuthSession
<1>3. e.session = t /\ e.row = d.row /\ (t \in Seq(AuthSession) => e \in Database)
  <2>1. e = [d EXCEPT !.session = t]
    BY DEF UpdateAuthSession
  <2> HIDE DEF t, e
  <2>2. QED
    BY <2>1 DEF Database
<1> HIDE DEF s, e
<1>4. /\ t \in Seq(AuthSession) /\ DOMAIN t = DOMAIN d.session /\ Len(t) = Len(d.session)
      /\ \A j \in DOMAIN t : t[j] = IF j = i THEN s ELSE d.session[j]
  <2>1. t \in [DOMAIN d.session -> AuthSession]
    BY <1>2, SessionsTyped
  <2>2. QED
    BY <2>1, SessionsTyped, SameSessions
<1> HIDE DEF t
<1>5. QED
  BY <1>2, <1>3, <1>4 DEF e, Replaced

LEMMA SessionWritten ==
    ASSUME NEW d, DbSound(d), NEW i \in DOMAIN d.session, NEW k \in Keys,
           NEW state \in Open \cup Results,
           platform # "gmail" => k = "default",
           state = "authenticated" => d.row[k] # None /\ (platform = "gmail" => k = "real")
    PROVE  LET e == UpdateAuthSession(d, i, k, state)
           IN  DbSound(e) /\ e.row = d.row /\ Replaced(d, e, i, k, state)
<1> DEFINE e == UpdateAuthSession(d, i, k, state)
<1>1. e \in Database /\ e.row = d.row /\ Replaced(d, e, i, k, state)
  BY SessionReplaced DEF DbSound
<1> HIDE DEF e
<1>2. SessionSound(e.row, e.session[i])
  BY <1>1 DEF SessionSound, Replaced
<1>3. \A j \in Keys : e.row[j] # None => RowSound(j, e.row[j])
  BY <1>1, DbParts
<1>4. \A j \in DOMAIN e.session :
         \/ j \in DOMAIN d.session /\ e.session[j] = d.session[j]
         \/ SessionSound(e.row, e.session[j])
  BY <1>1, <1>2 DEF Replaced
<1>5. DbSound(e)
  BY <1>1, <1>3, <1>4, DbNext
<1>6. QED
  BY <1>1, <1>5 DEF e

(* A session is added. *)
LEMMA SessionAdded ==
    ASSUME NEW d, DbSound(d), NEW k \in Keys, NEW at \in Nat,
           platform # "gmail" => k = "default"
    PROVE  LET e == WithSession(d, k, "requested", at) IN
           /\ DbSound(e) /\ e.row = d.row /\ Len(e.session) = Len(d.session) + 1
           /\ DOMAIN e.session = 1..Len(e.session)
           /\ e.session[Len(e.session)].key = k /\ e.session[Len(e.session)].state = "requested"
<1> DEFINE s == [key |-> k, state |-> "requested", at |-> at]
           t == Append(d.session, s)
           e == WithSession(d, k, "requested", at)
<1>1. s \in AuthSession /\ s.key = k /\ s.state = "requested"
  BY DEF AuthSession, Open
<1>2. e.session = t /\ e.row = d.row /\ (t \in Seq(AuthSession) => e \in Database)
  <2>1. e = [d EXCEPT !.session = t]
    BY DEF WithSession
  <2> HIDE DEF t, e
  <2>2. QED
    BY <2>1 DEF DbSound, Database
<1> HIDE DEF s, e
<1>3. d.session \in Seq(AuthSession) /\ Len(d.session) \in Nat /\ DOMAIN d.session = 1..Len(d.session)
  BY DbParts
<1>4. /\ t \in Seq(AuthSession) /\ Len(t) = Len(d.session) + 1
      /\ \A i \in 1..Len(d.session) : t[i] = d.session[i]
      /\ t[Len(d.session) + 1] = s
  BY <1>1, <1>3, AppendProperties
<1>5. DOMAIN t = 1..Len(t)
  BY <1>4, LenProperties
<1> HIDE DEF t
<1>6. SessionSound(e.row, s)
  BY <1>1 DEF SessionSound
<1>7. \A i \in DOMAIN t : (i \in DOMAIN d.session /\ t[i] = d.session[i]) \/ t[i] = s
  BY <1>3, <1>4, <1>5
<1>8. DbSound(e)
  BY <1>2, <1>4, <1>6, <1>7, DbNext DEF DbSound
<1>9. QED
  BY <1>1, <1>2, <1>4, <1>5, <1>8 DEF e

-----------------------------------------------------------------------------
(* The operations of the database. *)

LEMMA CancelledRow ==
    ASSUME NEW r \in IntegrationState, NEW k
    PROVE  LET c == [r EXCEPT !.auth = "cancelled", !.syncCapable = FALSE,
                              !.enabled = @ /\ ~IsPending(k), !.userRemoved = @ \/ IsPending(k)]
           IN  c \in IntegrationState /\ c.auth = "cancelled" /\ c.authInvalidated = r.authInvalidated
  BY DEF IntegrationState, IsPending

LEMMA CancelledSession ==
    ASSUME NEW s \in AuthSession
    PROVE  /\ [s EXCEPT !.state = "cancelled"] \in AuthSession
           /\ [s EXCEPT !.state = "cancelled"].key = s.key
           /\ [s EXCEPT !.state = "cancelled"].state = "cancelled"
  BY DEF AuthSession, Results

(* Sessions that are cancelled, and rows that follow. *)
LEMMA ReconcileSound ==
    ASSUME NEW d, DbSound(d), NEW expired
    PROVE  LET e == ReconcileAbandoned(d, expired)
           IN  DbSound(e) /\ Keeps(d, e) /\ Len(e.session) = Len(d.session)
<1> DEFINE gone == {i \in Sessions(d) : \/ d.session[i].state = "in_progress" /\ ~ProcessExists(i)
                                        \/ i \in expired}
           own(k) == \E i \in gone : d.session[i].key = k /\ IsLatest(d, i)
           T == [i \in DOMAIN d.session |->
                    IF i \in gone THEN [d.session[i] EXCEPT !.state = "cancelled"] ELSE d.session[i]]
           R == [k \in Keys |->
                    IF own(k) /\ d.row[k] # None
                    THEN [d.row[k] EXCEPT !.auth = "cancelled", !.syncCapable = FALSE,
                                          !.enabled = @ /\ ~IsPending(k),
                                          !.userRemoved = @ \/ IsPending(k)]
                    ELSE d.row[k]]
           e == ReconcileAbandoned(d, expired)
<1>1. e = [d EXCEPT !.session = T, !.row = R]
  BY Zenon DEF ReconcileAbandoned
<1>2. \A k \in Keys :
         /\ R[k] \in {None} \cup IntegrationState
         /\ d.row[k] = None <=> R[k] = None
         /\ d.row[k] # None => /\ R[k].authInvalidated = d.row[k].authInvalidated
                               /\ R[k].auth \in {d.row[k].auth, "cancelled"}
  <2> TAKE k \in Keys
  <2> HIDE DEF own
  <2>1. CASE own(k) /\ d.row[k] # None
    <3> DEFINE c == [d.row[k] EXCEPT !.auth = "cancelled", !.syncCapable = FALSE,
                                     !.enabled = @ /\ ~IsPending(k),
                                     !.userRemoved = @ \/ IsPending(k)]
    <3>1. R[k] = c
      BY <2>1
    <3>2. d.row[k] \in IntegrationState
      BY <2>1, DbParts
    <3>3. c \in IntegrationState /\ c.auth = "cancelled" /\ c.authInvalidated = d.row[k].authInvalidated
      BY <3>2, CancelledRow
    <3> HIDE DEF c, R
    <3>4. QED
      BY <2>1, <3>1, <3>3, RowsExist
  <2>2. CASE ~(own(k) /\ d.row[k] # None)
    <3>1. R[k] = d.row[k]
      BY <2>2
    <3> HIDE DEF R
    <3>2. QED
      BY <3>1, DbParts
  <2>3. QED
    BY <2>1, <2>2
<1>3. /\ R \in [Keys -> {None} \cup IntegrationState]
      /\ \A k \in Keys : R[k] # None => RowSound(k, R[k])
  <2>1. R = [k \in Keys |-> R[k]]
    OBVIOUS
  <2> HIDE DEF R
  <2>2. QED
    BY <1>2, <2>1, DbParts DEF RowSound
<1>4. /\ T \in [DOMAIN d.session -> AuthSession]
      /\ \A i \in DOMAIN d.session : T[i] = d.session[i] \/ SessionSound(R, T[i])
  <2>0. T = [i \in DOMAIN d.session |-> T[i]]
    OBVIOUS
  <2>1. ASSUME NEW i \in DOMAIN d.session
        PROVE  /\ T[i] \in AuthSession
               /\ T[i] = d.session[i] \/ SessionSound(R, T[i])
    <3>1. d.session[i] \in AuthSession /\ SessionSound(d.row, d.session[i])
      BY DbParts
    <3> DEFINE c == [d.session[i] EXCEPT !.state = "cancelled"]
    <3>2. T[i] \in {c, d.session[i]}
      OBVIOUS
    <3>3. c \in AuthSession /\ c.key = d.session[i].key /\ c.state = "cancelled"
      BY <3>1, CancelledSession
    <3> HIDE DEF T, R, c
    <3>4. SessionSound(R, c)
      BY <3>1, <3>3 DEF SessionSound
    <3>5. QED
      BY <3>1, <3>2, <3>3, <3>4
  <2> HIDE DEF T
  <2>2. QED
    BY <2>0, <2>1
<1> HIDE DEF T, R, e
<1>5. T \in Seq(AuthSession) /\ DOMAIN T = DOMAIN d.session /\ Len(T) = Len(d.session)
  BY <1>4, DbParts, SameSessions
<1>6. e \in Database /\ e.session = T /\ e.row = R
  BY <1>1, <1>3, <1>5 DEF DbSound, Database
<1>7. DbSound(e)
  BY <1>2, <1>3, <1>4, <1>5, <1>6, DbNext
<1>8. Keeps(d, e)
  BY <1>2, <1>6 DEF Keeps
<1>9. QED
  BY <1>5, <1>6, <1>7, <1>8 DEF e

(* A session of the account is asked for. *)
LEMMA RequestSound ==
    ASSUME NEW d, DbSound(d), NEW k \in Keys, platform # "gmail" => k = "default"
    PROVE  LET e == RequestIntegrationAccess(d, k)
           IN  DbSound(e) /\ Keeps(d, e) /\ Len(e.session) = Len(d.session) + 1
<1> DEFINE r == d.row[k]
           fresh == [auth |-> "requested", enabled |-> TRUE, syncCapable |-> FALSE,
                     userRemoved |-> FALSE, keychain |-> FALSE, authInvalidated |-> FALSE]
           asked == IF r = None THEN fresh
                    ELSE [r EXCEPT !.auth = "requested", !.enabled = @ \/ r.userRemoved,
                                   !.syncCapable = FALSE, !.userRemoved = FALSE]
           T == [i \in DOMAIN d.session |->
                    IF d.session[i].key = k /\ d.session[i].state \in Open
                    THEN [d.session[i] EXCEPT !.state = "cancelled"] ELSE d.session[i]]
           s == [d EXCEPT !.session = T]
           u == UpsertIntegrationState(s, k, asked)
           e == RequestIntegrationAccess(d, k)
<1>1. e = WithSession(u, k, "requested", 2 * (Len(d.session) + 1))
  BY Zenon DEF RequestIntegrationAccess
<1>2. /\ T \in [DOMAIN d.session -> AuthSession]
      /\ \A i \in DOMAIN d.session : T[i] = d.session[i] \/ SessionSound(d.row, T[i])
  <2>0. T = [i \in DOMAIN d.session |-> T[i]]
    OBVIOUS
  <2>1. ASSUME NEW i \in DOMAIN d.session
        PROVE  /\ T[i] \in AuthSession
               /\ T[i] = d.session[i] \/ SessionSound(d.row, T[i])
    <3>1. d.session[i] \in AuthSession /\ SessionSound(d.row, d.session[i])
      BY DbParts
    <3> DEFINE c == [d.session[i] EXCEPT !.state = "cancelled"]
    <3>2. T[i] \in {c, d.session[i]}
      OBVIOUS
    <3>3. c \in AuthSession /\ c.key = d.session[i].key /\ c.state = "cancelled"
      BY <3>1, CancelledSession
    <3> HIDE DEF T, c
    <3>4. SessionSound(d.row, c)
      BY <3>1, <3>3 DEF SessionSound
    <3>5. QED
      BY <3>1, <3>2, <3>3, <3>4
  <2> HIDE DEF T
  <2>2. QED
    BY <2>0, <2>1
<1> HIDE DEF T
<1>3. T \in Seq(AuthSession) /\ DOMAIN T = DOMAIN d.session /\ Len(T) = Len(d.session)
  BY <1>2, DbParts, SameSessions
<1>4. s \in Database /\ s.session = T /\ s.row = d.row
  BY <1>3 DEF DbSound, Database
<1> HIDE DEF s
<1>5. DbSound(s)
  <2>1. \A j \in Keys : s.row[j] # None => RowSound(j, s.row[j])
    BY <1>4, DbParts
  <2>2. QED
    BY <1>2, <1>3, <1>4, <2>1, DbNext
<1>6. /\ asked \in IntegrationState /\ asked.auth = "requested"
      /\ r # None => asked.authInvalidated = r.authInvalidated
      /\ r = None => ~asked.authInvalidated
  <2>1. CASE r = None
    BY <2>1 DEF IntegrationState, Open
  <2>2. CASE r # None
    <3>1. r \in IntegrationState
      BY <2>2, DbParts
    <3> HIDE DEF r
    <3>2. QED
      BY <2>2, <3>1 DEF IntegrationState, Open
  <2>3. QED
    BY <2>1, <2>2
<1>7. RowSound(k, asked)
  <2>1. r # None => RowSound(k, r)
    BY DbParts
  <2> HIDE DEF asked, r
  <2>2. QED
    BY <1>6, <2>1 DEF RowSound
<1> HIDE DEF asked
<1>8. DbSound(u) /\ u.session = T /\ u.row = [d.row EXCEPT ![k] = asked]
  BY <1>4, <1>5, <1>6, <1>7, RowWritten
<1> HIDE DEF u
<1>9. /\ DbSound(e) /\ e.row = u.row /\ Len(e.session) = Len(T) + 1
  <2>1. 2 * (Len(d.session) + 1) \in Nat
    BY DbParts
  <2> DEFINE n == 2 * (Len(d.session) + 1)
  <2> HIDE DEF n
  <2>2. e = WithSession(u, k, "requested", n) /\ n \in Nat
    BY <1>1, <2>1 DEF n
  <2> HIDE DEF e
  <2>3. QED
    BY <1>8, <2>2, SessionAdded
<1> HIDE DEF e
<1>10. Keeps(d, e)
  <2>1. \A j \in Keys : e.row[j] = IF j = k THEN asked ELSE d.row[j]
    BY <1>8, <1>9, DbParts
  <2>2. QED
    BY <1>6, <2>1, RowsExist DEF Keeps, r
<1>11. QED
  BY <1>3, <1>9, <1>10 DEF e

(* A login begins, for whatever became of its session. *)
LEMMA MarkSound ==
    ASSUME NEW d, DbSound(d), NEW i \in DOMAIN d.session
    PROVE  LET e == MarkAuthSessionInProgress(d, i)
           IN  /\ DbSound(e) /\ Keeps(d, e) /\ Len(e.session) = Len(d.session)
               /\ e.session[i].key = d.session[i].key
<1> DEFINE k == d.session[i].key
           b == UpdateAuthSession(d, i, k, "in_progress")
           r == [d.row[k] EXCEPT !.auth = "in_progress"]
           e == MarkAuthSessionInProgress(d, i)
<1>1. k \in Keys /\ (platform # "gmail" => k = "default")
  BY DbParts DEF AuthSession, SessionSound
<1>2. e = IF d.row[k] = None THEN b ELSE UpsertIntegrationState(b, k, r)
  BY Zenon DEF MarkAuthSessionInProgress
<1>3. DbSound(b) /\ b.row = d.row /\ Len(b.session) = Len(d.session) /\ b.session[i].key = k
  <2> HIDE DEF k, b
  <2>1. b = UpdateAuthSession(d, i, k, "in_progress")
    BY DEF b
  <2>2. QED
    BY <1>1, <2>1, SessionWritten DEF Open, Replaced
<1> HIDE DEF b, e
<1>4. CASE d.row[k] = None
  BY <1>2, <1>3, <1>4 DEF Keeps, e
<1>5. CASE d.row[k] # None
  <2>1. d.row[k] \in IntegrationState /\ RowSound(k, d.row[k])
    BY <1>1, <1>5, DbParts
  <2>2. /\ r \in IntegrationState /\ r.auth = "in_progress"
        /\ r.authInvalidated = d.row[k].authInvalidated
    BY <2>1 DEF IntegrationState, Open
  <2> HIDE DEF r, k
  <2>3. RowSound(k, r)
    BY <2>1, <2>2 DEF RowSound
  <2>4. DbSound(e) /\ e.session = b.session /\ e.row = [d.row EXCEPT ![k] = r]
    BY <1>1, <1>2, <1>3, <1>5, <2>2, <2>3, RowWritten
  <2>5. \A j \in Keys : e.row[j] = IF j = k THEN r ELSE d.row[j]
    BY <2>4, DbParts
  <2>6. Keeps(d, e)
    BY <2>2, <2>5, RowsExist DEF Keeps
  <2>7. QED
    BY <1>3, <2>4, <2>6 DEF e, k
<1>6. QED
  BY <1>4, <1>5

(* What the end of a login may do to a row that was invalidated. *)
LoggedInAs(d, i, k, e) ==
    ~Ignored(d, i) /\ d.row[d.session[i].key] # None /\ e.session[i].key = k

Completed(d, i, result, keychain, e) ==
    /\ DbSound(e) /\ Len(e.session) = Len(d.session)
    /\ \A k \in Keys :
          /\ platform # "gmail" /\ d.row[k] # None => e.row[k] # None
          /\ /\ d.row[k] # None /\ d.row[k].authInvalidated
             /\ e.row[k] # None /\ e.row[k].auth = "authenticated"
             => result = "authenticated" /\ LoggedInAs(d, i, k, e)
          /\ /\ result = "authenticated" /\ LoggedInAs(d, i, k, e)
             => e.row[k] # None /\ e.row[k].auth = "authenticated" /\ e.row[k].keychain = keychain

LEMMA CompleteSound ==
    ASSUME NEW d, DbSound(d), NEW i \in DOMAIN d.session, NEW result \in Results,
           NEW keychain \in BOOLEAN,
           result = "authenticated" => d.row[d.session[i].key] # None \/ Ignored(d, i)
    PROVE  Completed(d, i, result, keychain, CompleteAuthSession(d, i, result, keychain))
<1> DEFINE s == d.session[i]
           r == d.row[s.key]
           ok == result = "authenticated"
           to == IF platform = "gmail" /\ ok THEN "real" ELSE s.key
           t == IF d.row[to] = None THEN r ELSE d.row[to]
           hide == ~ok /\ IsPending(to)
           done == [auth |-> result,
                    enabled |-> ~hide /\ (IF t.userRemoved THEN r.enabled ELSE t.enabled),
                    syncCapable |-> ok \/ t.syncCapable,
                    userRemoved |-> hide \/ r.userRemoved,
                    keychain |-> ok /\ keychain,
                    authInvalidated |-> ~ok /\ r.authInvalidated]
           u == UpdateAuthSession(d, i, to, result)
           moved == [u EXCEPT !.row[s.key] = None]
           e == CompleteAuthSession(d, i, result, keychain)
<1>0. s \in AuthSession /\ SessionSound(d.row, s) /\ s.key \in Keys
  BY DbParts DEF AuthSession
<1>1. CASE Ignored(d, i)
  <2>1. e = d
    BY <1>1, Zenon DEF CompleteAuthSession
  <2> HIDE DEF e
  <2>2. ASSUME NEW k \in Keys, d.row[k] # None, d.row[k].authInvalidated
        PROVE  d.row[k].auth # "authenticated"
    BY <2>2, DbParts DEF RowSound
  <2>3. QED
    BY <1>1, <2>1, <2>2 DEF LoggedInAs, e, Completed
<1>2. CASE ~Ignored(d, i) /\ r = None
  <2> DEFINE v == UpdateAuthSession(d, i, s.key, result)
  <2>1. e = v
    BY <1>2, Zenon DEF CompleteAuthSession
  <2> HIDE DEF e
  <2>2. result # "authenticated"
    BY <1>2
  <2>3. DbSound(v) /\ v.row = d.row /\ Len(v.session) = Len(d.session)
    <3>1. platform # "gmail" => s.key = "default"
      BY <1>0 DEF SessionSound
    <3> DEFINE k == s.key
    <3> HIDE DEF s
    <3>2. DbSound(UpdateAuthSession(d, i, k, result)) /\ UpdateAuthSession(d, i, k, result).row = d.row
             /\ Replaced(d, UpdateAuthSession(d, i, k, result), i, k, result)
      <4>1. k \in Keys /\ (platform # "gmail" => k = "default")
        BY <1>0, <3>1
      <4> HIDE DEF k
      <4>2. QED
        BY <2>2, <4>1, SessionWritten
    <3>3. QED
      BY <3>2 DEF Replaced
  <2> HIDE DEF v
  <2>4. ASSUME NEW k \in Keys, d.row[k] # None, d.row[k].authInvalidated
        PROVE  d.row[k].auth # "authenticated"
    BY <2>4, DbParts DEF RowSound
  <2>5. QED
    BY <2>1, <2>2, <2>3, <2>4 DEF e, Completed
<1>3. CASE ~Ignored(d, i) /\ r # None
  <2>1. e = UpsertIntegrationState(moved, to, done)
    BY <1>3, Zenon DEF CompleteAuthSession
  <2>2. to \in Keys /\ (platform # "gmail" => to = s.key /\ to = "default") /\ (~ok => to = s.key)
           /\ (platform = "gmail" /\ ok => to = "real")
    BY <1>0 DEF Keys, SessionSound
  <2>3. r \in IntegrationState /\ RowSound(s.key, r)
    BY <1>0, <1>3, DbParts
  <2>4. t \in IntegrationState
    BY <2>2, <2>3, DbParts
  <2>5. u \in Database /\ u.row = d.row /\ Replaced(d, u, i, to, result)
    <3> HIDE DEF to, u
    <3>1. u = UpdateAuthSession(d, i, to, result)
      BY DEF u
    <3>2. QED
      BY <2>2, <3>1, SessionReplaced DEF DbSound
  <2>6. /\ done \in IntegrationState /\ done.auth = result
        /\ done.authInvalidated => ~ok /\ r.authInvalidated
        /\ ok => done.keychain = keychain
        /\ ~ok /\ r.authInvalidated => done.authInvalidated
    <3> HIDE DEF r, t, hide, to
    <3>0. hide \in BOOLEAN /\ ok \in BOOLEAN
      BY DEF hide
    <3>1. result \in Open \cup {"authenticated", "failed", "cancelled", "needs_auth"}
      BY DEF Results
    <3>2. done.enabled \in BOOLEAN /\ done.syncCapable \in BOOLEAN /\ done.userRemoved \in BOOLEAN
             /\ done.keychain \in BOOLEAN /\ done.authInvalidated \in BOOLEAN
      OBVIOUS
    <3>3. done \in IntegrationState
      BY <3>1 DEF IntegrationState
    <3>4. QED
      BY <3>3
  <2> HIDE DEF u, t, hide, done
  <2>7. e \in Database /\ e.session = u.session
           /\ e.row = [[d.row EXCEPT ![s.key] = None] EXCEPT ![to] = done]
    <3> HIDE DEF s, to
    <3>1. moved \in Database /\ moved.session = u.session /\ moved.row = [d.row EXCEPT ![s.key] = None]
      BY <1>0, <2>5 DEF Database
    <3> HIDE DEF moved, e, r, ok
    <3>2. QED
      BY <2>1, <2>2, <2>6, <3>1 DEF UpsertIntegrationState, Database
  <2> HIDE DEF e, moved
  <2>8. \A k \in Keys : e.row[k] = IF k = to THEN done ELSE IF k = s.key THEN None ELSE d.row[k]
    BY <1>0, <2>2, <2>7, DbParts
  <2>9. done # None /\ RowSound(to, done)
    BY <2>2, <2>3, <2>6, RowsExist DEF RowSound
  <2>10. \A k \in Keys : e.row[k] # None => RowSound(k, e.row[k])
    BY <2>8, <2>9, DbParts
  <2>11. \A j \in DOMAIN e.session : SessionSound(e.row, e.session[j])
    <3> TAKE j \in DOMAIN e.session
    <3>1. CASE j = i
      BY <2>2, <2>5, <2>7, <2>8, <2>9, <3>1 DEF SessionSound, Replaced
    <3>2. CASE j # i
      <4>1. e.session[j] = d.session[j] /\ j \in DOMAIN d.session
        BY <2>5, <2>7, <3>2 DEF Replaced
      <4>2. d.session[j] \in AuthSession /\ SessionSound(d.row, d.session[j])
        BY <4>1, DbParts
      <4>3. d.session[j].key \in Keys
        BY <4>2 DEF AuthSession
      <4>4. ok => (platform = "gmail" => to = "real") /\ (platform # "gmail" => to = s.key)
        BY <2>2
      <4> HIDE DEF to, s, ok, r
      <4>5. QED
        BY <2>2, <2>8, <2>9, <4>1, <4>2, <4>3, <4>4 DEF SessionSound
    <3>3. QED
      BY <3>1, <3>2
  <2>12. DbSound(e)
    BY <2>7, <2>10, <2>11 DEF DbSound
  <2>13. Len(e.session) = Len(d.session) /\ e.session[i].key = to
    BY <2>5, <2>7 DEF Replaced
  <2>14. ASSUME NEW k \in Keys
         PROVE  /\ platform # "gmail" /\ d.row[k] # None => e.row[k] # None
                /\ /\ d.row[k] # None /\ d.row[k].authInvalidated
                   /\ e.row[k] # None /\ e.row[k].auth = "authenticated"
                   => result = "authenticated" /\ LoggedInAs(d, i, k, e)
                /\ /\ result = "authenticated" /\ LoggedInAs(d, i, k, e)
                   => e.row[k] # None /\ e.row[k].auth = "authenticated" /\ e.row[k].keychain = keychain
    <3>1. d.row[k] # None => RowSound(k, d.row[k])
      BY DbParts
    <3>2. CASE k = to
      BY <1>3, <2>2, <2>6, <2>8, <2>9, <2>13, <3>2 DEF LoggedInAs
    <3>3. CASE k # to
      BY <1>3, <2>2, <2>8, <2>13, <3>1, <3>3 DEF LoggedInAs, RowSound
    <3>4. QED
      BY <3>2, <3>3
  <2>15. QED
    BY <2>12, <2>13, <2>14 DEF e, Completed
<1>4. QED
  BY <1>1, <1>2, <1>3

(* A secret that is found is not taken for a login of an account that was   *)
(* invalidated.                                                             *)
Imported(d, e) ==
    /\ platform = "linkedin" /\ Len(d.session) < MaxSessions
    /\ Len(e.session) = Len(d.session) + 1
    /\ e.row["default"] # None /\ e.row["default"].auth = "authenticated"
    /\ e.row["default"].keychain

LEMMA ImportSound ==
    ASSUME NEW d, DbSound(d), NEW revive \in BOOLEAN
    PROVE  LET e == ImportStoredAuth(d, revive)
           IN  DbSound(e) /\ Keeps(d, e) /\ (e = d \/ Imported(d, e))
<1> DEFINE r == d.row["default"]
           new == [auth |-> "requested", enabled |-> TRUE, syncCapable |-> TRUE,
                   userRemoved |-> FALSE, keychain |-> TRUE, authInvalidated |-> FALSE]
           kept == [r EXCEPT !.enabled = @ \/ r.userRemoved, !.keychain = TRUE, !.userRemoved = FALSE]
           row == IF r = None THEN new ELSE kept
           found == UpsertIntegrationState(d, "default", row)
           opened == WithSession(found, "default", "requested", d.stored["default"])
           x == CompleteAuthSession(opened, Len(opened.session), "authenticated", TRUE)
           e == ImportStoredAuth(d, revive)
           skip == \/ platform # "linkedin" \/ d.stored["default"] = 0
                   \/ Len(d.session) >= MaxSessions
                   \/ r # None /\ \/ r.authInvalidated
                                  \/ r.userRemoved /\ ~revive
                                  \/ r.auth = "authenticated" /\ r.keychain
<1>1. e = IF skip THEN d ELSE x
  BY Zenon DEF ImportStoredAuth
<1>2. CASE skip
  <2>1. e = d
    BY <1>1, <1>2
  <2> HIDE DEF e
  <2>2. Keeps(d, d)
    BY DEF Keeps
  <2>3. QED
    BY <2>1, <2>2 DEF e
<1>3. CASE ~skip
  <2>0. e = x
    BY <1>1, <1>3
  <2>1. platform = "linkedin" /\ Len(d.session) < MaxSessions /\ (r # None => ~r.authInvalidated)
    BY <1>3, DbParts, AccountsAssumption
  <2> HIDE DEF e, skip
  <2>2. row \in IntegrationState /\ ~row.authInvalidated
    <3>1. CASE r = None
      BY <3>1 DEF IntegrationState, Open
    <3>2. CASE r # None
      <4>1. r \in IntegrationState
        BY <3>2, DbParts DEF Keys
      <4> HIDE DEF r
      <4>2. QED
        BY <2>1, <3>2, <4>1 DEF IntegrationState
    <3>3. QED
      BY <3>1, <3>2
  <2> HIDE DEF row
  <2>3. "default" \in Keys /\ RowSound("default", row)
    BY <2>2 DEF RowSound, Keys
  <2>4. DbSound(found) /\ found.session = d.session /\ found.row = [d.row EXCEPT !["default"] = row]
    BY <2>2, <2>3, RowWritten
  <2> HIDE DEF found
  <2>5. /\ DbSound(opened) /\ opened.row = found.row /\ Len(opened.session) = Len(d.session) + 1
        /\ DOMAIN opened.session = 1..Len(opened.session)
        /\ opened.session[Len(opened.session)].key = "default"
        /\ opened.session[Len(opened.session)].state = "requested"
    <3> DEFINE at == d.stored["default"]
    <3>1. at \in Nat
      BY <2>3 DEF DbSound, Database
    <3>2. opened = WithSession(found, "default", "requested", at)
      OBVIOUS
    <3> HIDE DEF at, opened
    <3>3. QED
      BY <2>3, <2>4, <3>1, <3>2, SessionAdded
  <2> DEFINE n == Len(opened.session)
  <2> HIDE DEF opened
  <2>6. n \in DOMAIN opened.session /\ n = Len(d.session) + 1
    BY <2>5, DbParts
  <2>7. opened.row["default"] = row /\ row # None /\ \A k \in Keys : k # "default" => opened.row[k] = d.row[k]
    BY <2>2, <2>3, <2>4, <2>5, DbParts, RowsExist
  <2>8. ~Ignored(opened, n)
    BY <2>5 DEF Ignored
  <2>9. /\ x = CompleteAuthSession(opened, n, "authenticated", TRUE)
        /\ opened.session[n].key = "default"
    BY <2>5
  <2> HIDE DEF x, n
  <2>10. /\ DbSound(x) /\ Len(x.session) = n
         /\ \A k \in Keys :
               /\ opened.row[k] # None => x.row[k] # None
               /\ LoggedInAs(opened, n, k, x)
                  => x.row[k].auth = "authenticated" /\ x.row[k].keychain = TRUE
    <3>1. "authenticated" \in Results /\ Len(opened.session) = n
      BY DEF Results, n
    <3>2. opened.row[opened.session[n].key] # None /\ TRUE \in BOOLEAN
      BY <2>7, <2>9
    <3>3. Completed(opened, n, "authenticated", TRUE, x)
      BY <2>5, <2>6, <2>9, <3>1, <3>2, CompleteSound
    <3>4. QED
      BY <2>1, <3>1, <3>3 DEF Completed
  <2>11. \A k \in Keys : d.row[k] # None => k = "default"
    BY <2>1, DbParts DEF RowSound
  <2>12. Keeps(d, x)
    BY <2>1, <2>7, <2>10, <2>11 DEF Keeps, r
  <2>13. x.session[n].key = "default"
    <3>1. DbSound(x) /\ n \in DOMAIN x.session
      BY <2>6, <2>10, DbParts
    <3>2. QED
      BY <2>1, <3>1, DbParts DEF SessionSound
  <2>14. LoggedInAs(opened, n, "default", x)
    BY <2>7, <2>8, <2>9, <2>13 DEF LoggedInAs
  <2>15. Imported(d, x)
    BY <2>1, <2>3, <2>6, <2>7, <2>10, <2>14 DEF Imported
  <2>16. QED
    BY <2>0, <2>10, <2>12, <2>15 DEF e
<1>4. QED
  BY <1>2, <1>3

(* Rows change without being lost, and none becomes authenticated by it;   *)
(* sessions are cancelled at most.                                         *)
Softly(d, e) ==
    /\ e \in Database /\ Len(e.session) = Len(d.session)
    /\ \A k \in Keys :
          /\ d.row[k] = None => e.row[k] = None
          /\ d.row[k] # None => /\ e.row[k] # None
                                /\ e.row[k].authInvalidated = d.row[k].authInvalidated
                                /\ e.row[k].auth = d.row[k].auth \/ e.row[k].auth # "authenticated"
    /\ \A i \in DOMAIN e.session :
          /\ i \in DOMAIN d.session /\ e.session[i].key = d.session[i].key
          /\ e.session[i] = d.session[i] \/ e.session[i].state = "cancelled"

LEMMA SoftlySound ==
    ASSUME NEW d, DbSound(d), NEW e, Softly(d, e)
    PROVE  DbSound(e) /\ Keeps(d, e)
<1>1. \A k \in Keys : e.row[k] # None => RowSound(k, e.row[k])
  BY DbParts DEF Softly, RowSound
<1>2. ASSUME NEW i \in DOMAIN e.session
      PROVE  (i \in DOMAIN d.session /\ e.session[i] = d.session[i]) \/ SessionSound(e.row, e.session[i])
  <2>1. i \in DOMAIN d.session /\ SessionSound(d.row, d.session[i])
    BY <1>2, DbParts DEF Softly
  <2>2. QED
    BY <1>2, <2>1 DEF Softly, SessionSound
<1>3. DbSound(e)
  BY <1>1, <1>2, DbNext DEF Softly
<1>4. QED
  BY <1>3 DEF Keeps, Softly

(* The sync capability of rows is repaired. *)
LEMMA RepairSoftly ==
    ASSUME NEW d, DbSound(d)
    PROVE  Softly(d, RepairSyncCapable(d)) /\ RepairSyncCapable(d).queued = d.queued
<1> DEFINE R == [k \in Keys |->
                    IF d.row[k] = None THEN None
                    ELSE [d.row[k] EXCEPT !.syncCapable = d.row[k].auth = "authenticated"]]
           e == RepairSyncCapable(d)
<1>1. e = [d EXCEPT !.row = R]
  BY Zenon DEF RepairSyncCapable
<1>2. ASSUME NEW k \in Keys, d.row[k] # None
      PROVE  /\ R[k] \in IntegrationState
             /\ R[k].authInvalidated = d.row[k].authInvalidated /\ R[k].auth = d.row[k].auth
  <2> DEFINE b == d.row[k].auth = "authenticated"
             r == d.row[k]
  <2>1. R[k] = [r EXCEPT !.syncCapable = b] /\ b \in BOOLEAN
    BY <1>2, Zenon
  <2>2. r \in IntegrationState
    BY <1>2, DbParts
  <2> HIDE DEF R, b, r
  <2>3. /\ R[k] \in IntegrationState
        /\ R[k].authInvalidated = r.authInvalidated /\ R[k].auth = r.auth
    BY <2>1, <2>2 DEF IntegrationState
  <2>4. QED
    BY <2>3 DEF r
<1>3. \A k \in Keys : d.row[k] = None => R[k] = None
  OBVIOUS
<1>4. R = [k \in Keys |-> R[k]]
  OBVIOUS
<1> HIDE DEF R, e
<1>5. R \in [Keys -> {None} \cup IntegrationState]
  BY <1>2, <1>3, <1>4
<1>6. e \in Database /\ e.row = R /\ e.session = d.session /\ e.queued = d.queued
  BY <1>1, <1>5 DEF DbSound, Database
<1>7. QED
  BY <1>2, <1>3, <1>6, RowsExist DEF Softly, e

(* Other columns are written. *)
LEMMA StoredWritten ==
    ASSUME NEW d, DbSound(d), NEW s \in [Keys -> Nat], NEW q \in [Keys -> BOOLEAN]
    PROVE  Softly(d, [d EXCEPT !.stored = s]) /\ Softly(d, [d EXCEPT !.queued = q])
  BY DEF DbSound, Database, Softly

(* A row is written by hand: disconnecting, switching. *)
LEMMA RowSoftly ==
    ASSUME NEW d, DbSound(d), NEW k \in Keys, d.row[k] # None, NEW r \in IntegrationState,
           r.authInvalidated = d.row[k].authInvalidated,
           r.auth = d.row[k].auth \/ r.auth # "authenticated",
           NEW s \in [Keys -> Nat]
    PROVE  Softly(d, [d EXCEPT !.stored = s, !.row = [d.row EXCEPT ![k] = r]])
<1> DEFINE R == [d.row EXCEPT ![k] = r]
           e == [d EXCEPT !.stored = s, !.row = R]
<1>1. R \in [Keys -> {None} \cup IntegrationState] /\ \A j \in Keys : R[j] = IF j = k THEN r ELSE d.row[j]
  BY DbParts
<1> HIDE DEF R
<1>2. e \in Database /\ e.row = R /\ e.session = d.session
  BY <1>1 DEF DbSound, Database
<1> HIDE DEF e
<1>3. Softly(d, e)
  BY <1>1, <1>2, RowsExist DEF Softly
<1>4. QED
  BY <1>3 DEF e, R

-----------------------------------------------------------------------------
(* The steps. *)

LEMMA KeepsGrows ==
    ASSUME NEW d, NEW e, DbSound(e), Keeps(d, e), Len(d.session) <= Len(e.session),
           Len(e.session) <= MaxSessions
    PROVE  Grows(d, e)
  BY DEF Keeps, Grows

LEMMA SoftlyGrows ==
    ASSUME NEW d, DbSound(d), Len(d.session) <= MaxSessions, NEW e, Softly(d, e)
    PROVE  Grows(d, e) /\ Keeps(d, e)
<1>1. DbSound(e) /\ Keeps(d, e) /\ Len(e.session) = Len(d.session) /\ Len(d.session) \in Nat
  BY SoftlySound, DbParts DEF Softly
<1>2. Len(d.session) <= Len(e.session) /\ Len(e.session) <= MaxSessions
  BY <1>1
<1>3. QED
  BY <1>1, <1>2, KeepsGrows

LEMMA CallGrows ==
    ASSUME NEW d, DbSound(d), NEW e, Grows(d, e), NEW c, CallSound(d, c)
    PROVE  CallSound(e, c)
<1>1. DOMAIN d.session \subseteq DOMAIN e.session
  <2>1. /\ DOMAIN d.session = 1..Len(d.session) /\ Len(d.session) \in Nat
        /\ DOMAIN e.session = 1..Len(e.session) /\ Len(e.session) \in Nat
    BY DbParts DEF Grows
  <2>2. QED
    BY <2>1 DEF Grows
<1>2. c.at = "validating" => e.row["default"] # None
  BY DEF CallSound, Grows, Keys
<1>3. QED
  BY <1>1, <1>2 DEF CallSound

LEMMA IdleSound == \A d : CallSound(d, Idle)
  BY DEF CallSound, Idle, Call

(* What is said of the next state, with the platform that does not change. *)
LEMMA SoundNext ==
    ASSUME platform' = platform, DbSound(db')
    PROVE  DbSound(db)'
  BY DEF DbSound, RowSound, SessionSound

LEMMA InvNext ==
    ASSUME AccountsInv, platform' = platform, Grows(db, db'),
           accepted' \in [Keys -> BOOLEAN],
           login' \in [1..MaxSessions -> {"none", "running", "orphan", "telling"} \cup Results],
           tracked' \subseteq DOMAIN db'.session,
           DOMAIN call' = Calls,
           \A c \in Calls : call'[c] = call[c] \/ CallSound(db', call'[c]),
           running' \in [Keys -> {None} \cup BOOLEAN],
           platform \in Linked => \A k \in Keys : running'[k] = None,
           probe' # None => probe' \in Probe /\ platform \in Linked
    PROVE  AccountsInv'
<1>1. DbSound(db)' /\ Len(db'.session) <= MaxSessions
  BY SoundNext DEF Grows
<1>2. \A c \in Calls : CallSound(db', call'[c])
  BY CallGrows DEF AccountsInv
<1>3. \A c \in Calls : CallSound(db, call[c])'
  BY <1>2 DEF CallSound
<1>4. QED
  BY <1>1, <1>3 DEF AccountsInv

LEMMA TrackedGrows ==
    ASSUME AccountsInv, NEW e, Grows(db, e)
    PROVE  DOMAIN db.session \subseteq DOMAIN e.session /\ tracked \subseteq DOMAIN e.session
<1>1. /\ DOMAIN db.session = 1..Len(db.session) /\ Len(db.session) \in Nat
      /\ DOMAIN e.session = 1..Len(e.session) /\ Len(e.session) \in Nat
  BY DbParts DEF Grows, AccountsInv
<1>2. QED
  BY <1>1 DEF Grows, AccountsInv

(* A step that is none of a login or a request: they stay what they are. *)
LEMMA OthersNext ==
    ASSUME AccountsInv, Grows(db, db'),
           UNCHANGED <<platform, accepted, login, tracked, call, running>>,
           probe' # None => probe' \in Probe /\ platform \in Linked
    PROVE  AccountsInv'
<1>1. tracked' \subseteq DOMAIN db'.session
  BY TrackedGrows
<1>2. QED
  BY <1>1, InvNext DEF AccountsInv

LEMMA NothingGrows ==
    ASSUME AccountsInv
    PROVE  Grows(db, db) /\ Keeps(db, db)
<1>1. Len(db.session) \in Nat
  BY DbParts DEF AccountsInv
<1>2. QED
  BY <1>1 DEF Grows, Keeps, AccountsInv

(* What a step may do to an account that was invalidated. *)
InvalidatedStep ==
    \A k \in Keys :
        /\ db.row[k] # None /\ db.row[k].authInvalidated
        /\ db'.row[k] # None /\ db'.row[k].auth = "authenticated"
        => \/ \E i \in Sessions(db) : /\ login[i] = "authenticated" /\ login'[i] = "telling"
                                      /\ db'.session[i].key = k
           \/ \E c \in Calls : call[c].at = "validating" /\ call[c].valid /\ call'[c] = Idle

LEMMA KeepsOut ==
    ASSUME DbSound(db'), Keeps(db, db')
    PROVE  InvalidatedStep
<1>1. \A k \in Keys : db'.row[k] # None => RowSound(k, db'.row[k])
  BY DbParts
<1>2. QED
  BY <1>1 DEF InvalidatedStep, Keeps, RowSound

LEMMA IdleChanged ==
    ASSUME NEW c \in Calls, NEW r, DOMAIN call = Calls, call' = [call EXCEPT ![c] = r]
    PROVE  DOMAIN call' = Calls /\ call'[c] = r /\ \A b \in Calls \ {c} : call'[b] = call[b]
  OBVIOUS

(* A request waits until its telemetry is away, with the session it made. *)
LEMMA AnnounceStep ==
    ASSUME NEW c \in Calls, NEW d, DbSound(d), NEW k \in Keys, platform # "gmail" => k = "default",
           NEW local \in BOOLEAN, DOMAIN call = Calls, Len(d.session) < MaxSessions,
           Announce(c, d, k, local)
    PROVE  /\ DbSound(db') /\ Keeps(d, db') /\ Len(db'.session) = Len(d.session) + 1
           /\ DOMAIN call' = Calls /\ \A b \in Calls : call'[b] = call[b] \/ CallSound(db', call'[b])
<1>1. DbSound(db') /\ Keeps(d, db') /\ Len(db'.session) = Len(d.session) + 1
  <2> DEFINE e == RequestIntegrationAccess(d, k)
  <2>1. db' = e
    BY DEF Announce
  <2>2. DbSound(e) /\ Keeps(d, e) /\ Len(e.session) = Len(d.session) + 1
    BY RequestSound
  <2> HIDE DEF e
  <2>3. QED
    BY <2>1, <2>2
<1> DEFINE n == Len(d.session) + 1
           r == [Idle EXCEPT !.at = "announcing", !.local = local, !.session = n]
<1>2. call' = [call EXCEPT ![c] = r]
  BY DEF Announce
<1>3. CallSound(db', r)
  <2>1. Len(d.session) \in Nat /\ Len(db'.session) \in Nat /\ DOMAIN db'.session = 1..Len(db'.session)
    BY <1>1, DbParts
  <2>2. n \in DOMAIN db'.session /\ n # 0 /\ n \in Nat
    BY <1>1, <2>1
  <2> HIDE DEF n
  <2>3. r \in Call /\ r.at = "announcing" /\ r.session = n
    BY <2>2 DEF Idle, Call
  <2> HIDE DEF r
  <2>4. QED
    BY <2>2, <2>3 DEF CallSound
<1> HIDE DEF r
<1>4. QED
  BY <1>1, <1>2, <1>3, IdleChanged

LEMMA ConnectStep ==
    ASSUME AccountsInv, NEW c \in Calls, NEW k \in Keys, NEW local \in BOOLEAN, Connect(c, k, local)
    PROVE  AccountsInv' /\ InvalidatedStep
<1>1. /\ DbSound(db) /\ Len(db.session) \in Nat /\ Len(db.session) < MaxSessions
      /\ DOMAIN call = Calls /\ k \in RequestKeys /\ (platform # "gmail" => k = "default")
  BY DbParts DEF AccountsInv, Connect, Room, RequestKeys
<1>2. PICK expired \in SUBSET Expirable :
        LET d == ReconcileAbandoned(db, expired)
            i == ImportStoredAuth(d, TRUE)
            e == i.row["default"]
            found == ~local /\ (Active(d, k) # {} \/ Persisted(d, k))
            reusable == platform = "linkedin" /\ e # None /\ e.auth = "authenticated" /\ e.keychain
        IN  /\ tracked' = IF local THEN tracked ELSE tracked \ Forgotten(d, k)
            /\ \/ found /\ db' = d /\ UNCHANGED call
               \/ /\ ~found /\ reusable
                  /\ db' = i
                  /\ call' = [call EXCEPT ![c] = [Idle EXCEPT !.at = "validating", !.local = local,
                                                              !.valid = accepted[k]]]
               \/ ~found /\ ~reusable /\ Announce(c, i, k, local)
  BY Zenon DEF Connect
<1> DEFINE d == ReconcileAbandoned(db, expired)
           i == ImportStoredAuth(d, TRUE)
           e == i.row["default"]
           reusable == platform = "linkedin" /\ e # None /\ e.auth = "authenticated" /\ e.keychain
           waiting == [Idle EXCEPT !.at = "validating", !.local = local, !.valid = accepted[k]]
<1>3. /\ tracked' \subseteq tracked
      /\ \/ db' = d /\ call' = call
         \/ reusable /\ db' = i /\ call' = [call EXCEPT ![c] = waiting]
         \/ ~reusable /\ Announce(c, i, k, local)
  BY <1>2
<1>4. DbSound(d) /\ Keeps(db, d) /\ Len(d.session) = Len(db.session)
  BY <1>1, ReconcileSound
<1> HIDE DEF d
<1>5. DbSound(i) /\ Keeps(d, i) /\ (i = d \/ Imported(d, i))
  BY <1>4, ImportSound
<1>6. Keeps(db, i)
  BY <1>4, <1>5, KeepsKeeps
<1> HIDE DEF i
<1>7. Grows(db, db') /\ Keeps(db, db') /\ DOMAIN call' = Calls
         /\ \A b \in Calls : call'[b] = call[b] \/ CallSound(db', call'[b])
  <2>1. CASE db' = d /\ call' = call
    <3>1. Len(db.session) <= Len(d.session) /\ Len(d.session) <= MaxSessions
      BY <1>1, <1>4, AccountsAssumption
    <3>2. QED
      BY <1>1, <1>4, <2>1, <3>1, KeepsGrows
  <2>2. CASE reusable /\ db' = i /\ call' = [call EXCEPT ![c] = waiting]
    <3>1. Len(db.session) <= Len(i.session) /\ Len(i.session) <= MaxSessions
      BY <1>1, <1>4, <1>5, AccountsAssumption DEF Imported
    <3>2. CallSound(i, waiting)
      <4>1. accepted[k] \in BOOLEAN
        BY DEF AccountsInv
      <4>2. waiting \in Call /\ waiting.at = "validating" /\ waiting.session = 0
        BY <4>1 DEF Idle, Call
      <4> HIDE DEF waiting
      <4>3. QED
        BY <2>2, <4>2 DEF CallSound
    <3> HIDE DEF waiting
    <3>3. DOMAIN call' = Calls /\ call'[c] = waiting /\ \A b \in Calls \ {c} : call'[b] = call[b]
      BY <1>1, <2>2, IdleChanged
    <3>4. Grows(db, i)
      BY <1>5, <1>6, <3>1, KeepsGrows
    <3>5. QED
      BY <1>6, <2>2, <3>2, <3>3, <3>4
  <2>3. CASE ~reusable /\ Announce(c, i, k, local)
    <3>1. Len(i.session) = Len(db.session)
      BY <1>4, <1>5, <2>3 DEF Imported
    <3>2. /\ DbSound(db') /\ Keeps(i, db') /\ Len(db'.session) = Len(i.session) + 1
          /\ DOMAIN call' = Calls /\ \A b \in Calls : call'[b] = call[b] \/ CallSound(db', call'[b])
      BY <1>1, <1>5, <2>3, <3>1, AnnounceStep
    <3>3. Keeps(db, db')
      BY <1>6, <3>2, KeepsKeeps
    <3>4. Len(db.session) <= Len(db'.session) /\ Len(db'.session) <= MaxSessions
      BY <1>1, <3>1, <3>2, AccountsAssumption
    <3>5. QED
      BY <3>2, <3>3, <3>4, KeepsGrows
  <2>4. QED
    BY <1>3, <2>1, <2>2, <2>3
<1>8. UNCHANGED <<platform, accepted, login, running, probe>>
  BY DEF Connect
<1>9. tracked' \subseteq DOMAIN db'.session
  BY <1>3, <1>7, TrackedGrows
<1>10. AccountsInv'
  BY <1>7, <1>8, <1>9, InvNext DEF AccountsInv
<1>11. QED
  BY <1>7, <1>10, KeepsOut DEF Grows

(* The stored secret of an account is taken for a login: the account is     *)
(* authenticated, which the provider has just said it may be.               *)
LEMMA ValidSound ==
    ASSUME NEW d, DbSound(d), d.row["default"] # None, platform # "gmail",
           NEW at \in Nat
    PROVE  LET o == WithSession(d, "default", "requested", at)
               n == Len(o.session)
               e == CompleteAuthSession(MarkAuthSessionInProgress(o, n), n, "authenticated", TRUE)
           IN  /\ DbSound(e) /\ Len(e.session) = Len(d.session) + 1 /\ n = Len(d.session) + 1
               /\ \A k \in Keys : d.row[k] # None => e.row[k] # None
<1> DEFINE o == WithSession(d, "default", "requested", at)
           n == Len(o.session)
           m == MarkAuthSessionInProgress(o, n)
           e == CompleteAuthSession(m, n, "authenticated", TRUE)
<1>0. "default" \in Keys
  BY DEF Keys
<1>1. /\ DbSound(o) /\ o.row = d.row /\ n = Len(d.session) + 1 /\ DOMAIN o.session = 1..n
      /\ o.session[n].key = "default"
  BY <1>0, SessionAdded
<1> HIDE DEF o
<1>2. n \in DOMAIN o.session
  BY <1>1, DbParts
<1>3. DbSound(m) /\ Keeps(o, m) /\ Len(m.session) = n /\ m.session[n].key = "default"
  BY <1>1, <1>2, MarkSound
<1> HIDE DEF m
<1>4. m.row["default"] # None /\ \A k \in Keys : d.row[k] # None => m.row[k] # None
  BY <1>0, <1>1, <1>3 DEF Keeps
<1>5. n \in DOMAIN m.session
  BY <1>1, <1>2, <1>3, DbParts
<1> HIDE DEF n
<1>6. Completed(m, n, "authenticated", TRUE, e)
  BY <1>3, <1>4, <1>5, CompleteSound DEF Results
<1> HIDE DEF e
<1>7. DbSound(e) /\ Len(e.session) = n /\ \A k \in Keys : m.row[k] # None => e.row[k] # None
  BY <1>3, <1>6 DEF Completed
<1>8. QED
  BY <1>1, <1>4, <1>7 DEF e, m, n, o

LEMMA ValidatedStep ==
    ASSUME AccountsInv, NEW c \in Calls, Validated(c)
    PROVE  AccountsInv' /\ InvalidatedStep
<1>1. /\ DbSound(db) /\ Len(db.session) \in Nat /\ Len(db.session) < MaxSessions
      /\ DOMAIN call = Calls /\ CallSound(db, call[c])
  BY DbParts DEF AccountsInv, Validated, Room
<1>2. /\ platform # "gmail" /\ db.row["default"] # None /\ call[c].at = "validating"
      /\ call[c].local \in BOOLEAN
  BY <1>1 DEF Validated, CallSound, Call
<1>3. UNCHANGED <<platform, accepted, tracked, running, probe>>
  BY DEF Validated
<1>4. CASE /\ call[c].valid
           /\ LET o == WithSession(db, "default", "requested", 2 * (Len(db.session) + 1))
                  i == Len(o.session)
              IN  /\ db' = CompleteAuthSession(MarkAuthSessionInProgress(o, i), i, "authenticated", TRUE)
                  /\ login' = [login EXCEPT ![i] = "telling"]
           /\ call' = [call EXCEPT ![c] = Idle]
  <2> DEFINE at == 2 * (Len(db.session) + 1)
             n == Len(WithSession(db, "default", "requested", at).session)
  <2>1. at \in Nat
    BY <1>1
  <2> HIDE DEF at
  <2>2. /\ DbSound(db') /\ Len(db'.session) = Len(db.session) + 1 /\ n = Len(db.session) + 1
        /\ \A k \in Keys : db.row[k] # None => db'.row[k] # None
    BY <1>1, <1>2, <1>4, <2>1, ValidSound DEF at
  <2>3. Grows(db, db')
    BY <1>1, <2>2, AccountsAssumption DEF Grows
  <2>4. login' = [login EXCEPT ![n] = "telling"]
    BY <1>4 DEF at
  <2> HIDE DEF n
  <2>5. login' \in [1..MaxSessions -> {"none", "running", "orphan", "telling"} \cup Results]
    BY <2>4 DEF AccountsInv
  <2>6. DOMAIN call' = Calls /\ call'[c] = Idle /\ \A b \in Calls \ {c} : call'[b] = call[b]
    BY <1>1, <1>4, IdleChanged
  <2>7. \A b \in Calls : call'[b] = call[b] \/ CallSound(db', call'[b])
    BY <2>6, IdleSound
  <2>8. tracked' \subseteq DOMAIN db'.session
    BY <1>3, <2>3, TrackedGrows
  <2>9. AccountsInv'
    BY <1>3, <2>3, <2>5, <2>6, <2>7, <2>8, InvNext DEF AccountsInv
  <2>10. InvalidatedStep
    BY <1>2, <1>4, <2>6 DEF InvalidatedStep
  <2>11. QED
    BY <2>9, <2>10
<1>5. CASE ~call[c].valid /\ Announce(c, db, "default", call[c].local) /\ UNCHANGED login
  <2>1. /\ DbSound(db') /\ Keeps(db, db') /\ Len(db'.session) = Len(db.session) + 1
        /\ DOMAIN call' = Calls /\ \A b \in Calls : call'[b] = call[b] \/ CallSound(db', call'[b])
    BY <1>1, <1>2, <1>5, AnnounceStep DEF Keys
  <2>2. Len(db.session) <= Len(db'.session) /\ Len(db'.session) <= MaxSessions
    BY <1>1, <2>1, AccountsAssumption
  <2>3. Grows(db, db')
    BY <2>1, <2>2, KeepsGrows
  <2>4. tracked' \subseteq DOMAIN db'.session
    BY <1>3, <2>3, TrackedGrows
  <2>5. AccountsInv'
    BY <1>3, <1>5, <2>1, <2>3, <2>4, InvNext DEF AccountsInv
  <2>6. QED
    BY <2>1, <2>5, KeepsOut
<1>6. CASE call' = [call EXCEPT ![c] = Idle] /\ UNCHANGED <<db, login>>
  <2>1. DOMAIN call' = Calls /\ call'[c] = Idle /\ \A b \in Calls \ {c} : call'[b] = call[b]
    BY <1>1, <1>6, IdleChanged
  <2>2. \A b \in Calls : call'[b] = call[b] \/ CallSound(db', call'[b])
    BY <2>1, IdleSound
  <2>3. Grows(db, db') /\ Keeps(db, db')
    BY <1>6, NothingGrows
  <2>4. AccountsInv'
    BY <1>3, <1>6, <2>1, <2>2, <2>3, InvNext DEF AccountsInv
  <2>5. QED
    BY <2>3, <2>4, KeepsOut DEF Grows
<1>7. QED
  BY <1>4, <1>5, <1>6 DEF Validated

LEMMA StartStep ==
    ASSUME AccountsInv, NEW c \in Calls, StartAuthSession(c)
    PROVE  AccountsInv' /\ InvalidatedStep
<1> DEFINE i == call[c].session
<1>1. /\ DbSound(db) /\ Len(db.session) \in Nat /\ Len(db.session) <= MaxSessions
      /\ DOMAIN db.session = 1..Len(db.session)
      /\ DOMAIN call = Calls /\ CallSound(db, call[c]) /\ call[c].at = "announcing"
  BY DbParts DEF AccountsInv, StartAuthSession
<1>2. i \in DOMAIN db.session /\ i \in 1..MaxSessions
  <2>1. i \in DOMAIN db.session
    BY <1>1 DEF CallSound
  <2>2. QED
    BY <1>1, <2>1, AccountsAssumption
<1>3. UNCHANGED <<platform, accepted, running, probe>>
  BY DEF StartAuthSession
<1>4. /\ Grows(db, db') /\ Keeps(db, db')
      /\ login' \in [1..MaxSessions -> {"none", "running", "orphan", "telling"} \cup Results]
      /\ tracked' \subseteq tracked \cup {i}
      /\ DOMAIN call' = Calls /\ \A b \in Calls : call'[b] = call[b] \/ CallSound(db', call'[b])
  <2>1. CASE /\ db' = MarkAuthSessionInProgress(db, i)
             /\ login' = [login EXCEPT ![i] = "running"]
             /\ tracked' = IF call[c].local THEN tracked ELSE tracked \cup {i}
             /\ call' = [call EXCEPT ![c] = IF @.local THEN [@ EXCEPT !.at = "logging in"] ELSE Idle]
    <3> DEFINE r == IF call[c].local THEN [call[c] EXCEPT !.at = "logging in"] ELSE Idle
               e == MarkAuthSessionInProgress(db, i)
    <3>1. DbSound(e) /\ Keeps(db, e) /\ Len(e.session) = Len(db.session)
      BY <1>1, <1>2, MarkSound
    <3>2. db' = e
      BY <2>1
    <3> HIDE DEF e
    <3>3. Grows(db, db') /\ Keeps(db, db')
      BY <1>1, <3>1, <3>2, KeepsGrows
    <3>4. call' = [call EXCEPT ![c] = r]
      BY <2>1
    <3>5. r = Idle \/ CallSound(db, r)
      <4> DEFINE a == call[c]
                 b == [a EXCEPT !.at = "logging in"]
      <4>1. a \in Call /\ a.session # 0 /\ a.session \in DOMAIN db.session
        BY <1>1 DEF CallSound
      <4>2. r \in {b, Idle}
        OBVIOUS
      <4> HIDE DEF a
      <4>3. b \in Call /\ b.at = "logging in" /\ b.session = a.session
        BY <4>1 DEF Call
      <4> HIDE DEF r, b
      <4>4. QED
        BY <4>1, <4>2, <4>3 DEF CallSound
    <3> HIDE DEF r
    <3>6. CallSound(db', r)
      BY <1>1, <3>3, <3>5, CallGrows, IdleSound
    <3>7. DOMAIN call' = Calls /\ \A b \in Calls : call'[b] = call[b] \/ CallSound(db', call'[b])
      BY <1>1, <3>4, <3>6, IdleChanged
    <3>8. login' \in [1..MaxSessions -> {"none", "running", "orphan", "telling"} \cup Results]
      BY <2>1 DEF AccountsInv
    <3>9. QED
      BY <2>1, <3>3, <3>7, <3>8
  <2>2. CASE call' = [call EXCEPT ![c] = Idle] /\ UNCHANGED <<db, login, tracked>>
    <3>1. DOMAIN call' = Calls /\ call'[c] = Idle /\ \A b \in Calls \ {c} : call'[b] = call[b]
      BY <1>1, <2>2, IdleChanged
    <3>2. \A b \in Calls : call'[b] = call[b] \/ CallSound(db', call'[b])
      BY <3>1, IdleSound
    <3>3. Grows(db, db') /\ Keeps(db, db')
      BY <2>2, NothingGrows
    <3>4. QED
      BY <2>2, <3>1, <3>2, <3>3 DEF AccountsInv
  <2>3. QED
    BY <2>1, <2>2 DEF StartAuthSession
<1>5. tracked' \subseteq DOMAIN db'.session
  BY <1>2, <1>4, TrackedGrows
<1>6. AccountsInv'
  BY <1>3, <1>4, <1>5, InvNext DEF AccountsInv
<1>7. QED
  BY <1>4, <1>6, KeepsOut DEF Grows

LEMMA LoginStoresStep ==
    ASSUME AccountsInv, NEW i \in 1..MaxSessions, LoginStores(i)
    PROVE  AccountsInv' /\ InvalidatedStep
<1> DEFINE k == IF platform = "gmail" THEN "real" ELSE db.session[i].key
           s == [db.stored EXCEPT ![k] = 2 * Len(db.session) + 1]
<1>1. /\ DbSound(db) /\ Len(db.session) \in Nat /\ Len(db.session) <= MaxSessions
      /\ db.stored \in [Keys -> Nat] /\ db.queued \in [Keys -> BOOLEAN]
  BY DbParts DEF AccountsInv, DbSound, Database
<1>2. k \in Keys
  <2>1. db.session[i] \in AuthSession
    BY <1>1, DbParts DEF LoginStores, Sessions
  <2>2. QED
    BY <2>1 DEF Keys, AuthSession
<1>3. db' = [db EXCEPT !.stored = s] /\ accepted' = [accepted EXCEPT ![k] = TRUE]
  BY Zenon DEF LoginStores
<1> HIDE DEF k
<1>4. s \in [Keys -> Nat]
  BY <1>1, <1>2
<1> HIDE DEF s
<1>5. Grows(db, db') /\ Keeps(db, db')
  BY <1>1, <1>3, <1>4, StoredWritten, SoftlyGrows
<1>6. accepted' \in [Keys -> BOOLEAN]
  BY <1>2, <1>3 DEF AccountsInv
<1>7. login' \in [1..MaxSessions -> {"none", "running", "orphan", "telling"} \cup Results]
  BY DEF LoginStores, AccountsInv, Results
<1>8. UNCHANGED <<platform, tracked, call, running, probe>>
  BY DEF LoginStores
<1>9. tracked' \subseteq DOMAIN db'.session
  BY <1>5, <1>8, TrackedGrows
<1>10. AccountsInv'
  BY <1>5, <1>6, <1>7, <1>8, <1>9, InvNext DEF AccountsInv
<1>11. QED
  BY <1>5, <1>10, KeepsOut DEF Grows

LEMMA LoginEndsStep ==
    ASSUME AccountsInv, NEW i \in 1..MaxSessions, LoginEnds(i)
    PROVE  AccountsInv' /\ InvalidatedStep
<1>1. UNCHANGED <<platform, db, accepted, tracked, call, running, probe>>
  BY DEF LoginEnds
<1>2. Grows(db, db') /\ Keeps(db, db')
  BY <1>1, NothingGrows
<1>3. login' \in [1..MaxSessions -> {"none", "running", "orphan", "telling"} \cup Results]
  BY DEF LoginEnds, AccountsInv, Results
<1>4. AccountsInv'
  BY <1>1, <1>2, <1>3, InvNext DEF AccountsInv
<1>5. QED
  BY <1>2, <1>4, KeepsOut DEF Grows

(* What the daemon forgets when it stops. *)
LEMMA StopSound ==
    ASSUME AccountsInv, DaemonStops, NEW d
    PROVE  /\ login' \in [1..MaxSessions -> {"none", "running", "orphan", "telling"} \cup Results]
           /\ tracked' = {} /\ probe' = None
           /\ DOMAIN call' = Calls /\ \A b \in Calls : call'[b] = call[b] \/ CallSound(d, call'[b])
           /\ running' \in [Keys -> {None} \cup BOOLEAN] /\ \A k \in Keys : running'[k] = None
<1>1. login' \in [1..MaxSessions -> {"none", "running", "orphan", "telling"} \cup Results]
  <2>1. DOMAIN login = 1..MaxSessions
    BY DEF AccountsInv
  <2>2. QED
    BY <2>1 DEF DaemonStops, AccountsInv
<1>2. DOMAIN call' = Calls /\ \A b \in Calls : call'[b] = call[b] \/ call'[b] = Idle
  BY DEF DaemonStops
<1>3. QED
  BY <1>1, <1>2, IdleSound DEF DaemonStops

LEMMA EndedCalls ==
    ASSUME NEW i, NEW d
    PROVE  /\ DOMAIN EndCall(i) = Calls
           /\ \A b \in Calls : EndCall(i)[b] = call[b] \/ CallSound(d, EndCall(i)[b])
<1>1. DOMAIN EndCall(i) = Calls /\ \A b \in Calls : EndCall(i)[b] = call[b] \/ EndCall(i)[b] = Idle
  BY DEF EndCall
<1>2. QED
  BY <1>1, IdleSound

(* A login that failed twice: its account row is gone, and its session ends *)
(* as failed.                                                               *)
LEMMA FailedSound ==
    ASSUME NEW d, DbSound(d), NEW i \in DOMAIN d.session, NEW result \in Results
    PROVE  LET k == d.session[i].key
               e == UpdateAuthSession(UpdateAuthSession(d, i, k, result), i, k, "failed")
           IN  DbSound(e) /\ Keeps(d, e) /\ Len(e.session) = Len(d.session)
<1> DEFINE k == d.session[i].key
           u == UpdateAuthSession(d, i, k, result)
           e == UpdateAuthSession(u, i, k, "failed")
<1>1. k \in Keys /\ SessionSound(d.row, d.session[i])
  BY DbParts DEF AuthSession
<1>2. platform # "gmail" => k = "default"
  BY <1>1 DEF SessionSound
<1>3. u \in Database /\ u.row = d.row /\ Replaced(d, u, i, k, result)
  <2> HIDE DEF k, u
  <2>1. u = UpdateAuthSession(d, i, k, result)
    BY DEF u
  <2>2. QED
    BY <1>1, <2>1, SessionReplaced DEF DbSound
<1> HIDE DEF k, u
<1>4. i \in DOMAIN u.session
  BY <1>3 DEF Replaced
<1>5. e \in Database /\ e.row = u.row /\ Replaced(u, e, i, k, "failed")
  BY <1>1, <1>3, <1>4, SessionReplaced DEF Results
<1> HIDE DEF e
<1>6. ASSUME NEW j \in DOMAIN e.session
      PROVE  (j \in DOMAIN d.session /\ e.session[j] = d.session[j]) \/ SessionSound(e.row, e.session[j])
  BY <1>2, <1>3, <1>5, <1>6 DEF Replaced, SessionSound
<1>7. \A j \in Keys : e.row[j] # None => RowSound(j, e.row[j])
  BY <1>3, <1>5, DbParts
<1>8. \A j \in Keys : d.row[j] # None => e.row[j] # None
  BY <1>3, <1>5
<1>9. DbSound(e)
  BY <1>5, <1>6, <1>7, <1>8, DbNext
<1>10. QED
  BY <1>3, <1>5, <1>9 DEF Replaced, Keeps, e, u, k

LEMMA CompleteStep ==
    ASSUME AccountsInv, NEW i \in 1..MaxSessions, CompleteAndSchedule(i)
    PROVE  AccountsInv' /\ InvalidatedStep
<1> DEFINE k == db.session[i].key
           d == CompleteAuthSession(db, i, login[i], platform \notin Linked)
           dropped == /\ platform = "gmail" /\ login[i] # "authenticated"
                      /\ db.session[i].state = "cancelled" /\ LocalCall(i) = {}
           throws == ~dropped /\ db.row[k] = None /\ ~Ignored(db, i)
           tell == ~dropped /\ ~Ignored(db, i) /\ login[i] = "authenticated"
           failed == UpdateAuthSession(UpdateAuthSession(db, i, k, login[i]), i, k, "failed")
<1>1. /\ db' = IF dropped THEN db ELSE IF throws THEN UpdateAuthSession(d, i, k, "failed") ELSE d
      /\ IF throws /\ LocalCall(i) = {} THEN DaemonStops
         ELSE /\ login' = [login EXCEPT ![i] = IF tell /\ ~throws THEN "telling" ELSE "none"]
              /\ tracked' = IF tell /\ ~throws THEN tracked ELSE tracked \ {i}
              /\ call' = IF tell /\ ~throws THEN call ELSE EndCall(i)
              /\ UNCHANGED <<running, probe>>
  BY Zenon DEF CompleteAndSchedule
<1>2. /\ i \in DOMAIN db.session /\ login[i] \in Results /\ UNCHANGED <<platform, accepted>>
      /\ DbSound(db) /\ Len(db.session) \in Nat /\ Len(db.session) <= MaxSessions
  BY DbParts DEF CompleteAndSchedule, Sessions, AccountsInv
<1>3. /\ login' \in [1..MaxSessions -> {"none", "running", "orphan", "telling"} \cup Results]
      /\ tracked' \subseteq tracked
      /\ DOMAIN call' = Calls /\ \A b \in Calls : call'[b] = call[b] \/ CallSound(db', call'[b])
      /\ running' \in [Keys -> {None} \cup BOOLEAN]
      /\ platform \in Linked => \A j \in Keys : running'[j] = None
      /\ probe' # None => probe' \in Probe /\ platform \in Linked
  <2> HIDE DEF tell, throws, d, dropped
  <2>1. CASE throws /\ LocalCall(i) = {}
    BY <1>1, <2>1, StopSound
  <2>2. CASE ~(throws /\ LocalCall(i) = {})
    <3>1. /\ login' \in [1..MaxSessions -> {"none", "running", "orphan", "telling"} \cup Results]
          /\ tracked' \subseteq tracked
      BY <1>1, <2>2 DEF AccountsInv
    <3>2. call' = call \/ call' = EndCall(i)
      BY <1>1, <2>2
    <3>3. DOMAIN call' = Calls /\ \A b \in Calls : call'[b] = call[b] \/ CallSound(db', call'[b])
      BY <3>2, EndedCalls DEF AccountsInv
    <3>4. running' = running /\ probe' = probe
      BY <1>1, <2>2
    <3>5. QED
      BY <3>1, <3>3, <3>4 DEF AccountsInv
  <2>3. QED
    BY <2>1, <2>2
<1>4. Grows(db, db') /\ InvalidatedStep
  <2>1. CASE dropped
    <3>1. db' = db
      BY <1>1, <2>1
    <3>2. Grows(db, db') /\ Keeps(db, db')
      BY <3>1, NothingGrows
    <3>3. QED
      BY <3>2, KeepsOut DEF Grows
  <2>2. CASE throws
    <3>1. d = UpdateAuthSession(db, i, k, login[i])
      BY <2>2, Zenon DEF CompleteAuthSession
    <3>2. db' = UpdateAuthSession(d, i, k, "failed")
      BY <1>1, <2>2
    <3> HIDE DEF d
    <3>3. db' = failed
      BY <3>1, <3>2
    <3>4. DbSound(failed) /\ Keeps(db, failed) /\ Len(failed.session) = Len(db.session)
      BY <1>2, FailedSound
    <3> HIDE DEF failed
    <3>5. Len(db.session) <= Len(db'.session) /\ Len(db'.session) <= MaxSessions
      BY <1>2, <3>3, <3>4
    <3>6. QED
      BY <3>3, <3>4, <3>5, KeepsGrows, KeepsOut
  <2>3. CASE ~dropped /\ ~throws
    <3>1. db' = d
      BY <1>1, <2>3
    <3>2. login[i] = "authenticated" => db.row[k] # None \/ Ignored(db, i)
      BY <2>3
    <3>3. (platform \notin Linked) \in BOOLEAN
      OBVIOUS
    <3> DEFINE keychain == platform \notin Linked
               result == login[i]
    <3> HIDE DEF keychain, result
    <3>4. Completed(db, i, result, keychain, CompleteAuthSession(db, i, result, keychain))
      <4>1. keychain \in BOOLEAN /\ result \in Results
        BY <1>2 DEF keychain, result
      <4>2. result = "authenticated" => db.row[db.session[i].key] # None \/ Ignored(db, i)
        BY <3>2 DEF result
      <4>3. QED
        BY <1>2, <4>1, <4>2, CompleteSound
    <3>5. Completed(db, i, login[i], keychain, db')
      BY <3>1, <3>4 DEF keychain, result
    <3> HIDE DEF d
    <3>6. Len(db.session) <= Len(db'.session) /\ Len(db'.session) <= MaxSessions
      BY <1>2, <3>5 DEF Completed
    <3>7. Grows(db, db')
      BY <3>5, <3>6 DEF Completed, Grows
    <3>8. ASSUME NEW j \in Keys, db.row[j] # None, db.row[j].authInvalidated,
                 db'.row[j] # None, db'.row[j].auth = "authenticated"
          PROVE  login[i] = "authenticated" /\ login'[i] = "telling" /\ db'.session[i].key = j
      <4>1. login[i] = "authenticated" /\ LoggedInAs(db, i, j, db')
        BY <3>5, <3>8 DEF Completed
      <4>2. tell /\ ~throws
        BY <2>3, <4>1 DEF LoggedInAs
      <4> HIDE DEF tell, throws, dropped, k
      <4>3. login' = [login EXCEPT ![i] = "telling"]
        BY <1>1, <4>2
      <4>4. login'[i] = "telling"
        BY <4>3 DEF AccountsInv
      <4>5. QED
        BY <4>1, <4>4 DEF LoggedInAs
    <3>9. InvalidatedStep
      BY <1>2, <3>8 DEF InvalidatedStep, Sessions
    <3>10. QED
      BY <3>7, <3>9
  <2>4. QED
    BY <2>1, <2>2, <2>3
<1>5. tracked' \subseteq DOMAIN db'.session
  BY <1>3, <1>4, TrackedGrows
<1> HIDE DEF dropped, throws, tell, d, k
<1>6. AccountsInv'
  BY <1>2, <1>3, <1>4, <1>5, InvNext DEF AccountsInv
<1>7. QED
  BY <1>4, <1>6

LEMMA QueueAuthenticatedStep ==
    ASSUME AccountsInv, NEW i \in 1..MaxSessions, QueueAuthenticatedSync(i)
    PROVE  AccountsInv' /\ InvalidatedStep
<1> DEFINE k == db.session[i].key
           d == RepairSyncCapable(db)
           e == d.row[k]
           b == e # None /\ e.auth = "authenticated"
           q == [d.queued EXCEPT ![k] = @ \/ b]
<1>1. /\ DbSound(db) /\ Len(db.session) \in Nat /\ Len(db.session) <= MaxSessions
      /\ k \in Keys
  <2>1. DbSound(db) /\ i \in DOMAIN db.session
    BY DEF AccountsInv, QueueAuthenticatedSync, Sessions
  <2>2. QED
    BY <2>1, DbParts DEF AccountsInv, AuthSession
<1>2. db' = [d EXCEPT !.queued = q]
  BY Zenon DEF QueueAuthenticatedSync
<1>3. Softly(db, d) /\ d.queued = db.queued
  BY <1>1, RepairSoftly
<1> HIDE DEF d
<1>4. DbSound(d) /\ Keeps(db, d) /\ Len(d.session) = Len(db.session)
  BY <1>1, <1>3, SoftlySound DEF Softly
<1>5. q \in [Keys -> BOOLEAN]
  <2>1. b \in BOOLEAN
    OBVIOUS
  <2>2. d.queued \in [Keys -> BOOLEAN]
    BY <1>4 DEF DbSound, Database
  <2> HIDE DEF b
  <2>3. QED
    BY <2>1, <2>2
<1> HIDE DEF q
<1>6. d.stored \in [Keys -> Nat]
  BY <1>4 DEF DbSound, Database
<1>7. Softly(d, db')
  BY <1>2, <1>4, <1>5, <1>6, StoredWritten
<1>8. Grows(d, db') /\ Keeps(d, db')
  BY <1>1, <1>4, <1>7, SoftlyGrows
<1>9. Keeps(db, db')
  BY <1>4, <1>8, KeepsKeeps
<1>10. Grows(db, db')
  BY <1>4, <1>8, <1>9, KeepsGrows DEF Grows
<1>11. /\ UNCHANGED <<platform, accepted, running, probe>> /\ call' = EndCall(i)
       /\ tracked' = tracked \ {i} /\ login' = [login EXCEPT ![i] = "none"]
  BY DEF QueueAuthenticatedSync
<1>12. DOMAIN call' = Calls /\ \A c \in Calls : call'[c] = call[c] \/ CallSound(db', call'[c])
  BY <1>11, EndedCalls
<1>13. tracked' \subseteq DOMAIN db'.session
  BY <1>10, <1>11, TrackedGrows
<1>14. login' \in [1..MaxSessions -> {"none", "running", "orphan", "telling"} \cup Results]
  BY <1>11 DEF AccountsInv
<1>15. AccountsInv'
  BY <1>10, <1>11, <1>12, <1>13, <1>14, InvNext DEF AccountsInv
<1>16. QED
  BY <1>9, <1>10, <1>15, KeepsOut DEF Grows

LEMMA ListStatusStep ==
    ASSUME AccountsInv, ListStatus
    PROVE  AccountsInv' /\ InvalidatedStep
<1>1. PICK expired \in SUBSET Expirable : db' = ReconcileAbandoned(db, expired)
  BY DEF ListStatus
<1>2. DbSound(db) /\ Len(db.session) \in Nat /\ Len(db.session) <= MaxSessions
  BY DbParts DEF AccountsInv
<1>3. DbSound(db') /\ Keeps(db, db') /\ Len(db'.session) = Len(db.session)
  BY <1>1, <1>2, ReconcileSound
<1>4. Len(db.session) <= Len(db'.session) /\ Len(db'.session) <= MaxSessions
  BY <1>2, <1>3
<1>5. Grows(db, db')
  BY <1>3, <1>4, KeepsGrows
<1>6. AccountsInv'
  BY <1>5, OthersNext DEF ListStatus, AccountsInv
<1>7. QED
  BY <1>3, <1>6, KeepsOut

(* A step that only writes rows and columns by hand. *)
LEMMA SoftStep ==
    ASSUME AccountsInv, Softly(db, db'),
           UNCHANGED <<platform, accepted, login, tracked, call, running, probe>>
    PROVE  AccountsInv' /\ InvalidatedStep
<1>1. DbSound(db) /\ Len(db.session) <= MaxSessions
  BY DEF AccountsInv
<1>2. Grows(db, db') /\ Keeps(db, db')
  BY <1>1, SoftlyGrows
<1>3. AccountsInv'
  BY <1>2, OthersNext DEF AccountsInv
<1>4. QED
  BY <1>2, <1>3, KeepsOut DEF Grows

LEMMA DisconnectStep ==
    ASSUME AccountsInv, NEW k \in Keys, Disconnect(k)
    PROVE  AccountsInv' /\ InvalidatedStep
<1> DEFINE r == [db.row[k] EXCEPT !.auth = "cancelled", !.enabled = FALSE, !.keychain = FALSE]
           s == [db.stored EXCEPT
                    ![k] = IF db.row[k].keychain \/ platform = "whatsapp" THEN 0 ELSE @]
<1>1. DbSound(db) /\ db.row[k] # None /\ db.row[k] \in IntegrationState /\ db.stored \in [Keys -> Nat]
  BY DbParts DEF AccountsInv, Disconnect, DbSound, Database
<1>2. db' = [db EXCEPT !.stored = s, !.row = [db.row EXCEPT ![k] = r]]
  BY Zenon DEF Disconnect
<1>3. s \in [Keys -> Nat]
  BY <1>1
<1> HIDE DEF s
<1>4. r \in IntegrationState /\ r.auth = "cancelled" /\ r.authInvalidated = db.row[k].authInvalidated
  <2> DEFINE a == db.row[k]
  <2>1. a \in IntegrationState
    BY <1>1
  <2> HIDE DEF a
  <2>2. /\ [a EXCEPT !.auth = "cancelled", !.enabled = FALSE, !.keychain = FALSE] \in IntegrationState
        /\ [a EXCEPT !.auth = "cancelled", !.enabled = FALSE, !.keychain = FALSE].auth = "cancelled"
        /\ [a EXCEPT !.auth = "cancelled", !.enabled = FALSE, !.keychain = FALSE].authInvalidated
              = a.authInvalidated
    BY <2>1 DEF IntegrationState
  <2>3. QED
    BY <2>2 DEF a
<1> HIDE DEF r
<1>5. Softly(db, db')
  BY <1>1, <1>2, <1>3, <1>4, RowSoftly
<1>6. QED
  BY <1>5, SoftStep DEF Disconnect, Change

LEMMA RemoveStep ==
    ASSUME AccountsInv, NEW k \in Keys, NEW byDaemon \in BOOLEAN, Remove(k, byDaemon)
    PROVE  AccountsInv' /\ InvalidatedStep
<1> DEFINE T == [i \in DOMAIN db.session |->
                    IF db.session[i].key = k /\ db.session[i].state \in Open /\ IsLatest(db, i)
                    THEN [db.session[i] EXCEPT !.state = "cancelled"] ELSE db.session[i]]
           s == [db.stored EXCEPT ![k] = IF db.row[k].keychain \/ platform \in Linked THEN 0 ELSE @]
           q == [db.queued EXCEPT ![k] = FALSE]
           r == [db.row[k] EXCEPT !.auth = "cancelled", !.enabled = FALSE, !.keychain = FALSE,
                                  !.syncCapable = FALSE, !.userRemoved = TRUE]
           R == [db.row EXCEPT ![k] = r]
           killed == {i \in tracked : byDaemon /\ db.session[i].key = k}
<1>1. /\ DbSound(db) /\ db.row[k] # None /\ db.row[k] \in IntegrationState
      /\ db.stored \in [Keys -> Nat] /\ db.queued \in [Keys -> BOOLEAN]
      /\ Len(db.session) <= MaxSessions
  BY DbParts DEF AccountsInv, Remove, DbSound, Database
<1>2. db' = [db EXCEPT !.session = T, !.stored = s, !.queued = q, !.row = R]
  BY Zenon DEF Remove
<1>3. s \in [Keys -> Nat] /\ q \in [Keys -> BOOLEAN]
  BY <1>1
<1> HIDE DEF s, q
<1>4. r \in IntegrationState /\ r.auth = "cancelled" /\ r.authInvalidated = db.row[k].authInvalidated
  <2> DEFINE a == db.row[k]
             b == [a EXCEPT !.auth = "cancelled", !.enabled = FALSE, !.keychain = FALSE,
                            !.syncCapable = FALSE, !.userRemoved = TRUE]
  <2>1. a \in IntegrationState
    BY <1>1
  <2> HIDE DEF a
  <2>2. b \in IntegrationState /\ b.auth = "cancelled" /\ b.authInvalidated = a.authInvalidated
    BY <2>1 DEF IntegrationState
  <2>3. QED
    BY <2>2 DEF a
<1> HIDE DEF r
<1>5. R \in [Keys -> {None} \cup IntegrationState] /\ \A j \in Keys : R[j] = IF j = k THEN r ELSE db.row[j]
  BY <1>1, <1>4, DbParts
<1> HIDE DEF R
<1>6. /\ T \in [DOMAIN db.session -> AuthSession]
      /\ \A i \in DOMAIN db.session :
            T[i].key = db.session[i].key /\ (T[i] = db.session[i] \/ T[i].state = "cancelled")
  <2>0. T = [i \in DOMAIN db.session |-> T[i]]
    OBVIOUS
  <2>1. ASSUME NEW i \in DOMAIN db.session
        PROVE  /\ T[i] \in AuthSession /\ T[i].key = db.session[i].key
               /\ T[i] = db.session[i] \/ T[i].state = "cancelled"
    <3> DEFINE c == [db.session[i] EXCEPT !.state = "cancelled"]
    <3>1. T[i] \in {c, db.session[i]}
      OBVIOUS
    <3>2. db.session[i] \in AuthSession
      BY <1>1, DbParts
    <3>3. c \in AuthSession /\ c.key = db.session[i].key /\ c.state = "cancelled"
      BY <3>2, CancelledSession
    <3> HIDE DEF T, c
    <3>4. QED
      BY <3>1, <3>2, <3>3
  <2> HIDE DEF T
  <2>2. QED
    BY <2>0, <2>1
<1> HIDE DEF T
<1>7. T \in Seq(AuthSession) /\ DOMAIN T = DOMAIN db.session /\ Len(T) = Len(db.session)
  BY <1>1, <1>6, DbParts, SameSessions
<1>8. db' \in Database /\ db'.session = T /\ db'.row = R
  BY <1>1, <1>2, <1>3, <1>5, <1>7 DEF DbSound, Database
<1>9. Softly(db, db')
  BY <1>1, <1>4, <1>5, <1>6, <1>7, <1>8, RowsExist DEF Softly
<1>10. Grows(db, db') /\ Keeps(db, db')
  BY <1>1, <1>9, SoftlyGrows
<1>11. /\ login' = [i \in DOMAIN login |->
                        IF i \in killed /\ login[i] = "running" /\ platform \notin Linked
                        THEN "failed" ELSE login[i]]
       /\ tracked' = tracked \ killed
       /\ UNCHANGED <<platform, accepted, call, running, probe>>
  BY Zenon DEF Remove, Change
<1>12. login' \in [1..MaxSessions -> {"none", "running", "orphan", "telling"} \cup Results]
  BY <1>11 DEF AccountsInv, Results
<1> HIDE DEF killed
<1>13. tracked' \subseteq DOMAIN db'.session
  BY <1>10, <1>11, TrackedGrows
<1>14. AccountsInv'
  BY <1>10, <1>11, <1>12, <1>13, InvNext DEF AccountsInv
<1>15. QED
  BY <1>10, <1>14, KeepsOut DEF Grows

LEMMA SetEnabledStep ==
    ASSUME AccountsInv, NEW k \in Keys, NEW on \in BOOLEAN, SetIntegrationEnabled(k, on)
    PROVE  AccountsInv' /\ InvalidatedStep
<1> DEFINE a == db.row[k]
           r == [a EXCEPT !.enabled = on]
<1>1. DbSound(db) /\ db.row[k] # None /\ a \in IntegrationState /\ db.stored \in [Keys -> Nat]
  BY DbParts DEF AccountsInv, SetIntegrationEnabled, DbSound, Database
<1>2. db' = [db EXCEPT !.row = [db.row EXCEPT ![k] = r]]
  BY Zenon DEF SetIntegrationEnabled
<1>3. r \in IntegrationState /\ r.auth = db.row[k].auth /\ r.authInvalidated = db.row[k].authInvalidated
  <2> HIDE DEF a
  <2>1. r \in IntegrationState /\ r.auth = a.auth /\ r.authInvalidated = a.authInvalidated
    BY <1>1 DEF IntegrationState
  <2>2. QED
    BY <2>1 DEF a
<1> HIDE DEF r
<1> DEFINE R == [db.row EXCEPT ![k] = r]
           s == db.stored
<1>4. Softly(db, [db EXCEPT !.stored = s, !.row = R])
  BY <1>1, <1>3, RowSoftly
<1> HIDE DEF R
<1>5. db' = [db EXCEPT !.stored = s, !.row = R]
  BY <1>1, <1>2 DEF R, DbSound, Database
<1> HIDE DEF s
<1>6. Softly(db, db')
  BY <1>4, <1>5
<1>7. QED
  BY <1>6, SoftStep DEF SetIntegrationEnabled, Change

LEMMA RevokesStep ==
    ASSUME AccountsInv, NEW k \in Keys, ProviderRevokes(k)
    PROVE  AccountsInv' /\ InvalidatedStep
<1>1. UNCHANGED <<platform, db, login, tracked, call, running, probe>>
  BY DEF ProviderRevokes, Change
<1>2. accepted' \in [Keys -> BOOLEAN]
  BY DEF ProviderRevokes, AccountsInv
<1>3. Grows(db, db') /\ Keeps(db, db')
  BY <1>1, NothingGrows
<1>4. AccountsInv'
  BY <1>1, <1>2, <1>3, InvNext DEF AccountsInv
<1>5. QED
  BY <1>3, <1>4, KeepsOut DEF Grows

LEMMA QueueSoftly ==
    ASSUME AccountsInv, NEW k \in Keys, NEW b \in BOOLEAN, db' = [db EXCEPT !.queued[k] = b]
    PROVE  Softly(db, db')
<1> DEFINE q == [db.queued EXCEPT ![k] = b]
<1>1. DbSound(db) /\ db.queued \in [Keys -> BOOLEAN] /\ db.stored \in [Keys -> Nat]
  BY DEF AccountsInv, DbSound, Database
<1>2. db' = [db EXCEPT !.queued = q]
  BY Zenon
<1>3. q \in [Keys -> BOOLEAN]
  BY <1>1
<1> HIDE DEF q
<1>4. Softly(db, [db EXCEPT !.queued = q])
  BY <1>1, <1>3, StoredWritten
<1>5. QED
  BY <1>2, <1>4

LEMMA QueueAutoStep ==
    ASSUME AccountsInv, NEW k \in Keys, QueueAutoSync(k)
    PROVE  AccountsInv' /\ InvalidatedStep
<1>1. Softly(db, db')
  BY QueueSoftly DEF QueueAutoSync
<1>2. QED
  BY <1>1, SoftStep DEF QueueAutoSync

LEMMA SyncStartsStep ==
    ASSUME AccountsInv, NEW k \in Keys, SyncStarts(k)
    PROVE  AccountsInv' /\ InvalidatedStep
<1>1. Softly(db, db')
  BY QueueSoftly DEF SyncStarts
<1>2. DbSound(db) /\ Len(db.session) <= MaxSessions
  BY DEF AccountsInv
<1>3. Grows(db, db') /\ Keeps(db, db')
  BY <1>1, <1>2, SoftlyGrows
<1>4. UNCHANGED <<platform, accepted, login, tracked, call, probe>> /\ platform \notin Linked
  BY DEF SyncStarts
<1>5. running' \in [Keys -> {None} \cup BOOLEAN]
  BY DEF SyncStarts, AccountsInv
<1>6. tracked' \subseteq DOMAIN db'.session
  BY <1>3, <1>4, TrackedGrows
<1>7. AccountsInv'
  BY <1>3, <1>4, <1>5, <1>6, InvNext DEF AccountsInv
<1>8. QED
  BY <1>3, <1>7, KeepsOut DEF Grows

(* A refused sync: the row is not authenticated any more. *)
LEMMA InvalidateSound ==
    ASSUME NEW d, DbSound(d), NEW k \in Keys, platform \notin Linked
    PROVE  LET e == InvalidateIntegrationAuth(d, k)
           IN  DbSound(e) /\ Keeps(d, e) /\ Len(e.session) = Len(d.session)
<1> DEFINE a == d.row[k]
           r == [a EXCEPT !.auth = "needs_auth", !.syncCapable = FALSE, !.authInvalidated = TRUE]
           e == InvalidateIntegrationAuth(d, k)
<1>1. CASE a = None
  <2>1. e = d
    BY <1>1 DEF InvalidateIntegrationAuth
  <2> HIDE DEF e
  <2>2. QED
    BY <2>1 DEF Keeps, e
<1>2. CASE a # None
  <2>1. e = UpsertIntegrationState(d, k, r)
    BY <1>2, Zenon DEF InvalidateIntegrationAuth, UpsertIntegrationState
  <2>2. a \in IntegrationState /\ RowSound(k, a)
    BY <1>2, DbParts
  <2> HIDE DEF a
  <2>3. r \in IntegrationState /\ r.auth = "needs_auth" /\ r.authInvalidated
    BY <2>2 DEF IntegrationState
  <2> HIDE DEF r, e
  <2>4. RowSound(k, r)
    BY <2>2, <2>3 DEF RowSound
  <2>5. DbSound(e) /\ e.session = d.session /\ e.row = [d.row EXCEPT ![k] = r]
    BY <2>1, <2>3, <2>4, RowWritten
  <2>6. \A j \in Keys : e.row[j] = IF j = k THEN r ELSE d.row[j]
    BY <2>5, DbParts
  <2>7. Keeps(d, e)
    BY <2>3, <2>6, RowsExist DEF Keeps
  <2>8. QED
    BY <2>5, <2>7 DEF e
<1>3. QED
  BY <1>1, <1>2

LEMMA SyncEndsStep ==
    ASSUME AccountsInv, NEW k \in Keys, SyncEnds(k)
    PROVE  AccountsInv' /\ InvalidatedStep
<1>1. DbSound(db) /\ Len(db.session) <= MaxSessions /\ Len(db.session) \in Nat /\ platform \notin Linked
  BY DbParts DEF AccountsInv, SyncEnds
<1>2. UNCHANGED <<platform, accepted, login, tracked, call, probe>>
  BY DEF SyncEnds
<1>3. Grows(db, db') /\ Keeps(db, db')
  <2>1. CASE running[k]
    <3>1. db' = db
      BY <2>1 DEF SyncEnds
    <3>2. QED
      BY <3>1, NothingGrows
  <2>2. CASE ~running[k]
    <3>1. db' = InvalidateIntegrationAuth(db, k)
      BY <2>2 DEF SyncEnds
    <3>2. DbSound(db') /\ Keeps(db, db') /\ Len(db'.session) = Len(db.session)
      BY <1>1, <3>1, InvalidateSound
    <3>3. Len(db.session) <= Len(db'.session) /\ Len(db'.session) <= MaxSessions
      BY <1>1, <3>2
    <3>4. QED
      BY <3>2, <3>3, KeepsGrows
  <2>3. QED
    BY <2>1, <2>2
<1>4. running' \in [Keys -> {None} \cup BOOLEAN]
  BY DEF SyncEnds, AccountsInv
<1>5. tracked' \subseteq DOMAIN db'.session
  BY <1>2, <1>3, TrackedGrows
<1>6. AccountsInv'
  BY <1>1, <1>2, <1>3, <1>4, <1>5, InvNext DEF AccountsInv
<1>7. QED
  BY <1>3, <1>6, KeepsOut DEF Grows

LEMMA RefreshStep ==
    ASSUME AccountsInv, Refresh
    PROVE  AccountsInv' /\ InvalidatedStep
<1>1. PICK expired \in SUBSET Expirable :
        LET d == ImportStoredAuth(ReconcileAbandoned(db, expired), FALSE)
            e == d.row["default"]
        IN  /\ db' = d
            /\ probe' = IF platform \in Linked /\ (e = None \/ ~e.userRemoved)
                        THEN [seen |-> IF e = None THEN None ELSE e.auth, linked |-> None]
                        ELSE None
  BY Zenon DEF Refresh
<1> DEFINE d == ReconcileAbandoned(db, expired)
           i == ImportStoredAuth(d, FALSE)
           e == i.row["default"]
<1>2. /\ DbSound(db) /\ Len(db.session) \in Nat /\ Len(db.session) <= MaxSessions
      /\ UNCHANGED <<platform, accepted, login, tracked, call, running>>
  BY DbParts DEF AccountsInv, Refresh
<1>3. /\ db' = i
      /\ probe' = IF platform \in Linked /\ (e = None \/ ~e.userRemoved)
                  THEN [seen |-> IF e = None THEN None ELSE e.auth, linked |-> None]
                  ELSE None
  BY <1>1
<1>4. DbSound(d) /\ Keeps(db, d) /\ Len(d.session) = Len(db.session)
  BY <1>2, ReconcileSound
<1> HIDE DEF d
<1>5. DbSound(i) /\ Keeps(d, i) /\ (i = d \/ Imported(d, i))
  BY <1>4, ImportSound
<1> HIDE DEF i
<1>6. Keeps(db, i)
  BY <1>4, <1>5, KeepsKeeps
<1>7. Len(db.session) <= Len(i.session) /\ Len(i.session) <= MaxSessions
  BY <1>2, <1>4, <1>5, AccountsAssumption DEF Imported
<1>8. Grows(db, db') /\ Keeps(db, db')
  BY <1>3, <1>5, <1>6, <1>7, KeepsGrows
<1>9. probe' # None => probe' \in Probe /\ platform \in Linked
  <2>1. e # None => e \in IntegrationState
    BY <1>5, DbParts DEF Keys
  <2>2. IF e = None THEN TRUE ELSE e.auth \in Open \cup {"authenticated", "failed", "cancelled", "needs_auth"}
    BY <2>1 DEF IntegrationState
  <2> HIDE DEF e
  <2>3. QED
    BY <1>3, <2>2 DEF Probe
<1>10. AccountsInv'
  BY <1>2, <1>8, <1>9, OthersNext
<1>11. QED
  BY <1>8, <1>10, KeepsOut DEF Grows

LEMMA HelperStep ==
    ASSUME AccountsInv, HelperAnswers
    PROVE  AccountsInv' /\ InvalidatedStep
<1>1. UNCHANGED <<platform, db, accepted, login, tracked, call, running>>
  BY DEF HelperAnswers
<1>2. probe \in Probe /\ platform \in Linked
  BY DEF HelperAnswers, AccountsInv
<1>3. probe' \in Probe
  BY <1>2 DEF HelperAnswers, Probe
<1>4. Grows(db, db') /\ Keeps(db, db')
  BY <1>1, NothingGrows
<1>5. AccountsInv'
  BY <1>1, <1>2, <1>3, <1>4, OthersNext
<1>6. QED
  BY <1>4, <1>5, KeepsOut DEF Grows

LEMMA UpsertStep ==
    ASSUME AccountsInv, UpsertManagedIntegrationState
    PROVE  AccountsInv' /\ InvalidatedStep
<1> DEFINE auth == ManagedAuth(probe.seen, probe.linked)
           e == db.row["default"]
           r == [auth |-> auth, enabled |-> e = None \/ e.enabled,
                 syncCapable |-> auth = "authenticated", userRemoved |-> FALSE,
                 keychain |-> FALSE, authInvalidated |-> FALSE]
<1>1. /\ DbSound(db) /\ Len(db.session) <= MaxSessions /\ Len(db.session) \in Nat
      /\ "default" \in Keys
  BY DbParts DEF AccountsInv, Keys
<1>2. platform \in Linked /\ probe \in Probe /\ probe.linked \in BOOLEAN
  BY DEF UpsertManagedIntegrationState, AccountsInv, Probe
<1>3. auth \in Open \cup {"authenticated", "failed", "cancelled", "needs_auth"}
  BY DEF ManagedAuth
<1>4. e # None => e \in IntegrationState /\ RowSound("default", e)
  BY <1>1, DbParts
<1>5. db' = UpsertIntegrationState(db, "default", r)
  BY Zenon DEF UpsertManagedIntegrationState
<1> HIDE DEF auth, e
<1>6. r \in IntegrationState /\ ~r.authInvalidated
  <2>1. (e = None \/ e.enabled) \in BOOLEAN /\ (auth = "authenticated") \in BOOLEAN
    OBVIOUS
  <2>2. QED
    BY <1>3, <2>1 DEF IntegrationState
<1> HIDE DEF r
<1>7. RowSound("default", r)
  BY <1>6 DEF RowSound
<1>8. DbSound(db') /\ db'.session = db.session /\ db'.row = [db.row EXCEPT !["default"] = r]
  BY <1>1, <1>5, <1>6, <1>7, RowWritten
<1>9. Keeps(db, db')
  <2>1. \A k \in Keys : db'.row[k] = IF k = "default" THEN r ELSE db.row[k]
    BY <1>8, <1>1, DbParts
  <2>2. \A k \in Keys : db.row[k] # None => ~db.row[k].authInvalidated
    BY <1>1, <1>2, DbParts DEF RowSound
  <2>3. QED
    BY <1>6, <2>1, <2>2, RowsExist DEF Keeps
<1>10. Len(db.session) <= Len(db'.session) /\ Len(db'.session) <= MaxSessions
  BY <1>1, <1>8
<1>11. Grows(db, db')
  BY <1>8, <1>9, <1>10, KeepsGrows
<1>12. UNCHANGED <<platform, accepted, login, tracked, call, running>> /\ probe' = None
  BY DEF UpsertManagedIntegrationState
<1>13. AccountsInv'
  BY <1>11, <1>12, OthersNext
<1>14. QED
  BY <1>8, <1>9, <1>13, KeepsOut

LEMMA CrashStep ==
    ASSUME AccountsInv, Crash
    PROVE  AccountsInv' /\ InvalidatedStep
<1>1. UNCHANGED <<platform, db, accepted>> /\ DaemonStops
  BY DEF Crash
<1>2. Grows(db, db') /\ Keeps(db, db')
  BY <1>1, NothingGrows
<1> DEFINE d == db'
<1> HIDE DEF d
<1>3. /\ login' \in [1..MaxSessions -> {"none", "running", "orphan", "telling"} \cup Results]
      /\ tracked' = {} /\ probe' = None
      /\ DOMAIN call' = Calls /\ \A b \in Calls : call'[b] = call[b] \/ CallSound(d, call'[b])
      /\ running' \in [Keys -> {None} \cup BOOLEAN] /\ \A k \in Keys : running'[k] = None
  BY <1>1, StopSound
<1>4. AccountsInv'
  BY <1>1, <1>2, <1>3, InvNext DEF AccountsInv, d
<1>5. QED
  BY <1>2, <1>4, KeepsOut DEF Grows

LEMMA AccountsInitInv == AccountsInit => AccountsInv
<1> SUFFICES ASSUME AccountsInit PROVE AccountsInv
  OBVIOUS
<1>1. db = [row |-> [k \in Keys |-> None], session |-> <<>>,
            stored |-> [k \in Keys |-> 0], queued |-> [k \in Keys |-> FALSE]]
  BY DEF AccountsInit
<1>2. <<>> \in Seq(AuthSession) /\ Len(<<>>) = 0 /\ DOMAIN <<>> = 1..0
  OBVIOUS
<1>3. /\ db \in Database /\ db.session = <<>> /\ \A k \in Keys : db.row[k] = None
  BY <1>1, <1>2 DEF Database
<1>4. DbSound(db) /\ Len(db.session) <= MaxSessions
  <2>1. ~ \E i \in DOMAIN db.session : TRUE
    BY <1>2, <1>3
  <2>2. QED
    BY <1>2, <1>3, <2>1, AccountsAssumption DEF DbSound
<1>5. DOMAIN call = Calls /\ \A c \in Calls : CallSound(db, call[c])
  BY IdleSound DEF AccountsInit
<1>6. QED
  BY <1>4, <1>5 DEF AccountsInit, AccountsInv

LEMMA AccountsStep ==
    ASSUME AccountsInv, [AccountsNext]_accountsVars
    PROVE  AccountsInv' /\ InvalidatedStep
<1>1. CASE \E c \in Calls : \/ \E k \in Keys, local \in BOOLEAN : Connect(c, k, local)
                            \/ Validated(c) \/ StartAuthSession(c)
  BY <1>1, ConnectStep, ValidatedStep, StartStep
<1>2. CASE \E i \in 1..MaxSessions : \/ LoginStores(i) \/ LoginEnds(i)
                                     \/ CompleteAndSchedule(i) \/ QueueAuthenticatedSync(i)
  BY <1>2, LoginStoresStep, LoginEndsStep, CompleteStep, QueueAuthenticatedStep
<1>3. CASE \E k \in Keys : \/ Disconnect(k) \/ ProviderRevokes(k)
                           \/ \E b \in BOOLEAN : Remove(k, b) \/ SetIntegrationEnabled(k, b)
                           \/ QueueAutoSync(k) \/ SyncStarts(k) \/ SyncEnds(k)
  BY <1>3, DisconnectStep, RevokesStep, RemoveStep, SetEnabledStep, QueueAutoStep, SyncStartsStep,
     SyncEndsStep
<1>4. CASE ListStatus \/ Refresh \/ HelperAnswers \/ UpsertManagedIntegrationState \/ Crash
  BY <1>4, ListStatusStep, RefreshStep, HelperStep, UpsertStep, CrashStep
<1>5. CASE UNCHANGED accountsVars
  <2>1. UNCHANGED <<platform, db, accepted, login, tracked, call, running, probe>>
    BY <1>5 DEF accountsVars
  <2>2. Grows(db, db') /\ Keeps(db, db')
    BY <2>1, NothingGrows
  <2>3. AccountsInv'
    BY <2>1, <2>2, OthersNext DEF AccountsInv
  <2>4. QED
    BY <2>2, <2>3, KeepsOut DEF Grows
<1>6. QED
  BY <1>1, <1>2, <1>3, <1>4, <1>5 DEF AccountsNext

(* Every reachable state of the accounts is sound: rows that were          *)
(* invalidated, sessions that succeeded, requests and refreshes under way. *)
THEOREM AccountsInvHolds == AccountsSpec => []AccountsInv
<1>1. AccountsInv /\ [AccountsNext]_accountsVars => AccountsInv'
  BY AccountsStep
<1>2. QED
  BY <1>1, AccountsInitInv, PTL DEF AccountsSpec

LEMMA AccountsTyped == AccountsInv => AccountsTypeOK
<1> SUFFICES ASSUME AccountsInv PROVE AccountsTypeOK
  OBVIOUS
<1>1. /\ DbSound(db) /\ db \in Database /\ db.row \in [Keys -> {None} \cup IntegrationState]
      /\ db.session \in Seq(AuthSession)
      /\ \A k \in Keys : platform # "gmail" => (db.row[k] # None => k = "default")
  BY DbParts DEF AccountsInv, DbSound, RowSound
<1>2. db.stored \in [Keys -> Nat] /\ db.queued \in [Keys -> BOOLEAN]
  BY <1>1 DEF Database
<1>3. \A c \in Calls : call[c].at \in {"idle", "validating"} <=> call[c].session = 0
  BY DEF AccountsInv, CallSound
<1>4. probe = None \/ probe.linked \in {None} \cup BOOLEAN
  BY DEF AccountsInv, Probe
<1>5. QED
  BY <1>1, <1>2, <1>3, <1>4 DEF AccountsInv, AccountsTypeOK

(* Rows, sessions, logins, requests and refreshes keep their shape; only   *)
(* Gmail has accounts under other names than the default one.              *)
THEOREM AccountsTypeCorrect == AccountsSpec => []AccountsTypeOK
  BY AccountsInvHolds, AccountsTyped, PTL

LEMMA LoginsNamed == AccountsInv => LoginsHaveAccounts
  BY DbParts DEF AccountsInv, LoginsHaveAccounts, SessionSound, Sessions

(* A login that succeeded belongs to an account that exists.               *)
THEOREM LoginsBelong == AccountsSpec => []LoginsHaveAccounts
  BY AccountsInvHolds, LoginsNamed, PTL

(* An account whose secret was refused is authenticated again only by a    *)
(* login of that account that succeeds, or by a secret that the provider   *)
(* has just been asked about.                                              *)
THEOREM InvalidatedStaysOut == AccountsSpec => InvalidatedNeedsLogin
<1>1. AccountsInv /\ [AccountsNext]_accountsVars => [InvalidatedStep]_accountsVars
  BY AccountsStep
<1>2. AccountsSpec => [][InvalidatedStep]_accountsVars
  BY <1>1, AccountsInvHolds, PTL DEF AccountsSpec
<1>3. QED
  BY <1>2 DEF InvalidatedNeedsLogin, InvalidatedStep
=============================================================================
