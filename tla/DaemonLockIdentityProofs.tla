---------------------- MODULE DaemonLockIdentityProofs ----------------------
(***************************************************************************)
(* Theorems about DaemonLock, for any number of processes and crashes: its *)
(* type invariant, one daemon at a time, and its socket.                   *)
(*                                                                         *)
(* Theorems about Identity, for any events, page size and numbers of       *)
(* merges and rebuilds: its type invariant, that what was revoked stays    *)
(* so, that no event below the watermark is lost and that merges made by   *)
(* hand hold.  There are two invariants.  Sound says of the tables what a  *)
(* rebuild needs (finitely many reactions: FoldSet merges them one by one) *)
(* and of the worker that its page is of events that there are.  Lasting   *)
(* says that what was decided has no circle, that references between       *)
(* tables hold and that a cache, unless its process missed a change of     *)
(* ids, is true of the tables.  Every operation on a state of the          *)
(* projection has a lemma that says what it keeps; the page, a recursive   *)
(* function, is reasoned about by a smallest counterexample, the fold over *)
(* reactions by a smallest part.                                           *)
(***************************************************************************)
EXTENDS DaemonLock, Identity, FiniteSetTheorems, TLAPS

(* Where a process has the lock file it created open, and where it has     *)
(* closed that file and is about to remove it.                             *)
HasFileOpen == {"filling", "releasing", "failing"} \cup Starting \cup Working
GivesUp == {"unlinking", "retracting"}
IsHolder(p) == pc[p] \in HasFileOpen \cup GivesUp

OneStarter ==
    \A p, q \in Procs : pc[p] \in Acquiring /\ pc[q] \in Acquiring => p = q

(* What makes two holders impossible: the path has one owner. *)
HoldersOwn ==
    \A p \in Procs : /\ pc[p] \in HasFileOpen => p \in open /\ lock.owner = p
                     /\ pc[p] \in GivesUp => lock.owner = p

(* What a starter is about to remove belongs to nobody. *)
RemovedIsDead == (\E q \in Procs : pc[q] = "removing") => \A p \in Procs : ~IsHolder(p)

Inv == Undisturbed => OneStarter /\ HoldersOwn /\ RemovedIsDead /\ ~IsExposed

(* What a step makes of a lock file is one. *)
LEMMA LockFileChanges ==
    /\ \A p \in Procs : [owner |-> p, written |-> FALSE, fresh |-> TRUE] \in LockFile
    /\ [owner : Procs, written : {TRUE}, fresh : BOOLEAN] \subseteq LockFile
    /\ \A f \in LockFile : /\ [f EXCEPT !.written = TRUE] \in LockFile
                          /\ [f EXCEPT !.fresh = TRUE] \in LockFile
                          /\ [f EXCEPT !.fresh = FALSE] \in LockFile
<1>1. \A p \in Procs : [owner |-> p, written |-> FALSE, fresh |-> TRUE] \in LockFile
  BY DEF LockFile
<1>2. [owner : Procs, written : {TRUE}, fresh : BOOLEAN] \subseteq LockFile
  BY DEF LockFile
<1>3. ASSUME NEW f \in LockFile PROVE [f EXCEPT !.written = TRUE] \in LockFile
  BY DEF LockFile
<1>4. ASSUME NEW f \in LockFile PROVE [f EXCEPT !.fresh = TRUE] \in LockFile
  BY DEF LockFile
<1>5. ASSUME NEW f \in LockFile PROVE [f EXCEPT !.fresh = FALSE] \in LockFile
  BY DEF LockFile
<1> QED
  BY <1>1, <1>2, <1>3, <1>4, <1>5

(* Its age does not change whose it is. *)
LEMMA OwnerUntouched ==
    ASSUME TypeOK, NEW b \in BOOLEAN
    PROVE  [lock EXCEPT !.fresh = b].owner = lock.owner
BY DEF TypeOK, LockFile, NoFile

(* An owned file is not the absence of one. *)
LEMMA OwnedIsFile ==
    ASSUME TypeOK, NEW p \in Procs, lock.owner = p PROVE lock \in LockFile
BY DaemonLockAssumption DEF TypeOK, NoFile

(* Type correctness of the files and of where each process is, in every    *)
(* step of start, take-over and shutdown.                                  *)
THEOREM LockTypeCorrect == Spec => []TypeOK
<1> USE DaemonLockAssumption
<1>1. ASSUME Init PROVE TypeOK
  <2>1. lock \in LockFile \cup {NoFile}
    BY <1>1, LockFileChanges DEF Init
  <2>2. pc \in [Procs -> {"off"} \cup Acquiring \cup Starting \cup Working \cup Leaving]
    BY <1>1 DEF Init
  <2>3. /\ slow \in 0..MaxSlow /\ crashes \in 0..MaxCrashes
        /\ open \subseteq Procs /\ socket \in Procs \cup {NoProc}
    BY <1>1 DEF Init
  <2>4. overlapped \in BOOLEAN /\ exposed \in BOOLEAN
    BY <1>1 DEF Init
  <2> QED
    BY <2>1, <2>2, <2>3, <2>4 DEF TypeOK
<1>2. TypeOK /\ [Next]_vars => TypeOK'
  <2> SUFFICES ASSUME TypeOK, [Next]_vars PROVE TypeOK'
    OBVIOUS
  <2> USE DEF TypeOK, Goes, Acquiring, Starting, Working, Leaving
  <2>0. CASE UNCHANGED vars
    BY <2>0 DEF vars
  <2>1. CASE Next
    <3>0. exposed' \in BOOLEAN
      BY <2>1 DEF Next, IsExposed
    <3>1. ASSUME NEW p \in Procs, Start(p) PROVE TypeOK'
      BY <3>0, <3>1 DEF Start
    <3>2. ASSUME NEW p \in Procs, OpenLock(p) PROVE TypeOK'
      BY <3>0, <3>2, LockFileChanges DEF OpenLock
    <3>3. ASSUME NEW p \in Procs, FillLock(p) PROVE TypeOK'
      BY <3>0, <3>3, LockFileChanges, OwnedIsFile DEF FillLock, StillOwnsPath
    <3>4. ASSUME NEW p \in Procs, Look(p) \/ RemoveLock(p) PROVE TypeOK'
      BY <3>0, <3>4 DEF Look, RemoveLock
    <3>5. ASSUME NEW p \in Procs, Probe(p) PROVE TypeOK'
      BY <3>0, <3>5 DEF Probe, NoAnswerInTime
    <3>6. ASSUME NEW p \in Procs, CleanSocketPath(p) \/ RemoveSocket(p) PROVE TypeOK'
      BY <3>0, <3>6 DEF CleanSocketPath, RemoveSocket
    <3>7. ASSUME NEW p \in Procs, Ask(p) PROVE TypeOK'
      BY <3>0, <3>7 DEF Ask, NoAnswerInTime
    <3>8. ASSUME NEW p \in Procs, OpenDatabase(p) PROVE TypeOK'
      BY <3>0, <3>8 DEF OpenDatabase
    <3>9. ASSUME NEW p \in Procs, Listen(p) PROVE TypeOK'
      BY <3>0, <3>9 DEF Listen
    <3>10. ASSUME NEW p \in Procs, Heartbeat(p) PROVE TypeOK'
      BY <3>0, <3>10, LockFileChanges, OwnedIsFile DEF Heartbeat, StillOwnsPath
    <3>11. ASSUME NEW p \in Procs, Shutdown(p) \/ CloseDatabase(p) \/ Tidy(p) PROVE TypeOK'
      BY <3>0, <3>11 DEF Shutdown, CloseDatabase, Tidy
    <3>12. ASSUME NEW p \in Procs, CheckPath(p) \/ Unlink(p) PROVE TypeOK'
      BY <3>0, <3>12 DEF CheckPath, Unlink, AfterRelease
    <3>13. ASSUME NEW p \in Procs, Crash(p) PROVE TypeOK'
      BY <3>0, <3>13 DEF Crash
    <3>14. CASE GrowsStale
      <4>1. lock \in LockFile
        BY <3>14 DEF GrowsStale, NoFile
      <4> QED
        BY <3>0, <3>14, <4>1, LockFileChanges DEF GrowsStale
    <3> QED
      BY <2>1, <3>1, <3>2, <3>3, <3>4, <3>5, <3>6, <3>7, <3>8, <3>9, <3>10, <3>11,
         <3>12, <3>13, <3>14 DEF Next, Acquire, ComeUp, Leave
  <2> QED
    BY <2>0, <2>1
<1> QED
  BY <1>1, <1>2, PTL DEF Spec

(* What has disturbed the daemons once has done so for ever. *)
LEMMA DisturbanceStays ==
    ASSUME TypeOK, [Next]_vars, Undisturbed' PROVE Undisturbed
<1> USE DaemonLockAssumption
<1>1. CASE UNCHANGED vars
  BY <1>1 DEF vars, Undisturbed
<1>2. CASE Next
  <2>1. ~exposed
    BY <1>2 DEF Next, Undisturbed
  <2>2. (overlapped => overlapped') /\ slow <= slow'
    BY <1>2 DEF Next, TypeOK, Acquire, ComeUp, Leave, Start, OpenLock, FillLock, Look, Probe,
       RemoveLock, CleanSocketPath, Ask, RemoveSocket, OpenDatabase, Listen, Heartbeat, Shutdown,
       CloseDatabase, CheckPath, Unlink, Tidy, Crash, GrowsStale, NoAnswerInTime
  <2> QED
    BY <2>1, <2>2 DEF Undisturbed, TypeOK
<1> QED
  BY <1>1, <1>2

LEMMA InvInit == Init => Inv
<1> SUFFICES ASSUME Init PROVE Inv
  OBVIOUS
<1>1. \A p \in Procs : pc[p] = "off"
  BY DEF Init
<1>2. open = {}
  BY DEF Init
<1> QED
  BY <1>1, <1>2 DEF Inv, OneStarter, HoldersOwn, RemovedIsDead, IsHolder, HasFileOpen, GivesUp,
     Starting, Working, Acquiring, IsExposed, Owns

(* Only one process can hold the lock: its path has one owner.  While a    *)
(* starter doubts the lock, its holder serves and has the socket.          *)
LEMMA HolderFacts ==
    ASSUME TypeOK, Undisturbed, Inv,
           NEW p \in Procs, NEW q \in Procs, IsHolder(p)
    PROVE  /\ Owns(p) /\ lock.owner = p /\ lock # NoFile
           /\ IsHolder(q) => p = q
           /\ pc[q] # "removing"
           /\ pc[q] = "probing" => pc[p] = "serving" /\ socket = p
<1>1. Owns(p) /\ lock.owner = p
  BY DEF Inv, HoldersOwn, IsHolder, Owns, GivesUp
<1>2. IsHolder(q) => lock.owner = q
  BY DEF Inv, HoldersOwn, IsHolder
<1>3. lock # NoFile
  BY <1>1, DaemonLockAssumption DEF NoFile
<1>4. pc[q] # "removing"
  BY DEF Inv, RemovedIsDead
<1>5. pc[q] = "probing" => pc[p] = "serving" /\ socket = p
  BY <1>1 DEF Inv, IsExposed, IsSuspect
<1> QED
  BY <1>1, <1>2, <1>3, <1>4, <1>5

LEMMA InvStep == TypeOK /\ Inv /\ [Next]_vars => Inv'
<1> SUFFICES ASSUME TypeOK, Inv, [Next]_vars, Undisturbed' 
             PROVE  OneStarter' /\ HoldersOwn' /\ RemovedIsDead' /\ ~IsExposed'
  BY DEF Inv
<1>1. Undisturbed
  BY DisturbanceStays
<1>2. OneStarter /\ HoldersOwn /\ RemovedIsDead /\ ~IsExposed
  BY <1>1 DEF Inv
<1>3. CASE UNCHANGED vars
  BY <1>2, <1>3 DEF vars, OneStarter, HoldersOwn, RemovedIsDead, IsHolder, HasFileOpen, GivesUp,
     IsExposed, IsSuspect, Owns
<1>4. CASE Next
  <2> DEFINE Goal == OneStarter' /\ HoldersOwn' /\ RemovedIsDead'
  <2> USE <1>1, <1>2 DEF Goes, OneStarter, HoldersOwn, RemovedIsDead, IsHolder, HasFileOpen, GivesUp,
      Starting, Working, Acquiring, TypeOK
  <2>1. ~IsExposed'
    BY <1>4 DEF Next, Undisturbed
  <2>2. ASSUME NEW p \in Procs, Start(p) PROVE Goal
    <3>1. \A q \in Procs : pc[q] \notin Acquiring
      BY <2>2 DEF Start, Undisturbed
    <3> QED
      BY <2>2, <3>1 DEF Start
  <2>3. ASSUME NEW p \in Procs, OpenLock(p) PROVE Goal
    <3>1. OneStarter'
      BY <2>3 DEF OpenLock
    <3>2. HoldersOwn'
      BY <2>3, HolderFacts DEF OpenLock
    <3>3. RemovedIsDead'
      BY <2>3 DEF OpenLock
    <3> QED
      BY <3>1, <3>2, <3>3
  <2>4. ASSUME NEW p \in Procs, FillLock(p) PROVE Goal
    <3>1. lock'.owner = lock.owner
      BY <2>4 DEF FillLock
    <3> QED
      BY <2>4, <3>1 DEF FillLock
  <2>5. ASSUME NEW p \in Procs, Look(p) PROVE Goal
    BY <2>5 DEF Look
  <2>6. ASSUME NEW p \in Procs, Probe(p) PROVE Goal
    <3>1. pc'[p] = "removing" => ~Answers
      BY <2>6 DEF Probe, NoAnswerInTime, Undisturbed
    <3>2. pc'[p] = "removing" => \A q \in Procs : ~IsHolder(q)
      BY <2>6, <3>1, HolderFacts, DaemonLockAssumption DEF Probe, Answers
    <3> QED
      BY <2>6, <3>2 DEF Probe
  <2>7. ASSUME NEW p \in Procs, RemoveLock(p) PROVE Goal
    BY <2>7, HolderFacts DEF RemoveLock
  <2>8. ASSUME NEW p \in Procs, CleanSocketPath(p) PROVE Goal
    BY <2>8 DEF CleanSocketPath
  <2>9. ASSUME NEW p \in Procs, Ask(p) PROVE Goal
    BY <2>9 DEF Ask
  <2>10. ASSUME NEW p \in Procs, RemoveSocket(p) PROVE Goal
    BY <2>10 DEF RemoveSocket
  <2>11. ASSUME NEW p \in Procs, OpenDatabase(p) PROVE Goal
    BY <2>11 DEF OpenDatabase
  <2>12. ASSUME NEW p \in Procs, Listen(p) PROVE Goal
    BY <2>12 DEF Listen
  <2>13. ASSUME NEW p \in Procs, Heartbeat(p) PROVE Goal
    <3>1. StillOwnsPath(p)
      BY <2>13 DEF Heartbeat, StillOwnsPath
    <3>2. lock' = [lock EXCEPT !.fresh = TRUE] /\ open' = open
      BY <2>13, <3>1 DEF Heartbeat
    <3>3. lock'.owner = lock.owner
      BY <3>2, OwnerUntouched
    <3> QED
      BY <2>13, <3>2, <3>3 DEF Heartbeat
  <2>14. ASSUME NEW p \in Procs, Shutdown(p) \/ CloseDatabase(p) \/ Tidy(p) PROVE Goal
    BY <2>14 DEF Shutdown, CloseDatabase, Tidy
  <2>15. ASSUME NEW p \in Procs, CheckPath(p) PROVE Goal
    BY <2>15 DEF CheckPath, StillOwnsPath, AfterRelease
  <2>16. ASSUME NEW p \in Procs, Unlink(p) PROVE Goal
    BY <2>16, HolderFacts DEF Unlink, AfterRelease
  <2>17. ASSUME NEW p \in Procs, Crash(p) PROVE Goal
    BY <2>17 DEF Crash
  <2>18. ASSUME GrowsStale PROVE Goal
    <3>1. lock'.owner = lock.owner
      BY <2>18, OwnerUntouched DEF GrowsStale
    <3>2. pc' = pc /\ open' = open
      BY <2>18 DEF GrowsStale
    <3>3. OneStarter'
      BY <3>2
    <3>4. HoldersOwn'
      BY <3>1, <3>2
    <3>5. RemovedIsDead'
      BY <3>2
    <3> QED
      BY <3>3, <3>4, <3>5
  <2> HIDE DEF Goal, Goes, OneStarter, HoldersOwn, RemovedIsDead, IsHolder, HasFileOpen, GivesUp,
      Starting, Working, Acquiring, TypeOK
  <2>19. Goal
    <3>1. CASE \E p \in Procs : \/ Start(p) \/ Acquire(p) \/ ComeUp(p)
                               \/ Heartbeat(p) \/ Shutdown(p) \/ Leave(p) \/ Crash(p)
      <4>1. PICK p \in Procs : \/ Start(p) \/ Acquire(p) \/ ComeUp(p)
                               \/ Heartbeat(p) \/ Shutdown(p) \/ Leave(p) \/ Crash(p)
        BY <3>1
      <4>2. Acquire(p) => Goal
        BY ONLY <2>3, <2>4, <2>5, <2>6, <2>7, p \in Procs DEF Acquire
      <4>3. ComeUp(p) => Goal
        BY ONLY <2>8, <2>9, <2>10, <2>11, <2>12, p \in Procs DEF ComeUp
      <4>4. Leave(p) => Goal
        BY ONLY <2>14, <2>15, <2>16, p \in Procs DEF Leave
      <4> QED
        BY ONLY <4>1, <4>2, <4>3, <4>4, <2>2, <2>13, <2>14, <2>17, p \in Procs
    <3>2. \/ \E p \in Procs : \/ Start(p) \/ Acquire(p) \/ ComeUp(p)
                            \/ Heartbeat(p) \/ Shutdown(p) \/ Leave(p) \/ Crash(p)
          \/ GrowsStale
      BY <1>4 DEF Next
    <3> QED
      BY ONLY <2>18, <3>1, <3>2
  <2> QED
    BY <2>1, <2>19 DEF Goal
<1> QED
  BY <1>3, <1>4

LEMMA InvAlways == Spec => [](TypeOK /\ Inv)
<1>1. Spec => []TypeOK
  BY LockTypeCorrect
<1> QED
  BY <1>1, InvInit, InvStep, PTL DEF Spec

(* One daemon has the database open at a time, through crashes, reused     *)
(* pids and the locks of sleeping daemons, if no two daemons start at      *)
(* once, no unanswering owner's lock is stale and no ping times out.       *)
THEOREM OneDaemonAtATime == Spec => []OneDaemon
<1>1. TypeOK /\ Inv => OneDaemon
  BY HolderFacts DEF OneDaemon, IsHolder, HasFileOpen
<1> QED
  BY <1>1, InvAlways, PTL

(* In the same conditions nobody but a leaving daemon takes the socket     *)
(* from a daemon that serves.                                              *)
THEOREM SocketKept == Spec => SocketIsKept
<1>1. ASSUME TypeOK, Inv, [Next]_vars, Undisturbed',
             NEW p \in Procs, socket = p, pc[p] = "serving", pc'[p] = "serving",
             \A q \in Procs : pc[q] # "tidying"
      PROVE  socket' = p
  <2>1. Undisturbed
    BY <1>1, DisturbanceStays
  <2>2. ASSUME NEW q \in Procs, pc[q] \in {"unbinding", "serving"} PROVE q = p
    BY <1>1, <2>1, <2>2, HolderFacts DEF IsHolder, HasFileOpen, Starting, Working
  <2>3. CASE UNCHANGED vars
    BY <1>1, <2>3 DEF vars
  <2>4. ASSUME NEW q \in Procs, RemoveSocket(q) \/ Shutdown(q) PROVE FALSE
    BY <1>1, <2>2, <2>4 DEF RemoveSocket, Shutdown, Goes, TypeOK
  <2>5. ASSUME NEW q \in Procs, Listen(q) \/ Tidy(q) PROVE UNCHANGED socket
    BY <1>1, <2>5, DaemonLockAssumption DEF Listen, Tidy
  <2>6. CASE Next
    BY <1>1, <2>4, <2>5, <2>6 DEF Next, Acquire, ComeUp, Leave, Start, OpenLock, FillLock, Look,
       Probe, RemoveLock, CleanSocketPath, Ask, OpenDatabase, Heartbeat, CloseDatabase, CheckPath,
       Unlink, Crash, GrowsStale
  <2> QED
    BY <1>1, <2>3, <2>6
<1>2. TypeOK /\ Inv /\ [Next]_vars =>
          (Undisturbed' =>
              \A p \in Procs :
                 /\ socket = p /\ pc[p] = "serving" /\ pc'[p] = "serving"
                 /\ \A q \in Procs : pc[q] # "tidying"
                 => socket' = p)
  BY <1>1
<1> QED
  BY <1>2, InvAlways, PTL DEF Spec, SocketIsKept

-----------------------------------------------------------------------------
(* Numbers, and what a chain of merges comes to.                           *)

LEMMA LeastNumber ==
    ASSUME NEW T, T \subseteq Nat, T # {}
    PROVE  \E x \in T : \A y \in T : ~(y < x)
<1> DEFINE R == {ss \in Nat \X Nat : ss[1] < ss[2]}
<1>1. OpToRel(<, Nat) = R
  BY Zenon DEF OpToRel
<1>2. IsWellFoundedOn(R, Nat)
  BY <1>1, NatLessThanWellFounded, Zenon
<1>3. \E x \in T : \A y \in T : ~ (<<y, x>> \in R)
  <2> HIDE DEF R
  <2>1. QED
    BY <1>2, WFMin, Zenon
<1>4. QED
  BY <1>3

(* What holds of 0, and of n + 1 if it holds of n, holds of every number.  *)
LEMMA InductionOnNumbers ==
    ASSUME NEW S, 0 \in S, \A n \in Nat : n \in S => n + 1 \in S
    PROVE  Nat \subseteq S
<1>1. SUFFICES ASSUME Nat \ S # {} PROVE FALSE
  OBVIOUS
<1>2. PICK x \in Nat \ S : \A y \in Nat \ S : ~(y < x)
  BY <1>1, LeastNumber
<1>3. x # 0 /\ x - 1 \in Nat
  BY <1>2
<1>4. x - 1 \in S
  BY <1>2, <1>3
<1>5. QED
  BY <1>2, <1>3, <1>4

Loose == Ids \cup {Endless}
Merges == [Ids -> Optional(Ids)]

LEMMA NoneIsNone == None \notin Ids /\ None # Endless /\ Endless \notin Ids
  BY IdentityAssumption DEF Ids, Keys, Phone, Endless

LEMMA IdsAreFinite == IsFiniteSet(Ids) /\ Cardinality(Ids) \in Nat
  <1>1. IsFiniteSet({"lid"}) /\ IsFiniteSet({"pn"}) /\ IsFiniteSet({"im"})
        /\ IsFiniteSet({"card"}) /\ IsFiniteSet({Phone})
    BY FS_Singleton
  <1>2. IsFiniteSet({"lid"} \cup {"pn"})
    BY <1>1, FS_Union
  <1>3. IsFiniteSet(({"lid"} \cup {"pn"}) \cup {"im"})
    BY <1>1, <1>2, FS_Union
  <1>4. IsFiniteSet((({"lid"} \cup {"pn"}) \cup {"im"}) \cup {"card"})
    BY <1>1, <1>3, FS_Union
  <1>5. IsFiniteSet(((({"lid"} \cup {"pn"}) \cup {"im"}) \cup {"card"}) \cup {Phone})
    BY <1>1, <1>4, FS_Union
  <1>6. Ids = (((({"lid"} \cup {"pn"}) \cup {"im"}) \cup {"card"}) \cup {Phone})
    BY DEF Ids, Keys
  <1> QED
    BY <1>5, <1>6, FS_CardinalityType

(* Starts(F, b, n, h): h is what F makes of b in n steps. *)
Starts(F, b, n, h) ==
    /\ DOMAIN h = 0..n
    /\ h[0] = b
    /\ \A k \in 0..n : k # 0 => h[k] = F[<<h[k - 1], k>>]

LEMMA StartsAgree ==
  ASSUME NEW F, NEW b, NEW n \in Nat, NEW m \in Nat, n <= m,
         NEW h, Starts(F, b, n, h), NEW g, Starts(F, b, m, g)
  PROVE  \A k \in 0..n : h[k] = g[k]
  <1> DEFINE Q == {k \in Nat : k <= n => h[k] = g[k]}
  <1>1. 0 \in Q
    BY DEF Starts
  <1>2. ASSUME NEW k \in Nat, k \in Q PROVE k + 1 \in Q
    <2> SUFFICES ASSUME k + 1 <= n PROVE h[k + 1] = g[k + 1]
      OBVIOUS
    <2>1. k + 1 \in 0..n /\ k + 1 \in 0..m /\ k + 1 # 0 /\ (k + 1) - 1 = k
      OBVIOUS
    <2>2. h[k + 1] = F[<<h[k], k + 1>>]
      BY <2>1 DEF Starts
    <2>3. g[k + 1] = F[<<g[k], k + 1>>]
      BY <2>1 DEF Starts
    <2>4. h[k] = g[k]
      BY <1>2
    <2> QED
      BY <2>2, <2>3, <2>4
  <1> HIDE DEF Q
  <1>3. Nat \subseteq Q
    BY <1>1, <1>2, InductionOnNumbers
  <1> QED
    BY <1>3 DEF Q

LEMMA StartsExist ==
  ASSUME NEW F, NEW b
  PROVE  \A n \in Nat : \E h : Starts(F, b, n, h)
  <1> DEFINE Q == {n \in Nat : \E h : Starts(F, b, n, h)}
  <1>1. 0 \in Q
    <2>1. Starts(F, b, 0, [k \in 0..0 |-> b])
      BY DEF Starts
    <2> QED
      BY <2>1
  <1>2. ASSUME NEW n \in Nat, n \in Q PROVE n + 1 \in Q
    <2>1. PICK h : Starts(F, b, n, h)
      BY <1>2
    <2> DEFINE g == [k \in 0..(n + 1) |-> IF k = n + 1 THEN F[<<h[n], n + 1>>] ELSE h[k]]
    <2>2. DOMAIN g = 0..(n + 1) /\ g[0] = b
      BY <2>1 DEF Starts
    <2>3. ASSUME NEW k \in 0..(n + 1), k # 0
          PROVE  g[k] = F[<<g[k - 1], k>>]
      <3>1. CASE k = n + 1
        BY <3>1
      <3>2. CASE k # n + 1
        <4>1. k \in 0..n /\ k - 1 \in 0..n
          BY <2>3, <3>2
        <4>2. h[k] = F[<<h[k - 1], k>>]
          BY <2>1, <2>3, <4>1 DEF Starts
        <4>3. g[k] = h[k] /\ g[k - 1] = h[k - 1]
          BY <4>1
        <4> HIDE DEF g
        <4> QED
          BY <4>2, <4>3
      <3> QED
        BY <3>1, <3>2
    <2> HIDE DEF g
    <2>4. Starts(F, b, n + 1, g)
      BY <2>2, <2>3 DEF Starts
    <2> QED
      BY <2>4
  <1> HIDE DEF Q
  <1>3. Nat \subseteq Q
    BY <1>1, <1>2, InductionOnNumbers
  <1> QED
    BY <1>3 DEF Q

(* A function may be defined by its value at 0 and by what a step makes of *)
(* the value before.                                                       *)
Iterates(S, F, b, g) ==
    g \in [Nat -> S] /\ g[0] = b /\ \A n \in Nat : g[n + 1] = F[<<g[n], n + 1>>]

LEMMA Iteration ==
  ASSUME NEW S, NEW b \in S, NEW F \in [S \X Nat -> S]
  PROVE  \E g : Iterates(S, F, b, g)
  <1> DEFINE H(n) == CHOOSE h : Starts(F, b, n, h)
             g == [n \in Nat |-> H(n)[n]]
  <1>1. \A n \in Nat : Starts(F, b, n, H(n))
    BY StartsExist
  <1> HIDE DEF H
  <1>2. g[0] = b
    BY <1>1 DEF Starts
  <1>3. ASSUME NEW n \in Nat PROVE g[n + 1] = F[<<g[n], n + 1>>]
    <2>1. H(n + 1)[n + 1] = F[<<H(n + 1)[n], n + 1>>]
      <3>1. n + 1 \in Nat /\ n + 1 \in 0..(n + 1) /\ n + 1 # 0 /\ (n + 1) - 1 = n
        OBVIOUS
      <3> QED
        BY <1>1, <3>1 DEF Starts
    <2>2. H(n + 1)[n] = H(n)[n]
      <3>1. n + 1 \in Nat /\ n <= n + 1 /\ n \in 0..n
        OBVIOUS
      <3>2. Starts(F, b, n, H(n)) /\ Starts(F, b, n + 1, H(n + 1))
        BY <1>1, <3>1
      <3> QED
        BY <3>1, <3>2, StartsAgree
    <2> QED
      BY <2>1, <2>2
  <1> HIDE DEF g
  <1>4. g \in [Nat -> S]
    <2> DEFINE Q == {n \in Nat : g[n] \in S}
    <2>1. 0 \in Q
      BY <1>2
    <2>2. ASSUME NEW n \in Nat, n \in Q PROVE n + 1 \in Q
      <3>1. <<g[n], n + 1>> \in S \X Nat
        BY <2>2
      <3>2. F[<<g[n], n + 1>>] \in S
        BY <3>1
      <3> QED
        BY <1>3, <3>2
    <2> HIDE DEF Q
    <2>3. Nat \subseteq Q
      BY <2>1, <2>2, InductionOnNumbers
    <2> QED
      BY <2>3 DEF Q, g
  <1> QED
    BY <1>2, <1>3, <1>4 DEF Iterates

(* How a chain of merges is followed. *)
LEMMA ChainOf ==
  ASSUME NEW merged \in Merges, NEW id \in Ids
  PROVE  \E f \in [Nat -> Ids] :
            /\ f[0] = id
            /\ \A n \in Nat : f[n + 1] = IF merged[f[n]] = None THEN f[n] ELSE merged[f[n]]
            /\ Canonical(merged, id) =
                  IF merged[id] = None THEN id
                  ELSE IF merged[f[Cardinality(Ids)]] = None THEN f[Cardinality(Ids)]
                  ELSE Endless
  <1> DEFINE Into(i) == IF merged[i] = None THEN i ELSE merged[i]
             P(f) == f = [n \in Nat |-> IF n = 0 THEN id ELSE Into(f[n - 1])]
             follow == CHOOSE f : P(f)
             end == follow[Cardinality(Ids)]
             F == [p \in Ids \X Nat |-> Into(p[1])]
  <1>1. Canonical(merged, id) =
            IF merged[id] = None THEN id
            ELSE IF merged[end] = None THEN end ELSE Endless
    BY NoneIsNone DEF Canonical
  <1>2. \A i \in Ids : Into(i) \in Ids
    BY DEF Merges, Optional
  <1>3. F \in [Ids \X Nat -> Ids]
    BY <1>2
  <1>4. \A i \in Ids, n \in Nat : F[<<i, n>>] = Into(i)
    OBVIOUS
  <1> HIDE DEF F, Into
  <1>5. PICK g : Iterates(Ids, F, id, g)
    BY <1>3, Iteration
  <1>6. g \in [Nat -> Ids] /\ g[0] = id /\ \A n \in Nat : g[n + 1] = F[<<g[n], n + 1>>]
    BY <1>5 DEF Iterates
  <1>7. ASSUME NEW n \in Nat PROVE g[n + 1] = Into(g[n])
    <2>1. g[n] \in Ids /\ n + 1 \in Nat
      BY <1>6
    <2>2. F[<<g[n], n + 1>>] = Into(g[n])
      BY <1>4, <2>1
    <2> QED
      BY <1>6, <2>2
  <1>8. \A n \in Nat : g[n] = IF n = 0 THEN id ELSE Into(g[n - 1])
    <2> SUFFICES ASSUME NEW n \in Nat, n # 0 PROVE g[n] = Into(g[n - 1])
      BY <1>6
    <2>1. n - 1 \in Nat /\ (n - 1) + 1 = n
      OBVIOUS
    <2> QED
      BY <1>7, <2>1
  <1>9. P(g)
    BY <1>6, <1>8
  <1> HIDE DEF P
  <1>10. P(follow)
    BY <1>9
  <1> HIDE DEF follow
  <1>11. \A n \in Nat : follow[n] = IF n = 0 THEN id ELSE Into(follow[n - 1])
    BY <1>10 DEF P
  <1>12. ASSUME NEW n \in Nat PROVE follow[n + 1] = Into(follow[n])
    <2>1. n + 1 \in Nat /\ n + 1 # 0 /\ (n + 1) - 1 = n
      OBVIOUS
    <2> QED
      BY <1>11, <2>1
  <1>13. \A n \in Nat : follow[n] \in Ids
    <2> DEFINE Q == {n \in Nat : follow[n] \in Ids}
    <2>1. 0 \in Q
      BY <1>11
    <2>2. \A n \in Nat : n \in Q => n + 1 \in Q
      BY <1>2, <1>12
    <2> HIDE DEF Q
    <2>3. Nat \subseteq Q
      BY <2>1, <2>2, InductionOnNumbers
    <2> QED
      BY <2>3 DEF Q
  <1> DEFINE f == [n \in Nat |-> follow[n]]
  <1>14. f \in [Nat -> Ids] /\ f[0] = id /\ f[Cardinality(Ids)] = end
    BY <1>11, <1>13, IdsAreFinite
  <1>15. \A n \in Nat : f[n + 1] = Into(f[n])
    BY <1>12
  <1> HIDE DEF f
  <1> QED
    BY <1>1, <1>14, <1>15 DEF Into

(* A chain of merges is followed to a contact, or to no end. *)
LEMMA CanonicalType ==
  ASSUME NEW merged \in Merges, NEW id \in Optional(Ids)
  PROVE  /\ Canonical(merged, id) \in Loose \cup {None}
         /\ id \in Ids => Canonical(merged, id) \in Loose
         /\ id = None => Canonical(merged, id) = None
  <1>1. CASE id = None
    BY <1>1, NoneIsNone DEF Canonical, Loose
  <1>2. CASE id \in Ids
    <2>1. PICK f \in [Nat -> Ids] :
             Canonical(merged, id) = IF merged[id] = None THEN id
                                     ELSE IF merged[f[Cardinality(Ids)]] = None
                                     THEN f[Cardinality(Ids)] ELSE Endless
      BY <1>2, ChainOf
    <2> QED
      BY <1>2, <2>1, IdsAreFinite, NoneIsNone DEF Loose
  <1> QED
    BY <1>1, <1>2 DEF Optional

-----------------------------------------------------------------------------
(* States of a projection: tables, cache and the time of the event.        *)

State == [t : Tables, c : Cache, at : Nat]
Member == [chat : Chats, contact : Ids, source : Keys]
Handle == [id : Ids, contact : Ids]
Reaction == [id : Chats \X Keys, key : Chats \X Keys, message : Chats,
             contact : Ids, source : Keys, at : Nat]
Rows == [RowKeys -> Optional(Row)]

(* What is deleted on WhatsApp stays so, under the key that it has. *)
WhatsAppChats == {c \in Chats : OnWhatsApp(c)}
WhatsAppRows == {"message", "timeline"} \X WhatsAppChats
Deleted(rows, k) == rows[k] # None /\ rows[k].deleted
KeepsDeleted(rows, later) == \A k \in WhatsAppRows : Deleted(rows, k) => Deleted(later, k)

LEMMA WhatsAppKeys ==
  /\ WhatsAppRows \subseteq RowKeys /\ WhatsAppChats \subseteq Chats
  /\ WhatsAppChats = {"lid", "pn", "group"}
  /\ \A c \in WhatsAppChats : <<"message", c>> \in WhatsAppRows
  BY DEF WhatsAppRows, WhatsAppChats, RowKeys, Chats, OnWhatsApp

(* Tables and caches, table by table. *)
LEMMA StateOf ==
  ASSUME NEW s \in State
  PROVE  /\ s = [t |-> s.t, c |-> s.c, at |-> s.at]
         /\ s.t \in Tables /\ s.c \in Cache /\ s.at \in Nat
         /\ s.t.contacts \subseteq Ids /\ s.t.sources \in [Keys -> Optional(Ids)]
         /\ s.t.phones \in Seq(Handle) /\ s.t.alias \in Optional(Alias)
         /\ s.t.chats \in [Chats -> Optional(Chats)] /\ s.t.members \subseteq Member
         /\ s.t.rows \in Rows /\ s.t.reactions \subseteq Reaction
         /\ s.c.merged \in Merges /\ s.c.sources \in [Keys -> Optional(Ids)]
         /\ s.c.phone \in Optional(Ids) /\ s.c.chats \in [Chats -> Optional(Chats)]
  <1>1. s = [t |-> s.t, c |-> s.c, at |-> s.at] /\ s.t \in Tables /\ s.c \in Cache /\ s.at \in Nat
    BY DEF State
  <1> QED
    BY <1>1 DEF Tables, Cache, Handle, Member, Reaction, Rows, Merges

LEMMA ContactType ==
  ASSUME NEW s \in State, NEW key \in Keys
  PROVE  Known(s, key) \in Loose \cup {None} /\ ContactOf(s, key) \in Loose
  <1>1. s.c.merged \in Merges /\ s.c.sources[key] \in Optional(Ids) /\ s.c.phone \in Optional(Ids)
    BY StateOf
  <1>2. key \in Ids
    BY DEF Ids
  <1>3. Known(s, key) \in Loose \cup {None}
    BY <1>1, CanonicalType DEF Known
  <1>4. Canonical(s.c.merged, key) \in Loose
    BY <1>1, <1>2, CanonicalType DEF Optional
  <1> QED
    BY <1>3, <1>4 DEF ContactOf

LEMMA ForeignKeys ==
  ASSUME NEW t, ForeignKeysHold(t), t.rows \in Rows
  PROVE  /\ t.contacts \subseteq Ids
         /\ \A k \in RowKeys : t.rows[k] # None => t.rows[k].contact \in Optional(Ids)
         /\ \A x \in t.members \cup t.reactions : x.contact \in Optional(Ids)
  BY DEF ForeignKeysHold, Optional

-----------------------------------------------------------------------------
(* Events that stub conversations, contacts and messages.                  *)

LEMMA EnsureChatMakes ==
  ASSUME NEW s \in State, NEW chat \in Chats
  PROVE  LET u == EnsureChat(s, chat)
         IN /\ ChatOf(s, chat) \in Chats
            /\ u \in State /\ u.at = s.at
            /\ u.t.rows = s.t.rows /\ u.t.alias = s.t.alias
            /\ u.t.reactions = s.t.reactions
  <1> DEFINE id == ChatOf(s, chat)
             u == EnsureChat(s, chat)
  <1>1. /\ s.t \in Tables /\ s.c \in Cache
        /\ s.c.chats \in [Chats -> Optional(Chats)] /\ s.t.chats \in [Chats -> Optional(Chats)]
    BY StateOf
  <1>2. id \in Chats
    BY <1>1 DEF ChatOf, Optional
  <1>3. PICK x \in [Chats -> Optional(Chats)], y \in [Chats -> Optional(Chats)] :
            u = [s EXCEPT !.c.chats = y, !.t.chats = x]
    <2> DEFINE x == [s.t.chats EXCEPT ![chat] =
                       IF @ = None /\ \A k \in Chats : s.t.chats[k] # id THEN id ELSE @]
               y == [s.c.chats EXCEPT ![chat] = id]
    <2>1. x \in [Chats -> Optional(Chats)] /\ y \in [Chats -> Optional(Chats)]
      BY <1>1, <1>2 DEF Optional
    <2>2. u = [s EXCEPT !.c.chats = y, !.t.chats = x]
      BY <1>1 DEF EnsureChat, State
    <2> QED
      BY <2>1, <2>2
  <1> DEFINE T == [s.t EXCEPT !.chats = x]
             C == [s.c EXCEPT !.chats = y]
  <1>4. u = [s EXCEPT !.c = C, !.t = T]
    BY <1>3 DEF State
  <1>5. /\ T \in Tables /\ C \in Cache /\ T.rows = s.t.rows
        /\ T.alias = s.t.alias /\ T.reactions = s.t.reactions
    BY <1>1 DEF Tables, Cache
  <1>6. u \in State /\ u.t = T /\ u.c = C /\ u.at = s.at
    <2> HIDE DEF T, C, u, id
    <2> QED
      BY <1>4, <1>5 DEF State
  <1> QED
    BY <1>2, <1>5, <1>6

(* States of which one part is another. *)
WithContact(s, X, y) ==
    [s EXCEPT !.c = [s.c EXCEPT !.sources = y], !.t = [s.t EXCEPT !.contacts = X]]
WithRows(s, R) == [s EXCEPT !.t.rows = R]
WithReactions(s, Q) == [s EXCEPT !.t.reactions = Q]

LEMMA EnsureContactMakes ==
  ASSUME NEW s \in State, NEW key \in Keys
  PROVE  \E X, y :
           /\ EnsureContact(s, key) = WithContact(s, X, y)
           /\ ContactOf(s, key) \in Ids =>
                X \subseteq Ids /\ y \in [Keys -> Optional(Ids)]
  <1> DEFINE id == ContactOf(s, key)
             u == EnsureContact(s, key)
  <1>1. /\ s.t \in Tables /\ s.c \in Cache
        /\ s.c.sources \in [Keys -> Optional(Ids)] /\ s.t.contacts \subseteq Ids
    BY StateOf
  <1>2. PICK X, y :
            /\ u = [s EXCEPT !.c.sources = y, !.t.contacts = X]
            /\ id \in Ids => X \subseteq Ids /\ y \in [Keys -> Optional(Ids)]
    <2> DEFINE X == IF Known(s, key) # None THEN s.t.contacts ELSE s.t.contacts \cup {id}
               y == [s.c.sources EXCEPT ![key] = id]
    <2>1. id \in Ids => X \subseteq Ids /\ y \in [Keys -> Optional(Ids)]
      BY <1>1 DEF Optional
    <2>2. u = [s EXCEPT !.c.sources = y, !.t.contacts = X]
      BY <1>1 DEF EnsureContact, State
    <2> QED
      BY <2>1, <2>2
  <1>3. u = [s EXCEPT !.c = [s.c EXCEPT !.sources = y], !.t = [s.t EXCEPT !.contacts = X]]
    BY <1>2 DEF State
  <1> QED
    BY <1>2, <1>3 DEF WithContact

(* Rows, or reactions, of which one refers to the contact of a key: if the  *)
(* foreign keys hold it is one.                                             *)
LEMMA ContactInRows ==
  ASSUME NEW s \in State, NEW key \in Keys, NEW R, NEW u,
         u = WithRows(EnsureContact(s, key), R),
         NEW k \in RowKeys, R[k] # None, R[k].contact = ContactOf(s, key),
         ContactOf(s, key) \in Ids => R \in Rows,
         ForeignKeysHold(u.t)
  PROVE  /\ u \in State /\ u.at = s.at /\ u.t.rows = R
         /\ u.t.alias = s.t.alias /\ u.t.reactions = s.t.reactions
  <1>1. /\ s.t \in Tables /\ s.c \in Cache
    BY StateOf
  <1>2. PICK X, y :
           /\ EnsureContact(s, key) = WithContact(s, X, y)
           /\ ContactOf(s, key) \in Ids =>
                X \subseteq Ids /\ y \in [Keys -> Optional(Ids)]
    BY EnsureContactMakes
  <1> DEFINE T == [s.t EXCEPT !.contacts = X, !.rows = R]
             C == [s.c EXCEPT !.sources = y]
  <1>3. u = [s EXCEPT !.c = C, !.t = T]
    BY <1>1, <1>2 DEF State, Tables, WithContact, WithRows, WithReactions
  <1>4. T.contacts = X /\ T.rows = R /\ T.alias = s.t.alias /\ T.reactions = s.t.reactions
    BY <1>1 DEF Tables
  <1>5. u.t = T /\ u.c = C /\ u.at = s.at /\ u = [t |-> T, c |-> C, at |-> s.at]
    <2> HIDE DEF T, C
    <2> QED
      BY <1>3 DEF State
  <1>6. X \subseteq Ids /\ R[k].contact \in Optional(X)
    <2> HIDE DEF T
    <2> QED
      BY <1>4, <1>5 DEF ForeignKeysHold
  <1>7. ContactOf(s, key) \in Ids
    BY <1>6, ContactType, NoneIsNone DEF Optional, Loose
  <1>8. T \in Tables /\ C \in Cache
    BY <1>1, <1>2, <1>7 DEF Tables, Cache, Rows
  <1>9. u \in State
    <2> HIDE DEF T, C
    <2> QED
      BY <1>5, <1>8, <1>1, StateOf DEF State
  <1> QED
    BY <1>4, <1>5, <1>9

LEMMA ContactInRowsToo ==
  ASSUME NEW s \in State, NEW key \in Keys, NEW R, NEW Q \in SUBSET Reaction, NEW u,
         u = WithRows(WithReactions(EnsureContact(s, key), Q), R),
         NEW k \in RowKeys, R[k] # None, R[k].contact = ContactOf(s, key),
         ContactOf(s, key) \in Ids => R \in Rows,
         ForeignKeysHold(u.t)
  PROVE  /\ u \in State /\ u.at = s.at /\ u.t.rows = R
         /\ u.t.alias = s.t.alias /\ u.t.reactions = Q
  <1>1. /\ s.t \in Tables /\ s.c \in Cache
    BY StateOf
  <1>2. PICK X, y :
           /\ EnsureContact(s, key) = WithContact(s, X, y)
           /\ ContactOf(s, key) \in Ids =>
                X \subseteq Ids /\ y \in [Keys -> Optional(Ids)]
    BY EnsureContactMakes
  <1> DEFINE T == [s.t EXCEPT !.contacts = X, !.rows = R, !.reactions = Q]
             C == [s.c EXCEPT !.sources = y]
  <1>3. u = [s EXCEPT !.c = C, !.t = T]
    BY <1>1, <1>2 DEF State, Tables, WithContact, WithRows, WithReactions
  <1>4. T.contacts = X /\ T.rows = R /\ T.alias = s.t.alias /\ T.reactions = Q
    BY <1>1 DEF Tables
  <1>5. u.t = T /\ u.c = C /\ u.at = s.at /\ u = [t |-> T, c |-> C, at |-> s.at]
    <2> HIDE DEF T, C
    <2> QED
      BY <1>3 DEF State
  <1>6. X \subseteq Ids /\ R[k].contact \in Optional(X)
    <2> HIDE DEF T
    <2> QED
      BY <1>4, <1>5 DEF ForeignKeysHold
  <1>7. ContactOf(s, key) \in Ids
    BY <1>6, ContactType, NoneIsNone DEF Optional, Loose
  <1>8. T \in Tables /\ C \in Cache
    BY <1>1, <1>2, <1>7 DEF Tables, Cache, Rows, Reaction
  <1>9. u \in State
    <2> HIDE DEF T, C
    <2> QED
      BY <1>5, <1>8, <1>1, StateOf DEF State
  <1> QED
    BY <1>4, <1>5, <1>9

LEMMA ContactInReactions ==
  ASSUME NEW s \in State, NEW key \in Keys, NEW Q, NEW u,
         u = WithReactions(EnsureContact(s, key), Q),
         NEW r \in Q, r.contact = ContactOf(s, key),
         ContactOf(s, key) \in Ids => Q \subseteq Reaction,
         ForeignKeysHold(u.t)
  PROVE  /\ u \in State /\ u.at = s.at /\ u.t.rows = s.t.rows
         /\ u.t.alias = s.t.alias /\ u.t.reactions = Q
  <1>1. /\ s.t \in Tables /\ s.c \in Cache
    BY StateOf
  <1>2. PICK X, y :
           /\ EnsureContact(s, key) = WithContact(s, X, y)
           /\ ContactOf(s, key) \in Ids =>
                X \subseteq Ids /\ y \in [Keys -> Optional(Ids)]
    BY EnsureContactMakes
  <1> DEFINE T == [s.t EXCEPT !.contacts = X, !.reactions = Q]
             C == [s.c EXCEPT !.sources = y]
  <1>3. u = [s EXCEPT !.c = C, !.t = T]
    BY <1>1, <1>2 DEF State, Tables, WithContact, WithRows, WithReactions
  <1>4. T.contacts = X /\ T.rows = s.t.rows /\ T.alias = s.t.alias /\ T.reactions = Q
    BY <1>1 DEF Tables
  <1>5. u.t = T /\ u.c = C /\ u.at = s.at /\ u = [t |-> T, c |-> C, at |-> s.at]
    <2> HIDE DEF T, C
    <2> QED
      BY <1>3 DEF State
  <1>6. X \subseteq Ids /\ r.contact \in Optional(X)
    <2> HIDE DEF T
    <2> QED
      BY <1>4, <1>5 DEF ForeignKeysHold
  <1>7. ContactOf(s, key) \in Ids
    BY <1>6, ContactType, NoneIsNone DEF Optional, Loose
  <1>8. T \in Tables /\ C \in Cache
    BY <1>1, <1>2, <1>7 DEF Tables, Cache, Reaction
  <1>9. u \in State
    <2> HIDE DEF T, C
    <2> QED
      BY <1>5, <1>8, <1>1, StateOf DEF State
  <1> QED
    BY <1>4, <1>5, <1>9

-----------------------------------------------------------------------------
(* Rows written, and what an event but an alias leaves: what was deleted   *)
(* on WhatsApp is.                                                         *)

LEMMA RowKeysOf == ASSUME NEW chat \in Chats
  PROVE <<"message", chat>> \in RowKeys /\ <<"timeline", chat>> \in RowKeys
  BY DEF RowKeys

LEMMA StatesRows ==
  ASSUME NEW s \in State, NEW R \in Rows, NEW u, u = WithRows(s, R)
  PROVE  /\ u \in State /\ u.at = s.at /\ u.t.rows = R
         /\ u.t.alias = s.t.alias /\ u.t.reactions = s.t.reactions
  <1> DEFINE T == [s.t EXCEPT !.rows = R]
  <1>1. s.t \in Tables /\ s.c \in Cache
    BY StateOf
  <1>2. u = [s EXCEPT !.t = T]
    BY DEF State, WithRows, WithReactions
  <1>3. T \in Tables /\ T.rows = R /\ T.alias = s.t.alias /\ T.reactions = s.t.reactions
    BY <1>1 DEF Tables, Rows
  <1> HIDE DEF T
  <1>4. u \in State /\ u.t = T /\ u.at = s.at
    BY <1>2, <1>3 DEF State
  <1> QED
    BY <1>3, <1>4

LEMMA StatesReactions ==
  ASSUME NEW s \in State, NEW Q \in SUBSET Reaction, NEW u, u = WithReactions(s, Q)
  PROVE  /\ u \in State /\ u.at = s.at /\ u.t.rows = s.t.rows
         /\ u.t.alias = s.t.alias /\ u.t.reactions = Q
  <1> DEFINE T == [s.t EXCEPT !.reactions = Q]
  <1>1. s.t \in Tables /\ s.c \in Cache
    BY StateOf
  <1>2. u = [s EXCEPT !.t = T]
    BY DEF State, WithRows, WithReactions
  <1>3. T \in Tables /\ T.rows = s.t.rows /\ T.alias = s.t.alias /\ T.reactions = Q
    BY <1>1 DEF Tables, Reaction
  <1> HIDE DEF T
  <1>4. u \in State /\ u.t = T /\ u.at = s.at
    BY <1>2, <1>3 DEF State
  <1> QED
    BY <1>3, <1>4

(* A row that is written keeps what is deleted if it is not un-deleted. *)
LEMMA RowsAreSome == None \notin Row /\ None \notin RowAbout(Optional(Loose))
  BY IdentityAssumption DEF Row, RowAbout, Optional, Loose

LEMMA RowIsWritten ==
  ASSUME NEW R \in Rows, NEW k \in RowKeys, NEW x \in Row,
         R[k] # None => (R[k].deleted => x.deleted)
  PROVE  /\ [R EXCEPT ![k] = x] \in Rows /\ [R EXCEPT ![k] = x][k] = x
         /\ KeepsDeleted(R, [R EXCEPT ![k] = x])
  BY RowsAreSome, WhatsAppKeys DEF Rows, Optional, KeepsDeleted, Deleted

LEMMA KeepsTwice ==
  ASSUME NEW P, NEW Q, NEW R, KeepsDeleted(P, Q), KeepsDeleted(Q, R)
  PROVE  KeepsDeleted(P, R)
  BY DEF KeepsDeleted

LEMMA EnsureMessageMakes ==
  ASSUME NEW s \in State, NEW chat \in Chats
  PROVE  LET u == EnsureMessage(s, chat)
         IN /\ u \in State /\ u.at = s.at
            /\ u.t.alias = s.t.alias /\ u.t.reactions = s.t.reactions
            /\ KeepsDeleted(s.t.rows, u.t.rows) /\ u.t.rows[<<"message", chat>>] \in Row
  <1> DEFINE key == <<"message", chat>>
             v == EnsureChat(s, chat)
             u == EnsureMessage(s, chat)
             new == [id |-> chat, chat |-> ChatOf(s, chat), contact |-> None, source |-> None,
                     deleted |-> FALSE, at |-> s.at]
             x == IF s.t.rows[key] # None THEN s.t.rows[key] ELSE new
             R == [s.t.rows EXCEPT ![key] = x]
  <1>1. /\ ChatOf(s, chat) \in Chats /\ v \in State /\ v.at = s.at /\ v.t.rows = s.t.rows
        /\ v.t.alias = s.t.alias /\ v.t.reactions = s.t.reactions
    BY EnsureChatMakes
  <1>2. key \in RowKeys /\ s.t.rows \in Rows /\ s.at \in Nat
    BY StateOf, RowKeysOf
  <1>3. x \in Row
    <2>1. new \in Row
      BY <1>1, <1>2 DEF Row, RowAbout, Optional
    <2> HIDE DEF new
    <2> QED
      BY <1>2, <2>1 DEF Rows, Optional
  <1>4. s.t.rows[key] # None => x = s.t.rows[key]
    OBVIOUS
  <1>5. u = WithRows(v, R)
    BY <1>1 DEF EnsureMessage, State, WithRows
  <1> HIDE DEF key, v, x, u, new
  <1>6. R \in Rows /\ R[key] = x /\ KeepsDeleted(s.t.rows, R)
    <2> DEFINE old == s.t.rows
    <2>1. old \in Rows /\ (old[key] # None => (old[key].deleted => x.deleted))
      BY <1>2, <1>4
    <2>2. R = [old EXCEPT ![key] = x]
      OBVIOUS
    <2> HIDE DEF old, R
    <2>3. R \in Rows /\ R[key] = x /\ KeepsDeleted(old, R)
      BY <1>2, <1>3, <2>1, <2>2, RowIsWritten
    <2> QED
      BY <2>3 DEF old
  <1> HIDE DEF R
  <1>7. /\ u \in State /\ u.at = v.at /\ u.t.rows = R
        /\ u.t.alias = v.t.alias /\ u.t.reactions = v.t.reactions
    BY <1>1, <1>5, <1>6, StatesRows
  <1> QED
    BY <1>1, <1>3, <1>6, <1>7 DEF u, key

(* What is there after an event but an alias, if it was not rolled back. *)
Follows(s, u) ==
    /\ u \in State /\ u.t.alias = s.t.alias /\ KeepsDeleted(s.t.rows, u.t.rows)
    /\ IsFiniteSet(s.t.reactions) => IsFiniteSet(u.t.reactions)

LEMMA ProjectMessageWorks ==
  ASSUME NEW s \in State, NEW e, e.chat \in Chats, e.key \in Keys,
         NEW u, u = ProjectMessage(s, e), ForeignKeysHold(u.t)
  PROVE  Follows(s, u)
  <1> DEFINE key == <<"message", e.chat>>
             stub == EnsureMessage(s, e.chat)
             old == stub.t.rows[key]
             deleted == e.kind = "deletion"
             x == [old EXCEPT !.chat = ChatOf(stub, e.chat), !.contact = ContactOf(stub, e.key),
                              !.source = e.key, !.deleted = deleted, !.at = s.at]
             R == [stub.t.rows EXCEPT ![key] = x]
             Q == IF deleted THEN Unreacted(stub.t.reactions, old.id) ELSE stub.t.reactions
  <1>1. /\ stub \in State /\ stub.at = s.at
        /\ stub.t.alias = s.t.alias /\ stub.t.reactions = s.t.reactions
        /\ KeepsDeleted(s.t.rows, stub.t.rows) /\ old \in Row
    BY EnsureMessageMakes
  <1>2. CASE OnWhatsApp(e.chat) /\ old.deleted
    <2>1. u = stub
      BY <1>2 DEF ProjectMessage
    <2> QED
      BY <1>1, <2>1 DEF Follows
  <1>3. CASE ~(OnWhatsApp(e.chat) /\ old.deleted)
    <2>1. u = [EnsureContact(stub, e.key) EXCEPT
                !.t.reactions = IF deleted THEN Unreacted(@, old.id) ELSE @,
                !.t.rows[key] =
                   [@ EXCEPT !.chat = ChatOf(stub, e.chat), !.contact = ContactOf(stub, e.key),
                             !.source = e.key, !.deleted = deleted, !.at = s.at]]
      BY <1>3 DEF ProjectMessage
    <2>2. PICK X, y : EnsureContact(stub, e.key) = WithContact(stub, X, y)
      <3> HIDE DEF stub
      <3> QED
        BY <1>1, EnsureContactMakes
    <2>3. /\ stub.t \in Tables /\ stub.t.rows \in Rows /\ key \in RowKeys /\ s.at \in Nat
          /\ stub.t.reactions \subseteq Reaction
      BY <1>1, StateOf, RowKeysOf
    <2>q. Q \subseteq stub.t.reactions
      BY DEF Unreacted
    <2>4. u = WithRows(WithReactions(EnsureContact(stub, e.key), Q), R)
      <3> DEFINE v == EnsureContact(stub, e.key)
      <3>1. v.t.rows = stub.t.rows /\ v.t.reactions = stub.t.reactions
        <4> HIDE DEF stub
        <4> QED
          BY <1>1, <2>2, <2>3 DEF State, Tables, WithContact
      <3>2. u = [v EXCEPT
                !.t.reactions = IF deleted THEN Unreacted(@, old.id) ELSE @,
                !.t.rows[key] =
                   [@ EXCEPT !.chat = ChatOf(stub, e.chat), !.contact = ContactOf(stub, e.key),
                             !.source = e.key, !.deleted = deleted, !.at = s.at]]
        BY <2>1
      <3>3. v = [t |-> v.t, c |-> v.c, at |-> v.at]
            /\ DOMAIN v.t = {"contacts", "sources", "phones", "alias", "chats", "members", "rows",
                             "reactions"}
        <4> HIDE DEF stub
        <4> QED
          BY <1>1, <2>2, <2>3 DEF State, Tables, WithContact
      <3> HIDE DEF stub, old, v, deleted
      <3>4. u = [v EXCEPT !.t.reactions = Q, !.t.rows[key] = x]
        BY <3>1, <3>2, <3>3 DEF old
      <3>5. u = [v EXCEPT !.t.reactions = Q, !.t.rows = R]
        <4> HIDE DEF Q, x
        <4> QED
          BY <3>1, <3>3, <3>4
      <3> HIDE DEF Q, R, key
      <3>6. u = WithRows(WithReactions(v, Q), R)
        BY <3>3, <3>5 DEF WithRows, WithReactions
      <3> QED
        BY <3>6 DEF v
    <2>5. ChatOf(stub, e.chat) \in Chats
      BY <1>1, EnsureChatMakes
    <2>6. /\ OnWhatsApp(e.chat) => ~old.deleted
          /\ x.contact = ContactOf(stub, e.key) /\ x \in RowAbout(Optional(Loose))
          /\ ContactOf(stub, e.key) \in Ids => x \in Row
      <3>1. deleted \in BOOLEAN
        OBVIOUS
      <3> HIDE DEF stub, old, deleted
      <3> QED
        BY <1>1, <1>3, <2>3, <2>5, <3>1, ContactType DEF Row, RowAbout, Optional, Loose
    <2> HIDE DEF x, stub, deleted
    <2>7. R[key] = x
      BY <2>3 DEF Rows
    <2>8. ContactOf(stub, e.key) \in Ids => R \in Rows
      BY <2>3, <2>6 DEF Rows, Optional
    <2>a. KeepsDeleted(stub.t.rows, R)
      <3> SUFFICES ASSUME NEW k \in WhatsAppRows, Deleted(stub.t.rows, k) PROVE Deleted(R, k)
        BY DEF KeepsDeleted
      <3>1. k # key
        BY <2>6 DEF Deleted, WhatsAppRows, WhatsAppChats
      <3>2. k \in RowKeys
        BY WhatsAppKeys
      <3>3. R[k] = stub.t.rows[k]
        <4> HIDE DEF key
        <4> QED
          BY <2>3, <3>1, <3>2 DEF Rows
      <3> QED
        BY <3>3 DEF Deleted
    <2>f. IsFiniteSet(s.t.reactions) => IsFiniteSet(Q)
      BY <1>1, <2>q, FS_Subset
    <2>g. Q \in SUBSET Reaction
      BY <2>3, <2>q
    <2> HIDE DEF key, R, Q
    <2>9. R[key] # None
      BY <2>6, <2>7, RowsAreSome
    <2>b. R[key].contact = ContactOf(stub, e.key)
      BY <2>6, <2>7
    <2>c. /\ u \in State /\ u.t.rows = R
          /\ u.t.alias = stub.t.alias /\ u.t.reactions = Q
      BY <1>1, <2>3, <2>4, <2>8, <2>9, <2>b, <2>g, ContactInRowsToo
    <2> QED
      BY <1>1, <2>a, <2>c, <2>f, KeepsTwice DEF Follows
  <1> QED
    BY <1>2, <1>3

LEMMA ProjectRevocationWorks ==
  ASSUME NEW s \in State, NEW e, e.chat \in Chats,
         NEW u, u = ProjectRevocation(s, e)
  PROVE  Follows(s, u) /\ Deleted(u.t.rows, <<"message", e.chat>>)
  <1> DEFINE key == <<"message", e.chat>>
             stub == EnsureMessage(s, e.chat)
             old == stub.t.rows[key]
             x == [old EXCEPT !.deleted = TRUE, !.at = s.at]
             R == [stub.t.rows EXCEPT ![key] = x]
             Q == Unreacted(stub.t.reactions, stub.t.rows[key].id)
  <1>1. /\ stub \in State /\ stub.at = s.at
        /\ stub.t.alias = s.t.alias /\ stub.t.reactions = s.t.reactions
        /\ KeepsDeleted(s.t.rows, stub.t.rows) /\ old \in Row
    BY EnsureMessageMakes
  <1>2. /\ stub.t \in Tables /\ stub.t.rows \in Rows /\ key \in RowKeys /\ s.at \in Nat
        /\ stub.t.reactions \subseteq Reaction
    BY <1>1, StateOf, RowKeysOf
  <1>3. x \in Row /\ x.deleted
    <2> HIDE DEF stub, old
    <2> QED
      BY <1>1, <1>2 DEF Row, RowAbout
  <1>4. u = WithReactions(WithRows(stub, R), Q)
    <2>1. u = [stub EXCEPT
            !.t.rows[key] = [@ EXCEPT !.deleted = TRUE, !.at = s.at],
            !.t.reactions = Unreacted(@, stub.t.rows[key].id)]
      BY DEF ProjectRevocation
    <2> HIDE DEF stub, key
    <2> QED
      BY <1>1, <1>2, <2>1 DEF WithRows, WithReactions, State, Tables
  <1>5. Q \subseteq stub.t.reactions
    BY DEF Unreacted
  <1> HIDE DEF x, stub, key, old, Q
  <1>6. R \in Rows /\ R[key] = x /\ KeepsDeleted(stub.t.rows, R)
    BY <1>2, <1>3, RowIsWritten
  <1> HIDE DEF R
  <1> DEFINE v == WithRows(stub, R)
  <1>7. v \in State /\ v.t.rows = R /\ v.t.alias = s.t.alias
    <2>1. v = WithRows(stub, R)
      OBVIOUS
    <2> HIDE DEF v
    <2> QED
      BY <1>1, <1>6, <2>1, StatesRows
  <1>8. u = WithReactions(v, Q)
    BY <1>4
  <1> HIDE DEF v
  <1>9. u \in State /\ u.t.rows = R /\ u.t.alias = s.t.alias /\ u.t.reactions = Q
    BY <1>2, <1>5, <1>7, <1>8, StatesReactions
  <1>10. IsFiniteSet(s.t.reactions) => IsFiniteSet(Q)
    BY <1>1, <1>5, FS_Subset
  <1>11. KeepsDeleted(s.t.rows, R)
    BY <1>1, <1>6, KeepsTwice
  <1>12. Deleted(R, key)
    BY <1>3, <1>6, RowsAreSome DEF Deleted
  <1> QED
    BY <1>9, <1>10, <1>11, <1>12 DEF Follows, key

LEMMA ProjectTimelineWorks ==
  ASSUME NEW s \in State, NEW e, e.chat \in Chats, e.key \in Keys,
         NEW u, u = ProjectTimeline(s, e), ForeignKeysHold(u.t)
  PROVE  Follows(s, u)
  <1> DEFINE key == <<"timeline", e.chat>>
             chat == EnsureChat(s, e.chat)
             new == [id |-> e.chat, chat |-> ChatOf(s, e.chat), contact |-> None,
                     source |-> None, deleted |-> FALSE, at |-> s.at]
             same == IF s.t.rows[key] # None THEN s.t.rows[key] ELSE new
             x == [same EXCEPT !.contact = ContactOf(chat, e.key), !.source = e.key, !.at = s.at]
             R == [s.t.rows EXCEPT ![key] = x]
  <1>1. /\ ChatOf(s, e.chat) \in Chats /\ chat \in State /\ chat.at = s.at
        /\ chat.t.rows = s.t.rows /\ chat.t.alias = s.t.alias
        /\ chat.t.reactions = s.t.reactions
    BY EnsureChatMakes
  <1>2. /\ chat.t \in Tables /\ s.t.rows \in Rows /\ key \in RowKeys /\ s.at \in Nat
    BY <1>1, StateOf, RowKeysOf
  <1>3. same \in Row /\ (s.t.rows[key] # None => same = s.t.rows[key])
    <2>1. new \in Row
      BY <1>1, <1>2 DEF Row, RowAbout, Optional
    <2> HIDE DEF new
    <2> QED
      BY <1>2, <2>1 DEF Rows, Optional
  <1>4. u = [EnsureContact(chat, e.key) EXCEPT !.t.rows[key] = x]
    BY DEF ProjectTimeline
  <1>5. u = WithRows(EnsureContact(chat, e.key), R)
    <2> HIDE DEF chat, x
    <2>1. PICK X, y : EnsureContact(chat, e.key) = WithContact(chat, X, y)
      BY <1>1, EnsureContactMakes
    <2>2. EnsureContact(chat, e.key).t.rows = s.t.rows
      BY <1>1, <1>2, <2>1 DEF State, Tables, WithContact
    <2> QED
      BY <1>4, <2>2 DEF WithRows
  <1>6. /\ x.deleted = same.deleted /\ x.contact = ContactOf(chat, e.key)
        /\ x \in RowAbout(Optional(Loose))
        /\ ContactOf(chat, e.key) \in Ids => x \in Row
    <2> HIDE DEF chat, same
    <2> QED
      BY <1>1, <1>2, <1>3, ContactType DEF Row, RowAbout, Optional, Loose
  <1> HIDE DEF x, chat, same, new
  <1>7. R[key] = x /\ x # None
    BY <1>2, <1>6, RowsAreSome DEF Rows
  <1>8. ContactOf(chat, e.key) \in Ids => R \in Rows
    BY <1>2, <1>6 DEF Rows, Optional
  <1>9. KeepsDeleted(s.t.rows, R)
    <2>1. \A k \in RowKeys : R[k] = IF k = key THEN x ELSE s.t.rows[k]
      BY <1>2 DEF Rows
    <2>2. s.t.rows[key] # None /\ s.t.rows[key].deleted => x.deleted
      BY <1>3, <1>6
    <2> HIDE DEF R, key
    <2> QED
      BY <1>7, <2>1, <2>2, WhatsAppKeys DEF KeepsDeleted, Deleted
  <1> HIDE DEF key, R
  <1>10. /\ u \in State /\ u.t.rows = R
         /\ u.t.alias = chat.t.alias /\ u.t.reactions = chat.t.reactions
    BY <1>1, <1>2, <1>5, <1>6, <1>7, <1>8, ContactInRows
  <1> QED
    BY <1>1, <1>9, <1>10 DEF Follows

LEMMA ProjectReactionWorks ==
  ASSUME NEW s \in State, NEW e, e.chat \in Chats, e.key \in Keys,
         NEW u, u = ProjectReaction(s, e), ForeignKeysHold(u.t)
  PROVE  Follows(s, u)
  <1> DEFINE key == <<"message", e.chat>>
             stub == EnsureMessage(s, e.chat)
             message == stub.t.rows[<<"message", e.chat>>].id
             byKey == {r \in stub.t.reactions : OnWhatsApp(e.chat) /\ r.key = <<e.chat, e.key>>}
             old == IF byKey # {} THEN byKey
                    ELSE {r \in stub.t.reactions : r.id = <<message, e.key>>}
             new == [id |-> <<message, e.key>>, key |-> <<e.chat, e.key>>,
                     message |-> message, contact |-> e.key, source |-> e.key, at |-> s.at]
             same == IF old # {} THEN CHOOSE r \in old : TRUE ELSE new
             x == [same EXCEPT !.contact = ContactOf(stub, e.key), !.source = e.key, !.at = s.at]
             Q == (stub.t.reactions \ old) \cup {x}
  <1>1. /\ stub \in State /\ stub.at = s.at
        /\ stub.t.alias = s.t.alias /\ stub.t.reactions = s.t.reactions
        /\ KeepsDeleted(s.t.rows, stub.t.rows) /\ stub.t.rows[key] \in Row
    BY EnsureMessageMakes
  <1>2. /\ stub.t \in Tables /\ s.at \in Nat /\ stub.t.reactions \subseteq Reaction
    BY <1>1, StateOf
  <1>3. message \in Chats
    <2> HIDE DEF stub
    <2> QED
      BY <1>1 DEF Row, RowAbout
  <1>4. u = [EnsureContact(stub, e.key) EXCEPT !.t.reactions = (@ \ old) \cup {x}]
    BY DEF ProjectReaction
  <1> HIDE DEF stub, message
  <1>5. u = WithReactions(EnsureContact(stub, e.key), Q)
    <2> HIDE DEF old, x
    <2>1. PICK X, y : EnsureContact(stub, e.key) = WithContact(stub, X, y)
      BY <1>1, EnsureContactMakes
    <2>2. EnsureContact(stub, e.key).t.reactions = stub.t.reactions
      BY <1>1, <1>2, <2>1 DEF State, Tables, WithContact
    <2> QED
      BY <1>4, <2>2 DEF WithReactions
  <1>6. same \in Reaction
    <2>1. new \in Reaction
      <3>1. e.key \in Ids
        BY DEF Ids
      <3> QED
        BY <1>2, <1>3, <3>1 DEF Reaction
    <2>2. old \subseteq stub.t.reactions
      OBVIOUS
    <2> HIDE DEF new, old
    <2> QED
      BY <1>2, <2>1, <2>2
  <1>7. x.contact = ContactOf(stub, e.key) /\ (ContactOf(stub, e.key) \in Ids => x \in Reaction)
    <2> HIDE DEF same
    <2> QED
      BY <1>2, <1>6 DEF Reaction
  <1> HIDE DEF x, same, old
  <1>8. x \in Q /\ (ContactOf(stub, e.key) \in Ids => Q \subseteq Reaction)
    BY <1>2, <1>7
  <1>9. IsFiniteSet(s.t.reactions) => IsFiniteSet(Q)
    <2>1. Q \subseteq stub.t.reactions \cup {x}
      OBVIOUS
    <2> HIDE DEF Q
    <2> QED
      BY <1>1, <2>1, FS_Subset, FS_AddElement
  <1> HIDE DEF Q
  <1>10. /\ u \in State /\ u.t.rows = stub.t.rows
         /\ u.t.alias = stub.t.alias /\ u.t.reactions = Q
    BY <1>1, <1>5, <1>7, <1>8, ContactInReactions
  <1> QED
    BY <1>1, <1>9, <1>10 DEF Follows

-----------------------------------------------------------------------------
(* Contacts and conversations observed.                                    *)

LEMMA NumberIsSeen ==
  ASSUME NEW t \in Tables
  PROVE  SeenByNumber(t) \in Optional(Ids)
  <1> DEFINE rows == {t.rows[k] : k \in {"message"} \X Chats} \ {None}
             about == {y \in rows \cup t.members : y.source = "im"}
             seen == {x.contact : x \in about} \ {None}
  <1>1. t.rows \in Rows /\ t.members \subseteq Member
    BY DEF Tables, Rows, Member
  <1>2. \A x \in rows : x \in Row
    <2> SUFFICES ASSUME NEW k \in {"message"} \X Chats, t.rows[k] # None PROVE t.rows[k] \in Row
      OBVIOUS
    <2>1. k \in RowKeys
      BY DEF RowKeys
    <2> QED
      BY <1>1, <2>1 DEF Rows, Optional
  <1>3. \A x \in rows \cup t.members : x.contact \in Optional(Ids)
    <2> HIDE DEF rows
    <2>1. \A x \in Row : x.contact \in Optional(Ids)
      BY DEF Row, RowAbout
    <2>2. \A x \in Member : x.contact \in Ids
      BY DEF Member
    <2> QED
      BY <1>1, <1>2, <2>1, <2>2 DEF Optional
  <1> HIDE DEF rows
  <1>4. seen \subseteq Ids
    BY <1>3 DEF Optional
  <1>5. SeenByNumber(t) = IF seen = {} THEN None ELSE CHOOSE i \in seen : TRUE
    BY DEF SeenByNumber, rows
  <1> HIDE DEF seen
  <1> QED
    BY <1>4, <1>5 DEF Optional

LEMMA AddPhoneType ==
  ASSUME NEW phones \in Seq(Handle), NEW contact \in Ids, NEW key
  PROVE  AddPhone(phones, contact, key) \in Seq(Handle)
  <1>1. [id |-> contact, contact |-> contact] \in Handle
    BY DEF Handle
  <1> QED
    BY <1>1 DEF AddPhone

LEMMA ObserveContactWorks ==
  ASSUME NEW s \in State, NEW e, e.key \in Keys, e.phone \in BOOLEAN,
         NEW u, u = ObserveContact(s, e), ForeignKeysHold(u.t)
  PROVE  Follows(s, u)
  <1> DEFINE byNumber == SeenByNumber(s.t)
             found == IF s.c.sources[e.key] # None THEN s.c.sources[e.key]
                      ELSE IF ~e.phone THEN e.key
                      ELSE IF s.c.phone # None THEN s.c.phone
                      ELSE IF byNumber # None THEN byNumber ELSE Phone
             contact == Canonical(s.c.merged, found)
             cs == [s.c.sources EXCEPT ![e.key] = contact]
             cp == IF e.phone THEN contact ELSE s.c.phone
             tc == s.t.contacts \cup {contact}
             ts == [s.t.sources EXCEPT ![e.key] = contact]
             tp == IF e.phone THEN AddPhone(s.t.phones, contact, e.key) ELSE s.t.phones
             C == [s.c EXCEPT !.sources = cs, !.phone = cp]
             T == [s.t EXCEPT !.contacts = tc, !.sources = ts, !.phones = tp]
  <1>1. /\ s = [t |-> s.t, c |-> s.c, at |-> s.at]
        /\ s.t \in Tables /\ s.c \in Cache /\ s.at \in Nat
        /\ s.t.contacts \subseteq Ids /\ s.t.sources \in [Keys -> Optional(Ids)]
        /\ s.t.phones \in Seq(Handle)
        /\ s.c.merged \in Merges /\ s.c.sources \in [Keys -> Optional(Ids)]
        /\ s.c.phone \in Optional(Ids)
    BY StateOf
  <1>2. found \in Ids
    <2>1. byNumber \in Optional(Ids)
      BY <1>1, NumberIsSeen
    <2> HIDE DEF byNumber
    <2> QED
      BY <1>1, <2>1 DEF Optional, Ids
  <1>3. u = [s EXCEPT !.c.sources[e.key] = contact,
                 !.c.phone = IF e.phone THEN contact ELSE @,
                 !.t.contacts = @ \cup {contact},
                 !.t.sources[e.key] = contact,
                 !.t.phones = IF e.phone THEN AddPhone(@, contact, e.key) ELSE @]
    BY DEF ObserveContact
  <1> HIDE DEF contact, found
  <1>4. u = [s EXCEPT !.c = C, !.t = T]
    <2>1. u = [s EXCEPT !.c.sources = cs, !.c.phone = cp, !.t.contacts = tc,
                        !.t.sources = ts, !.t.phones = tp]
      BY <1>1, <1>3 DEF State, Tables, Cache
    <2> HIDE DEF cs, cp, tc, ts, tp
    <2> QED
      BY <1>1, <2>1 DEF State, Tables, Cache
  <1>5. /\ T.contacts = tc /\ T.alias = s.t.alias /\ T.rows = s.t.rows
        /\ T.reactions = s.t.reactions
    <2> HIDE DEF cs, cp, tc, ts, tp
    <2> QED
      BY <1>1 DEF Tables
  <1>6. u.t = T /\ u.c = C /\ u.at = s.at /\ u = [t |-> T, c |-> C, at |-> s.at]
    <2> HIDE DEF T, C
    <2> QED
      BY <1>4 DEF State
  <1>7. contact \in Ids
    <2>1. tc \subseteq Ids
      <3> HIDE DEF T, tc
      <3> QED
        BY <1>5, <1>6 DEF ForeignKeysHold
    <2> QED
      BY <2>1
  <1>8. /\ cs \in [Keys -> Optional(Ids)] /\ cp \in Optional(Ids) /\ tc \subseteq Ids
        /\ ts \in [Keys -> Optional(Ids)] /\ tp \in Seq(Handle)
    <2>1. cs \in [Keys -> Optional(Ids)] /\ ts \in [Keys -> Optional(Ids)]
      BY <1>1, <1>7 DEF Optional
    <2>2. cp \in Optional(Ids) /\ tc \subseteq Ids
      BY <1>1, <1>7 DEF Optional
    <2>3. tp \in Seq(Handle)
      BY <1>1, <1>7, AddPhoneType
    <2> QED
      BY <2>1, <2>2, <2>3
  <1> HIDE DEF cs, cp, tc, ts, tp
  <1>9. T \in Tables /\ C \in Cache
    BY <1>1, <1>8 DEF Tables, Cache, Handle
  <1> HIDE DEF T, C
  <1>10. u \in State
    BY <1>1, <1>6, <1>9 DEF State
  <1> QED
    BY <1>5, <1>6, <1>10 DEF Follows, KeepsDeleted

LEMMA ObserveConversationWorks ==
  ASSUME NEW s \in State, NEW e, e.chat \in Chats, e.members \subseteq Keys,
         NEW u, u = ObserveConversation(s, e), ForeignKeysHold(u.t)
  PROVE  Follows(s, u)
  <1> DEFINE v == EnsureChat(s, e.chat)
             New(k) == [chat |-> ChatOf(v, e.chat), contact |-> ContactOf(v, k), source |-> k]
             cs == [k \in Keys |-> IF k \in e.members THEN ContactOf(v, k) ELSE v.c.sources[k]]
             tc == v.t.contacts
                     \cup {ContactOf(v, k) : k \in {x \in e.members : Known(v, x) = None}}
             tm == v.t.members \cup {New(k) : k \in e.members}
             C == [v.c EXCEPT !.sources = cs]
             T == [v.t EXCEPT !.contacts = tc, !.members = tm]
  <1>1. /\ v \in State /\ v.at = s.at /\ v.t.rows = s.t.rows /\ v.t.alias = s.t.alias
        /\ v.t.reactions = s.t.reactions
    BY EnsureChatMakes
  <1> HIDE DEF v
  <1>2. /\ v = [t |-> v.t, c |-> v.c, at |-> v.at]
        /\ v.t \in Tables /\ v.c \in Cache /\ v.at \in Nat
        /\ v.t.contacts \subseteq Ids /\ v.t.members \subseteq Member
        /\ v.c.sources \in [Keys -> Optional(Ids)]
    BY <1>1, StateOf
  <1>3. u = [v EXCEPT
        !.c.sources = [k \in Keys |-> IF k \in e.members THEN ContactOf(v, k) ELSE @[k]],
        !.t.contacts = @ \cup {ContactOf(v, k) : k \in {x \in e.members : Known(v, x) = None}},
        !.t.members = @ \cup {New(k) : k \in e.members}]
    BY DEF ObserveConversation, AddMembers, v
  <1>4. u = [v EXCEPT !.c = C, !.t = T]
    <2>1. u = [v EXCEPT !.c.sources = cs, !.t.contacts = tc, !.t.members = tm]
      BY <1>2, <1>3 DEF State, Tables, Cache
    <2> HIDE DEF cs, tc, tm
    <2> QED
      BY <1>2, <2>1 DEF State, Tables, Cache
  <1>5. /\ T.contacts = tc /\ T.alias = v.t.alias /\ T.rows = v.t.rows
        /\ T.reactions = v.t.reactions /\ T.members = tm
    <2> HIDE DEF cs, tc, tm
    <2> QED
      BY <1>2 DEF Tables
  <1>6. u.t = T /\ u.c = C /\ u.at = v.at /\ u = [t |-> T, c |-> C, at |-> v.at]
    <2> HIDE DEF T, C, v
    <2> QED
      BY <1>4, <1>1 DEF State
  <1>7. tc \subseteq Ids /\ \A x \in tm : x.contact \in Optional(tc)
    <2> HIDE DEF T, tc, tm
    <2> QED
      BY <1>5, <1>6 DEF ForeignKeysHold
  <1>8. \A k \in e.members : ContactOf(v, k) \in Ids
    <2> TAKE k \in e.members
    <2>1. New(k) \in tm /\ New(k).contact = ContactOf(v, k)
      OBVIOUS
    <2>2. ContactOf(v, k) \in Optional(tc)
      <3> HIDE DEF New, tm, tc
      <3> QED
        BY <1>7, <2>1
    <2>3. ContactOf(v, k) \in Loose
      BY <1>1, ContactType
    <2> HIDE DEF tm, tc, New
    <2> QED
      BY <1>7, <2>2, <2>3, NoneIsNone DEF Optional, Loose
  <1>9. ChatOf(v, e.chat) \in Chats
    BY <1>1, EnsureChatMakes
  <1>10. cs \in [Keys -> Optional(Ids)] /\ tm \subseteq Member
    <2>1. cs \in [Keys -> Optional(Ids)]
      BY <1>2, <1>8 DEF Optional
    <2>2. \A k \in e.members : New(k) \in Member
      BY <1>8, <1>9 DEF Member
    <2> HIDE DEF New
    <2> QED
      BY <1>2, <2>1, <2>2
  <1> HIDE DEF cs, tc, tm
  <1>11. T \in Tables /\ C \in Cache
    BY <1>2, <1>7, <1>10 DEF Tables, Cache, Member
  <1> HIDE DEF T, C
  <1>12. u \in State
    BY <1>2, <1>6, <1>11 DEF State
  <1> QED
    BY <1>1, <1>5, <1>6, <1>12 DEF Follows, KeepsDeleted

-----------------------------------------------------------------------------
(* Folds over a finite set: they exist, and stay in the set each step      *)
(* stays in.                                                               *)

(* An element of s, always the same. *)
First(s) == CHOOSE x \in s : TRUE

(* g is what F makes of b with the members of each part of S, one by one. *)
Folded(F, b, s, g) == IF s = {} THEN b ELSE F[<<First(s), g[s \ {First(s)}]>>]
Folds(F, b, S, g) == g = [s \in SUBSET S |-> Folded(F, b, s, g)]

Fold(F, b, S) == LET g == CHOOSE g : Folds(F, b, S, g) IN g[S]

LEMMA FirstIn == \A s : s # {} => First(s) \in s
  BY DEF First

(* A set of finite sets has one no other of which is a part of. *)
LEMMA LeastPart ==
  ASSUME NEW S, IsFiniteSet(S), NEW N, N \subseteq SUBSET S, N # {}
  PROVE  \E T \in N : \A U \in N : U \subseteq T => U = T
  <1>1. IsWellFoundedOn(StrictSubsetOrdering(S), FiniteSubsetsOf(S))
    BY FS_StrictSubsetOrderingWellFounded, Zenon
  <1>2. FiniteSubsetsOf(S) = SUBSET S
    BY FS_FiniteSubsetsOfFinite, Zenon
  <1>3. PICK T \in N : \A U \in N : ~(<<U, T>> \in StrictSubsetOrdering(S))
    BY <1>1, <1>2, WFMin, Zenon
  <1> QED
    BY <1>3 DEF StrictSubsetOrdering

(* What holds of a finite set if it holds of all its proper parts holds of *)
(* every part of a finite set.                                             *)
LEMMA InductionOnParts ==
  ASSUME NEW S, IsFiniteSet(S), NEW Q,
         \A T \in SUBSET S : (\A U \in SUBSET T : U # T => U \in Q) => T \in Q
  PROVE  SUBSET S \subseteq Q
  <1> SUFFICES ASSUME (SUBSET S) \ Q # {} PROVE FALSE
    OBVIOUS
  <1>1. PICK T \in (SUBSET S) \ Q : \A U \in (SUBSET S) \ Q : U \subseteq T => U = T
    <2> DEFINE N == (SUBSET S) \ Q
    <2>1. N \subseteq SUBSET S /\ N # {}
      OBVIOUS
    <2> HIDE DEF N
    <2>2. \E T \in N : \A U \in N : U \subseteq T => U = T
      BY <2>1, LeastPart
    <2> QED
      BY <2>2 DEF N
  <1> QED
    BY <1>1

LEMMA FoldsOf ==
  ASSUME NEW F, NEW b, NEW S, NEW g, Folds(F, b, S, g), NEW s \in SUBSET S
  PROVE  g[s] = Folded(F, b, s, g)
  BY DEF Folds

(* Two agree where both are defined. *)
LEMMA FoldsAgree ==
  ASSUME NEW S, IsFiniteSet(S), NEW T, S \subseteq T, NEW F, NEW b,
         NEW g, Folds(F, b, S, g), NEW h, Folds(F, b, T, h)
  PROVE  \A s \in SUBSET S : g[s] = h[s]
  <1>a. \A s \in SUBSET S : g[s] = Folded(F, b, s, g)
    BY FoldsOf
  <1>b. \A s \in SUBSET T : h[s] = Folded(F, b, s, h)
    BY FoldsOf
  <1> DEFINE Q == {s \in SUBSET S : g[s] = h[s]}
  <1>1. ASSUME NEW s \in SUBSET S, \A u \in SUBSET s : u # s => u \in Q
        PROVE  s \in Q
    <2>2. CASE s = {}
      BY <1>a, <1>b, <2>2 DEF Folded
    <2>3. CASE s # {}
      <3>1. First(s) \in s
        BY <2>3, FirstIn
      <3>2. g[s \ {First(s)}] = h[s \ {First(s)}]
        BY <1>1, <3>1
      <3> QED
        BY <1>a, <1>b, <2>3, <3>2 DEF Folded
    <2> QED
      BY <2>2, <2>3
  <1> HIDE DEF Q
  <1>3. SUBSET S \subseteq Q
    BY <1>1, InductionOnParts
  <1> QED
    BY <1>3 DEF Q

(* There is one. *)
LEMMA FoldsExist ==
  ASSUME NEW S, IsFiniteSet(S), NEW F, NEW b
  PROVE  \E g : Folds(F, b, S, g)
  <1> DEFINE Q == {s \in SUBSET S : \E g : Folds(F, b, s, g)}
  <1>1. ASSUME NEW s \in SUBSET S, \A u \in SUBSET s : u # s => u \in Q
        PROVE  s \in Q
    <2> DEFINE f(t) == IF t = {} THEN b ELSE F[<<First(t), Fold(F, b, t \ {First(t)})>>]
               h == [t \in SUBSET s |-> f(t)]
    <2>0. ASSUME NEW u \in SUBSET s, u # s
          PROVE  Folds(F, b, u, CHOOSE g : Folds(F, b, u, g))
      BY <1>1, <2>0
    <2>1. ASSUME NEW u \in SUBSET s, u # s
          PROVE  Fold(F, b, u) = f(u)
      <3> DEFINE k == CHOOSE g : Folds(F, b, u, g)
      <3>1. Folds(F, b, u, k)
        BY <2>0, <2>1
      <3>2. Fold(F, b, u) = k[u]
        BY DEF Fold
      <3> HIDE DEF k
      <3>3. k[u] = Folded(F, b, u, k)
        BY <3>1, FoldsOf
      <3>4. CASE u = {}
        BY <3>2, <3>3, <3>4 DEF Folded
      <3>5. CASE u # {}
        <4> DEFINE v == u \ {First(u)}
                   l == CHOOSE g : Folds(F, b, v, g)
        <4>1. First(u) \in u
          BY <3>5, FirstIn
        <4>2. v \in SUBSET s /\ v # s
          BY <2>1, <4>1
        <4>3. Folds(F, b, v, l)
          BY <2>0, <4>2
        <4>4. Fold(F, b, v) = l[v]
          BY DEF Fold
        <4>5. IsFiniteSet(v) /\ v \subseteq u
          BY <4>2, FS_Subset
        <4> HIDE DEF v, l
        <4>6. l[v] = k[v]
          BY <3>1, <4>3, <4>5, FoldsAgree
        <4> QED
          BY <3>2, <3>3, <3>5, <4>4, <4>6 DEF v, Folded
      <3> QED
        BY <3>4, <3>5
    <2>2. \A t \in SUBSET s : h[t] = f(t)
      OBVIOUS
    <2>3. ASSUME NEW t \in SUBSET s
          PROVE  f(t) = Folded(F, b, t, h)
      <3>1. CASE t = {}
        BY <3>1 DEF Folded
      <3>2. CASE t # {}
        <4>1. First(t) \in t
          BY <3>2, FirstIn
        <4>2. t \ {First(t)} \in SUBSET s /\ t \ {First(t)} # s
          BY <4>1
        <4>3. Fold(F, b, t \ {First(t)}) = h[t \ {First(t)}]
          BY <2>1, <2>2, <4>2
        <4> HIDE DEF h
        <4> QED
          BY <3>2, <4>3 DEF Folded
      <3> QED
        BY <3>1, <3>2
    <2>4. Folds(F, b, s, h)
      <3> HIDE DEF f
      <3>1. h = [t \in SUBSET s |-> Folded(F, b, t, h)]
        BY <2>3
      <3> HIDE DEF h
      <3> QED
        BY <3>1 DEF Folds
    <2> QED
      BY <2>4
  <1> HIDE DEF Q
  <1>3. SUBSET S \subseteq Q
    BY <1>1, InductionOnParts
  <1> QED
    BY <1>3 DEF Q

LEMMA ImageIsFinite ==
  ASSUME NEW S, IsFiniteSet(S), NEW m
  PROVE  IsFiniteSet({m[x] : x \in S})
  <1> DEFINE T == {m[x] : x \in S}
             f == [x \in S |-> m[x]]
  <1>1. f \in Surjection(S, T)
    BY DEF Surjection
  <1> HIDE DEF f, T
  <1>2. IsFiniteSet(T)
    BY <1>1, FS_Surjection
  <1> QED
    BY <1>2 DEF T

(* What is folded stays in the set that each step stays in. *)
LEMMA FoldsIn ==
  ASSUME NEW S, IsFiniteSet(S), NEW V, NEW b \in V, NEW F \in [S \X V -> V],
         NEW g, Folds(F, b, S, g)
  PROVE  \A s \in SUBSET S : g[s] \in V
  <1>1. \A s \in SUBSET S : g[s] = Folded(F, b, s, g)
    BY FoldsOf
  <1> DEFINE Q == {s \in SUBSET S : g[s] \in V}
  <1>2. ASSUME NEW s \in SUBSET S, \A u \in SUBSET s : u # s => u \in Q
        PROVE  s \in Q
    <2>1. CASE s = {}
      BY <1>1, <2>1 DEF Folded
    <2>2. CASE s # {}
      <3>1. First(s) \in s
        BY <2>2, FirstIn
      <3>2. g[s \ {First(s)}] \in V
        BY <1>2, <3>1
      <3> DEFINE p == <<First(s), g[s \ {First(s)}]>>
      <3>3. p \in S \X V
        BY <3>1, <3>2
      <3> HIDE DEF p
      <3>4. F[p] \in V
        BY <3>3
      <3> QED
        BY <1>1, <2>2, <3>4 DEF Folded, p
    <2> QED
      BY <2>1, <2>2
  <1> HIDE DEF Q
  <1>3. SUBSET S \subseteq Q
    BY <1>2, InductionOnParts
  <1> QED
    BY <1>3 DEF Q

Reactions == {Q \in SUBSET Reaction : IsFiniteSet(Q)}

LEMMA MoveReactionType ==
  ASSUME NEW r \in Reaction, NEW Q \in Reactions
  PROVE  MoveReaction(r, Q) \in Reactions
  <1> DEFINE key == <<IF r.key[1] = "lid" THEN "pn" ELSE r.key[1], r.source>>
             same == {x \in Q \ {r} : x.key = key}
             into == CHOOSE x \in same : TRUE
             newer == IF r.at > into.at THEN [r EXCEPT !.id = into.id, !.key = key] ELSE into
             moved == [r EXCEPT !.key = key]
             U == IF same = {} THEN (Q \ {r}) \cup {moved} ELSE (Q \ {r, into}) \cup {newer}
  <1>1. MoveReaction(r, Q) = U
    BY DEF MoveReaction
  <1>2. key \in Chats \X Keys
    BY DEF Reaction, Chats
  <1>3. moved \in Reaction
    <2> HIDE DEF key
    <2> QED
      BY <1>2 DEF Reaction
  <1>4. ASSUME same # {} PROVE newer \in Reaction
    <2>1. into \in Reaction
      BY <1>4 DEF Reactions
    <2> HIDE DEF key, into
    <2>2. into.id \in Chats \X Keys
      BY <2>1 DEF Reaction
    <2>3. [r EXCEPT !.id = into.id, !.key = key] \in Reaction
      BY <1>2, <2>2 DEF Reaction
    <2> QED
      BY <2>1, <2>3
  <1> HIDE DEF moved, newer, same, into
  <1>5. U \subseteq Reaction
    BY <1>3, <1>4 DEF Reactions
  <1>6. U \subseteq (Q \cup {moved}) \cup {newer}
    OBVIOUS
  <1>7. IsFiniteSet((Q \cup {moved}) \cup {newer})
    BY FS_AddElement DEF Reactions
  <1> HIDE DEF U
  <1>8. IsFiniteSet(U)
    BY <1>6, <1>7, FS_Subset
  <1> QED
    BY <1>1, <1>5, <1>8 DEF Reactions

(* What each reaction that is moved leaves in a set, all of them do. *)
LEMMA MovedReactionsIn ==
  ASSUME NEW V \in SUBSET Reactions, NEW Q \in V,
         \A r \in Q, U \in V : MoveReaction(r, U) \in V
  PROVE  FoldSet(MoveReaction, Q, Former(Q)) \in V
  <1> DEFINE S == Former(Q)
             F == [p \in S \X V |-> MoveReaction(p[1], p[2])]
             B(s, k) == IF s = {} THEN Q ELSE MoveReaction(First(s), k[s \ {First(s)}])
             P(k) == k = [s \in SUBSET S |-> B(s, k)]
             iter == CHOOSE k : P(k)
  <1>1. FoldSet(MoveReaction, Q, S) = iter[S]
    BY DEF FoldSet, MapThenFoldSet, First
  <1>2. S \subseteq Q /\ IsFiniteSet(S)
    <2>1. S \subseteq Q
      BY DEF Former
    <2> HIDE DEF S
    <2> QED
      BY <2>1, FS_Subset DEF Reactions
  <1> HIDE DEF S
  <1>3. \A r \in S : \A U \in V : MoveReaction(r, U) \in V
    BY <1>2
  <1>4. F \in [S \X V -> V]
    BY <1>3
  <1>5. \A r \in S : \A U \in V : F[<<r, U>>] = MoveReaction(r, U)
    OBVIOUS
  <1> HIDE DEF F
  <1>6. PICK g : Folds(F, Q, S, g)
    BY <1>2, FoldsExist
  <1>7. \A s \in SUBSET S : g[s] \in V
    BY <1>2, <1>4, <1>6, FoldsIn
  <1>8. P(g)
    <2>1. ASSUME NEW s \in SUBSET S PROVE Folded(F, Q, s, g) = B(s, g)
      <3>1. CASE s = {}
        BY <3>1 DEF Folded
      <3>2. CASE s # {}
        <4>1. First(s) \in s
          BY <3>2, FirstIn
        <4>2. First(s) \in S /\ g[s \ {First(s)}] \in V
          BY <1>7, <4>1
        <4> QED
          BY <1>5, <3>2, <4>2 DEF Folded
      <3> QED
        BY <3>1, <3>2
    <2> HIDE DEF B
    <2> QED
      BY <1>6, <2>1 DEF Folds
  <1> HIDE DEF B, P
  <1>9. P(iter)
    BY <1>8
  <1> HIDE DEF iter
  <1>10. \A s \in SUBSET S : iter[s] = B(s, iter)
    BY <1>9 DEF P
  <1> DEFINE N == {s \in SUBSET S : iter[s] \in V}
  <1>11. ASSUME NEW s \in SUBSET S, \A u \in SUBSET s : u # s => u \in N
         PROVE  s \in N
    <2>1. CASE s = {}
      BY <1>10, <2>1 DEF B
    <2>2. CASE s # {}
      <3>1. First(s) \in s
        BY <2>2, FirstIn
      <3>2. First(s) \in S /\ iter[s \ {First(s)}] \in V
        BY <1>11, <3>1
      <3> QED
        BY <1>3, <1>10, <2>2, <3>2 DEF B
    <2> QED
      BY <2>1, <2>2
  <1> HIDE DEF N
  <1>12. SUBSET S \subseteq N
    BY <1>2, <1>11, InductionOnParts
  <1>13. iter[S] \in V
    BY <1>12 DEF N
  <1> QED
    BY <1>1, <1>13 DEF S

LEMMA MovedReactionsType ==
  ASSUME NEW Q \in Reactions
  PROVE  FoldSet(MoveReaction, Q, Former(Q)) \in Reactions
  <1>1. \A r \in Q, U \in Reactions : MoveReaction(r, U) \in Reactions
    BY MoveReactionType DEF Reactions
  <1> QED
    BY <1>1, MovedReactionsIn

-----------------------------------------------------------------------------
(* An alias, move by move: rows, reactions, conversation, contact.         *)

(* f changes rows one by one, and leaves alone whether they are deleted. *)
LEMMA RowsChange ==
  ASSUME NEW R \in Rows, NEW f, \A r \in Row : f[r] \in Row /\ f[r].deleted = r.deleted,
         NEW Q, Q = [k \in DOMAIN R |-> IF R[k] = None THEN None ELSE f[R[k]]]
  PROVE  Q \in Rows /\ KeepsDeleted(R, Q)
  <1>1. \A k \in RowKeys : R[k] # None => R[k] \in Row
    BY DEF Rows, Optional
  <1>2. DOMAIN R = RowKeys
    BY DEF Rows
  <1>3. \A k \in RowKeys : Q[k] = IF R[k] = None THEN None ELSE f[R[k]]
    BY <1>2
  <1>4. Q \in Rows
    BY <1>1, <1>2 DEF Rows, Optional
  <1>5. KeepsDeleted(R, Q)
    BY <1>1, <1>3, RowsAreSome, WhatsAppKeys DEF KeepsDeleted, Deleted
  <1> QED
    BY <1>4, <1>5

LEMMA MovedOf ==
  ASSUME NEW old, NEW new \in Ids
  PROVE  /\ \A r \in Row : \E x \in Row : Moved({r}, old, new) = {x} /\ x.deleted = r.deleted
         /\ \A Q \in Reactions : Moved(Q, old, new) \in Reactions
  <1>1. ASSUME NEW r \in Row
        PROVE  \E x \in Row : Moved({r}, old, new) = {x} /\ x.deleted = r.deleted
    <2> DEFINE x == IF r.contact = old THEN [r EXCEPT !.contact = new] ELSE r
    <2>1. x \in Row /\ x.deleted = r.deleted
      BY DEF Row, RowAbout, Optional
    <2>2. Moved({r}, old, new) = {x}
      BY DEF Moved
    <2> QED
      BY <2>1, <2>2
  <1>2. ASSUME NEW Q \in Reactions
        PROVE  Moved(Q, old, new) \in Reactions
    <2> DEFINE m == [x \in Q |-> IF x.contact = old THEN [x EXCEPT !.contact = new] ELSE x]
    <2>1. \A x \in Q : m[x] \in Reaction
      BY DEF Reaction, Reactions
    <2>2. Moved(Q, old, new) = {m[x] : x \in Q}
      BY DEF Moved
    <2> HIDE DEF m
    <2> QED
      BY <2>1, <2>2, ImageIsFinite DEF Reactions
  <1> QED
    BY <1>1, <1>2

LEMMA ApartOf ==
  ASSUME NEW old, NEW new \in Ids
  PROVE  /\ \A r \in Row : \E x \in Row : Apart({r}, old, new) = {x} /\ x.deleted = r.deleted
         /\ \A Q \in Reactions : Apart(Q, old, new) \in Reactions
  <1>1. ASSUME NEW r \in Row
        PROVE  \E x \in Row : Apart({r}, old, new) = {x} /\ x.deleted = r.deleted
    <2> DEFINE x == IF r.contact = old /\ r.source = "lid"
                    THEN [r EXCEPT !.contact = new] ELSE r
    <2>1. x \in Row /\ x.deleted = r.deleted
      BY DEF Row, RowAbout, Optional
    <2>2. Apart({r}, old, new) = {x}
      BY DEF Apart
    <2> QED
      BY <2>1, <2>2
  <1>2. ASSUME NEW Q \in Reactions
        PROVE  Apart(Q, old, new) \in Reactions
    <2> DEFINE m == [x \in Q |-> IF x.contact = old /\ x.source = "lid"
                                 THEN [x EXCEPT !.contact = new] ELSE x]
    <2>1. \A x \in Q : m[x] \in Reaction
      BY DEF Reaction, Reactions
    <2>2. Apart(Q, old, new) = {m[x] : x \in Q}
      BY DEF Apart
    <2> HIDE DEF m
    <2> QED
      BY <2>1, <2>2, ImageIsFinite DEF Reactions
  <1> QED
    BY <1>1, <1>2

LEMMA RenamedOf ==
  /\ \A r \in Row : \E x \in Row : Renamed({r}) = {x} /\ x.deleted = r.deleted
  /\ \A Q \in Reactions : Renamed(Q) \in Reactions
  /\ \A M \in SUBSET Member : Renamed(M) \in SUBSET Member
  <1>0. "pn" \in Keys
    BY DEF Keys
  <1>1. ASSUME NEW r \in Row
        PROVE  \E x \in Row : Renamed({r}) = {x} /\ x.deleted = r.deleted
    <2> DEFINE x == IF r.source = "lid" THEN [r EXCEPT !.source = "pn"] ELSE r
    <2>1. x \in Row /\ x.deleted = r.deleted
      BY <1>0 DEF Row, RowAbout, Optional
    <2>2. Renamed({r}) = {x}
      BY DEF Renamed
    <2> QED
      BY <2>1, <2>2
  <1>2. ASSUME NEW Q \in Reactions
        PROVE  Renamed(Q) \in Reactions
    <2> DEFINE m == [x \in Q |-> IF x.source = "lid" THEN [x EXCEPT !.source = "pn"] ELSE x]
    <2>1. \A x \in Q : m[x] \in Reaction
      BY <1>0 DEF Reaction, Reactions
    <2>2. Renamed(Q) = {m[x] : x \in Q}
      BY DEF Renamed
    <2> HIDE DEF m
    <2> QED
      BY <2>1, <2>2, ImageIsFinite DEF Reactions
  <1>3. ASSUME NEW M \in SUBSET Member
        PROVE  Renamed(M) \in SUBSET Member
    BY <1>0 DEF Renamed, Member
  <1> QED
    BY <1>1, <1>2, <1>3

(* What an alias keeps until rows are moved to another key. *)
Keeps(s, u) ==
    /\ u \in State /\ KeepsDeleted(s.t.rows, u.t.rows)
    /\ u.t.reactions \in Reactions

LEMMA RenameSourcesKeeps ==
  ASSUME NEW s \in State, s.t.reactions \in Reactions, NEW u, u = RenameSources(s)
  PROVE  Keeps(s, u) /\ u.t.alias = s.t.alias
  <1> DEFINE f == [r \in Row |-> CHOOSE x \in Renamed({r}) : TRUE]
             R == [k \in DOMAIN s.t.rows |->
                     IF s.t.rows[k] = None THEN None ELSE f[s.t.rows[k]]]
             Q == Renamed(s.t.reactions)
             v == WithRows(s, R)
  <1>1. s.t \in Tables /\ s.t.rows \in Rows
    BY StateOf
  <1>2. \A r \in Row : f[r] \in Row /\ f[r].deleted = r.deleted
    <2> TAKE r \in Row
    <2>1. PICK x \in Row : Renamed({r}) = {x} /\ x.deleted = r.deleted
      BY RenamedOf
    <2>2. f[r] = x
      BY <2>1
    <2> HIDE DEF f
    <2> QED
      BY <2>1, <2>2
  <1>3. OverRows(s.t.rows, Renamed) = R
    <2>1. \A k \in DOMAIN s.t.rows : s.t.rows[k] # None =>
             f[s.t.rows[k]] = CHOOSE x \in Renamed({s.t.rows[k]}) : TRUE
      BY <1>1 DEF Rows, Optional
    <2> HIDE DEF f
    <2> QED
      BY <2>1 DEF OverRows
  <1>4. u = WithReactions(v, Q)
    <2>1. u = [s EXCEPT !.t.rows = OverRows(s.t.rows, Renamed), !.t.reactions = Q]
      BY <1>1 DEF RenameSources, State, Tables
    <2>2. u = [s EXCEPT !.t.rows = R, !.t.reactions = Q]
      BY <1>3, <2>1
    <2> HIDE DEF R, Q
    <2> QED
      BY <2>2 DEF WithRows, WithReactions
  <1>5. R \in Rows /\ KeepsDeleted(s.t.rows, R)
    <2> HIDE DEF f
    <2> QED
      BY <1>1, <1>2, RowsChange
  <1>6. Q \in Reactions
    BY RenamedOf
  <1> HIDE DEF R, Q
  <1>7. v \in State /\ v.t.rows = R /\ v.t.alias = s.t.alias
    <2>1. v = WithRows(s, R)
      OBVIOUS
    <2> HIDE DEF v
    <2> QED
      BY <1>5, <2>1, StatesRows
  <1> HIDE DEF v
  <1>8. Q \in SUBSET Reaction
    BY <1>6 DEF Reactions
  <1>9. u \in State /\ u.t.rows = R /\ u.t.alias = s.t.alias /\ u.t.reactions = Q
    BY <1>4, <1>7, <1>8, StatesReactions
  <1> QED
    BY <1>5, <1>6, <1>9 DEF Keeps

LEMMA MoveReactionsKeeps ==
  ASSUME NEW s \in State, s.t.reactions \in Reactions, NEW u, u = MoveReactions(s)
  PROVE  Keeps(s, u) /\ u.t.alias = s.t.alias
  <1> DEFINE Q == FoldSet(MoveReaction, s.t.reactions, Former(s.t.reactions))
  <1>1. u = WithReactions(s, Q)
    BY DEF MoveReactions, WithReactions
  <1>2. Q \in Reactions
    BY MovedReactionsType
  <1> HIDE DEF Q
  <1>3. Q \in SUBSET Reaction
    BY <1>2 DEF Reactions
  <1>4. u \in State /\ u.t.rows = s.t.rows /\ u.t.alias = s.t.alias /\ u.t.reactions = Q
    BY <1>1, <1>3, StatesReactions
  <1> QED
    BY <1>2, <1>4 DEF Keeps, KeepsDeleted

(* A message that is deleted on WhatsApp is so where a move brings it. *)
MovesDeleted(s, u) ==
    \A c \in WhatsAppChats :
        Deleted(s.t.rows, <<"message", c>>) =>
            Deleted(u.t.rows, <<"message", IF c = "lid" THEN "pn" ELSE c>>)

(* The row that stays, of one under the old key and one under the new. *)
Staying(rows, kind) ==
    LET from == rows[<<kind, "lid">>]
        into == rows[<<kind, "pn">>]
    IN IF into = None THEN from
       ELSE IF kind = "message" THEN Merged([from EXCEPT !.chat = into.chat], into)
       ELSE Merged(from, into)
RowsMoved(rows, kind) ==
    [[rows EXCEPT ![<<kind, "lid">>] = None] EXCEPT ![<<kind, "pn">>] = Staying(rows, kind)]
Following(r, old, new) == IF r.message = old THEN [r EXCEPT !.message = new] ELSE r
ReactionsMoved(t, kind) ==
    IF kind # "message" THEN t.reactions
    ELSE {Following(r, t.rows[<<kind, "lid">>].id, Staying(t.rows, kind).id) : r \in t.reactions}

LEMMA MoveRowIs ==
  ASSUME NEW s \in State, NEW kind \in {"message", "timeline"},
         s.t.rows[<<kind, "lid">>] # None
  PROVE  MoveRow(s, kind) =
            WithReactions(WithRows(s, RowsMoved(s.t.rows, kind)), ReactionsMoved(s.t, kind))
  <1> DEFINE lid == <<kind, "lid">>
             pn == <<kind, "pn">>
             old == s.t.rows[lid].id
             stays == Staying(s.t.rows, kind)
             R == RowsMoved(s.t.rows, kind)
             Q == ReactionsMoved(s.t, kind)
             new(q) == IF kind # "message" THEN q
                       ELSE {Following(r, old, stays.id) : r \in q}
             w == [s EXCEPT !.t.rows[lid] = None, !.t.rows[pn] = stays]
             u == MoveRow(s, kind)
  <1>1. s.t \in Tables /\ s.t.rows \in Rows /\ lid \in RowKeys /\ pn \in RowKeys
    <2>1. "lid" \in Chats /\ "pn" \in Chats
      BY DEF Chats
    <2> QED
      BY <2>1, StateOf DEF RowKeys
  <1>2. R = [[s.t.rows EXCEPT ![lid] = None] EXCEPT ![pn] = stays] /\ Q = new(s.t.reactions)
    BY DEF RowsMoved, ReactionsMoved
  <1>3. u = [s EXCEPT !.t.rows[lid] = None, !.t.rows[pn] = stays, !.t.reactions = new(@)]
    BY DEF MoveRow, Staying, Following
  <1> HIDE DEF lid, pn, old, stays, R, Q, new, u
  <1>4. w = [s EXCEPT !.t.rows = R] /\ w.t.reactions = s.t.reactions
    BY <1>1, <1>2 DEF State, Tables
  <1>5. u = [w EXCEPT !.t.reactions = Q]
    BY <1>2, <1>3, <1>4
  <1> HIDE DEF w
  <1> QED
    BY <1>4, <1>5 DEF WithRows, WithReactions, u, R, Q

LEMMA MoveRowKeeps ==
  ASSUME NEW s \in State, s.t.reactions \in Reactions, NEW kind \in {"message", "timeline"},
         NEW u, u = MoveRow(s, kind)
  PROVE  /\ u \in State /\ u.t.alias = s.t.alias /\ u.t.reactions \in Reactions
         /\ IF kind = "message" THEN MovesDeleted(s, u)
            ELSE \A c \in Chats : Deleted(s.t.rows, <<"message", c>>) =>
                                  Deleted(u.t.rows, <<"message", c>>)
  <1> DEFINE lid == <<kind, "lid">>
             pn == <<kind, "pn">>
             from == s.t.rows[lid]
             into == s.t.rows[pn]
             stays == IF into = None THEN from
                      ELSE IF kind = "message" THEN Merged([from EXCEPT !.chat = into.chat], into)
                      ELSE Merged(from, into)
             R == [[s.t.rows EXCEPT ![lid] = None] EXCEPT ![pn] = stays]
             m == [r \in s.t.reactions |->
                     IF r.message = from.id THEN [r EXCEPT !.message = stays.id] ELSE r]
             Q == IF kind # "message" THEN s.t.reactions ELSE {m[r] : r \in s.t.reactions}
             v == WithRows(s, R)
  <1>1. /\ s.t \in Tables /\ s.t.rows \in Rows /\ lid \in RowKeys /\ pn \in RowKeys
        /\ lid # pn
    <2>1. "lid" \in Chats /\ "pn" \in Chats
      BY DEF Chats
    <2> QED
      BY <2>1, StateOf DEF RowKeys
  <1>2. CASE from = None
    <2>1. u = s
      BY <1>2 DEF MoveRow
    <2>2. ~Deleted(s.t.rows, lid)
      BY <1>2 DEF Deleted
    <2> QED
      BY <2>1, <2>2, WhatsAppKeys DEF MovesDeleted
  <1>3. CASE from # None
    <2>1. from \in Row /\ into \in Optional(Row)
      BY <1>1, <1>3 DEF Rows, Optional
    <2>2. /\ stays \in Row
          /\ from.deleted => stays.deleted
          /\ into # None => (into.deleted => stays.deleted)
      <3> HIDE DEF from, into
      <3>1. CASE into = None
        BY <2>1, <3>1
      <3>2. CASE into # None
        <4>1. into \in Row
          BY <2>1, <3>2 DEF Optional
        <4>2. \A x \in Row, y \in Row :
                 Merged(x, y) \in Row /\ Merged(x, y).deleted = (x.deleted \/ y.deleted)
          BY DEF Merged, Row, RowAbout
        <4>3. [from EXCEPT !.chat = into.chat] \in Row
              /\ [from EXCEPT !.chat = into.chat].deleted = from.deleted
          BY <2>1, <4>1 DEF Row, RowAbout
        <4> QED
          BY <2>1, <3>2, <4>1, <4>2, <4>3
      <3> QED
        BY <3>1, <3>2
    <2>4. \A r \in s.t.reactions : m[r] \in Reaction
      <3>1. s.t.reactions \subseteq Reaction /\ stays.id \in Chats
        BY <2>2 DEF Row, RowAbout, Reactions
      <3> HIDE DEF stays, from
      <3> QED
        BY <3>1 DEF Reaction
    <2>5. u = WithReactions(v, Q)
      <3>1. {m[r] : r \in s.t.reactions} = {Following(r, from.id, stays.id) : r \in s.t.reactions}
        BY DEF Following
      <3> QED
        BY <1>3, <3>1, MoveRowIs DEF RowsMoved, ReactionsMoved, Staying
    <2> HIDE DEF stays, from, into, m
    <2>6. Q \in Reactions
      BY <2>4, ImageIsFinite DEF Reactions
    <2>7. R \in Rows
      BY <1>1, <2>2 DEF Rows, Optional
    <2>8. \A k \in RowKeys : R[k] = IF k = pn THEN stays ELSE IF k = lid THEN None ELSE s.t.rows[k]
      BY <1>1 DEF Rows
    <2> HIDE DEF R, Q
    <2>9. v \in State /\ v.t.rows = R /\ v.t.alias = s.t.alias
      <3>1. v = WithRows(s, R)
        OBVIOUS
      <3> HIDE DEF v
      <3> QED
        BY <2>7, <3>1, StatesRows
    <2> HIDE DEF v
    <2>10. u \in State /\ u.t.rows = R /\ u.t.alias = s.t.alias /\ u.t.reactions = Q
      <3>1. Q \in SUBSET Reaction
        BY <2>6 DEF Reactions
      <3> QED
        BY <2>5, <2>9, <3>1, StatesReactions
    <2>11. stays # None
      BY <2>2, RowsAreSome
    <2>12. (Deleted(s.t.rows, lid) \/ Deleted(s.t.rows, pn)) => Deleted(R, pn)
      BY <1>1, <2>2, <2>8, <2>11 DEF Deleted, from, into
    <2>13. \A k \in RowKeys \ {lid, pn} : Deleted(s.t.rows, k) => Deleted(R, k)
      BY <2>8 DEF Deleted
    <2>14. ASSUME NEW c \in Chats, Deleted(s.t.rows, <<"message", c>>)
           PROVE  Deleted(R, <<"message", IF kind = "message" /\ c = "lid" THEN "pn" ELSE c>>)
      <3>1. <<"message", c>> \in RowKeys
        BY DEF RowKeys
      <3>2. CASE kind = "timeline"
        <4>1. <<"message", c>> # lid /\ <<"message", c>> # pn
          BY <3>2
        <4> HIDE DEF lid, pn
        <4> QED
          BY <2>13, <2>14, <3>1, <3>2, <4>1
      <3>3. CASE kind = "message" /\ c \in {"lid", "pn"}
        BY <2>12, <2>14, <3>3
      <3>4. CASE kind = "message" /\ c \notin {"lid", "pn"}
        <4>1. <<"message", c>> # lid /\ <<"message", c>> # pn
          BY <3>4
        <4>2. Deleted(R, <<"message", c>>)
          <5> HIDE DEF lid, pn
          <5> QED
            BY <2>13, <2>14, <3>1, <4>1
        <4> QED
          BY <3>4, <4>2
      <3> QED
        BY <3>2, <3>3, <3>4
    <2> HIDE DEF lid, pn
    <2>15. CASE kind = "message"
      BY <2>6, <2>10, <2>14, <2>15, WhatsAppKeys DEF MovesDeleted
    <2>16. CASE kind = "timeline"
      BY <2>6, <2>10, <2>14, <2>16
    <2> QED
      BY <2>15, <2>16
  <1> QED
    BY <1>2, <1>3

(* The conversation that has the new key, and what is moved to it. *)
ChatThere(t) == IF t.chats["pn"] # None THEN t.chats["pn"] ELSE t.chats["lid"]
Into(x, old, chat) == IF x.chat = old THEN [x EXCEPT !.chat = chat] ELSE x
InChat(S, old, chat) == {Into(x, old, chat) : x \in S}
MembersMoved(t, old, chat) ==
    IF old = chat THEN t.members
    ELSE InChat({x \in t.members : x.chat # old}
                \cup Renamed({x \in t.members : x.chat = old}), old, chat)
RowsInChat(t, old, chat) ==
    [k \in DOMAIN t.rows |-> IF t.rows[k] = None THEN None ELSE Into(t.rows[k], old, chat)]

LEMMA MoveChatIs ==
  ASSUME NEW s \in State, s.t.chats["lid"] # None
  PROVE  LET old == s.t.chats["lid"]
             chat == ChatThere(s.t)
         IN MoveChat(s) =
              [t |-> [s.t EXCEPT
                        !.chats = [[s.t.chats EXCEPT !["lid"] = None] EXCEPT !["pn"] = chat],
                        !.members = MembersMoved(s.t, old, chat),
                        !.rows = RowsInChat(s.t, old, chat)],
               c |-> [s.c EXCEPT
                        !.chats = [[s.c.chats EXCEPT !["lid"] = chat] EXCEPT !["pn"] = chat]],
               at |-> s.at]
  <1> DEFINE old == s.t.chats["lid"]
             chat == ChatThere(s.t)
             cc == [[s.c.chats EXCEPT !["lid"] = chat] EXCEPT !["pn"] = chat]
             tc == [[s.t.chats EXCEPT !["lid"] = None] EXCEPT !["pn"] = chat]
             tm == MembersMoved(s.t, old, chat)
             tr == RowsInChat(s.t, old, chat)
             u == MoveChat(s)
  <1>1. /\ s = [t |-> s.t, c |-> s.c, at |-> s.at] /\ s.t \in Tables /\ s.c \in Cache
    BY StateOf
  <1>2. u = [s EXCEPT !.c.chats["lid"] = chat, !.c.chats["pn"] = chat,
                      !.t.chats["lid"] = None, !.t.chats["pn"] = chat,
                      !.t.members = tm, !.t.rows = tr]
    <2>1. u = [s EXCEPT
            !.c.chats["lid"] = chat, !.c.chats["pn"] = chat,
            !.t.chats["lid"] = None, !.t.chats["pn"] = chat,
            !.t.members = IF old = chat THEN @
                          ELSE InChat({x \in @ : x.chat # old}
                                      \cup Renamed({x \in @ : x.chat = old}), old, chat),
            !.t.rows = [k \in DOMAIN @ |-> IF @[k] = None THEN None
                            ELSE CHOOSE r \in InChat({@[k]}, old, chat) : TRUE]]
      BY DEF MoveChat, OverRows, InChat, Into, ChatThere
    <2> HIDE DEF old, chat, u
    <2> DEFINE f(x) == CHOOSE r \in InChat({x}, old, chat) : TRUE
    <2>2. \A x : f(x) = Into(x, old, chat)
      <3>1. \A x : InChat({x}, old, chat) = {Into(x, old, chat)}
        BY DEF InChat
      <3> QED
        BY <3>1
    <2>3. [k \in DOMAIN s.t.rows |-> IF s.t.rows[k] = None THEN None ELSE f(s.t.rows[k])] = tr
      <3> HIDE DEF f
      <3> QED
        BY <2>2 DEF RowsInChat
    <2> QED
      BY <1>1, <2>1, <2>3 DEF State, Tables, MembersMoved
  <1> HIDE DEF old, chat, tm, tr, u
  <1> DEFINE s1 == [s EXCEPT !.c.chats["lid"] = chat, !.c.chats["pn"] = chat]
             s2 == [s1 EXCEPT !.t.chats["lid"] = None, !.t.chats["pn"] = chat]
  <1>3. u = [s2 EXCEPT !.t.members = tm, !.t.rows = tr]
    BY <1>2
  <1>4. s1 = [s EXCEPT !.c.chats = cc]
    BY <1>1 DEF State, Cache
  <1>5. s1.t = s.t
    BY <1>1 DEF State
  <1>6. s1 = [t |-> s.t, c |-> [s.c EXCEPT !.chats = cc], at |-> s.at]
    BY <1>1, <1>4 DEF State
  <1> HIDE DEF s1
  <1>7. s2 = [s1 EXCEPT !.t.chats = tc]
    BY <1>1, <1>5, <1>6 DEF Tables
  <1> HIDE DEF cc, tc, s2
  <1>8. s2 = [t |-> [s.t EXCEPT !.chats = tc], c |-> [s.c EXCEPT !.chats = cc], at |-> s.at]
    BY <1>1, <1>6, <1>7
  <1>9. u = [t |-> [s.t EXCEPT !.chats = tc, !.members = tm, !.rows = tr],
             c |-> [s.c EXCEPT !.chats = cc], at |-> s.at]
    BY <1>1, <1>3, <1>8 DEF Tables
  <1> QED
    BY <1>9 DEF u, cc, tc, tm, tr, old, chat

LEMMA MoveChatKeeps ==
  ASSUME NEW s \in State, s.t.reactions \in Reactions, NEW u, u = MoveChat(s)
  PROVE  Keeps(s, u) /\ u.t.alias = s.t.alias
  <1> DEFINE old == s.t.chats["lid"]
             chat == ChatThere(s.t)
             To(S) == InChat(S, old, chat)
  <1>1. /\ s = [t |-> s.t, c |-> s.c, at |-> s.at]
        /\ s.t \in Tables /\ s.c \in Cache /\ s.at \in Nat
        /\ s.t.rows \in Rows /\ s.t.members \subseteq Member
        /\ s.t.chats \in [Chats -> Optional(Chats)] /\ s.c.chats \in [Chats -> Optional(Chats)]
    BY StateOf
  <1>2. "lid" \in Chats /\ "pn" \in Chats /\ "lid" # "pn"
    BY DEF Chats
  <1>3. CASE old = None
    <2>1. u = s
      BY <1>3 DEF MoveChat
    <2> QED
      BY <2>1 DEF Keeps, KeepsDeleted
  <1>4. CASE old # None
    <2>1. chat \in Chats
      BY <1>1, <1>2, <1>4 DEF Optional, ChatThere
    <2> DEFINE cc == [[s.c.chats EXCEPT !["lid"] = chat] EXCEPT !["pn"] = chat]
               tc == [[s.t.chats EXCEPT !["lid"] = None] EXCEPT !["pn"] = chat]
               tm == MembersMoved(s.t, old, chat)
               tr == RowsInChat(s.t, old, chat)
               C == [s.c EXCEPT !.chats = cc]
               T == [s.t EXCEPT !.chats = tc, !.members = tm, !.rows = tr]
    <2>3. u = [t |-> T, c |-> C, at |-> s.at]
      BY <1>4, MoveChatIs
    <2>4. \A r \in Row : Into(r, old, chat) \in Row /\ Into(r, old, chat).deleted = r.deleted
      <3> HIDE DEF old, chat
      <3> QED
        BY <2>1 DEF Row, RowAbout, Into
    <2>5. tm \subseteq Member
      <3> DEFINE A == {x \in s.t.members : x.chat # old}
                 B == Renamed({x \in s.t.members : x.chat = old})
      <3>1. A \in SUBSET Member /\ B \in SUBSET Member
        BY <1>1, RenamedOf
      <3>2. tm = IF old = chat THEN s.t.members ELSE To(A \cup B)
        BY DEF MembersMoved
      <3> HIDE DEF old, chat, A, B
      <3>3. To(A \cup B) \subseteq Member
        BY <2>1, <3>1 DEF Member, InChat, Into
      <3> QED
        BY <1>1, <3>2, <3>3
    <2> HIDE DEF To, old, chat
    <2>6. cc \in [Chats -> Optional(Chats)] /\ tc \in [Chats -> Optional(Chats)]
      BY <1>1, <2>1 DEF Optional
    <2>7. tr \in Rows /\ KeepsDeleted(s.t.rows, tr)
      <3> DEFINE f == [r \in Row |-> Into(r, old, chat)]
      <3>1. \A r \in Row : f[r] \in Row /\ f[r].deleted = r.deleted
        BY <2>4
      <3>2. tr = [k \in DOMAIN s.t.rows |-> IF s.t.rows[k] = None THEN None ELSE f[s.t.rows[k]]]
        BY <1>1 DEF Rows, Optional, RowsInChat
      <3> HIDE DEF f, tr
      <3> QED
        BY <1>1, <3>1, <3>2, RowsChange
    <2> HIDE DEF cc, tc, tm, tr
    <2>9. /\ T \in Tables /\ C \in Cache /\ T.rows = tr
          /\ T.alias = s.t.alias /\ T.reactions = s.t.reactions
      BY <1>1, <2>5, <2>6, <2>7 DEF Tables, Cache, Rows, Member
    <2> HIDE DEF T, C
    <2>10. u \in State /\ u.t = T
      BY <1>1, <2>3, <2>9 DEF State
    <2> QED
      BY <2>7, <2>9, <2>10 DEF Keeps
  <1> QED
    BY <1>3, <1>4

LEMMA ContactIsFound ==
  ASSUME NEW s \in State, NEW key \in Keys
  PROVE  FindContact(s, key) \in Optional(Ids)
  <1>1. s.c.sources[key] \in Optional(Ids) /\ key \in Ids
    BY StateOf DEF Ids
  <1> QED
    BY <1>1 DEF FindContact, Optional

LEMMA MoveContactKeeps ==
  ASSUME NEW s \in State, s.t.reactions \in Reactions, NEW u, u = MoveContact(s)
  PROVE  Keeps(s, u) /\ u.t.alias \in Alias
  <1> DEFINE old == FindContact(s, "lid")
             pn == FindContact(s, "pn")
             shared == old # None /\ \E k \in {"im", "card"} : s.t.sources[k] = old
             new == IF pn # None THEN pn ELSE IF shared THEN "pn" ELSE old
             move == old \notin {None, new}
             To(S) == IF ~move THEN S ELSE IF shared THEN Apart(S, old, new) ELSE Moved(S, old, new)
             al == [former |-> IF shared THEN None ELSE old, canonical |-> new]
             tc == (IF shared THEN s.t.contacts \cup {new} ELSE s.t.contacts) \
                   (IF move /\ ~shared THEN {old} ELSE {})
  <1>1. /\ s = [t |-> s.t, c |-> s.c, at |-> s.at]
        /\ s.t \in Tables /\ s.c \in Cache /\ s.at \in Nat
        /\ s.t.rows \in Rows /\ s.t.members \subseteq Member /\ s.t.contacts \subseteq Ids
        /\ s.t.sources \in [Keys -> Optional(Ids)] /\ s.t.phones \in Seq(Handle)
        /\ s.c.merged \in Merges /\ s.c.sources \in [Keys -> Optional(Ids)]
    BY StateOf
  <1>2. old \in Optional(Ids) /\ pn \in Optional(Ids) /\ "pn" \in Ids
        /\ "pn" \in Keys /\ "lid" \in Keys
    <2>1. "lid" \in Keys /\ "pn" \in Keys
      BY DEF Keys
    <2> QED
      BY <2>1, ContactIsFound DEF Ids
  <1>3. CASE new = None
    <2> DEFINE T == [s.t EXCEPT !.alias = [former |-> None, canonical |-> None]]
    <2>1. u = [s EXCEPT !.t.alias = [former |-> None, canonical |-> None]]
      BY <1>3 DEF MoveContact
    <2>2. u = [t |-> T, c |-> s.c, at |-> s.at]
      BY <1>1, <2>1
    <2>3. [former |-> None, canonical |-> None] \in Alias
      BY DEF Alias, Optional
    <2>4. /\ T \in Tables /\ T.alias \in Alias /\ T.rows = s.t.rows
          /\ T.reactions = s.t.reactions
      BY <1>1, <2>3 DEF Tables, Optional
    <2> HIDE DEF T
    <2> QED
      BY <1>1, <2>2, <2>4 DEF State, Keeps, KeepsDeleted
  <1>4. CASE new # None
    <2>1. new \in Ids
      <3> HIDE DEF old, pn
      <3> QED
        BY <1>2, <1>4 DEF Optional
    <2> DEFINE cs == [[s.c.sources EXCEPT !["lid"] = new] EXCEPT !["pn"] = new]
               cm == IF move /\ ~shared THEN [s.c.merged EXCEPT ![old] = new] ELSE s.c.merged
               ts == [k \in Keys |->
                        IF k = "pn" /\ s.t.sources[k] = None THEN new
                        ELSE IF move /\ s.t.sources[k] = old /\ (shared => k = "lid")
                             THEN new ELSE s.t.sources[k]]
               tp == IF ~move \/ shared THEN s.t.phones
                     ELSE [n \in DOMAIN s.t.phones |->
                             IF s.t.phones[n].contact = old
                             THEN [s.t.phones[n] EXCEPT !.contact = new] ELSE s.t.phones[n]]
               tm == IF move
                     THEN {IF x.contact = old /\ (shared => x.source = "lid")
                           THEN [x EXCEPT !.contact = new,
                                          !.source = IF @ = "lid" THEN "pn" ELSE @]
                           ELSE x : x \in s.t.members}
                     ELSE {IF x.contact = old /\ x.source = "lid"
                           THEN [x EXCEPT !.source = "pn"] ELSE x : x \in s.t.members}
               tr == [k \in DOMAIN s.t.rows |-> IF s.t.rows[k] = None THEN None
                                                ELSE CHOOSE r \in To({s.t.rows[k]}) : TRUE]
               tq == To(s.t.reactions)
               C == [s.c EXCEPT !.sources = cs, !.merged = cm]
               T == [s.t EXCEPT !.alias = al, !.contacts = tc, !.sources = ts, !.phones = tp,
                                !.members = tm, !.rows = tr, !.reactions = tq]
    <2>2. u = [s EXCEPT !.c = MoveInCache(s.c, old, new, shared),
                        !.t = MoveInTables(s.t, old, new, shared)]
      BY <1>4 DEF MoveContact
    <2>3. al \in Alias /\ tc \subseteq Ids
      <3> HIDE DEF old, shared, new
      <3> QED
        BY <1>1, <1>2, <2>1 DEF Alias, Optional
    <2>4. MoveInCache(s.c, old, new, shared) = C
      <3> HIDE DEF old, shared, new
      <3> QED
        BY <1>1 DEF MoveInCache, Cache
    <2>5. MoveInTables(s.t, old, new, shared) = T
      <3> HIDE DEF old, shared, new
      <3> QED
        BY DEF MoveInTables, OverRows
    <2> HIDE DEF al, tc, T, C
    <2>6. u = [t |-> T, c |-> C, at |-> s.at]
      BY <1>1, <2>2, <2>4, <2>5
    <2>7. /\ \A r \in Row : \E x \in Row : To({r}) = {x} /\ x.deleted = r.deleted
          /\ tq \in Reactions
      <3> HIDE DEF old, shared, move, new
      <3>1. CASE ~move
        BY <3>1
      <3>2. CASE move /\ shared
        BY <2>1, <3>2, ApartOf
      <3>3. CASE move /\ ~shared
        BY <2>1, <3>3, MovedOf
      <3> QED
        BY <3>1, <3>2, <3>3
    <2>8. tm \subseteq Member
      <3> HIDE DEF old, shared, move, new
      <3> QED
        BY <1>1, <1>2, <2>1 DEF Member
    <2>9. tp \in Seq(Handle)
      <3> HIDE DEF old, shared, move, new
      <3> DEFINE P(x) == IF x.contact = old THEN [x EXCEPT !.contact = new] ELSE x
      <3>1. \A x \in Handle : P(x) \in Handle
        BY <2>1 DEF Handle
      <3>2. tp = IF ~move \/ shared THEN s.t.phones
                 ELSE [n \in DOMAIN s.t.phones |-> P(s.t.phones[n])]
        OBVIOUS
      <3> HIDE DEF P, tp
      <3>3. \A n \in DOMAIN s.t.phones : P(s.t.phones[n]) \in Handle
        BY <1>1, <3>1
      <3> QED
        BY <1>1, <3>2, <3>3
    <2>10. ts \in [Keys -> Optional(Ids)] /\ cs \in [Keys -> Optional(Ids)]
      <3> HIDE DEF old, shared, move, new
      <3> QED
        BY <1>1, <2>1 DEF Optional
    <2>11. cm \in Merges
      <3> HIDE DEF old, shared, move, new
      <3> QED
        BY <1>1, <2>1 DEF Merges, Optional
    <2> HIDE DEF To, shared, move, old, new
    <2>12. tr \in Rows /\ KeepsDeleted(s.t.rows, tr)
      <3> DEFINE f == [r \in Row |-> CHOOSE x \in To({r}) : TRUE]
      <3>1. \A r \in Row : f[r] \in Row /\ f[r].deleted = r.deleted
        <4> TAKE r \in Row
        <4>1. PICK x \in Row : To({r}) = {x} /\ x.deleted = r.deleted
          BY <2>7
        <4>2. f[r] = x
          BY <4>1
        <4> HIDE DEF f
        <4> QED
          BY <4>1, <4>2
      <3>2. tr = [k \in DOMAIN s.t.rows |-> IF s.t.rows[k] = None THEN None ELSE f[s.t.rows[k]]]
        BY <1>1 DEF Rows, Optional
      <3> HIDE DEF f, tr
      <3> QED
        BY <1>1, <3>1, <3>2, RowsChange
    <2> HIDE DEF cs, cm, ts, tp, tm, tr, tq
    <2>13. /\ T \in Tables /\ T.rows = tr /\ T.reactions = tq /\ T.alias = al
      <3>1. tq \in SUBSET Reaction
        BY <2>7 DEF Reactions
      <3>2. T = [contacts |-> tc, sources |-> ts, phones |-> tp, alias |-> al,
                 chats |-> s.t.chats, members |-> tm, rows |-> tr, reactions |-> tq]
        <4> DEFINE t == s.t
        <4>1. t = [contacts |-> t.contacts, sources |-> t.sources, phones |-> t.phones,
                   alias |-> t.alias, chats |-> t.chats, members |-> t.members,
                   rows |-> t.rows, reactions |-> t.reactions]
          <5>1. t \in Tables
            BY <1>1
          <5> HIDE DEF t
          <5> QED
            BY <5>1 DEF Tables
        <4>2. T = [t EXCEPT !.alias = al, !.contacts = tc, !.sources = ts, !.phones = tp,
                            !.members = tm, !.rows = tr, !.reactions = tq]
          BY DEF T
        <4> HIDE DEF t
        <4>3. T = [contacts |-> tc, sources |-> ts, phones |-> tp, alias |-> al,
                   chats |-> t.chats, members |-> tm, rows |-> tr, reactions |-> tq]
          BY <4>1, <4>2
        <4> QED
          BY <4>3 DEF t
      <3>3. s.t.chats \in [Chats -> Optional(Chats)] /\ al \in Optional(Alias)
        BY <1>1, <2>3 DEF Tables, Optional
      <3> HIDE DEF T
      <3> QED
        BY <2>3, <2>8, <2>9, <2>10, <2>12, <3>1, <3>2, <3>3
        DEF Tables, Rows, Member, Handle, Reaction
    <2>14. C \in Cache
      BY <1>1, <2>10, <2>11 DEF C, Cache, Merges
    <2> HIDE DEF T, C
    <2>15. u \in State
      BY <1>1, <2>6, <2>13, <2>14 DEF State
    <2> QED
      BY <2>3, <2>6, <2>7, <2>12, <2>13, <2>15 DEF Keeps
  <1> QED
    BY <1>3, <1>4

-----------------------------------------------------------------------------
(* One event, whatever it is.                                              *)

LEMMA ProjectAliasWorks ==
  ASSUME NEW s \in State, s.t.reactions \in Reactions, s.t.alias = None,
         NEW u, u = ProjectAlias(s)
  PROVE  /\ u \in State /\ u.t.reactions \in Reactions /\ u.t.alias # None
         /\ MovesDeleted(s, u)
  <1> DEFINE s1 == MoveContact(s)
             s2 == MoveChat(s1)
             s3 == MoveRow(s2, "message")
             s4 == RenameSources(s3)
             s5 == MoveReactions(s4)
  <1>1. u = MoveRow(s5, "timeline")
    BY DEF ProjectAlias
  <1>2. Keeps(s, s1) /\ s1.t.alias \in Alias
    BY MoveContactKeeps
  <1> HIDE DEF s1
  <1>3. Keeps(s1, s2) /\ s2.t.alias = s1.t.alias
    BY <1>2, MoveChatKeeps DEF Keeps
  <1> HIDE DEF s2
  <1>4. /\ s3 \in State /\ s3.t.alias = s2.t.alias /\ s3.t.reactions \in Reactions
        /\ MovesDeleted(s2, s3)
    BY <1>3, MoveRowKeeps DEF Keeps
  <1> HIDE DEF s3
  <1>5. Keeps(s3, s4) /\ s4.t.alias = s3.t.alias
    BY <1>4, RenameSourcesKeeps
  <1> HIDE DEF s4
  <1>6. Keeps(s4, s5) /\ s5.t.alias = s4.t.alias
    BY <1>5, MoveReactionsKeeps DEF Keeps
  <1> HIDE DEF s5
  <1>7. /\ u \in State /\ u.t.alias = s5.t.alias /\ u.t.reactions \in Reactions
        /\ \A c \in Chats : Deleted(s5.t.rows, <<"message", c>>) =>
                            Deleted(u.t.rows, <<"message", c>>)
    BY <1>1, <1>6, MoveRowKeeps DEF Keeps
  <1>8. u.t.alias # None
    BY <1>2, <1>3, <1>4, <1>5, <1>6, <1>7, IdentityAssumption
  <1>9. MovesDeleted(s, u)
    <2> SUFFICES ASSUME NEW c \in WhatsAppChats, Deleted(s.t.rows, <<"message", c>>)
                 PROVE  Deleted(u.t.rows, <<"message", IF c = "lid" THEN "pn" ELSE c>>)
      BY DEF MovesDeleted
    <2> DEFINE d == IF c = "lid" THEN "pn" ELSE c
    <2>1. /\ <<"message", c>> \in WhatsAppRows /\ <<"message", d>> \in WhatsAppRows
          /\ d \in Chats
      <3>1. d \in WhatsAppChats
        BY WhatsAppKeys
      <3> HIDE DEF d
      <3> QED
        BY <3>1, WhatsAppKeys
    <2>2. Deleted(s2.t.rows, <<"message", c>>)
      BY <1>2, <1>3, <2>1 DEF Keeps, KeepsDeleted
    <2>3. Deleted(s3.t.rows, <<"message", d>>)
      BY <1>4, <2>2 DEF MovesDeleted
    <2> HIDE DEF d
    <2>4. Deleted(s5.t.rows, <<"message", d>>)
      BY <1>5, <1>6, <2>1, <2>3 DEF Keeps, KeepsDeleted
    <2> QED
      BY <1>7, <2>1, <2>4 DEF d
  <1> QED
    BY <1>7, <1>8, <1>9

(* What was revoked, as far as the events in N say, is deleted. *)
Revoked(events, N, t) ==
    \A n \in N : events[n].kind = "revocation" =>
        Deleted(t.rows, <<"message", CanonicalKey(t, events[n].chat)>>)

LEMMA CanonicalKeys ==
  ASSUME NEW t
  PROVE  /\ \A c \in Chats : CanonicalKey(t, c) \in Chats
         /\ \A c \in WhatsAppChats : CanonicalKey(t, c) \in WhatsAppChats
         /\ \A k \in Keys : CanonicalKey(t, k) \in Keys
  BY WhatsAppKeys DEF CanonicalKey, Chats, Keys

(* What an event leaves behind. *)
Leaves(s, u) ==
    /\ u \in State /\ u.t.reactions \in Reactions
    /\ s.t.alias # None => u.t.alias = s.t.alias
    /\ \A c \in WhatsAppChats :
          Deleted(s.t.rows, <<"message", CanonicalKey(s.t, c)>>) =>
              Deleted(u.t.rows, <<"message", CanonicalKey(u.t, c)>>)

LEMMA FollowsLeaves ==
  ASSUME NEW s \in State, s.t.reactions \in Reactions, NEW u, Follows(s, u)
  PROVE  Leaves(s, u)
  <1>1. u \in State /\ u.t.alias = s.t.alias /\ KeepsDeleted(s.t.rows, u.t.rows)
        /\ IsFiniteSet(u.t.reactions)
    BY DEF Follows, Reactions
  <1>2. u.t.reactions \in Reactions
    BY <1>1, StateOf DEF Reactions
  <1>3. ASSUME NEW c \in WhatsAppChats, Deleted(s.t.rows, <<"message", CanonicalKey(s.t, c)>>)
        PROVE  Deleted(u.t.rows, <<"message", CanonicalKey(u.t, c)>>)
    <2>1. CanonicalKey(u.t, c) = CanonicalKey(s.t, c)
      BY <1>1 DEF CanonicalKey
    <2>2. <<"message", CanonicalKey(s.t, c)>> \in WhatsAppRows
      BY CanonicalKeys, WhatsAppKeys
    <2> QED
      BY <1>1, <1>3, <2>1, <2>2 DEF KeepsDeleted
  <1> QED
    BY <1>1, <1>2, <1>3 DEF Leaves

(* An event is projected by its kind, under its canonical keys. *)
LEMMA ProjectIs ==
  ASSUME NEW s, NEW raw \in Event
  PROVE  LET e == CanonicalEvent(s.t, raw)
             u == Project(s, raw)
         IN \/ raw.kind = "alias" /\ u = ProjectAlias(s)
            \/ /\ raw.kind = "contact" /\ e.key \in Keys /\ e.phone \in BOOLEAN
               /\ u = ObserveContact(s, e)
            \/ /\ raw.kind = "conversation" /\ e.chat \in Chats /\ e.members \subseteq Keys
               /\ u = ObserveConversation(s, e)
            \/ /\ raw.kind = "revocation" /\ raw.chat \in WhatsAppChats
               /\ e.chat \in Chats /\ e.chat = CanonicalKey(s.t, raw.chat)
               /\ u = ProjectRevocation(s, e)
            \/ /\ raw.kind \in {"message", "deletion", "timeline", "reaction"}
               /\ e.chat \in Chats /\ e.key \in Keys
               /\ \/ u = ProjectMessage(s, e) \/ u = ProjectTimeline(s, e)
                  \/ u = ProjectReaction(s, e)
  <1> DEFINE e == CanonicalEvent(s.t, raw)
             u == Project(s, raw)
  <1>a. u = CASE e.kind = "alias" -> ProjectAlias(s)
         [] e.kind = "contact" -> ObserveContact(s, e)
         [] e.kind = "conversation" -> ObserveConversation(s, e)
         [] e.kind \in {"message", "deletion"} -> ProjectMessage(s, e)
         [] e.kind = "revocation" -> ProjectRevocation(s, e)
         [] e.kind = "reaction" -> ProjectReaction(s, e)
         [] e.kind = "timeline" -> ProjectTimeline(s, e)
    BY DEF Project
  <1>1. CASE raw.kind = "alias"
    BY <1>1 DEF Project, CanonicalEvent
  <1>2. CASE raw.kind = "contact"
    <2>1. raw.key \in Keys /\ raw.phone \in BOOLEAN
          /\ raw = [kind |-> raw.kind, key |-> raw.key, phone |-> raw.phone]
      BY <1>2 DEF Event
    <2>2. e = [raw EXCEPT !.key = CanonicalKey(s.t, raw.key)]
      BY <1>2 DEF CanonicalEvent
    <2> HIDE DEF e, u
    <2>3. e.kind = "contact" /\ e.key \in Keys /\ e.phone \in BOOLEAN
      BY <1>2, <2>1, <2>2, CanonicalKeys
    <2>4. u = ObserveContact(s, e)
      BY <1>a, <2>3
    <2> QED
      BY <1>2, <2>3, <2>4 DEF e, u
  <1>3. CASE raw.kind = "conversation"
    <2>1. raw.chat \in Chats /\ raw.members \subseteq Keys
          /\ raw = [kind |-> raw.kind, chat |-> raw.chat, members |-> raw.members]
      BY <1>3 DEF Event
    <2>2. e = [raw EXCEPT !.chat = CanonicalKey(s.t, raw.chat),
                          !.members = {CanonicalKey(s.t, k) : k \in raw.members}]
      BY <1>3, <2>1 DEF CanonicalEvent
    <2> HIDE DEF e, u
    <2>3. e.kind = "conversation" /\ e.chat \in Chats /\ e.members \subseteq Keys
      BY <1>3, <2>1, <2>2, CanonicalKeys
    <2>4. u = ObserveConversation(s, e)
      BY <1>a, <2>3
    <2> QED
      BY <1>3, <2>3, <2>4 DEF e, u
  <1>4. CASE raw.kind = "revocation"
    <2>1. /\ raw.chat \in WhatsAppChats /\ raw.chat \in Chats
          /\ raw = [kind |-> raw.kind, chat |-> raw.chat]
      BY <1>4 DEF Event, WhatsAppChats
    <2>2. e = [raw EXCEPT !.chat = CanonicalKey(s.t, raw.chat)]
      BY <1>4 DEF CanonicalEvent
    <2> HIDE DEF e, u
    <2>3. e.kind = "revocation" /\ e.chat \in Chats /\ e.chat = CanonicalKey(s.t, raw.chat)
      BY <1>4, <2>1, <2>2, CanonicalKeys
    <2>4. u = ProjectRevocation(s, e)
      BY <1>a, <2>3
    <2> QED
      BY <1>4, <2>1, <2>3, <2>4 DEF e, u
  <1>5. CASE raw.kind \in {"message", "deletion", "timeline", "reaction"}
    <2>1. raw.chat \in Chats /\ raw.key \in Keys
          /\ raw = [kind |-> raw.kind, chat |-> raw.chat, key |-> raw.key]
      <3>1. CASE raw.kind = "deletion"
        <4>1. raw \in [kind : {"deletion"}, chat : {"im"}, key : Keys]
          BY <3>1 DEF Event
        <4> QED
          BY <4>1 DEF Chats
      <3>2. CASE raw.kind \in {"message", "timeline", "reaction"}
        <4>1. raw \in [kind : {"message", "timeline", "reaction"}, chat : Chats, key : Keys]
          BY <3>2 DEF Event
        <4> QED
          BY <4>1
      <3> QED
        BY <1>5, <3>1, <3>2
    <2>2. e = [raw EXCEPT !.chat = CanonicalKey(s.t, raw.chat), !.key = CanonicalKey(s.t, raw.key)]
      BY <1>5, <2>1 DEF CanonicalEvent
    <2> HIDE DEF e, u
    <2>3. e.kind = raw.kind /\ e.chat \in Chats /\ e.key \in Keys
      BY <2>1, <2>2, CanonicalKeys
    <2>4. \/ u = ProjectMessage(s, e) \/ u = ProjectTimeline(s, e) \/ u = ProjectReaction(s, e)
      BY <1>5, <1>a, <2>3
    <2> QED
      BY <1>5, <2>3, <2>4 DEF e, u
  <1>6. raw.kind \in {"alias", "contact", "conversation", "revocation", "message", "deletion",
                      "timeline", "reaction"}
    BY DEF Event
  <1> QED
    BY <1>1, <1>2, <1>3, <1>4, <1>5, <1>6

LEMMA ProjectWorks ==
  ASSUME NEW s \in State, s.t.reactions \in Reactions, NEW raw \in Event,
         NEW u, u = Project(s, raw), ForeignKeysHold(u.t)
  PROVE  /\ Leaves(s, u)
         /\ raw.kind = "revocation" =>
              Deleted(u.t.rows, <<"message", CanonicalKey(u.t, raw.chat)>>)
  <1> DEFINE e == CanonicalEvent(s.t, raw)
  <1>a. \/ raw.kind = "alias" /\ u = ProjectAlias(s)
        \/ /\ raw.kind = "contact" /\ e.key \in Keys /\ e.phone \in BOOLEAN
           /\ u = ObserveContact(s, e)
        \/ /\ raw.kind = "conversation" /\ e.chat \in Chats /\ e.members \subseteq Keys
           /\ u = ObserveConversation(s, e)
        \/ /\ raw.kind = "revocation" /\ raw.chat \in WhatsAppChats
           /\ e.chat \in Chats /\ e.chat = CanonicalKey(s.t, raw.chat)
           /\ u = ProjectRevocation(s, e)
        \/ /\ raw.kind \in {"message", "deletion", "timeline", "reaction"}
           /\ e.chat \in Chats /\ e.key \in Keys
           /\ \/ u = ProjectMessage(s, e) \/ u = ProjectTimeline(s, e)
              \/ u = ProjectReaction(s, e)
    BY ProjectIs
  <1> HIDE DEF e
  <1>1. CASE raw.kind = "alias" /\ u = ProjectAlias(s)
    <2>2. CASE s.t.alias # None
      <3>1. u = s
        BY <1>1, <2>2 DEF ProjectAlias
      <3> QED
        BY <1>1, <3>1 DEF Leaves
    <2>3. CASE s.t.alias = None
      <3>1. /\ u \in State /\ u.t.reactions \in Reactions /\ u.t.alias # None
            /\ MovesDeleted(s, u)
        BY <1>1, <2>3, ProjectAliasWorks
      <3>2. \A c \in WhatsAppChats : CanonicalKey(s.t, c) = c
                             /\ CanonicalKey(u.t, c) = IF c = "lid" THEN "pn" ELSE c
        BY <2>3, <3>1 DEF CanonicalKey
      <3> QED
        BY <1>1, <2>3, <3>1, <3>2 DEF Leaves, MovesDeleted
    <2> QED
      BY <2>2, <2>3
  <1>2. CASE /\ raw.kind = "contact" /\ e.key \in Keys /\ e.phone \in BOOLEAN
             /\ u = ObserveContact(s, e)
    <2>1. Follows(s, u)
      BY <1>2, ObserveContactWorks
    <2> QED
      BY <1>2, <2>1, FollowsLeaves
  <1>3. CASE /\ raw.kind = "conversation" /\ e.chat \in Chats /\ e.members \subseteq Keys
             /\ u = ObserveConversation(s, e)
    <2>1. Follows(s, u)
      BY <1>3, ObserveConversationWorks
    <2> QED
      BY <1>3, <2>1, FollowsLeaves
  <1>4. CASE /\ raw.kind = "revocation" /\ raw.chat \in WhatsAppChats
             /\ e.chat \in Chats /\ e.chat = CanonicalKey(s.t, raw.chat)
             /\ u = ProjectRevocation(s, e)
    <2>1. Follows(s, u) /\ Deleted(u.t.rows, <<"message", e.chat>>)
      BY <1>4, ProjectRevocationWorks
    <2>2. CanonicalKey(u.t, raw.chat) = e.chat
      BY <1>4, <2>1 DEF Follows, CanonicalKey
    <2> QED
      BY <2>1, <2>2, FollowsLeaves
  <1>5. CASE /\ raw.kind \in {"message", "deletion", "timeline", "reaction"}
             /\ e.chat \in Chats /\ e.key \in Keys
             /\ \/ u = ProjectMessage(s, e) \/ u = ProjectTimeline(s, e)
                \/ u = ProjectReaction(s, e)
    <2>1. Follows(s, u)
      <3>1. CASE u = ProjectMessage(s, e)
        BY <1>5, <3>1, ProjectMessageWorks
      <3>2. CASE u = ProjectTimeline(s, e)
        BY <1>5, <3>2, ProjectTimelineWorks
      <3>3. CASE u = ProjectReaction(s, e)
        BY <1>5, <3>3, ProjectReactionWorks
      <3> QED
        BY <1>5, <3>1, <3>2, <3>3
    <2> QED
      BY <1>5, <2>1, FollowsLeaves
  <1> QED
    BY <1>a, <1>1, <1>2, <1>3, <1>4, <1>5

-----------------------------------------------------------------------------
(* A page of events.                                                       *)

Store == {t \in Tables : t.reactions \in Reactions}

(* Batches of some events in whose tables what A and they revoked is deleted. *)
Batches(events, A, D) ==
    {b \in [log : {events}, t : Store, c : Cache, done : SUBSET D] :
        Revoked(events, A \cup b.done, b.t)}

LEMMA ApplyWorks ==
  ASSUME NEW events \in Seq(Event), NEW A \in SUBSET (1..Len(events)),
         NEW D \in SUBSET (1..Len(events)),
         NEW b \in Batches(events, A, D), NEW n \in D
  PROVE  Apply(b, n) \in Batches(events, A, D)
  <1> DEFINE before == [t |-> b.t, c |-> b.c, at |-> n]
             s == Project(before, b.log[n])
  <1>1. /\ b \in [log : {events}, t : Store, c : Cache, done : SUBSET D]
        /\ b.log = events /\ b.t \in Store /\ b.c \in Cache /\ b.done \subseteq D
        /\ Revoked(events, A \cup b.done, b.t)
    BY DEF Batches
  <1>2. before \in State /\ before.t = b.t /\ before.t.reactions \in Reactions
    BY <1>1 DEF State, Store
  <1>3. n \in 1..Len(events) /\ b.log[n] \in Event
    BY <1>1
  <1>4. Apply(b, n) = IF ForeignKeysHold(s.t)
                      THEN [b EXCEPT !.t = s.t, !.c = s.c, !.done = @ \cup {n}] ELSE b
    BY DEF Apply
  <1> HIDE DEF before
  <1>5. CASE ~ForeignKeysHold(s.t)
    BY <1>4, <1>5
  <1>6. CASE ForeignKeysHold(s.t)
    <2>1. /\ Leaves(before, s)
          /\ b.log[n].kind = "revocation" =>
               Deleted(s.t.rows, <<"message", CanonicalKey(s.t, b.log[n].chat)>>)
      BY <1>2, <1>3, <1>6, ProjectWorks
    <2> HIDE DEF s
    <2>2. s.t \in Store /\ s.c \in Cache
      BY <2>1 DEF Leaves, State, Store
    <2>3. Revoked(events, (A \cup b.done) \cup {n}, s.t)
      <3> SUFFICES ASSUME NEW m \in (A \cup b.done) \cup {n}, events[m].kind = "revocation"
                   PROVE  Deleted(s.t.rows, <<"message", CanonicalKey(s.t, events[m].chat)>>)
        BY DEF Revoked
      <3>1. CASE m = n
        BY <1>1, <2>1, <3>1
      <3>2. CASE m \in A \cup b.done
        <4>1. m \in 1..Len(events)
          BY <1>1, <3>2
        <4>2. events[m] \in Event
          BY <4>1
        <4>3. events[m].chat \in WhatsAppChats
          BY <4>2 DEF Event, WhatsAppChats
        <4>4. Deleted(b.t.rows, <<"message", CanonicalKey(b.t, events[m].chat)>>)
          BY <1>1, <3>2 DEF Revoked
        <4> QED
          BY <1>2, <2>1, <4>3, <4>4 DEF Leaves
      <3> QED
        BY <3>1, <3>2
    <2>4. Apply(b, n) = [b EXCEPT !.t = s.t, !.c = s.c, !.done = b.done \cup {n}]
      BY <1>1, <1>4, <1>6
    <2> DEFINE a == Apply(b, n)
    <2>5. /\ a \in [log : {events}, t : Store, c : Cache, done : SUBSET D]
          /\ a.t = s.t /\ a.done = b.done \cup {n}
      BY <1>1, <2>2, <2>4
    <2>6. A \cup a.done = (A \cup b.done) \cup {n}
      BY <2>5
    <2> HIDE DEF a
    <2> QED
      BY <2>3, <2>5, <2>6 DEF Batches, a
  <1> QED
    BY <1>5, <1>6

(* A batch is its events, one after the other. *)
Before(events, t, c) == [log |-> events, t |-> t, c |-> c, done |-> {}]

LEMMA BatchSteps ==
  ASSUME NEW events, NEW t, NEW c, NEW V, NEW from \in Nat \ {0}, NEW to \in Nat, from - 1 <= to,
         NEW W \in [(from - 1)..to -> SUBSET V], Before(events, t, c) \in W[from - 1],
         \A n \in from..to : \A b \in V : Apply(b, n) \in V,
         \A n \in from..to : \A b \in W[n - 1] : Apply(b, n) \in W[n]
  PROVE  Batch(events, t, c, from, to) \in W[to]
  <1> DEFINE before == [log |-> events, t |-> t, c |-> c, done |-> {}]
             P(f) == f = [n \in (from - 1)..to |->
                            IF n < from THEN before ELSE Apply(f[n - 1], n)]
             after == CHOOSE f : P(f)
             F == [p \in V \X Nat |-> IF from - 1 + p[2] \in from..to
                                      THEN Apply(p[1], from - 1 + p[2]) ELSE p[1]]
  <1>1. Batch(events, t, c, from, to) = after[to]
    BY DEF Batch
  <1>2. before \in V /\ before \in W[from - 1]
    BY DEF Before
  <1>3. \A b \in V, n \in from..to : Apply(b, n) \in V
    OBVIOUS
  <1> HIDE DEF before
  <1>4. F \in [V \X Nat -> V]
    BY <1>3
  <1>5. \A b \in V, n \in Nat : F[<<b, n>>] = IF from - 1 + n \in from..to
                                              THEN Apply(b, from - 1 + n) ELSE b
    OBVIOUS
  <1> HIDE DEF F
  <1>6. PICK g : Iterates(V, F, before, g)
    BY <1>2, <1>4, Iteration
  <1>7. g \in [Nat -> V] /\ g[0] = before /\ \A n \in Nat : g[n + 1] = F[<<g[n], n + 1>>]
    BY <1>6 DEF Iterates
  <1> DEFINE h == [n \in (from - 1)..to |-> g[n - (from - 1)]]
  <1>8. P(h)
    <2>1. ASSUME NEW n \in (from - 1)..to
          PROVE  h[n] = IF n < from THEN before ELSE Apply(h[n - 1], n)
      <3>1. CASE n < from
        BY <1>7, <3>1
      <3>2. CASE ~(n < from)
        <4> DEFINE k == n - from
        <4>1. k \in Nat /\ k + 1 = n - (from - 1) /\ k = (n - 1) - (from - 1)
              /\ n - 1 \in (from - 1)..to /\ from - 1 + (k + 1) = n /\ n \in from..to
          BY <3>2
        <4>2. h[n] = g[k + 1] /\ h[n - 1] = g[k]
          BY <4>1
        <4> HIDE DEF k, h
        <4>3. g[k] \in V /\ g[k + 1] = F[<<g[k], k + 1>>]
          BY <1>7, <4>1
        <4>4. F[<<g[k], k + 1>>] = Apply(g[k], n)
          BY <1>5, <4>1, <4>3
        <4> QED
          BY <3>2, <4>2, <4>3, <4>4
      <3> QED
        BY <3>1, <3>2
    <2>2. h = [n \in (from - 1)..to |-> h[n]]
      OBVIOUS
    <2> HIDE DEF h
    <2> QED
      BY <2>1, <2>2
  <1> HIDE DEF P, h
  <1>9. P(after)
    BY <1>8
  <1> HIDE DEF after
  <1>10. \A n \in (from - 1)..to :
            after[n] = IF n < from THEN before ELSE Apply(after[n - 1], n)
    BY <1>9 DEF P
  <1> DEFINE Q == {k \in Nat : from - 1 + k <= to => after[from - 1 + k] \in W[from - 1 + k]}
  <1>11. 0 \in Q
    BY <1>2, <1>10
  <1>12. ASSUME NEW k \in Nat, k \in Q PROVE k + 1 \in Q
    <2> SUFFICES ASSUME from - 1 + (k + 1) <= to
                 PROVE  after[from - 1 + (k + 1)] \in W[from - 1 + (k + 1)]
      OBVIOUS
    <2> DEFINE n == from - 1 + (k + 1)
    <2>1. n \in from..to /\ n - 1 = from - 1 + k /\ n \in (from - 1)..to /\ ~(n < from)
          /\ from - 1 + k <= to
      OBVIOUS
    <2>2. after[n - 1] \in W[n - 1]
      BY <1>12, <2>1
    <2> HIDE DEF n
    <2>3. after[n] = Apply(after[n - 1], n)
      BY <1>10, <2>1
    <2> QED
      BY <2>1, <2>2, <2>3 DEF n
  <1> HIDE DEF Q
  <1>13. Nat \subseteq Q
    BY <1>11, <1>12, InductionOnNumbers
  <1>14. PICK k \in Nat : from - 1 + k = to
    <2>1. to - (from - 1) \in Nat /\ from - 1 + (to - (from - 1)) = to
      OBVIOUS
    <2> QED
      BY <2>1
  <1>15. after[to] \in W[to]
    <2>1. k \in Q /\ from - 1 + k <= to
      BY <1>13, <1>14
    <2> QED
      BY <1>14, <2>1 DEF Q
  <1> QED
    BY <1>1, <1>15

LEMMA BeforeIsBatch ==
  ASSUME NEW events, NEW A, NEW D, NEW t \in Store, NEW c \in Cache, Revoked(events, A, t)
  PROVE  Before(events, t, c) \in Batches(events, A, D)
  <1> DEFINE before == Before(events, t, c)
  <1>1. before.done = {} /\ before.t = t
        /\ before \in [log : {events}, t : Store, c : Cache, done : SUBSET D]
    BY DEF Before
  <1>2. A \cup before.done = A
    BY <1>1
  <1> HIDE DEF before
  <1>3. before \in Batches(events, A, D)
    BY <1>1, <1>2 DEF Batches
  <1> QED
    BY <1>3 DEF before

LEMMA BatchesGoOn ==
  ASSUME NEW events \in Seq(Event), NEW A \in SUBSET (1..Len(events)),
         NEW from \in Nat \ {0}, NEW to \in Nat, to <= Len(events)
  PROVE  \A n \in from..to : \A b \in Batches(events, A, from..to) :
            Apply(b, n) \in Batches(events, A, from..to)
  <1>1. from..to \in SUBSET (1..Len(events))
    OBVIOUS
  <1> QED
    BY <1>1, ApplyWorks

LEMMA BatchWorks ==
  ASSUME NEW events \in Seq(Event), NEW A \in SUBSET (1..Len(events)),
         NEW t \in Store, NEW c \in Cache, Revoked(events, A, t),
         NEW from \in Nat \ {0}, NEW to \in Nat, from - 1 <= to, to <= Len(events)
  PROVE  Batch(events, t, c, from, to) \in Batches(events, A, from..to)
  <1> DEFINE V == Batches(events, A, from..to)
             W == [n \in (from - 1)..to |-> V]
  <1>1. Before(events, t, c) \in V
    BY BeforeIsBatch
  <1>2. \A n \in from..to : \A b \in V : Apply(b, n) \in V
    BY BatchesGoOn
  <1> HIDE DEF V
  <1>3. /\ W \in [(from - 1)..to -> SUBSET V] /\ W[from - 1] = V /\ W[to] = V
        /\ \A n \in from..to : W[n - 1] = V /\ W[n] = V
    OBVIOUS
  <1> HIDE DEF W
  <1>4. Batch(events, t, c, from, to) \in W[to]
    BY <1>1, <1>2, <1>3, BatchSteps
  <1> QED
    BY <1>3, <1>4 DEF V

-----------------------------------------------------------------------------
(* Decisions, hydration and rebuilds.                                      *)

LEMMA MaxOfSome ==
  ASSUME NEW S, S \subseteq Nat, S # {}, NEW m \in Nat, \A y \in S : y <= m
  PROVE  Max(S) \in S
  <1> DEFINE T == {n \in Nat : \A y \in S : y <= n}
  <1>1. PICK x \in T : \A y \in T : ~(y < x)
    <2>1. T \subseteq Nat /\ T # {}
      OBVIOUS
    <2> HIDE DEF T
    <2> QED
      BY <2>1, LeastNumber
  <1>2. x \in S
    <2> SUFFICES ASSUME x \notin S PROVE FALSE
      OBVIOUS
    <2>0. PICK y \in S : y \in Nat /\ y <= x /\ y # x
      OBVIOUS
    <2>1. x \in Nat /\ x # 0
      BY <2>0
    <2>2. x - 1 \in T
      <3>1. \A z \in S : z <= x /\ z # x /\ z \in Nat
        OBVIOUS
      <3>2. x - 1 \in Nat /\ \A z \in Nat : z <= x /\ z # x => z <= x - 1
        BY <2>1
      <3> QED
        BY <3>1, <3>2
    <2> QED
      BY <1>1, <2>1, <2>2
  <1>3. \E z \in S : \A y \in S : z >= y
    BY <1>2
  <1> QED
    BY <1>3 DEF Max

LEMMA MinOfTwo ==
  ASSUME NEW a \in Nat, NEW b \in Nat
  PROVE  /\ Min({a, b}) = IF a <= b THEN a ELSE b
         /\ Max({a, b}) = IF a <= b THEN b ELSE a
  <1>1. \E x \in {a, b} : \A y \in {a, b} : x <= y
    OBVIOUS
  <1>2. \E x \in {a, b} : \A y \in {a, b} : x >= y
    OBVIOUS
  <1>3. Min({a, b}) \in {a, b} /\ \A y \in {a, b} : Min({a, b}) <= y
    BY <1>1 DEF Min
  <1>4. Max({a, b}) \in {a, b} /\ \A y \in {a, b} : Max({a, b}) >= y
    BY <1>2 DEF Max
  <1> QED
    BY <1>3, <1>4

Decisions == Seq([secondary : Ids, canonical : Ids])

LEMMA DecidedType ==
  ASSUME NEW d \in Decisions
  PROVE  Decided(d) \in Merges
  <1> DEFINE about(i) == {n \in DOMAIN d : d[n].secondary = i}
  <1>1. Decided(d) = [i \in Ids |-> IF about(i) = {} THEN None ELSE d[Max(about(i))].canonical]
    BY DEF Decided
  <1>2. ASSUME NEW i \in Ids, about(i) # {} PROVE d[Max(about(i))].canonical \in Ids
    <2>1. about(i) \subseteq Nat /\ Len(d) \in Nat /\ \A y \in about(i) : y <= Len(d)
          /\ about(i) \subseteq DOMAIN d
      BY DEF Decisions
    <2> HIDE DEF about
    <2>2. Max(about(i)) \in DOMAIN d
      BY <1>2, <2>1, MaxOfSome
    <2> DEFINE n == Max(about(i))
    <2>3. n \in DOMAIN d
      BY <2>2
    <2> HIDE DEF n
    <2>4. d[n] \in [secondary : Ids, canonical : Ids]
      <3> DEFINE D == [secondary : Ids, canonical : Ids]
      <3>1. d \in Seq(D)
        BY DEF Decisions
      <3> HIDE DEF D
      <3>2. d[n] \in D
        BY <2>3, <3>1
      <3> QED
        BY <3>2 DEF D
    <2> QED
      BY <2>4 DEF n
  <1> HIDE DEF about
  <1> QED
    BY <1>1, <1>2 DEF Merges, Optional

LEMMA ResetType ==
  ASSUME NEW d \in Decisions
  PROVE  Reset(d) \in Cache
  BY DecidedType DEF Reset, Cache, Merges, Optional

LEMMA HydratedType ==
  ASSUME NEW d \in Decisions, NEW t \in Tables, Hydrates(t, d)
  PROVE  Hydrated(t, d) \in Cache
  <1> DEFINE merged == MergedIn(t, Decided(d))
             sources == [k \in Keys |-> Canonical(merged, t.sources[k])]
             phone == IF t.phones = <<>> THEN None ELSE Canonical(merged, Last(t.phones).contact)
  <1>1. Hydrated(t, d) = [merged |-> merged, sources |-> sources, phone |-> phone,
                          chats |-> t.chats]
    BY DEF Hydrated
  <1>2. /\ t.alias \in Optional(Alias) /\ t.sources \in [Keys -> Optional(Ids)]
        /\ t.phones \in Seq(Handle) /\ t.chats \in [Chats -> Optional(Chats)]
    BY DEF Tables, Handle
  <1>3. merged \in Merges
    <2>1. Decided(d) \in [Ids -> Optional(Ids)]
      BY DecidedType DEF Merges
    <2>2. t.alias # None => t.alias.canonical \in Optional(Ids)
      BY <1>2 DEF Optional, Alias
    <2> QED
      BY <2>1, <2>2 DEF MergedIn, Merges
  <1>4. Endless # phone /\ \A k \in Keys : Endless # sources[k]
    <2> HIDE DEF merged
    <2> QED
      BY <1>1 DEF Hydrates
  <1> HIDE DEF merged
  <1>5. \A k \in Keys : sources[k] \in Optional(Ids)
    BY <1>2, <1>3, <1>4, CanonicalType DEF Optional, Loose
  <1>6. phone \in Optional(Ids)
    <2>1. CASE t.phones = <<>>
      BY <2>1 DEF Optional
    <2>2. CASE t.phones # <<>>
      <3>1. t.phones[Len(t.phones)] \in Handle
        BY <1>2, <2>2
      <3>2. Last(t.phones).contact \in Optional(Ids)
        BY <3>1 DEF Last, Handle, Optional
      <3> QED
        BY <1>3, <1>4, <2>2, <3>2, CanonicalType DEF Optional, Loose
    <2> QED
      BY <2>1, <2>2
  <1>7. sources \in [Keys -> Optional(Ids)]
    BY <1>5
  <1> HIDE DEF sources, phone
  <1> QED
    BY <1>1, <1>2, <1>3, <1>6, <1>7 DEF Cache, Merges

LEMMA EmptyType == Empty \in Store
  <1>1. Empty.reactions = {} /\ {} \in Reactions
    BY FS_EmptySet DEF Empty, Reactions
  <1>2. Empty \in Tables
    BY DEF Empty, Tables, Optional
  <1> QED
    BY <1>1, <1>2 DEF Store

LEMMA RebuiltWorks ==
  ASSUME NEW d \in Decisions, NEW l, log = l, l \in Seq(Event)
  PROVE  LET b == Rebuilt(d)
         IN /\ b.t \in Store /\ b.c \in Cache /\ b.done \subseteq 1..Len(l)
            /\ Revoked(l, b.done, b.t)
  <1>1. Revoked(l, {}, Empty)
    BY DEF Revoked
  <1>2. Rebuilt(d) \in Batches(l, {}, 1..Len(l))
    <2>1. {} \in SUBSET (1..Len(l)) /\ 1 \in Nat \ {0} /\ Len(l) \in Nat /\ 1 - 1 <= Len(l)
          /\ Len(l) <= Len(l)
      OBVIOUS
    <2> QED
      BY <1>1, <2>1, EmptyType, ResetType, BatchWorks DEF Rebuilt
  <1> DEFINE b == Rebuilt(d)
  <1>3. b \in Batches(l, {}, 1..Len(l))
    BY <1>2
  <1> HIDE DEF b
  <1>4. b.t \in Store /\ b.c \in Cache /\ b.done \subseteq 1..Len(l)
        /\ Revoked(l, {} \cup b.done, b.t)
    BY <1>3 DEF Batches
  <1>5. {} \cup b.done = b.done
    OBVIOUS
  <1> QED
    BY <1>4, <1>5 DEF b

-----------------------------------------------------------------------------
(* The invariant of types and revocations, operation by operation.         *)

Process == [cache : Cache, missed : SUBSET Missable]
Reading == [cache : Cache, missed : SUBSET Missable, again : BOOLEAN, from : Nat, to : Nat]

(* A worker's page is of events that there are. *)
PageOK == worker # None => /\ worker.from \in Nat \ {0} /\ worker.to \in Nat
                           /\ worker.from <= worker.to /\ worker.to <= Len(log)

Sound ==
    /\ IdentityTypeOK
    /\ tables \in Store
    /\ PageOK
    /\ Revoked(log, applied, tables)

LEMMA SoundTypes ==
  ASSUME Sound
  PROVE  /\ log \in Seq(Events) /\ log \in Seq(Event) /\ Len(log) \in Nat
         /\ DOMAIN log = 1..Len(log) /\ mark \in 0..Len(log)
         /\ tables \in Store /\ tables \in Tables /\ merges \in Decisions
         /\ daemon \in Optional(Process) /\ worker \in Optional(Reading)
         /\ applied \subseteq 1..Len(log) /\ spoilt \subseteq Missable /\ rebuilds \in Nat
         /\ Revoked(log, applied, tables) /\ PageOK
  <1>1. /\ log \in Seq(Events) /\ mark \in 0..Len(log)
        /\ tables \in Store /\ tables \in Tables /\ merges \in Decisions
        /\ daemon \in Optional(Process) /\ worker \in Optional(Reading)
        /\ applied \subseteq DOMAIN log /\ spoilt \subseteq Missable /\ rebuilds \in Nat
        /\ Revoked(log, applied, tables) /\ PageOK
    BY DEF Sound, IdentityTypeOK, Decisions, Process, Reading
  <1>2. Events \subseteq Event
    BY IdentityAssumption
  <1>3. log \in Seq(Event) /\ Len(log) \in Nat /\ DOMAIN log = 1..Len(log)
    BY <1>1, <1>2
  <1> QED
    BY <1>1, <1>3

LEMMA SoundAgain ==
  ASSUME log' \in Seq(Events), mark' \in 0..Len(log'), tables' \in Store, merges' \in Decisions,
         daemon' \in Optional(Process), worker' \in Optional(Reading),
         applied' \subseteq 1..Len(log'), spoilt' \subseteq Missable, rebuilds' \in Nat,
         Revoked(log', applied', tables'), PageOK'
  PROVE  Sound'
  <1>1. tables' \in Tables /\ DOMAIN log' = 1..Len(log')
    BY DEF Store
  <1>2. IdentityTypeOK'
    BY <1>1 DEF IdentityTypeOK, Decisions, Process, Reading
  <1> QED
    BY <1>2 DEF Sound

(* What is appended to the log says nothing of the events before it. *)
LEMMA EventIsAppended ==
  ASSUME Sound, NEW e \in Events, log' = Append(log, e)
  PROVE  /\ log' \in Seq(Events) /\ log' \in Seq(Event) /\ Len(log') = Len(log) + 1
         /\ \A N \in SUBSET (1..Len(log)) : \A t : Revoked(log, N, t) => Revoked(log', N, t)
  <1>1. log \in Seq(Events) /\ Len(log) \in Nat /\ Events \subseteq Event
    BY SoundTypes, IdentityAssumption
  <1>2. \A n \in 1..Len(log) : log'[n] = log[n]
    BY <1>1
  <1>3. log' \in Seq(Events) /\ Len(log') = Len(log) + 1
    BY <1>1
  <1>4. log' \in Seq(Event)
    BY <1>1, <1>3
  <1> QED
    BY <1>2, <1>3, <1>4 DEF Revoked

LEMMA MissingType ==
  ASSUME NEW what \in SUBSET Missable
  PROVE  /\ \A p \in Optional(Process) : Missing(p, what) \in Optional(Process)
         /\ \A p \in Optional(Reading) :
               /\ Missing(p, what) \in Optional(Reading)
               /\ Missing(p, what) # None =>
                    p # None /\ Missing(p, what).from = p.from /\ Missing(p, what).to = p.to
  BY DEF Missing, Optional, Process, Reading

LEMMA ChangesType == \A b : Changes(b) \in SUBSET Missable
  BY DEF Changes, Missable

LEMMA DaemonCacheType ==
  ASSUME Sound, daemon # None \/ Hydrates(tables, merges)
  PROVE  DaemonCache \in Process
  <1>1. daemon \in Optional(Process) /\ tables \in Tables /\ merges \in Decisions
    BY SoundTypes
  <1> QED
    BY <1>1, HydratedType DEF DaemonCache, Optional, Process

LEMMA ReaderType ==
  ASSUME Sound, NEW t \in Tables, Hydrates(t, merges), NEW from \in Nat \ {0}, from <= Len(log)
  PROVE  LET r == Reader(t, from)
         IN /\ r \in Reading /\ r.from = from
            /\ r.to \in Nat /\ from <= r.to /\ r.to <= Len(log)
  <1>1. Len(log) \in Nat /\ merges \in Decisions
    BY SoundTypes
  <1>2. from + PageSize - 1 \in Nat /\ from <= from + PageSize - 1
    BY IdentityAssumption
  <1> DEFINE to == Min({from + PageSize - 1, Len(log)})
  <1>3. to \in Nat /\ from <= to /\ to <= Len(log)
    BY <1>1, <1>2, MinOfTwo
  <1> HIDE DEF to
  <1>4. Hydrated(t, merges) \in Cache
    BY <1>1, HydratedType
  <1>5. Reader(t, from) = [cache |-> Hydrated(t, merges), missed |-> {}, again |-> FALSE,
                           from |-> from, to |-> to]
    BY DEF Reader, to
  <1> QED
    BY <1>3, <1>4, <1>5 DEF Reading

LEMMA ArriveIsSound ==
  ASSUME Sound, NEW e \in Events, Arrive(e)
  PROVE  Sound'
  <1>1. /\ log' = Append(log, e)
        /\ UNCHANGED <<mark, tables, merges, daemon, worker, applied, spoilt, rebuilds>>
    BY DEF Arrive, Insert
  <1>2. /\ log' \in Seq(Events) /\ Len(log') = Len(log) + 1 /\ Len(log) \in Nat
        /\ Revoked(log', applied, tables)
    BY <1>1, EventIsAppended, SoundTypes
  <1>3. PageOK'
    BY <1>1, <1>2, SoundTypes DEF PageOK
  <1>4. mark' \in 0..Len(log') /\ applied' \subseteq 1..Len(log')
    BY <1>1, <1>2, SoundTypes
  <1> QED
    BY <1>1, <1>2, <1>3, <1>4, SoundTypes, SoundAgain

LEMMA ProjectAtOnceIsSound ==
  ASSUME Sound, NEW e \in Events, ProjectAtOnce(e)
  PROVE  Sound'
  <1> DEFINE n == Len(log')
             batch == Batch(log', tables, DaemonCache.cache, n, n)
  <1>1. /\ log' = Append(log, e) /\ (daemon # None \/ Hydrates(tables, merges))
        /\ tables' = batch.t
        /\ daemon' = [DaemonCache EXCEPT !.cache = batch.c]
        /\ mark' = IF n = mark + 1 THEN n ELSE mark
        /\ applied' = applied \cup batch.done
        /\ worker' = Missing(worker, Changes(batch))
        /\ spoilt' = spoilt \cup DaemonCache.missed
        /\ UNCHANGED <<merges, rebuilds>>
    BY DEF ProjectAtOnce, Insert
  <1>2. /\ log' \in Seq(Events) /\ log' \in Seq(Event) /\ n = Len(log) + 1 /\ Len(log) \in Nat
        /\ Revoked(log', applied, tables)
    BY <1>1, EventIsAppended, SoundTypes
  <1>3. DaemonCache \in Process
    BY <1>1, DaemonCacheType
  <1>4. batch \in Batches(log', applied, n..n)
    <2> DEFINE l == log'
    <2>1. /\ l \in Seq(Event) /\ applied \in SUBSET (1..Len(l)) /\ tables \in Store
          /\ DaemonCache.cache \in Cache /\ Revoked(l, applied, tables)
          /\ n \in Nat \ {0} /\ n - 1 <= n /\ n <= Len(l) /\ n = Len(l)
      BY <1>2, <1>3, SoundTypes DEF Process
    <2>2. batch = Batch(l, tables, DaemonCache.cache, n, n)
      OBVIOUS
    <2> HIDE DEF l, n, batch
    <2>3. batch \in Batches(l, applied, n..n)
      BY <2>1, <2>2, BatchWorks
    <2> QED
      BY <2>3 DEF l
  <1> HIDE DEF batch
  <1>5. /\ batch.t \in Store /\ batch.c \in Cache /\ batch.done \subseteq n..n
        /\ Revoked(log', applied \cup batch.done, batch.t)
    BY <1>4 DEF Batches
  <1>6. daemon' \in Optional(Process) /\ DaemonCache.missed \subseteq Missable
    BY <1>1, <1>3, <1>5 DEF Process, Optional
  <1>7. worker' \in Optional(Reading) /\ PageOK'
    BY <1>1, <1>2, ChangesType, MissingType, SoundTypes DEF PageOK
  <1>8. mark' \in 0..Len(log') /\ applied' \subseteq 1..Len(log')
    BY <1>1, <1>2, <1>5, SoundTypes
  <1> HIDE DEF n
  <1> QED
    BY <1>1, <1>2, <1>5, <1>6, <1>7, <1>8, SoundTypes, SoundAgain

LEMMA WorkerReadsIsSound ==
  ASSUME Sound, WorkerReads
  PROVE  Sound'
  <1>1. /\ mark < Len(log) /\ Hydrates(tables, merges)
        /\ worker' = Reader(tables, mark + 1)
        /\ UNCHANGED <<log, mark, tables, merges, daemon, applied, spoilt, rebuilds>>
    BY DEF WorkerReads
  <1>2. mark + 1 \in Nat \ {0} /\ mark + 1 <= Len(log)
    BY <1>1, SoundTypes
  <1>3. /\ worker' \in Reading /\ worker'.from = mark + 1
        /\ worker'.to \in Nat /\ mark + 1 <= worker'.to /\ worker'.to <= Len(log)
    BY <1>1, <1>2, ReaderType, SoundTypes
  <1>4. worker' \in Optional(Reading) /\ PageOK'
    BY <1>1, <1>2, <1>3 DEF Optional, PageOK
  <1> QED
    BY <1>1, <1>4, SoundTypes, SoundAgain

LEMMA WorkerCommitsIsSound ==
  ASSUME Sound, WorkerCommits
  PROVE  Sound'
  <1> DEFINE batch == Batch(log, tables, worker.cache, worker.from, worker.to)
  <1>1. /\ worker # None
        /\ UNCHANGED <<log, merges, rebuilds>>
        /\ tables' = batch.t
        /\ mark' = Max({mark, worker.to})
        /\ applied' = applied \cup batch.done
        /\ daemon' = Missing(daemon, Changes(batch))
        /\ spoilt' = spoilt \cup worker.missed
        /\ worker' = IF worker.again /\ Hydrates(batch.t, merges)
                     THEN Reader(batch.t, worker.from) ELSE None
    BY DEF WorkerCommits
  <1>2. /\ worker \in Reading /\ worker.from \in Nat \ {0} /\ worker.to \in Nat
        /\ worker.from <= worker.to /\ worker.to <= Len(log)
    BY <1>1, SoundTypes DEF PageOK, Optional
  <1>3. worker.cache \in Cache /\ worker.missed \subseteq Missable
    BY <1>2 DEF Reading
  <1>4. batch \in Batches(log, applied, worker.from..worker.to)
    <2>1. worker.from - 1 <= worker.to
      BY <1>2
    <2> QED
      BY <1>2, <1>3, <2>1, BatchWorks, SoundTypes
  <1> HIDE DEF batch
  <1>5. /\ batch.t \in Store /\ batch.done \subseteq worker.from..worker.to
        /\ Revoked(log, applied \cup batch.done, batch.t)
    BY <1>4 DEF Batches
  <1>6. mark' \in 0..Len(log) /\ applied' \subseteq 1..Len(log)
    <2>1. mark \in Nat /\ mark <= Len(log) /\ Len(log) \in Nat /\ applied \subseteq 1..Len(log)
      BY SoundTypes
    <2>2. Max({mark, worker.to}) = IF mark <= worker.to THEN worker.to ELSE mark
      BY <1>2, <2>1, MinOfTwo
    <2>3. mark' \in 0..Len(log)
      BY <1>1, <1>2, <2>1, <2>2
    <2> DEFINE from == worker.from
               to == worker.to
    <2>4. from..to \subseteq 1..Len(log)
      <3>1. from \in Nat \ {0} /\ to \in Nat /\ to <= Len(log) /\ Len(log) \in Nat
        BY <1>2, <2>1
      <3> HIDE DEF from, to
      <3> QED
        BY <3>1
    <2>5. applied' \subseteq 1..Len(log)
      BY <1>1, <1>5, <2>1, <2>4, Zenon
    <2> QED
      BY <2>3, <2>5
  <1>7. daemon' \in Optional(Process)
    BY <1>1, ChangesType, MissingType, SoundTypes
  <1>8. worker' \in Optional(Reading) /\ PageOK'
    <2>1. CASE worker.again /\ Hydrates(batch.t, merges)
      <3>1. batch.t \in Tables
        BY <1>5 DEF Store
      <3>2. worker' = Reader(batch.t, worker.from) /\ worker.from <= Len(log)
        BY <1>1, <1>2, <2>1, SoundTypes
      <3>3. /\ worker' \in Reading /\ worker'.from = worker.from
            /\ worker'.to \in Nat /\ worker.from <= worker'.to /\ worker'.to <= Len(log)
        BY <1>2, <2>1, <3>1, <3>2, ReaderType
      <3> QED
        BY <1>1, <1>2, <3>3 DEF PageOK, Optional
    <2>2. CASE ~(worker.again /\ Hydrates(batch.t, merges))
      BY <1>1, <2>2 DEF PageOK, Optional
    <2> QED
      BY <2>1, <2>2
  <1> QED
    BY <1>1, <1>3, <1>5, <1>6, <1>7, <1>8, SoundTypes, SoundAgain

LEMMA RebuildIsSound ==
  ASSUME Sound, NEW d \in Decisions, Rebuild(Rebuilt(d)), UNCHANGED log, merges' \in Decisions,
         daemon' \in Optional(Process),
         worker' = worker \/ worker' = Missing(worker, {"rows", "ids"})
  PROVE  Sound'
  <1> DEFINE b == Rebuilt(d)
  <1>1. /\ tables' = b.t /\ applied' = b.done
        /\ mark' = Max({mark, Len(log)}) /\ spoilt' = {} /\ rebuilds' = rebuilds + 1
    BY DEF Rebuild
  <1>2. /\ b.t \in Store /\ b.done \subseteq 1..Len(log) /\ Revoked(log, b.done, b.t)
    BY RebuiltWorks, SoundTypes
  <1> HIDE DEF b
  <1>3. mark' \in 0..Len(log)
    <2>1. mark \in Nat /\ mark <= Len(log) /\ Len(log) \in Nat
      BY SoundTypes
    <2>2. Max({mark, Len(log)}) = IF mark <= Len(log) THEN Len(log) ELSE mark
      BY <2>1, MinOfTwo
    <2> QED
      BY <1>1, <2>1, <2>2
  <1>4. worker' \in Optional(Reading) /\ PageOK'
    <2>1. {"rows", "ids"} \in SUBSET Missable
      BY DEF Missable
    <2> QED
      BY <2>1, MissingType, SoundTypes DEF PageOK
  <1> QED
    BY <1>1, <1>2, <1>3, <1>4, SoundTypes, SoundAgain

LEMMA RebuildQueuedIsSound ==
  ASSUME Sound, RebuildQueued
  PROVE  Sound'
  <1>1. /\ UNCHANGED <<log, merges, worker>> /\ Rebuild(Rebuilt(merges))
        /\ daemon' = Missing(daemon, {"rows", "ids"})
    BY DEF RebuildQueued
  <1>2. daemon' \in Optional(Process)
    <2>1. {"rows", "ids"} \in SUBSET Missable
      BY DEF Missable
    <2> QED
      BY <1>1, <2>1, MissingType, SoundTypes
  <1> QED
    BY <1>1, <1>2, RebuildIsSound, SoundTypes

LEMMA MergeContactsIsSound ==
  ASSUME Sound, NEW p \in tables.contacts, NEW q \in tables.contacts, MergeContacts(p, q)
  PROVE  Sound'
  <1> DEFINE into == Canonical(Decided(merges), p)
             from == Canonical(Decided(merges), q)
             decisions == Append(merges, [secondary |-> from, canonical |-> into])
  <1>1. /\ Endless \notin {into, from} /\ merges' = decisions /\ UNCHANGED log
        /\ Rebuild(Rebuilt(decisions))
        /\ daemon' = [cache |-> Rebuilt(decisions).c, missed |-> {}]
        /\ worker' = Missing(worker, {"rows", "ids"})
    BY DEF MergeContacts
  <1>2. into \in Ids /\ from \in Ids
    <2>1. p \in Ids /\ q \in Ids
      BY SoundTypes DEF Tables
    <2>2. Decided(merges) \in Merges
      BY DecidedType, SoundTypes
    <2>3. into \in Loose /\ from \in Loose
      BY <2>1, <2>2, CanonicalType DEF Optional
    <2> HIDE DEF into, from
    <2> QED
      BY <1>1, <2>3 DEF Loose
  <1> HIDE DEF into, from
  <1>3. decisions \in Decisions
    <2>1. merges \in Decisions
      BY SoundTypes
    <2> QED
      BY <1>2, <2>1 DEF Decisions
  <1> HIDE DEF decisions
  <1>4. daemon' \in Optional(Process)
    <2>1. Rebuilt(decisions).c \in Cache
      BY <1>3, RebuiltWorks, SoundTypes
    <2> QED
      BY <1>1, <2>1 DEF Optional, Process
  <1> QED
    BY <1>1, <1>3, <1>4, RebuildIsSound, SoundTypes

LEMMA WorkerDiesIsSound ==
  ASSUME Sound, WorkerDies
  PROVE  Sound'
  <1>1. worker' = None
        /\ UNCHANGED <<log, mark, tables, merges, daemon, applied, spoilt, rebuilds>>
    BY DEF WorkerDies
  <1>2. worker' \in Optional(Reading) /\ PageOK'
    BY <1>1 DEF Optional, PageOK
  <1> QED
    BY <1>1, <1>2, SoundTypes, SoundAgain

LEMMA RestartIsSound ==
  ASSUME Sound, Restart
  PROVE  Sound'
  <1>1. /\ daemon' = None
        /\ worker' = IF worker = None THEN None ELSE [worker EXCEPT !.again = TRUE]
        /\ UNCHANGED <<log, mark, tables, merges, applied, spoilt, rebuilds>>
    BY DEF Restart
  <1>2. daemon' \in Optional(Process)
    BY <1>1 DEF Optional
  <1>3. worker' \in Optional(Reading) /\ PageOK'
    <2>1. worker # None => worker \in Reading
      BY SoundTypes DEF Optional
    <2>2. worker # None => /\ worker' \in Reading
                           /\ worker'.from = worker.from /\ worker'.to = worker.to
      BY <1>1, <2>1 DEF Reading
    <2> QED
      BY <1>1, <2>2, SoundTypes DEF Optional, PageOK
  <1> QED
    BY <1>1, <1>2, <1>3, SoundTypes, SoundAgain

LEMMA IdentityStarts == IdentityInit => Sound
  <1> SUFFICES ASSUME IdentityInit PROVE Sound
    OBVIOUS
  <1>1. tables \in Store
    BY EmptyType DEF IdentityInit
  <1>2. tables \in Tables
    BY <1>1 DEF Store
  <1>3. PageOK /\ Revoked(log, applied, tables)
    BY DEF IdentityInit, PageOK, Revoked
  <1>4. IdentityTypeOK
    BY <1>2 DEF IdentityInit, IdentityTypeOK, Optional, Missable
  <1> QED
    BY <1>1, <1>3, <1>4 DEF Sound

LEMMA IdentitySteps == Sound /\ [IdentityNext]_identityVars => Sound'
  <1> SUFFICES ASSUME Sound, [IdentityNext]_identityVars PROVE Sound'
    OBVIOUS
  <1>1. CASE UNCHANGED identityVars
    <2>1. UNCHANGED <<log, mark, tables, merges, daemon, worker, applied, spoilt, rebuilds>>
      BY <1>1 DEF identityVars
    <2>2. PageOK' = PageOK
      BY <2>1 DEF PageOK
    <2> QED
      BY <2>1, <2>2, SoundTypes, SoundAgain
  <1>2. ASSUME NEW e \in Events, Arrive(e) PROVE Sound'
    BY <1>2, ArriveIsSound
  <1>3. ASSUME NEW e \in Events, ProjectAtOnce(e) PROVE Sound'
    BY <1>3, ProjectAtOnceIsSound
  <1>4. CASE WorkerReads
    BY <1>4, WorkerReadsIsSound
  <1>5. CASE WorkerCommits
    BY <1>5, WorkerCommitsIsSound
  <1>6. CASE WorkerDies
    BY <1>6, WorkerDiesIsSound
  <1>7. CASE RebuildQueued
    BY <1>7, RebuildQueuedIsSound
  <1>8. CASE Restart
    BY <1>8, RestartIsSound
  <1>9. ASSUME NEW p \in tables.contacts, NEW q \in tables.contacts, MergeContacts(p, q)
        PROVE  Sound'
    BY <1>9, MergeContactsIsSound
  <1> QED
    BY <1>1, <1>2, <1>3, <1>4, <1>5, <1>6, <1>7, <1>8, <1>9 DEF IdentityNext

(* Every operation leaves tables, caches and the page in their types: in    *)
(* particular the alias, which moves rows, members and reactions about.     *)
THEOREM IdentityTypeCorrect == IdentitySpec => []IdentityTypeOK
<1>1. Sound => IdentityTypeOK
  BY DEF Sound
<1> QED
  BY <1>1, IdentityStarts, IdentitySteps, PTL DEF IdentitySpec

(* A message of WhatsApp whose revocation is in the tables is deleted, under *)
(* whatever key an alias has brought it and whichever row it was merged     *)
(* with, after rebuilds and by a page that was read twice:                  *)
(* projectMessageEvent marks a stub it has not seen and leaves a marked row *)
(* alone when the message comes under the other key, and mergeRow keeps the *)
(* mark of either row. A message of iMessage has no such rule.              *)
THEOREM RevokedStays == IdentitySpec => []RevokedStaysRevoked
<1>1. Sound => RevokedStaysRevoked
  BY DEF Sound, Revoked, RevokedStaysRevoked, Deleted
<1> QED
  BY <1>1, IdentityStarts, IdentitySteps, PTL DEF IdentitySpec

-----------------------------------------------------------------------------
(* Merges without a circle: every chain of them has an end.                *)

LEMMA IdsAreFive == Cardinality(Ids) = 5
  <1>1. IsFiniteSet({"lid"}) /\ Cardinality({"lid"}) = 1
    BY FS_Singleton
  <1>2. IsFiniteSet({"lid"} \cup {"pn"}) /\ Cardinality({"lid"} \cup {"pn"}) = 2
    BY <1>1, FS_AddElement
  <1> DEFINE A == {"lid"} \cup {"pn"}
             B == A \cup {"im"}
             C == B \cup {"card"}
  <1>3. IsFiniteSet(B) /\ Cardinality(B) = 3
    <2>1. "im" \notin A
      OBVIOUS
    <2> QED
      BY <1>2, <2>1, FS_AddElement
  <1>4. IsFiniteSet(C) /\ Cardinality(C) = 4
    <2>1. "card" \notin B
      OBVIOUS
    <2> HIDE DEF B
    <2> QED
      BY <1>3, <2>1, FS_AddElement
  <1>5. Phone \notin C
    BY DEF Phone
  <1>6. Ids = C \cup {Phone}
    BY DEF Ids, Keys
  <1> HIDE DEF C
  <1> QED
    BY <1>4, <1>5, <1>6, FS_AddElement

(* Merges without a circle: out of every set of contacts one leads out.     *)
Loopless(merged) == \A S \in SUBSET Ids : S # {} => \E i \in S : merged[i] \notin S

(* Where there is no circle a chain of merges comes to an end. *)
LEMMA ChainsEnd ==
  ASSUME NEW merged \in Merges, Loopless(merged), NEW id \in Ids
  PROVE  /\ Canonical(merged, id) \in Ids
         /\ merged[Canonical(merged, id)] = None
         /\ merged[id] = None => Canonical(merged, id) = id
  <1>a. PICK f \in [Nat -> Ids] :
            /\ f[0] = id
            /\ \A n \in Nat : f[n + 1] = IF merged[f[n]] = None THEN f[n] ELSE merged[f[n]]
            /\ Canonical(merged, id) =
                  IF merged[id] = None THEN id
                  ELSE IF merged[f[Cardinality(Ids)]] = None THEN f[Cardinality(Ids)]
                  ELSE Endless
    BY ChainOf
  <1>1. /\ f \in [Nat -> Ids] /\ f[0] = id
        /\ \A n \in Nat : f[n + 1] = IF merged[f[n]] = None THEN f[n] ELSE merged[f[n]]
        /\ Canonical(merged, id) = IF merged[id] = None THEN id
                                   ELSE IF merged[f[5]] = None THEN f[5] ELSE Endless
    BY <1>a, IdsAreFive, Zenon
  <1>2. merged[f[5]] = None
    <2> SUFFICES ASSUME merged[f[5]] # None PROVE FALSE
      OBVIOUS
    <2>1. /\ f[1] = IF merged[f[0]] = None THEN f[0] ELSE merged[f[0]]
          /\ f[2] = IF merged[f[1]] = None THEN f[1] ELSE merged[f[1]]
          /\ f[3] = IF merged[f[2]] = None THEN f[2] ELSE merged[f[2]]
          /\ f[4] = IF merged[f[3]] = None THEN f[3] ELSE merged[f[3]]
          /\ f[5] = IF merged[f[4]] = None THEN f[4] ELSE merged[f[4]]
      <3> DEFINE Leads(n, k) == f[k] = IF merged[f[n]] = None THEN f[n] ELSE merged[f[n]]
      <3>1. \A n, k \in Nat : k = n + 1 => Leads(n, k)
        BY <1>1
      <3> HIDE DEF Leads
      <3>2. Leads(0, 1) /\ Leads(1, 2) /\ Leads(2, 3) /\ Leads(3, 4) /\ Leads(4, 5)
        BY <3>1
      <3> QED
        BY <3>2 DEF Leads
    <2>2. \A k \in 0..4 : f[k + 1] = merged[f[k]]
      <3>1. /\ merged[f[0]] # None /\ merged[f[1]] # None /\ merged[f[2]] # None
            /\ merged[f[3]] # None /\ merged[f[4]] # None
        BY <2>1
      <3>2. \A k \in 0..4 : k = 0 \/ k = 1 \/ k = 2 \/ k = 3 \/ k = 4
        OBVIOUS
      <3>3. \A k \in 0..4 : merged[f[k]] # None
        BY <3>1, <3>2, Zenon
      <3> QED
        BY <1>1, <3>3
    <2>3. \E i, j \in 0..5 : i < j /\ f[i] = f[j]
      <3>1. /\ f[0] \in Ids /\ f[1] \in Ids /\ f[2] \in Ids
            /\ f[3] \in Ids /\ f[4] \in Ids /\ f[5] \in Ids
        BY <1>1
      <3>2. Ids = {"lid", "pn", "im", "card", Phone}
        BY DEF Ids, Keys
      <3>3. \/ f[0] = f[1] \/ f[0] = f[2] \/ f[0] = f[3] \/ f[0] = f[4] \/ f[0] = f[5]
            \/ f[1] = f[2] \/ f[1] = f[3] \/ f[1] = f[4] \/ f[1] = f[5]
            \/ f[2] = f[3] \/ f[2] = f[4] \/ f[2] = f[5]
            \/ f[3] = f[4] \/ f[3] = f[5] \/ f[4] = f[5]
        BY <3>1, <3>2
      <3>4. 0 \in 0..5 /\ 1 \in 0..5 /\ 2 \in 0..5 /\ 3 \in 0..5 /\ 4 \in 0..5 /\ 5 \in 0..5
        OBVIOUS
      <3> QED
        BY <3>3, <3>4
    <2>4. PICK i \in 0..5, j \in 0..5 : i < j /\ f[i] = f[j]
      BY <2>3
    <2> DEFINE S == {f[k] : k \in i..(j - 1)}
    <2>5. S \in SUBSET Ids /\ f[i] \in S
      BY <1>1, <2>4
    <2>6. ASSUME NEW k \in i..(j - 1) PROVE merged[f[k]] \in S
      <3>1. k \in 0..4 /\ merged[f[k]] = f[k + 1]
        BY <2>2, <2>4
      <3>2. CASE k + 1 = j
        BY <2>4, <2>5, <3>1, <3>2
      <3>3. CASE k + 1 # j
        BY <2>4, <3>1, <3>3
      <3> QED
        BY <3>2, <3>3
    <2>7. \A x \in S : merged[x] \in S
      BY <2>6
    <2> HIDE DEF S
    <2> QED
      BY <2>5, <2>7 DEF Loopless
  <1>3. f[5] \in Ids
    BY <1>1
  <1> QED
    BY <1>1, <1>2, <1>3

(* No circle is closed by merging a contact into one that was not merged.   *)
LEMMA LooplessMore ==
  ASSUME NEW merged \in Merges, Loopless(merged), NEW from \in Ids, NEW into \in Ids,
         from # into, merged[into] = None
  PROVE  /\ [merged EXCEPT ![from] = into] \in Merges
         /\ Loopless([merged EXCEPT ![from] = into])
  <1> DEFINE m == [merged EXCEPT ![from] = into]
  <1>1. m \in Merges /\ m[from] = into /\ \A i \in Ids : i # from => m[i] = merged[i]
    BY DEF Merges, Optional
  <1> HIDE DEF m
  <1>2. ASSUME NEW S \in SUBSET Ids, S # {} PROVE \E i \in S : m[i] \notin S
    <2>1. CASE into \in S
      BY <1>1, <2>1, NoneIsNone
    <2>2. CASE into \notin S /\ from \in S
      BY <1>1, <2>2
    <2>3. CASE from \notin S
      <3>1. PICK i \in S : merged[i] \notin S
        BY <1>2 DEF Loopless
      <3> QED
        BY <1>1, <2>3, <3>1
    <2> QED
      BY <2>1, <2>2, <2>3
  <1> QED
    BY <1>1, <1>2 DEF Loopless, m

-----------------------------------------------------------------------------
(* Tables whose references hold, and a cache that is true of them.         *)

ChatIds(t) == {t.chats[k] : k \in Chats}
Refers(t, x) == x.chat \in ChatIds(t) /\ x.contact \in Optional(t.contacts)
IsMessage(t, id) ==
    \E k \in RowKeys : k[1] = "message" /\ t.rows[k] # None /\ t.rows[k].id = id
Reacts(t, r) == r.contact \in Optional(t.contacts) /\ IsMessage(t, r.message)

LEMMA ForeignKeysAre ==
  ASSUME NEW t
  PROVE  ForeignKeysHold(t) <=>
            /\ t.contacts \subseteq Ids
            /\ \A k \in RowKeys : t.rows[k] = None \/ Refers(t, t.rows[k])
            /\ \A x \in t.members : Refers(t, x)
            /\ \A r \in t.reactions : Reacts(t, r)
            /\ \A k \in Keys : t.sources[k] \in Optional(t.contacts)
            /\ \A n \in DOMAIN t.phones : t.phones[n].contact \in Optional(t.contacts)
  BY DEF ForeignKeysHold, Refers, Reacts, IsMessage, ChatIds

(* What an event but an alias does to contacts and conversations: there are *)
(* more of them.                                                            *)
Grows(t, u) ==
    /\ u.alias = t.alias /\ t.contacts \subseteq u.contacts
    /\ \A k \in Chats : u.chats[k] = t.chats[k] \/ (t.chats[k] = None /\ u.chats[k] = k)

LEMMA GrowsTwice ==
  ASSUME NEW t, NEW u, NEW v, Grows(t, u), Grows(u, v)
  PROVE  Grows(t, v)
  BY DEF Grows

LEMMA GrownRefers ==
  ASSUME NEW t \in Tables, NEW u, Grows(t, u), None \notin Chats
  PROVE  \A x : x.chat \in Chats /\ Refers(t, x) => Refers(u, x)
  <1> SUFFICES ASSUME NEW x, x.chat \in Chats, Refers(t, x) PROVE Refers(u, x)
    OBVIOUS
  <1>1. PICK k \in Chats : t.chats[k] = x.chat
    BY DEF Refers, ChatIds
  <1>2. u.chats[k] = x.chat
    BY <1>1 DEF Grows
  <1> QED
    BY <1>2 DEF Refers, ChatIds, Grows, Optional

(* Tables in which what is referred to is there, and no contact that was    *)
(* merged; conversations are under the key they were first seen under until *)
(* an alias.                                                                *)
Firm(t, merged) ==
    /\ ForeignKeysHold(t)
    /\ Loopless(merged)
    /\ \A i \in t.contacts : merged[i] = None
    /\ t.alias = None => \A k \in Chats : t.chats[k] \in {None, k}

Found(t, merged, x) ==
    x # None => Canonical(merged, x) \in t.contacts /\ (t.alias = None => merged[x] = None)

ChatsKnown(chats, cached, plain) ==
    \A k \in Chats :
        /\ cached[k] # None => \E j \in Chats : chats[j] = cached[k]
        /\ plain => cached[k] \in {None, k}
        /\ chats[k] \notin {None, k} => cached[k] # None

(* A cache that is true of the tables. *)
Knows(t, c, merged) ==
    /\ c.merged = merged
    /\ Found(t, merged, c.phone) /\ \A k \in Keys : Found(t, merged, c.sources[k])
    /\ ChatsKnown(t.chats, c.chats, t.alias = None)

Sure(s, merged) == s \in State /\ Firm(s.t, merged) /\ Knows(s.t, s.c, merged)

LEMMA KnowsStill ==
  ASSUME NEW t, NEW u, NEW c, NEW merged, Knows(t, c, merged), Grows(t, u), None \notin Chats,
         c.chats \in [Chats -> Optional(Chats)]
  PROVE  Knows(u, c, merged)
  <1>1. ASSUME NEW x, Found(t, merged, x) PROVE Found(u, merged, x)
    BY <1>1 DEF Found, Grows
  <1>2. ASSUME NEW k \in Chats, c.chats[k] # None PROVE \E j \in Chats : u.chats[j] = c.chats[k]
    <2>1. PICK j \in Chats : t.chats[j] = c.chats[k]
      BY <1>2 DEF Knows, ChatsKnown
    <2>2. u.chats[j] = c.chats[k]
      BY <1>2, <2>1 DEF Grows, Optional
    <2> QED
      BY <2>2
  <1>3. ASSUME NEW k \in Chats
        PROVE  /\ u.alias = None => c.chats[k] \in {None, k}
               /\ u.chats[k] \notin {None, k} => c.chats[k] # None
    BY DEF Grows, Knows, ChatsKnown
  <1> QED
    BY <1>1, <1>2, <1>3 DEF Knows, ChatsKnown

(* A conversation that is ensured is there, under the id the cache has. *)
LEMMA ChatIsEnsured ==
  ASSUME NEW chats \in [Chats -> Optional(Chats)], NEW cached \in [Chats -> Optional(Chats)],
         NEW plain \in BOOLEAN, ChatsKnown(chats, cached, plain),
         plain => \A k \in Chats : chats[k] \in {None, k},
         NEW chat \in Chats, None \notin Chats,
         NEW id, id = IF cached[chat] = None THEN chat ELSE cached[chat],
         NEW x, x[chat] = IF chats[chat] = None /\ \A k \in Chats : chats[k] # id
                          THEN id ELSE chats[chat],
         NEW y, y[chat] = id,
         \A k \in Chats \ {chat} : x[k] = chats[k] /\ y[k] = cached[k]
  PROVE  /\ \A k \in Chats : x[k] = chats[k] \/ (chats[k] = None /\ x[k] = k)
         /\ \E j \in Chats : x[j] = id
         /\ ChatsKnown(x, y, plain)
         /\ plain => \A k \in Chats : x[k] \in {None, k}
  <1>1. /\ id \in Chats
        /\ \A k \in Chats : y[k] = IF k = chat THEN id ELSE cached[k]
        /\ \A k \in Chats : x[k] = IF /\ k = chat /\ chats[chat] = None
                                      /\ \A j \in Chats : chats[j] # id
                                   THEN id ELSE chats[k]
    <2>1. id \in Chats
      BY DEF Optional
    <2> QED
      BY <2>1
  <1>2. cached[chat] # None => \E j \in Chats : chats[j] = id
    BY DEF ChatsKnown
  <1>3. \A k \in Chats : x[k] = chats[k] \/ (chats[k] = None /\ x[k] = k)
    <2>1. (\A j \in Chats : chats[j] # id) => id = chat
      BY <1>2
    <2> QED
      BY <1>1, <2>1
  <1>4. \E j \in Chats : x[j] = id
    <2>1. CASE \E j \in Chats : chats[j] = id
      BY <1>1, <2>1
    <2>2. CASE ~ \E j \in Chats : chats[j] = id
      <3>1. cached[chat] = None /\ id = chat
        BY <1>2, <2>2
      <3>2. chats[chat] \in {None, chat}
        BY <3>1 DEF ChatsKnown
      <3> QED
        BY <1>1, <2>2, <3>1, <3>2
    <2> QED
      BY <2>1, <2>2
  <1>5. ASSUME NEW k \in Chats, y[k] # None PROVE \E j \in Chats : x[j] = y[k]
    <2>1. CASE k = chat
      BY <1>1, <1>4, <2>1
    <2>2. CASE k # chat
      <3>1. PICK j \in Chats : chats[j] = cached[k]
        BY <1>1, <1>5, <2>2 DEF ChatsKnown
      <3> QED
        BY <1>1, <1>3, <1>5, <2>2, <3>1
    <2> QED
      BY <2>1, <2>2
  <1>6. \A k \in Chats : plain => y[k] \in {None, k} /\ x[k] \in {None, k}
    BY <1>1, <1>3 DEF ChatsKnown
  <1>7. \A k \in Chats : x[k] \notin {None, k} => y[k] # None
    BY <1>1, <1>3 DEF ChatsKnown
  <1> HIDE DEF ChatsKnown
  <1> QED
    BY <1>3, <1>4, <1>5, <1>6, <1>7 DEF ChatsKnown

LEMMA NoChatIsNone == None \notin Chats
  BY IdentityAssumption

(* Nothing but contacts and conversations grew: the foreign keys hold.      *)
LEMMA GrownKeysHold ==
  ASSUME NEW t \in Tables, NEW u, ForeignKeysHold(t), Grows(t, u), u.contacts \subseteq Ids,
         u.rows = t.rows, u.members = t.members, u.reactions = t.reactions,
         u.sources = t.sources, u.phones = t.phones
  PROVE  ForeignKeysHold(u)
  <1>1. \A x : x.chat \in Chats /\ Refers(t, x) => Refers(u, x)
    BY GrownRefers, NoChatIsNone
  <1>2. \A x : Reacts(t, x) => Reacts(u, x)
    BY DEF Reacts, IsMessage, Grows, Optional
  <1>3. \A i : i \in Optional(t.contacts) => i \in Optional(u.contacts)
    BY DEF Grows, Optional
  <1>4. \A k \in RowKeys : t.rows[k] # None => t.rows[k].chat \in Chats
    BY DEF Tables, Optional, Row, RowAbout
  <1>5. \A x \in t.members : x.chat \in Chats
    BY DEF Tables
  <1>6. /\ \A k \in RowKeys : t.rows[k] = None \/ Refers(t, t.rows[k])
        /\ \A x \in t.members : Refers(t, x)
        /\ \A r \in t.reactions : Reacts(t, r)
        /\ \A k \in Keys : t.sources[k] \in Optional(t.contacts)
        /\ \A n \in DOMAIN t.phones : t.phones[n].contact \in Optional(t.contacts)
    BY ForeignKeysAre
  <1>7. \A k \in RowKeys : u.rows[k] = None \/ Refers(u, u.rows[k])
    BY <1>1, <1>4, <1>6
  <1>8. \A x \in u.members : Refers(u, x)
    BY <1>1, <1>5, <1>6
  <1>9. \A r \in u.reactions : Reacts(u, r)
    BY <1>2, <1>6
  <1>10. /\ \A k \in Keys : u.sources[k] \in Optional(u.contacts)
         /\ \A n \in DOMAIN u.phones : u.phones[n].contact \in Optional(u.contacts)
    BY <1>3, <1>6
  <1> QED
    BY <1>7, <1>8, <1>9, <1>10, ForeignKeysAre

LEMMA SureFacts ==
  ASSUME NEW s, NEW merged, Sure(s, merged)
  PROVE  /\ s \in State /\ ForeignKeysHold(s.t) /\ Loopless(merged)
         /\ \A i \in s.t.contacts : merged[i] = None
         /\ s.t.alias = None => \A k \in Chats : s.t.chats[k] \in {None, k}
         /\ s.c.merged = merged /\ merged \in Merges
         /\ Found(s.t, merged, s.c.phone) /\ \A k \in Keys : Found(s.t, merged, s.c.sources[k])
         /\ ChatsKnown(s.t.chats, s.c.chats, s.t.alias = None)
  BY StateOf DEF Sure, Firm, Knows

LEMMA EnsureChatIsSure ==
  ASSUME NEW s, NEW merged, Sure(s, merged), NEW chat \in Chats,
         NEW u, u = EnsureChat(s, chat)
  PROVE  /\ Sure(u, merged) /\ Grows(s.t, u.t) /\ u.at = s.at
         /\ ChatOf(s, chat) \in ChatIds(u.t) /\ ChatOf(u, chat) = ChatOf(s, chat)
         /\ u.t.rows = s.t.rows /\ u.t.members = s.t.members /\ u.t.reactions = s.t.reactions
  <1> DEFINE id == ChatOf(s, chat)
             x == [s.t.chats EXCEPT ![chat] =
                     IF @ = None /\ \A k \in Chats : s.t.chats[k] # id THEN id ELSE @]
             y == [s.c.chats EXCEPT ![chat] = id]
             T == [s.t EXCEPT !.chats = x]
             C == [s.c EXCEPT !.chats = y]
  <1>1. /\ s \in State /\ s.t \in Tables /\ s.c \in Cache
        /\ s.c.chats \in [Chats -> Optional(Chats)] /\ s.t.chats \in [Chats -> Optional(Chats)]
        /\ s.t.contacts \subseteq Ids
    BY StateOf DEF Sure
  <1>2. id = IF s.c.chats[chat] = None THEN chat ELSE s.c.chats[chat]
    BY DEF ChatOf
  <1>3. u = [s EXCEPT !.c = C, !.t = T]
    <2>1. u = [s EXCEPT !.c.chats = y, !.t.chats = x]
      BY <1>1 DEF EnsureChat, State
    <2> HIDE DEF x, y
    <2> QED
      BY <1>1, <2>1 DEF State
  <1> HIDE DEF id
  <1>4. /\ \A k \in Chats : x[k] = s.t.chats[k] \/ (s.t.chats[k] = None /\ x[k] = k)
        /\ \E j \in Chats : x[j] = id
        /\ ChatsKnown(x, y, s.t.alias = None)
        /\ s.t.alias = None => \A k \in Chats : x[k] \in {None, k}
    <2>1. /\ ChatsKnown(s.t.chats, s.c.chats, s.t.alias = None)
          /\ s.t.alias = None => \A k \in Chats : s.t.chats[k] \in {None, k}
          /\ (s.t.alias = None) \in BOOLEAN
      BY SureFacts
    <2> DEFINE chats == s.t.chats
               cached == s.c.chats
               plain == s.t.alias = None
    <2>2. /\ x[chat] = IF chats[chat] = None /\ \A k \in Chats : chats[k] # id
                       THEN id ELSE chats[chat]
          /\ y[chat] = id
          /\ \A k \in Chats \ {chat} : x[k] = chats[k] /\ y[k] = cached[k]
      BY <1>1
    <2>3. /\ chats \in [Chats -> Optional(Chats)] /\ cached \in [Chats -> Optional(Chats)]
          /\ ChatsKnown(chats, cached, plain) /\ plain \in BOOLEAN
          /\ plain => \A k \in Chats : chats[k] \in {None, k}
          /\ id = IF cached[chat] = None THEN chat ELSE cached[chat]
      BY <1>1, <1>2, <2>1
    <2> HIDE DEF x, y, chats, cached, plain
    <2>4. /\ \A k \in Chats : x[k] = chats[k] \/ (chats[k] = None /\ x[k] = k)
          /\ \E j \in Chats : x[j] = id
          /\ ChatsKnown(x, y, plain)
          /\ plain => \A k \in Chats : x[k] \in {None, k}
      BY <2>2, <2>3, ChatIsEnsured, NoChatIsNone
    <2> QED
      BY <2>4 DEF chats, plain
  <1>5. y[chat] = id
    BY <1>1
  <1> HIDE DEF x, y
  <1>6. /\ T.chats = x /\ T.rows = s.t.rows /\ T.members = s.t.members
        /\ T.reactions = s.t.reactions /\ T.contacts = s.t.contacts /\ T.alias = s.t.alias
        /\ T.sources = s.t.sources /\ T.phones = s.t.phones
        /\ C.chats = y /\ C.merged = s.c.merged /\ C.phone = s.c.phone
        /\ C.sources = s.c.sources
    BY <1>1 DEF Tables, Cache
  <1> HIDE DEF T, C
  <1>7. u.t = T /\ u.c = C /\ u.at = s.at
    BY <1>1, <1>3 DEF State
  <1>8. u \in State
    BY <1>1, EnsureChatMakes
  <1>9. Grows(s.t, T)
    BY <1>4, <1>6 DEF Grows
  <1>10. ForeignKeysHold(T)
    BY <1>1, <1>6, <1>9, GrownKeysHold, SureFacts
  <1>11. Firm(T, merged)
    BY <1>4, <1>6, <1>10, SureFacts DEF Firm
  <1>12. Knows(T, C, merged)
    BY <1>4, <1>6, SureFacts DEF Knows, Found
  <1>13. id \in ChatIds(T)
    BY <1>4, <1>6 DEF ChatIds
  <1>14. ChatOf(u, chat) = id
    <2>1. id # None
      BY <1>2, NoChatIsNone
    <2> QED
      BY <1>5, <1>6, <1>7, <2>1 DEF ChatOf
  <1> QED
    BY <1>6, <1>7, <1>8, <1>9, <1>11, <1>12, <1>13, <1>14 DEF Sure, id

(* What a cache has for a key is a contact that there is. *)
LEMMA KnownIsFound ==
  ASSUME NEW s, NEW merged, Sure(s, merged), NEW key \in Keys
  PROVE  /\ Known(s, key) # None => Known(s, key) \in s.t.contacts
         /\ ContactOf(s, key) \in Ids /\ merged[ContactOf(s, key)] = None
         /\ Known(s, key) = None => ContactOf(s, key) = Canonical(merged, key)
  <1>1. /\ s \in State /\ s.t.contacts \subseteq Ids
        /\ s.c.sources \in [Keys -> Optional(Ids)] /\ s.c.phone \in Optional(Ids)
    BY SureFacts, StateOf
  <1>2. Known(s, key) # None => Known(s, key) \in s.t.contacts
    <2>1. CASE s.c.sources[key] # None
      <3>1. Known(s, key) = Canonical(merged, s.c.sources[key])
        BY <2>1, SureFacts DEF Known
      <3> QED
        BY <2>1, <3>1, SureFacts DEF Found
    <2>2. CASE s.c.sources[key] = None
      <3>1. Known(s, key) = IF key = "im" THEN Canonical(merged, s.c.phone) ELSE None
        BY <2>2, SureFacts DEF Known
      <3>2. s.c.phone = None => Canonical(merged, s.c.phone) = None
        BY DEF Canonical
      <3> QED
        BY <3>1, <3>2, SureFacts DEF Found
    <2> QED
      BY <2>1, <2>2
  <1>3. CASE Known(s, key) # None
    <2>1. ContactOf(s, key) = Known(s, key)
      BY <1>3 DEF ContactOf
    <2> QED
      BY <1>1, <1>2, <1>3, <2>1, SureFacts
  <1>4. CASE Known(s, key) = None
    <2>1. ContactOf(s, key) = Canonical(merged, key)
      BY <1>4, SureFacts DEF ContactOf
    <2>2. key \in Ids
      BY DEF Ids
    <2> QED
      BY <1>4, <2>1, <2>2, ChainsEnd, SureFacts
  <1> QED
    BY <1>2, <1>3, <1>4

LEMMA EnsureContactIsSure ==
  ASSUME NEW s, NEW merged, Sure(s, merged), NEW key \in Keys,
         NEW u, u = EnsureContact(s, key)
  PROVE  /\ Sure(u, merged) /\ Grows(s.t, u.t) /\ u.at = s.at
         /\ ContactOf(s, key) \in u.t.contacts /\ ContactOf(s, key) \in Ids
         /\ u.c.chats = s.c.chats /\ u.t.chats = s.t.chats
         /\ u.t.rows = s.t.rows /\ u.t.members = s.t.members /\ u.t.reactions = s.t.reactions
  <1> DEFINE id == ContactOf(s, key)
             X == IF Known(s, key) # None THEN s.t.contacts ELSE s.t.contacts \cup {id}
             y == [s.c.sources EXCEPT ![key] = id]
             T == [s.t EXCEPT !.contacts = X]
             C == [s.c EXCEPT !.sources = y]
  <1>1. /\ s \in State /\ s.t \in Tables /\ s.c \in Cache
        /\ s.c.sources \in [Keys -> Optional(Ids)] /\ s.t.contacts \subseteq Ids
    BY StateOf DEF Sure
  <1>2. /\ id \in Ids /\ merged[id] = None
        /\ Known(s, key) # None => id \in s.t.contacts
    <2>1. Known(s, key) # None => id = Known(s, key)
      BY DEF ContactOf
    <2> QED
      BY <2>1, KnownIsFound
  <1>3. u = [s EXCEPT !.c = C, !.t = T]
    <2>1. u = [s EXCEPT !.c.sources = y, !.t.contacts = X]
      BY <1>1 DEF EnsureContact, State
    <2> HIDE DEF X, y
    <2> QED
      BY <1>1, <2>1 DEF State
  <1> HIDE DEF id
  <1>4. /\ s.t.contacts \subseteq X /\ X \subseteq Ids /\ id \in X
        /\ \A i \in X : merged[i] = None
        /\ \A k \in Keys : y[k] = IF k = key THEN id ELSE s.c.sources[k]
        /\ y \in [Keys -> Optional(Ids)]
    BY <1>1, <1>2, SureFacts DEF Optional
  <1> HIDE DEF X, y
  <1>5. /\ T.chats = s.t.chats /\ T.rows = s.t.rows /\ T.members = s.t.members
        /\ T.reactions = s.t.reactions /\ T.contacts = X /\ T.alias = s.t.alias
        /\ T.sources = s.t.sources /\ T.phones = s.t.phones
        /\ C.chats = s.c.chats /\ C.merged = s.c.merged /\ C.phone = s.c.phone
        /\ C.sources = y
    BY <1>1 DEF Tables, Cache
  <1>6. T \in Tables /\ C \in Cache
    BY <1>1, <1>4 DEF Tables, Cache
  <1> HIDE DEF T, C
  <1>7. u.t = T /\ u.c = C /\ u.at = s.at /\ u \in State
    BY <1>1, <1>3, <1>6 DEF State
  <1>8. Grows(s.t, T)
    BY <1>4, <1>5 DEF Grows
  <1>9. ForeignKeysHold(T)
    BY <1>1, <1>4, <1>5, <1>8, GrownKeysHold, SureFacts
  <1>10. Firm(T, merged)
    BY <1>4, <1>5, <1>9, SureFacts DEF Firm
  <1>11. Canonical(merged, id) = id
    BY <1>2, ChainsEnd, SureFacts
  <1>12. \A x : Found(s.t, merged, x) => Found(T, merged, x)
    BY <1>4, <1>5 DEF Found
  <1>13. Found(T, merged, id)
    BY <1>2, <1>4, <1>5, <1>11 DEF Found
  <1>14. Knows(T, C, merged)
    BY <1>4, <1>5, <1>12, <1>13, SureFacts DEF Knows
  <1> QED
    BY <1>2, <1>4, <1>5, <1>7, <1>8, <1>10, <1>14 DEF Sure, id

(* Nothing but rows and reactions changed. *)
LEMMA SureAgain ==
  ASSUME NEW s, NEW merged, Sure(s, merged), NEW u \in State, ForeignKeysHold(u.t),
         u.c = s.c, u.t.contacts = s.t.contacts, u.t.chats = s.t.chats, u.t.alias = s.t.alias
  PROVE  Sure(u, merged) /\ Grows(s.t, u.t)
  <1>1. Firm(u.t, merged)
    BY SureFacts DEF Firm
  <1>2. Knows(u.t, u.c, merged)
    BY SureFacts DEF Knows, Found
  <1> QED
    BY <1>1, <1>2 DEF Sure, Grows

Written(rows, k, x) == [rows EXCEPT ![k] = x]

LEMMA RowWrittenIsSure ==
  ASSUME NEW s, NEW merged, Sure(s, merged), NEW k \in RowKeys, NEW x \in Row, Refers(s.t, x),
         s.t.rows[k] # None => x.id = s.t.rows[k].id,
         NEW u, u = WithRows(s, Written(s.t.rows, k, x))
  PROVE  /\ Sure(u, merged) /\ Grows(s.t, u.t) /\ u.at = s.at /\ u.c = s.c
         /\ u.t.rows[k] = x /\ u.t.reactions = s.t.reactions
         /\ u.t.chats = s.t.chats
  <1> DEFINE R == Written(s.t.rows, k, x)
             T == [s.t EXCEPT !.rows = R]
  <1>1. s \in State /\ s.t \in Tables /\ s.c \in Cache /\ s.t.rows \in Rows
    BY SureFacts, StateOf
  <1>2. /\ R \in Rows /\ R[k] = x /\ \A j \in RowKeys : j # k => R[j] = s.t.rows[j]
    BY <1>1 DEF Rows, Optional, Written
  <1>3. x # None
    BY RowsAreSome
  <1> HIDE DEF T, R
  <1>4. u \in State
    BY <1>1, <1>2, StatesRows DEF R
  <1>5. /\ T.rows = R /\ T.contacts = s.t.contacts /\ T.chats = s.t.chats
        /\ T.alias = s.t.alias /\ T.members = s.t.members /\ T.reactions = s.t.reactions
        /\ T.sources = s.t.sources /\ T.phones = s.t.phones
    BY <1>1 DEF Tables, T
  <1>6. u.t = T /\ u.c = s.c /\ u.at = s.at
    BY <1>1 DEF WithRows, State, T, R
  <1>7. ForeignKeysHold(T)
    <2>1. \A y : Refers(s.t, y) => Refers(T, y)
      BY <1>5 DEF Refers, ChatIds
    <2>2. \A id : IsMessage(s.t, id) => IsMessage(T, id)
      <3> SUFFICES ASSUME NEW id, IsMessage(s.t, id) PROVE IsMessage(T, id)
        OBVIOUS
      <3>1. PICK j \in RowKeys : j[1] = "message" /\ s.t.rows[j] # None /\ s.t.rows[j].id = id
        BY DEF IsMessage
      <3>2. R[j] # None /\ R[j].id = id
        BY <1>2, <1>3, <3>1
      <3> QED
        BY <1>5, <3>1, <3>2 DEF IsMessage
    <2>3. \A y : Reacts(s.t, y) => Reacts(T, y)
      BY <1>5, <2>2 DEF Reacts
    <2>4. /\ \A j \in RowKeys : s.t.rows[j] = None \/ Refers(s.t, s.t.rows[j])
          /\ \A y \in s.t.members : Refers(s.t, y)
          /\ \A r \in s.t.reactions : Reacts(s.t, r)
          /\ s.t.contacts \subseteq Ids
          /\ \A j \in Keys : s.t.sources[j] \in Optional(s.t.contacts)
          /\ \A n \in DOMAIN s.t.phones : s.t.phones[n].contact \in Optional(s.t.contacts)
      BY ForeignKeysAre, SureFacts
    <2>5. \A j \in RowKeys : T.rows[j] = None \/ Refers(T, T.rows[j])
      BY <1>2, <1>5, <2>1, <2>4
    <2> QED
      BY <1>5, <2>1, <2>3, <2>4, <2>5, ForeignKeysAre
  <1> QED
    BY <1>2, <1>4, <1>5, <1>6, <1>7, SureAgain

LEMMA ReactionsWrittenAreSure ==
  ASSUME NEW s, NEW merged, Sure(s, merged), NEW Q \in SUBSET Reaction,
         \A r \in Q : Reacts(s.t, r), NEW u, u = WithReactions(s, Q)
  PROVE  /\ Sure(u, merged) /\ Grows(s.t, u.t) /\ u.at = s.at
  <1> DEFINE T == [s.t EXCEPT !.reactions = Q]
  <1>1. s \in State /\ s.t \in Tables /\ s.c \in Cache
    BY SureFacts, StateOf
  <1>2. u \in State
    BY <1>1, StatesReactions
  <1>3. /\ T.rows = s.t.rows /\ T.contacts = s.t.contacts /\ T.chats = s.t.chats
        /\ T.alias = s.t.alias /\ T.members = s.t.members /\ T.reactions = Q
        /\ T.sources = s.t.sources /\ T.phones = s.t.phones
    BY <1>1 DEF Tables
  <1>4. u.t = T /\ u.c = s.c /\ u.at = s.at
    BY <1>1 DEF WithReactions, State
  <1> HIDE DEF T
  <1>5. ForeignKeysHold(T)
    <2>1. \A y : (Refers(s.t, y) => Refers(T, y)) /\ (Reacts(s.t, y) => Reacts(T, y))
      BY <1>3 DEF Refers, ChatIds, Reacts, IsMessage
    <2>2. /\ \A j \in RowKeys : s.t.rows[j] = None \/ Refers(s.t, s.t.rows[j])
          /\ \A y \in s.t.members : Refers(s.t, y)
          /\ s.t.contacts \subseteq Ids
          /\ \A j \in Keys : s.t.sources[j] \in Optional(s.t.contacts)
          /\ \A n \in DOMAIN s.t.phones : s.t.phones[n].contact \in Optional(s.t.contacts)
      BY ForeignKeysAre, SureFacts
    <2> QED
      BY <1>3, <2>1, <2>2, ForeignKeysAre
  <1> QED
    BY <1>2, <1>3, <1>4, <1>5, SureAgain

LEMMA EnsureMessageIsSure ==
  ASSUME NEW s, NEW merged, Sure(s, merged), NEW chat \in Chats,
         NEW u, u = EnsureMessage(s, chat)
  PROVE  /\ Sure(u, merged) /\ Grows(s.t, u.t) /\ u.at = s.at
         /\ u.t.rows[<<"message", chat>>] \in Row /\ u.t.reactions = s.t.reactions
         /\ ChatOf(u, chat) \in ChatIds(u.t)
  <1> DEFINE key == <<"message", chat>>
             v == EnsureChat(s, chat)
             new == [id |-> chat, chat |-> ChatOf(s, chat), contact |-> None, source |-> None,
                     deleted |-> FALSE, at |-> s.at]
             x == IF s.t.rows[key] # None THEN s.t.rows[key] ELSE new
  <1>1. /\ Sure(v, merged) /\ Grows(s.t, v.t) /\ v.at = s.at
        /\ ChatOf(s, chat) \in ChatIds(v.t) /\ ChatOf(v, chat) = ChatOf(s, chat)
        /\ v.t.rows = s.t.rows /\ v.t.reactions = s.t.reactions
    BY EnsureChatIsSure
  <1>2. /\ key \in RowKeys /\ s \in State /\ s.t.rows \in Rows /\ s.at \in Nat /\ v \in State
        /\ ChatOf(s, chat) \in Chats
    BY <1>1, SureFacts, StateOf, RowKeysOf, EnsureChatMakes
  <1>3. u = WithRows(v, Written(v.t.rows, key, x))
    BY <1>1, <1>2 DEF EnsureMessage, State, WithRows, Written
  <1>4. /\ new \in Row /\ new.chat = ChatOf(s, chat) /\ new.contact = None
    BY <1>2 DEF Row, RowAbout, Optional
  <1> HIDE DEF v, new
  <1>5. x \in Row
    BY <1>2, <1>4 DEF Rows, Optional
  <1>6. Refers(v.t, x)
    <2>1. CASE s.t.rows[key] # None
      BY <1>1, <1>2, <2>1, ForeignKeysAre, SureFacts
    <2>2. CASE s.t.rows[key] = None
      BY <1>1, <1>4, <2>2 DEF Refers, Optional
    <2> QED
      BY <2>1, <2>2
  <1>7. v.t.rows[key] # None => x.id = v.t.rows[key].id
    BY <1>1
  <1> HIDE DEF x, key
  <1>8. /\ Sure(u, merged) /\ Grows(v.t, u.t) /\ u.at = v.at /\ u.c = v.c
        /\ u.t.rows[key] = x /\ u.t.reactions = v.t.reactions
        /\ u.t.chats = v.t.chats
    BY <1>1, <1>2, <1>3, <1>5, <1>6, <1>7, RowWrittenIsSure
  <1>9. ChatOf(u, chat) \in ChatIds(u.t)
    BY <1>1, <1>8 DEF ChatOf, ChatIds
  <1> QED
    BY <1>1, <1>5, <1>8, <1>9, GrowsTwice DEF key

Advances(s, u, merged) == Sure(u, merged) /\ Grows(s.t, u.t)

Rewritten(row, chat, contact, key, at) ==
    [row EXCEPT !.chat = chat, !.contact = contact, !.source = key, !.at = at]
WithRow(s, k, x) == WithRows(s, Written(s.t.rows, k, x))

(* A row that a contact wrote: the contact is ensured, then the row. *)
LEMMA RowFromContactIsSure ==
  ASSUME NEW s, NEW merged, Sure(s, merged), NEW key \in Keys, NEW k \in RowKeys,
         NEW old \in Row, old.chat \in Chats, NEW chat \in Chats, chat \in ChatIds(s.t),
         s.t.rows[k] # None => old.id = s.t.rows[k].id,
         NEW u, u = WithRow(EnsureContact(s, key), k,
                            Rewritten(old, chat, ContactOf(s, key), key, s.at))
  PROVE  Advances(s, u, merged) /\ u.t.reactions = s.t.reactions
  <1> DEFINE v == EnsureContact(s, key)
             x == Rewritten(old, chat, ContactOf(s, key), key, s.at)
  <1>1. /\ Sure(v, merged) /\ Grows(s.t, v.t) /\ v.at = s.at
        /\ ContactOf(s, key) \in v.t.contacts /\ ContactOf(s, key) \in Ids
        /\ v.t.chats = s.t.chats /\ v.t.rows = s.t.rows /\ v.t.reactions = s.t.reactions
    BY EnsureContactIsSure
  <1>2. v \in State /\ s.at \in Nat
    BY <1>1, SureFacts, StateOf
  <1>3. u = WithRows(v, Written(v.t.rows, k, x))
    BY DEF WithRow
  <1> HIDE DEF v
  <1>4. x \in Row /\ x.id = old.id /\ x.chat = chat /\ x.contact = ContactOf(s, key)
    <2> DEFINE id == ContactOf(s, key)
    <2>1. id \in Ids /\ s.at \in Nat /\ x = Rewritten(old, chat, id, key, s.at)
      BY <1>1, <1>2
    <2> HIDE DEF id, x
    <2> QED
      <3>1. x = [old EXCEPT !.chat = chat, !.contact = id, !.source = key, !.at = s.at]
        BY <2>1 DEF Rewritten
      <3>2. x \in Row /\ x.id = old.id /\ x.chat = chat /\ x.contact = id
        BY <2>1, <3>1 DEF Row, RowAbout, Optional
      <3> QED
        BY <3>2 DEF id
  <1> HIDE DEF x
  <1>5. Refers(v.t, x)
    BY <1>1, <1>4 DEF Refers, ChatIds, Optional
  <1>6. v.t.rows[k] # None => x.id = v.t.rows[k].id
    BY <1>1, <1>4
  <1>7. Sure(u, merged) /\ Grows(v.t, u.t) /\ u.t.reactions = v.t.reactions
    BY <1>1, <1>3, <1>4, <1>5, <1>6, RowWrittenIsSure
  <1> QED
    BY <1>1, <1>7, GrowsTwice DEF Advances

LEMMA ProjectMessageIsSure ==
  ASSUME NEW s, NEW merged, Sure(s, merged), NEW e, e.chat \in Chats, e.key \in Keys,
         NEW u, u = ProjectMessage(s, e)
  PROVE  Advances(s, u, merged)
  <1> DEFINE key == <<"message", e.chat>>
             stub == EnsureMessage(s, e.chat)
             old == stub.t.rows[key]
             deleted == e.kind = "deletion"
             same == [old EXCEPT !.deleted = deleted]
             Q == IF deleted THEN Unreacted(stub.t.reactions, old.id) ELSE stub.t.reactions
             v == EnsureContact(stub, e.key)
             x == Rewritten(same, ChatOf(stub, e.chat), ContactOf(stub, e.key), e.key, stub.at)
             w == WithRow(v, key, x)
  <1>1. /\ Sure(stub, merged) /\ Grows(s.t, stub.t) /\ stub.at = s.at /\ old \in Row
        /\ ChatOf(stub, e.chat) \in ChatIds(stub.t)
    BY EnsureMessageIsSure
  <1>2. CASE OnWhatsApp(e.chat) /\ old.deleted
    <2>1. u = stub
      BY <1>2 DEF ProjectMessage
    <2> QED
      BY <1>1, <2>1 DEF Advances
  <1>3. CASE ~(OnWhatsApp(e.chat) /\ old.deleted)
    <2>1. u = [v EXCEPT
                !.t.reactions = IF deleted THEN Unreacted(@, old.id) ELSE @,
                !.t.rows[key] =
                   [@ EXCEPT !.chat = ChatOf(stub, e.chat), !.contact = ContactOf(stub, e.key),
                             !.source = e.key, !.deleted = deleted, !.at = s.at]]
      BY <1>3 DEF ProjectMessage
    <2>2. /\ v.t.rows = stub.t.rows /\ v.t.reactions = stub.t.reactions /\ v \in State
      <3> HIDE DEF stub
      <3> QED
        BY <1>1, EnsureContactIsSure, SureFacts
    <2>3. key \in RowKeys /\ stub \in State /\ stub.t.reactions \subseteq Reaction
          /\ v.t.rows \in Rows
      BY <1>1, <2>2, RowKeysOf, SureFacts, StateOf
    <2>a. same \in Row /\ same.id = old.id /\ same.chat \in Chats
      <3>1. deleted \in BOOLEAN
        OBVIOUS
      <3> HIDE DEF old, deleted
      <3> QED
        BY <1>1, <3>1 DEF Row, RowAbout
    <2>b. x = [old EXCEPT !.chat = ChatOf(stub, e.chat), !.contact = ContactOf(stub, e.key),
                          !.source = e.key, !.deleted = deleted, !.at = s.at]
      <3>1. s.at = stub.at
        BY <1>1
      <3>2. old \in Row
        BY <1>1
      <3> DEFINE ch == ChatOf(stub, e.chat)
                 co == ContactOf(stub, e.key)
                 at == stub.at
      <3> HIDE DEF old, deleted, stub, ch, co, at
      <3>3. x = Rewritten([old EXCEPT !.deleted = deleted], ch, co, e.key, at)
        BY DEF ch, co, at
      <3> HIDE DEF x
      <3>4. x = [old EXCEPT !.chat = ch, !.contact = co, !.source = e.key,
                            !.deleted = deleted, !.at = at]
        BY <3>2, <3>3 DEF Rewritten, Row, RowAbout
      <3> QED
        BY <3>1, <3>4 DEF ch, co, at
    <2>4. u = WithReactions(w, Q)
      <3> HIDE DEF stub, v, x, deleted
      <3>1. u = [v EXCEPT !.t.reactions = Q, !.t.rows[key] = x]
        BY <2>1, <2>2, <2>b DEF State, Tables
      <3> HIDE DEF Q, key, old
      <3> QED
        BY <2>2, <2>3, <3>1 DEF State, Tables, WithRow, WithRows, WithReactions, Written
    <2>5. ChatOf(stub, e.chat) \in Chats
      BY <1>1, SureFacts, EnsureChatMakes
    <2>7. stub.t.rows[key] # None => same.id = stub.t.rows[key].id
      BY <2>a
    <2>c. Q \subseteq stub.t.reactions
      BY DEF Unreacted
    <2>d. w = WithRow(EnsureContact(stub, e.key), key,
                      Rewritten(same, ChatOf(stub, e.chat), ContactOf(stub, e.key),
                                e.key, stub.at))
      OBVIOUS
    <2> HIDE DEF old, same, stub, key, v, x, w, Q
    <2>8. Advances(stub, w, merged) /\ w.t.reactions = stub.t.reactions
      BY <1>1, <2>3, <2>a, <2>d, <2>5, <2>7, RowFromContactIsSure
    <2>9. Q \in SUBSET Reaction /\ \A r \in Q : Reacts(w.t, r)
      <3>1. \A r \in w.t.reactions : Reacts(w.t, r)
        BY <2>8, SureFacts, ForeignKeysAre DEF Advances
      <3> QED
        BY <2>3, <2>8, <2>c, <3>1
    <2>10. Sure(u, merged) /\ Grows(w.t, u.t)
      BY <2>4, <2>8, <2>9, ReactionsWrittenAreSure DEF Advances
    <2> QED
      BY <1>1, <2>8, <2>10, GrowsTwice DEF Advances
  <1> QED
    BY <1>2, <1>3

LEMMA ProjectTimelineIsSure ==
  ASSUME NEW s, NEW merged, Sure(s, merged), NEW e, e.chat \in Chats, e.key \in Keys,
         NEW u, u = ProjectTimeline(s, e)
  PROVE  Advances(s, u, merged)
  <1> DEFINE key == <<"timeline", e.chat>>
             v == EnsureChat(s, e.chat)
             new == [id |-> e.chat, chat |-> ChatOf(s, e.chat), contact |-> None,
                     source |-> None, deleted |-> FALSE, at |-> s.at]
             same == IF s.t.rows[key] # None THEN s.t.rows[key] ELSE new
             x == [same EXCEPT !.contact = ContactOf(v, e.key), !.source = e.key, !.at = s.at]
  <1>1. /\ Sure(v, merged) /\ Grows(s.t, v.t) /\ v.at = s.at
        /\ ChatOf(s, e.chat) \in ChatIds(v.t) /\ v.t.rows = s.t.rows
    BY EnsureChatIsSure
  <1>2. /\ key \in RowKeys /\ s \in State /\ s.t.rows \in Rows /\ s.at \in Nat /\ v \in State
        /\ ChatOf(s, e.chat) \in Chats /\ v.t.rows \in Rows
    BY <1>1, SureFacts, StateOf, RowKeysOf, EnsureChatMakes
  <1>3. u = [EnsureContact(v, e.key) EXCEPT !.t.rows[key] = x]
    BY DEF ProjectTimeline
  <1>4. new \in Row /\ new.chat = ChatOf(s, e.chat)
    BY <1>2 DEF Row, RowAbout, Optional
  <1> HIDE DEF v, new
  <1>5. same \in Row /\ same.chat \in Chats
    <2>1. same \in Row
      BY <1>2, <1>4 DEF Rows, Optional
    <2> QED
      BY <2>1 DEF Row, RowAbout
  <1>6. same.chat \in ChatIds(v.t)
    <2>1. CASE s.t.rows[key] # None
      <3>1. Refers(v.t, v.t.rows[key])
        BY <1>1, <1>2, <2>1, ForeignKeysAre, SureFacts
      <3> QED
        BY <1>1, <2>1, <3>1 DEF Refers
    <2>2. CASE s.t.rows[key] = None
      BY <1>1, <1>4, <2>2
    <2> QED
      BY <2>1, <2>2
  <1>7. v.t.rows[key] # None => same.id = v.t.rows[key].id
    BY <1>1
  <1>8. u = WithRow(EnsureContact(v, e.key), key,
                    Rewritten(same, same.chat, ContactOf(v, e.key), e.key, v.at))
    <2>1. x = Rewritten(same, same.chat, ContactOf(v, e.key), e.key, v.at)
      <3> HIDE DEF same
      <3> QED
        BY <1>1, <1>5 DEF Row, RowAbout, Rewritten
    <2>2. EnsureContact(v, e.key) \in State
      BY <1>1, EnsureContactIsSure, SureFacts
    <2> HIDE DEF x
    <2>3. u = WithRow(EnsureContact(v, e.key), key, x)
      BY <1>3, <2>2 DEF State, WithRow, WithRows, Written
    <2> QED
      BY <2>1, <2>3
  <1> HIDE DEF key, same, x
  <1>9. Advances(v, u, merged)
    BY <1>1, <1>2, <1>5, <1>6, <1>7, <1>8, RowFromContactIsSure
  <1> QED
    BY <1>1, <1>9, GrowsTwice DEF Advances

LEMMA ProjectRevocationIsSure ==
  ASSUME NEW s, NEW merged, Sure(s, merged), NEW e, e.chat \in Chats,
         NEW u, u = ProjectRevocation(s, e)
  PROVE  Advances(s, u, merged)
  <1> DEFINE key == <<"message", e.chat>>
             stub == EnsureMessage(s, e.chat)
             old == stub.t.rows[key]
             x == [old EXCEPT !.deleted = TRUE, !.at = s.at]
             v == WithRows(stub, Written(stub.t.rows, key, x))
             Q == Unreacted(stub.t.reactions, stub.t.rows[key].id)
  <1>1. Sure(stub, merged) /\ Grows(s.t, stub.t) /\ stub.at = s.at /\ old \in Row
    BY EnsureMessageIsSure
  <1>2. /\ stub \in State /\ stub.t \in Tables /\ stub.t.rows \in Rows /\ key \in RowKeys
        /\ s.at \in Nat
    BY <1>1, StateOf, SureFacts, RowKeysOf
  <1>3. u = WithReactions(v, Q)
    <2>1. u = [stub EXCEPT
            !.t.rows[key] = [@ EXCEPT !.deleted = TRUE, !.at = s.at],
            !.t.reactions = Unreacted(@, stub.t.rows[key].id)]
      BY DEF ProjectRevocation
    <2> HIDE DEF stub, key
    <2> QED
      BY <1>1, <1>2, <2>1 DEF WithRows, WithReactions, State, Tables, Written
  <1>4. x \in Row /\ x.id = old.id /\ Refers(stub.t, x)
    <2>1. Refers(stub.t, old)
      BY <1>1, <1>2, RowsAreSome, ForeignKeysAre, SureFacts
    <2> HIDE DEF stub, old
    <2>2. x \in Row /\ x.id = old.id /\ x.chat = old.chat /\ x.contact = old.contact
      BY <1>1, <1>2 DEF Row, RowAbout
    <2> QED
      BY <2>1, <2>2 DEF Refers
  <1>5. stub.t.rows[key] # None => x.id = stub.t.rows[key].id
    BY <1>4
  <1>6. Q \subseteq stub.t.reactions
    BY DEF Unreacted
  <1>7. v = WithRows(stub, Written(stub.t.rows, key, x))
    OBVIOUS
  <1> HIDE DEF stub, key, x, v, Q, old
  <1>8. Sure(v, merged) /\ Grows(stub.t, v.t) /\ v.t.reactions = stub.t.reactions
    BY <1>1, <1>2, <1>4, <1>5, <1>7, RowWrittenIsSure
  <1>9. Q \in SUBSET Reaction /\ \A r \in Q : Reacts(v.t, r)
    <2>1. v.t.reactions \subseteq Reaction
      BY <1>8, SureFacts, StateOf
    <2>2. \A r \in v.t.reactions : Reacts(v.t, r)
      BY <1>8, SureFacts, ForeignKeysAre
    <2> QED
      BY <1>6, <1>8, <2>1, <2>2
  <1>10. Sure(u, merged) /\ Grows(v.t, u.t)
    BY <1>3, <1>8, <1>9, ReactionsWrittenAreSure
  <1> QED
    BY <1>1, <1>8, <1>10, GrowsTwice DEF Advances

LEMMA ProjectReactionIsSure ==
  ASSUME NEW s, NEW merged, Sure(s, merged), NEW e, e.chat \in Chats, e.key \in Keys,
         NEW u, u = ProjectReaction(s, e)
  PROVE  Advances(s, u, merged)
  <1> DEFINE key == <<"message", e.chat>>
             stub == EnsureMessage(s, e.chat)
             message == stub.t.rows[<<"message", e.chat>>].id
             byKey == {r \in stub.t.reactions : OnWhatsApp(e.chat) /\ r.key = <<e.chat, e.key>>}
             old == IF byKey # {} THEN byKey
                    ELSE {r \in stub.t.reactions : r.id = <<message, e.key>>}
             new == [id |-> <<message, e.key>>, key |-> <<e.chat, e.key>>,
                     message |-> message, contact |-> e.key, source |-> e.key, at |-> s.at]
             same == IF old # {} THEN CHOOSE r \in old : TRUE ELSE new
             x == [same EXCEPT !.contact = ContactOf(stub, e.key), !.source = e.key, !.at = s.at]
             v == EnsureContact(stub, e.key)
             Q == (v.t.reactions \ old) \cup {x}
  <1>1. /\ Sure(stub, merged) /\ Grows(s.t, stub.t) /\ stub.at = s.at
        /\ stub.t.rows[key] \in Row
    BY EnsureMessageIsSure
  <1>2. stub \in State /\ s.at \in Nat /\ stub.t.reactions \subseteq Reaction /\ key \in RowKeys
    BY <1>1, SureFacts, StateOf, RowKeysOf
  <1>3. message \in Chats /\ IsMessage(stub.t, message)
    <2>1. stub.t.rows[key] # None /\ key[1] = "message"
      BY <1>1, RowsAreSome
    <2>2. message \in Chats
      <3> HIDE DEF stub
      <3> QED
        BY <1>1 DEF Row, RowAbout
    <2> QED
      BY <1>2, <2>1, <2>2 DEF IsMessage
  <1>4. u = [v EXCEPT !.t.reactions = (@ \ old) \cup {x}]
    BY DEF ProjectReaction
  <1> HIDE DEF stub, message, key
  <1>5. /\ Sure(v, merged) /\ Grows(stub.t, v.t)
        /\ ContactOf(stub, e.key) \in v.t.contacts /\ ContactOf(stub, e.key) \in Ids
        /\ v.t.rows = stub.t.rows /\ v.t.reactions = stub.t.reactions
    BY <1>1, EnsureContactIsSure
  <1>6. same \in Reaction /\ IsMessage(stub.t, same.message)
    <2>1. new \in Reaction /\ new.message = message
      <3>1. e.key \in Ids
        BY DEF Ids
      <3> QED
        BY <1>2, <1>3, <3>1 DEF Reaction
    <2>2. old \subseteq stub.t.reactions
      OBVIOUS
    <2>3. \A r \in stub.t.reactions : IsMessage(stub.t, r.message)
      BY <1>1, SureFacts, ForeignKeysAre DEF Reacts
    <2> HIDE DEF new, old
    <2>4. CASE old = {}
      BY <1>3, <2>1, <2>4
    <2>5. CASE old # {}
      BY <1>2, <2>2, <2>3, <2>5
    <2> QED
      BY <2>4, <2>5
  <1> HIDE DEF same, old
  <1>7. x \in Reaction /\ x.contact = ContactOf(stub, e.key) /\ x.message = same.message
    BY <1>2, <1>5, <1>6 DEF Reaction
  <1> HIDE DEF x
  <1>8. Reacts(v.t, x)
    BY <1>5, <1>6, <1>7 DEF Reacts, IsMessage, Optional
  <1>9. Q \in SUBSET Reaction /\ \A r \in Q : Reacts(v.t, r)
    <2>1. \A r \in v.t.reactions : Reacts(v.t, r)
      BY <1>5, SureFacts, ForeignKeysAre
    <2> QED
      BY <1>2, <1>5, <1>7, <1>8, <2>1
  <1>10. u = WithReactions(v, Q)
    BY <1>4 DEF WithReactions
  <1> HIDE DEF v, Q
  <1>11. Sure(u, merged) /\ Grows(v.t, u.t)
    BY <1>5, <1>9, <1>10, ReactionsWrittenAreSure
  <1> QED
    BY <1>1, <1>5, <1>11, GrowsTwice DEF Advances

(* More contacts, and what refers to them. *)
LEMMA ContactsSeenAreSure ==
  ASSUME NEW s, NEW merged, Sure(s, merged), NEW u \in State,
         u.t.chats = s.t.chats, u.t.alias = s.t.alias, u.t.rows = s.t.rows,
         u.t.reactions = s.t.reactions,
         s.t.contacts \subseteq u.t.contacts,
         \A i \in u.t.contacts : i \in s.t.contacts \/ merged[i] = None,
         \A x \in u.t.members : x \in s.t.members \/ Refers(u.t, x),
         \A k \in Keys : u.t.sources[k] \in Optional(u.t.contacts),
         \A n \in DOMAIN u.t.phones : u.t.phones[n].contact \in Optional(u.t.contacts),
         u.c.chats = s.c.chats, u.c.merged = s.c.merged,
         \A k \in Keys : u.c.sources[k] = s.c.sources[k] \/ Found(u.t, merged, u.c.sources[k]),
         u.c.phone = s.c.phone \/ Found(u.t, merged, u.c.phone)
  PROVE  Advances(s, u, merged)
  <1>1. s \in State /\ s.t \in Tables /\ u.t.contacts \subseteq Ids
    BY SureFacts, StateOf
  <1>2. Grows(s.t, u.t)
    BY DEF Grows
  <1>3. \A y : Refers(s.t, y) => Refers(u.t, y)
    BY DEF Refers, ChatIds, Optional
  <1>4. \A y : Reacts(s.t, y) => Reacts(u.t, y)
    BY DEF Reacts, IsMessage, Optional
  <1>5. ForeignKeysHold(u.t)
    <2>1. /\ \A j \in RowKeys : s.t.rows[j] = None \/ Refers(s.t, s.t.rows[j])
          /\ \A y \in s.t.members : Refers(s.t, y)
          /\ \A r \in s.t.reactions : Reacts(s.t, r)
      BY ForeignKeysAre, SureFacts
    <2>2. \A j \in RowKeys : u.t.rows[j] = None \/ Refers(u.t, u.t.rows[j])
      BY <1>3, <2>1
    <2>3. \A y \in u.t.members : Refers(u.t, y)
      BY <1>3, <2>1
    <2>4. \A r \in u.t.reactions : Reacts(u.t, r)
      BY <1>4, <2>1
    <2> QED
      BY <1>1, <2>2, <2>3, <2>4, ForeignKeysAre
  <1>6. Firm(u.t, merged)
    BY <1>5, SureFacts DEF Firm
  <1>7. \A x : Found(s.t, merged, x) => Found(u.t, merged, x)
    BY DEF Found
  <1>8. Knows(u.t, u.c, merged)
    BY <1>7, SureFacts DEF Knows
  <1> QED
    BY <1>2, <1>6, <1>8 DEF Advances, Sure

LEMMA ObserveContactIsSure ==
  ASSUME NEW s, NEW merged, Sure(s, merged), NEW e, e.key \in Keys, e.phone \in BOOLEAN,
         NEW u, u = ObserveContact(s, e)
  PROVE  Advances(s, u, merged)
  <1> DEFINE byNumber == SeenByNumber(s.t)
             found == IF s.c.sources[e.key] # None THEN s.c.sources[e.key]
                      ELSE IF ~e.phone THEN e.key
                      ELSE IF s.c.phone # None THEN s.c.phone
                      ELSE IF byNumber # None THEN byNumber ELSE Phone
             contact == Canonical(s.c.merged, found)
             cs == [s.c.sources EXCEPT ![e.key] = contact]
             cp == IF e.phone THEN contact ELSE s.c.phone
             tc == s.t.contacts \cup {contact}
             ts == [s.t.sources EXCEPT ![e.key] = contact]
             tp == IF e.phone THEN AddPhone(s.t.phones, contact, e.key) ELSE s.t.phones
             C == [s.c EXCEPT !.sources = cs, !.phone = cp]
             T == [s.t EXCEPT !.contacts = tc, !.sources = ts, !.phones = tp]
  <1>1. /\ s = [t |-> s.t, c |-> s.c, at |-> s.at]
        /\ s.t \in Tables /\ s.c \in Cache /\ s.at \in Nat
        /\ s.t.contacts \subseteq Ids /\ s.t.sources \in [Keys -> Optional(Ids)]
        /\ s.t.phones \in Seq(Handle)
        /\ s.c.merged \in Merges /\ s.c.sources \in [Keys -> Optional(Ids)]
        /\ s.c.phone \in Optional(Ids) /\ s.c.merged = merged
    BY StateOf, SureFacts
  <1>2. found \in Ids
    <2>1. byNumber \in Optional(Ids)
      BY <1>1, NumberIsSeen
    <2> HIDE DEF byNumber
    <2> QED
      BY <1>1, <2>1 DEF Optional, Ids
  <1>3. u = [s EXCEPT !.c.sources[e.key] = contact,
                 !.c.phone = IF e.phone THEN contact ELSE @,
                 !.t.contacts = @ \cup {contact},
                 !.t.sources[e.key] = contact,
                 !.t.phones = IF e.phone THEN AddPhone(@, contact, e.key) ELSE @]
    BY DEF ObserveContact
  <1>4. contact \in Ids /\ merged[contact] = None
    <2> HIDE DEF found
    <2> QED
      BY <1>1, <1>2, ChainsEnd, SureFacts
  <1> HIDE DEF contact, found
  <1>5. Canonical(merged, contact) = contact
    BY <1>4, ChainsEnd, SureFacts
  <1>6. u = [s EXCEPT !.c = C, !.t = T]
    <2>1. u = [s EXCEPT !.c.sources = cs, !.c.phone = cp, !.t.contacts = tc,
                        !.t.sources = ts, !.t.phones = tp]
      BY <1>1, <1>3 DEF State, Tables, Cache
    <2> HIDE DEF cs, cp, tc, ts, tp
    <2> QED
      BY <1>1, <2>1 DEF State, Tables, Cache
  <1>7. /\ cs \in [Keys -> Optional(Ids)] /\ cp \in Optional(Ids) /\ tc \subseteq Ids
        /\ ts \in [Keys -> Optional(Ids)] /\ tp \in Seq(Handle)
    <2>1. cs \in [Keys -> Optional(Ids)] /\ ts \in [Keys -> Optional(Ids)]
      BY <1>1, <1>4 DEF Optional
    <2>2. cp \in Optional(Ids) /\ tc \subseteq Ids
      BY <1>1, <1>4 DEF Optional
    <2>3. tp \in Seq(Handle)
      BY <1>1, <1>4, AddPhoneType
    <2> QED
      BY <2>1, <2>2, <2>3
  <1>8. /\ s.t.contacts \subseteq tc /\ contact \in tc
        /\ \A i \in tc : i \in s.t.contacts \/ merged[i] = None
        /\ \A k \in Keys : cs[k] = s.c.sources[k] \/ cs[k] = contact
        /\ cp = s.c.phone \/ cp = contact
        /\ \A k \in Keys : ts[k] = s.t.sources[k] \/ ts[k] = contact
    BY <1>1, <1>4
  <1>9. \A n \in DOMAIN tp : tp[n].contact \in Optional(tc)
    <2>1. \A n \in DOMAIN s.t.phones : s.t.phones[n].contact \in Optional(tc)
      BY ForeignKeysAre, SureFacts DEF Optional
    <2> DEFINE x == [id |-> contact, contact |-> contact]
    <2>2. x.contact \in Optional(tc) /\ x \in Handle
      BY <1>4 DEF Optional, Handle
    <2>3. tp = s.t.phones \/ tp = Append(s.t.phones, x)
      BY DEF AddPhone
    <2> HIDE DEF tp, x, tc
    <2>4. CASE tp = Append(s.t.phones, x)
      <3>1. /\ DOMAIN tp = 1..(Len(s.t.phones) + 1) /\ Len(s.t.phones) \in Nat
            /\ tp[Len(s.t.phones) + 1] = x
            /\ DOMAIN s.t.phones = 1..Len(s.t.phones)
            /\ \A n \in 1..Len(s.t.phones) : tp[n] = s.t.phones[n]
        BY <1>1, <2>2, <2>4
      <3>2. \A n \in 1..(Len(s.t.phones) + 1) :
               n \in 1..Len(s.t.phones) \/ n = Len(s.t.phones) + 1
        BY <3>1
      <3> QED
        BY <2>1, <2>2, <3>1, <3>2
    <2> QED
      BY <2>1, <2>3, <2>4
  <1>10. \A k \in Keys : ts[k] \in Optional(tc)
    <2>1. \A k \in Keys : s.t.sources[k] \in Optional(s.t.contacts)
      BY ForeignKeysAre, SureFacts
    <2> QED
      BY <1>8, <2>1 DEF Optional
  <1> HIDE DEF cs, cp, tc, ts, tp
  <1>11. /\ T \in Tables /\ C \in Cache
         /\ T.contacts = tc /\ T.alias = s.t.alias /\ T.rows = s.t.rows
         /\ T.reactions = s.t.reactions /\ T.chats = s.t.chats /\ T.members = s.t.members
         /\ T.sources = ts /\ T.phones = tp
         /\ C.merged = s.c.merged /\ C.chats = s.c.chats /\ C.sources = cs /\ C.phone = cp
    BY <1>1, <1>7 DEF Tables, Cache, Handle
  <1> HIDE DEF T, C
  <1>12. u \in State /\ u.t = T /\ u.c = C
    BY <1>1, <1>6, <1>11 DEF State
  <1>13. Found(T, merged, contact)
    BY <1>4, <1>5, <1>8, <1>11 DEF Found
  <1> QED
    BY <1>8, <1>9, <1>10, <1>11, <1>12, <1>13, ContactsSeenAreSure

LEMMA ObserveConversationIsSure ==
  ASSUME NEW s, NEW merged, Sure(s, merged), NEW e, e.chat \in Chats, e.members \subseteq Keys,
         NEW u, u = ObserveConversation(s, e)
  PROVE  Advances(s, u, merged)
  <1> DEFINE v == EnsureChat(s, e.chat)
             New(k) == [chat |-> ChatOf(v, e.chat), contact |-> ContactOf(v, k), source |-> k]
             cs == [k \in Keys |-> IF k \in e.members THEN ContactOf(v, k) ELSE v.c.sources[k]]
             tc == v.t.contacts
                     \cup {ContactOf(v, k) : k \in {x \in e.members : Known(v, x) = None}}
             tm == v.t.members \cup {New(k) : k \in e.members}
             C == [v.c EXCEPT !.sources = cs]
             T == [v.t EXCEPT !.contacts = tc, !.members = tm]
  <1>1. /\ Sure(v, merged) /\ Grows(s.t, v.t) /\ ChatOf(v, e.chat) \in ChatIds(v.t)
    BY EnsureChatIsSure
  <1> HIDE DEF v
  <1>2. /\ v = [t |-> v.t, c |-> v.c, at |-> v.at]
        /\ v.t \in Tables /\ v.c \in Cache /\ v.at \in Nat
        /\ v.t.contacts \subseteq Ids /\ v.t.members \subseteq Member
        /\ v.c.sources \in [Keys -> Optional(Ids)] /\ v \in State
    BY <1>1, StateOf, SureFacts
  <1>3. u = [v EXCEPT
        !.c.sources = [k \in Keys |-> IF k \in e.members THEN ContactOf(v, k) ELSE @[k]],
        !.t.contacts = @ \cup {ContactOf(v, k) : k \in {x \in e.members : Known(v, x) = None}},
        !.t.members = @ \cup {New(k) : k \in e.members}]
    BY DEF ObserveConversation, AddMembers, v
  <1>4. u = [v EXCEPT !.c = C, !.t = T]
    <2>1. u = [v EXCEPT !.c.sources = cs, !.t.contacts = tc, !.t.members = tm]
      BY <1>2, <1>3 DEF State, Tables, Cache
    <2> HIDE DEF cs, tc, tm
    <2> QED
      BY <1>2, <2>1 DEF State, Tables, Cache
  <1>5. \A k \in e.members : ContactOf(v, k) \in Ids /\ merged[ContactOf(v, k)] = None
    BY <1>1, KnownIsFound
  <1>6. \A k \in e.members : ContactOf(v, k) \in tc
    <2> TAKE k \in e.members
    <2>1. CASE Known(v, k) = None
      BY <2>1
    <2>2. CASE Known(v, k) # None
      <3>1. ContactOf(v, k) = Known(v, k)
        BY <2>2 DEF ContactOf
      <3> QED
        BY <1>1, <2>2, <3>1, KnownIsFound
    <2> QED
      BY <2>1, <2>2
  <1>7. ChatOf(v, e.chat) \in Chats
    BY <1>2, EnsureChatMakes
  <1>8. /\ v.t.contacts \subseteq tc /\ tc \subseteq Ids
        /\ \A i \in tc : i \in v.t.contacts \/ merged[i] = None
    BY <1>2, <1>5
  <1>9. \A k \in Keys : \/ cs[k] = v.c.sources[k]
                        \/ cs[k] \in tc /\ cs[k] \in Ids /\ merged[cs[k]] = None
    <2> HIDE DEF tc
    <2> QED
      BY <1>5, <1>6
  <1>10. /\ cs \in [Keys -> Optional(Ids)] /\ tm \subseteq Member
         /\ \A x \in tm : x \in v.t.members \/
                (x.chat \in ChatIds(v.t) /\ x.contact \in Optional(tc))
    <2>1. cs \in [Keys -> Optional(Ids)]
      BY <1>2, <1>5 DEF Optional
    <2>2. \A k \in e.members : New(k) \in Member /\ New(k).chat \in ChatIds(v.t)
                               /\ New(k).contact \in Optional(tc)
      <3> HIDE DEF tc
      <3> QED
        BY <1>1, <1>5, <1>6, <1>7 DEF Member, Optional
    <2> HIDE DEF New, tc
    <2> QED
      BY <1>2, <2>1, <2>2
  <1> HIDE DEF cs, tc, tm
  <1>11. /\ T \in Tables /\ C \in Cache
         /\ T.contacts = tc /\ T.alias = v.t.alias /\ T.rows = v.t.rows
         /\ T.reactions = v.t.reactions /\ T.chats = v.t.chats /\ T.members = tm
         /\ T.sources = v.t.sources /\ T.phones = v.t.phones
         /\ C.merged = v.c.merged /\ C.chats = v.c.chats /\ C.sources = cs
         /\ C.phone = v.c.phone
    BY <1>2, <1>8, <1>10 DEF Tables, Cache, Member
  <1> HIDE DEF T, C
  <1>12. u \in State /\ u.t = T /\ u.c = C
    BY <1>2, <1>4, <1>11 DEF State
  <1>13. \A x \in tm : x \in v.t.members \/ Refers(T, x)
    BY <1>10, <1>11 DEF Refers, ChatIds
  <1>14. \A k \in Keys : cs[k] = v.c.sources[k] \/ Found(T, merged, cs[k])
    <2>1. \A i \in Ids : merged[i] = None => Canonical(merged, i) = i
      BY <1>1, ChainsEnd, SureFacts
    <2> QED
      BY <1>9, <1>11, <2>1 DEF Found
  <1>15. /\ \A k \in Keys : T.sources[k] \in Optional(T.contacts)
         /\ \A n \in DOMAIN T.phones : T.phones[n].contact \in Optional(T.contacts)
    <2>1. /\ \A k \in Keys : v.t.sources[k] \in Optional(v.t.contacts)
          /\ \A n \in DOMAIN v.t.phones : v.t.phones[n].contact \in Optional(v.t.contacts)
      BY <1>1, ForeignKeysAre, SureFacts
    <2> QED
      BY <1>8, <1>11, <2>1 DEF Optional
  <1>16. Advances(v, u, merged)
    BY <1>1, <1>8, <1>11, <1>12, <1>13, <1>14, <1>15, ContactsSeenAreSure
  <1> QED
    BY <1>1, <1>16, GrowsTwice DEF Advances

LEMMA ProjectIsSure ==
  ASSUME NEW s, NEW merged, Sure(s, merged), NEW raw \in Event,
         raw.kind = "alias" => s.t.alias # None
  PROVE  Advances(s, Project(s, raw), merged)
  <1> DEFINE e == CanonicalEvent(s.t, raw)
             u == Project(s, raw)
  <1>1. \/ raw.kind = "alias" /\ u = ProjectAlias(s)
        \/ e.key \in Keys /\ e.phone \in BOOLEAN /\ u = ObserveContact(s, e)
        \/ e.chat \in Chats /\ e.members \subseteq Keys /\ u = ObserveConversation(s, e)
        \/ e.chat \in Chats /\ u = ProjectRevocation(s, e)
        \/ /\ e.chat \in Chats /\ e.key \in Keys
           /\ \/ u = ProjectMessage(s, e) \/ u = ProjectTimeline(s, e)
              \/ u = ProjectReaction(s, e)
    BY ProjectIs
  <1>2. CASE raw.kind = "alias" /\ u = ProjectAlias(s)
    <2>1. u = s
      BY <1>2 DEF ProjectAlias
    <2> QED
      BY <2>1 DEF Advances, Grows
  <1> HIDE DEF e, u
  <1> QED
    BY <1>1, <1>2, ObserveContactIsSure, ObserveConversationIsSure, ProjectRevocationIsSure,
       ProjectMessageIsSure, ProjectTimelineIsSure, ProjectReactionIsSure DEF u

-----------------------------------------------------------------------------
(* An alias, on tables whose references hold.                              *)

MessageIn(rows, id) ==
    \E k \in RowKeys : k[1] = "message" /\ rows[k] # None /\ rows[k].id = id

(* What an alias does to rows once contacts and conversations are in place. *)
Settles(s, u) ==
    /\ u \in State /\ ForeignKeysHold(u.t) /\ u.c = s.c
    /\ u.t.contacts = s.t.contacts /\ u.t.chats = s.t.chats /\ u.t.alias = s.t.alias

LEMMA SettlesTwice ==
  ASSUME NEW s, NEW u, NEW v, Settles(s, u), Settles(u, v)
  PROVE  Settles(s, v)
  BY DEF Settles

LEMMA RowsSettle ==
  ASSUME NEW s \in State, ForeignKeysHold(s.t), NEW R \in Rows, NEW Q \in SUBSET Reaction,
         \A k \in RowKeys : R[k] = None \/ Refers(s.t, R[k]),
         \A r \in Q : r.contact \in Optional(s.t.contacts) /\ MessageIn(R, r.message),
         NEW u, u = WithReactions(WithRows(s, R), Q)
  PROVE  Settles(s, u)
  <1> DEFINE v == WithRows(s, R)
             T == [[s.t EXCEPT !.rows = R] EXCEPT !.reactions = Q]
  <1>1. s.t \in Tables
    BY StateOf
  <1>2. v \in State
    <2>1. v = WithRows(s, R)
      OBVIOUS
    <2> HIDE DEF v
    <2> QED
      BY <2>1, StatesRows
  <1>3. v.t = [s.t EXCEPT !.rows = R] /\ v.c = s.c
    BY DEF WithRows, State
  <1>4. u = WithReactions(v, Q)
    OBVIOUS
  <1> HIDE DEF v
  <1>5. u \in State
    BY <1>2, <1>4, StatesReactions
  <1>6. u.t = T /\ u.c = s.c
    BY <1>2, <1>3, <1>4 DEF WithReactions, State
  <1>7. /\ T.rows = R /\ T.contacts = s.t.contacts /\ T.chats = s.t.chats
        /\ T.alias = s.t.alias /\ T.members = s.t.members /\ T.reactions = Q
        /\ T.sources = s.t.sources /\ T.phones = s.t.phones
    BY <1>1 DEF Tables
  <1> HIDE DEF T
  <1>8. ForeignKeysHold(T)
    <2>1. \A y : Refers(s.t, y) => Refers(T, y)
      BY <1>7 DEF Refers, ChatIds
    <2>2. \A r \in Q : Reacts(T, r)
      BY <1>7 DEF Reacts, IsMessage, MessageIn
    <2>3. /\ \A y \in s.t.members : Refers(s.t, y)
          /\ s.t.contacts \subseteq Ids
          /\ \A j \in Keys : s.t.sources[j] \in Optional(s.t.contacts)
          /\ \A n \in DOMAIN s.t.phones : s.t.phones[n].contact \in Optional(s.t.contacts)
      BY ForeignKeysAre
    <2>4. \A k \in RowKeys : T.rows[k] = None \/ Refers(T, T.rows[k])
      BY <1>7, <2>1
    <2> QED
      BY <1>7, <2>1, <2>2, <2>3, <2>4, ForeignKeysAre
  <1> QED
    BY <1>5, <1>6, <1>7, <1>8 DEF Settles

LEMMA RenameSourcesSettles ==
  ASSUME NEW s \in State, ForeignKeysHold(s.t), NEW u, u = RenameSources(s)
  PROVE  Settles(s, u)
  <1> DEFINE f(r) == IF r.source = "lid" THEN [r EXCEPT !.source = "pn"] ELSE r
             R == [k \in RowKeys |-> IF s.t.rows[k] = None THEN None ELSE f(s.t.rows[k])]
             Q == Renamed(s.t.reactions)
  <1>1. s.t \in Tables /\ s.t.rows \in Rows /\ s.t.reactions \subseteq Reaction /\ "pn" \in Keys
    BY StateOf DEF Keys
  <1>2. \A r \in Row : /\ f(r) \in Row /\ f(r).id = r.id /\ f(r).chat = r.chat
                       /\ f(r).contact = r.contact
    BY <1>1 DEF Row, RowAbout, Optional
  <1>3. \A r \in s.t.reactions : /\ f(r) \in Reaction /\ f(r).message = r.message
                                 /\ f(r).contact = r.contact
    BY <1>1 DEF Reaction
  <1>4. Q = {f(r) : r \in s.t.reactions}
    BY DEF Renamed
  <1>5. OverRows(s.t.rows, Renamed) = R
    <2>1. \A r : Renamed({r}) = {f(r)}
      BY DEF Renamed
    <2>2. \A r : (CHOOSE x \in Renamed({r}) : TRUE) = f(r)
      <3> HIDE DEF f
      <3> QED
        BY <2>1
    <2>3. OverRows(s.t.rows, Renamed) =
            [k \in DOMAIN s.t.rows |-> IF s.t.rows[k] = None THEN None
                                       ELSE CHOOSE r \in Renamed({s.t.rows[k]}) : TRUE]
      BY DEF OverRows
    <2>4. DOMAIN s.t.rows = RowKeys
      BY <1>1 DEF Rows
    <2> HIDE DEF f
    <2> QED
      BY <2>2, <2>3, <2>4
  <1> HIDE DEF f
  <1>6. \A k \in RowKeys : s.t.rows[k] = None \/ s.t.rows[k] \in Row
    BY <1>1 DEF Rows, Optional
  <1>7. R \in Rows
    BY <1>1, <1>2, <1>6 DEF Rows, Optional
  <1>8. \A k \in RowKeys : R[k] = IF s.t.rows[k] = None THEN None ELSE f(s.t.rows[k])
    OBVIOUS
  <1> HIDE DEF R
  <1>9. u = WithReactions(WithRows(s, R), Q)
    <2>1. u = [s EXCEPT !.t.rows = R, !.t.reactions = Q]
      BY <1>1, <1>5 DEF RenameSources, State, Tables
    <2> HIDE DEF Q
    <2> QED
      BY <2>1 DEF WithRows, WithReactions
  <1>10. \A k \in RowKeys : R[k] = None \/ Refers(s.t, R[k])
    BY <1>2, <1>6, <1>8, ForeignKeysAre DEF Refers
  <1>11. \A id : IsMessage(s.t, id) => MessageIn(R, id)
    <2>1. \A k \in RowKeys : s.t.rows[k] # None => R[k] # None /\ R[k].id = s.t.rows[k].id
      BY <1>2, <1>6, <1>8, RowsAreSome
    <2> QED
      BY <2>1 DEF IsMessage, MessageIn
  <1>12. \A r \in s.t.reactions : Reacts(s.t, r)
    BY ForeignKeysAre
  <1>13. Q \in SUBSET Reaction
         /\ \A r \in Q : r.contact \in Optional(s.t.contacts) /\ MessageIn(R, r.message)
    BY <1>3, <1>4, <1>11, <1>12 DEF Reacts
  <1> HIDE DEF Q
  <1> QED
    BY <1>7, <1>9, <1>10, <1>13, RowsSettle

LEMMA MoveRowSettles ==
  ASSUME NEW s \in State, ForeignKeysHold(s.t), NEW kind \in {"message", "timeline"},
         NEW u, u = MoveRow(s, kind)
  PROVE  Settles(s, u)
  <1> DEFINE lid == <<kind, "lid">>
             pn == <<kind, "pn">>
             from == s.t.rows[lid]
             into == s.t.rows[pn]
             stays == Staying(s.t.rows, kind)
             R == RowsMoved(s.t.rows, kind)
             Q == ReactionsMoved(s.t, kind)
  <1>1. /\ s.t \in Tables /\ s.t.rows \in Rows /\ lid \in RowKeys /\ pn \in RowKeys
        /\ lid # pn /\ s.t.reactions \subseteq Reaction
    <2>1. "lid" \in Chats /\ "pn" \in Chats
      BY DEF Chats
    <2> QED
      BY <2>1, StateOf DEF RowKeys
  <1>2. CASE from = None
    <2>1. u = s
      BY <1>2 DEF MoveRow
    <2> QED
      BY <2>1 DEF Settles
  <1>3. CASE from # None
    <2>1. from \in Row /\ Refers(s.t, from)
          /\ (into # None => into \in Row /\ Refers(s.t, into))
      <3>1. \A k \in RowKeys : s.t.rows[k] = None \/
               (s.t.rows[k] \in Row /\ Refers(s.t, s.t.rows[k]))
        <4> HIDE DEF from, into
        <4> QED
          BY <1>1, ForeignKeysAre DEF Rows, Optional
      <3> HIDE DEF lid, pn
      <3> QED
        BY <1>1, <1>3, <3>1
    <2>2. /\ stays \in Row /\ Refers(s.t, stays)
          /\ into # None => stays.id = into.id
          /\ into = None => stays.id = from.id
      <3>a. stays = IF into = None THEN from
                    ELSE IF kind = "message"
                         THEN Merged([from EXCEPT !.chat = into.chat], into)
                    ELSE Merged(from, into)
        BY DEF Staying
      <3> HIDE DEF from, into, stays
      <3>1. CASE into = None
        BY <2>1, <3>1, <3>a
      <3>2. CASE into # None
        <4>1. \A x \in Row, y \in Row :
                 /\ Merged(x, y) \in Row /\ Merged(x, y).id = y.id
                 /\ \/ Merged(x, y).chat = x.chat /\ Merged(x, y).contact = x.contact
                    \/ Merged(x, y).chat = y.chat /\ Merged(x, y).contact = y.contact
          <5> TAKE x \in Row, y \in Row
          <5> DEFINE z == IF x.at > y.at THEN x ELSE y
                     d == x.deleted \/ y.deleted
          <5>1. Merged(x, y) = [z EXCEPT !.id = y.id, !.deleted = d]
            BY DEF Merged
          <5>2. z \in Row /\ (z = x \/ z = y) /\ d \in BOOLEAN /\ y.id \in Chats
            BY DEF Row, RowAbout
          <5> HIDE DEF z, d
          <5>3. /\ Merged(x, y) \in Row /\ Merged(x, y).id = y.id
                /\ Merged(x, y).chat = z.chat /\ Merged(x, y).contact = z.contact
            BY <5>1, <5>2 DEF Row, RowAbout
          <5> QED
            BY <5>2, <5>3
        <4>2. /\ [from EXCEPT !.chat = into.chat] \in Row
              /\ [from EXCEPT !.chat = into.chat].chat = into.chat
              /\ [from EXCEPT !.chat = into.chat].contact = from.contact
          BY <2>1, <3>2 DEF Row, RowAbout
        <4>3. \A x \in Row, y \in Row :
                 Refers(s.t, x) /\ Refers(s.t, y) => Refers(s.t, Merged(x, y))
          BY <4>1 DEF Refers
        <4>4. Refers(s.t, [from EXCEPT !.chat = into.chat])
          BY <2>1, <3>2, <4>2 DEF Refers
        <4> QED
          BY <2>1, <3>2, <3>a, <4>1, <4>2, <4>3, <4>4
      <3> QED
        BY <3>1, <3>2
    <2>3. u = WithReactions(WithRows(s, R), Q)
      BY <1>3, MoveRowIs
    <2>4. R = [[s.t.rows EXCEPT ![lid] = None] EXCEPT ![pn] = stays]
          /\ Q = IF kind # "message" THEN s.t.reactions
                 ELSE {Following(r, from.id, stays.id) : r \in s.t.reactions}
      BY DEF RowsMoved, ReactionsMoved
    <2> HIDE DEF stays, R, Q
    <2>5. R \in Rows
      BY <1>1, <2>2, <2>4 DEF Rows, Optional
    <2>6. \A k \in RowKeys : R[k] = IF k = pn THEN stays ELSE IF k = lid THEN None ELSE s.t.rows[k]
      BY <1>1, <2>4 DEF Rows
    <2>7. \A k \in RowKeys : R[k] = None \/ Refers(s.t, R[k])
      BY <2>2, <2>6, ForeignKeysAre
    <2>8. /\ \A r \in s.t.reactions : Reacts(s.t, r)
          /\ \A id : IsMessage(s.t, id) <=> MessageIn(s.t.rows, id)
      BY ForeignKeysAre DEF IsMessage, MessageIn
    <2>9. pn[1] = kind /\ lid[1] = kind
      OBVIOUS
    <2>10. stays # None
      BY <2>2, RowsAreSome
    <2>11. \A id : MessageIn(s.t.rows, id) =>
              MessageIn(R, IF kind = "message" /\ id = from.id THEN stays.id ELSE id)
      <3> SUFFICES ASSUME NEW id, MessageIn(s.t.rows, id)
                   PROVE MessageIn(R, IF kind = "message" /\ id = from.id THEN stays.id ELSE id)
        OBVIOUS
      <3>1. PICK k \in RowKeys : k[1] = "message" /\ s.t.rows[k] # None /\ s.t.rows[k].id = id
        BY DEF MessageIn
      <3>2. CASE kind = "message" /\ id = from.id
        <4>1. R[pn] = stays /\ pn[1] = "message"
          BY <1>1, <2>6, <2>9, <3>2
        <4> HIDE DEF pn
        <4> QED
          BY <1>1, <2>10, <3>2, <4>1 DEF MessageIn
      <3>3. CASE ~(kind = "message" /\ id = from.id)
        <4>1. k # lid
          BY <2>9, <3>1, <3>3
        <4>2. R[k] # None /\ R[k].id = id
          <5>1. CASE k = pn
            BY <2>2, <2>6, <2>10, <3>1, <5>1
          <5>2. CASE k # pn
            BY <2>6, <3>1, <4>1, <5>2
          <5> QED
            BY <5>1, <5>2
        <4> QED
          BY <3>1, <3>3, <4>2 DEF MessageIn
      <3> QED
        BY <3>2, <3>3
    <2> HIDE DEF lid, pn, from, into
    <2>12. Q \in SUBSET Reaction
           /\ \A r \in Q : r.contact \in Optional(s.t.contacts) /\ MessageIn(R, r.message)
      <3>1. CASE kind # "message"
        BY <1>1, <2>4, <2>8, <2>11, <3>1 DEF Reacts
      <3>2. CASE kind = "message"
        <4>1. stays.id \in Chats
          BY <2>2 DEF Row, RowAbout
        <4>2. \A r \in s.t.reactions :
                 LET x == Following(r, from.id, stays.id)
                 IN /\ x \in Reaction /\ x.contact = r.contact
                    /\ x.message = IF r.message = from.id THEN stays.id ELSE r.message
          BY <1>1, <4>1 DEF Following, Reaction
        <4>3. \A r \in s.t.reactions :
                 LET x == Following(r, from.id, stays.id)
                 IN /\ x \in Reaction /\ x.contact \in Optional(s.t.contacts)
                    /\ MessageIn(R, x.message)
          BY <2>8, <2>11, <3>2, <4>2 DEF Reacts
        <4> QED
          BY <2>4, <3>2, <4>3
      <3> QED
        BY <3>1, <3>2
    <2> QED
      BY <2>3, <2>5, <2>7, <2>12, RowsSettle
  <1> QED
    BY <1>2, <1>3

(* A reaction that is moved, or the one it is merged with, is about the     *)
(* message that it was about.                                               *)
LEMMA MoveReactionOf ==
  ASSUME NEW r \in Reaction, NEW Q \in SUBSET Reaction, NEW x \in MoveReaction(r, Q)
  PROVE  \E y \in Q \cup {r} : x.contact = y.contact /\ x.message = y.message
  <1> DEFINE key == <<IF r.key[1] = "lid" THEN "pn" ELSE r.key[1], r.source>>
             same == {y \in Q \ {r} : y.key = key}
             into == CHOOSE y \in same : TRUE
             newer == IF r.at > into.at THEN [r EXCEPT !.id = into.id, !.key = key] ELSE into
             moved == [r EXCEPT !.key = key]
  <1>1. x \in IF same = {} THEN (Q \ {r}) \cup {moved} ELSE (Q \ {r, into}) \cup {newer}
    BY DEF MoveReaction
  <1> HIDE DEF key
  <1>2. moved.contact = r.contact /\ moved.message = r.message
    BY DEF Reaction
  <1>3. same # {} => into \in Q
    OBVIOUS
  <1> HIDE DEF same, into
  <1>4. (newer.contact = r.contact /\ newer.message = r.message) \/ newer = into
    BY DEF Reaction
  <1> HIDE DEF newer, moved
  <1> QED
    BY <1>1, <1>2, <1>3, <1>4

LEMMA MoveReactionsSettles ==
  ASSUME NEW s \in State, s.t.reactions \in Reactions, ForeignKeysHold(s.t),
         NEW u, u = MoveReactions(s)
  PROVE  Settles(s, u)
  <1> DEFINE Q == FoldSet(MoveReaction, s.t.reactions, Former(s.t.reactions))
             Good(r) == r.contact \in Optional(s.t.contacts) /\ MessageIn(s.t.rows, r.message)
             V == {q \in Reactions : \A r \in q : Good(r)}
  <1>1. u = WithReactions(s, Q)
    BY DEF MoveReactions, WithReactions
  <1>2. s.t \in Tables /\ s.t.rows \in Rows
    BY StateOf
  <1>3. s.t.reactions \in V
    <2>1. \A r \in s.t.reactions : Good(r)
      BY ForeignKeysAre DEF Reacts, IsMessage, MessageIn
    <2> QED
      BY <2>1
  <1>4. \A r \in s.t.reactions, U \in V : MoveReaction(r, U) \in V
    <2> TAKE r \in s.t.reactions, U \in V
    <2>1. Good(r) /\ r \in Reaction /\ U \in Reactions /\ U \in SUBSET Reaction
          /\ \A y \in U : Good(y)
      BY <1>3 DEF Reactions
    <2>2. MoveReaction(r, U) \in Reactions
      BY <2>1, MoveReactionType
    <2>3. \A x \in MoveReaction(r, U) : Good(x)
      <3> TAKE x \in MoveReaction(r, U)
      <3>1. PICK y \in U \cup {r} : x.contact = y.contact /\ x.message = y.message
        BY <2>1, MoveReactionOf
      <3> QED
        BY <2>1, <3>1
    <2> HIDE DEF Good
    <2> QED
      BY <2>2, <2>3
  <1>5. V \in SUBSET Reactions
    OBVIOUS
  <1> HIDE DEF V
  <1>6. Q \in V
    BY <1>3, <1>4, <1>5, MovedReactionsIn
  <1> HIDE DEF Q
  <1>7. Q \in SUBSET Reaction /\ \A r \in Q : Good(r)
    BY <1>6 DEF V, Reactions
  <1>8. WithRows(s, s.t.rows) = s
    BY <1>2 DEF WithRows, State, Tables
  <1>9. \A k \in RowKeys : s.t.rows[k] = None \/ Refers(s.t, s.t.rows[k])
    BY ForeignKeysAre
  <1> QED
    BY <1>1, <1>2, <1>7, <1>8, <1>9, RowsSettle

LEMMA ChainOfOne ==
  ASSUME NEW merged \in Merges, NEW x \in Ids, NEW y \in Ids, merged[x] = y, merged[y] = None
  PROVE  Canonical(merged, x) = y
  <1>a. PICK f \in [Nat -> Ids] :
            /\ f[0] = x
            /\ \A n \in Nat : f[n + 1] = IF merged[f[n]] = None THEN f[n] ELSE merged[f[n]]
            /\ Canonical(merged, x) =
                  IF merged[x] = None THEN x
                  ELSE IF merged[f[Cardinality(Ids)]] = None THEN f[Cardinality(Ids)]
                  ELSE Endless
    BY ChainOf
  <1>1. /\ f[0] = x
        /\ \A n \in Nat : f[n + 1] = IF merged[f[n]] = None THEN f[n] ELSE merged[f[n]]
        /\ Canonical(merged, x) = IF merged[x] = None THEN x
                                  ELSE IF merged[f[5]] = None THEN f[5] ELSE Endless
    BY <1>a, IdsAreFive, Zenon
  <1>2. f[5] = y
    <2> DEFINE Leads(n, k) == f[k] = IF merged[f[n]] = None THEN f[n] ELSE merged[f[n]]
    <2>1. \A n, k \in Nat : k = n + 1 => Leads(n, k)
      BY <1>1
    <2> HIDE DEF Leads
    <2>2. Leads(0, 1) /\ Leads(1, 2) /\ Leads(2, 3) /\ Leads(3, 4) /\ Leads(4, 5)
      BY <2>1
    <2>3. f[1] = y
      BY <1>1, <2>2, NoneIsNone DEF Leads
    <2> QED
      BY <2>2, <2>3 DEF Leads
  <1> QED
    BY <1>1, <1>2, NoneIsNone

(* A row, member or reaction of a contact that is moved. *)
Taken(x, old, new, shared) ==
    IF old \notin {None, new} /\ x.contact = old /\ (shared => x.source = "lid")
    THEN [x EXCEPT !.contact = new] ELSE x
RowsTaken(rows, old, new, shared) ==
    [k \in DOMAIN rows |-> IF rows[k] = None THEN None ELSE Taken(rows[k], old, new, shared)]

ContactsTaken(t, old, new, shared) ==
    (IF shared THEN t.contacts \cup {new} ELSE t.contacts) \
    (IF old \notin {None, new} /\ ~shared THEN {old} ELSE {})
SourcesTaken(t, old, new, shared) ==
    [k \in Keys |->
        IF k = "pn" /\ t.sources[k] = None THEN new
        ELSE IF old \notin {None, new} /\ t.sources[k] = old /\ (shared => k = "lid")
             THEN new ELSE t.sources[k]]
PhonesTaken(t, old, new, shared) ==
    IF ~(old \notin {None, new}) \/ shared THEN t.phones
    ELSE [n \in DOMAIN t.phones |->
            IF t.phones[n].contact = old
            THEN [t.phones[n] EXCEPT !.contact = new] ELSE t.phones[n]]
MemberTaken(x, old, new, shared) ==
    IF old \notin {None, new}
    THEN IF x.contact = old /\ (shared => x.source = "lid")
         THEN [x EXCEPT !.contact = new, !.source = IF @ = "lid" THEN "pn" ELSE @]
         ELSE x
    ELSE IF x.contact = old /\ x.source = "lid" THEN [x EXCEPT !.source = "pn"] ELSE x

(* The tables v after a contact of t was moved. *)
After(t, v, old, new, shared) ==
    /\ v.alias = [former |-> IF shared THEN None ELSE old, canonical |-> new]
    /\ v.contacts = ContactsTaken(t, old, new, shared)
    /\ v.sources = SourcesTaken(t, old, new, shared)
    /\ v.phones = PhonesTaken(t, old, new, shared)
    /\ v.members = {MemberTaken(x, old, new, shared) : x \in t.members}
    /\ v.rows = RowsTaken(t.rows, old, new, shared)
    /\ v.reactions = {Taken(x, old, new, shared) : x \in t.reactions}
    /\ v.chats = t.chats

LEMMA MoveInTablesIs ==
  ASSUME NEW t \in Tables, NEW old, NEW new, NEW shared \in BOOLEAN,
         NEW v, v = MoveInTables(t, old, new, shared)
  PROVE  After(t, v, old, new, shared)
  <1> DEFINE move == old \notin {None, new}
             To(S) == IF ~move THEN S ELSE IF shared THEN Apart(S, old, new) ELSE Moved(S, old, new)
             al == [former |-> IF shared THEN None ELSE old, canonical |-> new]
             tc == ContactsTaken(t, old, new, shared)
             ts == SourcesTaken(t, old, new, shared)
             tp == PhonesTaken(t, old, new, shared)
             tm == IF move
                   THEN {IF x.contact = old /\ (shared => x.source = "lid")
                         THEN [x EXCEPT !.contact = new,
                                        !.source = IF @ = "lid" THEN "pn" ELSE @]
                         ELSE x : x \in t.members}
                   ELSE {IF x.contact = old /\ x.source = "lid"
                         THEN [x EXCEPT !.source = "pn"] ELSE x : x \in t.members}
             f(x) == CHOOSE r \in To({x}) : TRUE
             tr == [k \in DOMAIN t.rows |-> IF t.rows[k] = None THEN None ELSE f(t.rows[k])]
             tq == To(t.reactions)
  <1>1. v = [t EXCEPT !.alias = al, !.contacts = tc, !.sources = ts, !.phones = tp,
                      !.members = tm, !.rows = tr, !.reactions = tq]
    BY DEF MoveInTables, OverRows, ContactsTaken, SourcesTaken, PhonesTaken
  <1>2. \A S : To(S) = {Taken(x, old, new, shared) : x \in S}
    BY DEF Taken, Apart, Moved
  <1>3. tq = {Taken(x, old, new, shared) : x \in t.reactions}
    BY <1>2
  <1>4. tr = RowsTaken(t.rows, old, new, shared)
    <2> HIDE DEF To
    <2>1. \A x : f(x) = Taken(x, old, new, shared)
      <3>1. \A x : To({x}) = {Taken(x, old, new, shared)}
        BY <1>2
      <3> QED
        BY <3>1
    <2> HIDE DEF f
    <2> QED
      BY <2>1 DEF RowsTaken
  <1> HIDE DEF al, tc, ts, tp, tm, tr, tq
  <1>5. /\ v.alias = al /\ v.contacts = tc /\ v.sources = ts /\ v.phones = tp
        /\ v.members = tm /\ v.rows = tr /\ v.reactions = tq /\ v.chats = t.chats
    BY <1>1 DEF Tables
  <1>6. tm = {MemberTaken(x, old, new, shared) : x \in t.members}
    BY DEF MemberTaken, tm
  <1> QED
    BY <1>3, <1>4, <1>5, <1>6 DEF After, al, tc, ts, tp

(* What refers to contacts refers to them after one was moved. *)
LEMMA ContactsMovedHold ==
  ASSUME NEW t \in Tables, ForeignKeysHold(t), NEW old, NEW new \in Ids,
         NEW shared \in BOOLEAN, new \in t.contacts \/ shared,
         NEW v, After(t, v, old, new, shared)
  PROVE  ForeignKeysHold(v)
  <1> DEFINE gone == old \notin {None, new} /\ ~shared
  <1>1. /\ v.contacts = ContactsTaken(t, old, new, shared)
        /\ v.sources = SourcesTaken(t, old, new, shared)
        /\ v.phones = PhonesTaken(t, old, new, shared)
        /\ v.members = {MemberTaken(x, old, new, shared) : x \in t.members}
        /\ v.rows = RowsTaken(t.rows, old, new, shared)
        /\ v.reactions = {Taken(x, old, new, shared) : x \in t.reactions}
        /\ v.chats = t.chats
    BY DEF After
  <1>2. /\ t.rows \in Rows /\ t.members \subseteq Member /\ t.reactions \subseteq Reaction
        /\ t.phones \in Seq(Handle) /\ t.contacts \subseteq Ids /\ DOMAIN t.rows = RowKeys
    BY DEF Tables, Rows, Member, Reaction, Handle
  <1>3. /\ v.contacts \subseteq Ids /\ new \in v.contacts
        /\ \A i \in Optional(t.contacts) : i \in Optional(v.contacts) \/ (gone /\ i = old)
    BY <1>1, <1>2 DEF Optional, ContactsTaken
  <1>4. /\ \A k \in RowKeys : t.rows[k] = None \/ Refers(t, t.rows[k])
        /\ \A x \in t.members : Refers(t, x)
        /\ \A r \in t.reactions : Reacts(t, r)
        /\ \A k \in Keys : t.sources[k] \in Optional(t.contacts)
        /\ \A n \in DOMAIN t.phones : t.phones[n].contact \in Optional(t.contacts)
    BY ForeignKeysAre
  <1>5. \A k \in Keys : v.sources[k] \in Optional(v.contacts)
    <2> TAKE k \in Keys
    <2>1. v.sources[k] = new \/ (v.sources[k] = t.sources[k] /\ ~(gone /\ t.sources[k] = old))
      BY <1>1 DEF SourcesTaken
    <2> HIDE DEF gone
    <2> QED
      BY <1>3, <1>4, <2>1 DEF Optional
  <1>6. \A n \in DOMAIN v.phones : v.phones[n].contact \in Optional(v.contacts)
    <2>1. CASE ~gone
      <3>1. v.phones = t.phones
        BY <1>1, <2>1 DEF PhonesTaken
      <3> QED
        BY <1>3, <1>4, <2>1, <3>1
    <2>2. CASE gone
      <3>1. v.phones = [n \in DOMAIN t.phones |->
                          IF t.phones[n].contact = old
                          THEN [t.phones[n] EXCEPT !.contact = new] ELSE t.phones[n]]
        BY <1>1, <2>2 DEF PhonesTaken
      <3>2. \A n \in DOMAIN t.phones : t.phones[n] \in Handle
        BY <1>2
      <3> HIDE DEF gone
      <3>3. ASSUME NEW n \in DOMAIN t.phones PROVE v.phones[n].contact \in Optional(v.contacts)
        <4> DEFINE p == t.phones[n]
        <4>1. v.phones[n] = IF p.contact = old THEN [p EXCEPT !.contact = new] ELSE p
          BY <3>1
        <4>2. p \in Handle /\ p.contact \in Optional(t.contacts)
          BY <1>4, <3>2
        <4> HIDE DEF p
        <4>3. [p EXCEPT !.contact = new].contact = new
          BY <4>2 DEF Handle
        <4> QED
          BY <1>3, <4>1, <4>2, <4>3 DEF Optional
      <3> QED
        BY <3>1, <3>3
    <2> QED
      BY <2>1, <2>2
  <1>7. ChatIds(v) = ChatIds(t)
    BY <1>1 DEF ChatIds
  <1>8. \A x \in v.members : Refers(v, x)
    <2> SUFFICES ASSUME NEW x \in v.members PROVE Refers(v, x)
      OBVIOUS
    <2>1. PICK y \in t.members : x = MemberTaken(y, old, new, shared)
      BY <1>1
    <2>2. y \in Member /\ Refers(t, y)
      BY <1>2, <1>4
    <2>3. /\ x.chat = y.chat
          /\ x.contact = new \/ (x.contact = y.contact /\ ~(gone /\ y.contact = old))
      BY <2>1, <2>2 DEF Member, MemberTaken
    <2> HIDE DEF gone
    <2> QED
      BY <1>3, <1>7, <2>2, <2>3 DEF Refers, Optional
  <1>9. \A k \in RowKeys : v.rows[k] = None \/ Refers(v, v.rows[k])
    <2> SUFFICES ASSUME NEW k \in RowKeys, v.rows[k] # None PROVE Refers(v, v.rows[k])
      OBVIOUS
    <2> DEFINE y == t.rows[k]
               x == v.rows[k]
    <2>1. y # None /\ x = Taken(y, old, new, shared)
      BY <1>1, <1>2 DEF RowsTaken
    <2>2. y \in Row /\ Refers(t, y)
      BY <1>2, <1>4, <2>1 DEF Rows, Optional
    <2> HIDE DEF x, y
    <2>3. /\ x.chat = y.chat
          /\ x.contact = new \/ (x.contact = y.contact /\ ~(gone /\ y.contact = old))
      BY <2>1, <2>2 DEF Row, RowAbout, Taken
    <2> HIDE DEF gone
    <2> QED
      BY <1>3, <1>7, <2>2, <2>3 DEF Refers, Optional, x
  <1>10. \A id : IsMessage(t, id) => IsMessage(v, id)
    <2> SUFFICES ASSUME NEW id, IsMessage(t, id) PROVE IsMessage(v, id)
      OBVIOUS
    <2>1. PICK k \in RowKeys : k[1] = "message" /\ t.rows[k] # None /\ t.rows[k].id = id
      BY DEF IsMessage
    <2> DEFINE y == t.rows[k]
               x == v.rows[k]
    <2>2. x = Taken(y, old, new, shared) /\ y \in Row
      BY <1>1, <1>2, <2>1 DEF RowsTaken, Rows, Optional
    <2> HIDE DEF x, y
    <2>3. x.id = y.id /\ x \in Row
      BY <2>2 DEF Row, RowAbout, Taken, Optional
    <2>4. x # None
      BY <2>3, RowsAreSome
    <2> QED
      BY <2>1, <2>3, <2>4 DEF IsMessage, x, y
  <1>11. \A r \in v.reactions : Reacts(v, r)
    <2> SUFFICES ASSUME NEW x \in v.reactions PROVE Reacts(v, x)
      OBVIOUS
    <2>1. PICK y \in t.reactions : x = Taken(y, old, new, shared)
      BY <1>1
    <2>2. y \in Reaction /\ Reacts(t, y)
      BY <1>2, <1>4, <2>1
    <2>3. /\ x.message = y.message
          /\ x.contact = new \/ (x.contact = y.contact /\ ~(gone /\ y.contact = old))
      BY <2>1, <2>2 DEF Reaction, Taken
    <2> HIDE DEF gone
    <2> QED
      BY <1>3, <1>10, <2>2, <2>3 DEF Reacts, Optional
  <1> QED
    BY <1>3, <1>5, <1>6, <1>8, <1>9, <1>11, ForeignKeysAre

(* The contact a key is found under, before there is an alias.              *)
LEMMA FindIsFound ==
  ASSUME NEW s, NEW merged, Sure(s, merged), s.t.alias = None, NEW key \in Keys
  PROVE  FindContact(s, key) # None => FindContact(s, key) \in s.t.contacts
  <1>1. s \in State /\ s.c.sources[key] \in Optional(Ids) /\ merged \in Merges /\ Loopless(merged)
    BY SureFacts, StateOf
  <1>2. CASE s.c.sources[key] # None
    <2>1. FindContact(s, key) = s.c.sources[key] /\ s.c.sources[key] \in Ids
      BY <1>1, <1>2 DEF FindContact, Optional
    <2>2. /\ Canonical(merged, s.c.sources[key]) \in s.t.contacts
          /\ merged[s.c.sources[key]] = None
      BY <1>2, SureFacts DEF Found
    <2>3. Canonical(merged, s.c.sources[key]) = s.c.sources[key]
      BY <1>1, <2>1, <2>2, ChainsEnd
    <2> QED
      BY <2>1, <2>2, <2>3
  <1>3. CASE s.c.sources[key] = None
    BY <1>3 DEF FindContact
  <1> QED
    BY <1>2, <1>3

(* What is merged once one contact was given both keys. *)
MergedOnce(merged, old, new, shared) ==
    IF old \in {None, new} \/ shared THEN merged ELSE [merged EXCEPT ![old] = new]

StillFound(t, merged, u, m, new) ==
    /\ \A i \in u.contacts : m[i] = None
    /\ Found(u, m, new)
    /\ \A x \in Optional(Ids) : Found(t, merged, x) => Found(u, m, x)

(* One contact is given both keys: what was found still is, unless the new  *)
(* contact had been merged into another by hand.                            *)
LEMMA MovedIsFound ==
  ASSUME NEW s, NEW merged, Sure(s, merged), s.t.alias = None,
         NEW old \in Optional(s.t.contacts), NEW new \in Ids, NEW shared \in BOOLEAN,
         new \in s.t.contacts \/ shared,
         NEW t, t.alias # None, t.contacts = ContactsTaken(s.t, old, new, shared),
         merged[new] = None
  PROVE  StillFound(s.t, merged, t, MergedOnce(merged, old, new, shared), new)
  <1> DEFINE m == MergedOnce(merged, old, new, shared)
             gone == old \notin {None, new} /\ ~shared
  <1>1. /\ s \in State /\ s.t.contacts \subseteq Ids /\ merged \in Merges /\ Loopless(merged)
        /\ \A i \in s.t.contacts : merged[i] = None
    BY SureFacts, StateOf
  <1>2. gone => old \in Ids /\ new \in s.t.contacts
    BY <1>1 DEF Optional
  <1>3. m = IF gone THEN [merged EXCEPT ![old] = new] ELSE merged
    BY DEF MergedOnce
  <1> HIDE DEF m
  <1>4. m \in Merges /\ Loopless(m)
    <2>1. CASE gone
      <3>1. old \in Ids /\ old # new /\ m = [merged EXCEPT ![old] = new]
        BY <1>2, <1>3, <2>1
      <3> HIDE DEF gone
      <3>2. /\ [merged EXCEPT ![old] = new] \in Merges
            /\ Loopless([merged EXCEPT ![old] = new])
        BY <1>1, <3>1, LooplessMore
      <3> QED
        BY <3>1, <3>2
    <2>2. CASE ~gone
      BY <1>1, <1>3, <2>2
    <2> QED
      BY <2>1, <2>2
  <1>5. /\ new \in t.contacts /\ t.contacts \subseteq Ids
        /\ \A i \in t.contacts : i \in s.t.contacts \/ i = new
        /\ \A i \in s.t.contacts : i \in t.contacts \/ (gone /\ i = old)
        /\ gone => old \notin t.contacts
    BY <1>1, <1>2 DEF ContactsTaken
  <1>6. /\ \A i \in Ids : m[i] = IF gone /\ i = old THEN new ELSE merged[i]
        /\ m[new] = None
    BY <1>1, <1>2, <1>3 DEF Merges
  <1> HIDE DEF gone
  <1>7. \A i \in t.contacts : m[i] = None
    BY <1>1, <1>5, <1>6
  <1>8. \A i \in t.contacts : Found(t, m, i)
    BY <1>4, <1>5, <1>7, ChainsEnd DEF Found
  <1>9. ASSUME NEW x \in Optional(Ids), Found(s.t, merged, x), x # None PROVE Found(t, m, x)
    <2>1. x \in Ids /\ merged[x] = None /\ Canonical(merged, x) \in s.t.contacts
      BY <1>9 DEF Found, Optional
    <2>2. x \in s.t.contacts
      BY <1>1, <2>1, ChainsEnd
    <2>3. CASE x \in t.contacts
      BY <1>8, <2>3
    <2>4. CASE gone /\ x = old
      <3>1. Canonical(m, x) = new
        BY <1>4, <1>6, <2>1, <2>4, ChainOfOne
      <3> QED
        BY <1>5, <3>1 DEF Found
    <2> QED
      BY <1>5, <2>2, <2>3, <2>4
  <1>10. \A x : x = None => Found(t, m, x)
    BY DEF Found
  <1>11. StillFound(s.t, merged, t, m, new)
    BY <1>5, <1>7, <1>8, <1>9, <1>10 DEF StillFound
  <1> QED
    BY <1>11 DEF m

LEMMA ChatsKnownFrom ==
  ASSUME NEW chats, NEW cached, NEW plain \in BOOLEAN, ChatsKnown(chats, cached, plain)
  PROVE  ChatsKnown(chats, cached, FALSE)
  BY DEF ChatsKnown

(* Where an alias was projected: as Sure, if none was revived. *)
Aliased(u, decided) ==
    /\ u \in State /\ u.t.alias # None /\ ForeignKeysHold(u.t)
    /\ u.t.alias.canonical = None => u.t.alias.former = None
    /\ MergedIn(u.t, decided) \in Merges /\ Loopless(MergedIn(u.t, decided))
    /\ ~Revived(u.t, decided) => Sure(u, MergedIn(u.t, decided))

LEMMA MoveContactIsSure ==
  ASSUME NEW s, NEW decided, Sure(s, decided), s.t.alias = None, s.t.reactions \in Reactions,
         NEW u, u = MoveContact(s)
  PROVE  /\ Aliased(u, decided) /\ u.t.reactions \in Reactions
         /\ u.t.chats = s.t.chats /\ u.c.chats = s.c.chats
  <1> DEFINE old == FindContact(s, "lid")
             pn == FindContact(s, "pn")
             shared == old # None /\ \E k \in {"im", "card"} : s.t.sources[k] = old
             new == IF pn # None THEN pn ELSE IF shared THEN "pn" ELSE old
  <1>1. /\ s \in State /\ s.t \in Tables /\ s.c \in Cache /\ s.t.contacts \subseteq Ids
        /\ s.c.sources \in [Keys -> Optional(Ids)] /\ s.c.phone \in Optional(Ids)
        /\ s.t.chats \in [Chats -> Optional(Chats)] /\ s = [t |-> s.t, c |-> s.c, at |-> s.at]
        /\ ForeignKeysHold(s.t) /\ s.c.merged = decided /\ decided \in Merges
        /\ Loopless(decided) /\ \A i \in s.t.contacts : decided[i] = None
    BY SureFacts, StateOf
  <1>2. "pn" \in Ids /\ "pn" \in Keys /\ "lid" \in Keys
    BY DEF Ids, Keys
  <1>3. old \in Optional(s.t.contacts) /\ pn \in Optional(s.t.contacts)
    BY <1>2, FindIsFound DEF Optional
  <1>4. u \in State /\ u.t.alias \in Alias /\ u.t.reactions \in Reactions
    BY <1>1, MoveContactKeeps DEF Keeps
  <1>5. u.t.alias # None
    BY <1>4, IdentityAssumption
  <1>6. ChatsKnown(s.t.chats, s.c.chats, FALSE)
    <2> DEFINE plain == s.t.alias = None
    <2>1. plain \in BOOLEAN /\ ChatsKnown(s.t.chats, s.c.chats, plain)
      BY SureFacts
    <2> HIDE DEF plain
    <2> QED
      BY <2>1, ChatsKnownFrom
  <1>7. CASE new = None
    <2> DEFINE T == [s.t EXCEPT !.alias = [former |-> None, canonical |-> None]]
    <2>1. u.t = T /\ u.c = s.c
      BY <1>1, <1>7 DEF MoveContact
    <2>2. /\ T.rows = s.t.rows /\ T.contacts = s.t.contacts /\ T.chats = s.t.chats
          /\ T.alias = [former |-> None, canonical |-> None]
          /\ T.members = s.t.members /\ T.reactions = s.t.reactions
          /\ T.sources = s.t.sources /\ T.phones = s.t.phones
      BY <1>1 DEF Tables
    <2> HIDE DEF T, old, pn, shared, new
    <2>3. MergedIn(u.t, decided) = decided
      BY <2>1, <2>2 DEF MergedIn
    <2>4. ForeignKeysHold(u.t)
      BY <1>1, <2>1, <2>2 DEF ForeignKeysHold
    <2>5. Firm(u.t, decided)
      BY <1>1, <1>5, <2>1, <2>2, <2>4 DEF Firm
    <2>6. \A x : Found(s.t, decided, x) => Found(u.t, decided, x)
      BY <1>5, <2>1, <2>2 DEF Found
    <2>7. ChatsKnown(u.t.chats, u.c.chats, u.t.alias = None)
      BY <1>5, <1>6, <2>1, <2>2 DEF ChatsKnown
    <2>8. Knows(u.t, u.c, decided)
      BY <1>1, <2>1, <2>6, <2>7, SureFacts DEF Knows
    <2>9. Sure(u, decided)
      BY <1>4, <2>5, <2>8 DEF Sure
    <2> QED
      BY <1>1, <1>4, <1>5, <2>1, <2>2, <2>3, <2>4, <2>9 DEF Aliased
  <1>8. CASE new # None
    <2>1. u = [s EXCEPT !.c = MoveInCache(s.c, old, new, shared),
                        !.t = MoveInTables(s.t, old, new, shared)]
      BY <1>8 DEF MoveContact
    <2>2. new \in Ids /\ (new \in s.t.contacts \/ shared) /\ shared \in BOOLEAN
          /\ (new \in s.t.contacts \/ (shared /\ new = "pn"))
      <3> HIDE DEF old, pn
      <3> QED
        BY <1>1, <1>2, <1>3, <1>8 DEF Optional
    <2> DEFINE m == MergedOnce(decided, old, new, shared)
               D == MoveInCache(s.c, old, new, shared)
    <2> HIDE DEF old, pn, shared, new
    <2>3. u.t = MoveInTables(s.t, old, new, shared) /\ u.c = D
      BY <1>1, <2>1
    <2>4. After(s.t, u.t, old, new, shared)
      BY <1>1, <2>2, <2>3, MoveInTablesIs
    <2>5. u.t.chats = s.t.chats /\ u.t.contacts = ContactsTaken(s.t, old, new, shared)
          /\ u.t.alias = [former |-> IF shared THEN None ELSE old, canonical |-> new]
      BY <2>4 DEF After
    <2>6. /\ D.sources = [[s.c.sources EXCEPT !["lid"] = new] EXCEPT !["pn"] = new]
          /\ D.merged = m /\ D.phone = s.c.phone /\ D.chats = s.c.chats
      BY <1>1 DEF MoveInCache, Cache, MergedOnce
    <2>7. MergedIn(u.t, decided) = m
      <3>1. u.t.alias.former = (IF shared THEN None ELSE old) /\ u.t.alias.canonical = new
        BY <2>5
      <3> QED
        BY <1>5, <3>1 DEF MergedIn, MergedOnce
    <2>8. Revived(u.t, decided) <=> decided[new] # None
      BY <1>5, <2>2, <2>5, NoneIsNone DEF Revived
    <2> HIDE DEF D
    <2>9. ForeignKeysHold(u.t)
      BY <1>1, <2>2, <2>4, ContactsMovedHold
    <2>10. m \in Merges /\ Loopless(m)
      <3>1. CASE old \in {None, new} \/ shared
        BY <1>1, <3>1 DEF MergedOnce
      <3>2. CASE ~(old \in {None, new} \/ shared)
        <4>1. old \in Ids /\ old # new /\ decided[new] = None
          BY <1>1, <1>3, <2>2, <3>2 DEF Optional
        <4>2. m = [decided EXCEPT ![old] = new]
          BY <3>2 DEF MergedOnce
        <4> HIDE DEF m
        <4>3. /\ [decided EXCEPT ![old] = new] \in Merges
              /\ Loopless([decided EXCEPT ![old] = new])
          BY <1>1, <2>2, <4>1, LooplessMore
        <4> QED
          BY <4>2, <4>3
      <3> QED
        BY <3>1, <3>2
    <2>11. ASSUME decided[new] = None PROVE Sure(u, m)
      <3> HIDE DEF m
      <3>1. /\ \A i \in u.t.contacts : m[i] = None
            /\ Found(u.t, m, new)
            /\ \A x \in Optional(Ids) : Found(s.t, decided, x) => Found(u.t, m, x)
        <4>1. StillFound(s.t, decided, u.t, MergedOnce(decided, old, new, shared), new)
          BY <1>3, <1>5, <2>2, <2>5, <2>11, MovedIsFound
        <4> QED
          BY <4>1 DEF StillFound, m
      <3>2. Firm(u.t, m)
        BY <1>5, <2>9, <2>10, <3>1 DEF Firm
      <3>3. \A k \in Keys : Found(u.t, m, u.c.sources[k])
        <4> TAKE k \in Keys
        <4>1. u.c.sources[k] = new \/ u.c.sources[k] = s.c.sources[k]
          BY <1>1, <2>3, <2>6
        <4>2. s.c.sources[k] \in Optional(Ids) /\ Found(s.t, decided, s.c.sources[k])
          BY <1>1, SureFacts
        <4> QED
          BY <3>1, <4>1, <4>2
      <3>4. Found(u.t, m, u.c.phone)
        BY <1>1, <2>3, <2>6, <3>1, SureFacts
      <3>5. ChatsKnown(u.t.chats, u.c.chats, u.t.alias = None)
        BY <1>5, <1>6, <2>3, <2>5, <2>6 DEF ChatsKnown
      <3> QED
        BY <1>4, <2>3, <2>6, <3>2, <3>3, <3>4, <3>5 DEF Sure, Knows
    <2> HIDE DEF m
    <2> QED
      <3>1. u.t.alias.canonical # None
        BY <2>2, <2>5, NoneIsNone
      <3> QED
        BY <1>4, <1>5, <2>3, <2>5, <2>6, <2>7, <2>8, <2>9, <2>10, <2>11, <3>1 DEF Aliased
  <1> QED
    BY <1>7, <1>8

(* A conversation is moved, and what is in it: of each key at most its own  *)
(* conversation was known, and is afterwards.                               *)
Plain(chats) == \A k \in Chats : chats[k] \in {None, k}

LEMMA ChatsMovedKnown ==
  ASSUME NEW chats \in [Chats -> Optional(Chats)], NEW cached \in [Chats -> Optional(Chats)],
         Plain(chats), Plain(cached), ChatsKnown(chats, cached, FALSE), chats["lid"] # None,
         NEW chat, chat \in {chats["lid"], chats["pn"]}, chat # None,
         NEW tc, tc = [[chats EXCEPT !["lid"] = None] EXCEPT !["pn"] = chat],
         NEW cc, cc = [[cached EXCEPT !["lid"] = chat] EXCEPT !["pn"] = chat]
  PROVE  ChatsKnown(tc, cc, FALSE)
  <1>1. "lid" \in Chats /\ "pn" \in Chats /\ "lid" # "pn"
    BY DEF Chats
  <1>2. /\ tc["pn"] = chat /\ cc["lid"] = chat /\ cc["pn"] = chat
        /\ \A k \in Chats : k \notin {"lid", "pn"} => tc[k] = chats[k] /\ cc[k] = cached[k]
        /\ tc["lid"] = None
    BY <1>1
  <1>3. ASSUME NEW k \in Chats, k \in {"lid", "pn"}
        PROVE  /\ \E j \in Chats : tc[j] = cc[k]
               /\ tc[k] \notin {None, k} => cc[k] # None
    BY <1>1, <1>2, <1>3
  <1>4. ASSUME NEW k \in Chats, k \notin {"lid", "pn"}
        PROVE  /\ cc[k] # None => \E j \in Chats : tc[j] = cc[k]
               /\ tc[k] \notin {None, k} => cc[k] # None
    <2>1. tc[k] = chats[k] /\ cc[k] = cached[k]
      BY <1>2, <1>4
    <2>2. ASSUME cached[k] # None PROVE chats[k] = k /\ cached[k] = k
      <3>1. cached[k] = k
        BY <2>2 DEF Plain
      <3>2. PICK j \in Chats : chats[j] = k
        BY <2>2, <3>1 DEF ChatsKnown
      <3>3. j = k
        BY <2>2, <3>1, <3>2 DEF Plain
      <3> QED
        BY <3>1, <3>2, <3>3
    <2>3. chats[k] \in {None, k}
      BY DEF Plain
    <2> QED
      BY <2>1, <2>2, <2>3
  <1> QED
    BY <1>3, <1>4 DEF ChatsKnown

(* What moving a conversation leaves. *)
Shifts(s, u) ==
    /\ u \in State /\ ForeignKeysHold(u.t) /\ ChatsKnown(u.t.chats, u.c.chats, FALSE)
    /\ u.t.reactions = s.t.reactions /\ u.t.alias = s.t.alias /\ u.t.contacts = s.t.contacts
    /\ u.c.merged = s.c.merged /\ u.c.sources = s.c.sources /\ u.c.phone = s.c.phone

LEMMA MoveChatShifts ==
  ASSUME NEW s \in State, ForeignKeysHold(s.t), s.t.reactions \in Reactions,
         Plain(s.t.chats), Plain(s.c.chats), ChatsKnown(s.t.chats, s.c.chats, FALSE),
         NEW u, u = MoveChat(s)
  PROVE  Shifts(s, u)
  <1> DEFINE old == s.t.chats["lid"]
             chat == ChatThere(s.t)
             cc == [[s.c.chats EXCEPT !["lid"] = chat] EXCEPT !["pn"] = chat]
             tc == [[s.t.chats EXCEPT !["lid"] = None] EXCEPT !["pn"] = chat]
             tm == MembersMoved(s.t, old, chat)
             tr == RowsInChat(s.t, old, chat)
             C == [s.c EXCEPT !.chats = cc]
             T == [s.t EXCEPT !.chats = tc, !.members = tm, !.rows = tr]
  <1>1. /\ s.t \in Tables /\ s.c \in Cache
        /\ s.t.rows \in Rows /\ s.t.members \subseteq Member
        /\ s.t.chats \in [Chats -> Optional(Chats)] /\ s.c.chats \in [Chats -> Optional(Chats)]
    BY StateOf
  <1>2. "lid" \in Chats /\ "pn" \in Chats /\ "lid" # "pn"
    BY DEF Chats
  <1>3. CASE old = None
    <2>1. u = s
      BY <1>3 DEF MoveChat
    <2> QED
      BY <2>1 DEF Shifts
  <1>4. CASE old # None
    <2>1. u = [t |-> T, c |-> C, at |-> s.at]
      BY <1>4, MoveChatIs
    <2>2. u \in State
      BY MoveChatKeeps DEF Keeps
    <2>3. /\ u.t.rows = tr /\ u.t.members = tm /\ u.t.chats = tc /\ u.t.contacts = s.t.contacts
          /\ u.t.reactions = s.t.reactions /\ u.t.alias = s.t.alias
          /\ u.t.sources = s.t.sources /\ u.t.phones = s.t.phones
          /\ u.c.chats = cc /\ u.c.merged = s.c.merged /\ u.c.sources = s.c.sources
          /\ u.c.phone = s.c.phone
      <3> HIDE DEF tc, tm, tr, cc, old, chat
      <3>1. /\ T.rows = tr /\ T.members = tm /\ T.chats = tc /\ T.contacts = s.t.contacts
            /\ T.reactions = s.t.reactions /\ T.alias = s.t.alias
            /\ T.sources = s.t.sources /\ T.phones = s.t.phones
        BY <1>1 DEF Tables
      <3>2. /\ C.chats = cc /\ C.merged = s.c.merged /\ C.sources = s.c.sources
            /\ C.phone = s.c.phone
        BY <1>1 DEF Cache
      <3> HIDE DEF T, C
      <3>3. u.t = T /\ u.c = C
        BY <2>1
      <3> QED
        BY <3>1, <3>2, <3>3
    <2>4. chat \in {s.t.chats["lid"], s.t.chats["pn"]} /\ chat # None /\ chat \in Chats
      BY <1>1, <1>2, <1>4 DEF Optional, ChatThere
    <2> HIDE DEF T, C
    <2>5. ChatsKnown(tc, cc, FALSE)
      <3> HIDE DEF chat
      <3> QED
        BY <1>1, <1>4, <2>4, ChatsMovedKnown
    <2>6. ASSUME NEW c \in Chats, c \in ChatIds(s.t)
          PROVE  (IF c = old THEN chat ELSE c) \in ChatIds(u.t)
      <3>1. tc["pn"] = chat /\ \A k \in Chats : k \notin {"lid", "pn"} => tc[k] = s.t.chats[k]
        BY <1>1, <1>2
      <3>2. PICK k \in Chats : s.t.chats[k] = c
        BY <2>6 DEF ChatIds
      <3>3. c # None
        BY IdentityAssumption
      <3>4. CASE c = old
        BY <1>2, <2>3, <3>1, <3>4 DEF ChatIds
      <3>5. CASE c # old /\ k = "pn"
        <4>1. chat = c
          BY <3>2, <3>3, <3>5 DEF ChatThere
        <4> QED
          BY <1>2, <2>3, <3>1, <3>5, <4>1 DEF ChatIds
      <3>6. CASE c # old /\ k # "pn"
        <4>1. k # "lid"
          BY <3>2, <3>6
        <4>2. tc[k] = c
          BY <3>1, <3>2, <3>6, <4>1
        <4> QED
          BY <2>3, <3>6, <4>2 DEF ChatIds
      <3> QED
        BY <3>4, <3>5, <3>6
    <2> HIDE DEF tc, cc, old, chat
    <2>7. ASSUME NEW x, x \in Row \/ x \in Member, Refers(s.t, x)
          PROVE  Refers(u.t, Into(x, old, chat))
      <3>1. x.chat \in Chats /\ x.contact \in Optional(s.t.contacts) /\ x.chat \in ChatIds(s.t)
        BY <2>7 DEF Row, RowAbout, Member, Refers
      <3>2. /\ Into(x, old, chat).contact = x.contact
            /\ Into(x, old, chat).chat = IF x.chat = old THEN chat ELSE x.chat
        BY <2>7 DEF Into, Row, RowAbout, Member
      <3> QED
        BY <2>3, <2>6, <3>1, <3>2 DEF Refers
    <2>8. \A k \in RowKeys :
             u.t.rows[k] = IF s.t.rows[k] = None THEN None ELSE Into(s.t.rows[k], old, chat)
      BY <1>1, <2>3 DEF RowsInChat, Rows
    <2>9. \A k \in RowKeys : s.t.rows[k] # None => s.t.rows[k] \in Row
      BY <1>1 DEF Rows, Optional
    <2>10. \A k \in RowKeys : u.t.rows[k] = None \/ Refers(u.t, u.t.rows[k])
      BY <2>7, <2>8, <2>9, ForeignKeysAre
    <2>11. \A x \in u.t.members : Refers(u.t, x)
      <3> DEFINE S == {x \in s.t.members : x.chat # old}
                      \cup Renamed({x \in s.t.members : x.chat = old})
      <3>1. \A x \in s.t.members : Refers(s.t, x) /\ x \in Member
        BY <1>1, ForeignKeysAre
      <3>2. ASSUME NEW x \in S PROVE x \in Member /\ Refers(s.t, x)
        <4>1. PICK y \in s.t.members : x = y \/ (x = [y EXCEPT !.source = "pn"])
          BY <3>2 DEF Renamed
        <4>2. "pn" \in Keys
          BY DEF Keys
        <4> QED
          BY <3>1, <4>1, <4>2 DEF Member, Refers
      <3> HIDE DEF S
      <3>3. CASE old = chat
        <4>1. u.t.members = s.t.members
          BY <2>3, <3>3 DEF tm, MembersMoved
        <4>2. \A x \in s.t.members : Into(x, old, chat) = x
          <5> TAKE x \in s.t.members
          <5> QED
            BY <3>1, <3>3 DEF Into, Member
        <4> QED
          BY <2>7, <3>1, <4>1, <4>2
      <3>4. CASE old # chat
        <4>1. u.t.members = {Into(x, old, chat) : x \in S}
          BY <2>3, <3>4 DEF tm, MembersMoved, InChat, S
        <4> QED
          BY <2>7, <3>2, <4>1
      <3> QED
        BY <3>3, <3>4
    <2>12. \A r \in u.t.reactions : Reacts(u.t, r)
      <3>1. \A k \in RowKeys : s.t.rows[k] # None =>
               u.t.rows[k] # None /\ u.t.rows[k].id = s.t.rows[k].id
        <4> TAKE k \in RowKeys
        <4> HAVE s.t.rows[k] # None
        <4>1. s.t.rows[k] \in Row /\ u.t.rows[k] = Into(s.t.rows[k], old, chat)
          BY <2>8, <2>9
        <4>2. Into(s.t.rows[k], old, chat).id = s.t.rows[k].id
              /\ Into(s.t.rows[k], old, chat) \in Row
          BY <2>4, <4>1 DEF Into, Row, RowAbout
        <4> QED
          BY <4>1, <4>2, RowsAreSome
      <3>2. \A r \in s.t.reactions : Reacts(s.t, r)
        BY ForeignKeysAre
      <3> QED
        BY <2>3, <3>1, <3>2 DEF Reacts, IsMessage
    <2>13. ForeignKeysHold(u.t)
      BY <2>3, <2>10, <2>11, <2>12, ForeignKeysAre
    <2> QED
      BY <2>2, <2>3, <2>5, <2>13 DEF Shifts
  <1> QED
    BY <1>3, <1>4

(* Settling keeps what an alias made sure. *)
LEMMA AliasedAgain ==
  ASSUME NEW s, NEW u, NEW decided, Aliased(s, decided), Settles(s, u)
  PROVE  Aliased(u, decided)
  <1>1. u.t.alias = s.t.alias /\ u \in State /\ ForeignKeysHold(u.t)
    BY DEF Settles
  <1>2. /\ MergedIn(u.t, decided) = MergedIn(s.t, decided)
        /\ Revived(u.t, decided) <=> Revived(s.t, decided)
    BY <1>1 DEF MergedIn, Revived
  <1>3. ASSUME Sure(s, MergedIn(s.t, decided)) PROVE Sure(u, MergedIn(s.t, decided))
    BY <1>1, <1>3, SureAgain DEF Settles
  <1> QED
    BY <1>1, <1>2, <1>3 DEF Aliased

LEMMA AliasedShifts ==
  ASSUME NEW s, NEW u, NEW decided, Aliased(s, decided), Shifts(s, u)
  PROVE  Aliased(u, decided)
  <1>1. u.t.alias = s.t.alias /\ u \in State /\ ForeignKeysHold(u.t)
    BY DEF Shifts
  <1>2. /\ MergedIn(u.t, decided) = MergedIn(s.t, decided)
        /\ Revived(u.t, decided) <=> Revived(s.t, decided)
    BY <1>1 DEF MergedIn, Revived
  <1> DEFINE m == MergedIn(s.t, decided)
  <1>3. s.t.alias # None
    BY DEF Aliased
  <1> HIDE DEF m
  <1>4. ASSUME Sure(s, m) PROVE Sure(u, m)
    <2>1. \A x : Found(s.t, m, x) => Found(u.t, m, x)
      BY <1>1, <1>3 DEF Found, Shifts
    <2>2. Firm(u.t, m)
      BY <1>1, <1>3, <1>4, SureFacts DEF Firm, Shifts
    <2>3. ChatsKnown(u.t.chats, u.c.chats, u.t.alias = None)
      BY <1>1, <1>3 DEF ChatsKnown, Shifts
    <2>4. Knows(u.t, u.c, m)
      BY <1>4, <2>1, <2>3, SureFacts DEF Knows, Shifts
    <2> QED
      BY <1>1, <2>2, <2>4 DEF Sure
  <1> QED
    BY <1>1, <1>2, <1>3, <1>4 DEF Aliased, m

(* The alias, table by table. *)
LEMMA ProjectAliasIsSure ==
  ASSUME NEW s, NEW decided, Sure(s, decided), s.t.alias = None, s.t.reactions \in Reactions
  PROVE  Aliased(ProjectAlias(s), decided)
  <1> DEFINE s1 == MoveContact(s)
             s2 == MoveChat(s1)
             s3 == MoveRow(s2, "message")
             s4 == RenameSources(s3)
             s5 == MoveReactions(s4)
             s6 == MoveRow(s5, "timeline")
  <1>0. Aliased(s1, decided) /\ s1.t.reactions \in Reactions
        /\ s1.t.chats = s.t.chats /\ s1.c.chats = s.c.chats
    BY MoveContactIsSure
  <1>1. s1 \in State /\ ForeignKeysHold(s1.t)
    BY <1>0 DEF Aliased
  <1>2. Plain(s1.t.chats) /\ Plain(s1.c.chats) /\ ChatsKnown(s1.t.chats, s1.c.chats, FALSE)
    <2>1. /\ \A k \in Chats : s.t.chats[k] \in {None, k}
          /\ ChatsKnown(s.t.chats, s.c.chats, s.t.alias = None)
      BY SureFacts
    <2>2. Plain(s.c.chats) /\ ChatsKnown(s.t.chats, s.c.chats, FALSE)
      BY <2>1 DEF ChatsKnown, Plain
    <2> QED
      BY <1>0, <2>1, <2>2 DEF Plain
  <1> HIDE DEF s1
  <1>3. Shifts(s1, s2) /\ Keeps(s1, s2)
    BY <1>0, <1>1, <1>2, MoveChatShifts, MoveChatKeeps
  <1>4. /\ Aliased(s2, decided) /\ s2 \in State /\ s2.t.reactions \in Reactions
        /\ ForeignKeysHold(s2.t)
    BY <1>0, <1>3, AliasedShifts DEF Keeps, Aliased
  <1> HIDE DEF s2
  <1>5. Settles(s2, s3) /\ s3.t.reactions \in Reactions
    BY <1>4, MoveRowSettles, MoveRowKeeps
  <1>6. s3 \in State /\ ForeignKeysHold(s3.t)
    BY <1>5 DEF Settles
  <1> HIDE DEF s3
  <1>7. Settles(s3, s4) /\ s4.t.reactions \in Reactions
    BY <1>5, <1>6, RenameSourcesSettles, RenameSourcesKeeps DEF Keeps
  <1>8. s4 \in State /\ ForeignKeysHold(s4.t)
    BY <1>7 DEF Settles
  <1> HIDE DEF s4
  <1>9. Settles(s4, s5)
    BY <1>7, <1>8, MoveReactionsSettles
  <1>10. s5 \in State /\ ForeignKeysHold(s5.t)
    BY <1>9 DEF Settles
  <1> HIDE DEF s5
  <1>11. Settles(s5, s6)
    BY <1>10, MoveRowSettles
  <1> HIDE DEF s6
  <1>12. Settles(s2, s6)
    BY <1>5, <1>7, <1>9, <1>11, SettlesTwice
  <1>13. Aliased(s6, decided)
    BY <1>4, <1>12, AliasedAgain
  <1>14. ProjectAlias(s) = s6
    BY DEF ProjectAlias, s1, s2, s3, s4, s5, s6
  <1> QED
    BY <1>13, <1>14

-----------------------------------------------------------------------------
(* A page, on tables and a cache that agree.                               *)

(* A page, so far: what had been decided does not change, and unless an     *)
(* alias revives a merged contact every event is applied, with a cache that *)
(* is true of the tables; ids stay unless one of the events is an alias.    *)
Named(t) == t.alias # None /\ t.alias.canonical = None => t.alias.former = None

Standing(t, c, decided) ==
    LET merged == MergedIn(t, decided)
    IN /\ Loopless(merged) /\ Named(t)
       /\ ~Revived(t, decided) => Firm(t, merged) /\ Knows(t, c, merged)

Proceeds(b, t, decided, N) ==
    /\ Standing(b.t, b.c, decided)
    /\ t.alias # None => b.t.alias = t.alias
    /\ ~Revived(b.t, decided) => N \subseteq b.done
    /\ \/ Revived(b.t, decided) \/ Grows(t, b.t)
       \/ \E i \in b.done : b.log[i].kind = "alias"

LEMMA MergedInType ==
  ASSUME NEW t \in Tables, NEW decided \in Merges
  PROVE  MergedIn(t, decided) \in Merges
  <1>1. t.alias # None => t.alias.canonical \in Optional(Ids)
    BY DEF Tables, Optional, Alias
  <1> QED
    BY <1>1 DEF MergedIn, Merges

LEMMA SameAlias ==
  ASSUME NEW t, NEW u, u.alias = t.alias, NEW decided
  PROVE  /\ MergedIn(u, decided) = MergedIn(t, decided)
         /\ Revived(u, decided) <=> Revived(t, decided)
         /\ Named(u) <=> Named(t)
  BY DEF MergedIn, Revived, Named

(* An event, on what stands. *)
LEMMA ProjectStands ==
  ASSUME NEW s \in State, s.t.reactions \in Reactions, NEW decided \in Merges,
         Standing(s.t, s.c, decided), ~Revived(s.t, decided), NEW raw \in Event
  PROVE  LET u == Project(s, raw)
         IN /\ ForeignKeysHold(u.t) /\ Standing(u.t, u.c, decided)
            /\ s.t.alias # None => u.t.alias = s.t.alias
            /\ Grows(s.t, u.t) \/ raw.kind = "alias"
  <1> DEFINE u == Project(s, raw)
             merged == MergedIn(s.t, decided)
  <1>1. Sure(s, merged)
    BY DEF Standing, Sure
  <1>2. CASE raw.kind = "alias" /\ s.t.alias = None
    <2>1. merged = decided
      BY <1>2 DEF MergedIn
    <2>2. u = ProjectAlias(s)
      BY <1>2, ProjectIs
    <2>3. Sure(s, decided)
      BY <1>1, <2>1
    <2>4. Aliased(ProjectAlias(s), decided)
      BY <1>2, <2>3, ProjectAliasIsSure
    <2> HIDE DEF u
    <2> QED
      BY <1>2, <2>2, <2>4 DEF u, Aliased, Standing, Named, Sure
  <1>3. CASE ~(raw.kind = "alias" /\ s.t.alias = None)
    <2>1. Advances(s, Project(s, raw), merged)
      <3> HIDE DEF merged
      <3> QED
        BY <1>1, <1>3, ProjectIsSure
    <2>2. Sure(u, merged) /\ Grows(s.t, u.t)
      BY <2>1 DEF Advances
    <2> HIDE DEF u, merged
    <2>3. u.t.alias = s.t.alias
      BY <2>2 DEF Grows
    <2>4. /\ MergedIn(u.t, decided) = merged /\ ~Revived(u.t, decided) /\ Named(u.t)
      BY <2>3, SameAlias DEF merged, Standing
    <2>5. ForeignKeysHold(u.t) /\ Firm(u.t, merged) /\ Knows(u.t, u.c, merged)
          /\ Loopless(merged)
      BY <2>2, SureFacts DEF Sure
    <2>6. Standing(u.t, u.c, decided)
      BY <2>4, <2>5 DEF Standing
    <2> QED
      BY <2>2, <2>3, <2>5, <2>6 DEF u
  <1> QED
    BY <1>2, <1>3

LEMMA ApplyProceeds ==
  ASSUME NEW events \in Seq(Event), NEW A \in SUBSET (1..Len(events)),
         NEW D \in SUBSET (1..Len(events)),
         NEW b \in Batches(events, A, D), NEW n \in D, NEW decided \in Merges, NEW t, NEW N,
         Proceeds(b, t, decided, N)
  PROVE  Proceeds(Apply(b, n), t, decided, N \cup {n})
  <1> DEFINE before == [t |-> b.t, c |-> b.c, at |-> n]
             s == Project(before, b.log[n])
             a == Apply(b, n)
  <1>1. /\ b.log = events /\ b.t \in Store /\ b.c \in Cache /\ b.done \subseteq D
        /\ b \in [log : {events}, t : Store, c : Cache, done : SUBSET D]
    BY DEF Batches
  <1>2. before \in State /\ before.t = b.t /\ before.c = b.c /\ before.t.reactions \in Reactions
    BY <1>1 DEF State, Store
  <1>3. n \in 1..Len(events) /\ b.log[n] \in Event
    BY <1>1
  <1>4. a = IF ForeignKeysHold(s.t)
            THEN [b EXCEPT !.t = s.t, !.c = s.c, !.done = @ \cup {n}] ELSE b
    BY DEF Apply
  <1> HIDE DEF before
  <1>5. ForeignKeysHold(s.t) /\ b.t.alias # None => s.t.alias = b.t.alias
    <2> HAVE ForeignKeysHold(s.t) /\ b.t.alias # None
    <2>1. Leaves(before, s)
      BY <1>2, <1>3, ProjectWorks
    <2> HIDE DEF s
    <2> QED
      BY <1>2, <2>1 DEF Leaves
  <1>6. ~Revived(b.t, decided) =>
           /\ ForeignKeysHold(s.t) /\ Standing(s.t, s.c, decided)
           /\ Grows(b.t, s.t) \/ b.log[n].kind = "alias"
    <2> HAVE ~Revived(b.t, decided)
    <2> DEFINE e == b.log[n]
    <2>1. Standing(before.t, before.c, decided) /\ ~Revived(before.t, decided) /\ e \in Event
      BY <1>2, <1>3 DEF Proceeds
    <2>2. s = Project(before, e)
      OBVIOUS
    <2> HIDE DEF e, s
    <2>3. /\ ForeignKeysHold(s.t) /\ Standing(s.t, s.c, decided)
          /\ Grows(before.t, s.t) \/ e.kind = "alias"
      BY <1>2, <2>1, <2>2, ProjectStands
    <2> QED
      BY <1>2, <2>3 DEF e
  <1> HIDE DEF s
  <1>7. CASE ~ForeignKeysHold(s.t)
    <2>1. a = b /\ Revived(b.t, decided)
      BY <1>4, <1>6, <1>7
    <2> HIDE DEF a
    <2> QED
      BY <2>1 DEF a, Proceeds
  <1>8. CASE ForeignKeysHold(s.t)
    <2>1. a.t = s.t /\ a.c = s.c /\ a.done = b.done \cup {n} /\ a.log = b.log
      BY <1>1, <1>4, <1>8
    <2> HIDE DEF a
    <2>2. CASE Revived(b.t, decided)
      <3>1. b.t.alias # None /\ s.t.alias = b.t.alias
        BY <1>5, <1>8, <2>2 DEF Revived
      <3>2. /\ MergedIn(s.t, decided) = MergedIn(b.t, decided)
            /\ Revived(s.t, decided) /\ (Named(s.t) <=> Named(b.t))
        BY <2>2, <3>1, SameAlias
      <3>3. Standing(s.t, s.c, decided)
        BY <3>2 DEF Standing, Proceeds
      <3> QED
        BY <2>1, <3>1, <3>2, <3>3 DEF a, Proceeds
    <2>3. CASE ~Revived(b.t, decided)
      <3>1. Standing(s.t, s.c, decided)
        BY <1>6, <2>3
      <3>2. t.alias # None => s.t.alias = t.alias
        BY <1>5, <1>8 DEF Proceeds
      <3>3. N \cup {n} \subseteq a.done
        BY <2>1, <2>3 DEF Proceeds
      <3>4. Grows(t, s.t) \/ \E i \in a.done : a.log[i].kind = "alias"
        <4>1. CASE b.log[n].kind = "alias"
          BY <2>1, <4>1
        <4>2. CASE Grows(b.t, s.t) /\ Grows(t, b.t)
          BY <4>2, GrowsTwice
        <4>3. CASE \E i \in b.done : b.log[i].kind = "alias"
          BY <2>1, <4>3
        <4> QED
          BY <1>6, <2>3, <4>1, <4>2, <4>3 DEF Proceeds
      <3> QED
        BY <2>1, <3>1, <3>2, <3>3, <3>4 DEF a, Proceeds
    <2> QED
      BY <2>2, <2>3
  <1> QED
    BY <1>7, <1>8

LEMMA PageStands ==
  ASSUME NEW events \in Seq(Event), NEW A \in SUBSET (1..Len(events)),
         NEW t \in Store, NEW c \in Cache, Revoked(events, A, t),
         NEW from \in Nat \ {0}, NEW to \in Nat, from - 1 <= to, to <= Len(events),
         NEW decided \in Merges, Standing(t, c, decided)
  PROVE  Proceeds(Batch(events, t, c, from, to), t, decided, from..to)
  <1> DEFINE V == Batches(events, A, from..to)
             W == [n \in (from - 1)..to |-> {b \in V : Proceeds(b, t, decided, from..n)}]
  <1>1. \A n \in from..to : \A b \in V : Apply(b, n) \in V
    BY BatchesGoOn
  <1>2. Before(events, t, c) \in W[from - 1]
    <2> DEFINE b == Before(events, t, c)
    <2>1. b \in V
      BY BeforeIsBatch
    <2>2. b.t = t /\ b.c = c
      BY DEF Before
    <2>3. from..(from - 1) = {}
      OBVIOUS
    <2> HIDE DEF b, V
    <2>4. Proceeds(b, t, decided, from..(from - 1))
      BY <2>2, <2>3 DEF Proceeds, Grows
    <2>5. from - 1 \in (from - 1)..to
      OBVIOUS
    <2> QED
      BY <2>1, <2>4, <2>5 DEF b
  <1>3. ASSUME NEW n \in from..to, NEW b \in W[n - 1] PROVE Apply(b, n) \in W[n]
    <2>1. n - 1 \in (from - 1)..to /\ n \in (from - 1)..to
          /\ from..n = (from..(n - 1)) \cup {n}
          /\ from..to \in SUBSET (1..Len(events))
      OBVIOUS
    <2>2. b \in V /\ Proceeds(b, t, decided, from..(n - 1))
      BY <1>3, <2>1
    <2>3. Proceeds(Apply(b, n), t, decided, (from..(n - 1)) \cup {n})
      BY <2>1, <2>2, ApplyProceeds
    <2> HIDE DEF V
    <2> QED
      BY <1>1, <2>1, <2>2, <2>3
  <1> HIDE DEF V
  <1>4. W \in [(from - 1)..to -> SUBSET V] /\ to \in (from - 1)..to
    OBVIOUS
  <1>5. W[to] = {b \in V : Proceeds(b, t, decided, from..to)}
    BY <1>4
  <1> HIDE DEF W
  <1>6. Batch(events, t, c, from, to) \in W[to]
    BY <1>1, <1>2, <1>3, <1>4, BatchSteps
  <1> QED
    BY <1>5, <1>6

-----------------------------------------------------------------------------
(* The invariant of decisions and references, operation by operation.      *)

(* What a process holds, unless it missed that ids changed. *)
Trusts(process, t, decided) ==
    process # None /\ "ids" \notin process.missed
        => Knows(t, process.cache, MergedIn(t, decided))

Kept(t, decided, N, done, p, q) ==
    /\ Loopless(MergedIn(t, decided)) /\ Named(t)
    /\ ~Revived(t, decided) => /\ Firm(t, MergedIn(t, decided)) /\ N \subseteq done
                               /\ Trusts(p, t, decided) /\ Trusts(q, t, decided)

(* Lasting: no circle among what was decided, no gap between a worker's     *)
(* page and the watermark, and while no process has written that had missed *)
(* a change of ids, all that Kept says.                                     *)
Lasting ==
    /\ Loopless(Decided(merges))
    /\ worker # None => worker.from <= mark + 1
    /\ "ids" \notin spoilt =>
          Kept(tables, Decided(merges), 1..mark, applied, daemon, worker)

LEMMA HydratedKnows ==
  ASSUME NEW t \in Tables, NEW d \in Decisions, Firm(t, MergedIn(t, Decided(d)))
  PROVE  Knows(t, Hydrated(t, d), MergedIn(t, Decided(d)))
  <1> DEFINE merged == MergedIn(t, Decided(d))
             c == Hydrated(t, d)
  <1>1. merged \in Merges /\ Loopless(merged) /\ \A i \in t.contacts : merged[i] = None
    BY DecidedType, MergedInType DEF Firm
  <1>2. /\ t.contacts \subseteq Ids /\ \A k \in Keys : t.sources[k] \in Optional(t.contacts)
        /\ \A n \in DOMAIN t.phones : t.phones[n].contact \in Optional(t.contacts)
    BY ForeignKeysAre DEF Firm
  <1>3. /\ c.merged = merged /\ c.chats = t.chats
        /\ \A k \in Keys : c.sources[k] = Canonical(merged, t.sources[k])
        /\ c.phone = IF t.phones = <<>> THEN None ELSE Canonical(merged, Last(t.phones).contact)
    BY DEF Hydrated
  <1> HIDE DEF merged, c
  <1>4. \A x \in Optional(t.contacts) : Found(t, merged, Canonical(merged, x))
    <2>1. ASSUME NEW x \in t.contacts PROVE Found(t, merged, Canonical(merged, x))
      <3>1. x \in Ids /\ merged[x] = None
        BY <1>1, <1>2
      <3>2. Canonical(merged, x) = x
        BY <1>1, <3>1, ChainsEnd
      <3> QED
        BY <1>1, <3>1, <3>2 DEF Found
    <2>2. Canonical(merged, None) = None
      BY DEF Canonical
    <2>3. Found(t, merged, Canonical(merged, None))
      BY <2>2 DEF Found
    <2> QED
      BY <2>1, <2>3 DEF Optional
  <1>5. \A k \in Keys : Found(t, merged, c.sources[k])
    BY <1>2, <1>3, <1>4
  <1>6. Found(t, merged, c.phone)
    <2>1. CASE t.phones = <<>>
      BY <1>3, <2>1 DEF Found
    <2>2. CASE t.phones # <<>>
      <3>1. t.phones \in Seq(Handle)
        BY DEF Tables, Handle
      <3>2. Len(t.phones) \in DOMAIN t.phones /\ Last(t.phones) = t.phones[Len(t.phones)]
        BY <2>2, <3>1 DEF Last
      <3> QED
        BY <1>2, <1>3, <1>4, <2>2, <3>2
    <2> QED
      BY <2>1, <2>2
  <1>7. ChatsKnown(t.chats, c.chats, t.alias = None)
    BY <1>3 DEF ChatsKnown, Firm
  <1> QED
    BY <1>3, <1>5, <1>6, <1>7 DEF Knows, merged, c

LEMMA TrustsStill ==
  ASSUME NEW p, NEW t, NEW u, NEW decided, Trusts(p, t, decided), Grows(t, u),
         p # None => p.cache \in Cache
  PROVE  Trusts(p, u, decided)
  <1> SUFFICES ASSUME p # None, "ids" \notin p.missed
               PROVE  Knows(u, p.cache, MergedIn(u, decided))
    BY DEF Trusts
  <1> DEFINE merged == MergedIn(t, decided)
             c == p.cache
  <1>1. Knows(t, c, merged)
    BY DEF Trusts
  <1>2. c.chats \in [Chats -> Optional(Chats)] /\ None \notin Chats
    BY IdentityAssumption DEF Cache
  <1>3. MergedIn(u, decided) = merged
    BY SameAlias DEF Grows
  <1> HIDE DEF merged, c
  <1>4. Knows(u, c, merged)
    BY <1>1, <1>2, KnowsStill
  <1> QED
    BY <1>3, <1>4 DEF c

(* What was kept is, after a page of one process, of the other as well. *)
PageOf(b, events, done, t, c, from, to) ==
    /\ events \in Seq(Event) /\ done \in SUBSET (1..Len(events)) /\ Revoked(events, done, t)
    /\ t \in Store /\ c \in Cache /\ from \in Nat \ {0} /\ to \in Nat
    /\ from - 1 <= to /\ to <= Len(events) /\ b = Batch(events, t, c, from, to)

Commits(b, q, v, w) ==
    /\ q # None => q.cache \in Cache
    /\ w = Missing(q, Changes(b))
    /\ v # None => "ids" \in v.missed \/ v.cache = b.c

LEMMA PageKeeps ==
  ASSUME NEW events, NEW done, NEW t, NEW c, NEW from, NEW to, NEW b,
         PageOf(b, events, done, t, c, from, to),
         NEW decided \in Merges, NEW N, NEW p, NEW q, Kept(t, decided, N, done, p, q),
         ~Revived(t, decided) => Knows(t, c, MergedIn(t, decided)),
         NEW v, NEW w, Commits(b, q, v, w),
         NEW NN \in SUBSET (N \cup (from..to))
  PROVE  Kept(b.t, decided, NN, done \cup b.done, v, w)
  <1>0. /\ w = Missing(q, Changes(b)) /\ (q # None => q.cache \in Cache)
        /\ v # None => "ids" \in v.missed \/ v.cache = b.c
    BY DEF Commits
  <1>1. Standing(t, c, decided)
    BY DEF Kept, Standing
  <1>2. Proceeds(b, t, decided, from..to)
    <2>1. Proceeds(Batch(events, t, c, from, to), t, decided, from..to)
      BY <1>1, PageStands DEF PageOf
    <2> QED
      BY <2>1 DEF PageOf
  <1>3. Loopless(MergedIn(b.t, decided)) /\ Named(b.t)
    BY <1>2 DEF Proceeds, Standing
  <1>4. ASSUME ~Revived(b.t, decided)
        PROVE  /\ Firm(b.t, MergedIn(b.t, decided)) /\ NN \subseteq done \cup b.done
               /\ Trusts(v, b.t, decided) /\ Trusts(w, b.t, decided)
    <2>1. ~Revived(t, decided)
      BY <1>2, <1>4, SameAlias DEF Proceeds, Revived
    <2>2. Firm(b.t, MergedIn(b.t, decided)) /\ Knows(b.t, b.c, MergedIn(b.t, decided))
      BY <1>2, <1>4 DEF Proceeds, Standing
    <2>3. NN \subseteq done \cup b.done
      BY <1>2, <1>4, <2>1 DEF Proceeds, Kept
    <2>4. Trusts(v, b.t, decided)
      BY <1>0, <2>2 DEF Trusts
    <2>5. ASSUME w # None, "ids" \notin w.missed
          PROVE  Knows(b.t, w.cache, MergedIn(b.t, decided))
      <3>1. q # None /\ w = [q EXCEPT !.missed = q.missed \cup Changes(b)]
        BY <1>0, <2>5 DEF Missing
      <3>2. Grows(t, b.t)
        <4>1. CASE "ids" \in Changes(b)
          BY <2>5, <3>1, <4>1 DEF Missing
        <4>2. CASE "ids" \notin Changes(b)
          BY <1>2, <1>4, <4>2 DEF Proceeds, Changes
        <4> QED
          BY <4>1, <4>2
      <3>3. Trusts(q, b.t, decided)
        BY <1>0, <2>1, <3>2, TrustsStill DEF Kept
      <3> QED
        BY <2>5, <3>1, <3>3 DEF Trusts
    <2> QED
      BY <2>2, <2>3, <2>4, <2>5 DEF Trusts
  <1> QED
    BY <1>3, <1>4 DEF Kept

(* One more decision. *)
LEMMA DecidedMore ==
  ASSUME NEW d \in Decisions, NEW from \in Ids, NEW into \in Ids,
         NEW e, e = Append(d, [secondary |-> from, canonical |-> into])
  PROVE  /\ e \in Decisions
         /\ Decided(e) = [Decided(d) EXCEPT ![from] = into]
  <1> DEFINE x == [secondary |-> from, canonical |-> into]
             about(s, i) == {n \in DOMAIN s : s[n].secondary = i}
  <1>1. x \in [secondary : Ids, canonical : Ids] /\ x.secondary = from /\ x.canonical = into
    OBVIOUS
  <1> HIDE DEF x
  <1>2. e = Append(d, x) /\ e \in Decisions /\ Len(d) \in Nat
    BY <1>1 DEF Decisions, x
  <1>3. /\ DOMAIN e = 1..(Len(d) + 1) /\ DOMAIN d = 1..Len(d)
        /\ \A n \in 1..Len(d) : e[n] = d[n]
        /\ e[Len(d) + 1] = x
    BY <1>1, <1>2 DEF Decisions
  <1>4. \A i \in Ids : i # from => about(e, i) = about(d, i)
    <2> TAKE i \in Ids
    <2> HAVE i # from
    <2>1. \A n \in 1..(Len(d) + 1) : n \in 1..Len(d) \/ n = Len(d) + 1
      BY <1>2
    <2>2. 1..Len(d) \subseteq 1..(Len(d) + 1)
      BY <1>2
    <2> QED
      BY <1>1, <1>3, <2>1, <2>2
  <1>5. Max(about(e, from)) = Len(d) + 1
    <2> DEFINE S == about(e, from)
    <2>1. S \subseteq Nat /\ Len(d) + 1 \in S /\ \A y \in S : y <= Len(d) + 1
      BY <1>1, <1>2, <1>3
    <2> HIDE DEF S
    <2>2. S # {} /\ Len(d) + 1 \in Nat
      BY <1>2, <2>1
    <2>3. \A y \in S : (Len(d) + 1) >= y
      BY <1>2, <2>1
    <2>4. \E y \in S : \A z \in S : y >= z
      BY <2>1, <2>3
    <2>5. Max(S) \in S /\ \A z \in S : Max(S) >= z
      BY <2>4 DEF Max
    <2>6. Max(S) = Len(d) + 1
      <3>1. Max(S) \in Nat /\ Max(S) <= Len(d) + 1 /\ Max(S) >= Len(d) + 1
        BY <2>1, <2>5
      <3> QED
        BY <1>2, <3>1
    <2> QED
      BY <2>6 DEF S
  <1>6. /\ Decided(e) = [i \in Ids |-> IF about(e, i) = {} THEN None
                                       ELSE e[Max(about(e, i))].canonical]
        /\ Decided(d) = [i \in Ids |-> IF about(d, i) = {} THEN None
                                       ELSE d[Max(about(d, i))].canonical]
    BY DEF Decided
  <1>7. Decided(e)[from] = into
    <2>1. about(e, from) # {}
      BY <1>1, <1>2, <1>3
    <2> HIDE DEF about
    <2> QED
      BY <1>1, <1>3, <1>5, <1>6, <2>1
  <1>8. ASSUME NEW i \in Ids, i # from PROVE Decided(e)[i] = Decided(d)[i]
    <2> DEFINE S == about(d, i)
    <2>1. about(e, i) = S
      BY <1>4, <1>8
    <2>2. S # {} => Max(S) \in 1..Len(d)
      <3>1. S \subseteq Nat /\ S \subseteq 1..Len(d) /\ \A y \in S : y <= Len(d)
        BY <1>2, <1>3
      <3> HIDE DEF S
      <3> QED
        BY <1>2, <3>1, MaxOfSome
    <2>3. S # {} => e[Max(S)] = d[Max(S)]
      BY <1>3, <2>2
    <2> HIDE DEF about
    <2>4. /\ Decided(e)[i] = IF about(e, i) = {} THEN None ELSE e[Max(about(e, i))].canonical
          /\ Decided(d)[i] = IF S = {} THEN None ELSE d[Max(S)].canonical
      BY <1>6
    <2> HIDE DEF S
    <2>5. Decided(e)[i] = IF S = {} THEN None ELSE e[Max(S)].canonical
      BY <2>1, <2>4
    <2> QED
      BY <2>3, <2>4, <2>5
  <1>9. Decided(e) \in [Ids -> Optional(Ids)] /\ Decided(d) \in [Ids -> Optional(Ids)]
    BY <1>2, DecidedType DEF Merges
  <1> HIDE DEF about
  <1>10. Decided(e) = [Decided(d) EXCEPT ![from] = into]
    <2> DEFINE f == Decided(e)
               g == Decided(d)
    <2>1. f \in [Ids -> Optional(Ids)] /\ g \in [Ids -> Optional(Ids)]
          /\ f[from] = into /\ \A i \in Ids : i # from => f[i] = g[i]
      BY <1>7, <1>8, <1>9
    <2> HIDE DEF f, g
    <2>2. f = [g EXCEPT ![from] = into]
      BY <2>1
    <2> QED
      BY <2>2 DEF f, g
  <1> QED
    BY <1>2, <1>10

LEMMA EmptyStands ==
  ASSUME NEW d \in Decisions, Loopless(Decided(d))
  PROVE  /\ Kept(Empty, Decided(d), {}, {}, None, None)
         /\ ~Revived(Empty, Decided(d)) /\ MergedIn(Empty, Decided(d)) = Decided(d)
         /\ Knows(Empty, Reset(d), Decided(d))
  <1>1. /\ Empty.alias = None /\ Empty.contacts = {} /\ Empty.members = {}
        /\ Empty.reactions = {} /\ Empty.phones = <<>>
        /\ \A k \in RowKeys : Empty.rows[k] = None
        /\ \A k \in Keys : Empty.sources[k] = None
        /\ \A k \in Chats : Empty.chats[k] = None
    BY DEF Empty
  <1>2. ForeignKeysHold(Empty)
    BY <1>1, ForeignKeysAre DEF Optional
  <1>3. Firm(Empty, Decided(d))
    BY <1>1, <1>2 DEF Firm
  <1>4. /\ Reset(d).merged = Decided(d) /\ Reset(d).phone = None
        /\ \A k \in Keys : Reset(d).sources[k] = None
        /\ \A k \in Chats : Reset(d).chats[k] = None
    BY DEF Reset
  <1>5. Knows(Empty, Reset(d), Decided(d))
    BY <1>1, <1>4 DEF Knows, Found, ChatsKnown
  <1>6. ~Revived(Empty, Decided(d)) /\ MergedIn(Empty, Decided(d)) = Decided(d) /\ Named(Empty)
    BY <1>1 DEF Revived, MergedIn, Named
  <1> QED
    BY <1>3, <1>5, <1>6 DEF Kept, Trusts

LEMMA LastingFacts ==
  ASSUME Sound, Lasting
  PROVE  /\ merges \in Decisions /\ Decided(merges) \in Merges /\ Loopless(Decided(merges))
         /\ worker # None => worker.from <= mark + 1
         /\ worker # None => worker.cache \in Cache
         /\ daemon # None => daemon.cache \in Cache
         /\ "ids" \notin spoilt =>
               Kept(tables, Decided(merges), 1..mark, applied, daemon, worker)
  <1>1. merges \in Decisions /\ daemon \in Optional(Process) /\ worker \in Optional(Reading)
    BY SoundTypes
  <1>2. Decided(merges) \in Merges
    BY <1>1, DecidedType
  <1> QED
    BY <1>1, <1>2 DEF Lasting, Optional, Process, Reading

LEMMA LastingKept ==
  ASSUME NEW t, NEW decided, NEW N, NEW done, NEW p, NEW q, Kept(t, decided, N, done, p, q),
         NEW NN \in SUBSET N, NEW more, done \subseteq more, NEW v, NEW w,
         v # None => \/ p # None /\ v.cache = p.cache /\ v.missed = p.missed
                     \/ ~Revived(t, decided) => Knows(t, v.cache, MergedIn(t, decided)),
         w # None => \/ q # None /\ w.cache = q.cache /\ w.missed = q.missed
                     \/ ~Revived(t, decided) => Knows(t, w.cache, MergedIn(t, decided))
  PROVE  Kept(t, decided, NN, more, v, w)
  BY DEF Kept, Trusts

LEMMA ArriveLasts ==
  ASSUME Sound, Lasting, NEW e \in Events, Arrive(e)
  PROVE  Lasting'
  <1>1. UNCHANGED <<mark, tables, merges, daemon, worker, applied, spoilt, rebuilds>>
    BY DEF Arrive
  <1> QED
    BY <1>1 DEF Lasting

LEMMA WorkerReadsLasts ==
  ASSUME Sound, Lasting, WorkerReads
  PROVE  Lasting'
  <1>1. /\ worker = None /\ mark < Len(log) /\ Hydrates(tables, merges)
        /\ worker' = Reader(tables, mark + 1)
        /\ UNCHANGED <<log, mark, tables, merges, daemon, applied, spoilt, rebuilds>>
    BY DEF WorkerReads
  <1>2. worker'.from = mark + 1 /\ worker'.cache = Hydrated(tables, merges)
    BY <1>1 DEF Reader
  <1>3. mark \in Nat /\ tables \in Tables
    BY SoundTypes
  <1>4. ASSUME "ids" \notin spoilt
        PROVE  Kept(tables, Decided(merges), 1..mark, applied, daemon, worker')
    <2> DEFINE D == Decided(merges)
               w == worker'
    <2>1. Kept(tables, D, 1..mark, applied, daemon, worker) /\ merges \in Decisions
      BY <1>4, LastingFacts
    <2>2. ~Revived(tables, D) => Knows(tables, w.cache, MergedIn(tables, D))
      BY <1>2, <1>3, <2>1, HydratedKnows DEF Kept
    <2> HIDE DEF D, w
    <2>3. Kept(tables, D, 1..mark, applied, daemon, w)
      BY <2>1, <2>2 DEF Kept, Trusts
    <2> QED
      BY <2>3 DEF D, w
  <1> QED
    BY <1>1, <1>2, <1>3, <1>4, LastingFacts DEF Lasting

LEMMA WorkerDiesLasts ==
  ASSUME Sound, Lasting, WorkerDies
  PROVE  Lasting'
  <1>1. worker' = None
        /\ UNCHANGED <<log, mark, tables, merges, daemon, applied, spoilt, rebuilds>>
    BY DEF WorkerDies
  <1> QED
    BY <1>1 DEF Lasting, Kept, Trusts

LEMMA RestartLasts ==
  ASSUME Sound, Lasting, Restart
  PROVE  Lasting'
  <1>1. /\ daemon' = None
        /\ worker' = IF worker = None THEN None ELSE [worker EXCEPT !.again = TRUE]
        /\ UNCHANGED <<log, mark, tables, merges, applied, spoilt, rebuilds>>
    BY DEF Restart
  <1>2. worker' # None => /\ worker # None /\ worker'.from = worker.from
                          /\ worker'.cache = worker.cache /\ worker'.missed = worker.missed
    <2>1. worker # None => worker \in Reading
      BY SoundTypes DEF Optional
    <2> QED
      BY <1>1, <2>1 DEF Reading
  <1>3. "ids" \notin spoilt =>
           Kept(tables, Decided(merges), 1..mark, applied, daemon', worker')
    BY <1>1, <1>2, LastingFacts DEF Kept, Trusts
  <1> QED
    BY <1>1, <1>2, <1>3 DEF Lasting

LEMMA ProjectAtOnceLasts ==
  ASSUME Sound, Lasting, NEW e \in Events, ProjectAtOnce(e)
  PROVE  Lasting'
  <1> DEFINE n == Len(log')
             c == DaemonCache.cache
             batch == Batch(log', tables, c, n, n)
             D == Decided(merges)
  <1>1. /\ log' = Append(log, e) /\ (daemon # None \/ Hydrates(tables, merges))
        /\ tables' = batch.t
        /\ daemon' = [DaemonCache EXCEPT !.cache = batch.c]
        /\ mark' = IF n = mark + 1 THEN n ELSE mark
        /\ applied' = applied \cup batch.done
        /\ worker' = Missing(worker, Changes(batch))
        /\ spoilt' = spoilt \cup DaemonCache.missed
        /\ UNCHANGED <<merges, rebuilds>>
    BY DEF ProjectAtOnce, Insert
  <1>2. /\ log' \in Seq(Event) /\ n = Len(log) + 1 /\ Len(log) \in Nat /\ mark \in Nat
        /\ mark <= Len(log) /\ Revoked(log', applied, tables) /\ applied \subseteq 1..Len(log)
        /\ tables \in Store /\ tables \in Tables
    BY <1>1, EventIsAppended, SoundTypes
  <1>3. DaemonCache \in Process
    BY <1>1, DaemonCacheType
  <1>4. worker' # None => worker # None /\ worker'.from = worker.from
    BY <1>1, ChangesType, MissingType, SoundTypes
  <1>5. worker' # None => worker'.from <= mark' + 1
    <2>1. worker # None => worker.from <= mark + 1 /\ worker.from \in Nat
      BY LastingFacts, SoundTypes DEF PageOK
    <2>2. mark' \in Nat /\ mark <= mark'
      BY <1>1, <1>2
    <2> QED
      BY <1>2, <1>4, <2>1, <2>2
  <1>6. ASSUME "ids" \notin spoilt'
        PROVE  Kept(tables', D, 1..mark', applied', daemon', worker')
    <2>1. "ids" \notin spoilt /\ "ids" \notin DaemonCache.missed
      BY <1>1, <1>6
    <2>2. Kept(tables, D, 1..mark, applied, daemon, worker) /\ D \in Merges
          /\ merges \in Decisions /\ (worker # None => worker.cache \in Cache)
      BY <2>1, LastingFacts
    <2>3. ~Revived(tables, D) => Knows(tables, c, MergedIn(tables, D))
      <3>1. CASE daemon = None
        BY <1>2, <2>2, <3>1, HydratedKnows DEF DaemonCache, Kept
      <3>2. CASE daemon # None
        BY <2>1, <2>2, <3>2 DEF DaemonCache, Kept, Trusts
      <3> QED
        BY <3>1, <3>2
    <2> DEFINE l == log'
               w == worker'
               v == daemon'
               NN == 1..mark'
    <2>4. /\ l \in Seq(Event) /\ applied \in SUBSET (1..Len(l)) /\ c \in Cache
          /\ n \in Nat \ {0} /\ n - 1 <= n /\ n <= Len(l) /\ Revoked(l, applied, tables)
      BY <1>2, <1>3 DEF Process
    <2>5. NN \in SUBSET ((1..mark) \cup (n..n))
      BY <1>1, <1>2
    <2>6. v.cache = batch.c
      BY <1>1, <1>3 DEF Process
    <2>7. w = Missing(worker, Changes(batch)) /\ batch = Batch(l, tables, c, n, n)
      BY <1>1
    <2> HIDE DEF l, n, c, batch, D, v, w, NN
    <2>8. PageOf(batch, l, applied, tables, c, n, n)
      BY <1>2, <2>4, <2>7 DEF PageOf
    <2>9. Commits(batch, worker, v, w)
      BY <2>2, <2>6, <2>7 DEF Commits
    <2>10. Kept(batch.t, D, NN, applied \cup batch.done, v, w)
      BY <2>2, <2>3, <2>5, <2>8, <2>9, PageKeeps
    <2> QED
      BY <1>1, <2>10 DEF v, w, NN
  <1> HIDE DEF n, c, batch
  <1> QED
    BY <1>1, <1>5, <1>6, LastingFacts DEF Lasting

LEMMA KeptByBoth ==
  ASSUME NEW t, NEW decided, NEW N, NEW done, NEW p, NEW q, Kept(t, decided, N, done, p, q)
  PROVE  Kept(t, decided, N, done, q, p)
  BY DEF Kept

LEMMA WorkerCommitsLasts ==
  ASSUME Sound, Lasting, WorkerCommits
  PROVE  Lasting'
  <1> DEFINE from == worker.from
             to == worker.to
             c == worker.cache
             batch == Batch(log, tables, c, from, to)
             D == Decided(merges)
  <1>1. /\ worker # None /\ UNCHANGED <<log, merges, rebuilds>>
        /\ tables' = batch.t /\ mark' = Max({mark, to}) /\ applied' = applied \cup batch.done
        /\ daemon' = Missing(daemon, Changes(batch)) /\ spoilt' = spoilt \cup worker.missed
        /\ worker' = IF worker.again /\ Hydrates(batch.t, merges)
                     THEN Reader(batch.t, from) ELSE None
    BY DEF WorkerCommits
  <1>2. /\ worker \in Reading /\ c \in Cache
        /\ from \in Nat \ {0} /\ to \in Nat /\ from <= to /\ to <= Len(log)
        /\ log \in Seq(Event) /\ applied \subseteq 1..Len(log) /\ Revoked(log, applied, tables)
        /\ tables \in Store /\ mark \in Nat /\ Len(log) \in Nat
    BY <1>1, SoundTypes DEF PageOK, Optional, Reading
  <1>3. /\ mark' \in Nat /\ mark <= mark' /\ to <= mark' /\ mark' \in {mark, to}
    <2>1. Max({mark, to}) = IF mark <= to THEN to ELSE mark
      BY <1>2, MinOfTwo
    <2>2. mark' = IF mark <= to THEN to ELSE mark
      BY <1>1, <2>1
    <2> HIDE DEF to
    <2> QED
      BY <1>2, <2>2
  <1>4. worker' # None => /\ worker'.from = from /\ worker'.cache = Hydrated(batch.t, merges)
    BY <1>1 DEF Reader
  <1>5. worker' # None => worker'.from <= mark' + 1
    BY <1>2, <1>3, <1>4
  <1>6. ASSUME "ids" \notin spoilt'
        PROVE  Kept(tables', D, 1..mark', applied', daemon', worker')
    <2>1. "ids" \notin spoilt /\ "ids" \notin worker.missed
      BY <1>1, <1>6
    <2>2. /\ Kept(tables, D, 1..mark, applied, daemon, worker) /\ D \in Merges
          /\ merges \in Decisions /\ (daemon # None => daemon.cache \in Cache)
          /\ from <= mark + 1
      BY <1>1, <2>1, LastingFacts
    <2>3. ~Revived(tables, D) => Knows(tables, c, MergedIn(tables, D))
      BY <1>1, <2>1, <2>2 DEF Kept, Trusts
    <2>4. PageOf(batch, log, applied, tables, c, from, to)
      BY <1>2 DEF PageOf
    <2>5. Commits(batch, daemon, None, daemon')
      BY <1>1, <2>2 DEF Commits
    <2> DEFINE NN == 1..mark'
               w == worker'
               v == daemon'
    <2>6. NN \in SUBSET ((1..mark) \cup (from..to))
      BY <1>2, <1>3, <2>2
    <2>7. Kept(tables, D, 1..mark, applied, worker, daemon)
      BY <2>2, KeptByBoth
    <2>8. batch.t \in Tables
      <3>1. batch \in Batches(log, applied, from..to)
        BY <1>2, BatchWorks
      <3> HIDE DEF batch
      <3> QED
        BY <3>1 DEF Batches, Store
    <2>9. w # None => w.cache = Hydrated(batch.t, merges)
      BY <1>4
    <2> HIDE DEF batch, from, to, c, NN, v, w
    <2>10. Commits(batch, daemon, None, v)
      BY <2>5 DEF v
    <2>11. Kept(batch.t, D, NN, applied \cup batch.done, None, v)
      BY <2>2, <2>3, <2>4, <2>6, <2>7, <2>10, PageKeeps
    <2>12. Kept(batch.t, D, NN, applied \cup batch.done, v, None)
      BY <2>11, KeptByBoth
    <2>13. ~Revived(batch.t, D) => Trusts(w, batch.t, D)
      BY <2>2, <2>8, <2>9, <2>12, HydratedKnows DEF Kept, Trusts
    <2> HIDE DEF D
    <2>14. Kept(batch.t, D, NN, applied \cup batch.done, v, w)
      BY <2>12, <2>13 DEF Kept
    <2> QED
      BY <1>1, <2>14 DEF v, w, NN
  <1> HIDE DEF batch, from, to, c
  <1> QED
    BY <1>1, <1>5, <1>6, LastingFacts DEF Lasting

LEMMA RebuildLasts ==
  ASSUME Sound, NEW d \in Decisions, Loopless(Decided(d)), Rebuild(Rebuilt(d)), UNCHANGED log,
         merges' = d,
         worker # None => worker.from <= mark + 1,
         daemon' # None => "ids" \in daemon'.missed \/ daemon'.cache = Rebuilt(d).c,
         worker' = None \/ worker' = Missing(worker, {"rows", "ids"})
  PROVE  Lasting'
  <1> DEFINE b == Rebuilt(d)
             D == Decided(d)
             n == Len(log)
  <1>1. /\ tables' = b.t /\ applied' = b.done /\ mark' = Max({mark, n})
    BY DEF Rebuild
  <1>2. /\ log \in Seq(Event) /\ n \in Nat /\ mark \in Nat /\ mark <= n
        /\ worker \in Optional(Reading)
    BY SoundTypes
  <1>3. mark' = n
    BY <1>1, <1>2, MinOfTwo
  <1>4. worker' # None => "ids" \in worker'.missed /\ worker # None /\ worker'.from = worker.from
    BY <1>2 DEF Missing, Optional, Reading
  <1>5. worker' # None => worker'.from <= mark' + 1
    <2>1. worker # None => worker.from \in Nat
      BY SoundTypes DEF PageOK
    <2> QED
      BY <1>2, <1>3, <1>4, <2>1
  <1>6. /\ Kept(Empty, D, {}, {}, None, None) /\ Knows(Empty, Reset(d), MergedIn(Empty, D))
        /\ D \in Merges
    BY EmptyStands, DecidedType
  <1>7. PageOf(b, log, {}, Empty, Reset(d), 1, n)
    <2>1. Revoked(log, {}, Empty)
      BY DEF Revoked
    <2>2. b = Batch(log, Empty, Reset(d), 1, n)
      BY DEF Rebuilt
    <2>3. {} \in SUBSET (1..n) /\ 1 \in Nat \ {0} /\ 1 - 1 <= n /\ n <= n
      BY <1>2
    <2> HIDE DEF b
    <2> QED
      BY <1>2, <2>1, <2>2, <2>3, EmptyType, ResetType DEF PageOf
  <1> DEFINE v == daemon'
             w == worker'
             NN == 1..n
  <1>8. Commits(b, None, v, None)
    BY DEF Commits, Missing
  <1>9. NN \in SUBSET ({} \cup (1..n))
    OBVIOUS
  <1> HIDE DEF b, D, n, v, w, NN
  <1>10. Kept(b.t, D, NN, {} \cup b.done, v, None)
    BY <1>6, <1>7, <1>8, <1>9, PageKeeps
  <1>11. w # None => "ids" \in w.missed
    BY <1>4 DEF w
  <1>12. Kept(b.t, D, NN, b.done, v, w)
    BY <1>10, <1>11 DEF Kept, Trusts
  <1>13. Kept(tables', Decided(merges'), 1..mark', applied', daemon', worker')
    BY <1>1, <1>3, <1>12 DEF v, w, NN, D, n
  <1> QED
    BY <1>5, <1>13 DEF Lasting

LEMMA RebuildQueuedLasts ==
  ASSUME Sound, Lasting, RebuildQueued
  PROVE  Lasting'
  <1>1. /\ worker = None /\ UNCHANGED <<log, merges, worker>> /\ Rebuild(Rebuilt(merges))
        /\ daemon' = Missing(daemon, {"rows", "ids"})
    BY DEF RebuildQueued
  <1>2. daemon \in Optional(Process)
    BY SoundTypes
  <1>3. daemon' # None => "ids" \in daemon'.missed
    BY <1>1, <1>2 DEF Missing, Optional, Process
  <1>4. merges' = merges /\ worker' = None
    BY <1>1
  <1> QED
    BY <1>1, <1>3, <1>4, LastingFacts, RebuildLasts

LEMMA MergeContactsLasts ==
  ASSUME Sound, Lasting, NEW p \in tables.contacts, NEW q \in tables.contacts, MergeContacts(p, q)
  PROVE  Lasting'
  <1> DEFINE D == Decided(merges)
             into == Canonical(D, p)
             from == Canonical(D, q)
             d == Append(merges, [secondary |-> from, canonical |-> into])
  <1>1. /\ into # from /\ merges' = d /\ UNCHANGED log /\ Rebuild(Rebuilt(d))
        /\ daemon' = [cache |-> Rebuilt(d).c, missed |-> {}]
        /\ worker' = Missing(worker, {"rows", "ids"})
    BY DEF MergeContacts
  <1>2. /\ D \in Merges /\ Loopless(D) /\ merges \in Decisions /\ p \in Ids /\ q \in Ids
    BY LastingFacts, SoundTypes DEF Tables
  <1> HIDE DEF D
  <1>3. into \in Ids /\ from \in Ids /\ D[into] = None
    BY <1>2, ChainsEnd
  <1> HIDE DEF into, from
  <1>4. d \in Decisions /\ Decided(d) = [D EXCEPT ![from] = into]
    BY <1>2, <1>3, DecidedMore DEF D
  <1>5. Loopless([D EXCEPT ![from] = into])
    BY <1>1, <1>2, <1>3, LooplessMore
  <1>6. Loopless(Decided(d))
    BY <1>4, <1>5
  <1> HIDE DEF d
  <1>7. daemon' # None => daemon'.cache = Rebuilt(d).c
    BY <1>1
  <1> QED
    BY <1>1, <1>4, <1>6, <1>7, LastingFacts, RebuildLasts

(* Without a circle every chain of merges has an end. *)
LEMMA LooplessHydrates ==
  ASSUME NEW t \in Tables, NEW d \in Decisions, Loopless(MergedIn(t, Decided(d)))
  PROVE  Hydrates(t, d)
  <1> DEFINE merged == MergedIn(t, Decided(d))
             c == Hydrated(t, d)
  <1>1. merged \in Merges
    BY DecidedType, MergedInType
  <1>2. /\ \A k \in Keys : c.sources[k] = Canonical(merged, t.sources[k])
        /\ c.phone = IF t.phones = <<>> THEN None ELSE Canonical(merged, Last(t.phones).contact)
    BY DEF Hydrated
  <1>3. /\ t.sources \in [Keys -> Optional(Ids)] /\ t.phones \in Seq(Handle)
    BY DEF Tables, Handle
  <1> HIDE DEF merged, c
  <1>4. \A x \in Optional(Ids) : Canonical(merged, x) # Endless
    <2>1. ASSUME NEW x \in Ids PROVE Canonical(merged, x) # Endless
      <3>1. Loopless(merged)
        BY DEF merged
      <3>2. Canonical(merged, x) \in Ids
        BY <1>1, <3>1, ChainsEnd
      <3> QED
        BY <3>2, NoneIsNone
    <2>2. Canonical(merged, None) = None
      BY DEF Canonical
    <2> QED
      BY <2>1, <2>2, NoneIsNone DEF Optional
  <1>5. \A k \in Keys : c.sources[k] # Endless
    BY <1>2, <1>3, <1>4
  <1>6. c.phone # Endless
    <2>1. CASE t.phones = <<>>
      BY <1>2, <2>1, NoneIsNone
    <2>2. CASE t.phones # <<>>
      <3>1. Len(t.phones) \in DOMAIN t.phones /\ Last(t.phones) = t.phones[Len(t.phones)]
        BY <1>3, <2>2 DEF Last
      <3>2. Last(t.phones) \in Handle
        BY <1>3, <3>1
      <3> QED
        BY <1>2, <1>4, <2>2, <3>2 DEF Handle, Optional
    <2> QED
      BY <2>1, <2>2
  <1> QED
    BY <1>5, <1>6 DEF Hydrates, c

LEMMA DecidedAbout ==
  ASSUME NEW d \in Decisions, NEW n \in DOMAIN d
  PROVE  d[n].secondary \in Ids /\ Decided(d)[d[n].secondary] # None
  <1> DEFINE D == [secondary : Ids, canonical : Ids]
             i == d[n].secondary
             about == {m \in DOMAIN d : d[m].secondary = i}
  <1>1. /\ d \in Seq(D) /\ Len(d) \in Nat /\ DOMAIN d = 1..Len(d)
    BY DEF Decisions
  <1> HIDE DEF D
  <1>2. \A m \in DOMAIN d : d[m] \in D
    BY <1>1
  <1>3. \A m \in DOMAIN d : d[m].secondary \in Ids /\ d[m].canonical \in Ids
    BY <1>2 DEF D
  <1>4. about # {} /\ about \subseteq Nat /\ about \subseteq DOMAIN d
        /\ \A y \in about : y <= Len(d)
    BY <1>1
  <1>5. Decided(d)[i] = IF about = {} THEN None ELSE d[Max(about)].canonical
    BY <1>3 DEF Decided
  <1> HIDE DEF about, i
  <1>6. Max(about) \in DOMAIN d
    BY <1>1, <1>4, MaxOfSome
  <1>7. Decided(d)[i] \in Ids
    BY <1>3, <1>4, <1>5, <1>6
  <1> QED
    BY <1>3, <1>7, NoneIsNone DEF i

LEMMA LastingHolds ==
  ASSUME Sound, Lasting
  PROVE  EventsAreApplied /\ MergesHold
  <1> DEFINE D == Decided(merges)
             merged == MergedIn(tables, D)
  <1>1. tables \in Tables /\ merges \in Decisions /\ D \in Merges
    BY SoundTypes, LastingFacts
  <1>2. "ids" \notin spoilt => Kept(tables, D, 1..mark, applied, daemon, worker)
    BY LastingFacts
  <1>3. EventsAreApplied
    <2> HIDE DEF D
    <2>1. "ids" \notin spoilt /\ ~Revived(tables, D) => 1..mark \subseteq applied
      BY <1>2 DEF Kept
    <2> QED
      BY <2>1 DEF EventsAreApplied, D
  <1>4. ASSUME "ids" \notin spoilt PROVE Hydrates(tables, merges)
    BY <1>1, <1>2, <1>4, LooplessHydrates DEF Kept
  <1>5. ASSUME "ids" \notin spoilt, ~Revived(tables, D), NEW n \in DOMAIN merges
        PROVE  merges[n].secondary \notin tables.contacts
    <2> DEFINE i == merges[n].secondary
    <2>1. i \in Ids /\ D[i] # None
      BY <1>1, DecidedAbout
    <2> HIDE DEF D, i, merged
    <2>2. Firm(tables, MergedIn(tables, D)) /\ Named(tables)
      BY <1>2, <1>5 DEF Kept
    <2> SUFFICES ASSUME i \in tables.contacts PROVE FALSE
      BY DEF i
    <2>3. MergedIn(tables, D)[i] = None
      BY <2>2 DEF Firm
    <2>4. tables.alias # None /\ tables.alias.former = i /\ tables.alias.canonical = None
      BY <1>1, <2>1, <2>3 DEF MergedIn, Merges
    <2> QED
      BY <2>1, <2>2, <2>4, NoneIsNone DEF Named
  <1> QED
    BY <1>3, <1>4, <1>5 DEF MergesHold

LEMMA LastingStarts == IdentityInit => Lasting
  <1> SUFFICES ASSUME IdentityInit PROVE Lasting
    OBVIOUS
  <1>1. /\ mark = 0 /\ tables = Empty /\ merges = <<>>
        /\ daemon = None /\ worker = None /\ applied = {} /\ spoilt = {}
    BY DEF IdentityInit
  <1>2. merges \in Decisions
    BY <1>1 DEF Decisions
  <1>3. \A i \in Ids : Decided(merges)[i] = None
    BY <1>1 DEF Decided
  <1>4. Loopless(Decided(merges))
    BY <1>3, NoneIsNone DEF Loopless
  <1>5. Kept(Empty, Decided(merges), {}, {}, None, None)
    BY <1>2, <1>4, EmptyStands
  <1>6. 1..mark = {}
    BY <1>1
  <1> QED
    BY <1>1, <1>4, <1>5, <1>6 DEF Lasting

LEMMA LastingSteps == Sound /\ Lasting /\ [IdentityNext]_identityVars => Lasting'
  <1> SUFFICES ASSUME Sound, Lasting, [IdentityNext]_identityVars PROVE Lasting'
    OBVIOUS
  <1>1. CASE UNCHANGED identityVars
    BY <1>1 DEF identityVars, Lasting
  <1>2. ASSUME NEW e \in Events, Arrive(e) PROVE Lasting'
    BY <1>2, ArriveLasts
  <1>3. ASSUME NEW e \in Events, ProjectAtOnce(e) PROVE Lasting'
    BY <1>3, ProjectAtOnceLasts
  <1>4. CASE WorkerReads
    BY <1>4, WorkerReadsLasts
  <1>5. CASE WorkerCommits
    BY <1>5, WorkerCommitsLasts
  <1>6. CASE WorkerDies
    BY <1>6, WorkerDiesLasts
  <1>7. CASE RebuildQueued
    BY <1>7, RebuildQueuedLasts
  <1>8. CASE Restart
    BY <1>8, RestartLasts
  <1>9. ASSUME NEW p \in tables.contacts, NEW q \in tables.contacts, MergeContacts(p, q)
        PROVE  Lasting'
    BY <1>9, MergeContactsLasts
  <1> QED
    BY <1>1, <1>2, <1>3, <1>4, <1>5, <1>6, <1>7, <1>8, <1>9 DEF IdentityNext

(* No event below the watermark is lost, whatever the order of pages,       *)
(* restarts, aliases and merges: rows found through a cache that is true of *)
(* the tables always have what they refer to, so no event is set aside.     *)
THEOREM EventsApplied == IdentitySpec => []EventsAreApplied
<1>1. Sound /\ Lasting => EventsAreApplied
  BY LastingHolds
<1> QED
  BY <1>1, IdentityStarts, IdentitySteps, LastingStarts, LastingSteps, PTL DEF IdentitySpec

(* Merges made by hand hold: decisions and aliases never form a circle, and *)
(* a contact that was merged into another stays gone.                       *)
THEOREM MergesStand == IdentitySpec => []MergesHold
<1>1. Sound /\ Lasting => MergesHold
  BY LastingHolds
<1> QED
  BY <1>1, IdentityStarts, IdentitySteps, LastingStarts, LastingSteps, PTL DEF IdentitySpec
=============================================================================
