----------------------------- MODULE DaemonLock -----------------------------
(***************************************************************************)
(* One daemon at a time: the lock file (src/src/core/singleton-lock.ts)    *)
(* and the socket (src/src/runtime/daemon/server.ts), which daemon         *)
(* processes acquire, keep fresh, take over and give up.                   *)
(*                                                                         *)
(* The processes share nothing but the file system, so a step is about one *)
(* system call.  The lock file is known by its inode: a process that has   *)
(* created one keeps it open, and its writes go nowhere once the path has  *)
(* been given to another.  A process stands for a pid: when it has exited, *)
(* another program or a new daemon may get the same one.                   *)
(***************************************************************************)
EXTENDS Naturals, FiniteSets

CONSTANTS
    Procs,             \* daemon processes, by pid
    NoProc,
    MaxSlow,           \* bound: answers that come too late
    MaxCrashes         \* bound: processes killed, databases not opened

ASSUME DaemonLockAssumption ==
    /\ NoProc \notin Procs
    /\ MaxSlow \in Nat /\ MaxCrashes \in Nat

VARIABLES
    lock,              \* the file at CUED_DAEMON_LOCK_PATH
    socket,            \* who bound what is at CUED_SOCKET_PATH
    pc,                \* where each process is in runDaemon
    open,              \* the processes whose own lock file is open (ownedFd)
    overlapped,        \* auxiliary: a daemon was started while another was
                       \* acquiring the lock
    exposed,           \* auxiliary: the lock of a living owner was stale, or
                       \* had been found stale, when it could not answer a ping
    slow, crashes      \* what the bounds have counted

vars == <<lock, socket, pc, open, overlapped, exposed, slow, crashes>>

-----------------------------------------------------------------------------
(* written: initializeLockFile is done; fresh: updatedAt is younger than   *)
(* SINGLETON_LOCK_STALE_MS.                                                *)
LockFile == [owner : Procs, written : BOOLEAN, fresh : BOOLEAN]
NoFile == [owner |-> NoProc, written |-> FALSE, fresh |-> FALSE]

Acquiring == {"opening", "looking", "probing", "removing", "reopening", "filling"}
Starting  == {"cleaning", "asking", "unbinding", "loading"}
Working   == {"binding", "serving", "closing"}    \* the database is open
Leaving   == {"releasing", "unlinking", "tidying", "failing", "retracting"}

Goes(p, to) == pc' = [pc EXCEPT ![p] = to]

(* process.kill(pid, 0) *)
IsRunning(p) == pc[p] # "off"

(* The lock file at the path is the one this process has created: the same *)
(* device and inode.                                                       *)
StillOwnsPath(p) == p \in open /\ lock.owner = p

(* "unlinking", "retracting": it has closed the file to remove it. *)
Owns(p) == lock.owner = p /\ (p \in open \/ pc[p] \in {"unlinking", "retracting"})

(* The lock is stale, or a starter has found it so. *)
IsSuspect == ~lock.fresh \/ \E q \in Procs : pc[q] \in {"probing", "removing"}

IsExposed ==
    IsSuspect /\ \E p \in Procs : Owns(p) /\ ~(pc[p] = "serving" /\ socket = p)

(* MUTANT: the reply to the ping is not recognised. *)
AnswersUnheard == FALSE

(* probeExistingSocket: the daemon behind the socket answers a ping in     *)
(* time, unless it is blocked.                                             *)
Answers == socket # NoProc /\ pc[socket] = "serving"

NoAnswerInTime == slow < MaxSlow /\ slow' = slow + 1

Init ==
    /\ lock \in {NoFile} \cup [owner : Procs, written : {TRUE}, fresh : BOOLEAN]
    /\ socket \in {NoProc} \cup Procs
    /\ pc = [p \in Procs |-> "off"]
    /\ open = {} /\ overlapped = FALSE /\ exposed = FALSE
    /\ slow = 0 /\ crashes = 0

-----------------------------------------------------------------------------
(* acquireSingletonLock. *)
Start(p) ==
    /\ pc[p] = "off"
    /\ Goes(p, "opening")
    /\ overlapped' = (overlapped \/ \E q \in Procs : pc[q] \in Acquiring)
    /\ UNCHANGED <<lock, socket, open, slow, crashes>>

(* tryAcquire: the file is created if there is none; the second failure is *)
(* final.                                                                  *)
OpenLock(p) ==
    /\ pc[p] \in {"opening", "reopening"}
    /\ \/ /\ lock = NoFile
          /\ lock' = [owner |-> p, written |-> FALSE, fresh |-> TRUE]
          /\ open' = open \cup {p}
          /\ Goes(p, "filling")
       \/ /\ lock # NoFile
          /\ Goes(p, IF pc[p] = "opening" THEN "looking" ELSE "off")
          /\ UNCHANGED <<lock, open>>
    /\ UNCHANGED <<socket, overlapped, slow, crashes>>

(* initializeLockFile. *)
FillLock(p) ==
    /\ pc[p] = "filling"
    /\ lock' = IF StillOwnsPath(p) THEN [lock EXCEPT !.written = TRUE] ELSE lock
    /\ Goes(p, "cleaning")
    /\ UNCHANGED <<socket, open, overlapped, slow, crashes>>

(* MUTANT: a lock is held as long as its pid runs. *)
HeldByPid == lock.written /\ IsRunning(lock.owner)

(* A file that is gone or not written yet says nothing. *)
Held == lock.written /\ lock.fresh /\ IsRunning(lock.owner)

Look(p) ==
    /\ pc[p] = "looking"
    /\ Goes(p, IF Held THEN "off" ELSE "probing")
    /\ UNCHANGED <<lock, socket, open, overlapped, slow, crashes>>

(* probeDaemonLockOwner. *)
Probe(p) ==
    /\ pc[p] = "probing"
    /\ \/ Answers /\ Goes(p, "off") /\ UNCHANGED slow
       \/ ~Answers /\ Goes(p, "removing") /\ UNCHANGED slow
       \/ Answers /\ NoAnswerInTime /\ Goes(p, "removing")
    /\ UNCHANGED <<lock, socket, open, overlapped, crashes>>

(* The file is removed by its path, whichever it is by now. *)
RemoveLock(p) ==
    /\ pc[p] = "removing"
    /\ lock' = NoFile
    /\ Goes(p, "reopening")
    /\ UNCHANGED <<socket, open, overlapped, slow, crashes>>

-----------------------------------------------------------------------------
(* runDaemon, with the lease: cleanupSocketPath, the database, the socket. *)
CleanSocketPath(p) ==
    /\ pc[p] = "cleaning"
    /\ Goes(p, IF socket = NoProc THEN "loading" ELSE "asking")
    /\ UNCHANGED <<lock, socket, open, overlapped, slow, crashes>>

Ask(p) ==
    /\ pc[p] = "asking"
    /\ \/ Answers /\ Goes(p, "failing") /\ UNCHANGED slow
       \/ ~Answers /\ Goes(p, "unbinding") /\ UNCHANGED slow
       \/ Answers /\ NoAnswerInTime /\ Goes(p, "unbinding")
    /\ UNCHANGED <<lock, socket, open, overlapped, crashes>>

RemoveSocket(p) ==
    /\ pc[p] = "unbinding"
    /\ socket' = NoProc
    /\ Goes(p, "loading")
    /\ UNCHANGED <<lock, open, overlapped, slow, crashes>>

(* openCuedDatabase, which may throw; recoverInProgressRuns; the heartbeat *)
(* begins.                                                                 *)
OpenDatabase(p) ==
    /\ pc[p] = "loading"
    /\ \/ Goes(p, "binding") /\ UNCHANGED crashes
       \/ /\ crashes < MaxCrashes /\ crashes' = crashes + 1
          /\ Goes(p, "failing")
    /\ UNCHANGED <<lock, socket, open, overlapped, slow>>

(* server.listen fails if the path exists, and the process exits as it is. *)
Listen(p) ==
    /\ pc[p] = "binding"
    /\ \/ socket = NoProc /\ socket' = p /\ Goes(p, "serving") /\ UNCHANGED open
       \/ /\ socket # NoProc
          /\ Goes(p, "off") /\ open' = open \ {p}
          /\ UNCHANGED socket
    /\ UNCHANGED <<lock, overlapped, slow, crashes>>

(* A daemon that finds its lock gone closes the file, and goes on. *)
Heartbeat(p) ==
    /\ pc[p] \in {"binding", "serving"} /\ p \in open
    /\ IF StillOwnsPath(p)
       THEN lock' = [lock EXCEPT !.fresh = TRUE] /\ UNCHANGED open
       ELSE open' = open \ {p} /\ UNCHANGED lock
    /\ UNCHANGED <<socket, pc, overlapped, slow, crashes>>

-----------------------------------------------------------------------------
(* MUTANT: the lease is given back before the database is closed. *)
ShutdownReleasesFirst(p) ==
    /\ pc[p] = "serving"
    /\ socket' = NoProc
    /\ lock' = IF StillOwnsPath(p) THEN NoFile ELSE lock
    /\ Goes(p, "closing")
    /\ UNCHANGED <<open, overlapped, slow, crashes>>

(* shutdown.  server.close unlinks the path of the socket. *)
Shutdown(p) ==
    /\ pc[p] = "serving"
    /\ socket' = NoProc
    /\ Goes(p, "closing")
    /\ UNCHANGED <<lock, open, overlapped, slow, crashes>>

CloseDatabase(p) ==
    /\ pc[p] = "closing"
    /\ Goes(p, "releasing")
    /\ UNCHANGED <<lock, socket, open, overlapped, slow, crashes>>

(* release: whose the path is is looked at, and the path is removed after. *)
(* "failing": cleanupSocketPath or openCuedDatabase has thrown.            *)
AfterRelease(p) == IF pc[p] \in {"releasing", "unlinking"} THEN "tidying" ELSE "off"

CheckPath(p) ==
    /\ pc[p] \in {"releasing", "failing"}
    /\ Goes(p, IF ~StillOwnsPath(p) THEN AfterRelease(p)
               ELSE IF pc[p] = "releasing" THEN "unlinking" ELSE "retracting")
    /\ open' = open \ {p}
    /\ UNCHANGED <<lock, socket, overlapped, slow, crashes>>

Unlink(p) ==
    /\ pc[p] \in {"unlinking", "retracting"}
    /\ lock' = NoFile
    /\ Goes(p, AfterRelease(p))
    /\ UNCHANGED <<socket, open, overlapped, slow, crashes>>

(* The last thing a daemon does is to remove what is at the socket's path. *)
Tidy(p) ==
    /\ pc[p] = "tidying"
    /\ socket' = NoProc
    /\ Goes(p, "off")
    /\ UNCHANGED <<lock, open, overlapped, slow, crashes>>

-----------------------------------------------------------------------------
Crash(p) ==
    /\ pc[p] # "off" /\ crashes < MaxCrashes
    /\ crashes' = crashes + 1
    /\ Goes(p, "off")
    /\ open' = open \ {p}
    /\ UNCHANGED <<lock, socket, overlapped, slow>>

(* SINGLETON_LOCK_STALE_MS pass without a heartbeat: the owner is gone, or *)
(* it is blocked (a long migration, a replay, the machine asleep).         *)
GrowsStale ==
    /\ lock.fresh
    /\ lock' = [lock EXCEPT !.fresh = FALSE]
    /\ UNCHANGED <<socket, pc, open, overlapped, slow, crashes>>

-----------------------------------------------------------------------------
Acquire(p) ==
    \/ OpenLock(p) \/ FillLock(p) \/ Look(p) \/ Probe(p) \/ RemoveLock(p)

ComeUp(p) ==
    \/ CleanSocketPath(p) \/ Ask(p) \/ RemoveSocket(p) \/ OpenDatabase(p) \/ Listen(p)

Leave(p) == CloseDatabase(p) \/ CheckPath(p) \/ Unlink(p) \/ Tidy(p)

Next ==
    /\ \/ \E p \in Procs : \/ Start(p) \/ Acquire(p) \/ ComeUp(p)
                          \/ Heartbeat(p) \/ Shutdown(p) \/ Leave(p) \/ Crash(p)
       \/ GrowsStale
    /\ exposed' = (exposed \/ IsExposed')

Spec == Init /\ [][Next]_vars

(* Processes run; the lock of a dead owner ages; the application starts a  *)
(* daemon while it sees none (DaemonSupervisor.startIfNeeded).             *)
FairSpec ==
    /\ Spec
    /\ \A p \in Procs :
          /\ WF_vars(Acquire(p) /\ Next) /\ WF_vars(ComeUp(p) /\ Next) /\ WF_vars(Leave(p) /\ Next)
          /\ WF_vars(Start(p) /\ Next)
    /\ WF_vars(GrowsStale /\ ~(\E p \in Procs : Owns(p)) /\ Next)

-----------------------------------------------------------------------------
(* The variables stay in their domains. *)
TypeOK ==
    /\ lock \in LockFile \cup {NoFile}
    /\ socket \in Procs \cup {NoProc}
    /\ pc \in [Procs -> {"off"} \cup Acquiring \cup Starting \cup Working \cup Leaving]
    /\ open \subseteq Procs
    /\ overlapped \in BOOLEAN /\ exposed \in BOOLEAN
    /\ slow \in 0..MaxSlow /\ crashes \in 0..MaxCrashes

Undisturbed == ~overlapped /\ ~exposed /\ slow = 0

(* One daemon has the database open, from its start until it has closed    *)
(* it, through crashes, reused pids, and stale locks of daemons that are   *)
(* only asleep.  Not so if two daemons are started at once, if the owner's *)
(* lock goes stale while nobody answers for it, or if a ping times out.    *)
OneDaemon ==
    Undisturbed =>
        \A p, q \in Procs : pc[p] \in Working /\ pc[q] \in Working => p = q

(* A serving daemon keeps its socket, whatever the processes around it do, *)
(* but for one that is leaving.                                            *)
SocketIsKept ==
    [][Undisturbed' =>
          \A p \in Procs :
             /\ socket = p /\ pc[p] = "serving" /\ pc'[p] = "serving"
             /\ \A q \in Procs : pc[q] # "tidying"
             => socket' = p]_vars

(* A daemon comes up in the end, whatever files the dead ones have left. *)
SomeDaemonServes == []<>(\E p \in Procs : pc[p] = "serving")
=============================================================================
